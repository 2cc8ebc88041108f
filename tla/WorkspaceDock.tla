----------------------------- MODULE WorkspaceDock -----------------------------
(***************************************************************************)
(* The dock with the files of the chat in view: the tree, with creation,   *)
(* renaming, deletion and upload, or one file, viewed or edited.  The      *)
(* agent writes the same files.  Chats are switched elsewhere on the page. *)
(*                                                                         *)
(* A text is a number, NoFile a file that is not there, Unread one that    *)
(* was never fetched.  A query read and its answer are one step: an        *)
(* invalidation meanwhile cancels the fetch of a query in view and asks    *)
(* again.  The answer to one that is out of view counts as fresh, though   *)
(* it may have been read before: such histories are marked "left".         *)
(***************************************************************************)
EXTENDS Integers, FiniteSets

CONSTANTS
  Rooms,         \* chats with a workspace of their own
  FirstRoom,
  DockFiles,     \* pairs of a chat and a path: the files that may be there
  FirstPath,     \* the file that each workspace has at first, with text 1
  MaxSwitches,   \* bound: changes of the chat
  MaxDockCalls,  \* bound: mutations under way
  MaxDockActs    \* bound: mutations sent, and files written by the agent

TreeKey == "tree"
DockPaths == {d[2] : d \in DockFiles}
PathsOf(room) == {p \in DockPaths : <<room, p>> \in DockFiles}
Places == Rooms \X DockPaths
Keys == Rooms \X (DockPaths \cup {TreeKey})
NoFile == -1
Unread == -2
Typed == 2
Closed == "closed"

ASSUME DockAssumption ==
  /\ FirstRoom \in Rooms /\ Rooms \X {FirstPath} \subseteq DockFiles
  /\ {TreeKey, Closed} \cap DockPaths = {}
ASSUME DockBounds == MaxDockActs \in Nat /\ MaxDockCalls \in Nat /\ MaxSwitches \in Nat

VARIABLES
  wdDisk,    \* the text of each file
  wdRoom,    \* threadId of the store
  wdSel,     \* selected, or Closed
  wdEdit,    \* editing and draft of the file view, and the file the draft is of
  wdTree, wdCache,    \* cached answers
  wdAsked, wdStale,   \* queries asked, and invalidated while out of view
  wdNet,     \* mutations under way
  wdTold,    \* the page was told of the agent's last write
  wdActs, wdSwitches,
  wdOdd      \* histories excepted below: "moved" and "left"

wdVars == <<wdDisk, wdRoom, wdSel, wdEdit, wdTree, wdCache, wdAsked, wdStale, wdNet,
            wdTold, wdActs, wdSwitches, wdOdd>>

wdQueries == <<wdTree, wdCache, wdAsked, wdStale>>
wdBounds == <<wdActs, wdSwitches>>

OnDisk(room) == {p \in PathsOf(room) : wdDisk[<<room, p>>] # NoFile}
Act == wdActs < MaxDockActs /\ wdActs' = wdActs + 1
NewText == wdActs + 3
Opened == <<wdRoom, wdSel>>
TextOf(d) == IF wdCache[d] = Unread THEN 0 ELSE wdCache[d]
ViewOf(d) == [editing |-> FALSE, draft |-> TextOf(d), of |-> d]
NoView == [editing |-> FALSE, draft |-> 0, of |-> <<FirstRoom, FirstPath>>]

InitDock ==
  /\ wdDisk = [d \in Places |-> IF d[2] = FirstPath THEN 1 ELSE NoFile]
  /\ wdRoom = FirstRoom /\ wdSel = Closed /\ wdEdit = NoView
  /\ wdTree = [r \in Rooms |-> {}] /\ wdCache = [d \in Places |-> Unread]
  /\ wdAsked = {<<FirstRoom, TreeKey>>} /\ wdStale = {<<r, TreeKey>> : r \in Rooms \ {FirstRoom}}
  /\ wdNet = {} /\ wdTold = TRUE
  /\ wdActs = 0 /\ wdSwitches = 0
  /\ wdOdd = {}

-----------------------------------------------------------------------------
(* What is in view *)

InView(room, sel) == {<<room, TreeKey>>} \cup (IF sel = Closed THEN {} ELSE {<<room, sel>>})

\* The file view has no key: it outlives a change of the file, and its effect
\* takes the new text only where there is one and it differs.
Looks(room, sel, stale, net) ==
  LET new == <<room, sel>> IN
  /\ wdRoom' = room /\ wdSel' = sel
  /\ wdEdit' = CASE sel = Closed -> NoView
                 [] sel # Closed /\ wdSel = Closed -> ViewOf(new)
                 [] OTHER -> IF wdCache[new] \in {Unread, wdCache[Opened]} THEN wdEdit
                             ELSE [wdEdit EXCEPT !.draft = wdCache[new], !.of = new]
  /\ wdAsked' = wdAsked \cup
       {k \in InView(room, sel) : k \in stale \/ (k[2] # TreeKey /\ wdCache[k] = Unread)}
  /\ wdStale' = stale \ InView(room, sel)
  /\ wdNet' = {[q EXCEPT !.live = @ /\ (q.kind # "write" \/ sel # Closed)] : q \in net}

\* Mutant: the open file stays open when the chat changes.
MutantAfterSwitch == wdSel
\* The effect of threadId: nothing is open.
AfterSwitch == Closed

\* What a row of the tree and the open file let one do.  A file can be edited
\* once it was fetched.
RowControls(p) ==
  IF wdSel = Closed /\ p \in wdTree[wdRoom] THEN {"open", "rename", "delete"} ELSE {}
Editable == wdSel # Closed /\ wdCache[Opened] # Unread
ViewControls ==
  {c \in {"back"} : wdSel # Closed} \cup
    CASE ~ Editable -> {}
      [] Editable /\ ~ wdEdit.editing -> {"edit"}
      [] OTHER -> {"cancel", "type"}
                    \cup {c \in {"save"} : ~ \E q \in wdNet : q.kind = "write" /\ q.live}

SwitchRoom(room) ==
  /\ room # wdRoom /\ wdSwitches < MaxSwitches /\ wdSwitches' = wdSwitches + 1
  /\ Looks(room, AfterSwitch, wdStale, wdNet)
  /\ UNCHANGED <<wdDisk, wdTree, wdCache, wdTold, wdActs, wdOdd>>

OpenFile(p) ==
  /\ "open" \in RowControls(p)
  /\ Looks(wdRoom, p, wdStale, wdNet)
  /\ UNCHANGED <<wdDisk, wdTree, wdCache, wdTold, wdBounds, wdOdd>>

CloseFile ==
  /\ "back" \in ViewControls /\ Looks(wdRoom, Closed, wdStale, wdNet)
  /\ UNCHANGED <<wdDisk, wdTree, wdCache, wdTold, wdBounds, wdOdd>>

\* The dock is closed and opened again.  It stays mounted, its file view does not.
Reopen ==
  /\ wdSel # Closed /\ wdSwitches < MaxSwitches /\ wdSwitches' = wdSwitches + 1
  /\ wdEdit' = ViewOf(Opened)
  /\ wdNet' = {[q EXCEPT !.live = @ /\ q.kind # "write"] : q \in wdNet}
  /\ UNCHANGED <<wdDisk, wdRoom, wdSel, wdQueries, wdTold, wdActs, wdOdd>>

\* The tree is fetched again.
Refresh ==
  /\ wdAsked' = wdAsked \cup {<<wdRoom, TreeKey>>}
  /\ UNCHANGED <<wdDisk, wdRoom, wdSel, wdEdit, wdTree, wdCache, wdStale, wdNet, wdTold, wdBounds,
                 wdOdd>>

DockPage(edit) ==
  /\ wdEdit' = edit
  /\ UNCHANGED <<wdDisk, wdRoom, wdSel, wdQueries, wdNet, wdTold, wdBounds, wdOdd>>

StartFileEdit ==
  "edit" \in ViewControls /\ DockPage([wdEdit EXCEPT !.editing = TRUE])

CancelEdit ==
  "cancel" \in ViewControls /\ DockPage(ViewOf(Opened))

\* Whatever is typed is one text.
EditText ==
  "type" \in ViewControls /\ DockPage([wdEdit EXCEPT !.draft = Typed, !.of = Opened])

-----------------------------------------------------------------------------
(* Mutations *)

\* The view's own hook is "write"; of the dock's hook for creations only the
\* latest call has its callback.
Sent(kind, p, to, text) ==
  {[q EXCEPT !.live = @ /\ ~ (kind = "create" /\ q.kind = "create")] : q \in wdNet}
    \cup {[kind |-> kind, n |-> wdActs', file |-> <<wdRoom, p>>, to |-> to, text |-> text,
           of |-> wdEdit.of, live |-> TRUE, at |-> "sent"]}

DockCall(kind, p, to, text) ==
  /\ Act /\ Cardinality(wdNet) < MaxDockCalls
  /\ wdNet' = Sent(kind, p, to, text)
  /\ UNCHANGED <<wdDisk, wdRoom, wdSel, wdEdit, wdQueries, wdTold, wdSwitches, wdOdd>>

SaveText ==
  /\ "save" \in ViewControls
  /\ DockCall("write", wdSel, wdSel, wdEdit.draft)

\* New file, which closes the open one, and its name: an empty text is written,
\* also where there is a file already.
Create(p) ==
  /\ Act /\ Cardinality(wdNet) < MaxDockCalls
  /\ Looks(wdRoom, Closed, wdStale, Sent("create", p, p, 0))
  /\ UNCHANGED <<wdDisk, wdTree, wdCache, wdTold, wdSwitches, wdOdd>>

Upload(p) ==
  DockCall("upload", p, p, NewText)

RemoveFile(p) ==
  /\ "delete" \in RowControls(p)
  /\ DockCall("delete", p, p, NoFile)

\* The tree is in view, so that the callback, which looks whether the file was
\* open when it was renamed, never has anything to do.
RenameFile(p, to) ==
  /\ "rename" \in RowControls(p) /\ to # p
  /\ DockCall("rename", p, to, 0)

\* workspace.py; os.replace overwrites the target.
WrittenBy(q) ==
  LET target == <<q.file[1], q.to>> IN
  IF q.kind = "rename" THEN [wdDisk EXCEPT ![target] = wdDisk[q.file], ![q.file] = NoFile]
  ELSE [wdDisk EXCEPT ![q.file] = q.text]

ServeDock(q) ==
  /\ q \in wdNet /\ q.at = "sent"
  /\ wdNet' = (wdNet \ {q}) \cup {[q EXCEPT !.at = "done"]}
  /\ \/ /\ q.kind \notin {"delete", "rename"} \/ wdDisk[q.file] # NoFile
        /\ wdDisk' = WrittenBy(q)
     \/ wdDisk' = wdDisk
  /\ UNCHANGED <<wdRoom, wdSel, wdEdit, wdQueries, wdTold, wdBounds, wdOdd>>

AgentSaves(d) ==
  /\ Act
  /\ wdDisk' = [wdDisk EXCEPT ![d] = NewText]
  /\ wdTold' = FALSE
  /\ UNCHANGED <<wdRoom, wdSel, wdEdit, wdQueries, wdNet, wdSwitches, wdOdd>>

-----------------------------------------------------------------------------
(* Answers *)

\* Mutant: only the trees are invalidated.
MutantInvalidated == Rooms \X {TreeKey}
\* invalidateQueries(["workspace"]): every query that was ever asked.
Invalidated == {k \in Keys : k[2] = TreeKey \/ wdCache[k] # Unread \/ k \in wdAsked}

\* The queries in view are asked again, the others when they are next in view.
InvalidateAll(net) ==
  /\ Looks(wdRoom, wdSel, wdStale \cup Invalidated, net)
  /\ wdOdd' = IF wdAsked \subseteq InView(wdRoom, wdSel) THEN wdOdd ELSE wdOdd \cup {"left"}

\* tool.completed of the agent's run.
ToolCompleted ==
  /\ ~ wdTold /\ wdTold' = TRUE
  /\ InvalidateAll(wdNet)
  /\ UNCHANGED <<wdDisk, wdTree, wdCache, wdBounds>>

DockAnswer(q) ==
  /\ q \in wdNet /\ q.at = "done"
  /\ InvalidateAll((wdNet \ {q}) \cup
       IF q.kind \in {"write", "create"} THEN {[q EXCEPT !.at = "refetch"]} ELSE {})
  /\ UNCHANGED <<wdDisk, wdTree, wdCache, wdTold, wdBounds>>

\* The mutation settles when the queries in view were fetched again or asked
\* once more, so at any time here; then its callback.  Neither looks at ok.
DockSettles(q) ==
  /\ q \in wdNet /\ q.at = "refetch"
  /\ IF q.kind = "create" /\ q.live
     THEN /\ Looks(wdRoom, q.to, wdStale, wdNet \ {q})
          /\ wdOdd' = IF wdSel = Closed THEN wdOdd ELSE wdOdd \cup {"moved"}
     ELSE /\ wdNet' = wdNet \ {q}
          /\ wdEdit' = IF q.kind = "write" /\ q.live THEN [wdEdit EXCEPT !.editing = FALSE]
                       ELSE wdEdit
          /\ UNCHANGED <<wdRoom, wdSel, wdAsked, wdStale, wdOdd>>
  /\ UNCHANGED <<wdDisk, wdTree, wdCache, wdTold, wdBounds>>

\* A tree, or a file: an error (the file is gone) keeps what was cached.
DockFetched(k) ==
  /\ k \in wdAsked /\ wdAsked' = wdAsked \ {k} /\ wdStale' = wdStale \ {k}
  /\ IF k[2] = TreeKey
     THEN /\ wdTree' = [wdTree EXCEPT ![k[1]] = OnDisk(k[1])]
          /\ UNCHANGED <<wdCache, wdEdit>>
     ELSE /\ wdCache' = IF wdDisk[k] = NoFile THEN wdCache ELSE [wdCache EXCEPT ![k] = wdDisk[k]]
          /\ wdEdit' = IF k = Opened /\ wdCache'[k] # wdCache[k]
                       THEN [wdEdit EXCEPT !.draft = wdDisk[k], !.of = k] ELSE wdEdit
          /\ UNCHANGED wdTree
  /\ UNCHANGED <<wdDisk, wdRoom, wdSel, wdNet, wdTold, wdBounds, wdOdd>>

NextDock ==
  \/ \E r \in Rooms : SwitchRoom(r)
  \/ \E p \in PathsOf(wdRoom) : OpenFile(p) \/ Create(p) \/ Upload(p) \/ RemoveFile(p)
  \/ \E p, to \in PathsOf(wdRoom) : RenameFile(p, to)
  \/ CloseFile \/ Reopen \/ Refresh \/ StartFileEdit \/ CancelEdit \/ EditText \/ SaveText
  \/ \E d \in DockFiles : AgentSaves(d)
  \/ ToolCompleted
  \/ \E q \in wdNet : ServeDock(q) \/ DockAnswer(q) \/ DockSettles(q)
  \/ \E k \in Keys : DockFetched(k)

SpecDock == InitDock /\ [][NextDock]_wdVars

-----------------------------------------------------------------------------
(* Properties *)

\* What is saved in a file was typed for it or loaded from it, whichever files
\* and chats were entered meanwhile (WorkspaceDock.tsx:377-384).  Excepted: a
\* creation answered late moved a file view to its file.
DockSavesItsOwn ==
  \A q \in wdNet : q.kind = "write" /\ "moved" \notin wdOdd => q.of = q.file

\* With nothing under way and the page told of what the agent did, the tree is
\* the directory, and the file in view has the text on disk
\* (JoyjoyRuntimeProvider.tsx:365-369, workspace.ts:108).  Excepted: files
\* changed while a fetch of a chat that was left was under way.
DockShowsDisk ==
  wdNet = {} /\ wdAsked = {} /\ wdTold /\ "left" \notin wdOdd =>
    /\ wdTree[wdRoom] = OnDisk(wdRoom)
    /\ Editable /\ wdDisk[Opened] # NoFile => wdCache[Opened] = wdDisk[Opened]
=============================================================================
