------------------------------ MODULE MemoryFiles ------------------------------
(***************************************************************************)
(* The memory panel: AGENTS.md and the files of /memories/, viewed and     *)
(* edited one at a time, saved, toggled and deleted, while the agent may   *)
(* write them too.  The server reads a file before it writes it back.      *)
(*                                                                         *)
(* A content is a number; 0 is the empty one, what a missing file reads as.*)
(***************************************************************************)
EXTENDS Integers, FiniteSets

CONSTANTS
  Files,       \* paths under /memories/
  FirstFiles,  \* those that exist at first
  MaxMemoryTexts,    \* bound: contents typed or written by the agent
  MaxMemoryCalls  \* bound: mutations sent

Agents == "AGENTS.md"
Docs == Files \cup {Agents}
NewForm == "new"

ASSUME FilesAssumption == FirstFiles \subseteq Files /\ {Agents, NewForm} \cap Files = {}
ASSUME MemoryBounds == MaxMemoryTexts \in Nat /\ MaxMemoryCalls \in Nat

VARIABLES
  mmDoc,      \* the store: content and enabled of each document
  mmSel,      \* sel of MemoryPanel
  mmEditor,   \* state of the mounted editor or form
  mmCache,    \* cached content of each document
  mmList,     \* cached list of files
  mmFetch,    \* per document: no fetch, one under way, or its answer
  mmListFetch,
  mmStale,    \* documents whose cached content was invalidated while not shown
  mmNet,      \* mutations in flight
  mmTexts, mmSent,   \* how many there were
  mmTyped,    \* the document each text was typed for
  mmOdd       \* the agent wrote, a request was refused, mutations overlapped, or
              \* the user typed on while a save was pending

mmVars == <<mmDoc, mmSel, mmEditor, mmCache, mmList, mmFetch, mmListFetch, mmStale, mmNet,
            mmTexts, mmSent, mmTyped, mmOdd>>

Gone == [there |-> FALSE, content |-> 0, enabled |-> TRUE]
Doc(content, enabled) == [there |-> TRUE, content |-> content, enabled |-> enabled]
NotLoaded == -1
Idle == -2
Asked == -1
Viewing(content) ==
  [editing |-> FALSE, draft |-> content, dirty |-> FALSE, saving |-> 0, removing |-> 0]
Exists(list) == {f \in Files : list[f].there}
Flags == [f \in Files |-> [mmDoc[f] EXCEPT !.content = 0]]

InitMemory ==
  /\ mmDoc = [d \in Docs |-> IF d \in FirstFiles THEN Doc(1, TRUE)
                             ELSE IF d = Agents THEN Doc(0, TRUE) ELSE Gone]
  /\ mmSel = Agents /\ mmEditor = Viewing(0)
  /\ mmCache = [d \in Docs |-> NotLoaded]
  /\ mmList = [f \in Files |-> Gone]
  /\ mmFetch = [d \in Docs |-> IF d = Agents THEN Asked ELSE Idle] /\ mmListFetch = Asked
  /\ mmStale = {} /\ mmNet = {}
  /\ mmTexts = 1 /\ mmSent = 0 /\ mmOdd = FALSE
  /\ mmTyped = [n \in 1 .. MaxMemoryTexts |-> NewForm]

-----------------------------------------------------------------------------
(* The panel *)

Loaded(d) == IF mmCache[d] = NotLoaded THEN 0 ELSE mmCache[d]

\* Mutant: the editor is kept when another file is selected (no key).
MutantMount(d) == mmEditor' = [mmEditor EXCEPT !.saving = 0]
\* The editor is mounted anew: its effect takes the cached content.
Mount(d) == mmEditor' = Viewing(Loaded(d))

\* Of the main pane: what the editor of AGENTS.md, that of a file and the form of
\* a new file let one do.
AgentsControls ==
  IF mmEditor.editing
  THEN {"cancel", "type"} \cup {c \in {"save"} : mmEditor.dirty /\ mmEditor.saving = 0}
  ELSE {"edit"}
FileControls ==
  {"delete"} \cup
    IF mmEditor.editing
    THEN {"cancel", "type"} \cup {c \in {"save"} : mmEditor.dirty /\ mmEditor.saving = 0}
    ELSE {"edit"}
FormControls == {"leave", "type"} \cup {c \in {"save"} : mmEditor.saving = 0}
Controls == CASE mmSel = NewForm -> FormControls
              [] mmSel = Agents -> AgentsControls
              [] OTHER -> FileControls

\* Of the list.
Items == {Agents} \cup Exists(mmList)

ShowDoc(d) ==
  /\ mmSel' = d
  /\ Mount(d)
  /\ mmFetch' = [mmFetch EXCEPT ![d] =
       IF mmCache[d] = NotLoaded \/ d \in mmStale THEN Asked ELSE @]
  /\ mmStale' = mmStale \ {d}

Select(d) ==
  /\ d # mmSel /\ d \in Items
  /\ ShowDoc(d)
  /\ UNCHANGED <<mmDoc, mmCache, mmList, mmListFetch, mmNet, mmTexts, mmSent, mmTyped, mmOdd>>

OpenForm ==
  /\ mmSel # NewForm
  /\ mmSel' = NewForm /\ mmEditor' = [Viewing(0) EXCEPT !.editing = TRUE]
  /\ UNCHANGED <<mmDoc, mmCache, mmList, mmFetch, mmListFetch, mmStale, mmNet, mmTexts, mmSent,
                 mmTyped, mmOdd>>

Edits(editor) ==
  /\ mmEditor' = editor
  /\ UNCHANGED <<mmDoc, mmSel, mmCache, mmList, mmFetch, mmListFetch, mmStale, mmNet, mmSent>>

StartEditing ==
  /\ "edit" \in Controls
  /\ Edits([mmEditor EXCEPT !.editing = TRUE]) /\ UNCHANGED <<mmTexts, mmTyped, mmOdd>>

TypeText ==
  /\ "type" \in Controls /\ mmTexts < MaxMemoryTexts
  /\ mmTexts' = mmTexts + 1
  /\ mmTyped' = [mmTyped EXCEPT ![mmTexts'] = mmSel]
  /\ Edits([mmEditor EXCEPT !.draft = mmTexts', !.dirty = TRUE])
  /\ mmOdd' = (mmOdd \/ mmEditor.saving # 0)

Reset(content) == [mmEditor EXCEPT !.editing = FALSE, !.draft = content, !.dirty = FALSE]

\* Cancel of an editor; the cancel of the form selects AGENTS.md.
CancelEditing ==
  /\ "cancel" \in Controls
  /\ Edits(Reset(Loaded(mmSel)))
  /\ UNCHANGED <<mmTexts, mmTyped>> /\ mmOdd' = (mmOdd \/ mmEditor.saving # 0)

CancelForm ==
  /\ "leave" \in Controls
  /\ ShowDoc(Agents)
  /\ UNCHANGED <<mmDoc, mmCache, mmList, mmListFetch, mmNet, mmTexts, mmSent, mmTyped, mmOdd>>

MemoryCall(kind, d, content, enabled) ==
  /\ mmSent < MaxMemoryCalls /\ mmSent' = mmSent + 1
  /\ mmNet' = mmNet \cup {[kind |-> kind, n |-> mmSent', doc |-> d, content |-> content,
                           enabled |-> enabled, at |-> "sent", ok |-> TRUE]}
  /\ mmOdd' = (mmOdd \/ mmNet # {})
  /\ UNCHANGED <<mmDoc, mmSel, mmCache, mmList, mmFetch, mmListFetch, mmStale, mmTexts, mmTyped>>

\* Save of an editor, and of the form, which names the file.
SaveDoc ==
  /\ "save" \in Controls
  /\ \E d \in IF mmSel = NewForm THEN Files ELSE {mmSel} :
       MemoryCall("save", d, mmEditor.draft, TRUE)
  /\ mmEditor' = [mmEditor EXCEPT !.saving = mmSent']

ToggleFile(f) ==
  /\ f \in Exists(mmList)
  /\ MemoryCall("toggle", f, 0, ~ mmList[f].enabled) /\ UNCHANGED mmEditor

DeleteMemory ==
  /\ "delete" \in Controls
  /\ MemoryCall("delete", mmSel, 0, TRUE)
  /\ mmEditor' = [mmEditor EXCEPT !.removing = mmSent']

-----------------------------------------------------------------------------
(* The server: memory_store *)

At(r, at) == mmNet' = (mmNet \ {r}) \cup {[r EXCEPT !.at = at]}
Store(d, doc) == mmDoc' = [mmDoc EXCEPT ![d] = doc]

\* write_memory_file and toggle_memory_file read the file; what they write back
\* in the next step is decided by what they read here.  A deletion is one step.
ReadBack(r) ==
  /\ r \in mmNet /\ r.at = "sent"
  /\ LET old == mmDoc[r.doc] IN
     mmNet' = (mmNet \ {r}) \cup {
       CASE r.kind = "save" -> [r EXCEPT !.at = "read", !.enabled = old.enabled]
         [] r.kind = "toggle" /\ old.there -> [r EXCEPT !.at = "read", !.content = old.content]
         [] r.kind = "toggle" /\ ~ old.there -> [r EXCEPT !.at = "done", !.ok = FALSE]
         [] r.kind = "delete" -> [r EXCEPT !.at = "done"]}
  /\ IF r.kind = "delete" THEN Store(r.doc, Gone) ELSE UNCHANGED mmDoc
  /\ UNCHANGED <<mmSel, mmEditor, mmCache, mmList, mmFetch, mmListFetch, mmStale, mmTexts,
                 mmSent, mmTyped, mmOdd>>

WriteBack(r) ==
  /\ r \in mmNet /\ r.at = "read"
  /\ Store(r.doc, Doc(r.content, r.enabled))
  /\ At(r, "done")
  /\ UNCHANGED <<mmSel, mmEditor, mmCache, mmList, mmFetch, mmListFetch, mmStale, mmTexts, mmSent,
                 mmTyped, mmOdd>>

\* The store refuses and says ok: FALSE, with status 200.
Refused(r) ==
  /\ r \in mmNet /\ r.at = "sent"
  /\ mmNet' = (mmNet \ {r}) \cup {[r EXCEPT !.at = "done", !.ok = FALSE]}
  /\ mmOdd' = TRUE
  /\ UNCHANGED <<mmDoc, mmSel, mmEditor, mmCache, mmList, mmFetch, mmListFetch, mmStale, mmTexts,
                 mmSent, mmTyped>>

AgentWrites(d) ==
  /\ mmTexts < MaxMemoryTexts /\ mmTexts' = mmTexts + 1
  /\ mmTyped' = [mmTyped EXCEPT ![mmTexts'] = d]
  /\ Store(d, Doc(mmTexts', mmDoc[d].enabled))
  /\ mmOdd' = TRUE
  /\ UNCHANGED <<mmSel, mmEditor, mmCache, mmList, mmFetch, mmListFetch, mmStale, mmNet, mmSent>>

ReadDoc(d) ==
  /\ mmFetch[d] = Asked
  /\ mmFetch' = [mmFetch EXCEPT ![d] = mmDoc[d].content]
  /\ UNCHANGED <<mmDoc, mmSel, mmEditor, mmCache, mmList, mmListFetch, mmStale, mmNet, mmTexts,
                 mmSent, mmTyped, mmOdd>>

-----------------------------------------------------------------------------
(* Answers *)

\* The effect of data?.content: only a changed content resets the editor.
Content(d) ==
  /\ mmFetch[d] \in Nat
  /\ mmFetch' = [mmFetch EXCEPT ![d] = Idle]
  /\ mmCache' = [mmCache EXCEPT ![d] = mmFetch[d]]
  /\ mmEditor' = IF d = mmSel /\ mmCache[d] # mmFetch[d]
                 THEN Reset(mmFetch[d]) ELSE mmEditor
  /\ UNCHANGED <<mmDoc, mmSel, mmList, mmListFetch, mmStale, mmNet, mmTexts, mmSent, mmTyped,
                 mmOdd>>

\* The list of files is read and arrives in one step.
List ==
  /\ mmListFetch = Asked
  /\ mmListFetch' = Idle /\ mmList' = Flags
  /\ UNCHANGED <<mmDoc, mmSel, mmEditor, mmCache, mmFetch, mmStale, mmNet, mmTexts, mmSent,
                 mmTyped, mmOdd>>

Invalidates(r) == IF r.doc = Agents THEN {Agents} ELSE Files

\* Mutant: only the list is invalidated.
MutantFetched(r, d) == mmFetch' = mmFetch /\ mmStale' = mmStale
\* invalidateQueries: what is shown is fetched again, the rest when it is shown.
Fetched(r, d) ==
  /\ mmFetch' = [e \in Docs |->
       IF e = d /\ (e \in Invalidates(r) \cup mmStale \/ mmCache[e] = NotLoaded)
       THEN Asked ELSE mmFetch[e]]
  /\ mmStale' = (mmStale \cup Invalidates(r)) \ {d}

\* onSuccess of the mutation, then the one given to mutate, which is dropped if
\* the component that called it is gone.  Neither looks at ok, but the form's.
Mutated(r) ==
  /\ r \in mmNet /\ r.at = "done"
  /\ mmNet' = mmNet \ {r}
  /\ mmListFetch' = IF r.doc = Agents THEN mmListFetch ELSE Asked
  /\ LET mine == r.kind = "save" /\ mmEditor.saving = r.n
         removed == r.kind = "delete" /\ mmEditor.removing = r.n
         next == IF removed THEN Agents
                 ELSE IF mine /\ mmSel = NewForm /\ r.ok THEN r.doc ELSE mmSel
     IN /\ Fetched(r, next)
        /\ mmSel' = next
        /\ IF next # mmSel THEN mmEditor' = Viewing(Loaded(next))
           ELSE mmEditor' = IF mine THEN [mmEditor EXCEPT !.saving = 0,
                                            !.editing = (mmSel = NewForm)] ELSE mmEditor
  /\ UNCHANGED <<mmDoc, mmCache, mmList, mmTexts, mmSent, mmTyped, mmOdd>>

NextMemory ==
  \/ \E d \in Docs : Select(d) \/ AgentWrites(d) \/ ReadDoc(d) \/ Content(d)
  \/ \E f \in Files : ToggleFile(f)
  \/ OpenForm \/ StartEditing \/ TypeText \/ CancelEditing \/ CancelForm \/ SaveDoc
  \/ DeleteMemory \/ List
  \/ \E r \in mmNet : ReadBack(r) \/ WriteBack(r) \/ Refused(r) \/ Mutated(r)

SpecMemory == InitMemory /\ [][NextMemory]_mmVars

-----------------------------------------------------------------------------
(* Properties *)

\* What is saved under a name was typed for it: the text of one file never
\* reaches another, whatever was selected, cached or still loading meanwhile
\* (MemoryPanel.tsx:174 gives each file an editor of its own).
SavesItsOwnText ==
  \A r \in mmNet : r.kind = "save" /\ r.content # 0 => mmTyped[r.content] \in {r.doc, NewForm}

\* With nothing under way the panel tells the truth: the document shown is the
\* stored one, with its saved text, and the list has the stored files with
\* their switches.  Excepted are histories in which somebody interfered: the
\* agent wrote, a request was refused (its answer is not looked at), two
\* mutations overlapped on the server, or one typed on while a save was pending.
PanelTellsTruth ==
  ~ mmOdd /\ mmNet = {} /\ mmListFetch = Idle /\ (\A d \in Docs : mmFetch[d] = Idle) =>
    /\ mmList = Flags
    /\ mmSel \in Docs /\ ~ mmEditor.editing => mmEditor.draft = mmDoc[mmSel].content
=============================================================================
