------------------------------ MODULE SkillFiles -------------------------------
(***************************************************************************)
(* The skills panel: a list of skills, a form for a new one, imports from  *)
(* a zip, and for the selected skill a workspace with its files, SKILL.md  *)
(* (Manifest) and helpers, of which one is shown in an editor.             *)
(*                                                                         *)
(* A text is a number, NoText a file that is not there.  A mutation's own    *)
(* callback runs only while the component that sent it is mounted and has  *)
(* not sent another by the same hook: this is the flag live of a request.  *)
(***************************************************************************)
EXTENDS Integers

CONSTANTS
  Skills,      \* names of the user's skills
  Helpers,     \* paths of helper files
  FirstDocs,   \* the files that exist at first, as pairs of a skill and a path
  MaxSkillTexts,    \* bound: texts typed or imported
  MaxSkillCalls  \* bound: mutations sent

Manifest == "SKILL.md"
Paths == Helpers \cup {Manifest}
SkillDocs == Skills \X Paths
NoText == -1
NoSkill == "none"
Form == "form"

ASSUME SkillsAssumption ==
  /\ Manifest \notin Helpers /\ {NoSkill, Form} \cap Skills = {}
  /\ FirstDocs \subseteq SkillDocs
ASSUME SkillBounds == MaxSkillTexts \in Nat \ {0} /\ MaxSkillCalls \in Nat

VARIABLES
  skStore,      \* the rows: a text or NoText for each file
  skSel,        \* selected skill, NoSkill, or Form
  skFile,       \* sel of the mounted workspace
  skEdit,       \* draft and dirty of the workspace, or of the form
  skList,       \* cached list of skills
  skCache,      \* cached answer for each file
  skFetch,      \* files asked for; an invalidation meanwhile asks again, so
                \* that what arrives was read after it
  skListFetch,  \* the list is asked for
  skStale,      \* invalidated while out of view
  skNet,        \* mutations in flight
  skTexts, skSent, skTyped,  \* texts, mutations, and the file each text is for
  skOdd         \* a history excepted below

skData == <<skStore, skList, skListFetch, skTexts, skTyped>>
skVars == <<skStore, skSel, skFile, skEdit, skList, skCache, skFetch, skListFetch, skStale, skNet,
            skTexts, skSent, skTyped, skOdd>>

Unknown == [got |-> "nothing", text |-> NoText, linked |-> {}]
HasSkill(s) == skStore[<<s, Manifest>>] # NoText

\* read_skill_content: a missing file has no content, the manifest brings the
\* names of the helpers.
FileAnswer(d) ==
  [got |-> "answer", text |-> skStore[d],
   linked |-> IF d[2] = Manifest THEN {p \in Helpers : skStore[<<d[1], p>>] # NoText} ELSE {}]

Draft(text) == IF text = NoText THEN 0 ELSE text
Fresh(d) == [draft |-> Draft(skCache[d].text), dirty |-> FALSE]
WorkspaceUp == skSel \in skList
ShownFile == <<skSel, skFile>>

InitSkills ==
  /\ skStore = [d \in SkillDocs |-> IF d \in FirstDocs THEN 1 ELSE NoText]
  /\ skSel = NoSkill /\ skFile = Manifest /\ skEdit = [draft |-> 0, dirty |-> FALSE]
  /\ skList = {} /\ skListFetch = TRUE
  /\ skCache = [d \in SkillDocs |-> Unknown] /\ skFetch = {}
  /\ skStale = {} /\ skNet = {}
  /\ skTexts = 1 /\ skSent = 0 /\ skTyped = [n \in 1 .. MaxSkillTexts |-> Form] /\ skOdd = FALSE

-----------------------------------------------------------------------------
(* What is shown *)

\* Mutant: the workspace has no key, so that it outlives a change of the skill.
MutantKept(s, list) == WorkspaceUp /\ s \in list
\* The workspace stays mounted: its key is the name of the skill.
Kept(s, list) == WorkspaceUp /\ s = skSel /\ s \in list

\* The panel shows file p of skill s; the effect of current?.content resets the
\* editor when the content differs.  The queries that come into view are asked
\* if they were not yet or have been invalidated; a workspace that goes takes
\* the callbacks of its requests with it.
View(s, p, list, stale, net) ==
  LET file == IF Kept(s, list) THEN p ELSE Manifest
      inView == IF s \in list THEN {<<s, Manifest>>, <<s, file>>} ELSE {}
  IN /\ skSel' = s /\ skFile' = file
     /\ skEdit' = CASE s = Form /\ skSel = Form -> skEdit
                    [] s \notin list -> [draft |-> 0, dirty |-> FALSE]
                    [] Kept(s, list) /\ skCache[<<s, file>>].text = skCache[ShownFile].text ->
                         skEdit
                    [] OTHER -> Fresh(<<s, file>>)
     /\ skFetch' = skFetch \cup {d \in inView : d \in stale \/ skCache[d] = Unknown}
     /\ skStale' = stale \ inView
     /\ skNet' = {[r EXCEPT !.live = @ /\ s = skSel /\ (s = Form \/ Kept(s, list))] : r \in net}

\* A hook's mutation is pending.
Hook(kind) == IF kind \in {"save", "add"} THEN {"save", "add"} ELSE {kind}
Pending(kind) == \E r \in skNet : r.live /\ r.by = skSel /\ r.kind \in Hook(kind)

\* What the form of a new skill and the parts of the workspace let one do: its
\* header, the tree of files, and the text of the file shown, which for a
\* helper is there once it was answered.
NewSkillControls == {"leave", "type"} \cup {c \in {"create"} : ~ Pending(c)}
HeaderControls == {"remove"} \cup {c \in {"import"} : ~ Pending(c)}
TreeItems == skCache[<<skSel, Manifest>>].linked \cup {Manifest}
TextControls ==
  {c \in {"type"} : skFile = Manifest \/ skCache[ShownFile] # Unknown}
    \cup {c \in {"save"} : skEdit.dirty /\ ~ Pending(c)}
MainPane == CASE skSel = Form -> NewSkillControls
              [] WorkspaceUp -> HeaderControls \cup {"add", "tree"} \cup TextControls
              [] OTHER -> {}
SkillItems == skList \cup {Form} \cup {s \in {NoSkill} : "leave" \in MainPane}

Pick(s) ==
  /\ s \in SkillItems \ {skSel}
  /\ View(s, Manifest, skList, skStale, skNet)
  /\ UNCHANGED <<skData, skCache, skSent, skOdd>>

\* Another file of the same skill comes up and, its text being equal, not its draft.
DraftCarried ==
  WorkspaceUp /\ skSel' = skSel /\ skFile' # skFile /\ skEdit' # Fresh(<<skSel, skFile'>>)
SelectFile(p) ==
  /\ "tree" \in MainPane /\ p \in TreeItems \ {skFile}
  /\ View(skSel, p, skList, skStale, skNet)
  /\ skOdd' = (skOdd \/ DraftCarried)
  /\ UNCHANGED <<skData, skCache, skSent>>

TypeInto ==
  /\ "type" \in MainPane
  /\ skTexts < MaxSkillTexts /\ skTexts' = skTexts + 1
  /\ skTyped' = [skTyped EXCEPT ![skTexts'] = IF WorkspaceUp THEN ShownFile ELSE Form]
  /\ skEdit' = [draft |-> skTexts', dirty |-> TRUE]
  /\ skOdd' = (skOdd \/ skNet # {})
  /\ UNCHANGED <<skStore, skSel, skFile, skList, skCache, skFetch, skListFetch, skStale, skNet,
                 skSent>>

-----------------------------------------------------------------------------
(* Mutations *)

SkillCall(kind, d, text) ==
  /\ skSent < MaxSkillCalls /\ skSent' = skSent + 1
  /\ skNet' = {[r EXCEPT !.live = @ /\ ~ (r.by = skSel /\ r.kind \in Hook(kind))] : r \in skNet}
       \cup {[kind |-> kind, n |-> skSent', doc |-> d, text |-> text, by |-> skSel,
              live |-> TRUE, was |-> skFile, at |-> "sent", ok |-> TRUE]}
  /\ UNCHANGED <<skStore, skSel, skFile, skEdit, skList, skCache, skFetch, skListFetch, skStale>>

Untyped == UNCHANGED <<skTexts, skTyped, skOdd>>

SaveFile ==
  /\ "save" \in MainPane
  /\ SkillCall("save", ShownFile, skEdit.draft) /\ Untyped

\* Add file writes the empty text, whether or not the file exists.
AddFile(p) == "add" \in MainPane /\ SkillCall("add", <<skSel, p>>, 0) /\ Untyped

DeleteHelper(p) ==
  /\ "tree" \in MainPane /\ p \in TreeItems \ {Manifest}
  /\ SkillCall("delete", <<skSel, p>>, NoText) /\ Untyped

RemoveSkill == "remove" \in MainPane /\ SkillCall("remove", <<skSel, Manifest>>, NoText) /\ Untyped

CreateSkill(s) ==
  /\ "create" \in MainPane
  /\ SkillCall("create", <<s, Manifest>>, skEdit.draft) /\ Untyped

\* Import .zip of the workspace, for its skill.
Reimport ==
  /\ "import" \in MainPane /\ skTexts < MaxSkillTexts /\ skTexts' = skTexts + 1
  /\ skTyped' = [skTyped EXCEPT ![skTexts'] = <<skSel, Manifest>>]
  /\ SkillCall("import", <<skSel, Manifest>>, skTexts') /\ UNCHANGED skOdd

-----------------------------------------------------------------------------
(* The server: skills_store *)

\* save_user_skill_file makes the skill if it is gone; import and the deletion
\* of a skill replace all of its files.
Rows(r) ==
  [d \in SkillDocs |->
     IF d = r.doc THEN r.text
     ELSE IF d[1] # r.doc[1] THEN skStore[d]
     ELSE IF r.kind \in {"remove", "import"} THEN NoText
     ELSE IF r.kind \in {"save", "add"} /\ d[2] = Manifest THEN Draft(skStore[d])
     ELSE skStore[d]]

Answers(r, ok) == skNet' = (skNet \ {r}) \cup {[r EXCEPT !.at = "done", !.ok = ok]}

\* The text shown is stored again as it was read last, after another one was.
Undone ==
  WorkspaceUp /\ skStore[ShownFile] # skCache[ShownFile].text
    /\ skStore'[ShownFile] = skCache[ShownFile].text
Serve(r) ==
  /\ r \in skNet /\ r.at = "sent"
  /\ skStore' = Rows(r) /\ Answers(r, TRUE)
  /\ skOdd' = (skOdd \/ Undone)
  /\ UNCHANGED <<skSel, skFile, skEdit, skList, skCache, skFetch, skListFetch, skStale, skTexts,
                 skSent, skTyped>>

\* The server refuses: too large, an invalid name or path, nothing to delete.
Refuse(r) ==
  /\ r \in skNet /\ r.at = "sent"
  /\ Answers(r, FALSE)
  /\ UNCHANGED <<skStore, skSel, skFile, skEdit, skList, skCache, skFetch, skListFetch, skStale,
                 skTexts, skSent, skTyped, skOdd>>

-----------------------------------------------------------------------------
(* Answers *)

FileArrives(d) ==
  /\ d \in skFetch /\ skFetch' = skFetch \ {d}
  /\ skCache' = [skCache EXCEPT ![d] = FileAnswer(d)]
  /\ skEdit' = IF WorkspaceUp /\ d = ShownFile /\ skCache[d].text # skStore[d]
               THEN [draft |-> Draft(skStore[d]), dirty |-> FALSE] ELSE skEdit
  /\ UNCHANGED <<skData, skSel, skFile, skStale, skNet, skSent, skOdd>>

SkillsArrive ==
  /\ skListFetch /\ skListFetch' = FALSE
  /\ skList' = {s \in Skills : HasSkill(s)}
  /\ View(skSel, skFile, skList', skStale, skNet)
  /\ UNCHANGED <<skStore, skCache, skTexts, skSent, skTyped, skOdd>>

\* The mutation's callback: where it sends the panel.
Target(r) ==
  CASE r.kind = "add" /\ r.ok -> <<skSel, r.doc[2]>>
    [] r.kind = "delete" /\ r.was = r.doc[2] -> <<skSel, Manifest>>
    [] r.kind = "import" /\ r.ok -> <<skSel, Manifest>>
    [] r.kind = "remove" -> <<NoSkill, Manifest>>
    [] r.kind = "create" /\ r.ok -> <<r.doc[1], Manifest>>
    [] OTHER -> ShownFile

\* Mutant: a refused save is taken for a saved one.
MutantClean(r) == r.live /\ r.kind = "save"
\* Only the answer that a save was made clears dirty.
Clean(r) == r.live /\ r.kind = "save" /\ r.ok

\* onSuccess of the hook invalidates the list and every file, then the callback.
Arrive(r) ==
  /\ r \in skNet /\ r.at = "done"
  /\ LET to == IF r.live THEN Target(r) ELSE ShownFile
         cached == {d \in SkillDocs : skCache[d] # Unknown \/ d \in skFetch}
     IN IF Clean(r)
        THEN /\ skEdit' = [skEdit EXCEPT !.dirty = FALSE]
             /\ skFetch' = skFetch \cup {ShownFile, <<skSel, Manifest>>}
             /\ skStale' = (skStale \cup cached) \ {ShownFile, <<skSel, Manifest>>}
             /\ skNet' = skNet \ {r} /\ UNCHANGED <<skSel, skFile>>
        ELSE View(to[1], to[2], skList, skStale \cup cached, skNet \ {r})
  /\ skOdd' = (skOdd \/ DraftCarried)
  /\ skListFetch' = TRUE
  /\ UNCHANGED <<skStore, skList, skCache, skTexts, skSent, skTyped>>

\* The request or its answer is lost: onError.
Lose(r) ==
  /\ r \in skNet /\ skNet' = skNet \ {r}
  /\ skOdd' = TRUE
  /\ UNCHANGED <<skData, skSel, skFile, skEdit, skCache, skFetch, skStale, skSent>>

NextSkills ==
  \/ \E s \in Skills \cup {Form, NoSkill} : Pick(s)
  \/ \E p \in Paths : SelectFile(p) \/ AddFile(p) \/ DeleteHelper(p)
  \/ \E s \in Skills : CreateSkill(s)
  \/ TypeInto \/ SaveFile \/ RemoveSkill \/ Reimport \/ SkillsArrive
  \/ \E r \in skNet : Serve(r) \/ Refuse(r) \/ Arrive(r) \/ Lose(r)
  \/ \E d \in SkillDocs : FileArrives(d)

SpecSkills == InitSkills /\ [][NextSkills]_skVars

-----------------------------------------------------------------------------
(* Properties *)

\* A text typed in one skill is never saved under another, whichever was picked
\* while it was saved, refetched or refused (SkillsPanel.tsx:153).
SkillKeepsItsText ==
  \A r \in skNet : r.kind = "save" /\ skTyped[r.text] # Form =>
    skTyped[r.text][1] = r.doc[1]

\* An editor that offers nothing to save shows what is stored, once every
\* request was answered (SkillWorkspace.tsx:66-69).  Excepted are histories in
\* which one typed while a request was under way or lost an answer, and those in
\* which the draft stays because the text read equals the last read one: that of
\* another file, or of the same file after what was saved meanwhile is undone.
CleanMeansSaved ==
  /\ WorkspaceUp /\ ~ skEdit.dirty /\ ~ skOdd
  /\ skNet = {} /\ skFetch = {}
  => skEdit.draft = Draft(skStore[ShownFile])
=============================================================================
