------------------------------- MODULE Composer -------------------------------
(***************************************************************************)
(* What the user sends and what it is sent with: the draft, the files      *)
(* attached to it, which are uploaded into the conversation's workspace    *)
(* when it is sent, the model and the effort picked for it, and the badge  *)
(* of the tokens used, which events of the run and loads of the thread     *)
(* write.  The draft and the picks belong to the page and not to a thread. *)
(*                                                                         *)
(* A file is its name: two uploads of it are the same file.                *)
(***************************************************************************)
EXTENDS Integers, Sequences

CONSTANTS
  Conversations,
  FirstConversation,
  Attachables,   \* files there are to attach
  Engines,       \* models
  FirstEngine,
  MaxSends,      \* bound: messages sent
  MaxMoves       \* bound: changes of the thread, picks of a model, probes

Efforts == {"off", "high"}

ASSUME ComposerBounds == /\ FirstConversation \in Conversations /\ FirstEngine \in Engines
                         /\ MaxSends \in Nat /\ MaxMoves \in Nat

VARIABLES
  cpThread,   \* threadId
  cpDraft,    \* the composer: a text, with what it quotes, and files
  cpPick,     \* model and effort
  cpOffer,    \* the models of the cached list that support an effort
  cpCapable,  \* those of the server
  cpSending,  \* messages whose files are being uploaded
  cpStored,   \* thread -> files in its workspace
  cpRun,      \* the run under way, as it was posted
  cpUsage,    \* the thread whose usage the badge shows, or none
  cpLoad,     \* loads of a thread under way; the last is the one loadSeq is of
  cpCounts

cpVars == <<cpThread, cpDraft, cpPick, cpOffer, cpCapable, cpSending, cpStored, cpRun,
            cpUsage, cpLoad, cpCounts>>

NoThread == "none"
EmptyDraft == [text |-> FALSE, files |-> {}]
NoRunYet == [thread |-> NoThread, sentIn |-> NoThread, files |-> {}, shown |-> "off",
             known |-> TRUE, effort |-> "off"]

InitComposer ==
  /\ cpThread = FirstConversation /\ cpDraft = EmptyDraft
  /\ cpPick = [engine |-> FirstEngine, effort |-> "off"]
  /\ cpCapable = {FirstEngine} /\ cpOffer = cpCapable
  /\ cpSending = {} /\ cpStored = [t \in Conversations |-> {}]
  /\ cpRun = NoRunYet /\ cpUsage = NoThread /\ cpLoad = <<>>
  /\ cpCounts = [sends |-> 0, moves |-> 0]

Moved == cpCounts.moves < MaxMoves /\ cpCounts' = [cpCounts EXCEPT !.moves = @ + 1]
KeepRuns == UNCHANGED <<cpSending, cpStored, cpRun>>
KeepPage == UNCHANGED <<cpThread, cpUsage, cpLoad>>
KeepPicks == UNCHANGED <<cpPick, cpOffer, cpCapable>>

-----------------------------------------------------------------------------
(* The draft *)

Edit(draft) ==
  /\ draft # cpDraft /\ cpDraft' = draft
  /\ KeepRuns /\ KeepPage /\ KeepPicks /\ UNCHANGED cpCounts

\* The input; what a trigger inserts, the name of a skill or of a tool; the prompt a
\* generated button composes.
TypeDraft == Edit([cpDraft EXCEPT !.text = TRUE])

AddAttachment(f) == Edit([cpDraft EXCEPT !.files = @ \cup {f}])
\* remove: nothing was uploaded.
RemoveAttachment(f) == Edit([cpDraft EXCEPT !.files = @ \ {f}])

-----------------------------------------------------------------------------
(* The picker *)

\* What the picker highlights: the effort, of a model that supports one.
ActiveEffort == IF cpPick.engine \in cpOffer THEN cpPick.effort ELSE "off"

PickEngine(e) ==
  /\ e # cpPick.engine /\ Moved
  /\ cpPick' = [cpPick EXCEPT !.engine = e]
  /\ KeepRuns /\ KeepPage /\ UNCHANGED <<cpDraft, cpOffer, cpCapable>>

\* The row of efforts is shown for those models only; the pick outlives it.
PickEffort(level) ==
  /\ cpPick.engine \in cpOffer /\ level # cpPick.effort
  /\ cpPick' = [cpPick EXCEPT !.effort = level]
  /\ KeepRuns /\ KeepPage /\ UNCHANGED <<cpDraft, cpOffer, cpCapable, cpCounts>>

\* A probe changes what the server knows; the page learns of it with its next list.
Probed(e) ==
  /\ Moved /\ cpCapable' \in {cpCapable \cup {e}, cpCapable \ {e}}
  /\ KeepRuns /\ KeepPage /\ UNCHANGED <<cpDraft, cpPick, cpOffer>>
OfferArrives ==
  /\ cpOffer # cpCapable /\ cpOffer' = cpCapable
  /\ KeepRuns /\ KeepPage /\ UNCHANGED <<cpDraft, cpPick, cpCapable, cpCounts>>

-----------------------------------------------------------------------------
(* Sending *)

\* Mutant: the effort is used as it was sent.
MutantApplied(engine, effort) == effort
\* What the server makes of the effort (build_model_for).
Applied(engine, effort) == IF engine \in cpCapable THEN effort ELSE "off"

\* onNew and runTurn: the run is of the thread and with the picks of this moment; a
\* run under way is torn down.
RunWith(message) ==
  cpRun' = [thread |-> cpThread, sentIn |-> message.thread, files |-> message.files,
            shown |-> ActiveEffort, known |-> cpOffer = cpCapable,
            effort |-> Applied(cpPick.engine, cpPick.effort)]

\* The composer is emptied before its files are uploaded; without files the message
\* is passed on at once.  While a turn runs the button stops it instead.
Send ==
  /\ cpRun = NoRunYet /\ (cpDraft.text \/ cpDraft.files # {})
  /\ cpCounts.sends < MaxSends /\ cpCounts' = [cpCounts EXCEPT !.sends = @ + 1]
  /\ cpDraft' = EmptyDraft
  /\ LET message == [n |-> cpCounts.sends, thread |-> cpThread, files |-> cpDraft.files,
                     up |-> {}] IN
     IF cpDraft.files = {} THEN RunWith(message) /\ UNCHANGED cpSending
     ELSE cpSending' = cpSending \cup {message} /\ UNCHANGED cpRun
  /\ UNCHANGED cpStored /\ KeepPage /\ KeepPicks

\* A button of a view the agent generated sends its prompt, also while a turn runs.
PressGenerated ==
  /\ cpCounts.sends < MaxSends /\ cpCounts' = [cpCounts EXCEPT !.sends = @ + 1]
  /\ RunWith([n |-> cpCounts.sends, thread |-> cpThread, files |-> {}, up |-> {}])
  /\ KeepPage /\ KeepPicks /\ UNCHANGED <<cpDraft, cpSending, cpStored>>

\* adapter.send: into the thread that was active when it was called.
UploadStored(s, f) ==
  /\ f \in s.files \ s.up
  /\ cpStored' = [cpStored EXCEPT ![s.thread] = @ \cup {f}]
  /\ cpSending' = (cpSending \ {s}) \cup {[s EXCEPT !.up = @ \cup {f}]}
  /\ KeepPage /\ KeepPicks /\ UNCHANGED <<cpDraft, cpRun, cpCounts>>

\* One upload fails: the message is gone, the draft too.
UploadLost(s, f) ==
  /\ f \in s.files \ s.up
  /\ cpSending' = cpSending \ {s}
  /\ KeepPage /\ KeepPicks /\ UNCHANGED <<cpDraft, cpStored, cpRun, cpCounts>>

\* Mutant: the uploads are not awaited.
MutantUploaded(s) == TRUE
Uploaded(s) == s.up = s.files

AllUploaded(s) ==
  /\ Uploaded(s)
  /\ cpSending' = cpSending \ {s}
  /\ RunWith(s)
  /\ KeepPage /\ KeepPicks /\ UNCHANGED <<cpDraft, cpStored, cpCounts>>

\* finish, or the button that stops.
RunOver ==
  /\ cpRun # NoRunYet /\ cpRun' = NoRunYet
  /\ KeepPage /\ KeepPicks /\ UNCHANGED <<cpDraft, cpSending, cpStored, cpCounts>>

-----------------------------------------------------------------------------
(* The badge *)

\* The event usage, from the stream of the run.
UsageEvent ==
  /\ cpRun # NoRunYet /\ cpUsage' = cpRun.thread
  /\ KeepRuns /\ KeepPicks /\ UNCHANGED <<cpThread, cpDraft, cpLoad, cpCounts>>

\* selectThread, newChat, and the effect they cause (loadThread), which tears the run
\* down; nothing is fetched for a fresh thread.
OpenConversation(t) ==
  /\ t # cpThread /\ Moved
  /\ cpThread' = t /\ cpUsage' = NoThread /\ cpRun' = NoRunYet
  /\ \E fetched \in BOOLEAN :
       cpLoad' = [i \in DOMAIN cpLoad |-> [cpLoad[i] EXCEPT !.last = FALSE]]
                   \o (IF fetched THEN <<[thread |-> t, last |-> TRUE]>> ELSE <<>>)
  /\ KeepPicks /\ UNCHANGED <<cpDraft, cpSending, cpStored>>

\* Mutant: the answer of an older load counts as well.
MutantCurrent(l) == TRUE
\* seq === loadSeqRef.current.
Current(l) == l.last

ConversationLoaded(i) ==
  /\ i \in DOMAIN cpLoad
  /\ cpLoad' = [j \in 1 .. Len(cpLoad) - 1 |-> cpLoad[IF j < i THEN j ELSE j + 1]]
  /\ \/ cpUsage' = IF Current(cpLoad[i]) THEN cpLoad[i].thread ELSE cpUsage
     \/ cpUsage' = IF Current(cpLoad[i]) THEN NoThread ELSE cpUsage
     \/ UNCHANGED cpUsage  \* it fails
  /\ KeepRuns /\ KeepPicks /\ UNCHANGED <<cpThread, cpDraft, cpCounts>>

\* ContextBadge: nothing is shown until a usage is known.
Badge == cpUsage

NextComposer ==
  \/ TypeDraft
  \/ \E f \in Attachables : AddAttachment(f) \/ RemoveAttachment(f)
  \/ \E e \in Engines : PickEngine(e) \/ Probed(e)
  \/ \E level \in Efforts : PickEffort(level)
  \/ OfferArrives \/ Send \/ PressGenerated \/ RunOver \/ UsageEvent
  \/ \E s \in cpSending : AllUploaded(s) \/ \E f \in Attachables : UploadStored(s, f) \/ UploadLost(s, f)
  \/ \E t \in Conversations : OpenConversation(t)
  \/ \E i \in DOMAIN cpLoad : ConversationLoaded(i)

SpecComposer == InitComposer /\ [][NextComposer]_cpVars

-----------------------------------------------------------------------------
(* Properties *)

\* A run that is told of files finds them (onNew: "already uploaded to the workspace
\* by the adapter's send()"), if the user stayed in the thread.
FilesAreThere ==
  cpRun.sentIn = cpRun.thread /\ cpRun # NoRunYet => cpRun.files \subseteq cpStored[cpRun.thread]

\* The same without the condition, as workspaceAttachment.ts has it: the file is
\* "available in your workspace", that of "the active thread".  Does not hold
\* when the thread is switched while the upload is under way.
FilesFollow == cpRun # NoRunYet => cpRun.files \subseteq cpStored[cpRun.thread]

\* The effort a run gets is the one the picker highlighted when it was posted,
\* although the pick sticks to models that support none (model-selector.tsx,
\* resolveModelEffort), unless a probe changed the model since it was listed.
EffortAsShown == cpRun.known => cpRun.effort = cpRun.shown

\* The badge never shows the usage of a thread other than the open one.
BadgeOfThread == Badge \in {NoThread, cpThread}
=============================================================================
