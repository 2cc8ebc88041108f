---------------------------- MODULE ThreadHistory ----------------------------
(***************************************************************************)
(* The history of a conversation, kept three times: as the messages on the *)
(* chat page (JoyjoyRuntimeProvider), as the checkpoint the agent reads,   *)
(* and as a row of the session registry.  The user sends, regenerates,     *)
(* edits, stops, switches threads, leaves and reenters the chat, deletes;  *)
(* requests overtake each other; a run goes on when its page left it.      *)
(*                                                                         *)
(* A prompt is the number of the turn that first sent it.  ChatTurn models *)
(* what happens inside one turn; here a turn answers once or not at all,   *)
(* and a cancelled run is one that ends without an answer, which any run   *)
(* may do: the cancel requests themselves are left out.                    *)
(***************************************************************************)
EXTENDS Integers, Sequences, FiniteSets, SequencesExt

CONSTANTS
  Threads,    \* conversation ids the page may mint
  First,      \* the one restored from localStorage
  Stored,     \* turns it holds from before
  MaxTurns,   \* bound: turns in all
  MaxActs     \* bound: what the user does, and requests and streams that fail

Turns == 1 .. MaxTurns
NoTurn == 0

ASSUME ThreadsAssumption == First \in Threads
ASSUME HistoryBounds == /\ MaxTurns \in Nat /\ MaxActs \in Nat
                        /\ Stored \in 0 .. MaxTurns

VARIABLES
  thread,     \* the active thread id
  minted,     \* thread ids in use
  fresh,      \* freshThread: never sent, nothing to fetch
  page,       \* messages on the page
  loading,    \* threadLoading
  loadSeq,    \* loadSeqRef
  active,     \* activeRunRef: its turn, or NoTurn
  running,    \* isRunning
  turn,       \* turn -> what its closure of runTurn knows
  net,        \* requests and replies in flight
  saved,      \* thread -> the checkpoint's messages
  row,        \* threads with a row in the registry
  run,        \* turn -> the server's run
  acts,       \* how many there were
  disturbed,  \* threads in which a turn was cut off or sent while loading
  deleted     \* threads the user deleted and did not send in again

pageVars == <<thread, minted, fresh, page, loading, loadSeq, active, running, turn>>
serverVars == <<saved, row, run>>
ghosts == <<disturbed, deleted>>
vars == <<pageVars, net, serverVars, acts, ghosts>>

Msg(role, k, prompt) == [role |-> role, turn |-> k, prompt |-> prompt]
\* The n-th of some places: the one up to which there are n.
Nth(places, n) == CHOOSE i \in places : Cardinality({j \in places : j <= i}) = n
At(s, places) == [n \in 1 .. Cardinality(places) |-> s[Nth(places, n)]]

UserPlaces(s) == {i \in DOMAIN s : s[i].role = "user"}
Users(s) == Cardinality(UserPlaces(s))
Prompts(s) == [n \in 1 .. Users(s) |-> s[Nth(UserPlaces(s), n)].prompt]

Idle == [thread |-> "none", prompt |-> NoTurn, replace |-> 0, known |-> FALSE,
         settled |-> TRUE]
NoRun == [at |-> "none", doomed |-> {}, held |-> <<>>]
Live == {"queued", "pruning", "ready", "streaming"}

Post(k) == [kind |-> "post", turn |-> k]
Created(k) == [kind |-> "created", turn |-> k]
Load(seq, t) == [kind |-> "load", seq |-> seq, thread |-> t]
Loaded(seq, msgs) == [kind |-> "loaded", seq |-> seq, msgs |-> msgs]
Delete(t) == [kind |-> "delete", thread |-> t]
Drop(t) == [kind |-> "drop", thread |-> t]
InNet(kind) == {r \in net : r.kind = kind}

Acts == acts < MaxActs /\ acts' = acts + 1
Disturb(T) == disturbed' = disturbed \cup T

\* The page was reloaded in a thread that holds some turns.
History == [i \in 1 .. 2 * Stored |->
              Msg(IF i % 2 = 1 THEN "user" ELSE "assistant", (i + 1) \div 2, (i + 1) \div 2)]

Init ==
  /\ thread = First /\ minted = {First} /\ fresh = FALSE
  /\ page = <<>> /\ loading = TRUE /\ loadSeq = 1 /\ net = {Load(1, First)}
  /\ active = NoTurn /\ running = FALSE
  /\ turn = [k \in Turns |-> IF k \in 1 .. Stored
                             THEN [Idle EXCEPT !.thread = First, !.prompt = k] ELSE Idle]
  /\ acts = 0 /\ disturbed = {} /\ deleted = {}
  /\ saved = [t \in Threads |-> IF t = First THEN History ELSE <<>>]
  /\ row = {First}
  /\ run = [k \in Turns |-> NoRun]

-----------------------------------------------------------------------------
(* A turn on the page *)

\* teardownRun of the active turn, as far as its closure goes.
TornDown(f) == IF active = NoTurn THEN f ELSE [f EXCEPT ![active].settled = TRUE]
CutOff == IF active = NoTurn THEN {} ELSE {turn[active].thread}

\* runTurn: the turn still active is torn down, the run is posted.
RunTurn(k, prompt, replace) ==
  /\ Acts /\ k = Cardinality({j \in Turns : turn[j] # Idle}) + 1 /\ k \in Turns
  /\ turn' = [TornDown(turn) EXCEPT
       ![k] = [thread |-> thread, prompt |-> prompt, replace |-> replace,
               known |-> FALSE, settled |-> FALSE]]
  /\ net' = net \cup {Post(k)}
  /\ active' = k /\ running' = TRUE
  /\ Disturb(CutOff \cup IF loading \/ thread \in deleted THEN {thread} ELSE {})
  /\ deleted' = deleted \ {thread}
  /\ UNCHANGED <<thread, minted, loading, loadSeq, serverVars>>

\* onNew.  The composer offers Send whenever no turn runs, also while the
\* thread's messages are loading.
Send(k) ==
  /\ ~ running
  /\ page' = page \o <<Msg("user", k, k), Msg("assistant", k, k)>>
  /\ fresh' = FALSE
  /\ RunTurn(k, k, 0)

\* onReload: the last user message is kept, what follows it replaced.
Reload(k) ==
  /\ ~ running
  /\ \E i \in DOMAIN page :
       /\ page[i].role = "user" /\ Users(SubSeq(page, i + 1, Len(page))) = 0
       /\ page' = Append(SubSeq(page, 1, i), Msg("assistant", k, page[i].prompt))
       /\ RunTurn(k, page[i].prompt, 1)
  /\ UNCHANGED fresh

\* Mutant: the edited message itself is not counted.
MutantReplaceTurns(before, cut) == Users(SubSeq(before, cut + 2, Len(before)))
ReplaceTurns(before, cut) == Users(SubSeq(before, cut + 1, Len(before)))

\* onEdit of the user message after position cut.  Its editor was opened while
\* no turn ran, and stays open when one is sent.
Edit(k) ==
  /\ \E cut \in 0 .. Len(page) - 1 :
       /\ page[cut + 1].role = "user"
       /\ running => page[cut + 1].turn # active
       /\ page' = SubSeq(page, 1, cut) \o <<Msg("user", k, k), Msg("assistant", k, k)>>
       /\ RunTurn(k, k, ReplaceTurns(page, cut))
  /\ UNCHANGED fresh

\* Mutant: a turn that is over already ends once more.
MutantFinish(k) ==
  /\ turn' = [turn EXCEPT ![k].settled = TRUE]
  /\ running' = FALSE
  /\ active' = IF active = k THEN NoTurn ELSE active

\* finish: the first end of a turn counts, by whichever way it comes.
Finish(k) ==
  /\ turn' = [turn EXCEPT ![k].settled = TRUE]
  /\ running' = IF turn[k].settled THEN running ELSE FALSE
  /\ active' = IF active = k THEN NoTurn ELSE active

\* onCancel.
Stop ==
  /\ active # NoTurn /\ Acts
  /\ turn' = TornDown(turn)
  /\ active' = NoTurn /\ running' = FALSE
  /\ Disturb(CutOff)
  /\ UNCHANGED <<thread, minted, fresh, page, loading, loadSeq, net,
                 serverVars, deleted>>

KeepPage == UNCHANGED <<thread, minted, fresh, page, loading, loadSeq>>

\* The run id arrives.  A turn stopped meanwhile ends, if it has not already.
RunIdArrives ==
  \E r \in InNet("created") :
    /\ net' = net \ {r}
    /\ IF turn[r.turn].settled
       THEN Finish(r.turn)
       ELSE turn' = [turn EXCEPT ![r.turn].known = TRUE] /\ UNCHANGED <<active, running>>
    /\ KeepPage /\ UNCHANGED <<serverVars, acts, ghosts>>

\* The POST fails, or its reply after the run was created.
PostFails ==
  /\ Acts
  /\ \E r \in InNet("post") \cup InNet("created") :
       /\ net' = net \ {r} /\ Finish(r.turn) /\ Disturb({turn[r.turn].thread})
  /\ KeepPage /\ UNCHANGED <<serverVars, deleted>>

\* The stream closes: after the run's last event, or because it broke.
StreamCloses(k) ==
  /\ turn[k].known /\ ~ turn[k].settled
  /\ \/ run[k].at = "over" /\ UNCHANGED <<acts, disturbed>>
     \/ Acts /\ Disturb({turn[k].thread})
  /\ Finish(k)
  /\ KeepPage /\ UNCHANGED <<net, serverVars, deleted>>

-----------------------------------------------------------------------------
(* Threads on the page *)

\* loadThread of t.
LoadThread(t, f, requests) ==
  /\ loadSeq' = loadSeq + 1
  /\ page' = <<>> /\ active' = NoTurn /\ running' = FALSE
  /\ loading' = ~ f
  /\ net' = net \cup requests \cup IF f THEN {} ELSE {Load(loadSeq + 1, t)}

SelectThread(t) ==
  /\ t \in row /\ t # thread /\ Acts
  /\ thread' = t /\ fresh' = FALSE
  /\ LoadThread(t, FALSE, {})
  /\ turn' = TornDown(turn) /\ Disturb(CutOff)
  /\ UNCHANGED <<minted, serverVars, deleted>>

\* newChat mints an id; Delete of the open conversation starts one too.
Open(t, requests) ==
  /\ t \in Threads \ minted /\ Acts
  /\ thread' = t /\ minted' = minted \cup {t} /\ fresh' = TRUE
  /\ LoadThread(t, TRUE, requests)
  /\ turn' = TornDown(turn) /\ Disturb(CutOff)
  /\ UNCHANGED serverVars

NewChat(t) == Open(t, {}) /\ UNCHANGED deleted

DeleteOpen(t) ==
  /\ thread \in row /\ deleted' = deleted \cup {thread}
  /\ Open(t, {Delete(thread)})

DeleteOther(t) ==
  /\ t \in row /\ t # thread /\ Acts
  /\ net' = net \cup {Delete(t)} /\ deleted' = deleted \cup {t}
  /\ UNCHANGED <<pageVars, serverVars, disturbed>>

\* The user opens another page and comes back: a new provider is mounted.  A
\* turn of the old one is neither torn down nor known to the new one.
Remount ==
  /\ Acts /\ LoadThread(thread, fresh, {})
  /\ turn' = [k \in Turns |-> [turn[k] EXCEPT !.settled = TRUE]]
  /\ Disturb(CutOff)
  /\ UNCHANGED <<thread, minted, fresh, serverVars, deleted>>

KeepTurns == UNCHANGED <<thread, minted, fresh, loadSeq, active, running, turn,
                         serverVars, deleted>>

\* Mutant: the newest load is not asked for.
MutantShow(seq, msgs) == page' = msgs /\ loading' = FALSE
Show(seq, msgs) ==
  IF seq = loadSeq THEN page' = msgs /\ loading' = FALSE
                   ELSE UNCHANGED <<page, loading>>

LoadedArrives ==
  \E r \in InNet("loaded") :
    Show(r.seq, r.msgs) /\ net' = net \ {r} /\ KeepTurns /\ UNCHANGED <<acts, disturbed>>

\* Mutant: only an answer ends the spinner.
MutantLoadFails ==
  /\ Acts
  /\ \E r \in InNet("load") :
       net' = net \ {r} /\ Disturb({r.thread}) /\ UNCHANGED <<page, loading>>
  /\ KeepTurns

\* The fetch fails: an empty thread.
LoadFails ==
  /\ Acts
  /\ \E r \in InNet("load") :
       Show(r.seq, <<>>) /\ net' = net \ {r} /\ Disturb({r.thread})
  /\ KeepTurns

-----------------------------------------------------------------------------
(* The server *)

Serves(r, replies) == net' = (net \ {r}) \cup replies /\ UNCHANGED <<pageVars, acts>>

\* sessions_messages: no row, no messages.
LoadArrives ==
  \E r \in InNet("load") :
    /\ Serves(r, {Loaded(r.seq, IF r.thread \in row THEN saved[r.thread] ELSE <<>>)})
    /\ UNCHANGED <<serverVars, ghosts>>

\* Mutant: the page gets the run id before the session is recorded.
MutantPostArrives ==
  \E r \in InNet("post") :
    /\ run' = [run EXCEPT ![r.turn].at = IF turn[r.turn].replace > 0 THEN "queued"
                                                                     ELSE "ready"]
    /\ Serves(r, {[kind |-> "record", turn |-> r.turn], Created(r.turn)})
    /\ UNCHANGED <<saved, row, ghosts>>

\* create_run: the run's task is created, then the session is recorded, then
\* the page gets its id.
PostArrives ==
  \E r \in InNet("post") :
    /\ run' = [run EXCEPT ![r.turn].at = IF turn[r.turn].replace > 0 THEN "queued"
                                                                     ELSE "ready"]
    /\ Serves(r, {[kind |-> "record", turn |-> r.turn]})
    /\ UNCHANGED <<saved, row, ghosts>>

RecordSession ==
  \E r \in InNet("record") :
    /\ row' = row \cup {turn[r.turn].thread}
    /\ Serves(r, {Created(r.turn)})
    /\ UNCHANGED <<saved, run, ghosts>>

\* delete_session: the row, then the checkpoint.
DeleteArrives ==
  \E r \in InNet("delete") :
    /\ row' = row \ {r.thread}
    /\ Serves(r, {Drop(r.thread)})
    /\ UNCHANGED <<saved, run, ghosts>>

DropCheckpoint ==
  \E r \in InNet("drop") :
    /\ saved' = [saved EXCEPT ![r.thread] = <<>>]
    /\ Serves(r, {})
    /\ UNCHANGED <<row, run, ghosts>>

ServerOnly == UNCHANGED <<pageVars, net, row, acts, ghosts>>
ThreadOf(k) == turn[k].thread

\* Mutant: one turn more is dropped than asked for.
MutantDoomed(msgs, turns) ==
  LET kept == Users(msgs) - turns - 1
  IN {i \in DOMAIN msgs : Users(SubSeq(msgs, 1, i)) > kept}

\* _truncate_trailing_turns: the positions from the turns-th user message from
\* the end on; from the first one when there are not as many.
Doomed(msgs, turns) ==
  LET kept == IF turns <= Users(msgs) THEN Users(msgs) - turns ELSE 0
  IN {i \in DOMAIN msgs : Users(SubSeq(msgs, 1, i)) > kept}

\* aget_state of the prune.
PruneReads(k) ==
  /\ run[k].at = "queued"
  /\ LET msgs == saved[ThreadOf(k)]
     IN run' = [run EXCEPT ![k].at = "pruning",
                           ![k].doomed = {msgs[i] : i \in Doomed(msgs, turn[k].replace)}]
  /\ UNCHANGED saved /\ ServerOnly

\* aupdate_state: a message that is gone meanwhile cannot be removed and the
\* task dies; otherwise the thread is what it holds now, without them.
PruneWrites(k) ==
  LET msgs == saved[ThreadOf(k)] IN
  /\ run[k].at = "pruning"
  /\ IF run[k].doomed \subseteq ToSet(msgs)
     THEN /\ saved' = [saved EXCEPT ![ThreadOf(k)] =
                         At(msgs, {i \in DOMAIN msgs : msgs[i] \notin run[k].doomed})]
          /\ run' = [run EXCEPT ![k].at = "ready", ![k].doomed = {}]
     ELSE /\ run' = [run EXCEPT ![k].at = "dead", ![k].doomed = {}]
          /\ UNCHANGED saved
  /\ ServerOnly

\* astream reads the thread and saves it with the new message; from then on
\* the graph works on what it holds.
Begins(k) ==
  /\ run[k].at = "ready"
  /\ LET msgs == Append(saved[ThreadOf(k)], Msg("user", k, turn[k].prompt))
     IN /\ saved' = [saved EXCEPT ![ThreadOf(k)] = msgs]
        /\ run' = [run EXCEPT ![k].at = "streaming", ![k].held = msgs]
  /\ ServerOnly

\* The answer is saved; without one when the graph raises or _stream_segment
\* finds the run cancelled.
Ends(k) ==
  /\ run[k].at = "streaming"
  /\ run' = [run EXCEPT ![k] = [NoRun EXCEPT !.at = "over"]]
  /\ \/ saved' = [saved EXCEPT ![ThreadOf(k)] =
                    Append(run[k].held, Msg("assistant", k, turn[k].prompt))]
     \/ UNCHANGED saved
  /\ ServerOnly

Works(k) == PruneReads(k) \/ PruneWrites(k) \/ Begins(k) \/ Ends(k)

Next ==
  \/ \E k \in Turns : Send(k) \/ Reload(k) \/ Edit(k) \/ StreamCloses(k) \/ Works(k)
  \/ Stop \/ RunIdArrives \/ PostFails
  \/ \E t \in Threads : SelectThread(t) \/ NewChat(t) \/ DeleteOpen(t) \/ DeleteOther(t)
  \/ Remount \/ LoadedArrives \/ LoadFails
  \/ LoadArrives \/ PostArrives \/ RecordSession
  \/ DeleteArrives \/ DropCheckpoint

\* The network delivers the loads; nothing else is assumed.
Spec == Init /\ [][Next]_vars /\ WF_vars(LoadArrives) /\ WF_vars(LoadedArrives)

-----------------------------------------------------------------------------
(* Properties *)

\* isRunning is TRUE while and only while the newest turn is active, however
\* late the answers of older turns come (settled, JoyjoyRuntimeProvider.tsx:417).
RunningIsActive ==
  /\ running <=> active # NoTurn
  /\ active # NoTurn => ~ turn[active].settled /\ turn[active].thread = thread

\* The page shows messages of the active thread only, in whatever order the
\* loads are answered (loadSeqRef).
PageShowsItsThread == \A i \in DOMAIN page : turn[page[i].turn].thread = thread

Quiet == net = {} /\ \A k \in Turns : run[k].at \notin Live \cup {"dead"}

\* At rest, a thread whose turns all ran to their end holds the prompts that
\* the page shows, in their order, whatever was edited and regenerated.
PromptsAgree ==
  Quiet /\ thread \notin disturbed \cup deleted =>
    /\ Prompts(page) = Prompts(saved[thread])
    /\ page # <<>> => thread \in row

\* onEdit's comment: after the run of an edited message, the thread reflects
\* the edited history, not just the client's view of it.
EditsReachTheThread ==
  \A k \in Turns :
    Quiet /\ ~ loading /\ turn[k].thread = thread /\ turn[k].replace > 0
          /\ page # <<>> /\ page[Len(page)] = Msg("assistant", k, turn[k].prompt)
          /\ run[k].at = "over" =>
      Prompts(page) = Prompts(saved[thread])

\* A conversation deleted after its turns had run to their end stays deleted,
\* its row and its messages, although deleting it stops no run.
DeletedStaysDeleted ==
  \A t \in deleted \ disturbed :
    {Delete(t), Drop(t)} \cap net = {} => t \notin row /\ saved[t] = <<>>

\* Page and checkpoint agree at rest, and deletions stay.
HistoryIsKept == PromptsAgree /\ DeletedStaysDeleted

\* A spinner never stays.
LoadsEnd == loading ~> ~ loading
=============================================================================
