--------------------------- MODULE ThreadHistoryProofs ---------------------------
(***************************************************************************)
(* For any threads, turns, edits, deletions and orders of the network: the *)
(* chat page shows a run under way while and only while the newest turn is *)
(* (PageKnowsItsRun), shows messages of its own thread only                *)
(* (PageIsOfItsThread), at rest shows the prompts that the agent's         *)
(* checkpoint holds (PageAndThreadAgree), and what the user deleted stays  *)
(* deleted (DeletionsStay).                                                *)
(*                                                                         *)
(* The first theorem rests on RunInv, the others on HistInv.  A page and a *)
(* checkpoint differ while a turn is under way; Phase says by how much, at *)
(* every stage of the turn's run, from the POST to the last event.         *)
(***************************************************************************)
EXTENDS ThreadHistory, FiniteSetTheorems, SequenceTheorems, TLAPS

IsTurn(f) ==
  /\ f = [thread |-> f.thread, prompt |-> f.prompt, replace |-> f.replace,
          known |-> f.known, settled |-> f.settled]
  /\ f.settled \in BOOLEAN
TurnsOK ==
  /\ turn = [k \in Turns |-> turn[k]] /\ \A k \in Turns : IsTurn(turn[k])
  /\ active \in Turns \cup {NoTurn} /\ running \in BOOLEAN
  /\ \A r \in net : r.kind \in {"post", "record", "created"} => r.turn \in Turns

\* A turn is unsettled only while it is the active one: that is why the late end of
\* another turn finds it settled, and leaves isRunning alone.
OnlyOne == \A k \in Turns : ~ turn[k].settled => k = active

RunInv == TurnsOK /\ OnlyOne /\ RunningIsActive

-----------------------------------------------------------------------------
(* The ways a turn ends *)

\* Turns are numbered from one, and NoTurn is none of them.
LEMMA ActiveIsTurn == ASSUME RunInv, active # NoTurn PROVE active \in Turns
  BY DEF RunInv, TurnsOK

LEMMA ZeroIsNoTurn == NoTurn \notin Turns
  BY HistoryBounds DEF Turns, NoTurn

\* A field of a turn changes.
LEMMA FieldChanges ==
  ASSUME NEW g, IsTurn(g)
  PROVE  /\ LET h == [g EXCEPT !.settled = TRUE]
            IN IsTurn(h) /\ h.thread = g.thread /\ h.settled = TRUE
         /\ LET h == [g EXCEPT !.known = TRUE]
            IN IsTurn(h) /\ h.thread = g.thread /\ h.settled = g.settled
<1>1. PICK A, P, R, K :
        g \in [thread : A, prompt : P, replace : R, known : K, settled : BOOLEAN]
  <2>1. g \in [thread : {g.thread}, prompt : {g.prompt}, replace : {g.replace},
               known : {g.known}, settled : BOOLEAN]
    BY DEF IsTurn
  <2> QED  BY <2>1
<1> DEFINE h == [g EXCEPT !.settled = TRUE]
           n == [g EXCEPT !.known = TRUE]
<1>2. /\ h \in [thread : A, prompt : P, replace : R, known : K, settled : BOOLEAN]
      /\ h.thread = g.thread /\ h.settled = TRUE
  BY <1>1
<1>3. /\ n \in [thread : A, prompt : P, replace : R, known : K \cup {TRUE}, settled : BOOLEAN]
      /\ n.thread = g.thread /\ n.settled = g.settled
  BY <1>1
<1> HIDE DEF h, n
<1>4. IsTurn(h) /\ IsTurn(n)
  BY <1>2, <1>3 DEF IsTurn
<1> QED  BY <1>2, <1>3, <1>4 DEF h, n

\* turn with the one at k settled.
LEMMA Settled ==
  ASSUME TurnsOK, NEW k \in Turns
  PROVE  LET f == [turn EXCEPT ![k].settled = TRUE] IN
         /\ f = [j \in Turns |-> f[j]]
         /\ \A j \in Turns : /\ IsTurn(f[j]) /\ f[j].thread = turn[j].thread
                             /\ j = k => f[j].settled = TRUE
                             /\ j # k => f[j] = turn[j]
<1> DEFINE f == [turn EXCEPT ![k].settled = TRUE]
<1>1. f = [j \in Turns |-> IF j = k THEN [turn[k] EXCEPT !.settled = TRUE] ELSE turn[j]]
  BY DEF TurnsOK
<1>2. LET h == [turn[k] EXCEPT !.settled = TRUE]
      IN IsTurn(h) /\ h.thread = turn[k].thread /\ h.settled = TRUE
  BY FieldChanges DEF TurnsOK
<1>3. ASSUME NEW j \in Turns
      PROVE  /\ IsTurn(f[j]) /\ f[j].thread = turn[j].thread
             /\ j = k => f[j].settled = TRUE
             /\ j # k => f[j] = turn[j]
  <2>1. CASE j = k
    BY <1>1, <1>2, <2>1
  <2>2. CASE j # k
    BY <1>1, <2>2 DEF TurnsOK, IsTurn
  <2> QED  BY <2>1, <2>2
<1>4. f = [j \in Turns |-> f[j]]
  BY <1>1
<1> QED  BY <1>3, <1>4

\* No turn is unsettled after a teardown.
LEMMA TearDown ==
  ASSUME RunInv
  PROVE  /\ TornDown(turn) = [j \in Turns |-> TornDown(turn)[j]]
         /\ \A j \in Turns : IsTurn(TornDown(turn)[j]) /\ TornDown(turn)[j].settled
<1> USE DEF RunInv
<1>1. CASE active = NoTurn
  <2>1. \A j \in Turns : turn[j].settled
    BY <1>1, ZeroIsNoTurn DEF OnlyOne
  <2> QED  BY <1>1, <2>1 DEF TornDown, TurnsOK
<1>2. CASE active # NoTurn
  <2>1. TornDown(turn) = [turn EXCEPT ![active].settled = TRUE]
    BY <1>2 DEF TornDown
  <2> DEFINE f == [turn EXCEPT ![active].settled = TRUE]
  <2>2. /\ f = [j \in Turns |-> f[j]]
        /\ \A j \in Turns : /\ IsTurn(f[j])
                            /\ j # active => f[j] = turn[j]
                            /\ j = active => f[j].settled = TRUE
    BY <1>2, Settled, ActiveIsTurn
  <2> HIDE DEF f
  <2>3. \A j \in Turns : f[j].settled
    BY <2>2 DEF OnlyOne, IsTurn
  <2>4. TornDown(turn) = f
    BY <2>1 DEF f
  <2> QED  BY <2>2, <2>3, <2>4
<1> QED  BY <1>1, <1>2

NetOK == \A r \in net : r.kind \in {"post", "record", "created"} => r.turn \in Turns

\* The page leaves its turns behind.
LEMMA Leaving ==
  ASSUME RunInv, NetOK', active' = NoTurn, running' = FALSE,
         turn' = [j \in Turns |-> turn'[j]],
         \A j \in Turns : IsTurn(turn[j])' /\ turn'[j].settled
  PROVE  RunInv'
<1>1. TurnsOK'
  BY DEF TurnsOK, NetOK
<1>2. OnlyOne' /\ RunningIsActive'
  BY DEF OnlyOne, RunningIsActive
<1> QED  BY <1>1, <1>2 DEF RunInv

\* A turn ends, the first time or once more.
LEMMA FinishOK ==
  ASSUME RunInv, NEW k \in Turns, Finish(k), NetOK', thread' = thread
  PROVE  RunInv'
<1> USE DEF RunInv
<1> DEFINE f == [turn EXCEPT ![k].settled = TRUE]
<1>1. turn' = f /\ f = [j \in Turns |-> f[j]]
      /\ \A j \in Turns : /\ IsTurn(f[j]) /\ f[j].thread = turn[j].thread
                          /\ j = k => f[j].settled = TRUE
                          /\ j # k => f[j] = turn[j]
  BY Settled DEF Finish
<1> HIDE DEF f
<1>2. running' = (IF turn[k].settled THEN running ELSE FALSE)
      /\ active' = IF active = k THEN NoTurn ELSE active
  BY DEF Finish
<1>3. TurnsOK'
  BY <1>1, <1>2 DEF TurnsOK, NetOK, IsTurn
<1>4. OnlyOne'
  BY <1>1, <1>2 DEF OnlyOne
<1>5. RunningIsActive'
  <2>1. CASE active = k
    <3>1. ~ turn[k].settled
      BY <2>1, ZeroIsNoTurn DEF RunningIsActive
    <3> QED  BY <1>2, <2>1, <3>1 DEF RunningIsActive
  <2>2. CASE active # k
    <3>1. turn[k].settled
      BY <2>2 DEF OnlyOne, IsTurn
    <3>2. running' = running /\ active' = active
      BY <1>2, <2>2, <3>1
    <3>3. active # NoTurn => f[active] = turn[active]
      BY <1>1, <2>2, ActiveIsTurn
    <3> QED  BY <1>1, <3>2, <3>3 DEF RunningIsActive
  <2> QED  BY <2>1, <2>2
<1> QED  BY <1>3, <1>4, <1>5

\* The page's turns stay as they are.
LEMMA Untouched ==
  ASSUME RunInv, NetOK', UNCHANGED <<thread, active, running, turn>>
  PROVE  RunInv'
  BY DEF RunInv, TurnsOK, OnlyOne, RunningIsActive, NetOK, IsTurn

\* The requests for runs name turns.
LEMMA Asks == ASSUME RunInv PROVE NetOK
  BY DEF RunInv, TurnsOK, NetOK

-----------------------------------------------------------------------------
(* One lemma for each group of actions *)

\* runTurn begins the newest turn.
LEMMA RunTurnOK ==
  ASSUME RunInv, NEW k, NEW prompt, NEW replace, RunTurn(k, prompt, replace)
  PROVE  RunInv'
<1> DEFINE new == [thread |-> thread, prompt |-> prompt, replace |-> replace,
                   known |-> FALSE, settled |-> FALSE]
           old == TornDown(turn)
<1>1. /\ k \in Turns /\ turn' = [old EXCEPT ![k] = new] /\ net' = net \cup {Post(k)}
      /\ active' = k /\ running' = TRUE /\ thread' = thread
  BY DEF RunTurn
<1>2. old = [j \in Turns |-> old[j]] /\ \A j \in Turns : IsTurn(old[j]) /\ old[j].settled
  BY TearDown
<1>3. IsTurn(new) /\ new.thread = thread /\ new.settled = FALSE
  BY DEF IsTurn
<1> HIDE DEF new, old
<1>4. turn' = [j \in Turns |-> IF j = k THEN new ELSE old[j]]
  BY <1>1, <1>2
<1>5. TurnsOK'
  BY <1>1, <1>2, <1>3, <1>4 DEF RunInv, TurnsOK, Post, IsTurn
<1>6. OnlyOne' /\ RunningIsActive'
  BY <1>1, <1>2, <1>3, <1>4, ZeroIsNoTurn DEF OnlyOne, RunningIsActive
<1> QED  BY <1>5, <1>6 DEF RunInv

\* The steps of the page, and of the network and the server.
LEMMA SendsOK ==
  ASSUME RunInv, NEW k, Send(k) \/ Reload(k) \/ Edit(k)
  PROVE  RunInv'
  BY RunTurnOK DEF Send, Reload, Edit

LEMMA LeavesOK ==
  ASSUME RunInv,
         Stop \/ Remount \/ \E t \in Threads : SelectThread(t) \/ NewChat(t) \/ DeleteOpen(t)
  PROVE  RunInv'
<1> USE TearDown
<1>1. CASE Stop
  BY <1>1, Leaving, Asks DEF Stop, NetOK
<1>2. CASE Remount
  <2>1. NetOK' /\ active' = NoTurn /\ running' = FALSE
    BY <1>2, Asks DEF Remount, LoadThread, NetOK, Load
  <2>2. turn' = [k \in Turns |-> [turn[k] EXCEPT !.settled = TRUE]]
    BY <1>2 DEF Remount
  <2>3. \A k \in Turns : /\ IsTurn([turn[k] EXCEPT !.settled = TRUE])
                         /\ [turn[k] EXCEPT !.settled = TRUE].settled
    BY FieldChanges DEF RunInv, TurnsOK
  <2> QED  BY <2>1, <2>2, <2>3, Leaving
<1>3. ASSUME NEW t \in Threads, SelectThread(t) PROVE RunInv'
  <2>1. NetOK' /\ active' = NoTurn /\ running' = FALSE
    BY <1>3, Asks DEF SelectThread, LoadThread, NetOK, Load
  <2> QED  BY <1>3, <2>1, Leaving DEF SelectThread
<1>4. ASSUME NEW t \in Threads, NEW requests, Open(t, requests),
             \A r \in requests : r.kind \in {"delete"}
      PROVE  RunInv'
  <2>1. NetOK' /\ active' = NoTurn /\ running' = FALSE
    BY <1>4, Asks DEF Open, LoadThread, NetOK, Load
  <2> QED  BY <1>4, <2>1, Leaving DEF Open
<1>5. ASSUME NEW t \in Threads, NewChat(t) \/ DeleteOpen(t) PROVE RunInv'
  BY <1>4, <1>5 DEF NewChat, DeleteOpen, Delete
<1> QED  BY <1>1, <1>2, <1>3, <1>5

LEMMA RunIdArrivesOK == ASSUME RunInv, RunIdArrives PROVE RunInv'
<1>1. PICK r \in InNet("created") :
        /\ net' = net \ {r}
        /\ IF turn[r.turn].settled
           THEN Finish(r.turn)
           ELSE turn' = [turn EXCEPT ![r.turn].known = TRUE] /\ UNCHANGED <<active, running>>
        /\ KeepPage
  BY DEF RunIdArrives
<1>2. r.turn \in Turns /\ NetOK' /\ thread' = thread
  BY <1>1 DEF InNet, RunInv, TurnsOK, NetOK, KeepPage
<1>3. CASE turn[r.turn].settled
  BY <1>1, <1>2, <1>3, FinishOK
<1>4. CASE ~ turn[r.turn].settled
  <2> DEFINE k == r.turn
             new == [turn[k] EXCEPT !.known = TRUE]
  <2>1. turn' = [turn EXCEPT ![k] = new] /\ UNCHANGED <<active, running>>
    BY <1>1, <1>4
  <2>2. IsTurn(new) /\ new.thread = turn[k].thread /\ new.settled = turn[k].settled
    BY <1>2, FieldChanges DEF RunInv, TurnsOK
  <2> HIDE DEF new
  <2>3. turn' = [j \in Turns |-> IF j = k THEN new ELSE turn[j]]
    BY <1>2, <2>1 DEF RunInv, TurnsOK
  <2>4. TurnsOK'
    BY <1>2, <2>1, <2>2, <2>3 DEF RunInv, TurnsOK, NetOK, IsTurn
  <2>5. OnlyOne' /\ RunningIsActive'
    BY <1>2, <2>1, <2>2, <2>3, ZeroIsNoTurn DEF RunInv, TurnsOK, OnlyOne, RunningIsActive
  <2> QED  BY <2>4, <2>5 DEF RunInv
<1> QED  BY <1>3, <1>4

LEMMA EndsOK ==
  ASSUME RunInv, PostFails \/ \E k \in Turns : StreamCloses(k)
  PROVE  RunInv'
<1>1. CASE PostFails
  <2>1. PICK r \in InNet("post") \cup InNet("created") : net' = net \ {r} /\ Finish(r.turn)
    BY <1>1 DEF PostFails
  <2>2. r.turn \in Turns /\ NetOK' /\ thread' = thread
    BY <1>1, <2>1 DEF PostFails, InNet, RunInv, TurnsOK, NetOK, KeepPage
  <2> QED  BY <2>1, <2>2, FinishOK
<1>2. ASSUME NEW k \in Turns, StreamCloses(k) PROVE RunInv'
  <2>1. Finish(k) /\ thread' = thread /\ net' = net
    BY <1>2 DEF StreamCloses, KeepPage
  <2>2. NetOK'
    BY <2>1, Asks DEF NetOK
  <2> QED  BY <2>1, <2>2, FinishOK
<1> QED  BY <1>1, <1>2

\* What the server and the loads do leaves the turns of the page alone.
LEMMA OthersOK ==
  ASSUME RunInv,
         \/ \E k \in Turns : Works(k)
         \/ \E t \in Threads : DeleteOther(t)
         \/ LoadedArrives \/ LoadFails \/ LoadArrives \/ PostArrives \/ RecordSession
         \/ DeleteArrives \/ DropCheckpoint
         \/ UNCHANGED vars
  PROVE  RunInv'
<1>1. UNCHANGED <<thread, active, running, turn>>
  BY DEF Works, PruneReads, PruneWrites, Begins, Ends, ServerOnly, DeleteOther, LoadedArrives,
         LoadFails, KeepTurns, LoadArrives, PostArrives, RecordSession, DeleteArrives,
         DropCheckpoint, Serves, pageVars, vars
<1>2. NetOK'
  <2> USE Asks DEF NetOK, RunInv, TurnsOK, InNet
  <2>1. CASE \E k \in Turns : Works(k)
    BY <2>1 DEF Works, PruneReads, PruneWrites, Begins, Ends, ServerOnly
  <2>2. CASE \E t \in Threads : DeleteOther(t)
    BY <2>2 DEF DeleteOther, Delete, pageVars
  <2>3. CASE LoadedArrives \/ LoadFails \/ UNCHANGED vars
    BY <2>3 DEF LoadedArrives, LoadFails, vars, pageVars, KeepTurns
  <2>4. CASE LoadArrives
    BY <2>4 DEF LoadArrives, Serves, Loaded, pageVars
  <2>5. CASE PostArrives
    BY <2>5 DEF PostArrives, Serves, pageVars
  <2>6. CASE RecordSession
    BY <2>6 DEF RecordSession, Serves, Created, pageVars
  <2>7. CASE DeleteArrives \/ DropCheckpoint
    BY <2>7 DEF DeleteArrives, DropCheckpoint, Serves, Drop, pageVars
  <2> QED  BY <2>1, <2>2, <2>3, <2>4, <2>5, <2>6, <2>7
<1> QED  BY <1>1, <1>2, Untouched

\* No turn is under way at first.
LEMMA HistoryInit == ASSUME Init PROVE RunInv
<1> USE DEF Init
<1>1. \A k \in Turns : IsTurn(turn[k]) /\ turn[k].settled
  BY DEF Idle, IsTurn
<1>2. turn = [k \in Turns |-> turn[k]]
  OBVIOUS
<1>3. net = {Load(1, First)} /\ Load(1, First).kind = "load" /\ active = NoTurn /\ running = FALSE
  BY DEF Load
<1>4. TurnsOK
  BY <1>1, <1>2, <1>3 DEF TurnsOK
<1>5. OnlyOne /\ RunningIsActive
  BY <1>1, <1>3 DEF OnlyOne, RunningIsActive
<1> QED  BY <1>4, <1>5 DEF RunInv

LEMMA RunStep == ASSUME RunInv, [Next]_vars PROVE RunInv'
  BY SendsOK, LeavesOK, RunIdArrivesOK, EndsOK, OthersOK DEF Next

\* isRunning is TRUE while and only while a turn of the active thread is under way,
\* however late the answers of older turns come: finish is called for every end of a
\* turn, and acts for the first one only (settled).
THEOREM PageKnowsItsRun == Spec => []RunningIsActive
<1>1. RunInv /\ [Next]_vars => RunInv'
  BY RunStep
<1>2. Init => RunInv
  BY HistoryInit
<1>3. RunInv => RunningIsActive
  BY DEF RunInv
<1> QED  BY <1>1, <1>2, <1>3, PTL DEF Spec

-----------------------------------------------------------------------------
(* The invariant of the history *)

\* The messages a conversation may hold.
Msgs == [role : {"user", "assistant"}, turn : Turns, prompt : Turns]

\* A turn that was begun on the page.
Used(k) == turn[k].prompt # NoTurn

\* The requests in flight.
Record(k) == [kind |-> "record", turn |-> k]
Requests ==
  [kind : {"post", "record", "created"}, turn : Turns] \cup [kind : {"delete", "drop"}, thread : Threads]
    \cup [kind : {"load"}, seq : Nat, thread : Threads] \cup [kind : {"loaded"}, seq : Nat, msgs : Seq(Msgs)]

TypesOK ==
  /\ thread \in Threads /\ minted \subseteq Threads /\ row \subseteq Threads
  /\ fresh \in BOOLEAN /\ loading \in BOOLEAN /\ loadSeq \in Nat
  /\ page \in Seq(Msgs) /\ saved \in [Threads -> Seq(Msgs)] /\ net \subseteq Requests
  /\ run \in [Turns -> [at : Live \cup {"none", "over", "dead"}, doomed : SUBSET Msgs,
                        held : Seq(Msgs)]]

\* Turns are begun in their order; what has not begun has no run and no request.
TurnsUsed ==
  /\ \A k \in Turns : IF Used(k) THEN /\ turn[k].thread \in Threads /\ turn[k].prompt \in Turns
                                      /\ turn[k].replace \in Nat
                                 ELSE turn[k] = Idle /\ run[k] = NoRun
  /\ \E n \in 0 .. MaxTurns : \A k \in Turns : Used(k) <=> k <= n
  /\ \A k \in Turns : {Post(k), Record(k), Created(k)} \cap net # {} => Used(k)

\* Each run is asked for by one request, which the page waits for.
Asked(k) == Post(k) \in net \/ Record(k) \in net \/ Created(k) \in net
AskedOnce ==
  \A k \in Turns :
    /\ Post(k) \in net => Record(k) \notin net /\ Created(k) \notin net /\ run[k].at = "none"
    /\ Record(k) \in net => Created(k) \notin net /\ run[k].at # "none"
    /\ Created(k) \in net => run[k].at # "none"
    /\ turn[k].known => ~ Asked(k) /\ run[k].at # "none"
    /\ ~ turn[k].settled => Asked(k) \/ turn[k].known
    /\ Used(k) /\ k <= Stored => ~ Asked(k) /\ run[k].at = "none" /\ turn[k].settled

\* The turns from before the page was loaded.
StoredUsed == \A k \in Turns : k <= Stored => Used(k)

\* The messages are of turns of the thread.
Of(s, t) == \A i \in DOMAIN s : Used(s[i].turn) /\ ThreadOf(s[i].turn) = t

\* The loads under way: at most one is the newest, and one is while loading.
Newest(r) == r.kind \in {"load", "loaded"} /\ r.seq = loadSeq
LoadsOK ==
  /\ \A r \in net : r.kind \in {"load", "loaded"} => r.seq <= loadSeq
  /\ \A r \in net : Newest(r) => loading
  /\ \A r, s \in net : Newest(r) /\ Newest(s) => r = s
  /\ loading => \E r \in net : Newest(r)
  /\ \A r \in InNet("load") : r.seq = loadSeq => r.thread = thread
  /\ \A r \in InNet("loaded") : r.seq = loadSeq => Of(r.msgs, thread)

\* A thread that was not minted yet holds nothing, nor does a fresh one.
ThreadsOK ==
  /\ thread \in minted /\ row \subseteq minted /\ deleted \subseteq minted
  /\ \A k \in Turns : Used(k) => ThreadOf(k) \in minted
  /\ \A t \in Threads \ minted : saved[t] = <<>>
  /\ fresh => /\ ~ loading /\ page = <<>> /\ saved[thread] = <<>>
              /\ \A k \in Turns : Used(k) => ThreadOf(k) # thread

MessagesOK ==
  /\ Of(page, thread)
  /\ \A t \in Threads : Of(saved[t], t)
  /\ \A k \in Turns : Of(run[k].held, ThreadOf(k))

\* A message of the user is saved when its run begins, once.
Begun(k) == k <= Stored \/ run[k].at \in {"streaming", "over"}
OneEach(s) == \A i, j \in UserPlaces(s) : s[i] = s[j] => i = j
BegunOnly(s) == OneEach(s) /\ \A i \in DOMAIN s : Begun(s[i].turn)
SavedOnce ==
  /\ \A t \in Threads : BegunOnly(saved[t])
  /\ \A k \in Turns : BegunOnly(run[k].held)

\* A turn that has ended on the page in an undisturbed thread has ended on the server.
Rested(k) == ~ Asked(k) /\ run[k].at \in {"none", "over"}
TurnsRest ==
  \A k \in Turns :
    Used(k) /\ turn[k].settled /\ ThreadOf(k) \notin disturbed => Rested(k)

\* A thread is deleted by requests in flight, or it is gone.
DeletedOK ==
  /\ \A t \in Threads : Delete(t) \in net \/ Drop(t) \in net => t \in deleted \cup disturbed
  /\ \A t \in deleted \ disturbed :
       /\ \A k \in Turns : Used(k) /\ ThreadOf(k) = t => turn[k].settled
       /\ Delete(t) \notin net => t \notin row
       /\ Delete(t) \notin net /\ Drop(t) \notin net => saved[t] = <<>>

\* A thread that holds messages has its row, or the turn that brings it is under way.
Intact(t) == t \notin disturbed \cup deleted
RowsOK ==
  /\ \A t \in Threads : Intact(t) /\ saved[t] # <<>> =>
       t \in row \/ (active # NoTurn /\ thread = t)
  /\ active # NoTurn /\ Intact(thread) /\ (turn[active].known \/ Created(active) \in net) =>
       thread \in row

\* The page against the checkpoint, in a thread that is intact: the turn's prompt is
\* ahead of the checkpoint until its run begins, what it replaces until the prune.
Cut(p, r) == SubSeq(p, 1, IF r <= Len(p) THEN Len(p) - r ELSE 0)
Phase(k) ==
  LET old == Prompts(saved[thread]) new == Prompts(page) IN
  /\ run[k].at \in {"none", "queued", "pruning"} =>
       new = Append(Cut(old, turn[k].replace), turn[k].prompt)
  /\ run[k].at = "pruning" =>
       run[k].doomed = {saved[thread][i] : i \in Doomed(saved[thread], turn[k].replace)}
  /\ run[k].at = "ready" => new = Append(old, turn[k].prompt)
  /\ run[k].at = "streaming" => new = old /\ Prompts(run[k].held) = old
  /\ run[k].at = "over" => new = old
  /\ run[k].at # "dead"

Agree == Intact(thread) =>
  /\ loading =>
       /\ active = NoTurn
       /\ \A r \in InNet("loaded") : r.seq = loadSeq =>
            r.msgs = saved[thread] /\ (r.msgs # <<>> => thread \in row)
  /\ ~ loading /\ active = NoTurn =>
       Prompts(page) = Prompts(saved[thread]) /\ (page # <<>> => thread \in row)
  /\ ~ loading /\ active # NoTurn => Phase(active)

HistInv ==
  /\ TypesOK /\ TurnsUsed /\ AskedOnce /\ StoredUsed /\ LoadsOK /\ ThreadsOK /\ MessagesOK
  /\ SavedOnce /\ TurnsRest /\ DeletedOK /\ RowsOK /\ Agree

-----------------------------------------------------------------------------
(* Places in a sequence of messages *)
UpTo(places, i) == {j \in places : j <= i}

\* A set of places of a list of length n.
LEMMA PlacesFinite ==
  ASSUME NEW n \in Nat, NEW places \in SUBSET (1 .. n)
  PROVE  /\ IsFiniteSet(places) /\ Cardinality(places) \in Nat
         /\ \A i : /\ IsFiniteSet(UpTo(places, i)) /\ Cardinality(UpTo(places, i)) \in Nat
                   /\ Cardinality(UpTo(places, i)) <= Cardinality(places)
<1>1. IsFiniteSet(1 .. n)
  BY FS_Interval
<1>2. IsFiniteSet(places) /\ Cardinality(places) \in Nat
  BY <1>1, FS_Subset, FS_CardinalityType
<1>3. ASSUME NEW i
      PROVE  /\ IsFiniteSet(UpTo(places, i)) /\ Cardinality(UpTo(places, i)) \in Nat
             /\ Cardinality(UpTo(places, i)) <= Cardinality(places)
  <2>1. UpTo(places, i) \in SUBSET places
    BY Zenon DEF UpTo
  <2>2. IsFiniteSet(UpTo(places, i)) /\ Cardinality(UpTo(places, i)) <= Cardinality(places)
    BY <1>2, <2>1, FS_Subset
  <2> QED  BY <2>2, FS_CardinalityType
<1> QED  BY <1>2, <1>3

\* The places are counted in their order.
LEMMA PlacesCount ==
  ASSUME NEW n \in Nat, NEW places \in SUBSET (1 .. n), NEW i \in places
  PROVE  /\ Cardinality(UpTo(places, i)) \in 1 .. Cardinality(places)
         /\ \A j \in places : i < j => Cardinality(UpTo(places, i)) < Cardinality(UpTo(places, j))
<1>0. i \in Int /\ \A j \in places : j \in Int
  OBVIOUS
<1>1. ASSUME NEW j
      PROVE  /\ IsFiniteSet(UpTo(places, j)) /\ Cardinality(UpTo(places, j)) \in Nat
             /\ Cardinality(UpTo(places, j)) <= Cardinality(places) /\ Cardinality(places) \in Nat
  BY PlacesFinite
<1>2. Cardinality(UpTo(places, i)) # 0
  <2>1. i \in UpTo(places, i)
    BY <1>0 DEF UpTo
  <2> QED  BY <1>1, <2>1, FS_EmptySet
<1>3. ASSUME NEW j \in places, i < j
      PROVE  Cardinality(UpTo(places, i)) < Cardinality(UpTo(places, j))
  <2>0. \A l \in places : l <= i => l <= j
    BY <1>0, <1>3
  <2>1. UpTo(places, i) \in SUBSET UpTo(places, j) /\ j \in UpTo(places, j) /\ j \notin UpTo(places, i)
    <3>1. UpTo(places, i) \in SUBSET UpTo(places, j)
      BY <2>0, Zenon DEF UpTo
    <3>2. j <= j /\ ~ j <= i
      BY <1>0, <1>3
    <3> QED  BY <3>1, <3>2, Zenon DEF UpTo
  <2>2. /\ Cardinality(UpTo(places, i)) <= Cardinality(UpTo(places, j))
        /\ Cardinality(UpTo(places, j)) # Cardinality(UpTo(places, i))
    BY <1>1, <2>1, FS_Subset
  <2>3. Cardinality(UpTo(places, i)) \in Nat /\ Cardinality(UpTo(places, j)) \in Nat
    BY <1>1
  <2> QED  BY <2>2, <2>3
<1>4. Cardinality(UpTo(places, i)) \in 1 .. Cardinality(places)
  BY <1>1, <1>2
<1> QED  BY <1>3, <1>4

\* Each place has its own count.
LEMMA NthIs ==
  ASSUME NEW n \in Nat, NEW places \in SUBSET (1 .. n), NEW i \in places
  PROVE  Nth(places, Cardinality(UpTo(places, i))) = i
<1> DEFINE c == Cardinality(UpTo(places, i))
           x == Nth(places, c)
<1>1. x \in places /\ Cardinality(UpTo(places, x)) = c
  BY DEF Nth, UpTo
<1>2. c \in Nat
  BY PlacesFinite
<1>3. ~ i < x /\ ~ x < i
  <2> HIDE DEF x
  <2>1. \A j, k \in places : j < k => Cardinality(UpTo(places, j)) < Cardinality(UpTo(places, k))
    BY PlacesCount
  <2>2. ~ c < c
    BY <1>2
  <2> QED  BY <1>1, <2>1, <2>2
<1>4. i \in Int /\ x \in Int
  <2>1. \A j \in places : j \in Int
    OBVIOUS
  <2> QED  BY <1>1, <2>1
<1> HIDE DEF x
<1>5. x = i
  BY <1>3, <1>4
<1> QED  BY <1>5 DEF x

\* The places in their order are places, each of them once.
LEMMA NthFacts ==
  ASSUME NEW n \in Nat, NEW places \in SUBSET (1 .. n)
  PROVE  /\ \A m \in 1 .. Cardinality(places) :
              Nth(places, m) \in places /\ Cardinality(UpTo(places, Nth(places, m))) = m
         /\ \A l, m \in 1 .. Cardinality(places) : l < m => Nth(places, l) < Nth(places, m)
<1> DEFINE N == Cardinality(places)
           rank == [i \in places |-> Cardinality(UpTo(places, i))]
<1>1. N \in Nat /\ IsFiniteSet(places)
  BY PlacesFinite
<1>2. rank \in [places -> 1 .. N]
  BY PlacesCount
<1>3. \A i, j \in places : rank[i] = rank[j] => i = j
  BY NthIs
<1>4. rank \in Surjection(places, 1 .. N)
  <2>1. rank \in Injection(places, 1 .. N)
    BY <1>2, <1>3 DEF Injection, IsInjective
  <2>2. IsFiniteSet(1 .. N) /\ Cardinality(1 .. N) = N
    BY <1>1, FS_Interval
  <2> HIDE DEF rank
  <2> QED  BY <2>1, <2>2, FS_Injection
<1>5. ASSUME NEW m \in 1 .. N
      PROVE  Nth(places, m) \in places /\ Cardinality(UpTo(places, Nth(places, m))) = m
  <2>1. PICK i \in places : Cardinality(UpTo(places, i)) = m
    BY <1>4 DEF Surjection
  <2> QED  BY <2>1, NthIs
<1>6. ASSUME NEW l \in 1 .. N, NEW m \in 1 .. N, l < m
      PROVE  Nth(places, l) < Nth(places, m)
  <2> DEFINE x == Nth(places, l)
             y == Nth(places, m)
  <2>1. /\ x \in places /\ Cardinality(UpTo(places, x)) = l
        /\ y \in places /\ Cardinality(UpTo(places, y)) = m
    BY <1>5
  <2> HIDE DEF x, y
  <2>2. y < x => m < l
    BY <2>1, PlacesCount
  <2>3. x # y /\ ~ y < x /\ x \in Int /\ y \in Int
    BY <1>1, <1>6, <2>1, <2>2
  <2>4. x < y
    BY <2>3
  <2> QED  BY <2>4 DEF x, y
<1> QED  BY <1>5, <1>6

-----------------------------------------------------------------------------
(* Prompts *)
\* How many messages of the user there are up to a place.
Count(s, i) == Cardinality(UpTo(UserPlaces(s), i))

\* Where the user's messages are, and how many are before each.
LEMMA UserPlacesOK ==
  ASSUME NEW s \in Seq(Msgs)
  PROVE  /\ Len(s) \in Nat /\ DOMAIN s = 1 .. Len(s)
         /\ UserPlaces(s) \in SUBSET (1 .. Len(s)) /\ Users(s) \in Nat
         /\ \A i : Count(s, i) \in 0 .. Users(s)
         /\ \A i \in UserPlaces(s) : Count(s, i) \in 1 .. Users(s)
         /\ \A n \in 1 .. Users(s) : \E i \in UserPlaces(s) : Count(s, i) = n
         /\ \A i \in DOMAIN s : s[i] \in Msgs
<1>1. Len(s) \in Nat /\ DOMAIN s = 1 .. Len(s) /\ \A i \in DOMAIN s : s[i] \in Msgs
  BY LenProperties, ElementOfSeq
<1>2. UserPlaces(s) \in SUBSET (1 .. Len(s))
  BY <1>1 DEF UserPlaces
<1> DEFINE P == UserPlaces(s)
<1> HIDE DEF P
<1>3. P \in SUBSET (1 .. Len(s)) /\ Users(s) = Cardinality(P) /\ \A i : Count(s, i) = Cardinality(UpTo(P, i))
  BY <1>2 DEF P, Users, Count
<1>4. /\ Cardinality(P) \in Nat
      /\ \A i : Cardinality(UpTo(P, i)) \in Nat /\ Cardinality(UpTo(P, i)) <= Cardinality(P)
  BY <1>1, <1>3, PlacesFinite
<1>5. \A i \in P : Cardinality(UpTo(P, i)) \in 1 .. Cardinality(P)
  BY <1>1, <1>3, PlacesCount
<1>6. \A n \in 1 .. Cardinality(P) : \E i \in P : Cardinality(UpTo(P, i)) = n
  BY <1>1, <1>3, NthFacts
<1>7. \A i : Count(s, i) \in 0 .. Users(s)
  BY <1>3, <1>4
<1> QED  BY <1>1, <1>2, <1>3, <1>4, <1>5, <1>6, <1>7 DEF P

\* The prompts in their order.
LEMMA PromptsOK ==
  ASSUME NEW s \in Seq(Msgs)
  PROVE  /\ Prompts(s) \in Seq(Turns) /\ Len(Prompts(s)) = Users(s)
         /\ \A i \in UserPlaces(s) : Prompts(s)[Count(s, i)] = s[i].prompt
<1>1. /\ UserPlaces(s) \in SUBSET (1 .. Len(s)) /\ Len(s) \in Nat /\ Users(s) \in Nat
      /\ \A i \in UserPlaces(s) : s[i].prompt \in Turns /\ Count(s, i) \in 1 .. Users(s)
  BY UserPlacesOK DEF UserPlaces, Msgs
<1> DEFINE P == UserPlaces(s)
<1>2. \A n \in 1 .. Users(s) : Nth(P, n) \in P
  BY <1>1, NthFacts DEF Users
<1>3. \A i \in P : Nth(P, Count(s, i)) = i
  BY <1>1, NthIs DEF Count
<1>4. \A n \in 1 .. Users(s) : s[Nth(P, n)].prompt \in Turns
  BY <1>1, <1>2
<1>5. Prompts(s) = [n \in 1 .. Users(s) |-> s[Nth(P, n)].prompt]
  BY DEF Prompts
<1> HIDE DEF P
<1>6. Prompts(s) \in Seq(Turns) /\ Len(Prompts(s)) = Users(s)
  BY <1>1, <1>4, <1>5
<1>7. \A i \in UserPlaces(s) : Prompts(s)[Count(s, i)] = s[i].prompt
  BY <1>1, <1>3, <1>5 DEF P
<1> QED  BY <1>6, <1>7

\* Two lists whose messages of the user correspond have the same prompts.
LEMMA SamePrompts ==
  ASSUME NEW s \in Seq(Msgs), NEW t \in Seq(Msgs), Users(t) <= Users(s),
         \A i \in UserPlaces(t) : \E j \in UserPlaces(s) :
            Count(s, j) = Count(t, i) /\ s[j].prompt = t[i].prompt
  PROVE  \A n \in 1 .. Users(t) : Prompts(t)[n] = Prompts(s)[n]
<1> TAKE n \in 1 .. Users(t)
<1>1. PICK i \in UserPlaces(t) : Count(t, i) = n
  BY UserPlacesOK
<1>2. PICK j \in UserPlaces(s) : Count(s, j) = n /\ s[j].prompt = t[i].prompt
  BY <1>1
<1>3. Prompts(t)[n] = t[i].prompt /\ Prompts(s)[n] = s[j].prompt
  BY <1>1, <1>2, PromptsOK
<1> QED  BY <1>2, <1>3

LEMMA EmptyPrompts ==
  /\ <<>> \in Seq(Msgs) /\ Users(<<>>) = 0 /\ UserPlaces(<<>>) = {} /\ Prompts(<<>>) = <<>>
<1>1. UserPlaces(<<>>) = {}
  BY DEF UserPlaces
<1>2. Users(<<>>) = 0
  BY <1>1, FS_EmptySet DEF Users
<1>3. <<>> \in Seq(Msgs)
  OBVIOUS
<1>4. Prompts(<<>>) \in Seq(Turns) /\ Len(Prompts(<<>>)) = 0
  BY <1>2, <1>3, PromptsOK
<1> QED  BY <1>1, <1>2, <1>3, <1>4

\* A message of the user adds its prompt, the agent's adds none.
LEMMA PromptsOfAppend ==
  ASSUME NEW s \in Seq(Msgs), NEW m \in Msgs
  PROVE  /\ Append(s, m) \in Seq(Msgs)
         /\ m.role = "user" => Prompts(Append(s, m)) = Append(Prompts(s), m.prompt)
         /\ m.role # "user" => Prompts(Append(s, m)) = Prompts(s)
<1> DEFINE t == Append(s, m)
           P == UserPlaces(s)
           Q == UserPlaces(t)
           N == Len(s)
<1>1. /\ t \in Seq(Msgs) /\ Len(t) = N + 1 /\ N \in Nat /\ t[N + 1] = m
      /\ DOMAIN s = 1 .. N /\ DOMAIN t = 1 .. N + 1
      /\ \A i \in 1 .. N : t[i] = s[i]
  OBVIOUS
<1>2. P \in SUBSET (1 .. N) /\ Q \in SUBSET (1 .. N + 1)
  BY <1>1 DEF UserPlaces
<1> HIDE DEF t, N
<1>2a. \A i : (i \in P => i \in 1 .. N) /\ (i \in Q => i \in 1 .. N + 1)
  BY <1>2
<1>2b. \A i : i \in 1 .. N + 1 <=> i \in 1 .. N \/ i = N + 1
  BY <1>1
<1>2c. N + 1 \notin 1 .. N
  BY <1>1
<1>3. \A i \in 1 .. N : i \in Q <=> i \in P
  BY <1>1 DEF UserPlaces
<1>4. N + 1 \in Q <=> m.role = "user"
  BY <1>1 DEF UserPlaces
<1> HIDE DEF P, Q
<1>5. \A i \in 1 .. N : UpTo(Q, i) = UpTo(P, i)
  <2>1. ASSUME NEW i \in 1 .. N, NEW j PROVE j \in UpTo(Q, i) <=> j \in UpTo(P, i)
    <3>1. j \in 1 .. N + 1 /\ j <= i => j \in 1 .. N
      BY <1>1
    <3> QED  BY <1>2a, <1>3, <3>1 DEF UpTo
  <2> QED  BY <2>1
<1>6. \A i \in P : i \in Q /\ Count(t, i) = Count(s, i) /\ t[i] = s[i]
  BY <1>1, <1>2, <1>3, <1>5 DEF P, Q, Count
<1>7. CASE m.role # "user"
  <2>1. Q = P
    BY <1>2a, <1>2b, <1>3, <1>4, <1>7, Zenon
  <2>2. Users(t) = Users(s) /\ Users(t) <= Users(s)
    BY <1>1, <2>1, UserPlacesOK DEF Users, P, Q
  <2>3. \A n \in 1 .. Users(t) : Prompts(t)[n] = Prompts(s)[n]
    <3>1. \A i \in Q : \E j \in P : Count(s, j) = Count(t, i) /\ s[j].prompt = t[i].prompt
      BY <1>6, <2>1
    <3> QED  BY <1>1, <2>2, <3>1, SamePrompts DEF P, Q
  <2>4. Prompts(t) = Prompts(s)
    BY <1>1, <2>2, <2>3, PromptsOK, SeqEqual
  <2> QED  BY <1>1, <1>7, <2>4 DEF t
<1>8. CASE m.role = "user"
  <2>1. Q = P \cup {N + 1} /\ N + 1 \notin P
    BY <1>2a, <1>2b, <1>2c, <1>3, <1>4, <1>8, Zenon
  <2>2. IsFiniteSet(P) /\ Users(s) = Cardinality(P)
    BY <1>1, <1>2, PlacesFinite DEF Users, P
  <2>3. Users(t) = Users(s) + 1 /\ Users(s) \in Nat
    <3>1. Cardinality(Q) = Cardinality(P) + 1
      BY <2>1, <2>2, FS_AddElement
    <3> QED  BY <2>2, <3>1, UserPlacesOK DEF Users, Q
  <2>4. \A n \in 1 .. Users(s) : Prompts(t)[n] = Prompts(s)[n]
    <3>1. \A i \in P : \E j \in Q : Count(t, j) = Count(s, i) /\ t[j].prompt = s[i].prompt
      BY <1>6
    <3>2. Users(s) <= Users(t)
      BY <2>3
    <3> QED  BY <1>1, <3>1, <3>2, SamePrompts DEF P, Q
  <2>5. Prompts(t)[Users(s) + 1] = m.prompt
    <3>1. \A j \in Q : j <= N + 1
      BY <1>1, <1>2
    <3>2. UpTo(Q, N + 1) = Q
      BY <3>1 DEF UpTo
    <3>3. Count(t, N + 1) = Users(s) + 1
      BY <2>3, <3>2 DEF Count, Users, Q
    <3> QED  BY <1>1, <2>1, <3>3, PromptsOK DEF Q
  <2> DEFINE p == Prompts(s)
             q == Prompts(t)
  <2>6. /\ p \in Seq(Turns) /\ Len(p) = Users(s)
        /\ q \in Seq(Turns) /\ Len(q) = Users(s) + 1
    BY <1>1, <2>3, PromptsOK
  <2>7. m.prompt \in Turns
    BY DEF Msgs
  <2> HIDE DEF p, q
  <2>8. q = Append(p, m.prompt)
    <3>1. Append(p, m.prompt) \in Seq(Turns) /\ Len(Append(p, m.prompt)) = Len(q)
      BY <2>6, <2>7
    <3>2. \A n \in 1 .. Len(q) : q[n] = Append(p, m.prompt)[n]
      BY <2>3, <2>4, <2>5, <2>6, <2>7 DEF p, q
    <3> QED  BY <2>6, <3>1, <3>2, SeqEqual
  <2> QED  BY <1>1, <1>8, <2>8 DEF p, q, t
<1> QED  BY <1>7, <1>8

\* Cut to its first c messages, a list keeps the prompts among them.
LEMMA PromptsOfPrefix ==
  ASSUME NEW s \in Seq(Msgs), NEW c \in 0 .. Len(s)
  PROVE  /\ SubSeq(s, 1, c) \in Seq(Msgs)
         /\ Users(SubSeq(s, 1, c)) = Count(s, c)
         /\ Prompts(SubSeq(s, 1, c)) = SubSeq(Prompts(s), 1, Count(s, c))
<1> DEFINE t == SubSeq(s, 1, c)
           P == UserPlaces(s)
           Q == UserPlaces(t)
           K == Count(s, c)
<1>0. c \in Nat /\ Len(s) \in Nat /\ c <= Len(s)
  BY UserPlacesOK
<1>1. /\ t \in Seq(Msgs) /\ Len(t) = c
      /\ \A i \in 1 .. c : t[i] = s[i]
      /\ DOMAIN t = 1 .. c /\ DOMAIN s = 1 .. Len(s)
  <2>1. \A i \in 1 .. c : s[i] \in Msgs
    BY <1>0, UserPlacesOK
  <2>2. /\ t \in Seq(Msgs) /\ Len(t) = IF 1 <= c THEN c - 1 + 1 ELSE 0
        /\ \A i \in 1 .. c - 1 + 1 : t[i] = s[1 + i - 1]
    BY <1>0, <2>1, SubSeqProperties
  <2> HIDE DEF t
  <2>3. Len(t) = c
    BY <1>0, <2>2
  <2>4. \A i \in 1 .. c : t[i] = s[i]
    BY <1>0, <2>2
  <2> QED  BY <2>2, <2>3, <2>4, UserPlacesOK
<1> HIDE DEF t
<1>2. Q = UpTo(P, c)
  <2>1. ASSUME NEW i PROVE i \in 1 .. c <=> i \in 1 .. Len(s) /\ i <= c
    BY <1>0
  <2> QED  BY <1>1, <2>1 DEF UserPlaces, UpTo
<1>3. Users(t) = K /\ K \in 0 .. Users(s) /\ Users(s) \in Nat
  BY <1>2, UserPlacesOK DEF Users, Count
<1>4. \A i \in Q : i \in P /\ Count(t, i) = Count(s, i) /\ t[i] = s[i]
  <2>1. ASSUME NEW i \in Q PROVE UpTo(Q, i) = UpTo(P, i)
    <3>1. i \in Int /\ i <= c /\ \A j \in P : j \in Int
      BY <1>1, <1>2, UserPlacesOK DEF UpTo
    <3>2. \A j \in P : j <= i => j <= c
      BY <1>0, <3>1
    <3> QED  BY <1>2, <3>2, Zenon DEF UpTo
  <2> QED  BY <1>1, <1>2, <2>1 DEF Count, UpTo, UserPlaces
<1>5. \A n \in 1 .. K : Prompts(t)[n] = Prompts(s)[n]
  <2>1. \A i \in UserPlaces(t) : \E j \in UserPlaces(s) :
            Count(s, j) = Count(t, i) /\ s[j].prompt = t[i].prompt
    BY <1>4
  <2>2. Users(t) <= Users(s)
    BY <1>3
  <2> QED  BY <1>1, <1>3, <2>1, <2>2, SamePrompts
<1> DEFINE p == Prompts(s)
           q == Prompts(t)
<1>6. p \in Seq(Turns) /\ Len(p) = Users(s) /\ q \in Seq(Turns) /\ Len(q) = K
  BY <1>1, <1>3, PromptsOK
<1> HIDE DEF K, p, q
<1>7. q = SubSeq(p, 1, K)
  <2>0. K \in Nat /\ K <= Len(p) /\ Len(p) \in Nat
    BY <1>3, <1>6
  <2>1. \A i \in 1 .. K : p[i] \in Turns
    BY <1>6, <2>0
  <2>2. /\ SubSeq(p, 1, K) \in Seq(Turns) /\ Len(SubSeq(p, 1, K)) = IF 1 <= K THEN K - 1 + 1 ELSE 0
        /\ \A i \in 1 .. K - 1 + 1 : SubSeq(p, 1, K)[i] = p[1 + i - 1]
    BY <2>0, <2>1, SubSeqProperties
  <2>3. Len(SubSeq(p, 1, K)) = K
    BY <2>0, <2>2
  <2>4. \A i \in 1 .. K : SubSeq(p, 1, K)[i] = p[i]
    BY <2>0, <2>2
  <2>5. \A n \in 1 .. K : q[n] = SubSeq(p, 1, K)[n]
    BY <1>5, <2>4 DEF p, q
  <2> QED  BY <1>6, <2>2, <2>3, <2>5, SeqEqual
<1> QED  BY <1>1, <1>3, <1>7 DEF t, K, p, q

\* The messages of the user after a place are those not counted up to it.
LEMMA UsersOfSuffix ==
  ASSUME NEW s \in Seq(Msgs), NEW c \in 0 .. Len(s)
  PROVE  Users(SubSeq(s, c + 1, Len(s))) = Users(s) - Count(s, c)
<1> DEFINE N == Len(s)
           t == SubSeq(s, c + 1, N)
           P == UserPlaces(s)
           Q == UserPlaces(t)
           rest == P \ UpTo(P, c)
           shift == [i \in Q |-> i + c]
<1>0. c \in Nat /\ N \in Nat /\ c <= N /\ DOMAIN s = 1 .. N
  BY UserPlacesOK
<1> HIDE DEF N
<1>1. /\ t \in Seq(Msgs) /\ DOMAIN t = 1 .. N - c
      /\ \A i \in 1 .. N - c : t[i] = s[i + c]
  <2>1. \A i \in c + 1 .. N : s[i] \in Msgs
    BY <1>0, UserPlacesOK
  <2>2. /\ t \in Seq(Msgs) /\ Len(t) = IF c + 1 <= N THEN N - (c + 1) + 1 ELSE 0
        /\ \A i \in 1 .. N - (c + 1) + 1 : t[i] = s[(c + 1) + i - 1]
    BY <1>0, <2>1, SubSeqProperties
  <2> HIDE DEF t
  <2>3. Len(t) = N - c
    BY <1>0, <2>2
  <2>4. \A i \in 1 .. N - c : t[i] = s[i + c]
    <3> TAKE i \in 1 .. N - c
    <3>1. i \in 1 .. N - (c + 1) + 1 /\ (c + 1) + i - 1 = i + c
      BY <1>0
    <3> QED  BY <2>2, <3>1
  <2> QED  BY <2>2, <2>3, <2>4, LenProperties
<1> HIDE DEF t
<1>2. P \in SUBSET (1 .. N) /\ IsFiniteSet(P)
  BY <1>0, UserPlacesOK, PlacesFinite DEF N
<1>3. \A i : i \in Q <=> i \in 1 .. N - c /\ i + c \in P
  <2>1. \A i \in 1 .. N - c : i + c \in 1 .. N
    BY <1>0
  <2> QED  BY <1>0, <1>1, <2>1 DEF UserPlaces
<1>4. \A j : j \in rest <=> j \in P /\ j - c \in 1 .. N - c
  <2>1. \A j \in P : ~ j <= c <=> j - c \in 1 .. N - c
    BY <1>0, <1>2
  <2> QED  BY <2>1 DEF UpTo
<1> HIDE DEF P, Q, rest
<1>5. shift \in Bijection(Q, rest)
  <2>1. \A i \in Q : shift[i] \in rest
    <3> TAKE i \in Q
    <3>1. i \in 1 .. N - c /\ i + c \in P
      BY <1>3
    <3>2. (i + c) - c = i
      BY <1>0, <3>1
    <3> QED  BY <1>4, <3>1, <3>2
  <2>2. \A i, j \in Q : shift[i] = shift[j] => i = j
    <3>1. \A i \in Q : i \in Int
      BY <1>0, <1>3
    <3> QED  BY <1>0, <3>1
  <2>3. \A j \in rest : \E i \in Q : shift[i] = j
    <3> TAKE j \in rest
    <3>0. \A i \in P : i \in Int
      BY <1>0, <1>2
    <3>1. j \in P /\ j - c \in 1 .. N - c /\ j \in Int
      BY <1>4, <3>0
    <3>2. (j - c) + c = j
      BY <1>0, <3>1
    <3>3. j - c \in Q
      BY <1>3, <3>1, <3>2
    <3> QED  BY <3>2, <3>3
  <2>4. shift \in [Q -> rest]
    BY <2>1
  <2> HIDE DEF shift
  <2> QED  BY <2>2, <2>3, <2>4 DEF Bijection, Injection, Surjection, IsInjective
<1>6. IsFiniteSet(rest) /\ Cardinality(rest) = Cardinality(P) - Cardinality(UpTo(P, c))
  <2>1. P \cap UpTo(P, c) = UpTo(P, c)
    BY DEF UpTo
  <2> QED  BY <1>2, <2>1, FS_Difference DEF rest
<1>7. Cardinality(Q) = Cardinality(rest)
  <2>1. IsFiniteSet(Q)
    <3>1. shift \in Injection(Q, rest)
      BY <1>5 DEF Bijection
    <3> HIDE DEF shift
    <3> QED  BY <1>6, <3>1, FS_Injection
  <2>2. ExistsBijection(Q, rest)
    <3> HIDE DEF shift
    <3> QED  BY <1>5 DEF ExistsBijection
  <2> QED  BY <2>1, <2>2, FS_Bijection
<1> QED  BY <1>6, <1>7 DEF Users, Count, t, N, P, Q

\* Some places of a list, in their order, hold what it holds there.
LEMMA AtFacts ==
  ASSUME NEW s \in Seq(Msgs), NEW places \in SUBSET (1 .. Len(s))
  PROVE  /\ At(s, places) \in Seq(Msgs)
         /\ DOMAIN At(s, places) = 1 .. Cardinality(places)
         /\ \A m \in 1 .. Cardinality(places) :
              Nth(places, m) \in places /\ At(s, places)[m] = s[Nth(places, m)]
<1>1. Len(s) \in Nat /\ DOMAIN s = 1 .. Len(s) /\ \A i \in 1 .. Len(s) : s[i] \in Msgs
  BY UserPlacesOK
<1>2. Cardinality(places) \in Nat
  BY <1>1, PlacesFinite
<1>3. \A m \in 1 .. Cardinality(places) : Nth(places, m) \in places
  BY <1>1, NthFacts
<1> DEFINE N == Cardinality(places)
<1> HIDE DEF N
<1>4. N \in Nat /\ \A m \in 1 .. N : s[Nth(places, m)] \in Msgs
  BY <1>1, <1>2, <1>3 DEF N
<1>5. [m \in 1 .. N |-> s[Nth(places, m)]] \in Seq(Msgs)
  BY <1>4
<1>6. At(s, places) = [m \in 1 .. N |-> s[Nth(places, m)]]
  BY DEF At, N
<1> QED  BY <1>3, <1>5, <1>6 DEF N

\* Left with the messages of the user that count up to K, a list keeps the first K
\* prompts.
LEMMA PromptsOfKept ==
  ASSUME NEW s \in Seq(Msgs), NEW R \in SUBSET (1 .. Len(s)), NEW K \in 0 .. Users(s),
         \A i \in UserPlaces(s) : i \in R <=> Count(s, i) <= K
  PROVE  Prompts(At(s, R)) = SubSeq(Prompts(s), 1, K)
<1> DEFINE t == At(s, R)
           P == UserPlaces(s)
           Q == UserPlaces(t)
           N == Cardinality(R)
<1>1. /\ Len(s) \in Nat /\ P \in SUBSET (1 .. Len(s)) /\ Users(s) \in Nat
      /\ \A i \in P : Count(s, i) \in 1 .. Users(s)
  BY UserPlacesOK
<1>2. /\ t \in Seq(Msgs) /\ DOMAIN t = 1 .. N
      /\ \A m \in 1 .. N : Nth(R, m) \in R /\ t[m] = s[Nth(R, m)]
  BY AtFacts
<1> HIDE DEF t
<1>3. \A l, m \in 1 .. N : /\ l < m => Nth(R, l) < Nth(R, m)
                           /\ l <= m <=> Nth(R, l) <= Nth(R, m)
                           /\ l # m => Nth(R, l) # Nth(R, m)
  <2>1. \A l, m \in 1 .. N : l < m => Nth(R, l) < Nth(R, m)
    BY <1>1, NthFacts
  <2>2. \A m \in 1 .. N : Nth(R, m) \in Int /\ m \in Int
    BY <1>1, <1>2
  <2>3. ASSUME NEW l \in 1 .. N, NEW m \in 1 .. N
        PROVE  (l <= m <=> Nth(R, l) <= Nth(R, m)) /\ (l # m => Nth(R, l) # Nth(R, m))
    <3> DEFINE x == Nth(R, l)
               y == Nth(R, m)
    <3>1. x \in Int /\ y \in Int /\ l \in Int /\ m \in Int
      BY <2>2
    <3>2. (l < m => x < y) /\ (m < l => y < x) /\ (l = m => x = y)
      BY <2>1
    <3> HIDE DEF x, y
    <3>3. (l <= m <=> x <= y) /\ (l # m => x # y)
      BY <3>1, <3>2
    <3> QED  BY <3>3 DEF x, y
  <2> QED  BY <2>1, <2>3
<1>4. \A i \in R : /\ Cardinality(UpTo(R, i)) \in 1 .. N
                   /\ Nth(R, Cardinality(UpTo(R, i))) = i
  BY <1>1, NthIs, PlacesCount
<1>5. \A m : m \in Q <=> m \in 1 .. N /\ Nth(R, m) \in P
  <2>1. \A i \in R : i \in DOMAIN s
    BY UserPlacesOK
  <2> QED  BY <1>2, <2>1 DEF UserPlaces
<1> HIDE DEF N, P, Q
<1>6. ASSUME NEW m \in Q PROVE Count(t, m) = Count(s, Nth(R, m)) /\ Count(s, Nth(R, m)) <= K
  <2> DEFINE x == Nth(R, m)
             A == UpTo(Q, m)
             B == UpTo(P, x)
             g == [l \in A |-> Nth(R, l)]
  <2>0. \A i \in R : i \in Int
    BY <1>1
  <2>1. m \in 1 .. N /\ x \in P /\ x \in R /\ x \in Int
    BY <1>2, <1>5, <2>0 DEF N
  <2> HIDE DEF x
  <2>2. Count(s, x) <= K
    BY <2>1 DEF P
  <2>3. \A l \in A : l \in 1 .. N /\ g[l] \in B
    <3>1. \A l \in A : l \in Q /\ l <= m /\ l \in 1 .. N
      BY <1>5 DEF UpTo
    <3>2. \A l \in A : Nth(R, l) \in P /\ Nth(R, l) <= x
      BY <1>3, <1>5, <2>1, <3>1 DEF x
    <3> QED  BY <3>1, <3>2 DEF UpTo
  <2>4. ASSUME NEW i \in B PROVE \E l \in A : g[l] = i
    <3>1. i \in P /\ i <= x /\ i \in Int
      BY <1>1 DEF UpTo
    <3>2. Count(s, i) <= K
      <4>1. i < x => Count(s, i) < Count(s, x)
        BY <1>1, <2>1, <3>1, PlacesCount DEF Count, P
      <4>2. Count(s, i) \in Int /\ Count(s, x) \in Int /\ K \in Int
        BY <1>1, <2>1, <3>1 DEF P
      <4>3. i = x \/ i < x
        BY <2>1, <3>1
      <4> QED  BY <2>2, <4>1, <4>2, <4>3
    <3>3. i \in R
      BY <3>1, <3>2 DEF P
    <3> DEFINE l == Cardinality(UpTo(R, i))
    <3>4. l \in 1 .. N /\ Nth(R, l) = i
      BY <1>4, <3>3
    <3> HIDE DEF l
    <3>5. l \in Q /\ l <= m
      BY <1>3, <1>5, <2>1, <3>1, <3>4 DEF x
    <3> QED  BY <3>4, <3>5 DEF UpTo
  <2>5. g \in Bijection(A, B)
    <3>1. g \in [A -> B]
      BY <2>3
    <3>2. \A k, l \in A : g[k] = g[l] => k = l
      BY <1>3, <2>3
    <3>3. \A i \in B : \E l \in A : g[l] = i
      BY <2>4
    <3> HIDE DEF g, A, B
    <3> QED  BY <3>1, <3>2, <3>3 DEF Bijection, Injection, Surjection, IsInjective
  <2>6. IsFiniteSet(B)
    BY <1>1, PlacesFinite DEF P
  <2>7. IsFiniteSet(A) /\ Cardinality(A) = Cardinality(B)
    <3> HIDE DEF g, A, B
    <3>1. IsFiniteSet(A)
      BY <2>5, <2>6, FS_Injection DEF Bijection
    <3> QED  BY <2>5, <3>1, FS_Bijection DEF ExistsBijection
  <2>8. Count(t, m) = Count(s, x)
    BY <2>7 DEF Count, P, Q
  <2> QED  BY <2>2, <2>8 DEF x
<1>7. \A n \in 1 .. K : \E m \in Q : Count(t, m) = n
  <2> TAKE n \in 1 .. K
  <2>1. n \in 1 .. Users(s) /\ n <= K
    BY <1>1
  <2>2. PICK i \in P : Count(s, i) = n
    BY <2>1, UserPlacesOK DEF P
  <2>3. i \in R
    BY <2>1, <2>2 DEF P
  <2> DEFINE m == Cardinality(UpTo(R, i))
  <2>4. m \in 1 .. N /\ Nth(R, m) = i
    BY <1>4, <2>3
  <2> HIDE DEF m
  <2>5. m \in Q /\ Count(t, m) = n
    BY <1>5, <1>6, <2>2, <2>4
  <2> QED  BY <2>5
<1>8. Users(t) = K
  <2> DEFINE h == [m \in Q |-> Count(t, m)]
  <2>1. \A m \in Q : Count(t, m) \in 1 .. Users(t) /\ Count(t, m) <= K
    BY <1>2, <1>6, UserPlacesOK DEF Q
  <2>2. \A m \in Q : Count(t, m) \in 1 .. K
    BY <1>1, <2>1
  <2>3. h \in [Q -> 1 .. K]
    BY <2>2
  <2>4. Q \in SUBSET (1 .. Len(t)) /\ Len(t) \in Nat
    BY <1>2, UserPlacesOK DEF Q
  <2>5. \A l, m \in Q : Count(t, l) = Count(t, m) => l = m
    BY <2>4, NthIs DEF Count, Q
  <2>6. \A l, m \in Q : h[l] = h[m] => l = m
    BY <2>5
  <2>7. \A n \in 1 .. K : \E m \in Q : h[m] = n
    BY <1>7
  <2> HIDE DEF h
  <2>8. h \in Injection(Q, 1 .. K) /\ h \in Surjection(Q, 1 .. K)
    BY <2>3, <2>6, <2>7 DEF Injection, Surjection, IsInjective
  <2>9. IsFiniteSet(1 .. K) /\ Cardinality(1 .. K) = K
    BY <1>1, FS_Interval
  <2>10. Cardinality(Q) = K
    BY <2>8, <2>9, FS_Injection
  <2> QED  BY <2>10 DEF Users, Q
<1>9. \A n \in 1 .. K : Prompts(t)[n] = Prompts(s)[n]
  <2>1. \A m \in UserPlaces(t) : \E j \in UserPlaces(s) :
            Count(s, j) = Count(t, m) /\ s[j].prompt = t[m].prompt
    BY <1>2, <1>5, <1>6 DEF P, Q
  <2>2. Users(t) <= Users(s)
    BY <1>1, <1>8
  <2> QED  BY <1>2, <1>8, <2>1, <2>2, SamePrompts
<1> DEFINE p == Prompts(s)
           q == Prompts(t)
<1>10. p \in Seq(Turns) /\ Len(p) = Users(s) /\ q \in Seq(Turns) /\ Len(q) = K
  BY <1>2, <1>8, PromptsOK
<1> HIDE DEF p, q
<1>11. K \in Nat /\ K <= Len(p)
  BY <1>1, <1>10
<1>12. /\ SubSeq(p, 1, K) \in Seq(Turns) /\ Len(SubSeq(p, 1, K)) = K
       /\ \A n \in 1 .. K : SubSeq(p, 1, K)[n] = p[n]
  <2>1. \A i \in 1 .. K : p[i] \in Turns
    BY <1>1, <1>10
  <2>2. /\ SubSeq(p, 1, K) \in Seq(Turns) /\ Len(SubSeq(p, 1, K)) = IF 1 <= K THEN K - 1 + 1 ELSE 0
        /\ \A i \in 1 .. K - 1 + 1 : SubSeq(p, 1, K)[i] = p[1 + i - 1]
    BY <1>11, <2>1, SubSeqProperties
  <2>3. Len(SubSeq(p, 1, K)) = K
    BY <1>11, <2>2
  <2>4. \A i \in 1 .. K : SubSeq(p, 1, K)[i] = p[i]
    BY <1>11, <2>2
  <2> QED  BY <2>2, <2>3, <2>4
<1>13. \A n \in 1 .. K : q[n] = SubSeq(p, 1, K)[n]
  BY <1>9, <1>12 DEF p, q
<1>14. q = SubSeq(p, 1, K)
  BY <1>10, <1>12, <1>13, SeqEqual
<1> QED  BY <1>14 DEF p, q, t

-----------------------------------------------------------------------------
(* The turns of the page *)

\* What a step never takes back from a turn.
Kept(k) ==
  /\ turn'[k].thread = turn[k].thread /\ turn'[k].prompt = turn[k].prompt
  /\ turn'[k].replace = turn[k].replace /\ turn'[k].known = turn[k].known
  /\ turn[k].settled => turn'[k].settled

\* What teardownRun and finish leave of a turn.
LEMMA SettledKeeps ==
  ASSUME NEW g, IsTurn(g)
  PROVE  LET h == [g EXCEPT !.settled = TRUE]
         IN /\ h.thread = g.thread /\ h.prompt = g.prompt /\ h.replace = g.replace
            /\ h.known = g.known /\ h.settled = TRUE
<1>1. g = [thread |-> g.thread, prompt |-> g.prompt, replace |-> g.replace,
           known |-> g.known, settled |-> g.settled]
  BY DEF IsTurn
<1> QED  BY <1>1

LEMMA TearDownKeeps ==
  ASSUME RunInv, NEW j \in Turns
  PROVE  LET h == TornDown(turn)[j]
         IN /\ h.thread = turn[j].thread /\ h.prompt = turn[j].prompt
            /\ h.replace = turn[j].replace /\ h.known = turn[j].known /\ h.settled = TRUE
            /\ IsTurn(h)
<1> USE DEF RunInv
<1>1. IsTurn(TornDown(turn)[j]) /\ TornDown(turn)[j].settled
  BY TearDown
<1>2. CASE active = NoTurn \/ j # active
  <2>1. TornDown(turn)[j] = turn[j]
    BY <1>2, ActiveIsTurn DEF TornDown, TurnsOK
  <2> QED  BY <1>1, <2>1 DEF IsTurn
<1>3. CASE active # NoTurn /\ j = active
  <2>1. TornDown(turn)[j] = [turn[j] EXCEPT !.settled = TRUE]
    BY <1>3 DEF TornDown, TurnsOK
  <2>2. IsTurn(turn[j])
    BY DEF TurnsOK
  <2> QED  BY <1>1, <2>1, <2>2, SettledKeeps
<1> QED  BY <1>2, <1>3

\* Two turns that know the same are the same.
LEMMA SameTurn ==
  ASSUME NEW g, NEW h, IsTurn(g), IsTurn(h), g.thread = h.thread, g.prompt = h.prompt,
         g.replace = h.replace, g.known = h.known, g.settled = h.settled
  PROVE  g = h
  BY DEF IsTurn

\* The active turn is one of the thread that is open.
LEMMA ActiveUsed ==
  ASSUME RunInv, TurnsUsed, active # NoTurn
  PROVE  /\ active \in Turns /\ Used(active) /\ ~ turn[active].settled
         /\ turn[active].thread = thread /\ CutOff = {thread}
<1>1. active \in Turns /\ ~ turn[active].settled /\ turn[active].thread = thread
  BY ActiveIsTurn DEF RunInv, RunningIsActive
<1>2. Used(active)
  <2>1. turn[active] # Idle
    BY <1>1 DEF Idle
  <2> QED  BY <1>1, <2>1 DEF TurnsUsed
<1> QED  BY <1>1, <1>2 DEF CutOff

\* runTurn begins a turn that was not used, and leaves the others behind.
LEMMA BeginsTurn ==
  ASSUME RunInv, TurnsUsed, NEW k, NEW prompt, NEW replace, RunTurn(k, prompt, replace)
  PROVE  /\ k \in Turns /\ ~ Used(k)
         /\ \A j \in Turns : j < k <=> Used(j)
         /\ \A j \in Turns : j # k => Kept(j) /\ turn'[j].settled /\ IsTurn(turn'[j])
         /\ turn'[k] = [thread |-> thread, prompt |-> prompt, replace |-> replace,
                        known |-> FALSE, settled |-> FALSE]
<1>1. PICK n \in 0 .. MaxTurns : \A j \in Turns : Used(j) <=> j <= n
  BY DEF TurnsUsed
<1>2. \A j \in Turns : turn[j] # Idle <=> j <= n
  <2>1. Idle.prompt = NoTurn
    BY DEF Idle
  <2>2. \A j \in Turns : turn[j] # Idle <=> Used(j)
    BY <2>1 DEF TurnsUsed, Used
  <2> QED  BY <1>1, <2>2
<1>3. {j \in Turns : turn[j] # Idle} = 1 .. n
  <2>1. \A j : j \in Turns /\ j <= n <=> j \in 1 .. n
    BY HistoryBounds DEF Turns
  <2> QED  BY <1>2, <2>1
<1>4. k = n + 1 /\ k \in Turns
  <2>1. Cardinality(1 .. n) = n
    BY HistoryBounds, FS_Interval
  <2> QED  BY <1>3, <2>1 DEF RunTurn
<1>5. \A j \in Turns : j < k <=> Used(j)
  BY <1>1, <1>4, HistoryBounds DEF Turns
<1> DEFINE new == [thread |-> thread, prompt |-> prompt, replace |-> replace,
                   known |-> FALSE, settled |-> FALSE]
           old == TornDown(turn)
<1>6. turn' = [old EXCEPT ![k] = new] /\ old = [j \in Turns |-> old[j]]
  BY TearDown DEF RunTurn
<1> HIDE DEF new
<1>7. turn'[k] = new /\ \A j \in Turns : j # k => turn'[j] = old[j]
  <2> HIDE DEF old
  <2> QED  BY <1>4, <1>6
<1>8. \A j \in Turns : j # k => Kept(j) /\ turn'[j].settled /\ IsTurn(turn'[j])
  BY <1>7, TearDownKeeps DEF Kept
<1>9. ~ Used(k)
  BY <1>1, <1>4, HistoryBounds
<1> QED  BY <1>4, <1>5, <1>7, <1>8, <1>9 DEF new

\* The page leaves its turns.
Left == /\ \A j \in Turns : Kept(j) /\ turn'[j].settled /\ IsTurn(turn'[j])
        /\ active' = NoTurn /\ disturbed' = disturbed \cup CutOff
\* Leaving the page, its turns end.
LEMMA Leaves ==
  ASSUME RunInv,
         Stop \/ Remount \/ \E t \in Threads : SelectThread(t) \/ NewChat(t) \/ DeleteOpen(t)
  PROVE  Left /\ serverVars' = serverVars
<1>1. CASE Remount
  <2>1. turn' = [k \in Turns |-> [turn[k] EXCEPT !.settled = TRUE]]
    BY <1>1 DEF Remount
  <2>2. \A j \in Turns : Kept(j) /\ turn'[j].settled /\ IsTurn(turn'[j])
    <3> TAKE j \in Turns
    <3>1. turn'[j] = [turn[j] EXCEPT !.settled = TRUE] /\ IsTurn(turn[j])
      BY <2>1 DEF RunInv, TurnsOK
    <3>2. IsTurn([turn[j] EXCEPT !.settled = TRUE])
      BY <3>1, FieldChanges
    <3> QED  BY <3>1, <3>2, SettledKeeps DEF Kept
  <2> QED  BY <1>1, <2>2 DEF Remount, LoadThread, Disturb, Left
<1>2. ASSUME turn' = TornDown(turn) PROVE \A j \in Turns : Kept(j) /\ turn'[j].settled /\ IsTurn(turn'[j])
  BY <1>2, TearDownKeeps DEF Kept
<1>3. CASE Stop
  BY <1>2, <1>3 DEF Stop, Disturb, Left, serverVars
<1>4. CASE \E t \in Threads : SelectThread(t) \/ NewChat(t) \/ DeleteOpen(t)
  <2>1. PICK t \in Threads : SelectThread(t) \/ \E q : Open(t, q)
    BY <1>4 DEF NewChat, DeleteOpen
  <2>2. /\ turn' = TornDown(turn) /\ active' = NoTurn /\ disturbed' = disturbed \cup CutOff
        /\ serverVars' = serverVars
    BY <2>1 DEF SelectThread, Open, LoadThread, Disturb
  <2> QED  BY <1>2, <2>2 DEF Left
<1> QED  BY <1>1, <1>3, <1>4

\* A turn ends.
LEMMA Finishes ==
  ASSUME RunInv, NEW k \in Turns, Finish(k)
  PROVE  /\ \A j \in Turns : Kept(j) /\ IsTurn(turn'[j]) /\ (j # k => turn'[j] = turn[j])
         /\ turn'[k].settled
         /\ active' = IF active = k THEN NoTurn ELSE active
<1> DEFINE f == [turn EXCEPT ![k].settled = TRUE]
<1>1. turn' = f /\ active' = IF active = k THEN NoTurn ELSE active
  BY DEF Finish
<1>2. turn'[k] = [turn[k] EXCEPT !.settled = TRUE] /\ \A j \in Turns : j # k => turn'[j] = turn[j]
  BY <1>1 DEF RunInv, TurnsOK
<1>3. \A j \in Turns : IsTurn(turn[j])
  BY DEF RunInv, TurnsOK
<1>4. Kept(k) /\ turn'[k].settled /\ IsTurn(turn'[k])
  BY <1>2, <1>3, SettledKeeps, FieldChanges DEF Kept
<1>5. \A j \in Turns : j # k => Kept(j) /\ IsTurn(turn'[j])
  BY <1>2, <1>3 DEF Kept, IsTurn
<1> QED  BY <1>1, <1>2, <1>4, <1>5

\* The page gets to know a run.
LEMMA Learns ==
  ASSUME RunInv, NEW k \in Turns, turn' = [turn EXCEPT ![k].known = TRUE]
  PROVE  /\ \A j \in Turns : j # k => turn'[j] = turn[j]
         /\ turn'[k].thread = turn[k].thread /\ turn'[k].prompt = turn[k].prompt
         /\ turn'[k].replace = turn[k].replace /\ turn'[k].settled = turn[k].settled
         /\ turn'[k].known = TRUE /\ IsTurn(turn'[k])
<1> DEFINE h == [turn[k] EXCEPT !.known = TRUE]
<1>1. turn'[k] = h /\ \A j \in Turns : j # k => turn'[j] = turn[j]
  BY DEF RunInv, TurnsOK
<1>2. IsTurn(turn[k])
  BY DEF RunInv, TurnsOK
<1>3. IsTurn(h)
  BY <1>2, FieldChanges
<1>4. turn[k] = [thread |-> turn[k].thread, prompt |-> turn[k].prompt, replace |-> turn[k].replace,
           known |-> turn[k].known, settled |-> turn[k].settled]
  BY <1>2 DEF IsTurn
<1>5. /\ h.thread = turn[k].thread /\ h.prompt = turn[k].prompt
      /\ h.replace = turn[k].replace /\ h.settled = turn[k].settled /\ h.known = TRUE
  BY <1>4
<1> HIDE DEF h
<1> QED  BY <1>1, <1>3, <1>5

-----------------------------------------------------------------------------
(* Requests, and the groups of steps *)

\* A request in flight is one of those the page and the server make.
LEMMA RequestIs ==
  ASSUME TypesOK, NEW r \in net
  PROVE  /\ r.kind = "post" => r.turn \in Turns /\ r = Post(r.turn)
         /\ r.kind = "record" => r.turn \in Turns /\ r = Record(r.turn)
         /\ r.kind = "created" => r.turn \in Turns /\ r = Created(r.turn)
         /\ r.kind = "delete" => r.thread \in Threads /\ r = Delete(r.thread)
         /\ r.kind = "drop" => r.thread \in Threads /\ r = Drop(r.thread)
         /\ r.kind = "load" => r.seq \in Nat /\ r.thread \in Threads /\ r = Load(r.seq, r.thread)
         /\ r.kind = "loaded" => r.seq \in Nat /\ r.msgs \in Seq(Msgs) /\ r = Loaded(r.seq, r.msgs)
<1> DEFINE M == Seq(Msgs)
<1> HIDE DEF M
<1>1. \/ r \in [kind : {"post", "record", "created"}, turn : Turns]
      \/ r \in [kind : {"delete", "drop"}, thread : Threads]
      \/ r \in [kind : {"load"}, seq : Nat, thread : Threads]
      \/ r \in [kind : {"loaded"}, seq : Nat, msgs : M]
  BY DEF TypesOK, Requests, M
<1>2. CASE r \in [kind : {"post", "record", "created"}, turn : Turns]
  BY <1>2 DEF Post, Record, Created
<1>3. CASE r \in [kind : {"delete", "drop"}, thread : Threads]
  BY <1>3 DEF Delete, Drop
<1>4. CASE r \in [kind : {"load"}, seq : Nat, thread : Threads]
  BY <1>4 DEF Load
<1>5. CASE r \in [kind : {"loaded"}, seq : Nat, msgs : M]
  BY <1>5 DEF Loaded, M
<1> QED  BY <1>1, <1>2, <1>3, <1>4, <1>5

LEMMA RequestsAre ==
  /\ \A k \in Turns : {Post(k), Record(k), Created(k)} \subseteq Requests
  /\ \A t \in Threads : {Delete(t), Drop(t)} \subseteq Requests
  /\ \A t \in Threads, n \in Nat : Load(n, t) \in Requests
  /\ \A n \in Nat, m \in Seq(Msgs) : Loaded(n, m) \in Requests
<1> DEFINE M == Seq(Msgs)
<1> HIDE DEF M
<1>1. \A k \in Turns : {Post(k), Record(k), Created(k)} \subseteq [kind : {"post", "record", "created"}, turn : Turns]
  BY DEF Post, Record, Created
<1>2. \A t \in Threads : {Delete(t), Drop(t)} \subseteq [kind : {"delete", "drop"}, thread : Threads]
  BY DEF Delete, Drop
<1>3. \A t \in Threads, n \in Nat : Load(n, t) \in [kind : {"load"}, seq : Nat, thread : Threads]
  BY DEF Load
<1>4. \A n \in Nat, m \in M : Loaded(n, m) \in [kind : {"loaded"}, seq : Nat, msgs : M]
  BY DEF Loaded
<1> QED  BY <1>1, <1>2, <1>3, <1>4, Zenon DEF Requests, M

\* What the requests are is told apart by their kinds.
LEMMA Kinds ==
  /\ \A k : Post(k).kind = "post" /\ Record(k).kind = "record" /\ Created(k).kind = "created"
  /\ \A k : Post(k).turn = k /\ Record(k).turn = k /\ Created(k).turn = k
  /\ \A t : Delete(t).kind = "delete" /\ Drop(t).kind = "drop" /\ Delete(t).thread = t /\ Drop(t).thread = t
  /\ \A n, t : Load(n, t).kind = "load" /\ Load(n, t).seq = n /\ Load(n, t).thread = t
  /\ \A n, m : Loaded(n, m).kind = "loaded" /\ Loaded(n, m).seq = n /\ Loaded(n, m).msgs = m
  BY DEF Post, Record, Created, Delete, Drop, Load, Loaded

\* The messages of a turn.
LEMMA MsgIs ==
  ASSUME NEW k \in Turns, NEW p \in Turns
  PROVE  /\ Msg("user", k, p) \in Msgs /\ Msg("assistant", k, p) \in Msgs
         /\ Msg("user", k, p).role = "user" /\ Msg("assistant", k, p).role = "assistant"
         /\ Msg("user", k, p).turn = k /\ Msg("assistant", k, p).turn = k
         /\ Msg("user", k, p).prompt = p /\ Msg("assistant", k, p).prompt = p
  BY DEF Msg, Msgs

\* What a turn begins with is in the page.
LEMMA SendsRun ==
  ASSUME TypesOK, NEW k, Send(k) \/ Reload(k) \/ Edit(k)
  PROVE  \E p \in Turns, r \in Nat : RunTurn(k, p, r) /\ k \in Turns
<1>1. CASE Send(k)
  BY <1>1 DEF Send, RunTurn
<1>2. CASE Reload(k)
  <2>1. PICK i \in DOMAIN page : RunTurn(k, page[i].prompt, 1)
    BY <1>2 DEF Reload
  <2>2. page[i].prompt \in Turns
    BY UserPlacesOK DEF TypesOK, Msgs
  <2> QED  BY <2>1, <2>2 DEF RunTurn
<1>3. CASE Edit(k)
  <2>1. PICK cut \in 0 .. Len(page) - 1 : RunTurn(k, k, ReplaceTurns(page, cut))
    BY <1>3 DEF Edit
  <2>2. ReplaceTurns(page, cut) \in Nat
    <3>1. Len(page) \in Nat /\ page \in Seq(Msgs)
      BY UserPlacesOK DEF TypesOK
    <3>2. SubSeq(page, cut + 1, Len(page)) \in Seq(Msgs)
      <4>1. cut + 1 \in 1 .. Len(page)
        BY <3>1
      <4>2. \A i \in cut + 1 .. Len(page) : page[i] \in Msgs
        BY <3>1, <4>1, UserPlacesOK
      <4> QED  BY <3>1, <4>1, <4>2, SubSeqProperties
    <3> QED  BY <3>2, UserPlacesOK DEF ReplaceTurns
  <2> QED  BY <2>1, <2>2 DEF RunTurn
<1> QED  BY <1>1, <1>2, <1>3

\* The page of a turn that begins: the messages up to a place, and its own.
LEMMA PageOfTurn ==
  ASSUME TypesOK, NEW k \in Turns
  PROVE  /\ Send(k) => page' = Append(Append(page, Msg("user", k, k)), Msg("assistant", k, k))
         /\ \A c \in 0 .. Len(page) :
              SubSeq(page, 1, c) \o <<Msg("user", k, k), Msg("assistant", k, k)>>
                = Append(Append(SubSeq(page, 1, c), Msg("user", k, k)), Msg("assistant", k, k))
<1> DEFINE u == Msg("user", k, k)
           a == Msg("assistant", k, k)
<1>1. u \in Msgs /\ a \in Msgs
  BY MsgIs
<1> HIDE DEF u, a
<1>2. ASSUME NEW s \in Seq(Msgs) PROVE s \o <<u, a>> = Append(Append(s, u), a)
  <2>1. <<u, a>> \in Seq(Msgs) /\ Len(<<u, a>>) = 2 /\ <<u, a>>[1] = u /\ <<u, a>>[2] = a
    BY <1>1
  <2>2. /\ Append(Append(s, u), a) \in Seq(Msgs) /\ Len(Append(Append(s, u), a)) = Len(s) + 2
        /\ Len(s) \in Nat
        /\ \A i \in 1 .. Len(s) : Append(Append(s, u), a)[i] = s[i]
        /\ Append(Append(s, u), a)[Len(s) + 1] = u
        /\ Append(Append(s, u), a)[Len(s) + 2] = a
    BY <1>1
  <2>3. /\ s \o <<u, a>> \in Seq(Msgs) /\ Len(s \o <<u, a>>) = Len(s) + 2
        /\ \A i \in 1 .. Len(s) + 2 : (s \o <<u, a>>)[i] = IF i <= Len(s) THEN s[i] ELSE <<u, a>>[i - Len(s)]
    BY <2>1, ConcatProperties
  <2> DEFINE x == s \o <<u, a>>
             y == Append(Append(s, u), a)
             N == Len(s)
  <2>4. \A i \in 1 .. N + 2 : x[i] = y[i]
    <3> TAKE i \in 1 .. N + 2
    <3> HIDE DEF x, y, N
    <3>0. N \in Nat
      BY <2>2 DEF N
    <3>1. CASE i \in 1 .. N
      BY <2>2, <2>3, <3>0, <3>1 DEF x, y, N
    <3>2. CASE i = N + 1
      <4>1. i - N = 1 /\ ~ i <= N
        BY <3>0, <3>2
      <4> QED  BY <2>1, <2>2, <2>3, <3>2, <4>1 DEF x, y, N
    <3>3. CASE i = N + 2
      <4>1. i - N = 2 /\ ~ i <= N
        BY <3>0, <3>3
      <4> QED  BY <2>1, <2>2, <2>3, <3>3, <4>1 DEF x, y, N
    <3> QED  BY <3>0, <3>1, <3>2, <3>3
  <2> HIDE DEF x, y
  <2> QED  BY <2>2, <2>3, <2>4, SeqEqual DEF x, y
<1>3. page \in Seq(Msgs)
  BY DEF TypesOK
<1>4. Send(k) => page' = page \o <<u, a>>
  BY DEF Send, u, a
<1>5. \A c \in 0 .. Len(page) : SubSeq(page, 1, c) \in Seq(Msgs)
  BY <1>3, PromptsOfPrefix
<1> QED  BY <1>2, <1>3, <1>4, <1>5 DEF u, a

Sends(k) == Send(k) \/ Reload(k) \/ Edit(k)
LeavesPage == Stop \/ Remount \/ \E t \in Threads : SelectThread(t) \/ NewChat(t) \/ DeleteOpen(t)
Closes == RunIdArrives \/ PostFails \/ \E k \in Turns : StreamCloses(k)
LoadSteps == LoadedArrives \/ LoadFails \/ LoadArrives
RunSteps == PostArrives \/ RecordSession \/ \E k \in Turns : Works(k)
DeleteSteps == DeleteArrives \/ DropCheckpoint \/ \E t \in Threads : DeleteOther(t)

\* Every step is of one of these groups.
LEMMA StepIs ==
  ASSUME [Next]_vars
  PROVE  \/ \E k \in Turns : Sends(k)
         \/ LeavesPage \/ Closes \/ LoadSteps \/ RunSteps \/ DeleteSteps \/ UNCHANGED vars
  BY DEF Next, Sends, LeavesPage, Closes, LoadSteps, RunSteps, DeleteSteps

\* The network's and the server's steps leave the page's turns alone.
LEMMA TurnsAlone ==
  ASSUME LoadSteps \/ RunSteps \/ DeleteSteps \/ UNCHANGED vars
  PROVE  /\ turn' = turn /\ active' = active /\ running' = running /\ thread' = thread
         /\ minted' = minted /\ fresh' = fresh /\ loadSeq' = loadSeq
  BY DEF Works, PruneReads, PruneWrites, Begins, Ends, ServerOnly, DeleteOther, LoadedArrives,
         LoadFails, KeepTurns, LoadArrives, PostArrives, RecordSession, DeleteArrives,
         DropCheckpoint, Serves, pageVars, vars, LoadSteps, RunSteps, DeleteSteps

\* What a step does to a turn it does not begin.
Same(k) ==
  /\ turn'[k].thread = turn[k].thread /\ turn'[k].prompt = turn[k].prompt
  /\ turn'[k].replace = turn[k].replace
  /\ turn[k].settled => turn'[k].settled
  /\ turn[k].known => turn'[k].known
  /\ ~ Used(k) => turn'[k] = Idle

LEMMA IdleIs ==
  /\ IsTurn(Idle) /\ Idle.thread = "none" /\ Idle.prompt = NoTurn /\ Idle.replace = 0
  /\ Idle.known = FALSE /\ Idle.settled = TRUE
  BY DEF IsTurn, Idle

\* A turn that is kept is the same, one that was never begun stays so.
LEMMA KeptIsSame ==
  ASSUME RunInv, TurnsUsed, NEW j \in Turns, Kept(j), IsTurn(turn'[j])
  PROVE  Same(j)
<1>1. ASSUME ~ Used(j) PROVE turn'[j] = Idle
  <2>1. turn[j] = Idle
    BY <1>1 DEF TurnsUsed
  <2>2. turn'[j].settled = TRUE
    BY <2>1, IdleIs DEF Kept, IsTurn
  <2> QED  BY <2>1, <2>2, IdleIs, SameTurn DEF Kept
<1> QED  BY <1>1 DEF Kept, Same

\* The ends a turn may come to.
LEMMA CloseIs ==
  ASSUME RunInv, TypesOK, TurnsUsed, Closes
  PROVE  \/ \E k \in Turns : Used(k) /\ Finish(k) /\ (turn[k].settled \/ disturbed' = disturbed \cup {turn[k].thread}
                                                      \/ (turn[k].known /\ run[k].at = "over"))
         \/ \E k \in Turns : /\ Used(k) /\ Created(k) \in net /\ ~ turn[k].settled
                             /\ turn' = [turn EXCEPT ![k].known = TRUE]
                             /\ active' = active /\ running' = running
<1>1. \A k \in Turns : Asked(k) => Used(k)
  BY DEF TurnsUsed, Asked
<1>2. CASE RunIdArrives
  <2>1. PICK r \in net : /\ r.kind = "created"
                         /\ IF turn[r.turn].settled THEN Finish(r.turn)
                            ELSE turn' = [turn EXCEPT ![r.turn].known = TRUE] /\ UNCHANGED <<active, running>>
    BY <1>2 DEF RunIdArrives, InNet
  <2>2. r.turn \in Turns /\ r = Created(r.turn)
    BY <2>1, RequestIs
  <2>3. Used(r.turn) /\ Created(r.turn) \in net
    BY <1>1, <2>1, <2>2 DEF Asked
  <2> QED  BY <2>1, <2>2, <2>3
<1>3. CASE PostFails
  <2>1. PICK r \in net : /\ r.kind \in {"post", "created"} /\ Finish(r.turn)
                         /\ disturbed' = disturbed \cup {turn[r.turn].thread}
    BY <1>3 DEF PostFails, InNet, Disturb
  <2>2. r.turn \in Turns /\ (r = Created(r.turn) \/ r = Post(r.turn))
    BY <2>1, RequestIs
  <2>3. Used(r.turn)
    BY <1>1, <2>1, <2>2 DEF Asked
  <2> QED  BY <2>1, <2>2, <2>3
<1>4. CASE \E k \in Turns : StreamCloses(k)
  <2>1. PICK k \in Turns : StreamCloses(k)
    BY <1>4
  <2>2. turn[k].known /\ Finish(k) /\ (disturbed' = disturbed \cup {turn[k].thread} \/ run[k].at = "over")
    BY <2>1 DEF StreamCloses, Disturb
  <2>3. Used(k)
    BY <2>2, IdleIs DEF TurnsUsed
  <2> QED  BY <2>2, <2>3
<1> QED  BY <1>2, <1>3, <1>4 DEF Closes

\* A step begins one turn, or none.
LEMMA TurnSteps ==
  ASSUME RunInv, TypesOK, TurnsUsed
  PROVE  /\ LeavesPage \/ Closes \/ LoadSteps \/ RunSteps \/ DeleteSteps \/ UNCHANGED vars =>
              \A j \in Turns : Same(j)
         /\ \A k : Sends(k) => \A j \in Turns : j # k => Same(j)
<1>1. ASSUME LeavesPage PROVE \A j \in Turns : Same(j)
  BY <1>1, Leaves, KeptIsSame DEF LeavesPage, Left
<1>2. ASSUME Closes PROVE \A j \in Turns : Same(j)
  <2>1. CASE \E k \in Turns : Finish(k)
    BY <2>1, Finishes, KeptIsSame
  <2>2. CASE \E k \in Turns : Used(k) /\ turn' = [turn EXCEPT ![k].known = TRUE]
    <3>1. PICK k \in Turns : Used(k) /\ turn' = [turn EXCEPT ![k].known = TRUE]
      BY <2>2
    <3>2. \A j \in Turns : j # k => turn'[j] = turn[j]
      BY <3>1, Learns
    <3>3. Same(k)
      BY <3>1, Learns DEF Same
    <3> QED  BY <3>2, <3>3 DEF Same, TurnsUsed
  <2> QED  BY <1>2, <2>1, <2>2, CloseIs
<1>3. ASSUME LoadSteps \/ RunSteps \/ DeleteSteps \/ UNCHANGED vars PROVE \A j \in Turns : Same(j)
  <2>1. turn' = turn
    BY <1>3, TurnsAlone
  <2> QED  BY <2>1 DEF Same, TurnsUsed
<1>4. ASSUME NEW k, Sends(k) PROVE \A j \in Turns : j # k => Same(j)
  <2>1. PICK p \in Turns, r \in Nat : RunTurn(k, p, r)
    BY <1>4, SendsRun DEF Sends
  <2> QED  BY <2>1, BeginsTurn, KeptIsSame
<1> QED  BY <1>1, <1>2, <1>3, <1>4

-----------------------------------------------------------------------------
(* Types *)

\* The page of a turn that begins.
LEMMA SendsPage ==
  ASSUME TypesOK, NEW k \in Turns, Sends(k)
  PROVE  \/ page' = Append(Append(page, Msg("user", k, k)), Msg("assistant", k, k)) /\ Send(k)
         \/ \E c \in 1 .. Len(page) :
              /\ page[c].role = "user" /\ page[c].prompt \in Turns
              /\ Users(SubSeq(page, c + 1, Len(page))) = 0
              /\ page' = Append(SubSeq(page, 1, c), Msg("assistant", k, page[c].prompt))
              /\ RunTurn(k, page[c].prompt, 1)
         \/ \E c \in 0 .. Len(page) :
              /\ page' = Append(Append(SubSeq(page, 1, c), Msg("user", k, k)), Msg("assistant", k, k))
              /\ RunTurn(k, k, Users(SubSeq(page, c + 1, Len(page))))
<1>1. CASE Send(k)
  BY <1>1, PageOfTurn
<1>2. CASE Reload(k)
  <2>1. PICK c \in DOMAIN page :
          /\ page[c].role = "user" /\ Users(SubSeq(page, c + 1, Len(page))) = 0
          /\ page' = Append(SubSeq(page, 1, c), Msg("assistant", k, page[c].prompt))
          /\ RunTurn(k, page[c].prompt, 1)
    BY <1>2 DEF Reload
  <2>2. c \in 1 .. Len(page) /\ page[c].prompt \in Turns
    BY UserPlacesOK DEF TypesOK, Msgs
  <2> QED  BY <2>1, <2>2
<1>3. CASE Edit(k)
  <2>1. PICK c \in 0 .. Len(page) - 1 :
          /\ page' = SubSeq(page, 1, c) \o <<Msg("user", k, k), Msg("assistant", k, k)>>
          /\ RunTurn(k, k, ReplaceTurns(page, c))
    BY <1>3 DEF Edit
  <2>2. Len(page) \in Nat
    BY UserPlacesOK DEF TypesOK
  <2>3. c \in 0 .. Len(page)
    BY <2>2
  <2> QED  BY <2>1, <2>3, PageOfTurn DEF ReplaceTurns
<1> QED  BY <1>1, <1>2, <1>3 DEF Sends

\* The page holds messages after a step, the network requests.
LEMMA PageTyped ==
  ASSUME RunInv, TypesOK, [Next]_vars
  PROVE  /\ page' \in Seq(Msgs) /\ thread' \in Threads /\ minted' \subseteq Threads
         /\ fresh' \in BOOLEAN /\ loading' \in BOOLEAN /\ loadSeq' \in Nat
<1>0. page \in Seq(Msgs) /\ <<>> \in Seq(Msgs) /\ loadSeq \in Nat
  BY DEF TypesOK
<1>1. ASSUME NEW k \in Turns, Sends(k) PROVE page' \in Seq(Msgs)
  <2>1. \A s \in Seq(Msgs), p, q \in Turns :
          /\ Append(s, Msg("assistant", k, p)) \in Seq(Msgs)
          /\ Append(Append(s, Msg("user", k, q)), Msg("assistant", k, p)) \in Seq(Msgs)
    BY MsgIs
  <2>2. \A c \in 0 .. Len(page) : SubSeq(page, 1, c) \in Seq(Msgs)
    BY <1>0, PromptsOfPrefix
  <2>3. \A c \in 1 .. Len(page) : c \in 0 .. Len(page)
    BY <1>0
  <2> QED  BY <1>0, <1>1, <2>1, <2>2, <2>3, SendsPage, Zenon
<1>2. ASSUME NEW k \in Turns, Sends(k)
      PROVE  UNCHANGED <<thread, minted, loading, loadSeq>> /\ fresh' \in BOOLEAN
  BY <1>2 DEF Sends, Send, Reload, Edit, RunTurn, TypesOK
<1>3. CASE LeavesPage
  <2>1. CASE Stop
    BY <2>1 DEF Stop, TypesOK
  <2>2. CASE Remount
    BY <1>0, <2>2 DEF Remount, LoadThread, TypesOK
  <2>3. CASE \E t \in Threads : SelectThread(t)
    <3>1. PICK t \in Threads : SelectThread(t)
      BY <2>3
    <3>2. /\ page' = <<>> /\ thread' = t /\ minted' = minted /\ fresh' = FALSE
          /\ loadSeq' = loadSeq + 1 /\ loading' = TRUE
      BY <3>1 DEF SelectThread, LoadThread
    <3>3. fresh' \in BOOLEAN /\ loading' \in BOOLEAN
      BY <3>2
    <3>4. minted' \subseteq Threads
      BY <3>2 DEF TypesOK
    <3> QED  BY <1>0, <3>2, <3>3, <3>4
  <2>4. CASE \E t \in Threads : \E q : Open(t, q)
    BY <1>0, <2>4 DEF Open, LoadThread, TypesOK
  <2> QED  BY <1>3, <2>1, <2>2, <2>3, <2>4 DEF LeavesPage, NewChat, DeleteOpen
<1>4. CASE Closes
  BY <1>4 DEF Closes, RunIdArrives, PostFails, StreamCloses, KeepPage, TypesOK
<1>5. CASE LoadSteps
  <2>1. CASE LoadedArrives
    <3>1. PICK r \in net : r.kind = "loaded" /\ Show(r.seq, r.msgs)
      BY <2>1 DEF LoadedArrives, InNet
    <3>2. r.msgs \in Seq(Msgs)
      BY <3>1, RequestIs
    <3> QED  BY <1>0, <2>1, <3>1, <3>2 DEF Show, LoadedArrives, KeepTurns, TypesOK
  <2>2. CASE LoadFails
    BY <1>0, <2>2 DEF LoadFails, Show, KeepTurns, TypesOK
  <2>3. CASE LoadArrives
    BY <2>3 DEF LoadArrives, Serves, pageVars, TypesOK
  <2> QED  BY <1>5, <2>1, <2>2, <2>3 DEF LoadSteps
<1>6. CASE RunSteps \/ DeleteSteps \/ UNCHANGED vars
  BY <1>6 DEF RunSteps, DeleteSteps, Works, PruneReads, PruneWrites, Begins, Ends, ServerOnly,
              DeleteOther, PostArrives, RecordSession, DeleteArrives, DropCheckpoint, Serves,
              pageVars, vars, TypesOK
<1>7. CASE \E k \in Turns : Sends(k)
  BY <1>1, <1>2, <1>7 DEF TypesOK
<1> QED  BY <1>3, <1>4, <1>5, <1>6, <1>7, StepIs

LEMMA NetTyped ==
  ASSUME RunInv, TypesOK, [Next]_vars
  PROVE  net' \subseteq Requests
<1>0. net \subseteq Requests /\ loadSeq \in Nat /\ loadSeq + 1 \in Nat /\ thread \in Threads
      /\ row \subseteq Threads
  BY DEF TypesOK
<1> HIDE DEF Requests
<1>1. ASSUME NEW k \in Turns, Sends(k) PROVE net' \subseteq Requests
  <2>1. net' = net \cup {Post(k)}
    BY <1>1 DEF Sends, Send, Reload, Edit, RunTurn
  <2> QED  BY <1>0, <2>1, RequestsAre
<1>2. CASE LeavesPage
  <2>1. CASE Stop
    BY <1>0, <2>1 DEF Stop
  <2>2. CASE Remount
    BY <1>0, <2>2, RequestsAre DEF Remount, LoadThread
  <2>3. ASSUME NEW t \in Threads, SelectThread(t) PROVE net' \subseteq Requests
    BY <1>0, <2>3, RequestsAre DEF SelectThread, LoadThread
  <2>4. ASSUME NEW t \in Threads, NewChat(t) PROVE net' \subseteq Requests
    BY <1>0, <2>4, RequestsAre DEF NewChat, Open, LoadThread
  <2>5. ASSUME NEW t \in Threads, DeleteOpen(t) PROVE net' \subseteq Requests
    BY <1>0, <2>5, RequestsAre DEF DeleteOpen, Open, LoadThread
  <2> QED  BY <1>2, <2>1, <2>2, <2>3, <2>4, <2>5 DEF LeavesPage
<1>3. CASE Closes
  BY <1>0, <1>3 DEF Closes, RunIdArrives, PostFails, StreamCloses
<1>4. CASE LoadSteps
  <2>1. CASE LoadedArrives \/ LoadFails
    BY <1>0, <2>1 DEF LoadedArrives, LoadFails
  <2>2. CASE LoadArrives
    <3>1. PICK r \in net : /\ r.kind = "load"
                          /\ net' = (net \ {r}) \cup {Loaded(r.seq, IF r.thread \in row THEN saved[r.thread] ELSE <<>>)}
      BY <2>2 DEF LoadArrives, InNet, Serves
    <3>2. r.seq \in Nat /\ r.thread \in Threads
      BY <3>1, RequestIs
    <3>3. (IF r.thread \in row THEN saved[r.thread] ELSE <<>>) \in Seq(Msgs)
      BY <3>2 DEF TypesOK
    <3> QED  BY <1>0, <3>1, <3>2, <3>3, RequestsAre
  <2> QED  BY <1>4, <2>1, <2>2 DEF LoadSteps
<1>5. CASE RunSteps
  <2>1. CASE PostArrives
    <3>1. PICK r \in net : r.kind = "post" /\ net' = (net \ {r}) \cup {Record(r.turn)}
      BY <2>1 DEF PostArrives, InNet, Serves, Record
    <3> QED  BY <1>0, <3>1, RequestIs, RequestsAre
  <2>2. CASE RecordSession
    <3>1. PICK r \in net : r.kind = "record" /\ net' = (net \ {r}) \cup {Created(r.turn)}
      BY <2>2 DEF RecordSession, InNet, Serves
    <3> QED  BY <1>0, <3>1, RequestIs, RequestsAre
  <2>3. CASE \E k \in Turns : Works(k)
    BY <1>0, <2>3 DEF Works, PruneReads, PruneWrites, Begins, Ends, ServerOnly
  <2> QED  BY <1>5, <2>1, <2>2, <2>3 DEF RunSteps
<1>6. CASE DeleteSteps
  <2>1. CASE DeleteArrives
    <3>1. PICK r \in net : r.kind = "delete" /\ net' = (net \ {r}) \cup {Drop(r.thread)}
      BY <2>1 DEF DeleteArrives, InNet, Serves
    <3> QED  BY <1>0, <3>1, RequestIs, RequestsAre
  <2>2. CASE DropCheckpoint
    BY <1>0, <2>2 DEF DropCheckpoint, Serves
  <2>3. CASE \E t \in Threads : DeleteOther(t)
    BY <1>0, <2>3, RequestsAre DEF DeleteOther
  <2> QED  BY <1>6, <2>1, <2>2, <2>3 DEF DeleteSteps
<1>7. CASE UNCHANGED vars
  BY <1>0, <1>7 DEF vars
<1> QED  BY <1>1, <1>2, <1>3, <1>4, <1>5, <1>6, <1>7, StepIs

Ats == Live \cup {"none", "over", "dead"}
\* The runs, field by field.
LEMMA RunIs ==
  ASSUME TypesOK
  PROVE  /\ run = [k \in Turns |-> run[k]]
         /\ \A k \in Turns : /\ run[k].at \in Ats /\ run[k].doomed \subseteq Msgs
                             /\ run[k].held \in Seq(Msgs)
                             /\ run[k] = [at |-> run[k].at, doomed |-> run[k].doomed, held |-> run[k].held]
<1> DEFINE R == Seq(Msgs)
           D == SUBSET Msgs
<1>1. run \in [Turns -> [at : Ats, doomed : D, held : R]]
  BY DEF TypesOK, Ats
<1> HIDE DEF R, D
<1>2. \A k \in Turns : /\ run[k].at \in Ats /\ run[k].doomed \in D
                       /\ run[k].held \in R
                       /\ run[k] = [at |-> run[k].at, doomed |-> run[k].doomed, held |-> run[k].held]
  BY <1>1
<1>3. run = [k \in Turns |-> run[k]]
  BY <1>1
<1> QED  BY <1>2, <1>3 DEF R, D

LEMMA NoRunIs == NoRun.at = "none" /\ NoRun.doomed = {} /\ NoRun.held = <<>>
  BY DEF NoRun

\* What the work on a run does to it.
LEMMA WorksIs ==
  ASSUME TypesOK, NEW k \in Turns
  PROVE  /\ \A j \in Turns : Works(k) /\ j # k => run'[j] = run[j]
         /\ PruneReads(k) =>
              /\ run'[k].at = "pruning" /\ run'[k].held = run[k].held
              /\ run'[k].doomed = {saved[ThreadOf(k)][i] : i \in Doomed(saved[ThreadOf(k)], turn[k].replace)}
         /\ PruneWrites(k) =>
              /\ run'[k].at = IF run[k].doomed \subseteq ToSet(saved[ThreadOf(k)]) THEN "ready" ELSE "dead"
              /\ run'[k].doomed = {} /\ run'[k].held = run[k].held
         /\ Begins(k) =>
              /\ run'[k].at = "streaming" /\ run'[k].doomed = run[k].doomed
              /\ run'[k].held = Append(saved[ThreadOf(k)], Msg("user", k, turn[k].prompt))
         /\ Ends(k) => run'[k].at = "over" /\ run'[k].doomed = {} /\ run'[k].held = <<>>
<1> DEFINE q == run[k]
           doom == {saved[ThreadOf(k)][i] : i \in Doomed(saved[ThreadOf(k)], turn[k].replace)}
           held == Append(saved[ThreadOf(k)], Msg("user", k, turn[k].prompt))
<1>1. run = [j \in Turns |-> run[j]] /\ q = [at |-> q.at, doomed |-> q.doomed, held |-> q.held]
  BY RunIs
<1> HIDE DEF doom, held
<1>2. CASE PruneReads(k)
  <2>1. run' = [run EXCEPT ![k].at = "pruning", ![k].doomed = doom]
    BY <1>2 DEF PruneReads, doom
  <2>2. run'[k] = [q EXCEPT !.at = "pruning", !.doomed = doom] /\ \A j \in Turns : j # k => run'[j] = run[j]
    BY <1>1, <2>1
  <2>3. run'[k].at = "pruning" /\ run'[k].doomed = doom /\ run'[k].held = q.held
    BY <1>1, <2>2
  <2>4. ~ PruneWrites(k) /\ ~ Begins(k) /\ ~ Ends(k)
    BY <1>2 DEF PruneReads, PruneWrites, Begins, Ends
  <2> QED  BY <2>2, <2>3, <2>4 DEF Works, doom
<1>3. CASE PruneWrites(k)
  <2> DEFINE at == IF run[k].doomed \subseteq ToSet(saved[ThreadOf(k)]) THEN "ready" ELSE "dead"
  <2>1. run' = [run EXCEPT ![k].at = at, ![k].doomed = {}]
    BY <1>3 DEF PruneWrites
  <2> HIDE DEF at
  <2>2. run'[k] = [q EXCEPT !.at = at, !.doomed = {}] /\ \A j \in Turns : j # k => run'[j] = run[j]
    BY <1>1, <2>1
  <2>3. run'[k].at = at /\ run'[k].doomed = {} /\ run'[k].held = q.held
    BY <1>1, <2>2
  <2>4. ~ PruneReads(k) /\ ~ Begins(k) /\ ~ Ends(k)
    BY <1>3 DEF PruneReads, PruneWrites, Begins, Ends
  <2> QED  BY <2>2, <2>3, <2>4 DEF Works, at
<1>4. CASE Begins(k)
  <2>1. run' = [run EXCEPT ![k].at = "streaming", ![k].held = held]
    BY <1>4 DEF Begins, held
  <2>2. run'[k] = [q EXCEPT !.at = "streaming", !.held = held] /\ \A j \in Turns : j # k => run'[j] = run[j]
    BY <1>1, <2>1
  <2>3. run'[k].at = "streaming" /\ run'[k].doomed = q.doomed /\ run'[k].held = held
    BY <1>1, <2>2
  <2>4. ~ PruneReads(k) /\ ~ PruneWrites(k) /\ ~ Ends(k)
    BY <1>4 DEF PruneReads, PruneWrites, Begins, Ends
  <2> QED  BY <2>2, <2>3, <2>4 DEF Works, held
<1>5. CASE Ends(k)
  <2>1. run' = [run EXCEPT ![k] = [NoRun EXCEPT !.at = "over"]]
    BY <1>5 DEF Ends
  <2>2. run'[k] = [NoRun EXCEPT !.at = "over"] /\ \A j \in Turns : j # k => run'[j] = run[j]
    BY <1>1, <2>1
  <2>3. run'[k].at = "over" /\ run'[k].doomed = {} /\ run'[k].held = <<>>
    BY <2>2 DEF NoRun
  <2>4. ~ PruneReads(k) /\ ~ PruneWrites(k) /\ ~ Begins(k)
    BY <1>5 DEF PruneReads, PruneWrites, Begins, Ends
  <2> QED  BY <2>2, <2>3, <2>4 DEF Works
<1> QED  BY <1>2, <1>3, <1>4, <1>5 DEF Works

\* What the work on a run does to the messages of its thread.
LEMMA WorksSaved ==
  ASSUME TypesOK, TurnsUsed, NEW k \in Turns, Works(k)
  PROVE  /\ Used(k) /\ ThreadOf(k) \in Threads /\ turn[k].prompt \in Turns
         /\ saved' = [t \in Threads |-> saved'[t]]
         /\ \A t \in Threads : t # ThreadOf(k) => saved'[t] = saved[t]
         /\ run' = [j \in Turns |-> run'[j]] /\ run'[k].held \in Seq(Msgs)
         /\ run'[k].doomed \subseteq Msgs /\ run'[k].at \in Ats
         /\ PruneReads(k) => saved' = saved
         /\ PruneWrites(k) =>
              LET msgs == saved[ThreadOf(k)] IN
              IF run[k].doomed \subseteq ToSet(msgs)
              THEN /\ saved'[ThreadOf(k)] = At(msgs, {i \in DOMAIN msgs : msgs[i] \notin run[k].doomed})
                   /\ saved'[ThreadOf(k)] \in Seq(Msgs)
              ELSE saved' = saved
         /\ Begins(k) => saved'[ThreadOf(k)] = Append(saved[ThreadOf(k)], Msg("user", k, turn[k].prompt))
         /\ Ends(k) => \/ saved'[ThreadOf(k)] = Append(run[k].held, Msg("assistant", k, turn[k].prompt))
                       \/ saved' = saved
         /\ saved'[ThreadOf(k)] \in Seq(Msgs)
<1> DEFINE T == ThreadOf(k)
           msgs == saved[T]
           kept == At(msgs, {i \in DOMAIN msgs : msgs[i] \notin run[k].doomed})
           u == Msg("user", k, turn[k].prompt)
           a == Msg("assistant", k, turn[k].prompt)
<1>1. Used(k)
  <2>1. run[k].at # "none"
    BY DEF Works, PruneReads, PruneWrites, Begins, Ends
  <2> QED  BY <2>1, NoRunIs DEF TurnsUsed
<1>2. T \in Threads /\ turn[k].prompt \in Turns
  BY <1>1 DEF TurnsUsed, ThreadOf
<1>3. saved \in [Threads -> Seq(Msgs)] /\ msgs \in Seq(Msgs) /\ run[k].held \in Seq(Msgs)
  BY <1>2, RunIs DEF TypesOK
<1>4. kept \in Seq(Msgs)
  <2>1. {i \in DOMAIN msgs : msgs[i] \notin run[k].doomed} \in SUBSET (1 .. Len(msgs))
    BY <1>3, UserPlacesOK
  <2> HIDE DEF msgs
  <2> QED  BY <1>3, <2>1, AtFacts
<1>5. u \in Msgs /\ a \in Msgs
  BY <1>2, MsgIs
<1> HIDE DEF T, kept, u, a
<1>6. saved' = saved \/ \E s \in Seq(Msgs) : saved' = [saved EXCEPT ![T] = s]
  <2>1. CASE PruneReads(k)
    BY <2>1 DEF PruneReads
  <2>2. CASE PruneWrites(k)
    BY <1>4, <2>2 DEF PruneWrites, T, kept
  <2>3. CASE Begins(k)
    <3>1. saved' = [saved EXCEPT ![T] = Append(msgs, u)]
      BY <2>3 DEF Begins, T, u
    <3>2. Append(msgs, u) \in Seq(Msgs)
      BY <1>3, <1>5
    <3> QED  BY <3>1, <3>2
  <2>4. CASE Ends(k)
    <3>1. saved' = [saved EXCEPT ![T] = Append(run[k].held, a)] \/ saved' = saved
      BY <2>4 DEF Ends, T, a
    <3>2. Append(run[k].held, a) \in Seq(Msgs)
      BY <1>3, <1>5
    <3> QED  BY <3>1, <3>2
  <2> QED  BY <2>1, <2>2, <2>3, <2>4 DEF Works
<1>7. /\ saved' = [t \in Threads |-> saved'[t]]
      /\ \A t \in Threads : t # T => saved'[t] = saved[t]
      /\ saved'[T] \in Seq(Msgs)
  BY <1>2, <1>3, <1>6
<1>8. run' = [j \in Turns |-> run'[j]]
  BY RunIs DEF Works, PruneReads, PruneWrites, Begins, Ends
<1>9. run'[k].held \in Seq(Msgs) /\ run'[k].doomed \subseteq Msgs /\ run'[k].at \in Ats
  <2>1. \A i \in Doomed(msgs, turn[k].replace) : msgs[i] \in Msgs
    BY <1>3, UserPlacesOK DEF Doomed
  <2>2. CASE PruneReads(k)
    BY <2>1, <2>2, WorksIs, RunIs DEF T, Ats, Live
  <2>3. CASE PruneWrites(k)
    BY <2>3, WorksIs, RunIs DEF Ats, Live
  <2>4. CASE Begins(k)
    <3>1. Append(msgs, u) \in Seq(Msgs)
      BY <1>3, <1>5
    <3> QED  BY <2>4, <3>1, WorksIs, RunIs DEF T, u, Ats, Live
  <2>5. CASE Ends(k)
    <3>1. run'[k].at = "over" /\ run'[k].doomed = {} /\ run'[k].held = <<>>
      BY <2>5, WorksIs
    <3>2. "over" \in Ats /\ {} \subseteq Msgs /\ <<>> \in Seq(Msgs)
      BY DEF Ats
    <3> QED  BY <3>1, <3>2, Zenon
  <2> QED  BY <2>2, <2>3, <2>4, <2>5 DEF Works
<1>10. PruneReads(k) => saved' = saved
  BY DEF PruneReads
<1>11. PruneWrites(k) => IF run[k].doomed \subseteq ToSet(msgs) THEN saved'[T] = kept ELSE saved' = saved
  BY <1>2, <1>3 DEF PruneWrites, T, kept
<1>12. Begins(k) => saved'[T] = Append(msgs, u)
  BY <1>2, <1>3 DEF Begins, T, u
<1>13. Ends(k) => saved'[T] = Append(run[k].held, a) \/ saved' = saved
  BY <1>2, <1>3 DEF Ends, T, a
<1> QED  BY <1>1, <1>2, <1>4, <1>7, <1>8, <1>9, <1>10, <1>11, <1>12, <1>13 DEF T, kept, u, a

\* A run is created.
LEMMA PostIs ==
  ASSUME TypesOK, PostArrives
  PROVE  \E k \in Turns :
           /\ Post(k) \in net /\ net' = (net \ {Post(k)}) \cup {Record(k)}
           /\ \A j \in Turns : j # k => run'[j] = run[j]
           /\ run'[k].at = IF turn[k].replace > 0 THEN "queued" ELSE "ready"
           /\ run'[k].doomed = run[k].doomed /\ run'[k].held = run[k].held
           /\ run' = [j \in Turns |-> run'[j]]
           /\ saved' = saved /\ row' = row /\ disturbed' = disturbed /\ deleted' = deleted
           /\ page' = page /\ loading' = loading
<1>1. PICK r \in net :
        /\ r.kind = "post"
        /\ run' = [run EXCEPT ![r.turn].at = IF turn[r.turn].replace > 0 THEN "queued" ELSE "ready"]
        /\ net' = (net \ {r}) \cup {Record(r.turn)}
        /\ saved' = saved /\ row' = row /\ disturbed' = disturbed /\ deleted' = deleted
        /\ page' = page /\ loading' = loading
  BY DEF PostArrives, InNet, Serves, Record, ghosts, pageVars
<1>2. r.turn \in Turns /\ r = Post(r.turn)
  BY <1>1, RequestIs
<1> DEFINE k == r.turn
           q == run[k]
           at == IF turn[k].replace > 0 THEN "queued" ELSE "ready"
<1>3. run = [j \in Turns |-> run[j]] /\ q = [at |-> q.at, doomed |-> q.doomed, held |-> q.held]
  BY <1>2, RunIs
<1>4. run' = [run EXCEPT ![k].at = at]
  BY <1>1
<1> HIDE DEF at
<1>5. run'[k] = [q EXCEPT !.at = at] /\ \A j \in Turns : j # k => run'[j] = run[j]
  BY <1>2, <1>3, <1>4
<1>6. run'[k].at = at /\ run'[k].doomed = q.doomed /\ run'[k].held = q.held
  BY <1>3, <1>5
<1>7. run' = [j \in Turns |-> run'[j]]
  BY <1>3, <1>4
<1>8. k \in Turns /\ Post(k) \in net /\ net' = (net \ {Post(k)}) \cup {Record(k)}
  BY <1>1, <1>2
<1> HIDE DEF k, q
<1>9. run'[k].doomed = run[k].doomed /\ run'[k].held = run[k].held
  BY <1>6 DEF q
<1> QED  BY <1>1, <1>5, <1>6, <1>7, <1>8, <1>9 DEF at

\* The page's steps, and the loads, leave runs, checkpoints and rows alone.
LEMMA ServerAlone ==
  ASSUME (\E k : Sends(k)) \/ LeavesPage \/ Closes \/ LoadSteps \/ UNCHANGED vars
  PROVE  saved' = saved /\ row' = row /\ run' = run
<1>1. CASE \E k : Sends(k)
  BY <1>1 DEF Sends, Send, Reload, Edit, RunTurn, serverVars
<1>2. CASE LeavesPage
  BY <1>2 DEF LeavesPage, Stop, Remount, SelectThread, NewChat, DeleteOpen, Open, serverVars
<1>3. CASE Closes
  BY <1>3 DEF Closes, RunIdArrives, PostFails, StreamCloses, serverVars
<1>4. CASE LoadSteps \/ UNCHANGED vars
  BY <1>4 DEF LoadSteps, LoadedArrives, LoadFails, LoadArrives, KeepTurns, vars, serverVars
<1> QED  BY <1>1, <1>2, <1>3, <1>4

\* record_session writes the row of a turn that was posted.
LEMMA RecordIs ==
  ASSUME TypesOK, TurnsUsed, RecordSession
  PROVE  \E k \in Turns :
           /\ Record(k) \in net /\ net' = (net \ {Record(k)}) \cup {Created(k)}
           /\ Used(k) /\ ThreadOf(k) \in Threads /\ row' = row \cup {ThreadOf(k)}
           /\ saved' = saved /\ run' = run /\ disturbed' = disturbed /\ deleted' = deleted
           /\ page' = page /\ loading' = loading
<1>1. PICK r \in net :
        /\ r.kind = "record" /\ row' = row \cup {ThreadOf(r.turn)}
        /\ net' = (net \ {r}) \cup {Created(r.turn)}
        /\ saved' = saved /\ run' = run /\ disturbed' = disturbed /\ deleted' = deleted
        /\ page' = page /\ loading' = loading
  BY DEF RecordSession, InNet, Serves, ghosts, pageVars, ThreadOf
<1>2. r.turn \in Turns /\ r = Record(r.turn)
  BY <1>1, RequestIs
<1>3. Used(r.turn) /\ ThreadOf(r.turn) \in Threads
  BY <1>2 DEF TurnsUsed, ThreadOf
<1> QED  BY <1>1, <1>2, <1>3

\* What a conversation's deletion does, step by step.
LEMMA DeletesAre ==
  ASSUME TypesOK, DeleteSteps
  PROVE  /\ page' = page /\ loading' = loading /\ run' = run /\ disturbed' = disturbed
         /\ \E t \in Threads :
              \/ /\ t \in row /\ t # thread /\ net' = net \cup {Delete(t)}
                 /\ deleted' = deleted \cup {t} /\ row' = row /\ saved' = saved
              \/ /\ Delete(t) \in net /\ net' = (net \ {Delete(t)}) \cup {Drop(t)}
                 /\ row' = row \ {t} /\ saved' = saved /\ deleted' = deleted
              \/ /\ Drop(t) \in net /\ net' = net \ {Drop(t)}
                 /\ saved' = [saved EXCEPT ![t] = <<>>] /\ row' = row /\ deleted' = deleted
<1>1. CASE \E t \in Threads : DeleteOther(t)
  BY <1>1 DEF DeleteOther, pageVars, serverVars
<1>2. CASE DeleteArrives
  <2>1. PICK r \in net :
          /\ r.kind = "delete" /\ row' = row \ {r.thread} /\ net' = (net \ {r}) \cup {Drop(r.thread)}
          /\ page' = page /\ loading' = loading /\ run' = run /\ disturbed' = disturbed
          /\ saved' = saved /\ deleted' = deleted
    BY <1>2 DEF DeleteArrives, InNet, Serves, ghosts, pageVars
  <2>2. r.thread \in Threads /\ r = Delete(r.thread)
    BY <2>1, RequestIs
  <2> QED  BY <2>1, <2>2
<1>3. CASE DropCheckpoint
  <2>1. PICK r \in net :
          /\ r.kind = "drop" /\ saved' = [saved EXCEPT ![r.thread] = <<>>] /\ net' = net \ {r}
          /\ page' = page /\ loading' = loading /\ run' = run /\ disturbed' = disturbed
          /\ row' = row /\ deleted' = deleted
    BY <1>3 DEF DropCheckpoint, InNet, Serves, ghosts, pageVars
  <2>2. r.thread \in Threads /\ r = Drop(r.thread)
    BY <2>1, RequestIs
  <2> QED  BY <2>1, <2>2
<1> QED  BY <1>1, <1>2, <1>3 DEF DeleteSteps

\* The work on a run is on the server only.
LEMMA WorksAlone ==
  ASSUME NEW k, Works(k)
  PROVE  /\ net' = net /\ row' = row /\ page' = page /\ loading' = loading
         /\ disturbed' = disturbed /\ deleted' = deleted /\ turn' = turn /\ active' = active
         /\ thread' = thread /\ loadSeq' = loadSeq /\ fresh' = fresh
  BY DEF Works, PruneReads, PruneWrites, Begins, Ends, ServerOnly, pageVars, ghosts

\* Runs, checkpoints and rows after a step.
LEMMA ServerTyped ==
  ASSUME RunInv, TypesOK, TurnsUsed, [Next]_vars
  PROVE  /\ row' \subseteq Threads /\ saved' \in [Threads -> Seq(Msgs)]
         /\ run' \in [Turns -> [at : Ats, doomed : SUBSET Msgs, held : Seq(Msgs)]]
<1> DEFINE R == Seq(Msgs)
           D == SUBSET Msgs
<1>0. /\ row \subseteq Threads /\ saved \in [Threads -> R] /\ <<>> \in R
      /\ run \in [Turns -> [at : Ats, doomed : D, held : R]]
  BY DEF TypesOK, Ats
<1>1. \A k \in Turns : run[k].at \in Ats /\ run[k].doomed \in D /\ run[k].held \in R
  BY RunIs
<1> HIDE DEF R, D
<1>2. CASE (\E k \in Turns : Sends(k)) \/ LeavesPage \/ Closes \/ LoadSteps \/ UNCHANGED vars
  BY <1>0, <1>2, ServerAlone DEF R, D
<1>3. CASE PostArrives
  <2>1. PICK r : /\ run' = [run EXCEPT ![r.turn].at = IF turn[r.turn].replace > 0 THEN "queued" ELSE "ready"]
                 /\ saved' = saved /\ row' = row
    BY <1>3 DEF PostArrives, InNet
  <2>2. (IF turn[r.turn].replace > 0 THEN "queued" ELSE "ready") \in Ats
    BY DEF Ats, Live
  <2>3. run' \in [Turns -> [at : Ats, doomed : D, held : R]]
    BY <1>0, <2>1, <2>2
  <2> QED  BY <1>0, <2>1, <2>3 DEF R, D
<1>4. CASE RecordSession
  <2>1. row' \subseteq Threads /\ saved' = saved /\ run' = run
    BY <1>0, <1>4, RecordIs
  <2> QED  BY <1>0, <2>1 DEF R, D
<1>5. CASE DeleteSteps
  <2>1. run' = run
    BY <1>5, DeletesAre
  <2>2. row' \subseteq Threads /\ saved' \in [Threads -> R]
    <3>1. row' \subseteq row
      BY <1>5, DeletesAre
    <3>2. saved' = saved \/ \E t \in Threads : saved' = [saved EXCEPT ![t] = <<>>]
      BY <1>5, DeletesAre
    <3> QED  BY <1>0, <3>1, <3>2
  <2> QED  BY <1>0, <2>1, <2>2 DEF R, D
<1>6. ASSUME NEW k \in Turns, Works(k)
      PROVE  /\ row' \subseteq Threads /\ saved' \in [Threads -> R]
             /\ run' \in [Turns -> [at : Ats, doomed : D, held : R]]
  <2>1. /\ saved' = [t \in Threads |-> saved'[t]] /\ ThreadOf(k) \in Threads
        /\ \A t \in Threads : t # ThreadOf(k) => saved'[t] = saved[t]
        /\ saved'[ThreadOf(k)] \in R
    BY <1>6, WorksSaved DEF R
  <2>2. \A t \in Threads : saved'[t] \in R
    BY <1>0, <2>1
  <2>3. /\ run' = [j \in Turns |-> run'[j]] /\ \A j \in Turns : j # k => run'[j] = run[j]
        /\ run'[k].held \in R /\ run'[k].doomed \in D /\ run'[k].at \in Ats
    BY <1>6, WorksSaved, WorksIs DEF R, D
  <2>4. run'[k] \in [at : Ats, doomed : D, held : R]
    <3>1. run'[k] = [NoRun EXCEPT !.at = "over"] \/ \E a, d, h : run'[k] = [run[k] EXCEPT !.at = a, !.doomed = d, !.held = h]
      <4>0. run = [j \in Turns |-> run[j]] /\ run[k] \in [at : Ats, doomed : D, held : R]
        BY <1>0
      <4>1. CASE PruneReads(k)
        <5>1. PICK d : run' = [run EXCEPT ![k].at = "pruning", ![k].doomed = d]
          BY <4>1 DEF PruneReads
        <5>2. run'[k] = [run[k] EXCEPT !.at = "pruning", !.doomed = d]
          BY <4>0, <5>1
        <5>3. run'[k] = [run[k] EXCEPT !.at = "pruning", !.doomed = d, !.held = run[k].held]
          BY <4>0, <5>2
        <5> QED  BY <5>3
      <4>2. CASE PruneWrites(k)
        <5>1. PICK a : run' = [run EXCEPT ![k].at = a, ![k].doomed = {}]
          BY <4>2 DEF PruneWrites
        <5>2. run'[k] = [run[k] EXCEPT !.at = a, !.doomed = {}]
          BY <4>0, <5>1
        <5>3. run'[k] = [run[k] EXCEPT !.at = a, !.doomed = {}, !.held = run[k].held]
          BY <4>0, <5>2
        <5> QED  BY <5>3
      <4>3. CASE Begins(k)
        <5>1. PICK h : run' = [run EXCEPT ![k].at = "streaming", ![k].held = h]
          BY <4>3 DEF Begins
        <5>2. run'[k] = [run[k] EXCEPT !.at = "streaming", !.held = h]
          BY <4>0, <5>1
        <5>3. run'[k] = [run[k] EXCEPT !.at = "streaming", !.doomed = run[k].doomed, !.held = h]
          BY <4>0, <5>2
        <5> QED  BY <5>3
      <4>4. CASE Ends(k)
        <5>1. run' = [run EXCEPT ![k] = [NoRun EXCEPT !.at = "over"]]
          BY <4>4 DEF Ends
        <5> QED  BY <4>0, <5>1
      <4> QED  BY <1>6, <4>1, <4>2, <4>3, <4>4 DEF Works
    <3>2. CASE run'[k] = [NoRun EXCEPT !.at = "over"]
      <4>1. run'[k] = [at |-> "over", doomed |-> {}, held |-> <<>>]
        BY <3>2 DEF NoRun
      <4> QED  BY <2>3, <4>1
    <3>3. CASE \E a, d, h : run'[k] = [run[k] EXCEPT !.at = a, !.doomed = d, !.held = h]
      <4>1. PICK a, d, h : run'[k] = [run[k] EXCEPT !.at = a, !.doomed = d, !.held = h]
        BY <3>3
      <4>2. run[k] = [at |-> run[k].at, doomed |-> run[k].doomed, held |-> run[k].held]
        BY RunIs
      <4>3. run'[k] = [at |-> a, doomed |-> d, held |-> h]
        BY <4>1, <4>2
      <4> QED  BY <2>3, <4>3
    <3> QED  BY <3>1, <3>2, <3>3
  <2>5. run' \in [Turns -> [at : Ats, doomed : D, held : R]]
    <3>1. \A j \in Turns : run'[j] \in [at : Ats, doomed : D, held : R]
      BY <1>0, <2>3, <2>4
    <3> QED  BY <2>3, <3>1
  <2> QED  BY <1>0, <1>6, <2>1, <2>2, <2>5, WorksAlone
<1>7. CASE RunSteps
  BY <1>3, <1>4, <1>6, <1>7 DEF RunSteps, R, D
<1> QED  BY <1>2, <1>5, <1>7, StepIs

\* Everything keeps its type.
LEMMA TypesStay ==
  ASSUME RunInv, TypesOK, TurnsUsed, [Next]_vars
  PROVE  TypesOK'
<1>1. /\ page' \in Seq(Msgs) /\ thread' \in Threads /\ minted' \subseteq Threads
      /\ fresh' \in BOOLEAN /\ loading' \in BOOLEAN /\ loadSeq' \in Nat
  BY PageTyped
<1>2. net' \subseteq Requests
  BY NetTyped
<1>3. /\ row' \subseteq Threads /\ saved' \in [Threads -> Seq(Msgs)]
      /\ run' \in [Turns -> [at : Ats, doomed : SUBSET Msgs, held : Seq(Msgs)]]
  BY ServerTyped
<1> HIDE DEF Requests
<1> QED  BY <1>1, <1>2, <1>3, Zenon DEF TypesOK, Ats, Requests, Msgs, Turns, Live

-----------------------------------------------------------------------------
(* Turns and requests *)

\* The kinds of requests a step may touch.
Touches(kinds) == \A r : r.kind \notin kinds => (r \in net' <=> r \in net)

\* What each group of steps does to the requests in flight.
LEMMA NetSteps ==
  /\ \A k : Sends(k) => Touches({"post"}) /\ net' = net \cup {Post(k)}
  /\ LeavesPage => Touches({"load", "delete"})
  /\ Closes => Touches({"post", "created"}) /\ net' \subseteq net
  /\ LoadSteps => Touches({"load", "loaded"})
  /\ PostArrives => Touches({"post", "record"})
  /\ RecordSession => Touches({"record", "created"})
  /\ \A k : Works(k) => Touches({})
  /\ DeleteSteps => Touches({"delete", "drop"})
  /\ UNCHANGED vars => Touches({})
<1>1. ASSUME NEW k, Sends(k) PROVE Touches({"post"}) /\ net' = net \cup {Post(k)}
  <2>1. net' = net \cup {Post(k)}
    BY <1>1 DEF Sends, Send, Reload, Edit, RunTurn
  <2> QED  BY <2>1, Kinds DEF Touches
<1>2. ASSUME LeavesPage PROVE Touches({"load", "delete"})
  <2>1. \/ net' = net \cup {} \/ \E n, t : net' = net \cup {Load(n, t)}
        \/ \E t : net' = net \cup {Delete(t)}
    <3>1. CASE Stop
      BY <3>1 DEF Stop
    <3>2. CASE Remount
      BY <3>2 DEF Remount, LoadThread
    <3>3. ASSUME NEW t \in Threads, SelectThread(t) PROVE net' = net \cup {Load(loadSeq + 1, t)}
      BY <3>3 DEF SelectThread, LoadThread
    <3>4. ASSUME NEW t \in Threads, NewChat(t) PROVE net' = net \cup {}
      BY <3>4 DEF NewChat, Open, LoadThread
    <3>5. ASSUME NEW t \in Threads, DeleteOpen(t) PROVE net' = net \cup {Delete(thread)}
      BY <3>5 DEF DeleteOpen, Open, LoadThread
    <3> QED  BY <1>2, <3>1, <3>2, <3>3, <3>4, <3>5 DEF LeavesPage
  <2>2. CASE net' = net \cup {}
    BY <2>2 DEF Touches
  <2>3. ASSUME NEW n, NEW t, net' = net \cup {Load(n, t)} PROVE Touches({"load", "delete"})
    BY <2>3, Kinds DEF Touches
  <2>4. ASSUME NEW t, net' = net \cup {Delete(t)} PROVE Touches({"load", "delete"})
    BY <2>4, Kinds DEF Touches
  <2> QED  BY <2>1, <2>2, <2>3, <2>4
<1>3. ASSUME Closes PROVE Touches({"post", "created"}) /\ net' \subseteq net
  BY <1>3 DEF Closes, RunIdArrives, PostFails, StreamCloses, InNet, Touches
<1>4. ASSUME LoadSteps PROVE Touches({"load", "loaded"})
  <2>1. CASE LoadedArrives \/ LoadFails
    BY <2>1 DEF LoadedArrives, LoadFails, InNet, Touches
  <2>2. CASE LoadArrives
    BY <2>2, Kinds DEF LoadArrives, Serves, InNet, Touches
  <2> QED  BY <1>4, <2>1, <2>2 DEF LoadSteps
<1>5. ASSUME PostArrives PROVE Touches({"post", "record"})
  BY <1>5 DEF PostArrives, Serves, InNet, Touches
<1>6. ASSUME RecordSession PROVE Touches({"record", "created"})
  BY <1>6, Kinds DEF RecordSession, Serves, InNet, Touches
<1>7. ASSUME NEW k, Works(k) PROVE Touches({})
  BY <1>7, WorksAlone DEF Touches
<1>8. ASSUME DeleteSteps PROVE Touches({"delete", "drop"})
  <2>1. CASE DeleteArrives
    BY <2>1, Kinds DEF DeleteArrives, Serves, InNet, Touches
  <2>2. CASE DropCheckpoint
    BY <2>2 DEF DropCheckpoint, Serves, InNet, Touches
  <2>3. CASE \E t \in Threads : DeleteOther(t)
    BY <2>3, Kinds DEF DeleteOther, Touches
  <2> QED  BY <1>8, <2>1, <2>2, <2>3 DEF DeleteSteps
<1>9. ASSUME UNCHANGED vars PROVE Touches({})
  BY <1>9 DEF vars, Touches
<1> QED  BY <1>1, <1>2, <1>3, <1>4, <1>5, <1>6, <1>7, <1>8, <1>9

\* The requests for runs that a step leaves as they are.
LEMMA AskedSame ==
  ASSUME LeavesPage \/ LoadSteps \/ DeleteSteps \/ (\E k : Works(k)) \/ UNCHANGED vars
  PROVE  \A j : /\ Post(j) \in net' <=> Post(j) \in net
                /\ Record(j) \in net' <=> Record(j) \in net
                /\ Created(j) \in net' <=> Created(j) \in net
<1>1. \A j, K : Touches(K) /\ K \cap {"post", "record", "created"} = {} =>
                /\ Post(j) \in net' <=> Post(j) \in net
                /\ Record(j) \in net' <=> Record(j) \in net
                /\ Created(j) \in net' <=> Created(j) \in net
  BY Kinds DEF Touches
<1>2. \E K : Touches(K) /\ K \cap {"post", "record", "created"} = {}
  BY NetSteps
<1> QED  BY <1>1, <1>2

\* A step that begins no turn uses none.
LEMMA UsedSame ==
  ASSUME RunInv, TypesOK, TurnsUsed, \A j \in Turns : Same(j),
         \A j \in Turns : run'[j] = run[j] \/ Used(j),
         \A j \in Turns : Asked(j)' => Used(j)
  PROVE  TurnsUsed' /\ (StoredUsed => StoredUsed')
<1>1. PICK n \in 0 .. MaxTurns : \A k \in Turns : Used(k) <=> k <= n
  BY DEF TurnsUsed
<1>2. \A j \in Turns : Used(j)' <=> Used(j)
  BY IdleIs DEF Same, Used
<1>3. ASSUME NEW j \in Turns
      PROVE  IF Used(j)' THEN /\ turn'[j].thread \in Threads /\ turn'[j].prompt \in Turns
                              /\ turn'[j].replace \in Nat
                         ELSE turn'[j] = Idle /\ run'[j] = NoRun
  <2>1. CASE Used(j)
    BY <1>2, <2>1 DEF TurnsUsed, Same
  <2>2. CASE ~ Used(j)
    BY <1>2, <2>2 DEF TurnsUsed, Same
  <2> QED  BY <2>1, <2>2
<1>4. TurnsUsed'
  <2>1. \A k \in Turns : Used(k)' <=> k <= n
    BY <1>1, <1>2
  <2>2. \A k \in Turns : {Post(k), Record(k), Created(k)} \cap net' # {} => Used(k)'
    BY <1>2 DEF Asked
  <2> QED  BY <1>3, <2>1, <2>2, Zenon DEF TurnsUsed, Turns, Post, Record, Created, Idle, NoRun, NoTurn
<1>5. StoredUsed => StoredUsed'
  BY <1>2 DEF StoredUsed, Turns
<1> QED  BY <1>4, <1>5

\* Turns are begun in their order.
LEMMA UsedStay ==
  ASSUME RunInv, TypesOK, TurnsUsed, StoredUsed, [Next]_vars
  PROVE  TurnsUsed' /\ StoredUsed'
<1>0. \A k \in Turns : Asked(k) => Used(k)
  BY DEF TurnsUsed, Asked
<1>1. CASE LeavesPage \/ LoadSteps \/ UNCHANGED vars
  <2>1. \A j \in Turns : run'[j] = run[j]
    BY <1>1, ServerAlone
  <2>2. \A j \in Turns : Asked(j)' => Used(j)
    BY <1>0, <1>1, AskedSame DEF Asked
  <2> QED  BY <1>1, <2>1, <2>2, TurnSteps, UsedSame
<1>2. CASE Closes
  <2>1. \A j \in Turns : run'[j] = run[j]
    BY <1>2, ServerAlone
  <2>2. \A j \in Turns : Asked(j)' => Used(j)
    BY <1>0, <1>2, NetSteps DEF Asked
  <2> QED  BY <1>2, <2>1, <2>2, TurnSteps, UsedSame
<1>3. CASE DeleteSteps
  <2>1. \A j \in Turns : run'[j] = run[j]
    BY <1>3, DeletesAre
  <2>2. \A j \in Turns : Asked(j)' => Used(j)
    BY <1>0, <1>3, AskedSame DEF Asked
  <2> QED  BY <1>3, <2>1, <2>2, TurnSteps, UsedSame
<1>4. CASE RunSteps
  <2>1. CASE PostArrives
    <3>1. PICK k \in Turns : /\ Post(k) \in net /\ net' = (net \ {Post(k)}) \cup {Record(k)}
                             /\ \A j \in Turns : j # k => run'[j] = run[j]
      BY <2>1, PostIs
    <3>2. Used(k)
      BY <1>0, <3>1 DEF Asked
    <3>3. \A j \in Turns : Asked(j)' => Asked(j) \/ j = k
      BY <3>1, Kinds DEF Asked
    <3> QED  BY <1>0, <1>4, <3>1, <3>2, <3>3, TurnSteps, UsedSame
  <2>2. CASE RecordSession
    <3>1. PICK k \in Turns : /\ Record(k) \in net /\ net' = (net \ {Record(k)}) \cup {Created(k)}
                             /\ run' = run
      BY <2>2, RecordIs
    <3>2. Used(k)
      BY <1>0, <3>1 DEF Asked
    <3>3. \A j \in Turns : Asked(j)' => Asked(j) \/ j = k
      BY <3>1, Kinds DEF Asked
    <3> QED  BY <1>0, <1>4, <3>1, <3>2, <3>3, TurnSteps, UsedSame
  <2>3. ASSUME NEW k \in Turns, Works(k) PROVE TurnsUsed' /\ StoredUsed'
    <3>1. Used(k) /\ \A j \in Turns : j # k => run'[j] = run[j]
      BY <2>3, WorksIs, WorksSaved
    <3>2. \A j \in Turns : Asked(j)' => Used(j)
      BY <1>0, <2>3, AskedSame DEF Asked
    <3> QED  BY <1>4, <3>1, <3>2, TurnSteps, UsedSame
  <2> QED  BY <1>4, <2>1, <2>2, <2>3 DEF RunSteps
<1>5. ASSUME NEW k \in Turns, Sends(k) PROVE TurnsUsed' /\ StoredUsed'
  <2>1. PICK p \in Turns, r \in Nat : RunTurn(k, p, r)
    BY <1>5, SendsRun DEF Sends
  <2>2. /\ ~ Used(k) /\ \A j \in Turns : j < k <=> Used(j)
        /\ turn'[k] = [thread |-> thread, prompt |-> p, replace |-> r,
                       known |-> FALSE, settled |-> FALSE]
    BY <2>1, BeginsTurn
  <2>3. \A j \in Turns : j # k => Same(j)
    BY <1>5, TurnSteps
  <2>4. thread \in Threads /\ run' = run
    BY <1>5, ServerAlone DEF TypesOK
  <2>5. Used(k)' /\ turn'[k].thread = thread /\ turn'[k].prompt = p /\ turn'[k].replace = r
    BY <2>2, ZeroIsNoTurn DEF Used
  <2>6. \A j \in Turns : Used(j)' <=> j = k \/ Used(j)
    <3>1. \A j \in Turns : j # k => (Used(j)' <=> Used(j))
      BY <2>3, IdleIs DEF Same, Used
    <3> QED  BY <2>5, <3>1
  <2>7. ASSUME NEW j \in Turns
        PROVE  IF Used(j)' THEN /\ turn'[j].thread \in Threads /\ turn'[j].prompt \in Turns
                                /\ turn'[j].replace \in Nat
                           ELSE turn'[j] = Idle /\ run'[j] = NoRun
    <3>1. CASE j = k
      BY <2>4, <2>5, <3>1
    <3>2. CASE j # k
      BY <2>3, <2>4, <2>6, <3>2 DEF TurnsUsed, Same
    <3> QED  BY <3>1, <3>2
  <2>8. \A j \in Turns : Used(j)' <=> j <= k
    <3>1. \A j \in Turns : j <= k <=> j = k \/ j < k
      BY HistoryBounds DEF Turns
    <3> QED  BY <2>2, <2>6, <3>1
  <2>9. \A j \in Turns : {Post(j), Record(j), Created(j)} \cap net' # {} => Used(j)'
    <3>1. net' = net \cup {Post(k)}
      BY <1>5, NetSteps
    <3>2. \A j \in Turns : {Post(j), Record(j), Created(j)} \cap net' # {} => Asked(j) \/ j = k
      BY <3>1, Kinds DEF Asked
    <3> QED  BY <1>0, <2>6, <3>2
  <2>10. k \in 0 .. MaxTurns
    BY HistoryBounds DEF Turns
  <2>11. TurnsUsed'
    BY <2>7, <2>8, <2>9, <2>10, Zenon DEF TurnsUsed, Turns, Post, Record, Created, Idle, NoRun, NoTurn
  <2>12. StoredUsed'
    BY <2>6 DEF StoredUsed, Turns
  <2> QED  BY <2>11, <2>12
<1> QED  BY <1>1, <1>2, <1>3, <1>4, <1>5, StepIs

-----------------------------------------------------------------------------
(* Messages are of their thread *)

\* After the step, the messages are of the thread.
OfNext(s, t) ==
  \A i \in DOMAIN s : turn'[s[i].turn].prompt # NoTurn /\ turn'[s[i].turn].thread = t

\* Messages of a thread stay of that thread.
LEMMA OfKept ==
  ASSUME RunInv, TypesOK, TurnsUsed, [Next]_vars, NEW s \in Seq(Msgs), NEW t, Of(s, t)
  PROVE  OfNext(s, t)
<1>1. \A i \in DOMAIN s : s[i].turn \in Turns /\ Used(s[i].turn) /\ ThreadOf(s[i].turn) = t
  <2>1. \A i \in DOMAIN s : s[i] \in Msgs
    BY UserPlacesOK
  <2> QED  BY <2>1 DEF Of, Msgs
<1>2. \A j \in Turns : Used(j) => Same(j)
  <2>1. CASE \E k \in Turns : Sends(k)
    <3>1. PICK k \in Turns : Sends(k)
      BY <2>1
    <3>2. ~ Used(k)
      BY <3>1, SendsRun, BeginsTurn DEF Sends
    <3> QED  BY <3>1, <3>2, TurnSteps
  <2> QED  BY <2>1, StepIs, TurnSteps
<1> QED  BY <1>1, <1>2 DEF OfNext, Same, Used, ThreadOf

\* Some of the messages of a thread, or one more, are of the thread.
LEMMA OfParts ==
  /\ \A t : OfNext(<<>>, t)
  /\ \A s \in Seq(Msgs) : \A t : OfNext(s, t) => \A c \in 0 .. Len(s) : OfNext(SubSeq(s, 1, c), t)
  /\ \A s \in Seq(Msgs) : \A t : \A m \in Msgs :
       OfNext(s, t) /\ turn'[m.turn].prompt # NoTurn /\ turn'[m.turn].thread = t =>
         OfNext(Append(s, m), t)
  /\ \A s \in Seq(Msgs) : \A t : OfNext(s, t) =>
       \A R \in SUBSET (1 .. Len(s)) : OfNext(At(s, R), t)
<1>1. \A t : OfNext(<<>>, t)
  BY DEF OfNext
<1>2. ASSUME NEW s \in Seq(Msgs), NEW t, OfNext(s, t), NEW c \in 0 .. Len(s)
      PROVE  OfNext(SubSeq(s, 1, c), t)
  <2>0. c \in Nat /\ Len(s) \in Nat /\ c <= Len(s) /\ DOMAIN s = 1 .. Len(s)
    BY UserPlacesOK
  <2>1. \A i \in 1 .. c : s[i] \in Msgs
    BY <2>0, UserPlacesOK
  <2>2. DOMAIN SubSeq(s, 1, c) = 1 .. c /\ \A i \in 1 .. c : SubSeq(s, 1, c)[i] = s[i]
    BY <2>0, <2>1, SubSeqProperties
  <2>3. \A i \in 1 .. c : i \in 1 .. Len(s)
    BY <2>0
  <2> DEFINE p == SubSeq(s, 1, c)
  <2> HIDE DEF p
  <2>4. OfNext(p, t)
    BY <1>2, <2>0, <2>2, <2>3 DEF OfNext, p
  <2> QED  BY <2>4 DEF p
<1>3. ASSUME NEW s \in Seq(Msgs), NEW t, NEW m \in Msgs, OfNext(s, t),
             turn'[m.turn].prompt # NoTurn, turn'[m.turn].thread = t
      PROVE  OfNext(Append(s, m), t)
  <2>1. /\ DOMAIN Append(s, m) = 1 .. Len(s) + 1 /\ DOMAIN s = 1 .. Len(s) /\ Len(s) \in Nat
        /\ \A i \in 1 .. Len(s) : Append(s, m)[i] = s[i]
        /\ Append(s, m)[Len(s) + 1] = m
    OBVIOUS
  <2> DEFINE p == Append(s, m)
  <2> HIDE DEF p
  <2>2. \A i \in 1 .. Len(s) + 1 : i \in 1 .. Len(s) \/ i = Len(s) + 1
    BY <2>1
  <2>3. OfNext(p, t)
    BY <1>3, <2>1, <2>2 DEF OfNext, p
  <2> QED  BY <2>3 DEF p
<1>4. ASSUME NEW s \in Seq(Msgs), NEW t, OfNext(s, t), NEW R \in SUBSET (1 .. Len(s))
      PROVE  OfNext(At(s, R), t)
  <2>1. /\ DOMAIN At(s, R) = 1 .. Cardinality(R)
        /\ \A m \in 1 .. Cardinality(R) : Nth(R, m) \in 1 .. Len(s) /\ At(s, R)[m] = s[Nth(R, m)]
    BY AtFacts
  <2>2. DOMAIN s = 1 .. Len(s)
    BY UserPlacesOK
  <2> DEFINE p == At(s, R)
  <2> HIDE DEF p
  <2>3. OfNext(p, t)
    BY <1>4, <2>1, <2>2 DEF OfNext, p
  <2> QED  BY <2>3 DEF p
<1> QED  BY <1>1, <1>2, <1>3, <1>4

\* Which message a load brings.
LEMMA PageOf ==
  ASSUME RunInv, TypesOK, TurnsUsed, LoadsOK, MessagesOK, [Next]_vars
  PROVE  OfNext(page', thread')
<1>0. OfNext(page, thread) /\ page \in Seq(Msgs) /\ Len(page) \in Nat
  BY OfKept, UserPlacesOK DEF MessagesOK, TypesOK
<1>1. ASSUME NEW k \in Turns, Sends(k) PROVE OfNext(page', thread')
  <2>1. PICK p \in Turns, r \in Nat : RunTurn(k, p, r)
    BY <1>1, SendsRun DEF Sends
  <2>2. thread' = thread /\ turn'[k].prompt # NoTurn /\ turn'[k].thread = thread
    <3>1. turn'[k] = [thread |-> thread, prompt |-> p, replace |-> r, known |-> FALSE, settled |-> FALSE]
      BY <2>1, BeginsTurn
    <3>2. thread' = thread
      BY <2>1 DEF RunTurn
    <3> QED  BY <3>1, <3>2, ZeroIsNoTurn
  <2>3. \A s \in Seq(Msgs), q \in Turns : OfNext(s, thread) =>
          /\ OfNext(Append(s, Msg("assistant", k, q)), thread)
          /\ OfNext(Append(Append(s, Msg("user", k, k)), Msg("assistant", k, k)), thread)
    <3> TAKE s \in Seq(Msgs), q \in Turns
    <3> HAVE OfNext(s, thread)
    <3>1. OfNext(Append(s, Msg("assistant", k, q)), thread)
      BY <2>2, MsgIs, OfParts
    <3>2. OfNext(Append(s, Msg("user", k, k)), thread) /\ Append(s, Msg("user", k, k)) \in Seq(Msgs)
      BY <2>2, MsgIs, OfParts
    <3> DEFINE x == Append(s, Msg("user", k, k))
               a == Msg("assistant", k, k)
    <3>3. a \in Msgs /\ a.turn = k
      BY MsgIs
    <3> HIDE DEF x, a
    <3>4. x \in Seq(Msgs) /\ OfNext(x, thread)
      BY <3>2 DEF x
    <3>5. OfNext(Append(x, a), thread)
      BY <2>2, <3>3, <3>4, OfParts
    <3> QED  BY <3>1, <3>5 DEF x, a
  <2>4. \A c \in 0 .. Len(page) : SubSeq(page, 1, c) \in Seq(Msgs) /\ OfNext(SubSeq(page, 1, c), thread)
    BY <1>0, OfParts, PromptsOfPrefix
  <2>5. \A c \in 1 .. Len(page) : c \in 0 .. Len(page)
    BY <1>0
  <2> QED  BY <1>0, <1>1, <2>2, <2>3, <2>4, <2>5, SendsPage
<1>2. CASE LeavesPage
  <2>1. CASE Stop
    BY <1>0, <2>1 DEF Stop
  <2>2. page' = <<>> \/ Stop
    BY <1>2 DEF LeavesPage, Remount, SelectThread, NewChat, DeleteOpen, Open, LoadThread
  <2> QED  BY <2>1, <2>2, OfParts
<1>3. CASE LoadSteps
  <2>0. thread' = thread
    BY <1>3, TurnsAlone
  <2>1. CASE LoadedArrives
    <3>1. PICK r \in net : r.kind = "loaded" /\ Show(r.seq, r.msgs)
      BY <2>1 DEF LoadedArrives, InNet
    <3>2. CASE r.seq = loadSeq
      <4>1. Of(r.msgs, thread) /\ page' = r.msgs /\ r.msgs \in Seq(Msgs)
        BY <3>1, <3>2, RequestIs DEF LoadsOK, InNet, Show
      <4> QED  BY <2>0, <4>1, OfKept
    <3>3. CASE r.seq # loadSeq
      BY <1>0, <2>0, <3>1, <3>3 DEF Show
    <3> QED  BY <3>2, <3>3
  <2>2. CASE LoadFails
    <3>1. page' = page \/ page' = <<>>
      BY <2>2 DEF LoadFails, Show
    <3> QED  BY <1>0, <2>0, <3>1, OfParts
  <2>3. CASE LoadArrives
    BY <1>0, <2>3 DEF LoadArrives, Serves, pageVars
  <2> QED  BY <1>3, <2>1, <2>2, <2>3 DEF LoadSteps
<1>4. CASE Closes \/ RunSteps \/ DeleteSteps \/ UNCHANGED vars
  <2>1. page' = page /\ thread' = thread
    BY <1>4 DEF Closes, RunIdArrives, PostFails, StreamCloses, KeepPage, RunSteps, DeleteSteps,
                Works, PruneReads, PruneWrites, Begins, Ends, ServerOnly, DeleteOther, PostArrives,
                RecordSession, DeleteArrives, DropCheckpoint, Serves, pageVars, vars
  <2> QED  BY <1>0, <2>1
<1> QED  BY <1>1, <1>2, <1>3, <1>4, StepIs

\* The page, the checkpoints and the runs hold messages of their own thread only.
LEMMA MessagesStay ==
  ASSUME RunInv, TypesOK, TurnsUsed, LoadsOK, MessagesOK, [Next]_vars, TypesOK'
  PROVE  MessagesOK'
<1>0. /\ \A t \in Threads : saved[t] \in Seq(Msgs) /\ OfNext(saved[t], t)
      /\ \A k \in Turns : run[k].held \in Seq(Msgs) /\ OfNext(run[k].held, ThreadOf(k))
  <2>1. \A t \in Threads : saved[t] \in Seq(Msgs)
    BY DEF TypesOK
  <2> QED  BY <2>1, OfKept, RunIs DEF MessagesOK
<1>1. OfNext(page', thread')
  BY PageOf
<1>2. ASSUME NEW k \in Turns, Works(k)
      PROVE  /\ \A t \in Threads : OfNext(saved'[t], t)
             /\ \A j \in Turns : OfNext(run'[j].held, ThreadOf(j))
  <2> DEFINE T == ThreadOf(k)
             u == Msg("user", k, turn[k].prompt)
             a == Msg("assistant", k, turn[k].prompt)
  <2>1. /\ T \in Threads /\ turn[k].prompt \in Turns /\ Used(k) /\ turn' = turn
        /\ \A t \in Threads : t # T => saved'[t] = saved[t]
        /\ \A j \in Turns : j # k => run'[j] = run[j]
    BY <1>2, WorksSaved, WorksIs, WorksAlone
  <2>2. /\ u \in Msgs /\ a \in Msgs
        /\ turn'[u.turn].prompt # NoTurn /\ turn'[u.turn].thread = T
        /\ turn'[a.turn].prompt # NoTurn /\ turn'[a.turn].thread = T
    BY <2>1, MsgIs DEF Used, ThreadOf
  <2>3. OfNext(Append(saved[T], u), T) /\ OfNext(Append(run[k].held, a), T)
    BY <1>0, <2>1, <2>2, OfParts
  <2>4. OfNext(saved'[T], T)
    <3>1. CASE PruneReads(k)
      BY <1>0, <2>1, <3>1, WorksSaved DEF Works
    <3>2. CASE PruneWrites(k)
      <4> DEFINE R == {i \in DOMAIN saved[T] : saved[T][i] \notin run[k].doomed}
      <4>1. saved' = saved \/ saved'[T] = At(saved[T], R)
        BY <1>2, <3>2, WorksSaved
      <4>2. R \in SUBSET (1 .. Len(saved[T]))
        BY <1>0, <2>1, UserPlacesOK
      <4> HIDE DEF R
      <4> QED  BY <1>0, <2>1, <4>1, <4>2, OfParts
    <3>3. CASE Begins(k)
      BY <1>2, <2>3, <3>3, WorksSaved
    <3>4. CASE Ends(k)
      BY <1>0, <1>2, <2>1, <2>3, <3>4, WorksSaved
    <3> QED  BY <1>2, <3>1, <3>2, <3>3, <3>4 DEF Works
  <2>5. OfNext(run'[k].held, T)
    <3>1. CASE PruneReads(k) \/ PruneWrites(k)
      BY <1>0, <3>1, WorksIs
    <3>2. CASE Begins(k)
      BY <2>3, <3>2, WorksIs
    <3>3. CASE Ends(k)
      BY <3>3, WorksIs, OfParts
    <3> QED  BY <1>2, <3>1, <3>2, <3>3 DEF Works
  <2> QED  BY <1>0, <2>1, <2>4, <2>5
<1>3. ASSUME ~ \E k \in Turns : Works(k)
      PROVE  /\ \A t \in Threads : OfNext(saved'[t], t)
             /\ \A j \in Turns : OfNext(run'[j].held, ThreadOf(j))
  <2>1. \A k \in Turns : run'[k].held = run[k].held
    <3>1. CASE (\E k \in Turns : Sends(k)) \/ LeavesPage \/ Closes \/ LoadSteps \/ UNCHANGED vars
      BY <3>1, ServerAlone
    <3>2. CASE PostArrives
      BY <3>2, PostIs
    <3>3. CASE RecordSession
      BY <3>3, RecordIs
    <3>4. CASE DeleteSteps
      BY <3>4, DeletesAre
    <3> QED  BY <1>3, <3>1, <3>2, <3>3, <3>4, StepIs DEF RunSteps
  <2>2. \A t \in Threads : saved'[t] = saved[t] \/ saved'[t] = <<>>
    <3>1. CASE (\E k \in Turns : Sends(k)) \/ LeavesPage \/ Closes \/ LoadSteps \/ UNCHANGED vars
      BY <3>1, ServerAlone
    <3>2. CASE PostArrives
      BY <3>2, PostIs
    <3>3. CASE RecordSession
      BY <3>3, RecordIs
    <3>4. CASE DeleteSteps
      <4>1. saved' = saved \/ \E t \in Threads : saved' = [saved EXCEPT ![t] = <<>>]
        BY <3>4, DeletesAre
      <4> QED  BY <4>1 DEF TypesOK
    <3> QED  BY <1>3, <3>1, <3>2, <3>3, <3>4, StepIs DEF RunSteps
  <2>3. \A t \in Threads : OfNext(saved'[t], t)
    BY <1>0, <2>2, OfParts
  <2> QED  BY <1>0, <2>1, <2>3
<1>4. /\ \A t \in Threads : OfNext(saved'[t], t)
      /\ \A j \in Turns : OfNext(run'[j].held, ThreadOf(j))
  BY <1>2, <1>3
<1>5. ASSUME NEW j \in Turns PROVE OfNext(run'[j].held, turn'[j].thread)
  <2>1. CASE Same(j)
    BY <1>4, <2>1 DEF Same, ThreadOf
  <2>2. CASE ~ Same(j)
    <3>1. PICK k \in Turns : Sends(k)
      BY <2>2, StepIs, TurnSteps
    <3>2. j = k /\ ~ Used(j) /\ run' = run
      BY <2>2, <3>1, TurnSteps, SendsRun, BeginsTurn, ServerAlone DEF Sends
    <3>3. run'[j].held = <<>>
      BY <3>2, NoRunIs DEF TurnsUsed
    <3> QED  BY <3>3, OfParts
  <2> QED  BY <2>1, <2>2
<1> QED  BY <1>1, <1>4, <1>5 DEF MessagesOK, Of, OfNext, Used, ThreadOf

-----------------------------------------------------------------------------
(* Loads *)

IsLoad(r) == r.kind \in {"load", "loaded"}

\* A step that leaves the loads alone.
LEMMA LoadsFrame ==
  ASSUME RunInv, TypesOK, TurnsUsed, LoadsOK, [Next]_vars,
         \A r : IsLoad(r) => (r \in net' <=> r \in net),
         loadSeq' = loadSeq, loading' = loading, thread' = thread
  PROVE  LoadsOK'
<1>1. \A r \in net' : IsLoad(r) => r \in net
  OBVIOUS
<1>2. \A r \in net' : Newest(r)' => r \in net /\ Newest(r)
  BY <1>1 DEF Newest, IsLoad
<1>3. loading' => \E r \in net' : Newest(r)'
  BY DEF LoadsOK, Newest, IsLoad
<1>4. \A r \in net' : IsLoad(r) => r.seq <= loadSeq'
  BY <1>1 DEF LoadsOK, IsLoad
<1>5. \A r \in net' : Newest(r)' => loading'
  BY <1>2 DEF LoadsOK
<1>6. \A r, s \in net' : Newest(r)' /\ Newest(s)' => r = s
  BY <1>2 DEF LoadsOK
<1>7. \A r \in InNet("load")' : r.seq = loadSeq' => r.thread = thread'
  BY <1>1 DEF LoadsOK, InNet, IsLoad
<1>8. \A r \in InNet("loaded")' : r.seq = loadSeq' => OfNext(r.msgs, thread')
  <2> TAKE r \in InNet("loaded")'
  <2> HAVE r.seq = loadSeq'
  <2>1. r \in net /\ r.kind = "loaded"
    BY <1>1 DEF InNet, IsLoad
  <2>2. Of(r.msgs, thread) /\ r.msgs \in Seq(Msgs)
    BY <2>1, RequestIs DEF LoadsOK, InNet
  <2> QED  BY <2>2, OfKept
<1> QED  BY <1>3, <1>4, <1>5, <1>6, <1>7, <1>8 DEF LoadsOK, IsLoad, Newest, Of, OfNext, Used, ThreadOf

\* A thread is opened.
LEMMA LoadsBegin ==
  ASSUME TypesOK, LoadsOK, NEW t, thread' = t, loadSeq' = loadSeq + 1,
         \/ loading' = TRUE /\ \A r : IsLoad(r) => (r \in net' <=> r \in net \/ r = Load(loadSeq + 1, t))
         \/ loading' = FALSE /\ \A r : IsLoad(r) => (r \in net' <=> r \in net)
  PROVE  LoadsOK'
<1> DEFINE new == Load(loadSeq + 1, t)
<1>1. /\ new.kind = "load" /\ new.seq = loadSeq' /\ new.thread = thread'
  BY Kinds
<1>2. loadSeq \in Nat /\ loadSeq' \in Nat /\ loadSeq < loadSeq'
  BY DEF TypesOK
<1> HIDE DEF new
<1>3. \A r \in net' : IsLoad(r) => (r = new /\ loading') \/ r \in net
  BY DEF new
<1>4. \A r \in net : IsLoad(r) => r.seq \in Nat /\ r.seq <= loadSeq
  BY RequestIs DEF LoadsOK, IsLoad
<1>5. \A r \in net : IsLoad(r) => r.seq <= loadSeq' /\ r.seq # loadSeq'
  BY <1>2, <1>4
<1>6. \A r \in net' : Newest(r)' => r = new /\ loading'
  BY <1>3, <1>5 DEF Newest, IsLoad
<1>7. \A r \in net' : IsLoad(r) => r.seq <= loadSeq'
  BY <1>1, <1>2, <1>3, <1>5
<1>8. loading' => \E r \in net' : Newest(r)'
  <2>1. loading' => new \in net'
    BY <1>1 DEF new, IsLoad
  <2> QED  BY <1>1, <2>1 DEF Newest
<1>9. \A r \in InNet("load")' : r.seq = loadSeq' => r.thread = thread'
  BY <1>1, <1>6 DEF InNet, Newest
<1>10. \A r \in InNet("loaded")' : r.seq # loadSeq'
  BY <1>1, <1>6 DEF InNet, Newest
<1> QED  BY <1>6, <1>7, <1>8, <1>9, <1>10 DEF LoadsOK, IsLoad

\* One load is the newest while loading, and it is of the active thread.
LEMMA LoadsStay ==
  ASSUME RunInv, TypesOK, TurnsUsed, LoadsOK, MessagesOK, [Next]_vars
  PROVE  LoadsOK'
<1>1. CASE (\E k \in Turns : Sends(k)) \/ Closes \/ RunSteps \/ DeleteSteps \/ UNCHANGED vars
  <2>1. \A r : IsLoad(r) => (r \in net' <=> r \in net)
    <3>1. \E K : Touches(K) /\ K \cap {"load", "loaded"} = {}
      BY <1>1, NetSteps DEF RunSteps
    <3> QED  BY <3>1 DEF Touches, IsLoad
  <2>2. loadSeq' = loadSeq /\ loading' = loading /\ thread' = thread
    BY <1>1 DEF Sends, Send, Reload, Edit, RunTurn, Closes, RunIdArrives, PostFails, StreamCloses,
                KeepPage, RunSteps, DeleteSteps, Works, PruneReads, PruneWrites, Begins, Ends,
                ServerOnly, DeleteOther, PostArrives, RecordSession, DeleteArrives, DropCheckpoint,
                Serves, pageVars, vars
  <2> QED  BY <2>1, <2>2, LoadsFrame
<1>2. CASE LeavesPage
  <2>1. CASE Stop
    <3>1. net' = net /\ loadSeq' = loadSeq /\ loading' = loading /\ thread' = thread
      BY <2>1 DEF Stop
    <3> QED  BY <3>1, LoadsFrame
  <2>2. ASSUME NEW t, NEW f, NEW requests, thread' = t, LoadThread(t, f, requests), f \in BOOLEAN,
               \A r \in requests : ~ IsLoad(r)
        PROVE  LoadsOK'
    <3>1. loadSeq' = loadSeq + 1
      BY <2>2 DEF LoadThread
    <3>2. CASE f = TRUE
      <4>1. loading' = FALSE /\ net' = net \cup requests
        BY <2>2, <3>2 DEF LoadThread
      <4>2. \A r : IsLoad(r) => (r \in net' <=> r \in net)
        BY <2>2, <4>1
      <4> QED  BY <2>2, <3>1, <4>1, <4>2, LoadsBegin
    <3>3. CASE f = FALSE
      <4>1. loading' = TRUE /\ net' = net \cup requests \cup {Load(loadSeq + 1, t)}
        BY <2>2, <3>3 DEF LoadThread
      <4>2. \A r : IsLoad(r) => (r \in net' <=> r \in net \/ r = Load(loadSeq + 1, t))
        BY <2>2, <4>1
      <4> QED  BY <2>2, <3>1, <4>1, <4>2, LoadsBegin
    <3> QED  BY <2>2, <3>2, <3>3
  <2>3. CASE Remount
    <3>1. thread' = thread /\ LoadThread(thread, fresh, {}) /\ fresh \in BOOLEAN
      BY <2>3 DEF Remount, TypesOK
    <3> QED  BY <2>2, <3>1
  <2>4. ASSUME NEW t \in Threads, SelectThread(t) PROVE LoadsOK'
    <3>1. /\ thread' = t /\ loadSeq' = loadSeq + 1 /\ loading' = TRUE
          /\ net' = net \cup {Load(loadSeq + 1, t)}
      BY <2>4 DEF SelectThread, LoadThread
    <3>2. \A r : IsLoad(r) => (r \in net' <=> r \in net \/ r = Load(loadSeq + 1, t))
      BY <3>1
    <3> QED  BY <3>1, <3>2, LoadsBegin
  <2>5. ASSUME NEW t \in Threads, NewChat(t) PROVE LoadsOK'
    <3>1. thread' = t /\ loadSeq' = loadSeq + 1 /\ loading' = FALSE /\ net' = net
      BY <2>5 DEF NewChat, Open, LoadThread
    <3> QED  BY <3>1, LoadsBegin
  <2>6. ASSUME NEW t \in Threads, DeleteOpen(t) PROVE LoadsOK'
    <3>1. thread' = t /\ LoadThread(t, TRUE, {Delete(thread)})
      BY <2>6 DEF DeleteOpen, Open
    <3>2. \A r \in {Delete(thread)} : ~ IsLoad(r)
      BY Kinds DEF IsLoad
    <3> QED  BY <2>2, <3>1, <3>2
  <2> QED  BY <1>2, <2>1, <2>3, <2>4, <2>5, <2>6 DEF LeavesPage
<1>3. CASE LoadSteps
  <2>0. thread' = thread /\ loadSeq' = loadSeq
    BY <1>3, TurnsAlone
  <2>1. ASSUME NEW r \in net, IsLoad(r), net' = net \ {r},
               r.seq = loadSeq => loading' = FALSE, r.seq # loadSeq => loading' = loading
        PROVE  LoadsOK'
    <3>1. \A s \in net' : s \in net /\ s # r
      BY <2>1
    <3>2. \A s \in net' : Newest(s)' => s \in net /\ Newest(s) /\ s # r
      BY <2>0, <3>1 DEF Newest
    <3>3. Newest(r) <=> r.seq = loadSeq
      BY <2>1 DEF Newest, IsLoad
    <3>4. \A s \in net' : Newest(s)' => loading'
      BY <2>1, <3>2, <3>3 DEF LoadsOK
    <3>5. \A s, u \in net' : Newest(s)' /\ Newest(u)' => s = u
      BY <3>2 DEF LoadsOK
    <3>6. loading' => \E s \in net' : Newest(s)'
      <4> HAVE loading'
      <4>1. r.seq # loadSeq /\ loading
        BY <2>1
      <4>2. PICK s \in net : Newest(s)
        BY <4>1 DEF LoadsOK
      <4>3. s \in net'
        BY <2>1, <3>3, <4>1, <4>2
      <4> QED  BY <2>0, <4>2, <4>3 DEF Newest
    <3>7. \A s \in net' : IsLoad(s) => s.seq <= loadSeq'
      BY <2>0, <3>1 DEF LoadsOK, IsLoad
    <3>8. \A s \in InNet("load")' : s.seq = loadSeq' => s.thread = thread'
      BY <2>0, <3>1 DEF LoadsOK, InNet
    <3>9. \A s \in InNet("loaded")' : s.seq = loadSeq' => OfNext(s.msgs, thread')
      <4> TAKE s \in InNet("loaded")'
      <4> HAVE s.seq = loadSeq'
      <4>1. s \in net /\ s.kind = "loaded"
        BY <3>1 DEF InNet
      <4>2. Of(s.msgs, thread) /\ s.msgs \in Seq(Msgs)
        BY <2>0, <4>1, RequestIs DEF LoadsOK, InNet
      <4> QED  BY <2>0, <4>2, OfKept
    <3> QED  BY <3>4, <3>5, <3>6, <3>7, <3>8, <3>9
             DEF LoadsOK, IsLoad, Newest, Of, OfNext, Used, ThreadOf
  <2>2. CASE LoadedArrives
    <3>1. PICK r \in net : r.kind = "loaded" /\ Show(r.seq, r.msgs) /\ net' = net \ {r}
      BY <2>2 DEF LoadedArrives, InNet
    <3> QED  BY <2>1, <3>1 DEF Show, IsLoad
  <2>3. CASE LoadFails
    <3>1. PICK r \in net : r.kind = "load" /\ Show(r.seq, <<>>) /\ net' = net \ {r}
      BY <2>3 DEF LoadFails, InNet
    <3> QED  BY <2>1, <3>1 DEF Show, IsLoad
  <2>4. CASE LoadArrives
    <3>1. PICK r \in net :
            /\ r.kind = "load" /\ loading' = loading
            /\ net' = (net \ {r}) \cup {Loaded(r.seq, IF r.thread \in row THEN saved[r.thread] ELSE <<>>)}
      BY <2>4 DEF LoadArrives, InNet, Serves, pageVars
    <3> DEFINE msgs == IF r.thread \in row THEN saved[r.thread] ELSE <<>>
               new == Loaded(r.seq, msgs)
    <3>2. r.thread \in Threads /\ r.seq \in Nat /\ IsLoad(r)
      BY <3>1, RequestIs DEF IsLoad
    <3>3. msgs \in Seq(Msgs) /\ Of(msgs, r.thread)
      BY <3>2 DEF TypesOK, MessagesOK, Of
    <3>4. OfNext(msgs, r.thread)
      BY <3>3, OfKept
    <3> HIDE DEF msgs
    <3>5. new.kind = "loaded" /\ new.seq = r.seq /\ new.msgs = msgs
      BY Kinds
    <3>6. net' = (net \ {r}) \cup {new}
      BY <3>1 DEF msgs
    <3> HIDE DEF new
    <3>7. \A s \in net' : s = new \/ (s \in net /\ s # r)
      BY <3>6
    <3>8. \A s \in net' : Newest(s)' => (s = new /\ Newest(r)) \/ (s \in net /\ Newest(s) /\ s # r)
      BY <2>0, <3>1, <3>5, <3>7 DEF Newest
    <3>9. \A s \in net' : Newest(s)' => loading'
      BY <3>1, <3>8 DEF LoadsOK
    <3>10. \A s, u \in net' : Newest(s)' /\ Newest(u)' => s = u
      BY <3>8 DEF LoadsOK
    <3>11. loading' => \E s \in net' : Newest(s)'
      <4> HAVE loading'
      <4>1. PICK s \in net : Newest(s)
        BY <3>1 DEF LoadsOK
      <4>2. CASE s = r
        BY <2>0, <3>5, <3>6, <4>1, <4>2 DEF Newest
      <4>3. CASE s # r
        BY <2>0, <3>6, <4>1, <4>3 DEF Newest
      <4> QED  BY <4>2, <4>3
    <3>12. \A s \in net' : IsLoad(s) => s.seq <= loadSeq'
      BY <2>0, <3>1, <3>5, <3>7 DEF LoadsOK, IsLoad
    <3>13. \A s \in InNet("load")' : s.seq = loadSeq' => s.thread = thread'
      BY <2>0, <3>5, <3>7 DEF LoadsOK, InNet
    <3>14. \A s \in InNet("loaded")' : s.seq = loadSeq' => OfNext(s.msgs, thread')
      <4> TAKE s \in InNet("loaded")'
      <4> HAVE s.seq = loadSeq'
      <4>1. CASE s = new
        <5>1. r.thread = thread
          BY <2>0, <3>1, <3>5, <4>1 DEF LoadsOK, InNet
        <5> QED  BY <2>0, <3>4, <3>5, <4>1, <5>1
      <4>2. CASE s # new
        <5>1. s \in net /\ s.kind = "loaded"
          BY <3>7, <4>2 DEF InNet
        <5>2. Of(s.msgs, thread) /\ s.msgs \in Seq(Msgs)
          BY <2>0, <5>1, RequestIs DEF LoadsOK, InNet
        <5> QED  BY <2>0, <5>2, OfKept
      <4> QED  BY <4>1, <4>2
    <3> QED  BY <3>9, <3>10, <3>11, <3>12, <3>13, <3>14
             DEF LoadsOK, IsLoad, Newest, Of, OfNext, Used, ThreadOf
  <2> QED  BY <1>3, <2>2, <2>3, <2>4 DEF LoadSteps
<1> QED  BY <1>1, <1>2, <1>3, StepIs

-----------------------------------------------------------------------------
(* Turns and their runs *)

\* How far the run of a turn is, asked for and known.
AskedRight(k) ==
  /\ Post(k) \in net => Record(k) \notin net /\ Created(k) \notin net /\ run[k].at = "none"
  /\ Record(k) \in net => Created(k) \notin net /\ run[k].at # "none"
  /\ Created(k) \in net => run[k].at # "none"
  /\ turn[k].known => ~ Asked(k) /\ run[k].at # "none"
  /\ ~ turn[k].settled => Asked(k) \/ turn[k].known
  /\ Used(k) /\ k <= Stored => ~ Asked(k) /\ run[k].at = "none" /\ turn[k].settled

LEMMA AskedIsRight == AskedOnce <=> \A k \in Turns : AskedRight(k)
  BY DEF AskedOnce, AskedRight

\* The turn's requests and its run are left alone.
LEMMA AskedFrame ==
  ASSUME NEW j \in Turns, AskedRight(j), Same(j),
         Post(j) \in net' <=> Post(j) \in net, Record(j) \in net' <=> Record(j) \in net,
         Created(j) \in net' <=> Created(j) \in net,
         run'[j].at = run[j].at, turn'[j].known = turn[j].known
  PROVE  AskedRight(j)'
<1>1. Used(j)' => Used(j)
  BY IdleIs DEF Same, Used
<1>2. Asked(j)' <=> Asked(j)
  BY DEF Asked, Post, Record, Created
<1>3. ~ turn'[j].settled => ~ turn[j].settled
  BY DEF Same
<1>4. Used(j) /\ j <= Stored => turn'[j].settled
  BY DEF AskedRight, Same
<1> QED  BY <1>1, <1>2, <1>3, <1>4 DEF AskedRight, Post, Record, Created

\* Only the answer to its POST makes a run known.
LEMMA KnownSame ==
  ASSUME RunInv, LeavesPage \/ LoadSteps \/ DeleteSteps \/ RunSteps \/ UNCHANGED vars
  PROVE  \A j \in Turns : turn'[j].known = turn[j].known
<1>1. CASE LeavesPage
  BY <1>1, Leaves DEF LeavesPage, Left, Kept
<1>2. CASE LoadSteps \/ DeleteSteps \/ RunSteps \/ UNCHANGED vars
  BY <1>2, TurnsAlone
<1> QED  BY <1>1, <1>2

\* Each run is asked for by one request, which the page waits for.
LEMMA AskedStay ==
  ASSUME RunInv, TypesOK, TurnsUsed, StoredUsed, AskedOnce, [Next]_vars
  PROVE  AskedOnce'
<1>0. \A j \in Turns : AskedRight(j)
  BY AskedIsRight
<1>1. CASE LeavesPage \/ LoadSteps \/ DeleteSteps \/ UNCHANGED vars
  <2>1. \A j \in Turns : run'[j].at = run[j].at
    BY <1>1, ServerAlone, DeletesAre
  <2>2. ASSUME NEW j \in Turns PROVE AskedRight(j)'
    <3>1. /\ Post(j) \in net' <=> Post(j) \in net
          /\ Record(j) \in net' <=> Record(j) \in net
          /\ Created(j) \in net' <=> Created(j) \in net
      BY <1>1, AskedSame
    <3>2. Same(j) /\ turn'[j].known = turn[j].known
      BY <1>1, TurnSteps, KnownSame
    <3> QED  BY <1>0, <2>1, <3>1, <3>2, AskedFrame
  <2> QED  BY <2>2 DEF AskedOnce, AskedRight, Turns
<1>2. ASSUME NEW k \in Turns, Sends(k) PROVE AskedOnce'
  <2>1. PICK p \in Turns, r \in Nat : RunTurn(k, p, r)
    BY <1>2, SendsRun DEF Sends
  <2>2. /\ ~ Used(k) /\ \A j \in Turns : j # k => Kept(j)
        /\ turn'[k] = [thread |-> thread, prompt |-> p, replace |-> r,
                       known |-> FALSE, settled |-> FALSE]
    BY <2>1, BeginsTurn
  <2>3. net' = net \cup {Post(k)} /\ run' = run
    BY <1>2, NetSteps, ServerAlone
  <2>4. \A j : /\ Post(j) \in net' <=> Post(j) \in net \/ j = k
               /\ Record(j) \in net' <=> Record(j) \in net
               /\ Created(j) \in net' <=> Created(j) \in net
    BY <2>3, Kinds
  <2>5. ASSUME NEW j \in Turns PROVE AskedRight(j)'
    <3>1. CASE j = k
      <4>1. ~ Asked(k) /\ run[k].at = "none"
        BY <2>2, NoRunIs DEF TurnsUsed, Asked
      <4>2. Record(k) \notin net' /\ Created(k) \notin net' /\ Post(k) \in net' /\ run'[k].at = "none"
        BY <2>3, <2>4, <4>1 DEF Asked
      <4>3. ~ k <= Stored
        BY <2>2 DEF StoredUsed
      <4>4. turn'[k].known = FALSE /\ turn'[k].settled = FALSE
        BY <2>2
      <4> QED  BY <3>1, <4>2, <4>3, <4>4 DEF AskedRight, Asked, Post, Record, Created
    <3>2. CASE j # k
      BY <1>0, <1>2, <2>2, <2>3, <2>4, <3>2, AskedFrame, TurnSteps DEF Kept
    <3> QED  BY <3>1, <3>2
  <2> QED  BY <2>5 DEF AskedOnce, AskedRight, Turns
<1>3. CASE PostArrives
  <2>1. PICK k \in Turns :
           /\ Post(k) \in net /\ net' = (net \ {Post(k)}) \cup {Record(k)}
           /\ \A j \in Turns : j # k => run'[j] = run[j]
           /\ run'[k].at = IF turn[k].replace > 0 THEN "queued" ELSE "ready"
    BY <1>3, PostIs
  <2>2. \A j : /\ Post(j) \in net' <=> Post(j) \in net /\ j # k
               /\ Record(j) \in net' <=> Record(j) \in net \/ j = k
               /\ Created(j) \in net' <=> Created(j) \in net
    BY <2>1, Kinds
  <2>3. turn' = turn /\ run'[k].at # "none" /\ \A j \in Turns : Same(j)
    BY <1>3, <2>1, TurnsAlone, TurnSteps DEF RunSteps
  <2>4. ASSUME NEW j \in Turns PROVE AskedRight(j)'
    <3>1. CASE j = k
      <4>1. Asked(k) /\ Created(k) \notin net /\ ~ turn[k].known /\ ~ (Used(k) /\ k <= Stored)
        BY <1>0, <2>1 DEF AskedRight, Asked
      <4>2. Post(k) \notin net' /\ Record(k) \in net' /\ Created(k) \notin net'
        BY <2>2, <4>1
      <4>3. ~ (Used(k)' /\ k <= Stored) /\ ~ turn'[k].known
        BY <2>3, <4>1 DEF Used
      <4> QED  BY <2>3, <3>1, <4>2, <4>3 DEF AskedRight, Asked, Post, Record, Created
    <3>2. CASE j # k
      BY <1>0, <2>1, <2>2, <2>3, <3>2, AskedFrame
    <3> QED  BY <3>1, <3>2
  <2> QED  BY <2>4 DEF AskedOnce, AskedRight, Turns
<1>4. CASE RecordSession
  <2>1. PICK k \in Turns :
           /\ Record(k) \in net /\ net' = (net \ {Record(k)}) \cup {Created(k)} /\ run' = run
    BY <1>4, RecordIs
  <2>2. \A j : /\ Post(j) \in net' <=> Post(j) \in net
               /\ Record(j) \in net' <=> Record(j) \in net /\ j # k
               /\ Created(j) \in net' <=> Created(j) \in net \/ j = k
    BY <2>1, Kinds
  <2>3. turn' = turn /\ \A j \in Turns : Same(j)
    BY <1>4, TurnsAlone, TurnSteps DEF RunSteps
  <2>4. ASSUME NEW j \in Turns PROVE AskedRight(j)'
    <3>1. CASE j = k
      <4>1. Asked(k) /\ Post(k) \notin net /\ run[k].at # "none" /\ ~ turn[k].known /\ ~ (Used(k) /\ k <= Stored)
        BY <1>0, <2>1 DEF AskedRight, Asked
      <4>2. Post(k) \notin net' /\ Record(k) \notin net' /\ Created(k) \in net'
        BY <2>2, <4>1
      <4>3. ~ (Used(k)' /\ k <= Stored) /\ ~ turn'[k].known /\ run'[k].at # "none"
        BY <2>1, <2>3, <4>1 DEF Used
      <4> QED  BY <3>1, <4>2, <4>3 DEF AskedRight, Asked, Post, Record, Created
    <3>2. CASE j # k
      BY <1>0, <2>1, <2>2, <2>3, <3>2, AskedFrame
    <3> QED  BY <3>1, <3>2
  <2> QED  BY <2>4 DEF AskedOnce, AskedRight, Turns
<1>5. ASSUME NEW k \in Turns, Works(k) PROVE AskedOnce'
  <2>1. run[k].at # "none" /\ run'[k].at # "none" /\ turn' = turn /\ net' = net
    BY <1>5, WorksIs, WorksAlone DEF Works, PruneReads, PruneWrites, Begins, Ends
  <2>2. \A j \in Turns : j # k => run'[j] = run[j]
    BY <1>5, WorksIs
  <2>3. ASSUME NEW j \in Turns PROVE AskedRight(j)'
    <3>1. CASE j = k
      BY <1>0, <2>1, <3>1 DEF AskedRight, Asked, Post, Record, Created, Used
    <3>2. CASE j # k
      BY <1>0, <2>1, <2>2, <3>2 DEF AskedRight, Asked, Post, Record, Created, Used
    <3> QED  BY <3>1, <3>2
  <2> QED  BY <2>3 DEF AskedOnce, AskedRight, Turns
<1>6. CASE Closes
  <2>0. run' = run /\ \A j \in Turns : Same(j)
    BY <1>6, ServerAlone, TurnSteps
  <2>1. ASSUME NEW k \in Turns, Finish(k), net' = net \/ net' = net \ {Post(k)} \/ net' = net \ {Created(k)}
        PROVE  AskedOnce'
    <3>1. /\ \A j \in Turns : Kept(j) /\ (j # k => turn'[j] = turn[j])
          /\ turn'[k].settled
      BY <2>1, Finishes
    <3>2. \A j : /\ Post(j) \in net' => Post(j) \in net
                 /\ Record(j) \in net' <=> Record(j) \in net
                 /\ Created(j) \in net' => Created(j) \in net
                 /\ j # k => (Post(j) \in net' <=> Post(j) \in net) /\ (Created(j) \in net' <=> Created(j) \in net)
      BY <2>1, Kinds
    <3>3. ASSUME NEW j \in Turns PROVE AskedRight(j)'
      <4>1. CASE j = k
        <5>1. Asked(k)' => Asked(k)
          BY <3>2 DEF Asked, Post, Record, Created
        <5>2. turn'[k].known = turn[k].known /\ (Used(k)' => Used(k))
          BY <2>0, <3>1, IdleIs DEF Kept, Same, Used
        <5> QED  BY <1>0, <2>0, <3>1, <3>2, <4>1, <5>1, <5>2 DEF AskedRight, Post, Record, Created
      <4>2. CASE j # k
        BY <1>0, <2>0, <3>1, <3>2, <4>2, AskedFrame
      <4> QED  BY <4>1, <4>2
    <3> QED  BY <3>3 DEF AskedOnce, AskedRight, Turns
  <2>2. ASSUME NEW k \in Turns, turn' = [turn EXCEPT ![k].known = TRUE], Created(k) \in net,
               net' = net \ {Created(k)}
        PROVE  AskedOnce'
    <3>1. /\ \A j \in Turns : j # k => turn'[j] = turn[j]
          /\ turn'[k].known = TRUE /\ turn'[k].settled = turn[k].settled /\ turn'[k].prompt = turn[k].prompt
      BY <2>2, Learns
    <3>2. \A j : /\ Post(j) \in net' <=> Post(j) \in net
                 /\ Record(j) \in net' <=> Record(j) \in net
                 /\ Created(j) \in net' <=> Created(j) \in net /\ j # k
      BY <2>2, Kinds
    <3>3. ASSUME NEW j \in Turns PROVE AskedRight(j)'
      <4>1. CASE j = k
        <5>1. Asked(k) /\ Post(k) \notin net /\ Record(k) \notin net /\ run[k].at # "none" /\ ~ (Used(k) /\ k <= Stored)
          BY <1>0, <2>2 DEF AskedRight, Asked
        <5>2. Post(k) \notin net' /\ Record(k) \notin net' /\ Created(k) \notin net'
          BY <3>2, <5>1
        <5>3. ~ (Used(k)' /\ k <= Stored) /\ run'[k].at # "none"
          BY <2>0, <3>1, <5>1 DEF Used
        <5> QED  BY <3>1, <4>1, <5>2, <5>3 DEF AskedRight, Asked, Post, Record, Created
      <4>2. CASE j # k
        BY <1>0, <2>0, <3>1, <3>2, <4>2, AskedFrame
      <4> QED  BY <4>1, <4>2
    <3> QED  BY <3>3 DEF AskedOnce, AskedRight, Turns
  <2>3. CASE RunIdArrives
    <3>1. PICK r \in net : /\ r.kind = "created" /\ net' = net \ {r}
                           /\ IF turn[r.turn].settled THEN Finish(r.turn)
                              ELSE turn' = [turn EXCEPT ![r.turn].known = TRUE]
      BY <2>3 DEF RunIdArrives, InNet
    <3>2. r.turn \in Turns /\ r = Created(r.turn)
      BY <3>1, RequestIs
    <3> DEFINE k == r.turn
    <3>3. k \in Turns /\ net' = net \ {Created(k)} /\ Created(k) \in net
      BY <3>1, <3>2
    <3> QED  BY <2>1, <2>2, <3>1, <3>3
  <2>4. CASE PostFails
    <3>1. PICK r \in net : r.kind \in {"post", "created"} /\ Finish(r.turn) /\ net' = net \ {r}
      BY <2>4 DEF PostFails, InNet
    <3>2. r.turn \in Turns /\ (r = Post(r.turn) \/ r = Created(r.turn))
      BY <3>1, RequestIs
    <3> DEFINE k == r.turn
    <3>3. k \in Turns /\ (net' = net \ {Post(k)} \/ net' = net \ {Created(k)})
      BY <3>1, <3>2
    <3> QED  BY <2>1, <3>1, <3>3
  <2>5. CASE \E k \in Turns : StreamCloses(k)
    BY <2>1, <2>5 DEF StreamCloses
  <2> QED  BY <1>6, <2>3, <2>4, <2>5 DEF Closes
<1> QED  BY <1>1, <1>2, <1>3, <1>4, <1>5, <1>6, StepIs DEF RunSteps

-----------------------------------------------------------------------------
(* Threads *)

\* A turn that is used after a step was used before, or the step begins it.
LEMMA UsedNext ==
  ASSUME RunInv, TypesOK, TurnsUsed, [Next]_vars, NEW k \in Turns
  PROVE  /\ Used(k) => Used(k)' /\ Same(k)
         /\ Used(k)' => \/ Used(k) /\ Same(k)
                        \/ Sends(k) /\ turn'[k].thread = thread /\ thread' = thread
<1>1. CASE Same(k)
  BY <1>1, IdleIs DEF Same, Used
<1>2. CASE ~ Same(k)
  <2>1. PICK j \in Turns : Sends(j)
    BY <1>2, StepIs, TurnSteps
  <2>2. j = k
    BY <1>2, <2>1, TurnSteps
  <2>3. PICK p \in Turns, r \in Nat : RunTurn(k, p, r)
    BY <2>1, <2>2, SendsRun DEF Sends
  <2>4. ~ Used(k)
    BY <2>3, BeginsTurn
  <2>5. turn'[k] = [thread |-> thread, prompt |-> p, replace |-> r, known |-> FALSE, settled |-> FALSE]
    BY <2>3, BeginsTurn
  <2>6. thread' = thread
    BY <2>3 DEF RunTurn
  <2> QED  BY <2>1, <2>2, <2>4, <2>5, <2>6
<1> QED  BY <1>1, <1>2

\* What each group of steps leaves of the threads.
LEMMA OpensThread ==
  ASSUME LeavesPage
  PROVE  \/ Stop /\ UNCHANGED <<thread, minted, fresh, page, loading, deleted>>
         \/ Remount /\ UNCHANGED <<thread, minted, fresh, deleted>> /\ page' = <<>> /\ (fresh => ~ loading')
         \/ \E t \in Threads : /\ SelectThread(t) /\ t \in row /\ thread' = t /\ minted' = minted
                               /\ fresh' = FALSE /\ page' = <<>> /\ deleted' = deleted
         \/ \E t \in Threads \ minted :
              /\ thread' = t /\ minted' = minted \cup {t} /\ page' = <<>> /\ ~ loading'
              /\ deleted' = deleted \/ (thread \in row /\ deleted' = deleted \cup {thread})
<1>1. CASE Stop
  BY <1>1 DEF Stop
<1>2. CASE Remount
  BY <1>2 DEF Remount, LoadThread
<1>3. ASSUME NEW t \in Threads, SelectThread(t)
      PROVE  /\ t \in row /\ thread' = t /\ minted' = minted
             /\ fresh' = FALSE /\ page' = <<>> /\ deleted' = deleted
  BY <1>3 DEF SelectThread, LoadThread
<1>4. ASSUME NEW t \in Threads, NewChat(t) \/ DeleteOpen(t)
      PROVE  /\ t \in Threads \ minted
             /\ thread' = t /\ minted' = minted \cup {t} /\ page' = <<>> /\ ~ loading'
             /\ deleted' = deleted \/ (thread \in row /\ deleted' = deleted \cup {thread})
  BY <1>4 DEF NewChat, DeleteOpen, Open, LoadThread
<1> QED  BY <1>1, <1>2, <1>3, <1>4 DEF LeavesPage

LEMMA OthersThread ==
  ASSUME Closes \/ RunSteps \/ UNCHANGED vars \/ LoadSteps \/ DeleteSteps
  PROVE  /\ thread' = thread /\ minted' = minted /\ fresh' = fresh
         /\ Closes \/ RunSteps \/ UNCHANGED vars \/ DeleteSteps => page' = page /\ loading' = loading
         /\ Closes \/ RunSteps \/ UNCHANGED vars \/ LoadSteps => deleted' = deleted
  BY DEF Closes, RunIdArrives, PostFails, StreamCloses, KeepPage, RunSteps, DeleteSteps, Works,
         PruneReads, PruneWrites, Begins, Ends, ServerOnly, DeleteOther, PostArrives, RecordSession,
         DeleteArrives, DropCheckpoint, Serves, pageVars, vars, LoadSteps, LoadedArrives, LoadFails,
         KeepTurns, LoadArrives, ghosts

LEMMA SendsThread ==
  ASSUME NEW k, Sends(k)
  PROVE  /\ thread' = thread /\ minted' = minted /\ loading' = loading /\ deleted' = deleted \ {thread}
         /\ fresh' = FALSE \/ (fresh' = fresh /\ page # <<>>)
<1>1. /\ thread' = thread /\ minted' = minted /\ loading' = loading /\ deleted' = deleted \ {thread}
  BY DEF Sends, Send, Reload, Edit, RunTurn
<1>2. CASE Send(k)
  BY <1>1, <1>2 DEF Send
<1>3. CASE Reload(k)
  BY <1>1, <1>3 DEF Reload
<1>4. CASE Edit(k)
  <2>1. (0 .. Len(page) - 1) # {} /\ fresh' = fresh
    BY <1>4 DEF Edit
  <2>2. Len(<<>>) = 0
    OBVIOUS
  <2>3. page # <<>>
    BY <2>1, <2>2
  <2> QED  BY <1>1, <2>1, <2>3
<1> QED  BY <1>2, <1>3, <1>4 DEF Sends

\* What a step does to what is saved of a thread.
LEMMA SavedSteps ==
  ASSUME RunInv, TypesOK, TurnsUsed, [Next]_vars, NEW t \in Threads
  PROVE  \/ saved'[t] = saved[t]
         \/ Drop(t) \in net /\ saved'[t] = <<>> /\ DeleteSteps
         \/ \E k \in Turns : Works(k) /\ Used(k) /\ ThreadOf(k) = t
<1>1. CASE (\E k \in Turns : Sends(k)) \/ LeavesPage \/ Closes \/ LoadSteps \/ UNCHANGED vars
  BY <1>1, ServerAlone
<1>2. CASE PostArrives \/ RecordSession
  BY <1>2, PostIs, RecordIs
<1>3. CASE DeleteSteps
  <2>1. saved' = saved \/ \E u \in Threads : Drop(u) \in net /\ saved' = [saved EXCEPT ![u] = <<>>]
    BY <1>3, DeletesAre
  <2> QED  BY <1>3, <2>1 DEF TypesOK
<1>4. ASSUME NEW k \in Turns, Works(k)
      PROVE  saved'[t] = saved[t] \/ (Used(k) /\ ThreadOf(k) = t)
  BY <1>4, WorksSaved
<1> QED  BY <1>1, <1>2, <1>3, <1>4, StepIs DEF RunSteps

\* Threads that were never minted hold nothing; a fresh one is empty.
LEMMA ThreadsStay ==
  ASSUME RunInv, TypesOK, TurnsUsed, LoadsOK, ThreadsOK, [Next]_vars, TypesOK'
  PROVE  ThreadsOK'
<1>1. minted \subseteq minted' /\ thread' \in minted' /\ deleted' \subseteq minted'
  <2>0. thread \in minted /\ row \subseteq minted /\ deleted \subseteq minted
    BY DEF ThreadsOK
  <2>1. CASE \E k \in Turns : Sends(k)
    <3>1. thread' = thread /\ minted' = minted /\ deleted' = deleted \ {thread}
      BY <2>1, SendsThread
    <3> QED  BY <2>0, <3>1
  <2>2. CASE LeavesPage
    BY <2>0, <2>2, OpensThread
  <2>3. CASE Closes \/ RunSteps \/ UNCHANGED vars \/ LoadSteps
    BY <2>0, <2>3, OthersThread
  <2>4. CASE DeleteSteps
    <3>1. thread' = thread /\ minted' = minted
      BY <2>4, OthersThread
    <3>2. deleted' \subseteq deleted \cup row
      BY <2>4, DeletesAre
    <3> QED  BY <2>0, <3>1, <3>2
  <2> QED  BY <2>1, <2>2, <2>3, <2>4, StepIs
<1>2. row' \subseteq minted'
  <2>1. row \subseteq minted /\ \A k \in Turns : Used(k) => ThreadOf(k) \in minted
    BY DEF ThreadsOK
  <2>2. CASE (\E k \in Turns : Sends(k)) \/ LeavesPage \/ Closes \/ LoadSteps \/ UNCHANGED vars
    BY <1>1, <2>1, <2>2, ServerAlone
  <2>3. CASE PostArrives
    BY <1>1, <2>1, <2>3, PostIs
  <2>4. CASE RecordSession
    <3>1. \E k \in Turns : Used(k) /\ row' = row \cup {ThreadOf(k)}
      BY <2>4, RecordIs
    <3> QED  BY <1>1, <2>1, <3>1
  <2>5. CASE DeleteSteps
    <3>1. row' \subseteq row
      BY <2>5, DeletesAre
    <3> QED  BY <1>1, <2>1, <3>1
  <2>6. CASE \E k \in Turns : Works(k)
    BY <1>1, <2>1, <2>6, WorksAlone
  <2> QED  BY <2>2, <2>3, <2>4, <2>5, <2>6, StepIs DEF RunSteps
<1>3. ASSUME NEW k \in Turns, Used(k)' PROVE turn'[k].thread \in minted'
  BY <1>1, <1>3, UsedNext DEF Same, ThreadsOK, ThreadOf
<1>4. ASSUME NEW t \in Threads, t \notin minted' PROVE saved'[t] = <<>>
  <2>1. t \notin minted /\ saved[t] = <<>>
    BY <1>1, <1>4 DEF ThreadsOK
  <2>2. \A k \in Turns : Used(k) => ThreadOf(k) # t
    BY <2>1 DEF ThreadsOK
  <2> QED  BY <2>1, <2>2, SavedSteps
<1>5. ASSUME fresh'
      PROVE  /\ ~ loading' /\ page' = <<>> /\ saved'[thread'] = <<>>
             /\ \A k \in Turns : Used(k)' => turn'[k].thread # thread'
  <2>1. ASSUME fresh, thread' = thread, page' = <<>>, ~ loading', ~ \E k \in Turns : Sends(k)
        PROVE  /\ ~ loading' /\ page' = <<>> /\ saved'[thread'] = <<>>
               /\ \A k \in Turns : Used(k)' => turn'[k].thread # thread'
    <3>1. saved[thread] = <<>> /\ \A k \in Turns : Used(k) => ThreadOf(k) # thread
      BY <2>1 DEF ThreadsOK
    <3>2. saved'[thread] = <<>>
      BY <3>1, SavedSteps DEF TypesOK
    <3>3. \A k \in Turns : Used(k)' => turn'[k].thread # thread
      BY <2>1, <3>1, UsedNext DEF Same, ThreadOf
    <3> QED  BY <2>1, <3>2, <3>3
  <2>2. fresh => page = <<>> /\ ~ loading
    BY DEF ThreadsOK
  <2>3. ASSUME NEW k \in Turns, Sends(k) PROVE FALSE
    BY <1>5, <2>2, <2>3, SendsThread
  <2>4. CASE LeavesPage
    <3>1. CASE fresh /\ thread' = thread /\ page' = <<>> /\ ~ loading'
      BY <2>1, <2>3, <3>1
    <3>2. CASE \E t \in Threads \ minted : /\ thread' = t /\ page' = <<>> /\ ~ loading'
      <4>1. PICK t \in Threads \ minted : thread' = t
        BY <3>2
      <4>2. saved[t] = <<>> /\ \A k \in Turns : Used(k) => ThreadOf(k) # t
        BY <4>1 DEF ThreadsOK
      <4>3. saved'[t] = <<>>
        BY <4>1, <4>2, SavedSteps
      <4>4. \A k \in Turns : Used(k)' => turn'[k].thread # t
        BY <2>3, <4>2, UsedNext DEF Same, ThreadOf
      <4> QED  BY <3>2, <4>1, <4>3, <4>4
    <3>3. Stop => fresh /\ thread' = thread /\ page' = <<>> /\ ~ loading'
      BY <1>5, <2>2 DEF Stop
    <3>4. Remount => fresh /\ thread' = thread /\ page' = <<>> /\ ~ loading'
      BY <1>5 DEF Remount, LoadThread
    <3>5. (\E t \in Threads : SelectThread(t)) => FALSE
      BY <1>5 DEF SelectThread
    <3> QED  BY <2>4, <3>1, <3>2, <3>3, <3>4, <3>5, OpensThread
  <2>5. CASE Closes \/ RunSteps \/ UNCHANGED vars \/ DeleteSteps
    BY <1>5, <2>1, <2>2, <2>3, <2>5, OthersThread
  <2>6. CASE LoadSteps
    <3>1. fresh /\ page = <<>> /\ ~ loading /\ thread' = thread
      BY <1>5, <2>2, <2>6, OthersThread
    <3>2. \A r \in net : IsLoad(r) => r.seq # loadSeq
      BY <3>1 DEF LoadsOK, Newest, IsLoad
    <3>3. page' = page /\ (loading' <=> loading)
      <4>1. CASE LoadedArrives
        BY <3>2, <4>1 DEF LoadedArrives, Show, InNet, IsLoad
      <4>2. CASE LoadFails
        BY <3>2, <4>2 DEF LoadFails, Show, InNet, IsLoad
      <4>3. CASE LoadArrives
        BY <4>3 DEF LoadArrives, Serves, pageVars
      <4> QED  BY <2>6, <4>1, <4>2, <4>3 DEF LoadSteps
    <3> QED  BY <2>1, <2>3, <3>1, <3>3
  <2> QED  BY <2>3, <2>4, <2>5, <2>6, StepIs
<1> QED  BY <1>1, <1>2, <1>3, <1>4, <1>5 DEF ThreadsOK, ThreadOf, Used

-----------------------------------------------------------------------------
(* Messages are saved once *)

\* What a step leaves begun; messages of begun turns only, each prompt once.
BegunNext(k) == k <= Stored \/ run'[k].at \in {"streaming", "over"}
OnlyNext(s) == OneEach(s) /\ \A i \in DOMAIN s : BegunNext(s[i].turn)

\* A run that has begun stays so.
LEMMA BegunStays ==
  ASSUME RunInv, TypesOK, TurnsUsed, AskedOnce, [Next]_vars, NEW j \in Turns, Begun(j)
  PROVE  BegunNext(j)
<1>1. CASE (\E k \in Turns : Sends(k)) \/ LeavesPage \/ Closes \/ LoadSteps \/ DeleteSteps \/ UNCHANGED vars
  <2>1. run' = run
    BY <1>1, ServerAlone, DeletesAre
  <2> QED  BY <2>1 DEF Begun, BegunNext
<1>2. CASE RecordSession
  BY <1>2, RecordIs DEF Begun, BegunNext
<1>3. CASE PostArrives
  <2>1. PICK k \in Turns : Post(k) \in net /\ \A i \in Turns : i # k => run'[i] = run[i]
    BY <1>3, PostIs
  <2>2. run[k].at = "none"
    BY <2>1 DEF AskedOnce
  <2> QED  BY <2>1, <2>2 DEF Begun, BegunNext
<1>4. ASSUME NEW k \in Turns, Works(k) PROVE BegunNext(j)
  <2>1. j # k => run'[j] = run[j]
    BY <1>4, WorksIs
  <2>2. PruneReads(k) \/ PruneWrites(k) => run[k].at \notin {"streaming", "over"}
    BY DEF PruneReads, PruneWrites
  <2>3. Begins(k) \/ Ends(k) => run'[k].at \in {"streaming", "over"}
    BY WorksIs
  <2> QED  BY <1>4, <2>1, <2>2, <2>3 DEF Begun, BegunNext, Works
<1> QED  BY <1>1, <1>2, <1>3, <1>4, StepIs DEF RunSteps

LEMMA OnlyKept ==
  ASSUME RunInv, TypesOK, TurnsUsed, AskedOnce, [Next]_vars, NEW s \in Seq(Msgs), BegunOnly(s)
  PROVE  OnlyNext(s)
<1>1. \A i \in DOMAIN s : s[i].turn \in Turns /\ Begun(s[i].turn)
  <2>1. \A i \in DOMAIN s : s[i] \in Msgs
    BY UserPlacesOK
  <2> QED  BY <2>1 DEF BegunOnly, Msgs
<1> QED  BY <1>1, BegunStays DEF OnlyNext, BegunOnly

\* Some of the messages still have each prompt once; so has one more.
LEMMA OnlyParts ==
  /\ OnlyNext(<<>>)
  /\ \A s \in Seq(Msgs) : \A m \in Msgs :
       /\ OnlyNext(s) /\ BegunNext(m.turn)
       /\ m.role = "user" => \A i \in DOMAIN s : s[i] # m
       => OnlyNext(Append(s, m))
  /\ \A s \in Seq(Msgs) : OnlyNext(s) => \A R \in SUBSET (1 .. Len(s)) : OnlyNext(At(s, R))
<1>1. OnlyNext(<<>>)
  BY EmptyPrompts DEF OnlyNext, OneEach
<1>2. ASSUME NEW s \in Seq(Msgs), NEW m \in Msgs, OnlyNext(s), BegunNext(m.turn),
             m.role = "user" => \A i \in DOMAIN s : s[i] # m
      PROVE  OnlyNext(Append(s, m))
  <2>1. /\ DOMAIN Append(s, m) = 1 .. Len(s) + 1 /\ DOMAIN s = 1 .. Len(s) /\ Len(s) \in Nat
        /\ \A i \in 1 .. Len(s) : Append(s, m)[i] = s[i]
        /\ Append(s, m)[Len(s) + 1] = m
    OBVIOUS
  <2> DEFINE p == Append(s, m)
  <2> HIDE DEF p
  <2>2. \A i \in 1 .. Len(s) + 1 : i \in 1 .. Len(s) \/ i = Len(s) + 1
    BY <2>1
  <2>3. DOMAIN p = 1 .. Len(s) + 1 /\ p[Len(s) + 1] = m /\ \A i \in 1 .. Len(s) : p[i] = s[i]
    BY <2>1 DEF p
  <2>4. \A i \in DOMAIN p : BegunNext(p[i].turn)
    BY <1>2, <2>1, <2>2, <2>3 DEF OnlyNext
  <2>5. ASSUME NEW i \in UserPlaces(p), NEW j \in UserPlaces(p), p[i] = p[j] PROVE i = j
    <3>1. i \in DOMAIN p /\ j \in DOMAIN p /\ p[i].role = "user" /\ p[j].role = "user"
      BY DEF UserPlaces
    <3>2. CASE i \in 1 .. Len(s) /\ j \in 1 .. Len(s)
      <4>1. i \in UserPlaces(s) /\ j \in UserPlaces(s) /\ s[i] = s[j]
        BY <2>1, <2>3, <2>5, <3>1, <3>2 DEF UserPlaces
      <4> QED  BY <1>2, <4>1 DEF OnlyNext, OneEach
    <3>3. CASE i = Len(s) + 1 \/ j = Len(s) + 1
      BY <1>2, <2>1, <2>2, <2>3, <2>5, <3>1, <3>3
    <3> QED  BY <2>2, <2>3, <3>1, <3>2, <3>3
  <2> QED  BY <2>4, <2>5 DEF OnlyNext, OneEach, p
<1>3. ASSUME NEW s \in Seq(Msgs), OnlyNext(s), NEW R \in SUBSET (1 .. Len(s))
      PROVE  OnlyNext(At(s, R))
  <2> DEFINE p == At(s, R)
             N == Cardinality(R)
  <2>1. /\ DOMAIN p = 1 .. N
        /\ \A m \in 1 .. N : Nth(R, m) \in R /\ p[m] = s[Nth(R, m)]
    BY <1>3, AtFacts
  <2>2. \A l, m \in 1 .. N : l < m => Nth(R, l) < Nth(R, m)
    <3>1. Len(s) \in Nat
      BY UserPlacesOK
    <3> QED  BY <1>3, <3>1, NthFacts
  <2> HIDE DEF p
  <2>3. DOMAIN s = 1 .. Len(s) /\ Len(s) \in Nat
    BY UserPlacesOK
  <2>4. \A i \in DOMAIN p : BegunNext(p[i].turn)
    BY <1>3, <2>1, <2>3 DEF OnlyNext
  <2>5. N \in Nat
    BY <1>3, <2>3, PlacesFinite
  <2>6. ASSUME NEW i \in UserPlaces(p), NEW j \in UserPlaces(p), p[i] = p[j] PROVE i = j
    <3>1. i \in 1 .. N /\ j \in 1 .. N /\ p[i].role = "user" /\ p[j].role = "user"
      BY <2>1 DEF UserPlaces
    <3>2. Nth(R, i) \in DOMAIN s /\ Nth(R, j) \in DOMAIN s /\ s[Nth(R, i)] = p[i] /\ s[Nth(R, j)] = p[j]
      BY <1>3, <2>1, <2>3, <3>1
    <3>3. Nth(R, i) = Nth(R, j)
      BY <1>3, <2>6, <3>1, <3>2 DEF OnlyNext, OneEach, UserPlaces
    <3>4. i \in Int /\ j \in Int /\ Nth(R, i) \in Int
      BY <2>3, <2>5, <3>1, <3>2
    <3>5. ~ i < j /\ ~ j < i
      BY <2>2, <3>1, <3>3, <3>4
    <3> QED  BY <3>4, <3>5
  <2> QED  BY <2>4, <2>6 DEF OnlyNext, OneEach, p
<1> QED  BY <1>1, <1>2, <1>3

\* A message of the user is in its thread once, from when its run begins.
LEMMA SavedStay ==
  ASSUME RunInv, TypesOK, TurnsUsed, AskedOnce, SavedOnce, [Next]_vars, TypesOK'
  PROVE  SavedOnce'
<1>0. /\ \A t \in Threads : saved[t] \in Seq(Msgs) /\ OnlyNext(saved[t])
      /\ \A k \in Turns : run[k].held \in Seq(Msgs) /\ OnlyNext(run[k].held)
  <2>1. \A t \in Threads : saved[t] \in Seq(Msgs)
    BY DEF TypesOK
  <2>2. \A k \in Turns : run[k].held \in Seq(Msgs)
    BY RunIs
  <2> QED  BY <2>1, <2>2, OnlyKept DEF SavedOnce
<1>1. ASSUME NEW k \in Turns, Begins(k)
      PROVE  OnlyNext(Append(saved[ThreadOf(k)], Msg("user", k, turn[k].prompt)))
  <2> DEFINE s == saved[ThreadOf(k)]
             u == Msg("user", k, turn[k].prompt)
  <2>1. Used(k) /\ ThreadOf(k) \in Threads /\ turn[k].prompt \in Turns /\ run[k].at = "ready"
    BY <1>1, WorksSaved DEF Works, Begins
  <2>2. u \in Msgs /\ u.turn = k
    BY <2>1, MsgIs
  <2>3. ~ Begun(k)
    BY <2>1 DEF Begun, AskedOnce
  <2>4. BegunNext(k)
    BY <1>1, WorksIs DEF BegunNext
  <2>5. \A i \in DOMAIN s : Begun(s[i].turn)
    BY <2>1 DEF SavedOnce, BegunOnly
  <2> HIDE DEF u, s
  <2>6. \A i \in DOMAIN s : s[i] # u
    BY <2>2, <2>3, <2>5
  <2>7. s \in Seq(Msgs) /\ OnlyNext(s)
    BY <1>0, <2>1 DEF s
  <2> QED  BY <2>2, <2>4, <2>6, <2>7, OnlyParts DEF s, u
<1>2. ASSUME NEW t \in Threads PROVE OnlyNext(saved'[t])
  <2>1. CASE saved'[t] = saved[t] \/ saved'[t] = <<>>
    BY <1>0, <2>1, OnlyParts
  <2>2. ASSUME NEW k \in Turns, Works(k), Used(k), ThreadOf(k) = t PROVE OnlyNext(saved'[t])
    <3>1. CASE PruneReads(k) \/ saved' = saved
      BY <1>0, <2>2, <3>1, WorksSaved
    <3>2. CASE PruneWrites(k)
      <4>1. PICK R \in SUBSET (1 .. Len(saved[t])) : saved' = saved \/ saved'[t] = At(saved[t], R)
        <5>1. {i \in DOMAIN saved[t] : saved[t][i] \notin run[k].doomed} \in SUBSET (1 .. Len(saved[t]))
          BY <1>0, UserPlacesOK
        <5> QED  BY <2>2, <3>2, <5>1, WorksSaved
      <4> QED  BY <1>0, <4>1, OnlyParts
    <3>3. CASE Begins(k)
      BY <1>1, <2>2, <3>3, WorksSaved
    <3>4. CASE Ends(k)
      <4>1. saved' = saved \/ saved'[t] = Append(run[k].held, Msg("assistant", k, turn[k].prompt))
        BY <2>2, <3>4, WorksSaved
      <4>2. turn[k].prompt \in Turns
        BY <2>2, WorksSaved
      <4>3. BegunNext(k)
        BY <3>4, WorksIs DEF BegunNext
      <4> DEFINE a == Msg("assistant", k, turn[k].prompt)
      <4>4. a \in Msgs /\ a.role # "user" /\ a.turn = k
        BY <4>2, MsgIs
      <4> HIDE DEF a
      <4>5. OnlyNext(Append(run[k].held, a))
        BY <1>0, <4>3, <4>4, OnlyParts
      <4> QED  BY <1>0, <4>1, <4>5 DEF a
    <3> QED  BY <2>2, <3>1, <3>2, <3>3, <3>4 DEF Works
  <2> QED  BY <2>1, <2>2, SavedSteps
<1>3. ASSUME NEW j \in Turns PROVE OnlyNext(run'[j].held)
  <2>1. CASE run'[j].held = run[j].held
    BY <1>0, <2>1
  <2>2. CASE (\E k \in Turns : Sends(k)) \/ LeavesPage \/ Closes \/ LoadSteps \/ DeleteSteps
             \/ RecordSession \/ UNCHANGED vars
    BY <2>1, <2>2, ServerAlone, DeletesAre, RecordIs
  <2>3. CASE PostArrives
    BY <2>1, <2>3, PostIs
  <2>4. ASSUME NEW k \in Turns, Works(k) PROVE OnlyNext(run'[j].held)
    <3>1. CASE j # k \/ PruneReads(k) \/ PruneWrites(k)
      BY <2>1, <2>4, <3>1, WorksIs
    <3>2. CASE j = k /\ Begins(k)
      BY <1>1, <3>2, WorksIs
    <3>3. CASE j = k /\ Ends(k)
      BY <3>3, WorksIs, OnlyParts
    <3> QED  BY <2>4, <3>1, <3>2, <3>3 DEF Works
  <2> QED  BY <2>2, <2>3, <2>4, StepIs DEF RunSteps
<1> QED  BY <1>2, <1>3 DEF SavedOnce, BegunOnly, OnlyNext, Begun, BegunNext, OneEach, UserPlaces, Turns

-----------------------------------------------------------------------------
(* Turns at rest, and deletions *)

\* A thread that was disturbed stays so.
LEMMA DisturbedGrows ==
  ASSUME RunInv, TypesOK, [Next]_vars
  PROVE  disturbed \subseteq disturbed'
<1>1. ASSUME NEW k \in Turns, Sends(k) PROVE disturbed \subseteq disturbed'
  <2>1. PICK p \in Turns, r \in Nat : RunTurn(k, p, r)
    BY <1>1, SendsRun DEF Sends
  <2> QED  BY <2>1 DEF RunTurn, Disturb
<1>2. CASE LeavesPage
  BY <1>2, Leaves DEF LeavesPage, Left
<1>3. CASE Closes
  BY <1>3 DEF Closes, RunIdArrives, PostFails, StreamCloses, Disturb, ghosts
<1>4. CASE LoadSteps
  BY <1>4 DEF LoadSteps, LoadedArrives, LoadFails, LoadArrives, Disturb, ghosts
<1>5. CASE PostArrives \/ RecordSession
  BY <1>5 DEF PostArrives, RecordSession, ghosts
<1>6. CASE \E k \in Turns : Works(k)
  BY <1>6, WorksAlone
<1>7. CASE DeleteSteps
  BY <1>7, DeletesAre
<1>8. CASE UNCHANGED vars
  BY <1>8 DEF vars, ghosts
<1> QED  BY <1>1, <1>2, <1>3, <1>4, <1>5, <1>6, <1>7, <1>8, StepIs DEF RunSteps

\* What is at rest is not taken up again.
LEMMA RestedStays ==
  ASSUME RunInv, TypesOK, TurnsUsed, [Next]_vars, NEW k \in Turns, Used(k), Rested(k)
  PROVE  Rested(k)'
<1>0. Post(k) \notin net /\ Record(k) \notin net /\ Created(k) \notin net /\ run[k].at \in {"none", "over"}
  BY DEF Rested, Asked
<1>1. SUFFICES /\ Post(k) \notin net' /\ Record(k) \notin net' /\ Created(k) \notin net'
               /\ run'[k].at \in {"none", "over"}
  BY DEF Rested, Asked, Post, Record, Created
<1>2. CASE LeavesPage \/ LoadSteps \/ DeleteSteps \/ UNCHANGED vars
  <2>1. run' = run
    BY <1>2, ServerAlone, DeletesAre
  <2> QED  BY <1>0, <1>2, <2>1, AskedSame
<1>3. ASSUME NEW j \in Turns, Sends(j)
      PROVE  /\ Post(k) \notin net' /\ Record(k) \notin net' /\ Created(k) \notin net'
             /\ run'[k].at \in {"none", "over"}
  <2>1. j # k
    BY <1>3, SendsRun, BeginsTurn DEF Sends
  <2>2. net' = net \cup {Post(j)} /\ run' = run
    BY <1>3, NetSteps, ServerAlone
  <2> QED  BY <1>0, <2>1, <2>2, Kinds
<1>4. CASE Closes
  BY <1>0, <1>4, NetSteps, ServerAlone
<1>5. CASE PostArrives
  <2>1. PICK j \in Turns :
           /\ Post(j) \in net /\ net' = (net \ {Post(j)}) \cup {Record(j)}
           /\ \A i \in Turns : i # j => run'[i] = run[i]
    BY <1>5, PostIs
  <2>2. j # k
    BY <1>0, <2>1
  <2> QED  BY <1>0, <2>1, <2>2, Kinds
<1>6. CASE RecordSession
  <2>1. PICK j \in Turns :
           /\ Record(j) \in net /\ net' = (net \ {Record(j)}) \cup {Created(j)} /\ run' = run
    BY <1>6, RecordIs
  <2>2. j # k
    BY <1>0, <2>1
  <2> QED  BY <1>0, <2>1, <2>2, Kinds
<1>7. ASSUME NEW j \in Turns, Works(j)
      PROVE  /\ Post(k) \notin net' /\ Record(k) \notin net' /\ Created(k) \notin net'
             /\ run'[k].at \in {"none", "over"}
  <2>1. run[j].at \notin {"none", "over"}
    BY <1>7 DEF Works, PruneReads, PruneWrites, Begins, Ends
  <2>2. run'[k] = run[k] /\ net' = net
    BY <1>0, <1>7, <2>1, WorksIs, WorksAlone
  <2> QED  BY <1>0, <2>2
<1> QED  BY <1>2, <1>3, <1>4, <1>5, <1>6, <1>7, StepIs DEF RunSteps

\* In an undisturbed thread, a turn that has ended is at rest on the server.
LEMMA RestStay ==
  ASSUME RunInv, TypesOK, TurnsUsed, AskedOnce, TurnsRest, [Next]_vars
  PROVE  TurnsRest'
<1>1. ASSUME NEW k \in Turns, Used(k)', turn'[k].settled, turn'[k].thread \notin disturbed'
      PROVE  Rested(k)'
  <2>1. ~ Sends(k)
    <3>1. ASSUME Sends(k) PROVE turn'[k].settled = FALSE
      <4>1. PICK p \in Turns, r \in Nat : RunTurn(k, p, r)
        BY <3>1, SendsRun DEF Sends
      <4>2. turn'[k] = [thread |-> thread, prompt |-> p, replace |-> r, known |-> FALSE, settled |-> FALSE]
        BY <4>1, BeginsTurn
      <4> QED  BY <4>2
    <3> QED  BY <1>1, <3>1
  <2>2. Used(k) /\ Same(k)
    BY <1>1, <2>1, UsedNext
  <2>3. ThreadOf(k) \notin disturbed' /\ ThreadOf(k) \notin disturbed
    BY <1>1, <2>2, DisturbedGrows DEF Same, ThreadOf
  <2>4. CASE turn[k].settled
    <3>1. Rested(k)
      BY <2>2, <2>3, <2>4 DEF TurnsRest
    <3> QED  BY <2>2, <3>1, RestedStays
  <2>5. CASE ~ turn[k].settled
    <3>1. k = active /\ active # NoTurn /\ CutOff = {ThreadOf(k)}
      BY <2>5, ActiveUsed, ZeroIsNoTurn DEF RunInv, OnlyOne, ThreadOf
    <3>2. ASSUME NEW j \in Turns, Sends(j) PROVE FALSE
      <4>1. PICK p \in Turns, r \in Nat : RunTurn(j, p, r)
        BY <3>2, SendsRun DEF Sends
      <4>2. CutOff \subseteq disturbed'
        BY <4>1 DEF RunTurn, Disturb
      <4> QED  BY <2>3, <3>1, <4>2
    <3>3. CASE LeavesPage
      BY <2>3, <3>1, <3>3, Leaves DEF LeavesPage, Left
    <3>4. CASE LoadSteps \/ RunSteps \/ DeleteSteps \/ UNCHANGED vars
      BY <1>1, <2>5, <3>4, TurnsAlone
    <3>5. CASE Closes
      <4>1. ASSUME NEW j \in Turns, turn' = [turn EXCEPT ![j].known = TRUE] PROVE FALSE
        <5>1. turn'[k].settled = turn[k].settled
          BY <4>1, Learns
        <5> QED  BY <1>1, <2>5, <5>1
      <4>2. ASSUME NEW j \in Turns, Finish(j),
                   \/ turn[j].settled \/ disturbed' = disturbed \cup {turn[j].thread}
                   \/ (turn[j].known /\ run[j].at = "over")
            PROVE  Rested(k)'
        <5>1. \A i \in Turns : i # j => turn'[i] = turn[i]
          BY <4>2, Finishes
        <5>2. j = k
          BY <1>1, <2>5, <5>1
        <5>3. turn[k].known /\ run[k].at = "over"
          BY <2>3, <2>5, <4>2, <5>2 DEF ThreadOf
        <5>4. Rested(k)
          BY <5>3 DEF AskedOnce, Rested
        <5> QED  BY <2>2, <5>4, RestedStays
      <4> QED  BY <3>5, <4>1, <4>2, CloseIs
    <3> QED  BY <3>2, <3>3, <3>4, <3>5, StepIs
  <2> QED  BY <2>4, <2>5
<1> QED  BY <1>1 DEF TurnsRest, Used, ThreadOf, Rested, Asked, Post, Record, Created, Turns

\* A thread becomes deleted by the user's request for it, none of its turns under way.
LEMMA DeletedSteps ==
  ASSUME RunInv, TypesOK, TurnsUsed, [Next]_vars, NEW t, t \in deleted', t \notin deleted
  PROVE  /\ Delete(t) \in net'
         /\ \A k \in Turns : Used(k)' /\ turn'[k].thread = t => turn'[k].settled
<1>1. ASSUME NEW k \in Turns, Sends(k) PROVE FALSE
  BY <1>1, SendsThread
<1>2. CASE Closes \/ RunSteps \/ LoadSteps \/ UNCHANGED vars
  BY <1>2, OthersThread
<1>3. CASE LeavesPage
  <2>1. ASSUME NEW u \in Threads, NewChat(u) \/ SelectThread(u) PROVE FALSE
    BY <2>1 DEF NewChat, SelectThread
  <2>2. ~ Stop /\ ~ Remount
    BY DEF Stop, Remount
  <2>3. PICK u \in Threads : DeleteOpen(u)
    BY <1>3, <2>1, <2>2 DEF LeavesPage
  <2>4. deleted' = deleted \cup {thread} /\ net' = net \cup {Delete(thread)}
    BY <2>3 DEF DeleteOpen, Open, LoadThread
  <2> QED  BY <1>3, <2>4, Leaves DEF LeavesPage, Left
<1>4. CASE DeleteSteps
  <2>1. t \in Threads /\ t # thread /\ Delete(t) \in net'
    BY <1>4, DeletesAre
  <2>2. turn' = turn
    BY <1>4, TurnsAlone
  <2>3. ASSUME NEW k \in Turns, Used(k)', turn'[k].thread = t, ~ turn'[k].settled PROVE FALSE
    <3>1. k = active /\ active # NoTurn
      BY <2>2, <2>3, ZeroIsNoTurn DEF RunInv, OnlyOne
    <3> QED  BY <2>1, <2>2, <2>3, <3>1, ActiveUsed
  <2> QED  BY <2>1, <2>3
<1> QED  BY <1>1, <1>2, <1>3, <1>4, StepIs

\* The requests to delete: who asks for it, and what becomes of it.
LEMMA DeleteAsked ==
  ASSUME RunInv, TypesOK, [Next]_vars, NEW t \in Threads
  PROVE  /\ Delete(t) \in net' \/ Drop(t) \in net' =>
              Delete(t) \in net \/ Drop(t) \in net \/ t \in deleted'
         /\ Delete(t) \in net /\ Delete(t) \notin net' => Drop(t) \in net' /\ t \notin row'
         /\ Drop(t) \in net /\ Drop(t) \notin net' => saved'[t] = <<>>
<1>1. \A K : Touches(K) /\ K \cap {"delete", "drop"} = {} =>
                /\ Delete(t) \in net' <=> Delete(t) \in net
                /\ Drop(t) \in net' <=> Drop(t) \in net
  BY Kinds DEF Touches
<1>2. CASE (\E k \in Turns : Sends(k)) \/ Closes \/ LoadSteps \/ RunSteps \/ UNCHANGED vars
  <2>1. \E K : Touches(K) /\ K \cap {"delete", "drop"} = {}
    BY <1>2, NetSteps DEF RunSteps
  <2> QED  BY <1>1, <2>1
<1>3. CASE LeavesPage
  <2>1. \A r : r.kind \notin {"load", "delete"} => (r \in net' <=> r \in net)
    BY <1>3, NetSteps DEF Touches
  <2>2. Drop(t) \in net' <=> Drop(t) \in net
    BY <2>1, Kinds
  <2>3. net \subseteq net' /\ (Delete(t) \in net' => Delete(t) \in net \/ t \in deleted')
    <3>1. CASE Stop
      BY <3>1 DEF Stop
    <3>2. CASE Remount
      BY <3>2, Kinds DEF Remount, LoadThread
    <3>3. ASSUME NEW u \in Threads, SelectThread(u)
          PROVE  net \subseteq net' /\ (Delete(t) \in net' => Delete(t) \in net \/ t \in deleted')
      BY <3>3, Kinds DEF SelectThread, LoadThread
    <3>4. ASSUME NEW u \in Threads, NewChat(u)
          PROVE  net \subseteq net' /\ (Delete(t) \in net' => Delete(t) \in net \/ t \in deleted')
      BY <3>4, Kinds DEF NewChat, Open, LoadThread
    <3>5. ASSUME NEW u \in Threads, DeleteOpen(u)
          PROVE  net \subseteq net' /\ (Delete(t) \in net' => Delete(t) \in net \/ t \in deleted')
      BY <3>5, Kinds DEF DeleteOpen, Open, LoadThread
    <3> QED  BY <1>3, <3>1, <3>2, <3>3, <3>4, <3>5 DEF LeavesPage
  <2> QED  BY <2>2, <2>3
<1>4. CASE DeleteSteps
  <2>1. PICK u \in Threads :
              \/ /\ u \in row /\ u # thread /\ net' = net \cup {Delete(u)}
                 /\ deleted' = deleted \cup {u} /\ row' = row /\ saved' = saved
              \/ /\ Delete(u) \in net /\ net' = (net \ {Delete(u)}) \cup {Drop(u)}
                 /\ row' = row \ {u} /\ saved' = saved /\ deleted' = deleted
              \/ /\ Drop(u) \in net /\ net' = net \ {Drop(u)}
                 /\ saved' = [saved EXCEPT ![u] = <<>>] /\ row' = row /\ deleted' = deleted
    BY <1>4, DeletesAre
  <2>2. CASE u \in row /\ u # thread /\ net' = net \cup {Delete(u)} /\ deleted' = deleted \cup {u}
    BY <2>2, Kinds
  <2>3. CASE Delete(u) \in net /\ net' = (net \ {Delete(u)}) \cup {Drop(u)} /\ row' = row \ {u}
    BY <2>3, Kinds
  <2>4. CASE Drop(u) \in net /\ net' = net \ {Drop(u)} /\ saved' = [saved EXCEPT ![u] = <<>>]
    BY <2>4, Kinds DEF TypesOK
  <2> QED  BY <2>1, <2>2, <2>3, <2>4
<1> QED  BY <1>2, <1>3, <1>4, StepIs

\* A row is written for a turn whose request was under way.
LEMMA RowSteps ==
  ASSUME RunInv, TypesOK, TurnsUsed, [Next]_vars, NEW t, t \in row', t \notin row
  PROVE  \E k \in Turns : Used(k) /\ ThreadOf(k) = t /\ Record(k) \in net /\ RecordSession
                         /\ ~ Rested(k)
<1>1. CASE (\E k \in Turns : Sends(k)) \/ LeavesPage \/ Closes \/ LoadSteps \/ UNCHANGED vars
  BY <1>1, ServerAlone
<1>2. CASE PostArrives \/ \E k \in Turns : Works(k)
  BY <1>2, PostIs, WorksAlone
<1>3. CASE DeleteSteps
  BY <1>3, DeletesAre
<1>4. CASE RecordSession
  BY <1>4, RecordIs DEF Rested, Asked
<1> QED  BY <1>1, <1>2, <1>3, <1>4, StepIs DEF RunSteps

\* A deleted thread loses its row and its messages, and nothing brings them back.
LEMMA DeletedStay ==
  ASSUME RunInv, TypesOK, TurnsUsed, TurnsRest, ThreadsOK, DeletedOK, [Next]_vars
  PROVE  DeletedOK'
<1>1. ASSUME NEW t \in Threads, Delete(t) \in net' \/ Drop(t) \in net'
      PROVE  t \in deleted' \cup disturbed'
  <2>1. t \in deleted \cup disturbed \/ t \in deleted'
    BY <1>1, DeleteAsked DEF DeletedOK
  <2>2. ASSUME NEW k \in Turns, Sends(k) PROVE deleted \ deleted' \subseteq disturbed'
    <3>1. PICK p \in Turns, r \in Nat : RunTurn(k, p, r)
      BY <2>2, SendsRun DEF Sends
    <3> QED  BY <3>1 DEF RunTurn, Disturb
  <2>3. CASE LeavesPage
    BY <2>1, <2>3, OpensThread, DisturbedGrows
  <2>4. CASE Closes \/ RunSteps \/ LoadSteps \/ UNCHANGED vars
    BY <2>1, <2>4, OthersThread, DisturbedGrows
  <2>5. CASE DeleteSteps
    BY <2>1, <2>5, DeletesAre, DisturbedGrows
  <2> QED  BY <2>1, <2>2, <2>3, <2>4, <2>5, StepIs, DisturbedGrows
<1>2. ASSUME NEW t \in deleted' \ disturbed'
      PROVE  /\ \A k \in Turns : Used(k)' /\ turn'[k].thread = t => turn'[k].settled
             /\ Delete(t) \notin net' => t \notin row'
             /\ Delete(t) \notin net' /\ Drop(t) \notin net' => saved'[t] = <<>>
  <2>1. CASE t \notin deleted
    BY <1>2, <2>1, DeletedSteps
  <2>2. CASE t \in deleted
    <3>0. t \in deleted \ disturbed
      BY <1>2, <2>2, DisturbedGrows
    <3>1. /\ \A k \in Turns : Used(k) /\ ThreadOf(k) = t => turn[k].settled /\ Rested(k)
          /\ Delete(t) \notin net => t \notin row
          /\ Delete(t) \notin net /\ Drop(t) \notin net => saved[t] = <<>>
      BY <3>0 DEF DeletedOK, TurnsRest
    <3>2. ASSUME NEW k \in Turns, Used(k)', turn'[k].thread = t PROVE turn'[k].settled
      <4>1. CASE Used(k) /\ Same(k)
        BY <3>1, <3>2, <4>1 DEF Same, ThreadOf
      <4>2. CASE Sends(k) /\ turn'[k].thread = thread
        BY <1>2, <3>2, <4>2, SendsThread
      <4> QED  BY <3>2, <4>1, <4>2, UsedNext
    <3>3. t \in Threads
      BY <2>2 DEF ThreadsOK, TypesOK
    <3>4. ASSUME Delete(t) \notin net' PROVE t \notin row'
      <4>1. CASE Delete(t) \in net
        BY <3>3, <3>4, <4>1, DeleteAsked
      <4>2. CASE Delete(t) \notin net
        <5>1. t \notin row
          BY <3>1, <4>2
        <5> QED  BY <3>1, <5>1, RowSteps
      <4> QED  BY <4>1, <4>2
    <3>5. ASSUME Delete(t) \notin net', Drop(t) \notin net' PROVE saved'[t] = <<>>
      <4>1. Delete(t) \notin net
        BY <3>3, <3>5, DeleteAsked
      <4>2. CASE Drop(t) \in net
        BY <3>3, <3>5, <4>2, DeleteAsked
      <4>3. CASE Drop(t) \notin net
        <5>1. saved[t] = <<>>
          BY <3>1, <4>1, <4>3
        <5>2. ASSUME NEW k \in Turns, Works(k), Used(k), ThreadOf(k) = t PROVE FALSE
          BY <3>1, <5>2 DEF Rested, Works, PruneReads, PruneWrites, Begins, Ends
        <5> QED  BY <3>3, <5>1, <5>2, SavedSteps
      <4> QED  BY <4>2, <4>3
    <3> QED  BY <3>2, <3>4, <3>5
  <2> QED  BY <2>1, <2>2
<1> QED  BY <1>1, <1>2 DEF DeletedOK, Used, ThreadOf, Delete, Drop, Turns

-----------------------------------------------------------------------------
(* Rows *)

\* A thread that is intact after a step was so before.
LEMMA IntactBack ==
  ASSUME RunInv, TypesOK, TurnsUsed, [Next]_vars, NEW t,
         t \notin disturbed', t \notin deleted'
  PROVE  Intact(t)
<1>0. t \notin disturbed' /\ t \notin deleted' /\ t \notin disturbed
  BY DisturbedGrows
<1>1. SUFFICES ASSUME t \in deleted PROVE FALSE
  BY <1>0 DEF Intact
<1>2. ASSUME NEW k \in Turns, Sends(k) PROVE FALSE
  <2>1. PICK p \in Turns, r \in Nat : RunTurn(k, p, r)
    BY <1>2, SendsRun DEF Sends
  <2> QED  BY <1>0, <1>1, <2>1 DEF RunTurn, Disturb
<1>3. CASE LeavesPage
  BY <1>0, <1>1, <1>3, OpensThread
<1>4. CASE Closes \/ RunSteps \/ LoadSteps \/ UNCHANGED vars
  BY <1>0, <1>1, <1>4, OthersThread
<1>5. CASE DeleteSteps
  BY <1>0, <1>1, <1>5, DeletesAre
<1> QED  BY <1>2, <1>3, <1>4, <1>5, StepIs

\* An intact thread keeps its row.
LEMMA RowKept ==
  ASSUME RunInv, TypesOK, TurnsUsed, DeletedOK, [Next]_vars, NEW t, Intact(t), t \in row
  PROVE  t \in row'
<1>1. CASE (\E k \in Turns : Sends(k)) \/ LeavesPage \/ Closes \/ LoadSteps \/ UNCHANGED vars
  BY <1>1, ServerAlone
<1>2. CASE PostArrives \/ RecordSession \/ \E k \in Turns : Works(k)
  BY <1>2, PostIs, RecordIs, WorksAlone
<1>3. CASE DeleteSteps
  BY <1>3, DeletesAre DEF DeletedOK, Intact
<1> QED  BY <1>1, <1>2, <1>3, StepIs DEF RunSteps

\* In a thread that stays intact, the active turn goes on, or closes after its run.
LEMMA ActiveStep ==
  ASSUME RunInv, TypesOK, TurnsUsed, [Next]_vars, active # NoTurn, thread \notin disturbed'
  PROVE  /\ ~ \E k \in Turns : Sends(k)
         /\ ~ LeavesPage /\ thread' = thread
         /\ \/ active' = active
            \/ /\ active' = NoTurn /\ turn[active].known /\ run[active].at = "over"
               /\ Closes /\ Finish(active)
<1>0. active \in Turns /\ ~ turn[active].settled /\ CutOff = {thread} /\ turn[active].thread = thread
  BY ActiveUsed
<1>1. ASSUME NEW k \in Turns, Sends(k) PROVE FALSE
  <2>1. PICK p \in Turns, r \in Nat : RunTurn(k, p, r)
    BY <1>1, SendsRun DEF Sends
  <2> QED  BY <1>0, <2>1 DEF RunTurn, Disturb
<1>2. ASSUME LeavesPage PROVE FALSE
  BY <1>0, <1>2, Leaves DEF LeavesPage, Left
<1>3. CASE LoadSteps \/ RunSteps \/ DeleteSteps \/ UNCHANGED vars
  BY <1>1, <1>2, <1>3, TurnsAlone
<1>4. CASE Closes
  <2>0. thread' = thread
    BY <1>4, OthersThread
  <2>1. CASE active' = active
    BY <1>1, <1>2, <2>0, <2>1
  <2>2. ASSUME NEW k \in Turns, Finish(k),
               \/ turn[k].settled \/ disturbed' = disturbed \cup {turn[k].thread}
               \/ (turn[k].known /\ run[k].at = "over")
        PROVE  \/ active' = active
               \/ active' = NoTurn /\ turn[active].known /\ run[active].at = "over" /\ Finish(active)
    <3>1. active' = IF active = k THEN NoTurn ELSE active
      BY <2>2, Finishes
    <3>2. CASE k # active
      BY <3>1, <3>2
    <3>3. CASE k = active
      <4>1. turn[active].known /\ run[active].at = "over"
        BY <1>0, <2>2, <3>3
      <4>2. Finish(active) /\ active' = NoTurn
        BY <2>2, <3>1, <3>3
      <4> QED  BY <4>1, <4>2
    <3> QED  BY <3>2, <3>3
  <2> QED  BY <1>1, <1>2, <1>4, <2>0, <2>2, CloseIs
<1> QED  BY <1>1, <1>2, <1>3, <1>4, StepIs

\* A thread with messages has a row, unless its turn is still recorded.
LEMMA RowsStay ==
  ASSUME RunInv, TypesOK, TurnsUsed, AskedOnce, TurnsRest, DeletedOK, RowsOK, [Next]_vars
  PROVE  RowsOK'
<1>1. ASSUME NEW t \in Threads, Intact(t)', saved'[t] # <<>>
      PROVE  t \in row' \/ (active' # NoTurn /\ thread' = t)
  <2>0. Intact(t) /\ t \notin disturbed'
    BY <1>1, IntactBack DEF Intact
  <2>1. CASE t \in row
    BY <2>0, <2>1, RowKept
  <2>2. CASE active # NoTurn /\ thread = t
    <3>1. CASE active' = active
      BY <2>0, <2>2, <3>1, ActiveStep
    <3>2. CASE turn[active].known
      <4>1. thread \in row
        BY <2>0, <2>2, <3>2 DEF RowsOK
      <4> QED  BY <2>1, <2>2, <4>1
    <3> QED  BY <2>0, <2>2, <3>1, <3>2, ActiveStep
  <2>3. CASE saved[t] = <<>>
    <3>1. PICK k \in Turns : Works(k) /\ Used(k) /\ ThreadOf(k) = t
      BY <1>1, <2>3, SavedSteps
    <3>2. ~ Rested(k)
      BY <3>1 DEF Rested, Works, PruneReads, PruneWrites, Begins, Ends
    <3>3. ~ turn[k].settled
      BY <2>0, <3>1, <3>2 DEF TurnsRest, Intact
    <3>4. k = active /\ active # NoTurn
      BY <3>3, ZeroIsNoTurn DEF RunInv, OnlyOne
    <3> QED  BY <2>2, <3>1, <3>4, ActiveUsed DEF ThreadOf
  <2> QED  BY <2>0, <2>1, <2>2, <2>3 DEF RowsOK
<1>2. ASSUME active' # NoTurn, Intact(thread'), turn'[active'].known \/ Created(active') \in net',
             thread' \notin disturbed', thread' \notin deleted'
      PROVE  thread' \in row'
  <2>1. ASSUME active' = active, thread' = thread, turn[active].known \/ Created(active) \in net
        PROVE  thread' \in row'
    <3>1. thread \in row
      BY <1>2, <2>1 DEF RowsOK
    <3> QED  BY <1>2, <2>1, <3>1, RowKept
  <2>2. ASSUME NEW k \in Turns, Sends(k) PROVE FALSE
    <3>1. PICK p \in Turns, r \in Nat : RunTurn(k, p, r)
      BY <2>2, SendsRun DEF Sends
    <3>2. /\ ~ Used(k)
          /\ turn'[k] = [thread |-> thread, prompt |-> p, replace |-> r,
                         known |-> FALSE, settled |-> FALSE]
      BY <3>1, BeginsTurn
    <3>3. active' = k /\ net' = net \cup {Post(k)} /\ Created(k) \notin net
      BY <3>1, <3>2 DEF RunTurn, TurnsUsed
    <3>4. turn'[k].known = FALSE /\ Created(k) \notin net'
      BY <3>2, <3>3, Kinds
    <3> QED  BY <1>2, <3>3, <3>4
  <2>3. CASE LeavesPage
    BY <1>2, <2>3, Leaves DEF LeavesPage, Left
  <2>4. CASE LoadSteps \/ DeleteSteps \/ (\E k \in Turns : Works(k)) \/ UNCHANGED vars
    <3>1. active' = active /\ thread' = thread /\ turn' = turn
      BY <2>4, TurnsAlone DEF RunSteps
    <3>2. Created(active) \in net' <=> Created(active) \in net
      BY <2>4, AskedSame
    <3> QED  BY <1>2, <2>1, <3>1, <3>2
  <2>5. CASE PostArrives
    <3>1. active' = active /\ thread' = thread /\ turn' = turn
      BY <2>5, TurnsAlone DEF RunSteps
    <3>2. PICK k \in Turns : net' = (net \ {Post(k)}) \cup {Record(k)}
      BY <2>5, PostIs
    <3>3. Created(active) \in net' => Created(active) \in net
      BY <3>2, Kinds
    <3> QED  BY <1>2, <2>1, <3>1, <3>3
  <2>6. CASE RecordSession
    <3>1. active' = active /\ thread' = thread /\ turn' = turn
      BY <2>6, TurnsAlone DEF RunSteps
    <3>2. PICK k \in Turns : net' = (net \ {Record(k)}) \cup {Created(k)} /\ row' = row \cup {ThreadOf(k)}
      BY <2>6, RecordIs
    <3>3. CASE k = active
      BY <1>2, <3>1, <3>2, <3>3, ActiveUsed DEF ThreadOf
    <3>4. CASE k # active
      <4>1. Created(active) \in net' => Created(active) \in net
        BY <3>2, <3>4, Kinds
      <4> QED  BY <1>2, <2>1, <3>1, <4>1
    <3> QED  BY <3>3, <3>4
  <2>7. CASE Closes
    <3>0. thread' = thread /\ net' \subseteq net
      BY <2>7, OthersThread, NetSteps
    <3>1. ASSUME NEW k \in Turns, Finish(k) PROVE thread' \in row'
      <4>1. /\ \A j \in Turns : Kept(j)
            /\ active' = IF active = k THEN NoTurn ELSE active
        BY <3>1, Finishes
      <4>2. active' = active
        BY <1>2, <4>1
      <4>3. active \in Turns
        BY <1>2, <4>2, ActiveIsTurn
      <4> QED  BY <1>2, <2>1, <3>0, <4>1, <4>2, <4>3 DEF Kept
    <3>2. ASSUME NEW k \in Turns, Created(k) \in net, turn' = [turn EXCEPT ![k].known = TRUE], active' = active
          PROVE  thread' \in row'
      <4>1. \A j \in Turns : j # k => turn'[j] = turn[j]
        BY <3>2, Learns
      <4>2. active \in Turns
        BY <1>2, <3>2, ActiveIsTurn
      <4> QED  BY <1>2, <2>1, <3>0, <3>2, <4>1, <4>2
    <3> QED  BY <2>7, <3>1, <3>2, CloseIs
  <2> QED  BY <2>2, <2>3, <2>4, <2>5, <2>6, <2>7, StepIs DEF RunSteps
<1>3. Intact(thread)' => Intact(thread') /\ thread' \notin disturbed' /\ thread' \notin deleted'
  <2>1. Intact(thread)' => thread' \notin disturbed' /\ thread' \notin deleted'
    BY DEF Intact
  <2> QED  BY <2>1, IntactBack
<1> QED  BY <1>1, <1>2, <1>3 DEF RowsOK, Created

-----------------------------------------------------------------------------
(* Prompts of the page and of the checkpoint *)

\* What is cut from the end of the prompts.
LEMMA CutFacts ==
  ASSUME NEW p \in Seq(Turns)
  PROVE  /\ Cut(p, 0) = p
         /\ \A n \in 0 .. Len(p) : Cut(p, Len(p) - n) = SubSeq(p, 1, n)
         /\ \A n \in Nat : n = Len(p) /\ n > 0 => Append(Cut(p, 1), p[n]) = p
<1>1. Len(p) \in Nat /\ \A i \in 1 .. Len(p) : p[i] \in Turns
  BY LenProperties, ElementOfSeq
<1>2. SubSeq(p, 1, Len(p)) = p
  BY <1>1, SubSeqProperties
<1>3. Cut(p, 0) = p
  <2>1. 0 <= Len(p) /\ Len(p) - 0 = Len(p)
    BY <1>1
  <2> QED  BY <1>2, <2>1 DEF Cut
<1>4. ASSUME NEW n \in 0 .. Len(p) PROVE Cut(p, Len(p) - n) = SubSeq(p, 1, n)
  <2>1. Len(p) - n <= Len(p) /\ Len(p) - (Len(p) - n) = n
    BY <1>1
  <2> QED  BY <2>1 DEF Cut
<1>5. ASSUME NEW n \in Nat, n = Len(p), n > 0 PROVE Append(Cut(p, 1), p[n]) = p
  <2>1. 1 <= Len(p) /\ n - 1 \in Nat /\ n - 1 <= Len(p) /\ (n - 1) + 1 = n
    BY <1>5
  <2>2. Cut(p, 1) = SubSeq(p, 1, n - 1)
    BY <1>5, <2>1 DEF Cut
  <2>3. p[n] \in Turns
    BY <1>1, <1>5, <2>1
  <2> DEFINE q == SubSeq(p, 1, n - 1)
  <2>4. q \in Seq(Turns) /\ Len(q) = n - 1 /\ \A i \in 1 .. n - 1 : q[i] = p[i]
    <3>1. \A i \in 1 .. n - 1 : p[i] \in Turns
      BY <1>1, <1>5, <2>1
    <3> QED  BY <2>1, <3>1, SubSeqProperties
  <2> HIDE DEF q
  <2> DEFINE r == Append(q, p[n])
  <2>5. r \in Seq(Turns) /\ Len(r) = n /\ r[n] = p[n] /\ \A i \in 1 .. n - 1 : r[i] = p[i]
    BY <2>1, <2>3, <2>4
  <2> HIDE DEF r
  <2>6. \A i \in 1 .. n : r[i] = p[i]
    <3>1. \A i \in 1 .. n : i \in 1 .. n - 1 \/ i = n
      BY <2>1
    <3> QED  BY <2>5, <3>1
  <2>7. r = p
    BY <1>5, <2>5, <2>6, SeqEqual
  <2> QED  BY <2>2, <2>7 DEF q, r
<1> QED  BY <1>3, <1>4, <1>5

\* The page's prompts after a turn begins: those it keeps, and its own.
LEMMA SendsPrompts ==
  ASSUME RunInv, TypesOK, TurnsUsed, NEW k \in Turns, Sends(k)
  PROVE  /\ turn'[k].replace \in Nat /\ turn'[k].prompt \in Turns
         /\ Prompts(page') = Append(Cut(Prompts(page), turn'[k].replace), turn'[k].prompt)
<1> DEFINE u == Msg("user", k, k)
<1>0. page \in Seq(Msgs) /\ u \in Msgs /\ u.role = "user" /\ u.prompt = k
  BY MsgIs DEF TypesOK
<1>1. /\ Prompts(page) \in Seq(Turns) /\ Len(Prompts(page)) = Users(page) /\ Users(page) \in Nat
      /\ \A i : Count(page, i) \in 0 .. Users(page)
  BY <1>0, PromptsOK, UserPlacesOK
<1>2. ASSUME NEW s \in Seq(Msgs)
      PROVE  Prompts(Append(Append(s, u), Msg("assistant", k, k))) = Append(Prompts(s), k)
  <2> DEFINE a == Msg("assistant", k, k)
  <2>1. a \in Msgs /\ a.role # "user"
    BY MsgIs
  <2> HIDE DEF a, u
  <2>2. Append(s, u) \in Seq(Msgs) /\ Prompts(Append(s, u)) = Append(Prompts(s), k)
    BY <1>0, PromptsOfAppend
  <2> QED  BY <2>1, <2>2, PromptsOfAppend DEF a
<1> HIDE DEF u
<1>3. ASSUME NEW p \in Turns, NEW r \in Nat, RunTurn(k, p, r)
      PROVE  turn'[k].replace = r /\ turn'[k].prompt = p
  <2>1. turn'[k] = [thread |-> thread, prompt |-> p, replace |-> r, known |-> FALSE, settled |-> FALSE]
    BY <1>3, BeginsTurn
  <2> QED  BY <2>1
<1>4. CASE Send(k)
  <2>1. RunTurn(k, k, 0) /\ page' = Append(Append(page, u), Msg("assistant", k, k))
    BY <1>4, PageOfTurn DEF Send, u
  <2>2. turn'[k].replace = 0 /\ turn'[k].prompt = k
    BY <1>3, <2>1
  <2> QED  BY <1>0, <1>1, <1>2, <2>1, <2>2, CutFacts
<1>5. CASE Edit(k)
  <2>1. PICK cut \in 0 .. Len(page) - 1 :
          /\ RunTurn(k, k, ReplaceTurns(page, cut))
          /\ page' = SubSeq(page, 1, cut) \o <<Msg("user", k, k), Msg("assistant", k, k)>>
    BY <1>5 DEF Edit
  <2>2. cut \in 0 .. Len(page)
    BY <1>0, LenProperties
  <2> DEFINE s == SubSeq(page, 1, cut)
             n == Count(page, cut)
  <2>3. s \in Seq(Msgs) /\ Prompts(s) = SubSeq(Prompts(page), 1, n)
    BY <1>0, <2>2, PromptsOfPrefix
  <2>4. ReplaceTurns(page, cut) = Users(page) - n
    BY <1>0, <2>2, UsersOfSuffix DEF ReplaceTurns
  <2>5. n \in 0 .. Len(Prompts(page)) /\ Users(page) - n \in Nat
    BY <1>1
  <2>6. page' = Append(Append(s, u), Msg("assistant", k, k))
    BY <2>1, <2>2, PageOfTurn DEF u
  <2> HIDE DEF s, n
  <2>7. Cut(Prompts(page), Users(page) - n) = SubSeq(Prompts(page), 1, n)
    BY <1>1, <2>5, CutFacts
  <2>8. turn'[k].replace = Users(page) - n /\ turn'[k].prompt = k
    BY <1>3, <2>1, <2>4, <2>5
  <2> QED  BY <1>2, <2>3, <2>5, <2>6, <2>7, <2>8
<1>6. CASE Reload(k)
  <2>1. PICK i \in DOMAIN page :
          /\ page[i].role = "user" /\ Users(SubSeq(page, i + 1, Len(page))) = 0
          /\ page' = Append(SubSeq(page, 1, i), Msg("assistant", k, page[i].prompt))
          /\ RunTurn(k, page[i].prompt, 1)
    BY <1>6 DEF Reload
  <2>2. i \in 0 .. Len(page) /\ i \in UserPlaces(page) /\ page[i].prompt \in Turns
    <3>1. page[i] \in Msgs /\ DOMAIN page = 1 .. Len(page) /\ Len(page) \in Nat
      BY <1>0, UserPlacesOK
    <3> QED  BY <2>1, <3>1 DEF UserPlaces, Msgs
  <2> DEFINE s == SubSeq(page, 1, i)
             n == Count(page, i)
             p == Prompts(page)
             a == Msg("assistant", k, page[i].prompt)
  <2>3. s \in Seq(Msgs) /\ Prompts(s) = SubSeq(p, 1, n)
    BY <1>0, <2>2, PromptsOfPrefix
  <2>4. n = Users(page) /\ n \in 1 .. Users(page)
    <3>1. 0 = Users(page) - n
      BY <1>0, <2>1, <2>2, UsersOfSuffix
    <3>2. n \in 1 .. Users(page)
      BY <1>0, <2>2, UserPlacesOK
    <3> QED  BY <1>1, <3>1, <3>2
  <2>5. p[n] = page[i].prompt
    BY <1>0, <2>2, PromptsOK
  <2>6. a \in Msgs /\ a.role # "user"
    BY <2>2, MsgIs
  <2>7. page' = Append(s, a)
    BY <2>1
  <2> HIDE DEF s, n, p, a
  <2>8. p \in Seq(Turns) /\ Len(p) = n /\ n \in Nat /\ n > 0
    BY <1>1, <2>4 DEF p
  <2>9. SubSeq(p, 1, n) = p
    <3>1. n \in 0 .. Len(p) /\ Len(p) - n = 0
      BY <2>8
    <3> QED  BY <2>8, <3>1, CutFacts
  <2>10. Prompts(page') = p
    BY <2>3, <2>6, <2>7, <2>9, PromptsOfAppend
  <2>11. Append(Cut(p, 1), p[n]) = p
    BY <2>8, CutFacts
  <2>12. turn'[k].replace = 1 /\ turn'[k].prompt = page[i].prompt
    BY <1>3, <2>1, <2>2
  <2> QED  BY <2>2, <2>5, <2>10, <2>11, <2>12 DEF p
<1> QED  BY <1>4, <1>5, <1>6 DEF Sends

\* The prune drops the messages from the doomed turns on, and nothing else.
LEMMA PrunedPrompts ==
  ASSUME NEW s \in Seq(Msgs), OneEach(s), NEW r \in Nat,
         NEW doomed, doomed = {s[i] : i \in Doomed(s, r)}
  PROVE  /\ doomed \subseteq ToSet(s)
         /\ Prompts(At(s, {i \in DOMAIN s : s[i] \notin doomed})) = Cut(Prompts(s), r)
<1> DEFINE K == IF r <= Users(s) THEN Users(s) - r ELSE 0
           R == {i \in DOMAIN s : s[i] \notin doomed}
<1>1. /\ Len(s) \in Nat /\ DOMAIN s = 1 .. Len(s) /\ Users(s) \in Nat
      /\ \A i : Count(s, i) \in 0 .. Users(s)
      /\ Prompts(s) \in Seq(Turns) /\ Len(Prompts(s)) = Users(s)
  BY UserPlacesOK, PromptsOK
<1>2. K \in 0 .. Users(s)
  BY <1>1
<1>3. Cut(Prompts(s), r) = SubSeq(Prompts(s), 1, K)
  BY <1>1 DEF Cut
<1>4. Doomed(s, r) = {i \in DOMAIN s : Users(SubSeq(s, 1, i)) > K}
  BY DEF Doomed
<1> HIDE DEF K
<1>5. Doomed(s, r) = {i \in DOMAIN s : Count(s, i) > K}
  <2>1. \A i \in DOMAIN s : i \in 0 .. Len(s)
    BY <1>1
  <2>2. \A i \in DOMAIN s : Users(SubSeq(s, 1, i)) = Count(s, i)
    BY <2>1, PromptsOfPrefix
  <2> QED  BY <1>4, <2>2
<1>6. doomed \subseteq ToSet(s)
  BY <1>5 DEF ToSet
<1>7. ASSUME NEW i \in UserPlaces(s) PROVE i \in R <=> Count(s, i) <= K
  <2>1. i \in DOMAIN s
    BY DEF UserPlaces
  <2>2. s[i] \in doomed <=> i \in Doomed(s, r)
    <3>1. ASSUME NEW j \in Doomed(s, r), s[i] = s[j] PROVE i = j
      <4>1. j \in UserPlaces(s)
        BY <1>5, <3>1 DEF UserPlaces
      <4> QED  BY <3>1, <4>1 DEF OneEach
    <3> QED  BY <3>1
  <2>3. Count(s, i) \in Int /\ K \in Int
    BY <1>1, <1>2
  <2> QED  BY <1>5, <2>1, <2>2, <2>3
<1>8. R \in SUBSET (1 .. Len(s))
  BY <1>1
<1> HIDE DEF R
<1>9. Prompts(At(s, R)) = SubSeq(Prompts(s), 1, K)
  BY <1>2, <1>7, <1>8, PromptsOfKept
<1> QED  BY <1>3, <1>6, <1>9 DEF R

\* The page and the thread, in an intact thread.
AgreeHere ==
  /\ loading =>
       /\ active = NoTurn
       /\ \A r \in InNet("loaded") : r.seq = loadSeq =>
            r.msgs = saved[thread] /\ (r.msgs # <<>> => thread \in row)
  /\ ~ loading /\ active = NoTurn =>
       Prompts(page) = Prompts(saved[thread]) /\ (page # <<>> => thread \in row)
  /\ ~ loading /\ active # NoTurn => Phase(active)

LEMMA AgreeIs == Agree <=> (Intact(thread) => AgreeHere)
  BY DEF Agree, AgreeHere

\* Only the active turn's run works on an undisturbed thread.
LEMMA WorkerActive ==
  ASSUME RunInv, TypesOK, TurnsUsed, TurnsRest, NEW k \in Turns, Works(k),
         ThreadOf(k) \notin disturbed
  PROVE  k = active /\ active # NoTurn /\ ThreadOf(k) = thread
<1>1. Used(k)
  BY WorksSaved
<1>2. ~ Rested(k)
  BY DEF Rested, Works, PruneReads, PruneWrites, Begins, Ends
<1>3. ~ turn[k].settled
  BY <1>1, <1>2 DEF TurnsRest
<1>4. k = active /\ active # NoTurn
  BY <1>3, ZeroIsNoTurn DEF RunInv, OnlyOne
<1> QED  BY <1>4, ActiveUsed DEF ThreadOf

\* The page and what is saved of its thread stay as they are.
LEMMA AgreeFrame ==
  ASSUME AgreeHere, thread' = thread, active' = active, loading' = loading, loadSeq' = loadSeq,
         page' = page, saved'[thread] = saved[thread], thread \in row => thread \in row',
         \A r : r.kind = "loaded" /\ r.seq = loadSeq /\ r \in net' => r \in net,
         active # NoTurn => /\ run'[active] = run[active] /\ turn'[active].prompt = turn[active].prompt
                            /\ turn'[active].replace = turn[active].replace
  PROVE  AgreeHere'
<1>1. \A r \in InNet("loaded")' : r.seq = loadSeq => r \in InNet("loaded")
  BY DEF InNet
<1>2. active # NoTurn /\ Phase(active) => Phase(active)'
  BY DEF Phase
<1>3. loading' => /\ active' = NoTurn
                  /\ \A r \in InNet("loaded")' : r.seq = loadSeq' =>
                       r.msgs = saved'[thread'] /\ (r.msgs # <<>> => thread' \in row')
  BY <1>1 DEF AgreeHere
<1>4. ~ loading' /\ active' = NoTurn =>
         Prompts(page') = Prompts(saved'[thread']) /\ (page' # <<>> => thread' \in row')
  BY DEF AgreeHere
<1>5. ~ loading' /\ active' # NoTurn => Phase(active)'
  BY <1>2 DEF AgreeHere
<1> QED  BY <1>3, <1>4, <1>5 DEF AgreeHere

\* A turn begins.
LEMMA AgreeSends ==
  ASSUME RunInv, TypesOK, TurnsUsed, Agree, [Next]_vars, NEW k \in Turns, Sends(k),
         thread' \notin disturbed'
  PROVE  AgreeHere'
<1>1. PICK p \in Turns, r \in Nat : RunTurn(k, p, r)
  BY SendsRun DEF Sends
<1>2. /\ thread' = thread /\ loading' = loading /\ active' = k
      /\ disturbed' = disturbed \cup (CutOff \cup IF loading \/ thread \in deleted THEN {thread} ELSE {})
  BY <1>1 DEF RunTurn, Disturb
<1>3. active = NoTurn /\ ~ loading /\ thread \notin deleted /\ thread \notin disturbed
  BY <1>2, ActiveUsed
<1>4. Prompts(page) = Prompts(saved[thread])
  BY <1>3 DEF Agree, Intact
<1>5. ~ Used(k) /\ run'[k] = NoRun /\ saved' = saved
  BY <1>1, BeginsTurn, ServerAlone DEF TurnsUsed
<1>6. run'[k].at = "none"
  BY <1>5, NoRunIs
<1>7. Prompts(page') = Append(Cut(Prompts(saved'[thread']), turn'[k].replace), turn'[k].prompt)
  BY <1>2, <1>4, <1>5, SendsPrompts
<1>8. Phase(k)'
  BY <1>6, <1>7 DEF Phase
<1>9. k # NoTurn
  BY ZeroIsNoTurn
<1> QED  BY <1>2, <1>3, <1>8, <1>9 DEF AgreeHere

\* A thread is opened.
LEMMA AgreeLeaves ==
  ASSUME RunInv, TypesOK, TurnsUsed, LoadsOK, [Next]_vars, LeavesPage, ThreadsOK',
         thread' \notin disturbed'
  PROVE  AgreeHere'
<1>1. CASE fresh'
  <2>1. ~ loading' /\ page' = <<>> /\ saved'[thread'] = <<>>
    BY <1>1 DEF ThreadsOK
  <2>2. active' = NoTurn
    BY Leaves DEF LeavesPage, Left
  <2> QED  BY <2>1, <2>2 DEF AgreeHere
<1>2. CASE loading' = TRUE /\ loadSeq' = loadSeq + 1 /\ net' = net \cup {Load(loadSeq + 1, thread')}
  <2>1. active' = NoTurn
    BY Leaves DEF LeavesPage, Left
  <2>2. \A r \in InNet("loaded")' : r \in net /\ r.kind = "loaded"
    BY <1>2, Kinds DEF InNet
  <2>3. \A r \in InNet("loaded")' : r.seq \in Nat /\ r.seq <= loadSeq
    BY <2>2, RequestIs DEF LoadsOK
  <2>4. loadSeq \in Nat
    BY DEF TypesOK
  <2>5. \A r \in InNet("loaded")' : r.seq # loadSeq'
    BY <1>2, <2>3, <2>4
  <2> QED  BY <1>2, <2>1, <2>5 DEF AgreeHere
<1>3. CASE Stop
  <2>1. active # NoTurn /\ thread' = thread /\ disturbed' = disturbed \cup CutOff
    BY <1>3 DEF Stop, Disturb
  <2>2. CutOff = {thread}
    BY <2>1, ActiveUsed
  <2> QED  BY <2>1, <2>2
<1>4. CASE Remount
  <2>1. CASE fresh = TRUE
    BY <1>1, <1>4, <2>1 DEF Remount
  <2>2. CASE fresh = FALSE
    BY <1>2, <1>4, <2>2 DEF Remount, LoadThread
  <2> QED  BY <2>1, <2>2 DEF TypesOK
<1>5. ASSUME NEW t \in Threads, SelectThread(t) PROVE AgreeHere'
  <2>1. thread' = t /\ LoadThread(t, FALSE, {})
    BY <1>5 DEF SelectThread
  <2>2. loading' = TRUE /\ loadSeq' = loadSeq + 1 /\ net' = net \cup {Load(loadSeq + 1, t)}
    BY <2>1 DEF LoadThread
  <2> QED  BY <1>2, <2>1, <2>2
<1>6. ASSUME NEW t \in Threads, NewChat(t) \/ DeleteOpen(t) PROVE AgreeHere'
  BY <1>1, <1>6 DEF NewChat, DeleteOpen, Open
<1> QED  BY <1>3, <1>4, <1>5, <1>6 DEF LeavesPage

\* The turn closes, or the page gets to know its run.
LEMMA AgreeCloses ==
  ASSUME RunInv, TypesOK, TurnsUsed, RowsOK, AgreeHere, Intact(thread), [Next]_vars, Closes,
         thread' \notin disturbed'
  PROVE  AgreeHere'
<1>1. /\ thread' = thread /\ page' = page /\ loading' = loading /\ loadSeq' = loadSeq
      /\ saved' = saved /\ row' = row /\ run' = run /\ net' \subseteq net
  <2>1. loadSeq' = loadSeq
    BY DEF Closes, RunIdArrives, PostFails, StreamCloses, KeepPage
  <2> QED  BY <2>1, OthersThread, ServerAlone, NetSteps
<1>2. CASE active' = active
  <2>1. active # NoTurn => /\ turn'[active].prompt = turn[active].prompt
                           /\ turn'[active].replace = turn[active].replace
    <3>1. active # NoTurn => active \in Turns
      BY ActiveUsed
    <3>2. \A j \in Turns : Same(j)
      BY TurnSteps
    <3> QED  BY <3>1, <3>2 DEF Same
  <2> QED  BY <1>1, <1>2, <2>1, AgreeFrame
<1>3. CASE active = NoTurn
  <2>1. \A k \in Turns : Finish(k) => active' = NoTurn
    <3>1. ASSUME NEW k \in Turns, Finish(k) PROVE active' = NoTurn
      BY <1>3, <3>1, Finishes
    <3> QED  BY <3>1
  <2>2. active' = active
    BY <1>3, <2>1, CloseIs
  <2> QED  BY <1>2, <2>2
<1>4. CASE active # NoTurn /\ active' # active
  <2>1. active' = NoTurn /\ turn[active].known /\ run[active].at = "over"
    BY <1>1, <1>4, ActiveStep
  <2>2. ~ loading /\ Phase(active)
    BY <1>4 DEF AgreeHere
  <2>3. Prompts(page) = Prompts(saved[thread])
    BY <2>1, <2>2 DEF Phase
  <2>4. thread \in row
    BY <1>4, <2>1 DEF RowsOK
  <2> QED  BY <1>1, <2>1, <2>2, <2>3, <2>4 DEF AgreeHere
<1> QED  BY <1>2, <1>3, <1>4

\* A load is answered, or fails.
LEMMA AgreeLoads ==
  ASSUME RunInv, TypesOK, TurnsUsed, LoadsOK, RowsOK, AgreeHere, Intact(thread), LoadSteps,
         thread' \notin disturbed'
  PROVE  AgreeHere'
<1>1. /\ thread' = thread /\ active' = active /\ loadSeq' = loadSeq /\ turn' = turn
      /\ saved' = saved /\ row' = row /\ run' = run
  BY TurnsAlone, ServerAlone
<1>2. CASE net' \subseteq net /\ page' = page /\ loading' = loading
  BY <1>1, <1>2, AgreeFrame
<1>3. CASE LoadedArrives
  <2>1. PICK r \in net : r.kind = "loaded" /\ Show(r.seq, r.msgs) /\ net' = net \ {r}
    BY <1>3 DEF LoadedArrives, InNet
  <2>2. CASE r.seq # loadSeq
    BY <1>2, <2>1, <2>2 DEF Show
  <2>3. CASE r.seq = loadSeq
    <3>1. loading /\ active = NoTurn /\ r.msgs = saved[thread] /\ (r.msgs # <<>> => thread \in row)
      BY <2>1, <2>3 DEF LoadsOK, Newest, AgreeHere, InNet
    <3>2. page' = r.msgs /\ loading' = FALSE
      BY <2>1, <2>3 DEF Show
    <3> QED  BY <1>1, <3>1, <3>2 DEF AgreeHere
  <2> QED  BY <2>2, <2>3
<1>4. CASE LoadFails
  <2>1. PICK r \in net : /\ r.kind = "load" /\ Show(r.seq, <<>>) /\ net' = net \ {r}
                         /\ disturbed' = disturbed \cup {r.thread}
    BY <1>4 DEF LoadFails, InNet, Disturb
  <2>2. r.seq # loadSeq
    BY <1>1, <2>1 DEF LoadsOK, InNet
  <2> QED  BY <1>2, <2>1, <2>2 DEF Show
<1>5. CASE LoadArrives
  <2>1. PICK r \in net :
          /\ r.kind = "load" /\ page' = page /\ loading' = loading
          /\ net' = (net \ {r}) \cup {Loaded(r.seq, IF r.thread \in row THEN saved[r.thread] ELSE <<>>)}
    BY <1>5 DEF LoadArrives, InNet, Serves, pageVars
  <2> DEFINE m == IF r.thread \in row THEN saved[r.thread] ELSE <<>>
  <2>2. Loaded(r.seq, m).seq = r.seq /\ Loaded(r.seq, m).msgs = m
    BY Kinds
  <2> HIDE DEF m
  <2>3. \A q \in net' : q \in net \/ q = Loaded(r.seq, m)
    BY <2>1 DEF m
  <2>4. CASE r.seq # loadSeq
    <3>1. \A q : q.kind = "loaded" /\ q.seq = loadSeq /\ q \in net' => q \in net
      BY <2>2, <2>3, <2>4
    <3> QED  BY <1>1, <2>1, <3>1, AgreeFrame
  <2>5. CASE r.seq = loadSeq
    <3>1. loading /\ active = NoTurn /\ r.thread = thread
      BY <2>1, <2>5 DEF LoadsOK, Newest, AgreeHere, InNet
    <3>2. thread \notin row => saved[thread] = <<>>
      BY <3>1 DEF RowsOK, TypesOK
    <3>3. m = saved[thread] /\ (m # <<>> => thread \in row)
      BY <3>1, <3>2 DEF m
    <3>4. \A q \in InNet("loaded")' : q.seq = loadSeq' =>
             q.msgs = saved'[thread'] /\ (q.msgs # <<>> => thread' \in row')
      <4>1. SUFFICES ASSUME NEW q \in net', q.kind = "loaded", q.seq = loadSeq
                     PROVE  q.msgs = saved[thread] /\ (q.msgs # <<>> => thread \in row)
        BY <1>1 DEF InNet
      <4>2. CASE q \in net
        BY <3>1, <4>1, <4>2 DEF AgreeHere, InNet
      <4>3. CASE q = Loaded(r.seq, m)
        BY <2>2, <3>3, <4>3
      <4> QED  BY <2>3, <4>2, <4>3
    <3> QED  BY <1>1, <2>1, <3>1, <3>4 DEF AgreeHere
  <2> QED  BY <2>4, <2>5
<1> QED  BY <1>3, <1>4, <1>5 DEF LoadSteps

\* The active turn's run goes one step, the page as it is.
LEMMA PhaseOf ==
  ASSUME AgreeHere, active # NoTurn, thread' = thread, active' = active, loading' = loading,
         Phase(active)'
  PROVE  AgreeHere'
<1>1. ~ loading
  BY DEF AgreeHere
<1> QED  BY <1>1 DEF AgreeHere

\* A run is created: it prunes, or begins at once.
LEMMA AgreePosts ==
  ASSUME RunInv, TypesOK, TurnsUsed, AskedOnce, AgreeHere, PostArrives
  PROVE  AgreeHere'
<1>1. /\ thread' = thread /\ active' = active /\ loadSeq' = loadSeq /\ turn' = turn
      /\ saved' = saved /\ row' = row /\ page' = page /\ loading' = loading
  BY TurnsAlone, PostIs DEF RunSteps
<1>2. PICK k \in Turns :
           /\ Post(k) \in net /\ net' = (net \ {Post(k)}) \cup {Record(k)}
           /\ \A j \in Turns : j # k => run'[j] = run[j]
           /\ run'[k].at = IF turn[k].replace > 0 THEN "queued" ELSE "ready"
  BY PostIs
<1>3. \A r : r.kind = "loaded" /\ r.seq = loadSeq /\ r \in net' => r \in net
  BY <1>2, Kinds
<1>4. active # NoTurn => active \in Turns
  BY ActiveUsed
<1>5. CASE active # k
  BY <1>1, <1>2, <1>3, <1>4, <1>5, AgreeFrame
<1>6. CASE active = k
  <2>1. active # NoTurn
    BY <1>2, <1>6, ZeroIsNoTurn
  <2>2. run[k].at = "none" /\ Used(k)
    BY <1>2 DEF AskedOnce, TurnsUsed
  <2>3. Prompts(page) = Append(Cut(Prompts(saved[thread]), turn[k].replace), turn[k].prompt)
    BY <1>6, <2>1, <2>2 DEF AgreeHere, Phase
  <2>4. turn[k].replace \in Nat
    BY <2>2 DEF TurnsUsed
  <2>5. turn[k].replace = 0 => Cut(Prompts(saved[thread]), turn[k].replace) = Prompts(saved[thread])
    <3>1. saved[thread] \in Seq(Msgs)
      BY DEF TypesOK
    <3> QED  BY <3>1, PromptsOK, CutFacts
  <2>6. run'[k].at = "queued" \/ (run'[k].at = "ready" /\ turn[k].replace = 0)
    BY <1>2, <2>4
  <2>7. Phase(active)'
    BY <1>1, <1>6, <2>3, <2>5, <2>6 DEF Phase
  <2> QED  BY <1>1, <2>1, <2>7, PhaseOf
<1> QED  BY <1>5, <1>6

\* The session is recorded.
LEMMA AgreeRecords ==
  ASSUME RunInv, TypesOK, TurnsUsed, AgreeHere, RecordSession
  PROVE  AgreeHere'
<1>1. /\ thread' = thread /\ active' = active /\ loadSeq' = loadSeq /\ turn' = turn
      /\ saved' = saved /\ page' = page /\ loading' = loading /\ run' = run
  BY TurnsAlone, RecordIs DEF RunSteps
<1>2. PICK k \in Turns : net' = (net \ {Record(k)}) \cup {Created(k)} /\ row' = row \cup {ThreadOf(k)}
  BY RecordIs
<1>3. \A r : r.kind = "loaded" /\ r.seq = loadSeq /\ r \in net' => r \in net
  BY <1>2, Kinds
<1> QED  BY <1>1, <1>2, <1>3, AgreeFrame

\* A thread is deleted, another than this one.
LEMMA AgreeDeletes ==
  ASSUME RunInv, TypesOK, TurnsUsed, TurnsRest, DeletedOK, AgreeHere, Intact(thread), [Next]_vars, DeleteSteps
  PROVE  AgreeHere'
<1>1. /\ thread' = thread /\ active' = active /\ loadSeq' = loadSeq /\ turn' = turn
      /\ page' = page /\ loading' = loading /\ run' = run
  BY TurnsAlone, DeletesAre
<1>2. saved'[thread] = saved[thread]
  <2>1. Drop(thread) \notin net
    BY DEF DeletedOK, Intact, TypesOK
  <2>2. \E t \in Threads : saved' = saved \/ (Drop(t) \in net /\ saved' = [saved EXCEPT ![t] = <<>>])
    BY DeletesAre
  <2> QED  BY <2>1, <2>2 DEF TypesOK
<1>3. \A r : r.kind = "loaded" /\ r.seq = loadSeq /\ r \in net' => r \in net
  BY NetSteps DEF Touches
<1>4. thread \in row => thread \in row'
  BY RowKept
<1> QED  BY <1>1, <1>2, <1>3, <1>4, AgreeFrame

\* The run prunes, begins and ends, and the prompts stay those the page shows.
LEMMA AgreeWorks ==
  ASSUME RunInv, TypesOK, TurnsUsed, SavedOnce, TurnsRest, AgreeHere, Intact(thread),
         NEW k \in Turns, Works(k)
  PROVE  AgreeHere'
<1>1. /\ thread' = thread /\ active' = active /\ loadSeq' = loadSeq /\ turn' = turn /\ net' = net
      /\ page' = page /\ loading' = loading /\ row' = row
  BY WorksAlone
<1>2. Used(k) /\ ThreadOf(k) \in Threads /\ turn[k].prompt \in Turns /\ turn[k].replace \in Nat
  BY WorksSaved DEF TurnsUsed
<1>3. CASE ThreadOf(k) # thread
  <2>1. saved'[thread] = saved[thread]
    BY <1>3, WorksSaved DEF TypesOK
  <2>2. active # NoTurn => active \in Turns /\ active # k
    BY <1>3, ActiveUsed DEF ThreadOf
  <2>3. active # NoTurn => run'[active] = run[active]
    BY <2>2, WorksIs
  <2> QED  BY <1>1, <2>1, <2>3, AgreeFrame
<1>4. CASE ThreadOf(k) = thread
  <2> DEFINE s == saved[thread]
             p == turn[k].prompt
             n == turn[k].replace
  <2>1. k = active /\ active # NoTurn
    BY <1>4, WorkerActive DEF Intact
  <2>2. Phase(k)
    BY <2>1 DEF AgreeHere
  <2>3. s \in Seq(Msgs) /\ run[k].held \in Seq(Msgs) /\ OneEach(s)
    BY RunIs DEF TypesOK, SavedOnce, BegunOnly
  <2>4. SUFFICES Phase(k)'
    BY <1>1, <2>1, PhaseOf
  <2>5. CASE PruneReads(k)
    <3>1. Prompts(page) = Append(Cut(Prompts(s), n), p)
      BY <2>2, <2>5 DEF Phase, PruneReads
    <3>2. saved' = saved /\ run'[k].at = "pruning"
          /\ run'[k].doomed = {s[i] : i \in Doomed(s, n)}
      BY <1>4, <2>5, WorksIs, WorksSaved
    <3> QED  BY <1>1, <3>1, <3>2 DEF Phase
  <2>6. CASE PruneWrites(k)
    <3> DEFINE R == {i \in DOMAIN s : s[i] \notin run[k].doomed}
    <3>1. /\ Prompts(page) = Append(Cut(Prompts(s), n), p)
          /\ run[k].doomed = {s[i] : i \in Doomed(s, n)}
      BY <2>2, <2>6 DEF Phase, PruneWrites
    <3>2. run[k].doomed \subseteq ToSet(s) /\ Prompts(At(s, R)) = Cut(Prompts(s), n)
      BY <1>2, <2>3, <3>1, PrunedPrompts
    <3>3. run'[k].at = "ready" /\ saved'[thread] = At(s, R)
      BY <1>4, <2>6, <3>2, WorksIs, WorksSaved
    <3> HIDE DEF R
    <3>4. Prompts(page') = Append(Prompts(saved'[thread']), turn'[k].prompt)
      BY <1>1, <3>1, <3>2, <3>3
    <3> QED  BY <3>3, <3>4 DEF Phase
  <2>7. CASE Begins(k)
    <3> DEFINE u == Msg("user", k, p)
    <3>1. Prompts(page) = Append(Prompts(s), p)
      BY <2>2, <2>7 DEF Phase, Begins
    <3>2. u \in Msgs /\ u.role = "user" /\ u.prompt = p
      BY <1>2, MsgIs
    <3>3. saved'[thread] = Append(s, u) /\ run'[k].held = Append(s, u) /\ run'[k].at = "streaming"
      BY <1>4, <2>7, WorksIs, WorksSaved
    <3> HIDE DEF u
    <3>4. Prompts(Append(s, u)) = Prompts(page)
      BY <2>3, <3>1, <3>2, PromptsOfAppend
    <3>5. Prompts(page') = Prompts(saved'[thread']) /\ Prompts(run'[k].held) = Prompts(saved'[thread'])
      BY <1>1, <3>3, <3>4
    <3> QED  BY <3>3, <3>5 DEF Phase
  <2>8. CASE Ends(k)
    <3> DEFINE a == Msg("assistant", k, p)
    <3>1. Prompts(page) = Prompts(s) /\ Prompts(run[k].held) = Prompts(s)
      BY <2>2, <2>8 DEF Phase, Ends
    <3>2. a \in Msgs /\ a.role # "user"
      BY <1>2, MsgIs
    <3>3. (saved'[thread] = Append(run[k].held, a) \/ saved' = saved) /\ run'[k].at = "over"
      BY <1>4, <2>8, WorksIs, WorksSaved
    <3> HIDE DEF a
    <3>4. Prompts(Append(run[k].held, a)) = Prompts(s)
      BY <2>3, <3>1, <3>2, PromptsOfAppend
    <3>5. Prompts(page') = Prompts(saved'[thread'])
      BY <1>1, <3>1, <3>3, <3>4
    <3> QED  BY <3>3, <3>5 DEF Phase
  <2> QED  BY <2>5, <2>6, <2>7, <2>8 DEF Works
<1> QED  BY <1>3, <1>4

\* The page and the checkpoint agree through every step.
LEMMA AgreeStay ==
  ASSUME RunInv, TypesOK, TurnsUsed, AskedOnce, LoadsOK, SavedOnce, TurnsRest, DeletedOK,
         RowsOK, Agree, [Next]_vars, ThreadsOK'
  PROVE  Agree'
<1>0. Agree' <=> (Intact(thread)' => AgreeHere')
  BY DEF Agree, AgreeHere, InNet
<1>1. SUFFICES ASSUME thread' \notin disturbed', thread' \notin deleted' PROVE AgreeHere'
  BY <1>0 DEF Intact
<1>2. Intact(thread')
  BY <1>1, IntactBack
<1>3. CASE \E k \in Turns : Sends(k)
  BY <1>1, <1>3, AgreeSends
<1>4. CASE LeavesPage
  BY <1>1, <1>4, AgreeLeaves
<1>5. CASE Closes \/ LoadSteps \/ RunSteps \/ DeleteSteps \/ UNCHANGED vars
  <2>1. thread' = thread
    BY <1>5, OthersThread
  <2>2. Intact(thread) /\ AgreeHere
    BY <1>2, <2>1, AgreeIs
  <2>3. CASE UNCHANGED vars
    <3>1. AgreeHere'
      BY <2>2, <2>3 DEF vars, pageVars, serverVars, AgreeHere, Phase, InNet
    <3> QED  BY <3>1
  <2> QED  BY <1>1, <1>5, <2>1, <2>2, <2>3, AgreeCloses, AgreeLoads, AgreePosts, AgreeRecords,
              AgreeDeletes, AgreeWorks DEF RunSteps
<1> QED  BY <1>3, <1>4, <1>5, StepIs

-----------------------------------------------------------------------------
(* The theorems *)

\* The checkpoint the page was reloaded with: two messages for each of its turns.
LEMMA HistoryIs ==
  /\ History \in Seq(Msgs) /\ DOMAIN History = 1 .. 2 * Stored
  /\ \A i \in DOMAIN History : History[i].turn \in 1 .. Stored
  /\ OneEach(History)
<1>0. Stored \in Nat /\ MaxTurns \in Nat /\ Stored <= MaxTurns
  BY HistoryBounds
<1> DEFINE n(i) == (i + 1) \div 2
           m(i) == Msg(IF i % 2 = 1 THEN "user" ELSE "assistant", n(i), n(i))
<1>1. ASSUME NEW i \in 1 .. 2 * Stored PROVE n(i) \in 1 .. Stored /\ n(i) \in Turns
  BY <1>0 DEF Turns
<1>2. ASSUME NEW i \in 1 .. 2 * Stored
      PROVE  /\ m(i) \in Msgs /\ m(i).turn = n(i)
             /\ m(i).role = "user" => i % 2 = 1
  <2>1. n(i) \in Turns
    BY <1>1
  <2> HIDE DEF n
  <2> QED  BY <2>1, MsgIs
<1>3. History = [i \in 1 .. 2 * Stored |-> m(i)]
  BY DEF History
<1> HIDE DEF m
<1>4. History \in [1 .. 2 * Stored -> Msgs]
  BY <1>2, <1>3
<1>5. History \in Seq(Msgs) /\ DOMAIN History = 1 .. 2 * Stored
  <2>1. 2 * Stored \in Nat
    BY <1>0
  <2> QED  BY <1>4, <2>1
<1>6. \A i \in DOMAIN History : History[i].turn \in 1 .. Stored
  BY <1>1, <1>2, <1>3, <1>5
<1>7. OneEach(History)
  <2>1. SUFFICES ASSUME NEW i \in UserPlaces(History), NEW j \in UserPlaces(History),
                        History[i] = History[j]
                 PROVE  i = j
    BY DEF OneEach
  <2>2. i \in 1 .. 2 * Stored /\ j \in 1 .. 2 * Stored /\ m(i) = m(j)
        /\ m(i).role = "user" /\ m(j).role = "user"
    BY <1>3, <1>5, <2>1 DEF UserPlaces
  <2>3. i % 2 = 1 /\ j % 2 = 1 /\ n(i) = n(j)
    BY <1>2, <2>2
  <2> QED  BY <1>0, <2>2, <2>3
<1> QED  BY <1>5, <1>6, <1>7

\* At first the page is reloaded in a thread that was at rest.
LEMMA HistInit ==
  ASSUME Init
  PROVE  HistInv
<1>0. Stored \in Nat /\ MaxTurns \in Nat /\ Stored <= MaxTurns /\ First \in Threads
  BY HistoryBounds, ThreadsAssumption
<1>1. /\ thread = First /\ minted = {First} /\ fresh = FALSE /\ page = <<>> /\ loading = TRUE
      /\ loadSeq = 1 /\ net = {Load(1, First)} /\ active = NoTurn /\ disturbed = {} /\ deleted = {}
      /\ row = {First} /\ run = [k \in Turns |-> NoRun]
      /\ saved = [t \in Threads |-> IF t = First THEN History ELSE <<>>]
  BY DEF Init
<1>2. ASSUME NEW k \in Turns
      PROVE  /\ k <= Stored => /\ turn[k].thread = First /\ turn[k].prompt = k /\ turn[k].replace = 0
             /\ k > Stored => turn[k] = Idle
             /\ ~ turn[k].known /\ turn[k].settled
             /\ Used(k) <=> k <= Stored
             /\ run[k] = NoRun
  <2>1. turn[k] = IF k \in 1 .. Stored THEN [Idle EXCEPT !.thread = First, !.prompt = k] ELSE Idle
    BY DEF Init
  <2>2. k \in Int /\ k >= 1 /\ k # NoTurn
    BY <1>0 DEF Turns, NoTurn
  <2>3. CASE k <= Stored
    <3>1. turn[k] = [Idle EXCEPT !.thread = First, !.prompt = k]
      BY <1>0, <2>1, <2>2, <2>3
    <3>2. /\ turn[k].thread = First /\ turn[k].prompt = k /\ turn[k].replace = 0
          /\ turn[k].known = FALSE /\ turn[k].settled = TRUE
      BY <3>1 DEF Idle
    <3> QED  BY <1>0, <1>1, <2>2, <2>3, <3>2 DEF Used
  <2>4. CASE k > Stored
    <3>1. turn[k] = Idle
      BY <1>0, <2>1, <2>2, <2>4
    <3> QED  BY <1>0, <1>1, <2>2, <2>4, <3>1, IdleIs DEF Used
  <2> QED  BY <1>0, <2>2, <2>3, <2>4
<1> DEFINE L == Load(1, First)
<1>3. L.kind = "load" /\ L.seq = 1 /\ L.thread = First /\ L \in Requests
  BY <1>0, Kinds, RequestsAre
<1>4. /\ \A k \in Turns : Post(k) \notin net /\ Record(k) \notin net /\ Created(k) \notin net
      /\ \A t \in Threads : Delete(t) \notin net /\ Drop(t) \notin net
  BY <1>1, <1>3, Kinds
<1>5. \A k \in Turns : run[k].at = "none" /\ run[k].doomed = {} /\ run[k].held = <<>>
  BY <1>2, NoRunIs
<1>6. \A t \in Threads : saved[t] = IF t = First THEN History ELSE <<>>
  BY <1>1
<1> HIDE DEF L
<1>7. net = {L}
  BY <1>1 DEF L
<1>8. TypesOK
  <2>1. saved \in [Threads -> Seq(Msgs)]
    <3> DEFINE S == Seq(Msgs)
    <3>1. History \in S /\ <<>> \in S
      BY HistoryIs, EmptyPrompts
    <3> HIDE DEF S
    <3>2. saved \in [Threads -> S]
      BY <1>1, <3>1
    <3> QED  BY <3>2 DEF S
  <2>2. run \in [Turns -> [at : Live \cup {"none", "over", "dead"}, doomed : SUBSET Msgs, held : Seq(Msgs)]]
    <3> DEFINE S == Seq(Msgs)
    <3>1. <<>> \in S
      BY EmptyPrompts
    <3> HIDE DEF S
    <3>2. NoRun \in [at : Live \cup {"none", "over", "dead"}, doomed : SUBSET Msgs, held : S]
      BY <3>1 DEF NoRun
    <3> QED  BY <1>1, <3>2 DEF S
  <2>3. net \subseteq Requests
    BY <1>3, <1>7
  <2> QED  BY <1>0, <1>1, <2>1, <2>2, <2>3, EmptyPrompts DEF TypesOK
<1>9. TurnsUsed
  <2>1. Stored \in 0 .. MaxTurns /\ \A k \in Turns : Used(k) <=> k <= Stored
    BY <1>0, <1>2
  <2>2. ASSUME NEW k \in Turns
        PROVE  IF Used(k) THEN /\ turn[k].thread \in Threads /\ turn[k].prompt \in Turns
                               /\ turn[k].replace \in Nat
                          ELSE turn[k] = Idle /\ run[k] = NoRun
    <3>1. k \in Int
      BY DEF Turns
    <3> QED  BY <1>0, <1>2, <3>1
  <2> QED  BY <1>4, <2>1, <2>2 DEF TurnsUsed
<1>10. AskedOnce /\ StoredUsed
  BY <1>2, <1>4, <1>5 DEF AskedOnce, StoredUsed, Asked
<1>11. LoadsOK
  BY <1>1, <1>3, <1>7 DEF LoadsOK, Newest, InNet
<1>12. ThreadsOK
  BY <1>1, <1>2, <1>6 DEF ThreadsOK, ThreadOf
<1>13. MessagesOK
  <2>1. \A t : Of(<<>>, t)
    BY EmptyPrompts DEF Of
  <2>2. Of(History, First)
    <3>1. ASSUME NEW i \in DOMAIN History
          PROVE  Used(History[i].turn) /\ ThreadOf(History[i].turn) = First
      <4>1. History[i].turn \in Turns /\ History[i].turn <= Stored
        BY <1>0, HistoryIs DEF Turns
      <4> QED  BY <1>2, <4>1 DEF ThreadOf
    <3> QED  BY <3>1 DEF Of
  <2> QED  BY <1>1, <1>5, <1>6, <2>1, <2>2 DEF MessagesOK
<1>14. SavedOnce
  <2>1. BegunOnly(<<>>)
    BY EmptyPrompts DEF BegunOnly, OneEach
  <2>2. BegunOnly(History)
    <3>1. \A i \in DOMAIN History : Begun(History[i].turn)
      BY <1>0, HistoryIs DEF Begun
    <3> QED  BY <3>1, HistoryIs DEF BegunOnly
  <2> QED  BY <1>5, <1>6, <2>1, <2>2 DEF SavedOnce
<1>15. TurnsRest /\ DeletedOK
  BY <1>1, <1>4, <1>5 DEF TurnsRest, DeletedOK, Rested, Asked
<1>16. RowsOK
  BY <1>1, <1>6 DEF RowsOK
<1>17. Agree
  <2>1. \A r \in net : r.kind # "loaded"
    BY <1>3, <1>7
  <2> QED  BY <1>1, <2>1 DEF Agree, InNet
<1> QED  BY <1>8, <1>9, <1>10, <1>11, <1>12, <1>13, <1>14, <1>15, <1>16, <1>17 DEF HistInv

\* The parts of the invariant, each by its lemma.
LEMMA HistStep ==
  ASSUME RunInv, HistInv, [Next]_vars
  PROVE  HistInv'
<1>0. /\ TypesOK /\ TurnsUsed /\ AskedOnce /\ StoredUsed /\ LoadsOK /\ ThreadsOK /\ MessagesOK
      /\ SavedOnce /\ TurnsRest /\ DeletedOK /\ RowsOK /\ Agree
  BY DEF HistInv
<1>1. TypesOK'
  BY <1>0, TypesStay
<1>2. TurnsUsed' /\ StoredUsed'
  BY <1>0, UsedStay
<1>3. AskedOnce'
  BY <1>0, AskedStay
<1>4. LoadsOK'
  BY <1>0, LoadsStay
<1>5. ThreadsOK'
  BY <1>0, <1>1, ThreadsStay
<1>6. MessagesOK'
  BY <1>0, <1>1, MessagesStay
<1>7. SavedOnce'
  BY <1>0, <1>1, SavedStay
<1>8. TurnsRest'
  BY <1>0, RestStay
<1>9. DeletedOK'
  BY <1>0, DeletedStay
<1>10. RowsOK'
  BY <1>0, RowsStay
<1>11. Agree'
  BY <1>0, <1>5, AgreeStay
<1> QED  BY <1>1, <1>2, <1>3, <1>4, <1>5, <1>6, <1>7, <1>8, <1>9, <1>10, <1>11, Zenon DEF HistInv

\* The inductive invariant.
LEMMA HistoryInv == Spec => [](RunInv /\ HistInv)
<1>1. RunInv /\ HistInv /\ [Next]_vars => RunInv' /\ HistInv'
  BY HistStep, RunStep
<1>2. Init => RunInv /\ HistInv
  BY HistoryInit, HistInit
<1> QED  BY <1>1, <1>2, PTL DEF Spec

\* At rest, the page's turn is over.
LEMMA PromptsAgreeAtRest ==
  ASSUME RunInv, HistInv
  PROVE  PromptsAgree
<1>0. TypesOK /\ TurnsUsed /\ AskedOnce /\ LoadsOK /\ RowsOK /\ Agree
  BY DEF HistInv
<1>1. SUFFICES ASSUME Quiet, thread \notin disturbed \cup deleted
               PROVE  Prompts(page) = Prompts(saved[thread]) /\ (page # <<>> => thread \in row)
  BY DEF PromptsAgree
<1>2. net = {} /\ \A k \in Turns : run[k].at \notin Live \cup {"dead"}
  BY <1>1 DEF Quiet
<1>3. ~ loading /\ Intact(thread)
  BY <1>0, <1>1, <1>2 DEF LoadsOK, Intact
<1>4. CASE active = NoTurn
  BY <1>0, <1>3, <1>4 DEF Agree
<1>5. CASE active # NoTurn
  <2>1. active \in Turns /\ ~ turn[active].settled
    BY <1>0, <1>5, ActiveUsed
  <2>2. turn[active].known /\ run[active].at # "none"
    BY <1>0, <1>2, <2>1 DEF AskedOnce, Asked
  <2>3. run[active].at = "over"
    <3>1. run[active].at \in Ats
      BY <1>0, <2>1, RunIs
    <3> QED  BY <1>2, <2>1, <2>2, <3>1 DEF Ats
  <2>4. Phase(active)
    BY <1>0, <1>3, <1>5 DEF Agree
  <2>5. Prompts(page) = Prompts(saved[thread])
    BY <2>3, <2>4 DEF Phase
  <2>6. thread \in row
    BY <1>0, <1>3, <1>5, <2>2 DEF RowsOK
  <2> QED  BY <2>5, <2>6
<1> QED  BY <1>4, <1>5

\* The page shows messages of the active thread only, in whatever order the loads are
\* answered: an answer that is not to the newest load is dropped (loadSeqRef).
THEOREM PageIsOfItsThread == Spec => []PageShowsItsThread
<1>1. HistInv => PageShowsItsThread
  BY DEF HistInv, MessagesOK, Of, PageShowsItsThread, ThreadOf
<1> QED  BY <1>1, HistoryInv, PTL

\* At rest, a thread whose turns all ran to their end holds the prompts that the page
\* shows, in their order, whatever was edited and regenerated (replaceTurns and
\* _truncate_trailing_turns), and the registry has a row of it (record_session).
THEOREM PageAndThreadAgree == Spec => []PromptsAgree
<1>1. RunInv /\ HistInv => PromptsAgree
  BY PromptsAgreeAtRest
<1> QED  BY <1>1, HistoryInv, PTL

\* A conversation deleted after its turns ran to their end stays deleted, its row and
\* its messages, although delete_session stops no run: no step of an undisturbed turn
\* is left to bring them back.
THEOREM DeletionsStay == Spec => []DeletedStaysDeleted
<1>1. HistInv => DeletedStaysDeleted
  BY DEF HistInv, DeletedOK, DeletedStaysDeleted
<1> QED  BY <1>1, HistoryInv, PTL

\* The history is kept: what the page shows and what the agent reads, after edits and
\* regenerations, and what was deleted.
THEOREM HistoryStays == Spec => []HistoryIsKept
<1>1. PromptsAgree /\ DeletedStaysDeleted => HistoryIsKept
  BY DEF HistoryIsKept
<1> QED  BY <1>1, PageAndThreadAgree, DeletionsStay, PTL
=============================================================================
