------------------------------ MODULE RunDriver ------------------------------
(***************************************************************************)
(* One run of backend/app/agent/runs.py: the background task _drive, the   *)
(* event queue that GET /v1/runs/{id}/events drains, and the two calls     *)
(* that reach a running task from outside, respond_approval and            *)
(* cancel_run.  AgentGraph is the graph it drives.                         *)
(*                                                                         *)
(* Everything runs on one asyncio loop, so an action is a stretch of code  *)
(* between two awaits that really suspend.  queue.put on the unbounded     *)
(* queue never does: the handling of one stream chunk is one step, and so  *)
(* is the creation of every future of an interrupt.  A result set with     *)
(* call_soon_threadsafe arrives in a later step (`scheduled`).             *)
(*                                                                         *)
(* Approval ids are fresh and are numbered in the order they are made.     *)
(***************************************************************************)
EXTENDS AgentGraph

CONSTANTS
  MaxCancels,    \* bound: cancel requests that find the run
  Streams,       \* GET .../events requests that may be made
  Choices,       \* "choice" strings a respond request may carry
  RejectWords,   \* those respond_approval reads as a rejection
  PruneFails     \* may _truncate_trailing_turns raise?

ASSUME CancelsAssumption == MaxCancels \in Nat
ASSUME ChoicesAssumption == RejectWords \subseteq Choices

VARIABLES
  pc,         \* where _drive stands
  auto,       \* run.auto_approve
  cancels,    \* cancel requests that found the run; run.cancelled iff > 0
  announced,  \* call ids of every tool.started, in order, and how many of
  popped,     \* each tool's were popped: run.recent_tool_call_ids[t] is the
              \* subsequence of t's ids without its first popped[t]
  asks,       \* number of approval futures created so far
  futs,       \* the local list futs: approval ids in request order
  pending,    \* keys of run.pending
  result,     \* approval id -> result of its future, "none" while not done
  scheduled,  \* set_result callbacks in the loop's ready queue, FIFO
  about,      \* approval id -> the call its approval.request shows
  said,       \* approval id -> the decision respond_approval accepted
  log,        \* every event put on run.queue
  taken,      \* how many of them queue.get has handed out
  registered, \* is the run in _RUNS?
  stream      \* event_stream generators: "idle", "open", "closed"

driver == <<pc, auto, cancels>>
pairing == <<announced, popped>>
asking == <<asks, futs, about>>
answers == <<pending, result, scheduled, said>>
channel == <<taken, registered, stream>>
vars == <<driver, pairing, asking, answers, log, channel, agent, chunk>>

Decisions == {"approve", "reject"}
Terminal == {"run.completed", "run.failed", "run.cancelled"}
Names == Terminal \cup {"message.delta", "tool.started", "tool.completed",
                        "approval.request", "sources", "__end__"}

Event(name, call, aid, card) ==
  [ev |-> name, call |-> call, aid |-> aid, card |-> card]
Plain(name) == Event(name, NoCall, 0, NoCall)
EachCall(name, calls) ==
  [i \in 1 .. Len(calls) |-> Event(name, calls[i], 0, calls[i])]
Events == [ev : Names, call : Calls \cup {NoCall},
           aid : Calls \cup {0}, card : Calls \cup {NoCall}]

cancelled == cancels > 0

TypeOK ==
  /\ GraphTypeOK
  /\ pc \in {"new", "prune", "streaming", "awaiting", "persisting", "ended", "dead"}
  /\ auto \in BOOLEAN
  /\ cancels \in 0 .. MaxCancels
  /\ announced \in Seq(Calls) /\ popped \in [Tools -> Nat]
  /\ asks \in 0 .. MaxCalls /\ futs \in Seq(Calls)
  /\ about \in [Calls -> Calls \cup {NoCall}]
  /\ pending \in SUBSET Calls
  /\ result \in [Calls -> Decisions \cup {"none"}]
  /\ scheduled \in Seq(Calls \X Decisions)
  /\ said \in [Calls -> Decisions \cup {"none"}]
  /\ log \in Seq(Events)
  /\ taken \in Nat /\ registered \in BOOLEAN
  /\ stream \in [Streams -> {"idle", "open", "closed"}]

Init ==
  /\ GraphInit
  /\ pc = "new" /\ auto = FALSE /\ cancels = 0
  /\ announced = <<>> /\ popped = [t \in Tools |-> 0]
  /\ asks = 0 /\ futs = <<>> /\ about = [a \in Calls |-> NoCall]
  /\ pending = {} /\ scheduled = <<>>
  /\ result = [a \in Calls |-> "none"] /\ said = [a \in Calls |-> "none"]
  /\ log = <<>> /\ taken = 0 /\ registered = FALSE
  /\ stream = [s \in Streams |-> "idle"]

-----------------------------------------------------------------------------
(* start_run and the beginning of _drive *)

\* POST /v1/runs: the run enters _RUNS and its task is created.  replace says
\* whether replace_turns > 0, so that the checkpoint is pruned first.
StartRun(approve, replace) ==
  /\ pc = "new"
  /\ pc' = IF replace THEN "prune" ELSE "streaming"
  /\ auto' = approve
  /\ registered' = TRUE
  /\ UNCHANGED <<cancels, pairing, asking, answers, log, taken, stream, agent, chunk>>

\* _truncate_trailing_turns returns: it pruned, found nothing, or its
\* aget_state raised and was swallowed.
PruneDone ==
  /\ pc = "prune"
  /\ pc' = "streaming"
  /\ UNCHANGED <<auto, cancels, pairing, asking, answers, log, channel, agent, chunk>>

\* Its aupdate_state raises: the call stands outside _drive's try, so the
\* task ends with no terminal event and no __end__.
PruneRaises ==
  /\ pc = "prune" /\ PruneFails
  /\ pc' = "dead"
  /\ UNCHANGED <<auto, cancels, pairing, asking, answers, log, channel, agent, chunk>>

-----------------------------------------------------------------------------
(* _stream_segment and the loop of _drive *)

\* Mutant: the finally block puts no __end__.
MutantFinishOpen(name) ==
  /\ pc' = "ended"
  /\ log' = Append(log, Plain(name))

\* The terminal event, and the finally block's __end__ right after it.
Finish(name) ==
  /\ pc' = "ended"
  /\ log' = log \o <<Plain(name), Plain("__end__")>>

\* Mutants: the flag is read only between segments, or only at the end.
MutantCancelAfterSegment == cancelled /\ chunk.kind \in {"interrupt", "end"}
MutantCancelAtEnd == cancelled /\ chunk.kind = "end"

\* The cancel flag is read at every chunk and again after the segment.
SeesCancel == cancelled

\* A chunk is read: the generator is asked for the next one, or dropped.
Reads(kinds) == pc = "streaming" /\ chunk.kind \in kinds /\ chunk' = NoChunk

ReadCancelled ==
  /\ Reads({"text", "update", "interrupt", "end"}) /\ SeesCancel
  /\ Finish("run.cancelled")
  /\ UNCHANGED <<auto, cancels, pairing, asking, answers, channel, agent>>

ReadError ==
  /\ Reads({"error"})
  /\ Finish("run.failed")
  /\ UNCHANGED <<auto, cancels, pairing, asking, answers, channel, agent>>

ReadText ==
  /\ Reads({"text"}) /\ ~ SeesCancel
  /\ log' = Append(log, Plain("message.delta"))
  /\ UNCHANGED <<driver, pairing, asking, answers, channel, agent>>

\* Mutant: gated calls are left to their approval card.
MutantReadUpdateUngated ==
  /\ Reads({"update"}) /\ ~ SeesCancel
  /\ announced' = announced \o chunk.started
  /\ log' = log \o EachCall("tool.started",
                     SelectSeq(chunk.started, LAMBDA c : ~ Gated(c)))
                \o EachCall("tool.completed", chunk.completed)
  /\ UNCHANGED <<driver, popped, asking, answers, channel, agent>>

\* Messages of an update: every tool call of an AIMessage is queued under its
\* tool name and announced, every ToolMessage is reported.
ReadUpdate ==
  /\ Reads({"update"}) /\ ~ SeesCancel
  /\ announced' = announced \o chunk.started
  /\ log' = log \o EachCall("tool.started", chunk.started)
                \o EachCall("tool.completed", chunk.completed)
  /\ UNCHANGED <<driver, popped, asking, answers, channel, agent>>

\* Positional pairing: the k-th request for a tool name takes the k-th id
\* still in that name's FIFO, or none when there are fewer.  A round takes as
\* many ids of a name as it has requests for it.
Announced(t) == {p \in DOMAIN announced : ToolOf[announced[p]] = t}
Requests(t) == {k \in DOMAIN review : ToolOf[review[k]] = t}
\* Mutant: the last id announced under the name wins.
MutantCard(i) ==
  LET s == Announced(ToolOf[review[i]])
  IN IF s = {} THEN NoCall ELSE announced[CHOOSE p \in s : \A q \in s : q <= p]
Card(i) ==
  LET t == ToolOf[review[i]]
      nth == popped[t] + Cardinality({k \in Requests(t) : k <= i})
      place == {p \in Announced(t) :
                  Cardinality({q \in Announced(t) : q <= p}) = nth}
  IN IF place = {} THEN NoCall ELSE announced[CHOOSE p \in place : TRUE]

Pops(t) ==
  LET left == Cardinality(Announced(t)) - popped[t]
      wanted == Cardinality(Requests(t))
  IN IF wanted <= left THEN wanted ELSE left

\* Mutant: the requests of a round share one entry of run.pending.
MutantFutures(n) == {asks + 1}
Futures(n) == asks + 1 .. asks + n

\* An interrupt without auto_approve: one future and one approval.request per
\* action request, in order; then _drive awaits them all.
AskApproval ==
  LET n == Len(review)
      new == asks + 1 .. asks + n
  IN /\ Reads({"interrupt"}) /\ ~ SeesCancel /\ ~ auto
     /\ pc' = "awaiting"
     /\ asks' = asks + n
     /\ futs' = [i \in 1 .. n |-> asks + i]
     /\ pending' = pending \cup Futures(n)
     /\ about' = [a \in Calls |-> IF a \in new THEN review[a - asks] ELSE about[a]]
     /\ popped' = [t \in Tools |-> popped[t] + Pops(t)]
     /\ log' = log \o [i \in 1 .. n |->
                  Event("approval.request", review[i], asks + i, Card(i))]
     /\ UNCHANGED <<auto, cancels, announced, result, scheduled, said, channel, agent>>

\* The graph is resumed with Command(resume={"decisions": ds}).
ResumeWith(ds) ==
  /\ decisions' = ds
  /\ graph' = "reviewed"
  /\ UNCHANGED <<batch, review, todo, returned, executed, made, texts>>

\* An interrupt in auto-approve mode is resolved without a round-trip.
AutoApprove ==
  /\ Reads({"interrupt"}) /\ ~ SeesCancel /\ auto
  /\ ResumeWith([i \in 1 .. Len(review) |-> "approve"])
  /\ UNCHANGED <<driver, pairing, asking, answers, log, channel>>

\* Mutant: the decisions come out in the opposite order of the requests.
MutantResolvedReversed ==
  [i \in 1 .. Len(futs) |-> result[futs[Len(futs) + 1 - i]]]
Resolved == [i \in 1 .. Len(futs) |-> result[futs[i]]]

\* Mutant: _drive resumes at the first answer and refuses the rest.
MutantResumeOnFirst ==
  /\ pc = "awaiting" /\ \E i \in 1 .. Len(futs) : result[futs[i]] # "none"
  /\ pc' = "streaming"
  /\ ResumeWith([i \in 1 .. Len(futs) |->
                   IF Resolved[i] = "none" THEN "reject" ELSE Resolved[i]])
  /\ UNCHANGED <<auto, cancels, pairing, asking, answers, log, channel, chunk>>

\* decisions = [await f for f in futs]; every one of them is done.
Resume ==
  /\ pc = "awaiting" /\ \A i \in 1 .. Len(futs) : result[futs[i]] # "none"
  /\ pc' = "streaming"
  /\ ResumeWith(Resolved)
  /\ UNCHANGED <<auto, cancels, pairing, asking, answers, log, channel, chunk>>

\* The stream ended without an interrupt: the sources event if there are any,
\* then set_thread_meta is awaited if there is usage or a source to store.
ReadEnd(hasSources, hasUsage) ==
  /\ Reads({"end"}) /\ ~ SeesCancel
  /\ IF hasSources \/ hasUsage
     THEN /\ pc' = "persisting"
          /\ log' = log \o IF hasSources THEN <<Plain("sources")>> ELSE <<>>
     ELSE Finish("run.completed")
  /\ UNCHANGED <<auto, cancels, pairing, asking, answers, channel, agent>>

\* set_thread_meta swallows its own errors; the flag is not read again.
PersistDone ==
  /\ pc = "persisting"
  /\ Finish("run.completed")
  /\ UNCHANGED <<auto, cancels, pairing, asking, answers, channel, agent, chunk>>

DriveStep ==
  \/ PruneDone \/ PruneRaises
  \/ ReadCancelled \/ ReadError \/ ReadText \/ ReadUpdate
  \/ AskApproval \/ AutoApprove \/ Resume \/ PersistDone
  \/ \E hasSources, hasUsage \in BOOLEAN : ReadEnd(hasSources, hasUsage)

GraphStep ==
  /\ \/ pc = "streaming" /\ GraphAdvances
     \/ \E c \in Calls : ToolRuns(c)
  /\ UNCHANGED <<driver, pairing, asking, answers, log, channel>>

-----------------------------------------------------------------------------
(* The event loop's callbacks and the HTTP operations *)

\* A set_result callback.  On a future that is already done it raises
\* InvalidStateError, which the loop only logs.
DeliverResult ==
  /\ scheduled # <<>>
  /\ LET a == Head(scheduled)[1]
     IN result' = IF result[a] = "none"
                  THEN [result EXCEPT ![a] = Head(scheduled)[2]] ELSE result
  /\ scheduled' = Tail(scheduled)
  /\ UNCHANGED <<driver, pairing, asking, pending, said, log, channel, agent, chunk>>

\* A client knows an approval id once its approval.request was handed out.
Known(a) == \E i \in 1 .. taken : log[i].aid = a

DecisionOf(choice) == IF choice \in RejectWords THEN "reject" ELSE "approve"

\* Mutant: the result is never handed to the loop.
MutantRespondUnscheduled(a, choice) ==
  /\ registered /\ a \in pending /\ Known(a) /\ result[a] = "none"
  /\ pending' = pending \ {a}
  /\ said' = [said EXCEPT ![a] = DecisionOf(choice)]
  /\ UNCHANGED <<driver, pairing, asking, scheduled, result, log, channel, agent, chunk>>

\* respond_approval returns True: the future leaves run.pending and its
\* result is scheduled.
Respond(a, choice) ==
  /\ registered /\ a \in pending /\ Known(a) /\ result[a] = "none"
  /\ pending' = pending \ {a}
  /\ said' = [said EXCEPT ![a] = DecisionOf(choice)]
  /\ scheduled' = Append(scheduled, <<a, DecisionOf(choice)>>)
  /\ UNCHANGED <<driver, pairing, asking, result, log, channel, agent, chunk>>

\* respond_approval returns False on a future a cancel has already resolved.
RespondLate(a) ==
  /\ registered /\ a \in pending /\ Known(a) /\ result[a] # "none"
  /\ pending' = pending \ {a}
  /\ UNCHANGED <<driver, pairing, asking, result, scheduled, said, log, channel,
                 agent, chunk>>

\* Mutant: cancel_run only sets the flag.
MutantUnanswered == {}
Unanswered == {a \in pending : result[a] = "none"}

\* cancel_run: the flag, and a rejection for every future not answered.
Cancel ==
  /\ registered /\ cancels < MaxCancels
  /\ cancels' = cancels + 1
  /\ \E q \in Ascending(Unanswered) :
       scheduled' = scheduled \o [i \in 1 .. Len(q) |-> <<q[i], "reject">>]
  /\ UNCHANGED <<pc, auto, pairing, asking, pending, result, said, log, channel,
                 agent, chunk>>

\* event_stream starts; without the run it yields "unknown run_id" and ends.
OpenStream(s) ==
  /\ stream[s] = "idle" /\ pc # "new"
  /\ stream' = [stream EXCEPT ![s] = IF registered THEN "open" ELSE "closed"]
  /\ UNCHANGED <<driver, pairing, asking, answers, log, taken, registered, agent, chunk>>

\* An event_stream that ends takes the run out of _RUNS, whichever way.
TakeEvent(s) ==
  LET last == log[taken + 1].ev = "__end__"
  IN /\ stream[s] = "open" /\ taken < Len(log)
     /\ taken' = taken + 1
     /\ stream' = [stream EXCEPT ![s] = IF last THEN "closed" ELSE "open"]
     /\ registered' = (registered /\ ~ last)
     /\ UNCHANGED <<driver, pairing, asking, answers, log, agent, chunk>>

DropStream(s) ==
  /\ stream[s] = "open"
  /\ stream' = [stream EXCEPT ![s] = "closed"]
  /\ registered' = FALSE
  /\ UNCHANGED <<driver, pairing, asking, answers, log, taken, agent, chunk>>

ClientStep ==
  \/ \E approve, replace \in BOOLEAN : StartRun(approve, replace)
  \/ \E a \in Calls : RespondLate(a) \/ \E choice \in Choices : Respond(a, choice)
  \/ Cancel
  \/ \E s \in Streams : OpenStream(s) \/ TakeEvent(s) \/ DropStream(s)

Next == ClientStep \/ DeliverResult \/ GraphStep \/ DriveStep

(***************************************************************************)
(* Fairness.  asyncio runs every ready callback and task, the graph's      *)
(* model and tool calls return (provider clients have time limits), and a  *)
(* generator that is being read hands out what is queued.  Nothing is      *)
(* assumed of the user: no one has to answer, to cancel or to connect.     *)
(***************************************************************************)
Fairness ==
  /\ WF_vars(DriveStep)
  /\ WF_vars(DeliverResult)
  /\ WF_vars(GraphStep)
  /\ \A s \in Streams : WF_vars(TakeEvent(s))

Spec == Init /\ [][Next]_vars /\ Fairness

-----------------------------------------------------------------------------
(* Safety *)

\* HITL: a gated tool runs only if the run is in auto-approve mode or the user
\* approved the very action request that showed this call (runs.py:276-301).
ApprovedBeforeExecuted ==
  \A c \in executed :
    Gated(c) /\ ~ auto => \E a \in Calls : about[a] = c /\ said[a] = "approve"

\* The event contract: a finished run has put exactly one terminal event on
\* its queue, right before __end__, and an unfinished one has put none.
Closing == Terminal \cup {"__end__"}
OneTerminalEvent ==
  LET ends == {i \in 1 .. Len(log) : log[i].ev \in Closing}
      n == Len(log)
  IN IF pc = "ended"
     THEN ends = {n - 1, n} /\ log[n].ev = "__end__" /\ log[n - 1].ev \in Terminal
     ELSE ends = {}

\* What the client builds its tool cards from: a result or an approval card is
\* never announced for a call whose tool.started was not announced before it,
\* and a gated call's result comes after its approval.request.
At(name, c) == {i \in 1 .. Len(log) : log[i].ev = name /\ log[i].call = c}
EventsInOrder ==
  \A c \in Calls :
    /\ \A i \in At("approval.request", c) \cup At("tool.completed", c) :
         \E j \in At("tool.started", c) : j < i
    /\ Gated(c) /\ ~ auto =>
         \A i \in At("tool.completed", c) :
           \E j \in At("approval.request", c) : j < i

\* No future is lost: while _drive awaits, each unresolved future can still be
\* reached by a respond or a cancel, or its result is already scheduled.
NoLostFuture ==
  pc = "awaiting" =>
    \A i \in 1 .. Len(futs) :
      \/ result[futs[i]] # "none"
      \/ futs[i] \in pending
      \/ \E j \in 1 .. Len(scheduled) : scheduled[j][1] = futs[i]

\* The pairing of runs.py:284-291: an approval.request carries the id of the
\* tool call it asks about.
CardIsCall ==
  \A i \in 1 .. Len(log) :
    log[i].ev = "approval.request" => log[i].card = log[i].call

\* The positional pairing is right over any number of rounds, batches and
\* tools, as long as the stream announces each call once.
CardIsCallIfAnnouncedOnce ==
  (\A c \in Calls : Cardinality(At("tool.started", c)) <= 1) => CardIsCall

\* What a client reads is in order and about the right calls: a result or an
\* approval is announced after its call, and each approval names the call it
\* asks about.
EventsAreRight == EventsInOrder /\ CardIsCallIfAnnouncedOnce

(* Action and temporal properties *)

\* A cancel that reaches a run before its last chunk is read silences it: of
\* the events queued later none reports progress (runs.py:181 and 264-266).
CancelSilences ==
  [][cancelled /\ pc \in {"prune", "streaming", "awaiting"} =>
       \A i \in Len(log) + 1 .. Len(log') :
         log'[i].ev \in {"run.cancelled", "run.failed", "__end__"}]_vars

\* Stop pressed while approvals are asked: none of the calls of that message
\* runs, not even one approved just before; the resumed graph goes no further
\* than its next chunk.
StopBeforeResume ==
  [](pc = "awaiting" /\ cancelled => [](executed \cap batch = {}))

\* A cancel silences the run, and none of the calls it was asking about runs.
CancelWorks == CancelSilences /\ StopBeforeResume

\* Every cancelled run ends, also one that waits for answers, with no help
\* from the user and whether or not anyone reads its stream.
CancelEnds == cancelled ~> pc \in {"ended", "dead"}

\* A round whose approvals are all answered is resumed.
AnsweredResumes ==
  (pc = "awaiting" /\ \A i \in 1 .. Len(futs) : said[futs[i]] # "none")
    ~> pc # "awaiting"

\* The module docstring's contract (runs.py:5-6): whoever reads the events of a
\* run that nobody needs to answer gets the end of the stream.  Does not hold:
\* an exception of the prune (runs.py:145) ends the task without any event.
StreamEnds ==
  \A s \in Streams : stream[s] = "open" /\ auto ~> stream[s] = "closed"

\* The same for a run that its prune did not lose.
ServedStreamEnds ==
  \A s \in Streams : stream[s] = "open" /\ auto ~> stream[s] = "closed" \/ pc = "dead"

-----------------------------------------------------------------------------
(* Refinement of RunContract *)

\* The run as its user sees it: its phase or its outcome, the calls it asked
\* about and the answers it accepted.
Status ==
  CASE pc = "new" -> "new"
    [] pc \in {"prune", "streaming", "persisting"} -> "running"
    [] pc = "awaiting" -> "waiting"
    [] pc = "ended" -> log[Len(log) - 1].ev
    [] pc = "dead" -> "lost"
AnswerTo ==
  [c \in Calls |->
     IF \E a \in Calls : about[a] = c
     THEN said[CHOOSE a \in Calls : about[a] = c] ELSE "none"]

Contract == INSTANCE RunContract WITH
  GatedCalls <- {c \in Calls : Gated(c)},
  status <- Status,
  stopped <- cancelled,
  asked <- {about[a] : a \in 1 .. asks},
  answer <- AnswerTo

\* The driver, with its queue, futures and callbacks, keeps the contract of a
\* run: nothing gated takes effect unapproved or twice, no question is passed
\* over, and each outcome means what it says.
ImplementsContract == Contract!Spec
=============================================================================
