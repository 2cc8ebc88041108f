------------------------------ MODULE RunProofs ------------------------------
(***************************************************************************)
(* Invariance proofs for RunDriver: types, the approval gate, the life of  *)
(* the approval futures and the end of the event stream, for any number of *)
(* calls, texts, cancels and streams and any choice words; and for         *)
(* ChatTurn, which is a run with its page: no approval is hidden from the  *)
(* user, and the cards and the state of the turn tell what the run did,    *)
(* for any number of calls and faults.                                     *)
(***************************************************************************)
EXTENDS ChatTurn, FiniteSetTheorems, SequenceTheorems, TLAPS

\* Call ids bound the approval ids: every approval asks about a gated call of
\* its own, so a round can always number its futures within Calls.
AsksBounded ==
  /\ asks <= made
  /\ pc \in {"new", "prune"} => graph = "model"
  /\ pc \in {"new", "prune", "awaiting"} => chunk = NoChunk
  /\ graph = "review" /\ pc = "streaming" => asks + Len(review) <= made
  /\ chunk.kind = "interrupt" /\ pc = "streaming" => graph = "review"

\* No FIFO of call ids is popped more often than it was appended to.
PopsBounded == \A t \in Tools : popped[t] <= Cardinality(Announced(t))

Approved(c) == \E a \in Calls : about[a] = c /\ said[a] = "approve"

\* An approval id that can still be answered has no answer yet, and one that
\* is not issued yet is about no call.
FreshIds ==
  /\ \A a \in pending : a <= asks /\ said[a] = "none"
  /\ \A a \in Calls : a > asks => said[a] = "none" /\ about[a] = NoCall

\* The futures _drive awaits are those of the action requests, in order.
FutsAreReview ==
  pc = "awaiting" =>
    /\ Len(futs) = Len(review)
    /\ \A i \in 1 .. Len(futs) : about[futs[i]] = review[i]

\* An approval on its way to the graph was said by the user.
ApprovalsAreSaid ==
  /\ \A j \in 1 .. Len(scheduled) :
       scheduled[j][2] = "approve" => said[scheduled[j][1]] = "approve"
  /\ \A a \in Calls : result[a] = "approve" => said[a] = "approve"

\* In the graph, what is decided, may run or has run was approved.
GraphIsApproved ==
  ~ auto =>
    /\ graph = "reviewed" =>
         \A j \in DOMAIN review : decisions[j] = "approve" => Approved(review[j])
    /\ \A c \in todo \cup executed : Gated(c) => Approved(c)

AutoIsChosen == pc = "new" => ~ auto

TypeInv == TypeOK /\ AsksBounded /\ PopsBounded
ApprovalInv ==
  /\ TypeInv
  /\ FreshIds /\ FutsAreReview /\ ApprovalsAreSaid /\ AutoIsChosen /\ GraphIsApproved
-----------------------------------------------------------------------------
(* Facts about the operators *)

\* The ascending sequence of a finite set of calls: its length and members.
LEMMA AscendingSeq ==
  ASSUME NEW S \in SUBSET Calls, NEW q \in Ascending(S)
  PROVE  /\ q \in Seq(S) /\ q \in Seq(Calls)
         /\ IsFiniteSet(S) /\ Cardinality(S) \in Nat /\ Len(q) = Cardinality(S)
         /\ \A i \in 1 .. Len(q) : q[i] \in S
<1>1. IsFiniteSet(S)
  <2>1. IsFiniteSet(Calls)
    BY BoundsAssumption, FS_Interval DEF Calls
  <2> QED
    BY <2>1, FS_Subset
<1>2. Cardinality(S) \in Nat
  BY <1>1, FS_CardinalityType
<1>3. q \in [1 .. Cardinality(S) -> S]
  BY DEF Ascending
<1> QED
  BY <1>1, <1>2, <1>3, SeqMonotonic

\* What Pops takes is there to be taken.
LEMMA PopsType ==
  ASSUME TypeOK, PopsBounded, NEW t \in Tools
  PROVE  /\ Pops(t) \in Nat
         /\ popped[t] + Pops(t) <= Cardinality(Announced(t))
         /\ IsFiniteSet(Announced(t)) /\ Cardinality(Announced(t)) \in Nat
<1>1. IsFiniteSet(Announced(t)) /\ Announced(t) \subseteq 1 .. Len(announced)
  <2>1. Len(announced) \in Nat /\ DOMAIN announced = 1 .. Len(announced)
    BY LenProperties DEF TypeOK
  <2>2. IsFiniteSet(1 .. Len(announced))
    BY <2>1, FS_Interval
  <2> QED
    BY <2>1, <2>2, FS_Subset DEF Announced
<1>2. IsFiniteSet(Requests(t))
  <2>1. Len(review) \in Nat /\ DOMAIN review = 1 .. Len(review)
    BY LenProperties DEF TypeOK, GraphTypeOK
  <2>2. IsFiniteSet(1 .. Len(review))
    BY <2>1, FS_Interval
  <2> QED
    BY <2>1, <2>2, FS_Subset DEF Requests
<1>3. Cardinality(Announced(t)) \in Nat /\ Cardinality(Requests(t)) \in Nat
  BY <1>1, <1>2, FS_CardinalityType
<1>4. popped[t] \in Nat /\ popped[t] <= Cardinality(Announced(t))
  BY DEF TypeOK, PopsBounded
<1> QED
  BY <1>1, <1>3, <1>4 DEF Pops

\* A card shows a call that was announced, or none.
LEMMA CardType ==
  ASSUME TypeOK, NEW i \in 1 .. Len(review)
  PROVE  Card(i) \in Calls \cup {NoCall}
<1>1. \A p \in Announced(ToolOf[review[i]]) : announced[p] \in Calls
  BY LenProperties, ElementOfSeq DEF TypeOK, Announced
<1> QED
  BY <1>1 DEF Card

\* The events of a list of calls.
LEMMA EachCallType ==
  ASSUME NEW name \in Names, NEW calls \in Seq(Calls)
  PROVE  /\ EachCall(name, calls) \in Seq(Events)
         /\ Len(EachCall(name, calls)) = Len(calls)
         /\ \A i \in 1 .. Len(calls) : EachCall(name, calls)[i].ev = name
<1>1. Len(calls) \in Nat /\ \A i \in 1 .. Len(calls) : calls[i] \in Calls
  BY LenProperties, ElementOfSeq
<1>2. \A i \in 1 .. Len(calls) : Event(name, calls[i], 0, calls[i]) \in Events
  BY <1>1 DEF Event, Events
<1> QED
  BY <1>1, <1>2 DEF EachCall, Event

LEMMA PlainType ==
  ASSUME NEW name \in Names
  PROVE  Plain(name) \in Events /\ Plain(name).ev = name
BY DEF Plain, Event, Events

LEMMA ChunkType ==
  ASSUME NEW kind \in {"none", "text", "update", "interrupt", "end", "error"},
         NEW started \in Seq(Calls), NEW completed \in Seq(Calls)
  PROVE  /\ Chunk(kind, started, completed) \in Chunks
         /\ Chunk(kind, started, completed).kind = kind
BY DEF Chunk, Chunks

LEMMA EmptyType == <<>> \in Seq(Calls) /\ Len(<<>>) = 0
BY EmptySeq

-----------------------------------------------------------------------------
(* Types *)

LEMMA TypeInit == Init => TypeInv
<1> SUFFICES ASSUME Init PROVE TypeInv
  OBVIOUS
<1>1. GraphTypeOK
  <2>1. chunk \in Chunks
    BY ChunkType, EmptyType DEF Init, GraphInit, NoChunk
  <2> QED
    BY <2>1, EmptySeq, BoundsAssumption DEF Init, GraphInit, GraphTypeOK
<1>2. TypeOK
  <2>1. /\ <<>> \in Seq(Calls) /\ <<>> \in Seq(Events)
        /\ <<>> \in Seq(Calls \X Decisions)
    BY EmptySeq
  <2>2. cancels \in 0 .. MaxCancels /\ asks \in 0 .. MaxCalls
    BY BoundsAssumption, CancelsAssumption DEF Init
  <2> QED
    BY <1>1, <2>1, <2>2 DEF Init, TypeOK
<1>3. AsksBounded
  BY DEF Init, GraphInit, AsksBounded, NoChunk, Chunk
<1>4. PopsBounded
  <2>1. \A t \in Tools : Announced(t) = {}
    BY DEF Init, Announced
  <2>2. Cardinality({}) = 0
    BY FS_EmptySet
  <2>3. \A t \in Tools : popped[t] = 0
    BY DEF Init
  <2> QED
    BY <2>1, <2>2, <2>3 DEF PopsBounded
<1> QED
  BY <1>2, <1>3, <1>4 DEF TypeInv

\* The graph's own steps.
LEMMA TypeGraph ==
  ASSUME TypeInv, GraphStep
  PROVE  TypeInv'
<1> USE DEF TypeInv
<1>1. UNCHANGED <<pc, auto, cancels, announced, popped, asks, futs, about, pending,
                  result, scheduled, said, log, taken, registered, stream>>
  BY DEF GraphStep, driver, pairing, asking, answers, channel
<1>2. PopsBounded'
  BY <1>1 DEF PopsBounded, Announced
<1>3. SUFFICES GraphTypeOK' /\ AsksBounded'
  BY <1>1, <1>2 DEF TypeOK
<1>4. ASSUME NEW c \in Calls, ToolRuns(c)
      PROVE  GraphTypeOK' /\ AsksBounded'
  BY <1>1, <1>4 DEF ToolRuns, TypeOK, GraphTypeOK, AsksBounded
<1>5. ASSUME pc = "streaming", GraphAdvances
      PROVE  GraphTypeOK' /\ AsksBounded'
  <2> USE <1>1, <1>5, ChunkType, EmptyType
  <2>1. CASE GraphText
    <3>1. texts' \in 0 .. MaxTexts
      BY <2>1, BoundsAssumption DEF GraphText, TypeOK, GraphTypeOK
    <3> QED
      BY <2>1, <3>1 DEF GraphText, TypeOK, GraphTypeOK, AsksBounded, AtModel
  <2>2. CASE GraphInterrupts
    BY <2>2 DEF GraphInterrupts, agent, TypeOK, GraphTypeOK, AsksBounded
  <2>3. CASE GraphLaunches
    BY <2>3 DEF GraphLaunches, TypeOK, GraphTypeOK, AsksBounded
  <2>4. CASE GraphEnds
    BY <2>4 DEF GraphEnds, agent, TypeOK, GraphTypeOK, AsksBounded
  <2>5. CASE GraphRaises
    BY <2>5 DEF GraphRaises, agent, TypeOK, GraphTypeOK, AsksBounded
  <2>6. ASSUME NEW n \in 1 .. MaxCalls, GraphCalls(n)
        PROVE  GraphTypeOK' /\ AsksBounded'
    <3> DEFINE new == made + 1 .. made + n
               gated == {c \in new : Gated(c)}
    <3>1. made \in Nat /\ n \in Nat /\ made + n <= MaxCalls /\ made' = made + n
      BY <2>6, BoundsAssumption DEF GraphCalls, TypeOK, GraphTypeOK
    <3>2. gated \in SUBSET Calls /\ new \in SUBSET Calls
      BY <3>1, BoundsAssumption DEF Calls
    <3>3. review' \in Seq(Calls) /\ Len(review') = Cardinality(gated)
      BY <2>6, <3>2, AscendingSeq DEF GraphCalls
    <3>4. Cardinality(gated) \in Nat /\ Cardinality(gated) <= n
      <4>1. IsFiniteSet(new) /\ Cardinality(new) = n
        BY <3>1, FS_Interval
      <4>2. gated \in SUBSET new
        OBVIOUS
      <4> QED
        BY <4>1, <4>2, FS_Subset, FS_CardinalityType
    <3>5. [i \in 1 .. n |-> made + i] \in Seq(Calls)
      BY <3>1, BoundsAssumption DEF Calls
    <3>6. chunk' \in Chunks /\ chunk'.kind = "update"
      <4>1. chunk' = Chunk("update", [i \in 1 .. n |-> made + i], <<>>)
        BY <2>6, Zenon DEF GraphCalls
      <4>2. /\ Chunk("update", [i \in 1 .. n |-> made + i], <<>>) \in Chunks
            /\ Chunk("update", [i \in 1 .. n |-> made + i], <<>>).kind = "update"
        BY <3>5, EmptyType, ChunkType, Zenon
      <4> QED
        BY <4>1, <4>2, Zenon
    <3>7. GraphTypeOK'
      <4>1. made' \in 0 .. MaxCalls
        BY <3>1, BoundsAssumption
      <4>2. todo' \in SUBSET Calls /\ batch' \in SUBSET Calls
            /\ graph' \in {"ready", "review"}
        BY <2>6, <3>2 DEF GraphCalls
      <4> QED
        BY <2>6, <3>3, <3>6, <4>1, <4>2 DEF GraphCalls, TypeOK, GraphTypeOK
    <3>8. AsksBounded'
      BY <2>6, <3>1, <3>3, <3>4, <3>6 DEF GraphCalls, AsksBounded, TypeOK
    <3> QED
      BY <3>7, <3>8
  <2>7. ASSUME NEW again \in Resends, GraphReviews(again)
        PROVE  GraphTypeOK' /\ AsksBounded'
    <3>1. \A d : Verdict(d) \in SUBSET Calls
      BY LenProperties, ElementOfSeq DEF Verdict, TypeOK, GraphTypeOK
    <3>2. batch \in SUBSET Calls /\ {} \in SUBSET Calls
      BY DEF TypeOK, GraphTypeOK
    <3>3. PICK message \in Ascending(IF again THEN batch ELSE {}),
               errors \in Ascending(Verdict("reject")) :
                 chunk' = Chunk("update", message, errors)
      BY <2>7 DEF GraphReviews
    <3>4. message \in Seq(Calls) /\ errors \in Seq(Calls)
      BY <3>1, <3>2, <3>3, AscendingSeq
    <3> QED
      BY <2>7, <3>1, <3>2, <3>3, <3>4
         DEF GraphReviews, TypeOK, GraphTypeOK, AsksBounded
  <2>8. ASSUME NEW c \in Calls, GraphReturns(c)
        PROVE  GraphTypeOK' /\ AsksBounded'
    <3>1. <<>> \in Seq(Calls) /\ <<c>> \in Seq(Calls)
      OBVIOUS
    <3> QED
      BY <2>8, <3>1 DEF GraphReturns, TypeOK, GraphTypeOK, AsksBounded
  <2> QED
    BY <2>1, <2>2, <2>3, <2>4, <2>5, <2>6, <2>7, <2>8 DEF GraphAdvances
<1> QED
  BY <1>4, <1>5 DEF GraphStep

\* The terminal event and __end__ are events.
LEMMA FinishType ==
  ASSUME TypeOK, NEW name \in Terminal, Finish(name)
  PROVE  pc' = "ended" /\ log' \in Seq(Events)
<1>1. Plain(name) \in Events /\ Plain("__end__") \in Events
  BY PlainType DEF Terminal, Names
<1>2. log \in Seq(Events) /\ <<Plain(name), Plain("__end__")>> \in Seq(Events)
  BY <1>1 DEF TypeOK
<1> QED
  BY <1>2, ConcatProperties DEF Finish

\* The steps of _drive.
LEMMA TypeDrive ==
  ASSUME TypeInv, DriveStep
  PROVE  TypeInv'
<1> USE DEF TypeInv
<1>0. NoChunk \in Chunks /\ NoChunk.kind = "none"
  BY ChunkType, EmptyType DEF NoChunk
<1>1. CASE PruneDone
  BY <1>0, <1>1 DEF PruneDone, TypeOK, GraphTypeOK, AsksBounded, PopsBounded, Announced,
     pairing, asking, answers, channel, agent
<1>2. CASE PruneRaises
  BY <1>2 DEF PruneRaises, TypeOK, GraphTypeOK, AsksBounded, PopsBounded, Announced,
     pairing, asking, answers, channel, agent
<1>3. CASE ReadCancelled
  <2>1. pc' = "ended" /\ log' \in Seq(Events)
    BY <1>3, FinishType DEF ReadCancelled, Terminal
  <2> QED
    BY <1>3, <2>1, <1>0 DEF ReadCancelled, Reads, TypeOK, GraphTypeOK, AsksBounded,
       PopsBounded, Announced, pairing, asking, answers, channel, agent
<1>4. CASE ReadError
  <2>1. pc' = "ended" /\ log' \in Seq(Events)
    BY <1>4, FinishType DEF ReadError, Terminal
  <2> QED
    BY <1>4, <2>1, <1>0 DEF ReadError, Reads, TypeOK, GraphTypeOK, AsksBounded,
       PopsBounded, Announced, pairing, asking, answers, channel, agent
<1>5. CASE ReadText
  <2>1. Plain("message.delta") \in Events
    BY PlainType DEF Names
  <2>2. log' \in Seq(Events)
    BY <1>5, <2>1, AppendProperties DEF ReadText, TypeOK
  <2> QED
    BY <1>5, <2>2, <1>0 DEF ReadText, Reads, TypeOK, GraphTypeOK, AsksBounded,
       PopsBounded, Announced, driver, pairing, asking, answers, channel, agent
<1>6. CASE ReadUpdate
  <2>1. chunk.started \in Seq(Calls) /\ chunk.completed \in Seq(Calls)
    BY DEF TypeOK, GraphTypeOK, Chunks
  <2>2. EachCall("tool.started", chunk.started) \in Seq(Events)
        /\ EachCall("tool.completed", chunk.completed) \in Seq(Events)
    BY <2>1, EachCallType DEF Names
  <2>3. log' \in Seq(Events)
    BY <1>6, <2>2, ConcatProperties DEF ReadUpdate, TypeOK
  <2>4. announced' \in Seq(Calls) /\ Len(announced') = Len(announced) + Len(chunk.started)
        /\ \A p \in 1 .. Len(announced) : announced'[p] = announced[p]
    BY <1>6, <2>1, ConcatProperties, LenProperties DEF ReadUpdate, TypeOK
  <2>5. PopsBounded'
    <3>1. SUFFICES ASSUME NEW t \in Tools
                   PROVE  popped[t] <= Cardinality(Announced(t)')
      BY <1>6 DEF ReadUpdate, PopsBounded
    <3>2. Announced(t) \subseteq Announced(t)' /\ Announced(t)' \subseteq 1 .. Len(announced')
      <4>1. DOMAIN announced = 1 .. Len(announced) /\ DOMAIN announced' = 1 .. Len(announced')
            /\ Len(announced) \in Nat /\ Len(chunk.started) \in Nat
        BY <2>1, <2>4, LenProperties DEF TypeOK
      <4>2. DOMAIN announced \subseteq DOMAIN announced'
        BY <2>4, <4>1
      <4> QED
        BY <2>4, <4>1, <4>2 DEF Announced
    <3>3. IsFiniteSet(Announced(t)')
      <4>1. Len(announced') \in Int
        BY <2>4, LenProperties
      <4>2. IsFiniteSet(1 .. Len(announced'))
        BY <4>1, FS_Interval
      <4> QED
        BY <3>2, <4>2, FS_Subset, Zenon
    <3>4. Cardinality(Announced(t)) \in Nat /\ Cardinality(Announced(t)') \in Nat
          /\ Cardinality(Announced(t)) <= Cardinality(Announced(t)')
      BY <3>2, <3>3, FS_Subset, FS_CardinalityType
    <3> QED
      BY <3>4 DEF PopsBounded, TypeOK
  <2> QED
    BY <1>6, <2>3, <2>4, <2>5, <1>0 DEF ReadUpdate, Reads, TypeOK, GraphTypeOK,
       AsksBounded, driver, asking, answers, channel, agent
<1>7. CASE AskApproval
  <2> DEFINE n == Len(review)
             events == [i \in 1 .. n |->
                          Event("approval.request", review[i], asks + i, Card(i))]
  <2>1. n \in Nat /\ asks \in Nat /\ asks + n <= MaxCalls
        /\ \A i \in 1 .. n : review[i] \in Calls /\ asks + i \in Calls
    <3>1. graph = "review" /\ asks + Len(review) <= made
      BY <1>7 DEF AskApproval, Reads, AsksBounded
    <3> QED
      BY <3>1, LenProperties, ElementOfSeq, BoundsAssumption
         DEF TypeOK, GraphTypeOK, Calls
  <2>2. \A i \in 1 .. n :
          Event("approval.request", review[i], asks + i, Card(i)) \in Events
    BY <2>1, CardType DEF Event, Events, Names
  <2>3. log' \in Seq(Events)
    <3>1. events \in Seq(Events)
      BY <2>1, <2>2
    <3>2. log' = log \o events /\ log \in Seq(Events)
      BY <1>7 DEF AskApproval, TypeOK
    <3> QED
      BY <3>1, <3>2, ConcatProperties
  <2>4. asks' \in 0 .. MaxCalls /\ futs' \in Seq(Calls) /\ pending' \in SUBSET Calls
        /\ asks + 1 .. asks + n \subseteq Calls
    <3>1. futs' = [i \in 1 .. n |-> asks + i] /\ asks' = asks + n
          /\ pending' = pending \cup Futures(n)
      BY <1>7 DEF AskApproval
    <3>2. asks + 1 .. asks + n \subseteq Calls
      BY <2>1, BoundsAssumption DEF Calls
    <3> QED
      BY <2>1, <3>1, <3>2, BoundsAssumption DEF TypeOK, Futures
  <2>5. about' \in [Calls -> Calls \cup {NoCall}]
    <3>1. \A a \in asks + 1 .. asks + n : review[a - asks] \in Calls
      BY <2>1
    <3> QED
      BY <1>7, <3>1 DEF AskApproval, TypeOK
  <2>6. popped' \in [Tools -> Nat] /\ PopsBounded'
    <3>1. popped' = [t \in Tools |-> popped[t] + Pops(t)] /\ announced' = announced
      BY <1>7 DEF AskApproval
    <3>2. \A t \in Tools : popped[t] \in Nat /\ Pops(t) \in Nat
                           /\ popped[t] + Pops(t) <= Cardinality(Announced(t))
      BY PopsType DEF TypeOK
    <3>3. \A t \in Tools : Announced(t)' = Announced(t)
      BY <3>1 DEF Announced
    <3>4. \A t \in Tools : popped'[t] = popped[t] + Pops(t)
      BY <3>1
    <3>5. popped' \in [Tools -> Nat]
      BY <3>1, <3>2
    <3> QED
      BY <3>2, <3>3, <3>4, <3>5 DEF PopsBounded
  <2>7. AsksBounded'
    BY <1>7, <1>0, <2>1 DEF AskApproval, Reads, AsksBounded, agent, TypeOK, GraphTypeOK
  <2>8. GraphTypeOK'
    BY <1>7, <1>0 DEF AskApproval, Reads, agent, TypeOK, GraphTypeOK
  <2> QED
    BY <1>7, <2>3, <2>4, <2>5, <2>6, <2>7, <2>8 DEF AskApproval, TypeOK, channel
<1>8. CASE AutoApprove
  <2>1. decisions' \in Seq({"approve", "reject"})
    BY <1>8, LenProperties DEF AutoApprove, ResumeWith, TypeOK, GraphTypeOK
  <2> QED
    BY <1>8, <1>0, <2>1 DEF AutoApprove, ResumeWith, Reads, TypeOK, GraphTypeOK,
       AsksBounded, PopsBounded, Announced, driver, pairing, asking, answers, channel
<1>9. CASE Resume
  <2>1. Resolved \in Seq({"approve", "reject"})
    <3>1. Len(futs) \in Nat /\ \A i \in 1 .. Len(futs) : futs[i] \in Calls
      BY LenProperties, ElementOfSeq DEF TypeOK
    <3>2. \A i \in 1 .. Len(futs) : result[futs[i]] \in {"approve", "reject"}
      BY <1>9, <3>1 DEF Resume, TypeOK, Decisions
    <3> QED
      BY <3>1, <3>2 DEF Resolved
  <2> QED
    BY <1>0, <1>9, <2>1 DEF Resume, ResumeWith, TypeOK, GraphTypeOK, AsksBounded,
       PopsBounded, Announced, pairing, asking, answers, channel
<1>10. ASSUME NEW hasSources \in BOOLEAN, NEW hasUsage \in BOOLEAN,
              ReadEnd(hasSources, hasUsage)
       PROVE  TypeInv'
  <2>1. pc' \in {"ended", "persisting"} /\ log' \in Seq(Events)
    <3>1. Plain("sources") \in Events
      BY PlainType DEF Names
    <3>2. log \o <<Plain("sources")>> \in Seq(Events) /\ log \o <<>> \in Seq(Events)
      BY <3>1, ConcatProperties, EmptySeq DEF TypeOK
    <3>3. Finish("run.completed") => pc' = "ended" /\ log' \in Seq(Events)
      BY FinishType DEF Terminal
    <3> QED
      BY <1>10, <3>2, <3>3 DEF ReadEnd
  <2> QED
    BY <1>10, <2>1, <1>0 DEF ReadEnd, Reads, TypeOK, GraphTypeOK, AsksBounded,
       PopsBounded, Announced, pairing, asking, answers, channel, agent
<1>11. CASE PersistDone
  <2>1. pc' = "ended" /\ log' \in Seq(Events)
    BY <1>11, FinishType DEF PersistDone, Terminal
  <2> QED
    BY <1>11, <2>1 DEF PersistDone, TypeOK, GraphTypeOK, AsksBounded,
       PopsBounded, Announced, pairing, asking, answers, channel, agent
<1> QED
  BY <1>1, <1>2, <1>3, <1>4, <1>5, <1>6, <1>7, <1>8, <1>9, <1>10, <1>11 DEF DriveStep

\* The callbacks of the loop and the HTTP operations leave the graph alone.
LEMMA TypeClient ==
  ASSUME TypeInv, ClientStep \/ DeliverResult
  PROVE  TypeInv'
<1> USE DEF TypeInv
<1>1. CASE DeliverResult
  <2>1. Head(scheduled) \in Calls \X Decisions /\ Tail(scheduled) \in Seq(Calls \X Decisions)
    BY <1>1, HeadTailProperties DEF DeliverResult, TypeOK
  <2>2. result' \in [Calls -> Decisions \cup {"none"}]
    BY <1>1, <2>1 DEF DeliverResult, TypeOK
  <2> QED
    BY <1>1, <2>1, <2>2 DEF DeliverResult, TypeOK, GraphTypeOK, AsksBounded,
       PopsBounded, Announced, driver, pairing, asking, channel, agent
<1>2. ASSUME NEW approve \in BOOLEAN, NEW replace \in BOOLEAN,
             StartRun(approve, replace)
      PROVE  TypeInv'
  BY <1>2 DEF StartRun, TypeOK, GraphTypeOK, AsksBounded, PopsBounded, Announced,
     NoChunk, Chunk, pairing, asking, answers, agent
<1>3. ASSUME NEW a \in Calls, RespondLate(a)
      PROVE  TypeInv'
  BY <1>3 DEF RespondLate, TypeOK, GraphTypeOK, AsksBounded, PopsBounded, Announced,
     driver, pairing, asking, channel, agent
<1>4. ASSUME NEW a \in Calls, NEW choice \in Choices, Respond(a, choice)
      PROVE  TypeInv'
  <2>1. DecisionOf(choice) \in Decisions
    BY DEF DecisionOf, Decisions
  <2>2. scheduled' \in Seq(Calls \X Decisions)
    BY <1>4, <2>1, AppendProperties DEF Respond, TypeOK
  <2>3. said' \in [Calls -> Decisions \cup {"none"}]
    BY <1>4, <2>1 DEF Respond, TypeOK
  <2> QED
    BY <1>4, <2>2, <2>3 DEF Respond, TypeOK, GraphTypeOK, AsksBounded, PopsBounded,
       Announced, driver, pairing, asking, channel, agent
<1>5. CASE Cancel
  <2>1. PICK q \in Ascending(Unanswered) :
          scheduled' = scheduled \o [i \in 1 .. Len(q) |-> <<q[i], "reject">>]
    BY <1>5 DEF Cancel
  <2>2. Len(q) \in Nat /\ \A i \in 1 .. Len(q) : q[i] \in Calls
    <3>1. Unanswered \in SUBSET Calls
      BY DEF Unanswered, TypeOK
    <3> QED
      BY <2>1, <3>1, AscendingSeq
  <2>3. [i \in 1 .. Len(q) |-> <<q[i], "reject">>] \in Seq(Calls \X Decisions)
    BY <2>2 DEF Decisions
  <2>4. scheduled' \in Seq(Calls \X Decisions)
    BY <2>1, <2>3, ConcatProperties DEF TypeOK
  <2>5. cancels' \in 0 .. MaxCancels
    BY <1>5, CancelsAssumption DEF Cancel, TypeOK
  <2> QED
    BY <1>5, <2>4, <2>5 DEF Cancel, TypeOK, GraphTypeOK, AsksBounded, PopsBounded,
       Announced, pairing, asking, channel, agent
<1>6. ASSUME NEW s \in Streams, OpenStream(s) \/ TakeEvent(s) \/ DropStream(s)
      PROVE  TypeInv'
  <2>1. stream' \in [Streams -> {"idle", "open", "closed"}] /\ taken' \in Nat
    <3>1. \E end \in {"open", "closed"} : stream' = [stream EXCEPT ![s] = end]
      BY <1>6, Zenon DEF OpenStream, TakeEvent, DropStream
    <3>2. taken' = taken \/ taken' = taken + 1
      BY <1>6 DEF OpenStream, TakeEvent, DropStream
    <3> QED
      BY <3>1, <3>2 DEF TypeOK
  <2>2. registered' \in BOOLEAN
    BY <1>6, ZenonT(20) DEF OpenStream, TakeEvent, DropStream, TypeOK
  <2>3. UNCHANGED <<driver, pairing, asking, answers, log, agent, chunk>>
    BY <1>6 DEF OpenStream, TakeEvent, DropStream
  <2> QED
    BY <2>1, <2>2, <2>3 DEF TypeOK, GraphTypeOK, AsksBounded, PopsBounded, Announced,
       driver, pairing, asking, answers, agent
<1> QED
  BY <1>1, <1>2, <1>3, <1>4, <1>5, <1>6 DEF ClientStep

LEMMA TypeNext ==
  ASSUME TypeInv, [Next]_vars
  PROVE  TypeInv'
<1>1. CASE Next
  BY <1>1, TypeGraph, TypeDrive, TypeClient DEF Next
<1>2. CASE UNCHANGED vars
  BY <1>2 DEF vars, driver, pairing, asking, answers, channel, agent, TypeInv,
     TypeOK, GraphTypeOK, AsksBounded, PopsBounded, Announced
<1> QED
  BY <1>1, <1>2

LEMMA TypeInvariant == Spec => []TypeInv
BY TypeInit, TypeNext, PTL DEF Spec

\* Every variable keeps its type; in particular a round of approvals never
\* runs out of approval ids, whatever the stream repeats.
THEOREM TypeCorrect == Spec => []TypeOK
<1>1. TypeInv => TypeOK
  BY DEF TypeInv
<1> QED
  BY <1>1, TypeInvariant, PTL

-----------------------------------------------------------------------------
(* Nothing gated runs unapproved *)

LEMMA ApprovalInit == Init => ApprovalInv
<1> SUFFICES ASSUME Init PROVE ApprovalInv
  OBVIOUS
<1>1. TypeInv
  BY TypeInit
<1>2. Len(scheduled) = 0 /\ graph = "model"
  BY EmptySeq DEF Init, GraphInit
<1> QED
  BY <1>1, <1>2 DEF Init, GraphInit, ApprovalInv, FreshIds, FutsAreReview,
     ApprovalsAreSaid, AutoIsChosen, GraphIsApproved

\* An approval, once given, stays given, and stays about the same call.
LEMMA ApprovedKept ==
  ASSUME ApprovalInv, Next
  PROVE  \A c : Approved(c) => Approved(c)'
<1>1. SUFFICES ASSUME NEW a \in Calls, said[a] = "approve"
               PROVE  about'[a] = about[a] /\ said'[a] = "approve"
  BY <1>1 DEF Approved
<1>2. a \notin pending /\ a <= asks
  BY <1>1 DEF ApprovalInv, FreshIds, TypeInv, TypeOK, Calls
<1>3. about'[a] = about[a]
  <2>1. CASE AskApproval
    BY <1>2, <2>1 DEF AskApproval, ApprovalInv, TypeInv, TypeOK, Calls
  <2>2. CASE ~ AskApproval
    BY <2>2 DEF Next, ClientStep, StartRun, RespondLate, Respond, Cancel, OpenStream,
       TakeEvent, DropStream, DeliverResult, GraphStep, DriveStep, PruneDone,
       PruneRaises, ReadCancelled, ReadError, ReadText, ReadUpdate, AutoApprove,
       Resume, PersistDone, ReadEnd, asking
  <2> QED
    BY <2>1, <2>2
<1>4. said'[a] = "approve"
  <2>1. ASSUME NEW b \in Calls, NEW choice \in Choices, Respond(b, choice)
        PROVE  said'[a] = "approve"
    BY <1>1, <1>2, <2>1 DEF Respond, ApprovalInv, TypeInv, TypeOK
  <2>2. ASSUME ~ \E b \in Calls, choice \in Choices : Respond(b, choice)
        PROVE  said' = said
    BY <2>2 DEF Next, ClientStep, StartRun, RespondLate, Cancel, OpenStream,
       TakeEvent, DropStream, DeliverResult, GraphStep, DriveStep, PruneDone,
       PruneRaises, ReadCancelled, ReadError, ReadText, ReadUpdate, AskApproval,
       AutoApprove, Resume, PersistDone, ReadEnd, answers
  <2> QED
    BY <1>1, <2>1, <2>2
<1> QED
  BY <1>3, <1>4

\* A step that touches neither the futures nor the graph.
LEMMA QuietStep ==
  ASSUME ApprovalInv, TypeInv', UNCHANGED <<asking, answers, agent>>,
         pc' = pc \/ pc' \notin {"awaiting", "new"},
         auto' = auto \/ (pc = "new" /\ pc' # "new")
  PROVE  ApprovalInv'
BY DEF ApprovalInv, asking, answers, agent, FreshIds, FutsAreReview,
   ApprovalsAreSaid, AutoIsChosen, GraphIsApproved, Approved

LEMMA ApprovalClient ==
  ASSUME ApprovalInv, TypeInv', ClientStep \/ DeliverResult
  PROVE  ApprovalInv'
<1>1. CASE DeliverResult
  <2>1. /\ Head(scheduled) = scheduled[1] /\ Len(scheduled) \in Nat /\ Len(scheduled) >= 1
        /\ Len(Tail(scheduled)) = Len(scheduled) - 1
        /\ \A j \in 1 .. Len(Tail(scheduled)) : Tail(scheduled)[j] = scheduled[j + 1]
        /\ scheduled[1][1] \in Calls
    BY <1>1, HeadTailProperties, EmptySeq, ElementOfSeq, LenProperties
       DEF DeliverResult, ApprovalInv, TypeInv, TypeOK
  <2>2. ApprovalsAreSaid'
    BY <1>1, <2>1 DEF DeliverResult, ApprovalInv, ApprovalsAreSaid, TypeInv, TypeOK
  <2> QED
    BY <1>1, <2>2 DEF DeliverResult, ApprovalInv, driver, asking, agent, FreshIds,
       FutsAreReview, AutoIsChosen, GraphIsApproved, Approved
<1>2. ASSUME NEW approve \in BOOLEAN, NEW replace \in BOOLEAN,
             StartRun(approve, replace)
      PROVE  ApprovalInv'
  BY <1>2, QuietStep DEF StartRun
<1>3. ASSUME NEW a \in Calls, RespondLate(a)
      PROVE  ApprovalInv'
  BY <1>3 DEF RespondLate, ApprovalInv, driver, asking, agent, FreshIds,
     FutsAreReview, ApprovalsAreSaid, AutoIsChosen, GraphIsApproved, Approved
<1>4. ASSUME NEW a \in Calls, NEW choice \in Choices, Respond(a, choice)
      PROVE  ApprovalInv'
  <2>1. a <= asks /\ said[a] = "none" /\ result[a] = "none"
    BY <1>4 DEF Respond, ApprovalInv, FreshIds
  <2>2. /\ Len(scheduled) \in Nat /\ Len(scheduled') = Len(scheduled) + 1
        /\ \A j \in 1 .. Len(scheduled) : scheduled'[j] = scheduled[j]
        /\ scheduled'[Len(scheduled) + 1] = <<a, DecisionOf(choice)>>
    BY <1>4, AppendProperties, LenProperties DEF Respond, ApprovalInv, TypeInv, TypeOK, Decisions, DecisionOf
  <2>3. \A c : Approved(c) => Approved(c)'
    BY <1>4, ApprovedKept DEF Next, ClientStep
  <2>4. said' = [said EXCEPT ![a] = DecisionOf(choice)] /\ pending' = pending \ {a}
        /\ UNCHANGED <<driver, asking, result, agent>>
    BY <1>4 DEF Respond
  <2>5. FreshIds'
    <3>1. \A b \in Calls : b # a => said'[b] = said[b]
      BY <2>4 DEF ApprovalInv, TypeInv, TypeOK
    <3>2. \A b \in pending' : b \in pending /\ b \in Calls /\ b # a
      BY <2>4 DEF ApprovalInv, TypeInv, TypeOK
    <3>3. \A b \in Calls : b > asks => b # a
      BY <2>1 DEF ApprovalInv, TypeInv, TypeOK, Calls
    <3> QED
      BY <2>4, <3>1, <3>2, <3>3 DEF ApprovalInv, FreshIds, asking
  <2>6. ApprovalsAreSaid'
    <3>1. ASSUME NEW j \in 1 .. Len(scheduled), scheduled[j][2] = "approve"
          PROVE  said'[scheduled[j][1]] = "approve"
      <4>1. scheduled[j][1] \in Calls /\ said[scheduled[j][1]] = "approve"
        BY <3>1, ElementOfSeq DEF ApprovalInv, ApprovalsAreSaid, TypeInv, TypeOK
      <4> QED
        BY <2>1, <2>4, <4>1 DEF ApprovalInv, TypeInv, TypeOK
    <3>2. said'[a] = DecisionOf(choice)
      BY <2>4 DEF ApprovalInv, TypeInv, TypeOK
    <3>3. \A b \in Calls : result'[b] = "approve" => said'[b] = "approve"
      BY <2>1, <2>4 DEF ApprovalInv, ApprovalsAreSaid, TypeInv, TypeOK
    <3>4. ASSUME NEW j \in 1 .. Len(scheduled)
          PROVE  scheduled'[j][2] = "approve" => said'[scheduled'[j][1]] = "approve"
      BY <2>2, <3>1
    <3>5. scheduled'[Len(scheduled) + 1][2] = "approve" =>
            said'[scheduled'[Len(scheduled) + 1][1]] = "approve"
      <4> DEFINE last == scheduled'[Len(scheduled) + 1]
      <4>1. last = <<a, DecisionOf(choice)>>
        BY <2>2
      <4>2. last[1] = a /\ last[2] = DecisionOf(choice)
        BY <4>1
      <4> QED
        BY <3>2, <4>2
    <3>6. \A j \in 1 .. Len(scheduled') :
            j \in 1 .. Len(scheduled) \/ j = Len(scheduled) + 1
      BY <2>2
    <3> QED
      BY <3>3, <3>4, <3>5, <3>6 DEF ApprovalsAreSaid
  <2>7. FutsAreReview' /\ AutoIsChosen'
    BY <2>4 DEF ApprovalInv, FutsAreReview, AutoIsChosen, driver, asking, agent
  <2>8. GraphIsApproved'
    BY <2>3, <2>4 DEF ApprovalInv, GraphIsApproved, driver, agent, Gated
  <2> QED
    BY <2>5, <2>6, <2>7, <2>8 DEF ApprovalInv
<1>5. CASE Cancel
  <2>1. PICK q \in Ascending(Unanswered) :
          scheduled' = scheduled \o [i \in 1 .. Len(q) |-> <<q[i], "reject">>]
    BY <1>5 DEF Cancel
  <2> DEFINE refused == [i \in 1 .. Len(q) |-> <<q[i], "reject">>]
  <2>2. Len(q) \in Nat /\ \A i \in 1 .. Len(q) : q[i] \in Calls
    <3>1. Unanswered \in SUBSET Calls
      BY DEF Unanswered, ApprovalInv, TypeInv, TypeOK
    <3> QED
      BY <2>1, <3>1, AscendingSeq
  <2>3. refused \in Seq(Calls \X Decisions) /\ Len(refused) = Len(q)
        /\ \A i \in 1 .. Len(q) : refused[i][2] = "reject"
    BY <2>2 DEF Decisions
  <2>4. \A j \in 1 .. Len(scheduled') :
          \/ j \in 1 .. Len(scheduled) /\ scheduled'[j] = scheduled[j]
          \/ scheduled'[j][2] = "reject"
    <3>1. scheduled \in Seq(Calls \X Decisions) /\ scheduled' = scheduled \o refused
      BY <2>1 DEF ApprovalInv, TypeInv, TypeOK
    <3>2. Len(scheduled) \in Nat /\ Len(scheduled') = Len(scheduled) + Len(q)
          /\ \A j \in 1 .. Len(scheduled') : scheduled'[j] =
               IF j <= Len(scheduled) THEN scheduled[j] ELSE refused[j - Len(scheduled)]
      BY <2>3, <3>1, ConcatProperties, LenProperties
    <3>3. ASSUME NEW j \in 1 .. Len(scheduled'), ~ j <= Len(scheduled)
          PROVE  scheduled'[j][2] = "reject"
      <4> HIDE DEF refused
      <4>1. j - Len(scheduled) \in 1 .. Len(q)
        BY <2>2, <3>2, <3>3
      <4> QED
        BY <2>3, <3>2, <3>3, <4>1
    <3> HIDE DEF refused
    <3>4. \A j \in 1 .. Len(scheduled') : j <= Len(scheduled) =>
            j \in 1 .. Len(scheduled) /\ scheduled'[j] = scheduled[j]
      BY <3>2
    <3> QED
      BY <3>3, <3>4
  <2>5. UNCHANGED <<pc, auto, asking, pending, result, said, agent>>
    BY <1>5 DEF Cancel
  <2>6. ApprovalsAreSaid'
    BY <2>4, <2>5 DEF ApprovalInv, ApprovalsAreSaid
  <2> QED
    BY <2>5, <2>6 DEF ApprovalInv, asking, agent, FreshIds, FutsAreReview,
       AutoIsChosen, GraphIsApproved, Approved
<1>6. ASSUME NEW s \in Streams, OpenStream(s) \/ TakeEvent(s) \/ DropStream(s)
      PROVE  ApprovalInv'
  BY <1>6, QuietStep DEF OpenStream, TakeEvent, DropStream, driver
<1> QED
  BY <1>1, <1>2, <1>3, <1>4, <1>5, <1>6 DEF ClientStep

LEMMA ApprovalGraph ==
  ASSUME ApprovalInv, TypeInv', GraphStep
  PROVE  ApprovalInv'
<1>1. UNCHANGED <<driver, asking, answers>>
  BY DEF GraphStep
<1>2. FreshIds' /\ ApprovalsAreSaid' /\ AutoIsChosen'
  BY <1>1 DEF ApprovalInv, FreshIds, ApprovalsAreSaid, AutoIsChosen, driver, asking, answers
<1>3. \A c : Approved(c) => Approved(c)'
  BY <1>1 DEF Approved, asking, answers
<1>4. FutsAreReview'
  <2>1. pc = "awaiting" => review' = review
    BY DEF GraphStep, ToolRuns
  <2> QED
    BY <1>1, <2>1 DEF ApprovalInv, FutsAreReview, driver, asking
<1>5. GraphIsApproved'
  <2>1. SUFFICES ASSUME ~ auto
                 PROVE  /\ graph' = "reviewed" =>
                             \A j \in DOMAIN review' :
                               decisions'[j] = "approve" => Approved(review'[j])
                        /\ \A c \in todo' \cup executed' : Gated(c) => Approved(c)
    BY <1>1, <1>3 DEF GraphIsApproved, driver, Gated
  <2>2. /\ graph = "reviewed" =>
             \A j \in DOMAIN review : decisions[j] = "approve" => Approved(review[j])
        /\ \A c \in todo \cup executed : Gated(c) => Approved(c)
    BY <2>1 DEF ApprovalInv, GraphIsApproved
  <2>3. ASSUME NEW c \in Calls, ToolRuns(c)
        PROVE  /\ graph' # "reviewed"
               /\ todo' \cup executed' = todo \cup executed
    BY <2>3 DEF ToolRuns
  <2>4. ASSUME NEW n \in 1 .. MaxCalls, GraphCalls(n)
        PROVE  /\ graph' # "reviewed" /\ executed' = executed
               /\ \A c \in todo' : ~ Gated(c)
    BY <2>4 DEF GraphCalls
  <2>5. ASSUME NEW again \in Resends, GraphReviews(again)
        PROVE  /\ graph' # "reviewed" /\ executed' = executed
               /\ \A c \in todo' : Gated(c) => Approved(c)
    BY <2>2, <2>5 DEF GraphReviews, Verdict
  <2>6. ASSUME NEW c \in Calls, GraphReturns(c)
        PROVE  graph' # "reviewed" /\ todo' = todo /\ executed' = executed
    BY <2>6 DEF GraphReturns
  <2>7. ASSUME GraphText \/ GraphInterrupts \/ GraphLaunches \/ GraphEnds \/ GraphRaises
        PROVE  /\ graph' = "reviewed" => graph = "reviewed"
               /\ UNCHANGED <<review, decisions, todo, executed>>
    BY <2>7 DEF GraphText, GraphInterrupts, GraphLaunches, GraphEnds, GraphRaises, agent
  <2> QED
    BY <2>2, <2>3, <2>4, <2>5, <2>6, <2>7 DEF GraphStep, GraphAdvances
<1> QED
  BY <1>2, <1>4, <1>5 DEF ApprovalInv

LEMMA ApprovalDrive ==
  ASSUME ApprovalInv, TypeInv', DriveStep
  PROVE  ApprovalInv'
<1>1. CASE AskApproval
  <2>1. /\ asks' = asks + Len(review) /\ Len(review) \in Nat
        /\ futs' = [i \in 1 .. Len(review) |-> asks + i]
        /\ pending' = pending \cup Futures(Len(review))
        /\ about' = [a \in Calls |-> IF a \in asks + 1 .. asks + Len(review)
                                     THEN review[a - asks] ELSE about[a]]
        /\ UNCHANGED <<auto, result, scheduled, said, agent>> /\ pc' = "awaiting"
        /\ asks \in Nat /\ asks' <= MaxCalls /\ MaxCalls \in Nat
    BY <1>1, LenProperties, BoundsAssumption
       DEF AskApproval, ApprovalInv, TypeInv, TypeOK, GraphTypeOK
  <2>2. FreshIds'
    <3>1. \A a \in pending' : a \in pending \/ a \in asks + 1 .. asks + Len(review)
      BY <2>1 DEF Futures
    <3>2. asks + 1 .. asks + Len(review) \subseteq Calls
      BY <2>1 DEF Calls
    <3>3. \A a \in pending' : a <= asks' /\ said'[a] = "none"
      BY <2>1, <3>1, <3>2 DEF ApprovalInv, FreshIds, TypeInv, TypeOK, Calls
    <3>4. \A a \in Calls : a > asks' => a > asks /\ about'[a] = about[a]
      BY <2>1 DEF Calls
    <3> QED
      BY <2>1, <3>3, <3>4 DEF ApprovalInv, FreshIds
  <2>3. FutsAreReview'
    <3>1. Len(futs') = Len(review) /\ review' = review
      BY <2>1 DEF agent
    <3>2. ASSUME NEW i \in 1 .. Len(review)
          PROVE  about'[futs'[i]] = review[i]
      <4>1. futs'[i] = asks + i /\ asks + i \in Calls /\ (asks + i) - asks = i
        BY <2>1, <3>2 DEF Calls
      <4> QED
        BY <2>1, <3>2, <4>1
    <3> QED
      BY <3>1, <3>2 DEF FutsAreReview
  <2>4. \A c : Approved(c) => Approved(c)'
    BY <1>1, ApprovedKept DEF Next, DriveStep
  <2> QED
    BY <2>1, <2>2, <2>3, <2>4 DEF ApprovalInv, ApprovalsAreSaid, AutoIsChosen,
       GraphIsApproved, agent, Gated
<1>2. CASE AutoApprove
  BY <1>2 DEF AutoApprove, ResumeWith, Reads, ApprovalInv, FreshIds, FutsAreReview,
     ApprovalsAreSaid, AutoIsChosen, GraphIsApproved, driver, asking, answers
<1>3. CASE Resume
  <2>1. /\ graph' = "reviewed" /\ decisions' = Resolved /\ pc' = "streaming"
        /\ UNCHANGED <<auto, asking, answers, review, todo, executed>>
        /\ pc = "awaiting"
    BY <1>3 DEF Resume, ResumeWith
  <2>2. ASSUME NEW j \in DOMAIN review, decisions'[j] = "approve"
        PROVE  Approved(review[j])
    <3>1. j \in 1 .. Len(futs) /\ about[futs[j]] = review[j]
      <4>1. DOMAIN review = 1 .. Len(review)
        BY LenProperties DEF ApprovalInv, TypeInv, TypeOK, GraphTypeOK
      <4> QED
        BY <2>1, <2>2, <4>1 DEF ApprovalInv, FutsAreReview
    <3>2. futs[j] \in Calls
      BY <3>1, ElementOfSeq DEF ApprovalInv, TypeInv, TypeOK
    <3>3. result[futs[j]] = "approve"
      BY <2>1, <2>2, <3>1 DEF Resolved
    <3> QED
      BY <3>1, <3>2, <3>3 DEF ApprovalInv, ApprovalsAreSaid, Approved
  <2>3. GraphIsApproved'
    BY <2>1, <2>2 DEF ApprovalInv, GraphIsApproved, Approved, Gated, asking, answers
  <2> QED
    BY <2>1, <2>3 DEF ApprovalInv, FreshIds, FutsAreReview, ApprovalsAreSaid,
       AutoIsChosen, asking, answers
<1>4. CASE PruneDone \/ PruneRaises
  BY <1>4, QuietStep DEF PruneDone, PruneRaises
<1>5. CASE ReadCancelled \/ ReadError \/ PersistDone
  BY <1>5, QuietStep DEF ReadCancelled, ReadError, PersistDone, Finish
<1>6. CASE ReadText \/ ReadUpdate
  BY <1>6, QuietStep DEF ReadText, ReadUpdate, driver
<1>7. ASSUME NEW hasSources \in BOOLEAN, NEW hasUsage \in BOOLEAN,
             ReadEnd(hasSources, hasUsage)
      PROVE  ApprovalInv'
  BY <1>7, QuietStep DEF ReadEnd, Finish
<1> QED
  BY <1>1, <1>2, <1>3, <1>4, <1>5, <1>6, <1>7 DEF DriveStep

LEMMA ApprovalNext ==
  ASSUME ApprovalInv, [Next]_vars
  PROVE  ApprovalInv'
<1>1. TypeInv'
  BY TypeNext DEF ApprovalInv
<1>2. CASE Next
  BY <1>1, <1>2, ApprovalClient, ApprovalGraph, ApprovalDrive DEF Next
<1>3. CASE UNCHANGED vars
  BY <1>1, <1>3, QuietStep DEF vars, driver
<1> QED  BY <1>2, <1>3

LEMMA ApprovalInvariant == Spec => []ApprovalInv
BY ApprovalInit, ApprovalNext, PTL DEF Spec

\* The gate of human-in-the-loop mode: a gated tool runs only in auto-approve
\* mode or when the user approved the very request that showed its call.
THEOREM GateHolds == Spec => []ApprovedBeforeExecuted
<1>1. ApprovalInv => ApprovedBeforeExecuted
  BY DEF ApprovalInv, GraphIsApproved, Approved, ApprovedBeforeExecuted
<1> QED
  BY <1>1, ApprovalInvariant, PTL

-----------------------------------------------------------------------------
(* No approval future is lost *)

LEMMA NoLostStep ==
  ASSUME TypeInv, NoLostFuture, [Next]_vars
  PROVE  NoLostFuture'
<1> USE DEF TypeInv
<1>1. CASE AskApproval
  <2>1. /\ Len(review) \in Nat /\ asks \in Nat
        /\ futs' = [i \in 1 .. Len(review) |-> asks + i]
        /\ pending' = pending \cup Futures(Len(review))
    BY <1>1, LenProperties DEF AskApproval, TypeOK, GraphTypeOK
  <2>2. \A i \in 1 .. Len(futs') : futs'[i] \in pending'
    BY <2>1 DEF Futures
  <2> QED
    BY <2>2 DEF NoLostFuture
<1>2. CASE DeliverResult
  <2> DEFINE a == Head(scheduled)[1]
  <2>1. /\ Head(scheduled) = scheduled[1] /\ Len(scheduled) \in Nat
        /\ Len(Tail(scheduled)) = Len(scheduled) - 1
        /\ \A j \in 1 .. Len(Tail(scheduled)) : Tail(scheduled)[j] = scheduled[j + 1]
        /\ Head(scheduled) \in Calls \X Decisions
    BY <1>2, HeadTailProperties, LenProperties DEF DeliverResult, TypeOK
  <2>2. /\ result'[a] # "none"
        /\ \A b \in Calls : result[b] # "none" => result'[b] # "none"
    BY <1>2, <2>1 DEF DeliverResult, TypeOK, Decisions
  <2>3. ASSUME NEW b, NEW j \in 1 .. Len(scheduled), scheduled[j][1] = b, b # a
        PROVE  \E k \in 1 .. Len(scheduled') : scheduled'[k][1] = b
    <3>1. j # 1 /\ scheduled' = Tail(scheduled)
      BY <1>2, <2>1, <2>3 DEF DeliverResult
    <3>2. j - 1 \in 1 .. Len(scheduled') /\ scheduled'[j - 1] = scheduled[j]
      BY <2>1, <3>1
    <3> QED
      BY <2>3, <3>2
  <2>4. \A i \in 1 .. Len(futs) : futs[i] \in Calls
    BY ElementOfSeq DEF TypeOK
  <2>5. UNCHANGED <<pc, futs, pending>>
    BY <1>2 DEF DeliverResult, driver, asking
  <2> QED
    BY <2>2, <2>3, <2>4, <2>5 DEF NoLostFuture
<1>3. ASSUME NEW a \in Calls, RespondLate(a)
      PROVE  NoLostFuture'
  BY <1>3 DEF RespondLate, NoLostFuture, driver, asking
<1>4. ASSUME NEW a \in Calls, NEW choice \in Choices, Respond(a, choice)
      PROVE  NoLostFuture'
  <2>1. scheduled' = Append(scheduled, <<a, DecisionOf(choice)>>)
        /\ <<a, DecisionOf(choice)>> \in Calls \X Decisions
    BY <1>4 DEF Respond, DecisionOf, Decisions
  <2>2. /\ Len(scheduled) \in Nat /\ Len(scheduled') = Len(scheduled) + 1
        /\ \A j \in 1 .. Len(scheduled) : scheduled'[j] = scheduled[j]
        /\ scheduled'[Len(scheduled) + 1] = <<a, DecisionOf(choice)>>
    BY <2>1, AppendProperties, LenProperties DEF TypeOK
  <2>3. \E k \in 1 .. Len(scheduled') : scheduled'[k][1] = a
    <3>1. Len(scheduled) + 1 \in 1 .. Len(scheduled')
      BY <2>2
    <3> QED
      BY <2>2, <3>1
  <2>4. \A b : (\E j \in 1 .. Len(scheduled) : scheduled[j][1] = b) =>
                \E k \in 1 .. Len(scheduled') : scheduled'[k][1] = b
    BY <2>2
  <2>5. UNCHANGED <<pc, futs, result>> /\ pending' = pending \ {a}
    BY <1>4 DEF Respond, driver, asking
  <2> QED
    BY <2>3, <2>4, <2>5 DEF NoLostFuture
<1>5. CASE Cancel
  <2>1. PICK q \in Ascending(Unanswered) :
          scheduled' = scheduled \o [i \in 1 .. Len(q) |-> <<q[i], "reject">>]
    BY <1>5 DEF Cancel
  <2>2. Len(q) \in Nat /\ \A i \in 1 .. Len(q) : q[i] \in Calls
    <3>1. Unanswered \in SUBSET Calls
      BY DEF Unanswered, TypeOK
    <3> QED
      BY <2>1, <3>1, AscendingSeq
  <2>3. [i \in 1 .. Len(q) |-> <<q[i], "reject">>] \in Seq(Calls \X Decisions)
        /\ Len([i \in 1 .. Len(q) |-> <<q[i], "reject">>]) = Len(q)
    BY <2>2 DEF Decisions
  <2>4. /\ Len(scheduled) \in Nat /\ Len(scheduled') = Len(scheduled) + Len(q)
        /\ \A j \in 1 .. Len(scheduled) : scheduled'[j] = scheduled[j]
    BY <2>1, <2>2, <2>3, ConcatProperties, LenProperties DEF TypeOK
  <2>5. \A b : (\E j \in 1 .. Len(scheduled) : scheduled[j][1] = b) =>
                \E k \in 1 .. Len(scheduled') : scheduled'[k][1] = b
    BY <2>2, <2>4
  <2>6. UNCHANGED <<pc, futs, result, pending>>
    BY <1>5 DEF Cancel, asking
  <2> QED
    BY <2>5, <2>6 DEF NoLostFuture
<1>6. CASE GraphStep \/ AutoApprove \/ ReadText \/ ReadUpdate
  BY <1>6 DEF GraphStep, AutoApprove, ReadText, ReadUpdate, NoLostFuture,
     driver, asking, answers
<1>7. CASE PruneDone \/ PruneRaises \/ ReadCancelled \/ ReadError \/ Resume \/ PersistDone
  BY <1>7 DEF PruneDone, PruneRaises, ReadCancelled, ReadError, Resume, PersistDone,
     Finish, NoLostFuture
<1>8. ASSUME NEW hasSources \in BOOLEAN, NEW hasUsage \in BOOLEAN,
             ReadEnd(hasSources, hasUsage)
      PROVE  NoLostFuture'
  BY <1>8 DEF ReadEnd, Finish, NoLostFuture
<1>9. ASSUME NEW approve \in BOOLEAN, NEW replace \in BOOLEAN, StartRun(approve, replace)
      PROVE  NoLostFuture'
  BY <1>9 DEF StartRun, NoLostFuture
<1>10. ASSUME NEW s \in Streams, OpenStream(s) \/ TakeEvent(s) \/ DropStream(s)
       PROVE  NoLostFuture'
  BY <1>10 DEF OpenStream, TakeEvent, DropStream, NoLostFuture, driver, asking, answers
<1>11. CASE UNCHANGED vars
  BY <1>11 DEF vars, NoLostFuture, driver, asking, answers
<1> QED
  BY <1>1, <1>2, <1>3, <1>4, <1>5, <1>6, <1>7, <1>8, <1>9, <1>10, <1>11
     DEF Next, ClientStep, DriveStep

\* While _drive awaits a round, every future of it can still be resolved.
THEOREM FuturesReachable == Spec => []NoLostFuture
<1>1. Init => NoLostFuture
  BY DEF Init, NoLostFuture
<1> QED
  BY <1>1, NoLostStep, TypeInvariant, PTL DEF Spec

-----------------------------------------------------------------------------
(* Every event stream has one end *)

Progress(s) == \A i \in 1 .. Len(s) : s[i].ev \notin Closing

LEMMA ProgressConcat ==
  ASSUME NEW s \in Seq(Events), NEW t \in Seq(Events), Progress(s), Progress(t)
  PROVE  Progress(s \o t)
<1>1. /\ Len(s) \in Nat /\ Len(t) \in Nat /\ Len(s \o t) = Len(s) + Len(t)
      /\ \A i \in 1 .. Len(s) + Len(t) :
           (s \o t)[i] = IF i <= Len(s) THEN s[i] ELSE t[i - Len(s)]
  BY ConcatProperties, LenProperties
<1>2. ASSUME NEW i \in 1 .. Len(s) + Len(t)
      PROVE  (s \o t)[i].ev \notin Closing
  <2>1. CASE i <= Len(s)
    BY <1>1, <2>1 DEF Progress
  <2>2. CASE ~ i <= Len(s)
    <3>1. i - Len(s) \in 1 .. Len(t)
      BY <1>1, <2>2
    <3> QED
      BY <1>1, <2>2, <3>1 DEF Progress
  <2> QED
    BY <2>1, <2>2
<1> QED
  BY <1>1, <1>2 DEF Progress

\* What Finish appends.
LEMMA FinishAppends ==
  ASSUME TypeOK, NEW name \in Terminal, Finish(name)
  PROVE  /\ Len(log) \in Nat /\ Len(log') = Len(log) + 2
         /\ \A i \in 1 .. Len(log) : log'[i] = log[i]
         /\ log'[Len(log) + 1] = Plain(name) /\ log'[Len(log) + 2] = Plain("__end__")
<1> DEFINE n == Len(log)
           end == <<Plain(name), Plain("__end__")>>
<1>1. Plain(name) \in Events /\ Plain("__end__") \in Events
  BY PlainType DEF Terminal, Names
<1>2. log \in Seq(Events) /\ end \in Seq(Events) /\ Len(end) = 2
      /\ end[1] = Plain(name) /\ end[2] = Plain("__end__") /\ log' = log \o end
  BY <1>1 DEF TypeOK, Finish
<1>3. /\ Len(log \o end) = n + 2 /\ n \in Nat
      /\ \A i \in 1 .. n + 2 :
           (log \o end)[i] = IF i <= n THEN log[i] ELSE end[i - n]
  <2>1. Len(log) \in Nat
    BY <1>2, LenProperties
  <2> HIDE DEF end
  <2>2. /\ Len(log \o end) = Len(log) + Len(end)
        /\ \A i \in 1 .. Len(log) + Len(end) :
             (log \o end)[i] = IF i <= Len(log) THEN log[i] ELSE end[i - Len(log)]
    BY <1>2, ConcatProperties
  <2> QED
    BY <1>2, <2>1, <2>2
<1>4. (n + 1) - n = 1 /\ (n + 2) - n = 2 /\ n + 1 \in 1 .. n + 2 /\ n + 2 \in 1 .. n + 2
  BY <1>3
<1> HIDE DEF end
<1> QED
  BY <1>2, <1>3, <1>4

\* Finish closes a log that reported nothing but progress.
LEMMA FinishCloses ==
  ASSUME TypeOK, OneTerminalEvent, pc # "ended", NEW name \in Terminal, Finish(name)
  PROVE  OneTerminalEvent'
<1>1. Plain(name).ev = name /\ Plain("__end__").ev = "__end__"
  BY DEF Plain, Event
<1> DEFINE n == Len(log)
<1>2. /\ n \in Nat /\ Len(log') = n + 2
      /\ \A i \in 1 .. n : log'[i] = log[i]
      /\ log'[n + 1] = Plain(name) /\ log'[n + 2] = Plain("__end__")
  BY FinishAppends
<1>3. \A i \in 1 .. n : log[i].ev \notin Closing
  BY DEF OneTerminalEvent
<1>4. \A i \in 1 .. Len(log') : log'[i].ev \in Closing <=> i \in {n + 1, n + 2}
  BY <1>1, <1>2, <1>3 DEF Closing
<1>5. /\ Len(log') = n + 2 /\ (n + 2) - 1 = n + 1
      /\ {i \in 1 .. Len(log') : log'[i].ev \in Closing} = {n + 1, n + 2}
  BY <1>2, <1>4
<1>6. log'[n + 2].ev = "__end__" /\ log'[n + 1].ev \in Terminal /\ pc' = "ended"
  BY <1>1, <1>2 DEF Finish
<1> QED
  BY <1>5, <1>6 DEF OneTerminalEvent

LEMMA OneTerminalStep ==
  ASSUME TypeInv, OneTerminalEvent, [Next]_vars
  PROVE  OneTerminalEvent'
<1> USE DEF TypeInv
<1>1. ASSUME UNCHANGED log, pc' = pc \/ (pc # "ended" /\ pc' # "ended")
      PROVE  OneTerminalEvent'
  BY <1>1 DEF OneTerminalEvent
<1>2. ASSUME NEW t \in Seq(Events), Progress(t), log' = log \o t,
             pc # "ended", pc' # "ended"
      PROVE  OneTerminalEvent'
  <2>1. Progress(log) /\ log \in Seq(Events)
    BY <1>2 DEF OneTerminalEvent, Progress, TypeOK
  <2>2. Progress(log')
    BY <1>2, <2>1, ProgressConcat
  <2> QED
    BY <1>2, <2>2 DEF OneTerminalEvent, Progress
<1>3. ASSUME NEW name \in Terminal, Finish(name), pc # "ended"
      PROVE  OneTerminalEvent'
  BY <1>3, FinishCloses
<1>4. CASE ReadCancelled \/ ReadError \/ PersistDone
  BY <1>3, <1>4 DEF ReadCancelled, ReadError, PersistDone, Reads, Terminal
<1>5. CASE ReadText
  <2>1. Plain("message.delta") \in Events /\ Plain("message.delta").ev \notin Closing
    BY PlainType DEF Names, Closing, Terminal
  <2>2. <<Plain("message.delta")>> \in Seq(Events) /\ Progress(<<Plain("message.delta")>>)
    BY <2>1 DEF Progress
  <2>3. log' = log \o <<Plain("message.delta")>>
    BY <1>5, <2>1, AppendIsConcat DEF ReadText, TypeOK
  <2> QED
    BY <1>2, <1>5, <2>2, <2>3 DEF ReadText, Reads, driver
<1>6. CASE ReadUpdate
  <2> DEFINE s == EachCall("tool.started", chunk.started)
             c == EachCall("tool.completed", chunk.completed)
  <2>1. chunk.started \in Seq(Calls) /\ chunk.completed \in Seq(Calls)
    BY DEF TypeOK, GraphTypeOK, Chunks
  <2>2. s \in Seq(Events) /\ c \in Seq(Events) /\ Progress(s) /\ Progress(c)
    BY <2>1, EachCallType DEF Names, Progress, Closing, Terminal
  <2>3. log' = log \o (s \o c) /\ s \o c \in Seq(Events) /\ Progress(s \o c)
    <3>1. log' = (log \o s) \o c /\ log \in Seq(Events)
      BY <1>6 DEF ReadUpdate, TypeOK
    <3> HIDE DEF s, c
    <3>2. s \o c \in Seq(Events)
      BY <2>2, ConcatProperties
    <3>3. Progress(s \o c)
      BY <2>2, ProgressConcat
    <3>4. (log \o s) \o c = log \o (s \o c)
      BY <2>2, <3>1, ConcatAssociative
    <3> QED
      BY <3>1, <3>2, <3>3, <3>4
  <2> QED
    BY <1>2, <1>6, <2>3 DEF ReadUpdate, Reads, driver
<1>7. CASE AskApproval
  <2> DEFINE asked == [i \in 1 .. Len(review) |->
                         Event("approval.request", review[i], asks + i, Card(i))]
  <2>1. log' = log \o asked /\ pc = "streaming" /\ pc' = "awaiting"
    BY <1>7 DEF AskApproval, Reads
  <2>2. asked \in Seq(Events)
    <3>1. graph = "review" /\ asks + Len(review) <= made
      BY <1>7 DEF AskApproval, Reads, AsksBounded
    <3>2. Len(review) \in Nat /\ \A i \in 1 .. Len(review) :
            review[i] \in Calls /\ asks + i \in Calls
      BY <3>1, LenProperties, ElementOfSeq, BoundsAssumption
         DEF TypeOK, GraphTypeOK, Calls
    <3>3. \A i \in 1 .. Len(review) :
            Event("approval.request", review[i], asks + i, Card(i)) \in Events
      BY <3>2, CardType DEF Event, Events, Names
    <3> QED
      BY <3>2, <3>3
  <2>3. Progress(asked)
    <3>1. Len(review) \in Nat
      BY LenProperties DEF TypeOK, GraphTypeOK
    <3> QED
      BY <3>1 DEF Progress, Event, Closing, Terminal
  <2> HIDE DEF asked
  <2> QED
    BY <1>2, <2>1, <2>2, <2>3
<1>8. ASSUME NEW hasSources \in BOOLEAN, NEW hasUsage \in BOOLEAN,
             ReadEnd(hasSources, hasUsage)
      PROVE  OneTerminalEvent'
  <2>1. Plain("sources") \in Events /\ Plain("sources").ev \notin Closing
    BY PlainType DEF Names, Closing, Terminal
  <2>2. \A t \in {<<Plain("sources")>>, <<>>} : t \in Seq(Events) /\ Progress(t)
    <3>1. <<Plain("sources")>> \in Seq(Events) /\ Progress(<<Plain("sources")>>)
      BY <2>1 DEF Progress
    <3>2. <<>> \in Seq(Events) /\ Progress(<<>>)
      BY EmptySeq DEF Progress
    <3> QED
      BY <3>1, <3>2
  <2>3. CASE hasSources \/ hasUsage
    <3>1. \E t \in {<<Plain("sources")>>, <<>>} : log' = log \o t
      BY <1>8, <2>3 DEF ReadEnd
    <3> QED
      BY <1>2, <1>8, <2>2, <2>3, <3>1 DEF ReadEnd, Reads
  <2>4. CASE ~ (hasSources \/ hasUsage)
    BY <1>3, <1>8, <2>4 DEF ReadEnd, Reads, Terminal
  <2> QED
    BY <2>3, <2>4
<1>9. CASE PruneDone \/ PruneRaises \/ AutoApprove \/ Resume \/ GraphStep \/ DeliverResult
  BY <1>1, <1>9 DEF PruneDone, PruneRaises, AutoApprove, Resume, GraphStep,
     DeliverResult, Reads, driver
<1>10. ASSUME NEW approve \in BOOLEAN, NEW replace \in BOOLEAN, StartRun(approve, replace)
       PROVE  OneTerminalEvent'
  BY <1>1, <1>10 DEF StartRun
<1>11. ASSUME NEW a \in Calls,
              RespondLate(a) \/ \E choice \in Choices : Respond(a, choice)
       PROVE  OneTerminalEvent'
  BY <1>1, <1>11 DEF RespondLate, Respond, driver
<1>12. ASSUME NEW s \in Streams, OpenStream(s) \/ TakeEvent(s) \/ DropStream(s)
       PROVE  OneTerminalEvent'
  BY <1>1, <1>12 DEF OpenStream, TakeEvent, DropStream, driver
<1>13. CASE Cancel
  BY <1>1, <1>13 DEF Cancel
<1>14. CASE UNCHANGED vars
  BY <1>1, <1>14 DEF vars, driver
<1> QED
  BY <1>4, <1>5, <1>6, <1>7, <1>8, <1>9, <1>10, <1>11, <1>12, <1>13, <1>14
     DEF Next, ClientStep, DriveStep

\* The event contract: a run that ended put one terminal event on its queue,
\* right before __end__, and no other run has put any.
THEOREM StreamHasOneEnd == Spec => []OneTerminalEvent
<1>1. Init => OneTerminalEvent
  BY EmptySeq DEF Init, OneTerminalEvent
<1> QED
  BY <1>1, OneTerminalStep, TypeInvariant, PTL DEF Spec

-----------------------------------------------------------------------------
(* What a cancel stops *)

\* Calls are numbered as they are made, and while the graph waits for a review none of
\* the calls it is about has run.
CallsAreMade ==
  /\ batch \subseteq 1 .. made /\ todo \subseteq 1 .. made /\ executed \subseteq 1 .. made
  /\ \A j \in DOMAIN review : review[j] \in 1 .. made
  /\ pc = "awaiting" => graph = "review"
  /\ graph = "review" => executed \cap batch = {}

LEMMA CallsAreMadeInit == Init => CallsAreMade
  BY EmptySeq DEF Init, GraphInit, CallsAreMade

LEMMA CallsAreMadeGraph ==
  ASSUME TypeInv, CallsAreMade, GraphStep
  PROVE  CallsAreMade'
<1> USE DEF TypeInv, TypeOK, GraphTypeOK
<1>1. pc' = pc /\ made \in Nat
  BY DEF GraphStep, driver
<1>2. ASSUME NEW n \in 1 .. MaxCalls, GraphCalls(n), pc = "streaming" PROVE CallsAreMade'
  <2> DEFINE new == made + 1 .. made + n
             gated == {c \in new : Gated(c)}
  <2>1. /\ made' = made + n /\ batch' = new /\ review' \in Ascending(gated)
        /\ todo' \subseteq new /\ executed' = executed /\ n \in Nat /\ made + n <= MaxCalls
    BY <1>2, BoundsAssumption DEF GraphCalls
  <2>2. new \subseteq 1 .. made + n /\ new \subseteq Calls /\ \A c \in 1 .. made : c \notin new
    BY <1>1, <2>1, BoundsAssumption DEF Calls
  <2>3. \A j \in DOMAIN review' : review'[j] \in gated
    <3>1. review' \in Seq(Calls) /\ \A j \in 1 .. Len(review') : review'[j] \in gated
      BY <2>1, <2>2, AscendingSeq
    <3> QED  BY <3>1, LenProperties
  <2>4. executed \cap new = {} /\ executed \subseteq 1 .. made + n
    BY <1>1, <2>1, <2>2 DEF CallsAreMade
  <2>5. gated \subseteq new
    OBVIOUS
  <2> HIDE DEF new, gated
  <2>6. /\ batch' \subseteq 1 .. made' /\ todo' \subseteq 1 .. made' /\ executed' \subseteq 1 .. made'
        /\ \A j \in DOMAIN review' : review'[j] \in 1 .. made'
    BY <2>1, <2>2, <2>3, <2>4, <2>5
  <2> QED  BY <1>1, <1>2, <2>1, <2>4, <2>6 DEF CallsAreMade
<1>3. ASSUME NEW again \in Resends, GraphReviews(again) PROVE CallsAreMade'
  <2>1. Verdict("approve") \subseteq 1 .. made
    BY DEF Verdict, CallsAreMade
  <2> QED  BY <1>1, <1>3, <2>1 DEF GraphReviews, CallsAreMade
<1>4. CASE pc = "streaming" /\ (GraphText \/ GraphInterrupts \/ GraphLaunches \/ GraphEnds \/ GraphRaises
                                \/ \E c \in Calls : GraphReturns(c))
  BY <1>1, <1>4 DEF GraphText, GraphInterrupts, GraphLaunches, GraphEnds, GraphRaises, GraphReturns,
     agent, CallsAreMade
<1>5. ASSUME NEW c \in Calls, ToolRuns(c) PROVE CallsAreMade'
  BY <1>1, <1>5 DEF ToolRuns, CallsAreMade
<1> QED
  BY <1>2, <1>3, <1>4, <1>5 DEF GraphStep, GraphAdvances

LEMMA CallsAreMadeNext ==
  ASSUME TypeInv, CallsAreMade, [Next]_vars
  PROVE  CallsAreMade'
<1>1. CASE GraphStep
  BY <1>1, CallsAreMadeGraph
<1>2. CASE AutoApprove \/ Resume
  BY <1>2 DEF AutoApprove, Resume, ResumeWith, Reads, driver, CallsAreMade
<1>3. CASE AskApproval
  BY <1>3 DEF AskApproval, Reads, agent, CallsAreMade, TypeInv, AsksBounded
<1>4. CASE \/ PruneDone \/ PruneRaises \/ ReadCancelled \/ ReadError \/ ReadText \/ ReadUpdate
           \/ PersistDone \/ \E hasSources, hasUsage \in BOOLEAN : ReadEnd(hasSources, hasUsage)
  <2>1. UNCHANGED agent /\ pc' # "awaiting"
    BY <1>4 DEF PruneDone, PruneRaises, ReadCancelled, ReadError, ReadText, ReadUpdate, PersistDone,
       ReadEnd, Reads, Finish, driver
  <2> QED  BY <2>1 DEF agent, CallsAreMade
<1>5. CASE ClientStep \/ DeliverResult \/ UNCHANGED vars
  <2>1. UNCHANGED agent /\ (pc' = "awaiting" => pc = "awaiting")
    BY <1>5 DEF ClientStep, StartRun, RespondLate, Respond, Cancel, OpenStream, TakeEvent, DropStream,
       DeliverResult, vars, driver
  <2> QED  BY <2>1 DEF agent, CallsAreMade
<1> QED
  BY <1>1, <1>2, <1>3, <1>4, <1>5 DEF Next, DriveStep

\* A run that was cancelled while it asked: the graph never gets to its tools.
Halted ==
  /\ cancelled /\ executed \cap batch = {}
  /\ \/ pc = "awaiting" /\ graph = "review"
     \/ pc = "streaming" /\ graph = "reviewed"
     \/ pc = "streaming" /\ graph = "ready" /\ chunk # NoChunk
     \/ pc = "ended" /\ graph \in {"review", "reviewed", "ready"}

LEMMA HaltedStays ==
  ASSUME TypeInv, Halted, [Next]_vars
  PROVE  Halted'
<1> USE DEF Halted, cancelled
<1>1. CASE GraphStep
  <2>1. pc = "streaming" /\ graph = "reviewed" /\ UNCHANGED <<pc, cancels>>
        /\ (GraphRaises \/ \E again \in Resends : GraphReviews(again))
    <3>1. UNCHANGED <<pc, cancels>>
      BY <1>1 DEF GraphStep, driver
    <3>2. \A c \in Calls : ~ ToolRuns(c) /\ ~ GraphReturns(c)
      BY DEF ToolRuns, GraphReturns
    <3>3. pc = "streaming" /\ GraphAdvances
      BY <1>1, <3>2 DEF GraphStep
    <3>4. graph = "reviewed"
      BY <3>3 DEF GraphAdvances
    <3>5. ~ AtModel /\ ~ GraphInterrupts /\ ~ GraphLaunches
      BY <3>4 DEF AtModel, GraphInterrupts, GraphLaunches
    <3> QED
      BY <3>1, <3>2, <3>3, <3>4, <3>5 DEF GraphAdvances, GraphText, GraphEnds, GraphCalls
  <2>2. chunk' # NoChunk
    BY <2>1 DEF GraphRaises, GraphReviews, Chunk, NoChunk
  <2> QED  BY <2>1, <2>2 DEF GraphRaises, GraphReviews, agent
<1>2. CASE Resume
  BY <1>2 DEF Resume, ResumeWith
<1>3. CASE ReadCancelled \/ ReadError
  BY <1>3 DEF ReadCancelled, ReadError, Finish, Reads, agent
<1>4. CASE Cancel
  BY <1>4 DEF Cancel, agent, TypeInv, TypeOK
<1>5. CASE \/ ReadText \/ ReadUpdate \/ AskApproval \/ AutoApprove \/ PruneDone \/ PruneRaises
           \/ PersistDone \/ \E hasSources, hasUsage \in BOOLEAN : ReadEnd(hasSources, hasUsage)
  BY <1>5 DEF ReadText, ReadUpdate, AskApproval, AutoApprove, PruneDone, PruneRaises, PersistDone,
     ReadEnd, Reads, SeesCancel
<1>6. CASE \/ DeliverResult \/ UNCHANGED vars
           \/ \E approve, replace \in BOOLEAN : StartRun(approve, replace)
           \/ \E a \in Calls : RespondLate(a) \/ \E choice \in Choices : Respond(a, choice)
           \/ \E s \in Streams : OpenStream(s) \/ TakeEvent(s) \/ DropStream(s)
  <2>1. UNCHANGED <<agent, chunk, pc, cancels>>
    BY <1>6 DEF StartRun, RespondLate, Respond, OpenStream, TakeEvent, DropStream,
       DeliverResult, vars, driver
  <2> QED  BY <2>1 DEF agent
<1> QED
  BY <1>1, <1>2, <1>3, <1>4, <1>5, <1>6 DEF Next, DriveStep, ClientStep

Quiet == {"run.cancelled", "run.failed", "__end__"}
Silence ==
  cancelled /\ pc \in {"prune", "streaming", "awaiting"} =>
    \A i \in Len(log) + 1 .. Len(log') : log'[i].ev \in Quiet

LEMMA SilenceStep ==
  ASSUME TypeInv, [Next]_vars
  PROVE  Silence
<1> SUFFICES ASSUME cancelled, pc \in {"prune", "streaming", "awaiting"}
             PROVE  \A i \in Len(log) + 1 .. Len(log') : log'[i].ev \in Quiet
  BY DEF Silence
<1>1. log \in Seq(Events) /\ Len(log) \in Nat
  BY LenProperties DEF TypeInv, TypeOK
<1>2. CASE log' = log
  BY <1>1, <1>2
<1>3. ASSUME NEW name \in {"run.cancelled", "run.failed"}, Finish(name)
      PROVE  \A i \in Len(log) + 1 .. Len(log') : log'[i].ev \in Quiet
  <2>1. /\ Len(log') = Len(log) + 2
        /\ log'[Len(log) + 1].ev = name /\ log'[Len(log) + 2].ev = "__end__"
    BY <1>3, FinishAppends DEF TypeInv, Terminal, Plain, Event
  <2>2. \A i \in Len(log) + 1 .. Len(log) + 2 : i = Len(log) + 1 \/ i = Len(log) + 2
    BY <1>1
  <2> QED  BY <2>1, <2>2 DEF Quiet
<1>4. CASE ReadCancelled \/ ReadError
  BY <1>3, <1>4 DEF ReadCancelled, ReadError
<1>5. CASE ~ (ReadCancelled \/ ReadError)
  <2>1. log' = log
    BY <1>5 DEF Next, DriveStep, ClientStep, ReadText, ReadUpdate, AskApproval, AutoApprove, Resume,
       PruneDone, PruneRaises, PersistDone, ReadEnd, Reads, SeesCancel, GraphStep, DeliverResult,
       StartRun, RespondLate, Respond, Cancel, OpenStream, TakeEvent, DropStream, vars
  <2> QED  BY <1>2, <2>1
<1> QED  BY <1>4, <1>5

\* A cancel stops what it finds: a run that goes on is silent from then on but for its
\* end, and of the calls it was asking about none runs, not even an approved one.
THEOREM CancelsWork == Spec => CancelWorks
<1>1. Init => TypeInv /\ CallsAreMade
  BY TypeInit, CallsAreMadeInit
<1>2. TypeInv /\ CallsAreMade /\ [Next]_vars => CallsAreMade'
  BY CallsAreMadeNext
<1>3. Spec => []CallsAreMade
  BY <1>1, <1>2, TypeInvariant, PTL DEF Spec
<1>4. CallsAreMade /\ pc = "awaiting" /\ cancelled => Halted
  BY DEF CallsAreMade, Halted
<1>5. TypeInv /\ Halted /\ [Next]_vars => Halted'
  BY HaltedStays
<1>6. Halted => executed \cap batch = {}
  BY DEF Halted
<1>7. Spec => StopBeforeResume
  BY <1>3, <1>4, <1>5, <1>6, TypeInvariant, PTL DEF Spec, StopBeforeResume
<1>8. TypeInv /\ [Next]_vars =>
        [cancelled /\ pc \in {"prune", "streaming", "awaiting"} =>
           \A i \in Len(log) + 1 .. Len(log') :
             log'[i].ev \in {"run.cancelled", "run.failed", "__end__"}]_vars
  BY SilenceStep DEF Silence, Quiet
<1>9. Spec => CancelSilences
  BY <1>8, TypeInvariant, PTL DEF Spec, CancelSilences
<1> QED
  BY <1>7, <1>9 DEF CancelWorks
-----------------------------------------------------------------------------
(* The log only grows *)

Updates ==
  EachCall("tool.started", chunk.started) \o EachCall("tool.completed", chunk.completed)
Requested ==
  [i \in 1 .. Len(review) |-> Event("approval.request", review[i], asks + i, Card(i))]

\* Events that name no call.
Others == Closing \cup {"message.delta", "sources"}

\* What a sequence appended to the log does to it.
LEMMA Appended ==
  ASSUME log \in Seq(Events), NEW t \in Seq(Events), log' = log \o t
  PROVE  /\ Len(log) \in Nat /\ Len(t) \in Nat /\ Len(log') = Len(log) + Len(t)
         /\ \A i \in 1 .. Len(log) : log'[i] = log[i]
         /\ \A k \in 1 .. Len(t) : log'[Len(log) + k] = t[k]
         /\ \A i \in 1 .. Len(log') : i \notin 1 .. Len(log) =>
              i - Len(log) \in 1 .. Len(t) /\ log'[i] = t[i - Len(log)]
<1>1. /\ Len(log) \in Nat /\ Len(t) \in Nat /\ Len(log') = Len(log) + Len(t)
      /\ \A i \in 1 .. Len(log) + Len(t) :
           log'[i] = IF i <= Len(log) THEN log[i] ELSE t[i - Len(log)]
  BY ConcatProperties, LenProperties
<1>2. ASSUME NEW k \in 1 .. Len(t) PROVE log'[Len(log) + k] = t[k]
  <2>1. Len(log) + k \in 1 .. Len(log) + Len(t) /\ ~ (Len(log) + k <= Len(log))
        /\ (Len(log) + k) - Len(log) = k
    BY <1>1
  <2> QED  BY <1>1, <2>1
<1> QED  BY <1>1, <1>2

LEMMA OneEvent ==
  ASSUME NEW name \in Names
  PROVE  /\ <<Plain(name)>> \in Seq(Events)
         /\ \A k \in 1 .. Len(<<Plain(name)>>) : <<Plain(name)>>[k].ev = name
  BY PlainType

LEMMA EventFields ==
  ASSUME NEW name, NEW call, NEW aid, NEW card
  PROVE  LET e == Event(name, call, aid, card)
         IN  e.ev = name /\ e.call = call /\ e.aid = aid /\ e.card = card
BY DEF Event

LEMMA UpdatesType ==
  ASSUME TypeInv
  PROVE  /\ Updates \in Seq(Events)
         /\ Len(chunk.started) \in Nat /\ Len(chunk.completed) \in Nat
         /\ Len(Updates) = Len(chunk.started) + Len(chunk.completed)
         /\ \A k \in 1 .. Len(chunk.started) :
              Updates[k].ev = "tool.started" /\ Updates[k].call = chunk.started[k]
         /\ \A k \in 1 .. Len(Updates) : k \notin 1 .. Len(chunk.started) =>
              LET m == k - Len(chunk.started)
              IN  /\ m \in 1 .. Len(chunk.completed)
                  /\ Updates[k].ev = "tool.completed" /\ Updates[k].call = chunk.completed[m]
<1> DEFINE s == EachCall("tool.started", chunk.started)
           c == EachCall("tool.completed", chunk.completed)
<1>1. chunk.started \in Seq(Calls) /\ chunk.completed \in Seq(Calls)
  BY DEF TypeInv, TypeOK, GraphTypeOK, Chunks
<1>2. /\ s \in Seq(Events) /\ c \in Seq(Events)
      /\ Len(s) = Len(chunk.started) /\ Len(c) = Len(chunk.completed)
      /\ Len(chunk.started) \in Nat /\ Len(chunk.completed) \in Nat
  BY <1>1, EachCallType, LenProperties DEF Names
<1>3. /\ \A k \in 1 .. Len(chunk.started) :
           s[k].ev = "tool.started" /\ s[k].call = chunk.started[k]
      /\ \A k \in 1 .. Len(chunk.completed) :
           c[k].ev = "tool.completed" /\ c[k].call = chunk.completed[k]
  BY EventFields DEF EachCall
<1>4. Updates = s \o c
  BY DEF Updates
<1> HIDE DEF s, c
<1>5. /\ s \o c \in Seq(Events) /\ Len(s \o c) = Len(s) + Len(c)
      /\ \A k \in 1 .. Len(s) + Len(c) :
           (s \o c)[k] = IF k <= Len(s) THEN s[k] ELSE c[k - Len(s)]
  BY <1>2, ConcatProperties
<1>6. ASSUME NEW k \in 1 .. Len(Updates), k \notin 1 .. Len(chunk.started)
      PROVE  /\ k - Len(chunk.started) \in 1 .. Len(chunk.completed)
             /\ Updates[k] = c[k - Len(chunk.started)]
  <2>1. k \in 1 .. Len(s) + Len(c)
    BY <1>4, <1>5, Zenon
  <2>2. Len(s) \in Nat /\ Len(c) \in Nat /\ k \notin 1 .. Len(s)
    BY <1>2, <1>6
  <2>3. ~ (k <= Len(s)) /\ k - Len(s) \in 1 .. Len(c)
    BY <2>1, <2>2
  <2> QED  BY <1>2, <1>4, <1>5, <2>1, <2>3
<1>7. ASSUME NEW k \in 1 .. Len(chunk.started)
      PROVE  Updates[k] = s[k]
  BY <1>2, <1>4, <1>5
<1>8. ASSUME NEW k \in 1 .. Len(Updates), k \notin 1 .. Len(chunk.started)
      PROVE  LET m == k - Len(chunk.started)
             IN  /\ m \in 1 .. Len(chunk.completed)
                 /\ Updates[k].ev = "tool.completed" /\ Updates[k].call = chunk.completed[m]
  BY <1>3, <1>6, <1>8
<1>9. Updates \in Seq(Events) /\ Len(Updates) = Len(chunk.started) + Len(chunk.completed)
  BY <1>2, <1>4, <1>5
<1> QED  BY <1>2, <1>3, <1>7, <1>8, <1>9

LEMMA RequestedType ==
  ASSUME TypeInv, AskApproval
  PROVE  /\ Requested \in Seq(Events) /\ Len(review) \in Nat /\ Len(Requested) = Len(review)
         /\ \A i \in 1 .. Len(review) :
              Requested[i] = Event("approval.request", review[i], asks + i, Card(i))
<1>1. graph = "review" /\ asks + Len(review) <= made
  BY DEF AskApproval, Reads, TypeInv, AsksBounded
<1>2. Len(review) \in Nat /\ \A i \in 1 .. Len(review) :
        review[i] \in Calls /\ asks + i \in Calls
  BY <1>1, LenProperties, ElementOfSeq, BoundsAssumption
     DEF TypeInv, TypeOK, GraphTypeOK, Calls
<1>3. \A i \in 1 .. Len(review) :
        Event("approval.request", review[i], asks + i, Card(i)) \in Events
  BY <1>2, CardType DEF Event, Events, Names, TypeInv
<1> QED  BY <1>2, <1>3 DEF Requested

\* Every step appends to the log: the events of an update, a round of requests, or
\* events that name no call.
LEMMA LogGrows ==
  ASSUME TypeInv, [Next]_vars
  PROVE  \E t \in Seq(Events) :
           /\ log' = log \o t
           /\ \/ ReadUpdate /\ t = Updates
              \/ AskApproval /\ t = Requested
              \/ \A k \in 1 .. Len(t) : t[k].ev \in Others
<1>0. log \in Seq(Events)
  BY DEF TypeInv, TypeOK
<1>1. ASSUME log' = log
      PROVE  \E t \in Seq(Events) : log' = log \o t /\ \A k \in 1 .. Len(t) : t[k].ev \in Others
  <2>1. <<>> \in Seq(Events) /\ log' = log \o <<>> /\ \A k \in 1 .. Len(<<>>) : <<>>[k].ev \in Others
    BY <1>0, <1>1, ConcatEmptySeq, EmptySeq
  <2> QED  BY <2>1
<1>2. ASSUME NEW name \in Terminal, Finish(name)
      PROVE  \E t \in Seq(Events) : log' = log \o t /\ \A k \in 1 .. Len(t) : t[k].ev \in Others
  <2>1. Plain(name) \in Events /\ Plain("__end__") \in Events
        /\ Plain(name).ev \in Others /\ Plain("__end__").ev \in Others
    BY PlainType DEF Terminal, Names, Others, Closing
  <2>2. <<Plain(name), Plain("__end__")>> \in Seq(Events)
        /\ \A k \in 1 .. Len(<<Plain(name), Plain("__end__")>>) :
             <<Plain(name), Plain("__end__")>>[k].ev \in Others
    BY <2>1
  <2> QED  BY <1>2, <2>2 DEF Finish
<1>3. ASSUME NEW name \in {"message.delta", "sources"}, log' = log \o <<Plain(name)>>
      PROVE  \E t \in Seq(Events) : log' = log \o t /\ \A k \in 1 .. Len(t) : t[k].ev \in Others
  <2>1. <<Plain(name)>> \in Seq(Events)
        /\ \A k \in 1 .. Len(<<Plain(name)>>) : <<Plain(name)>>[k].ev \in Others
    BY OneEvent DEF Names, Others
  <2> QED  BY <1>3, <2>1
<1>4. CASE ReadText
  <2>1. log' = log \o <<Plain("message.delta")>>
    BY <1>0, <1>4, PlainType, AppendIsConcat DEF ReadText, Names
  <2> QED  BY <1>3, <2>1
<1>5. CASE ReadUpdate
  <2> DEFINE s == EachCall("tool.started", chunk.started)
             c == EachCall("tool.completed", chunk.completed)
  <2>1. chunk.started \in Seq(Calls) /\ chunk.completed \in Seq(Calls)
    BY DEF TypeInv, TypeOK, GraphTypeOK, Chunks
  <2>2. s \in Seq(Events) /\ c \in Seq(Events) /\ log' = (log \o s) \o c /\ Updates = s \o c
    BY <1>5, <2>1, EachCallType DEF ReadUpdate, Names, Updates
  <2> HIDE DEF s, c
  <2>3. log' = log \o Updates
    BY <1>0, <2>2, ConcatAssociative
  <2> QED  BY <1>5, <2>3, UpdatesType
<1>6. CASE AskApproval
  <2>1. log' = log \o Requested
    BY <1>6 DEF AskApproval, Requested
  <2> QED  BY <1>6, <2>1, RequestedType
<1>7. ASSUME NEW hasSources \in BOOLEAN, NEW hasUsage \in BOOLEAN, ReadEnd(hasSources, hasUsage)
      PROVE  \E t \in Seq(Events) : log' = log \o t /\ \A k \in 1 .. Len(t) : t[k].ev \in Others
  <2>1. \/ Finish("run.completed") \/ log' = log \o <<Plain("sources")>> \/ log' = log \o <<>>
    BY <1>7 DEF ReadEnd
  <2>2. log \o <<>> = log
    BY <1>0, ConcatEmptySeq
  <2> QED  BY <1>1, <1>2, <1>3, <2>1, <2>2 DEF Terminal
<1>8. CASE ReadCancelled \/ ReadError \/ PersistDone
  BY <1>2, <1>8 DEF ReadCancelled, ReadError, PersistDone, Terminal
<1>9. CASE ~ \/ ReadText \/ ReadUpdate \/ AskApproval \/ ReadCancelled \/ ReadError \/ PersistDone
             \/ \E hasSources, hasUsage \in BOOLEAN : ReadEnd(hasSources, hasUsage)
  <2>1. log' = log
    BY <1>9 DEF Next, DriveStep, ClientStep, AutoApprove, Resume, PruneDone, PruneRaises, GraphStep,
       DeliverResult, StartRun, RespondLate, Respond, Cancel, OpenStream, TakeEvent, DropStream, vars
  <2> QED  BY <1>1, <2>1
<1> QED  BY <1>4, <1>5, <1>6, <1>7, <1>8, <1>9
-----------------------------------------------------------------------------
(* What the client is told comes in order *)

Members(s) == {s[i] : i \in 1 .. Len(s)}
Started(c) == At("tool.started", c) # {}
AskedFor(c) == At("approval.request", c) # {}

\* Every call made was announced, or is in the chunk that waits to be read.
CallsAnnounced ==
  pc # "ended" => \A c \in 1 .. made : Started(c) \/ c \in Members(chunk.started)

\* What is or will be reported as a result is a call that was made.
ResultsAreMade ==
  /\ \A c \in returned : c <= made
  /\ \A c \in Members(chunk.completed) : c <= made

\* Where the user decides, a gated call was shown to him before the graph went on
\* with it.
ReviewsAsked ==
  ~ auto =>
    /\ pc = "awaiting" \/ graph = "reviewed" =>
         \A j \in 1 .. Len(review) : AskedFor(review[j])
    /\ \A c \in todo \cup returned \cup Members(chunk.completed) : Gated(c) => AskedFor(c)

\* Only an update carries calls.
ChunksAreBare == chunk.kind # "update" => chunk.started = <<>> /\ chunk.completed = <<>>

OrderInv ==
  /\ TypeInv /\ CallsAreMade /\ AutoIsChosen /\ ChunksAreBare
  /\ CallsAnnounced /\ ResultsAreMade /\ ReviewsAsked /\ EventsInOrder

\* What was in the log stays there.
LEMMA LogKept ==
  ASSUME TypeInv, [Next]_vars
  PROVE  \A c : (Started(c) => Started(c)') /\ (AskedFor(c) => AskedFor(c)')
<1>1. PICK t \in Seq(Events) : log' = log \o t
  BY LogGrows
<1>2. log \in Seq(Events)
  BY DEF TypeInv, TypeOK
<1>3. /\ Len(log) \in Nat /\ Len(log') \in Nat /\ Len(log) <= Len(log')
      /\ \A i \in 1 .. Len(log) : log'[i] = log[i]
  BY <1>1, <1>2, Appended
<1>4. ASSUME NEW name, NEW c, NEW i \in At(name, c) PROVE i \in At(name, c)'
  BY <1>3, <1>4 DEF At
<1> QED  BY <1>4 DEF Started, AskedFor

LEMMA OrderInit == Init => OrderInv
<1> SUFFICES ASSUME Init PROVE OrderInv
  OBVIOUS
<1>1. /\ log = <<>> /\ Len(log) = 0 /\ made = 0 /\ returned = {} /\ todo = {} /\ review = <<>>
      /\ chunk.completed = <<>> /\ pc = "new" /\ graph = "model" /\ Len(<<>>) = 0
  BY EmptySeq DEF Init, GraphInit, NoChunk, Chunk
<1>2. \A name, c : At(name, c) = {}
  BY <1>1 DEF At
<1>3. CallsAnnounced /\ ResultsAreMade /\ ReviewsAsked /\ EventsInOrder
  BY <1>1, <1>2 DEF CallsAnnounced, ResultsAreMade, ReviewsAsked, EventsInOrder, Members
<1> QED  BY <1>1, <1>3, TypeInit, CallsAreMadeInit DEF OrderInv, AutoIsChosen, ChunksAreBare, Init,
           GraphInit, NoChunk, Chunk

\* Events appended in order keep the log in order.
LEMMA AppendsInOrder ==
  ASSUME TypeInv, EventsInOrder, NEW t \in Seq(Events), log' = log \o t,
         \A k \in 1 .. Len(t) : t[k].ev \in {"approval.request", "tool.completed"} =>
            \/ Started(t[k].call)
            \/ \E m \in 1 .. k - 1 : t[m].ev = "tool.started" /\ t[m].call = t[k].call,
         \A k \in 1 .. Len(t) :
            t[k].ev = "tool.completed" /\ Gated(t[k].call) /\ ~ auto' => AskedFor(t[k].call),
         ~ auto' => ~ auto
  PROVE  EventsInOrder'
<1>1. /\ Len(log) \in Nat /\ Len(t) \in Nat /\ Len(log') = Len(log) + Len(t)
      /\ \A i \in 1 .. Len(log) : log'[i] = log[i]
      /\ \A k \in 1 .. Len(t) : log'[Len(log) + k] = t[k]
      /\ \A i \in 1 .. Len(log') : i \notin 1 .. Len(log) =>
           i - Len(log) \in 1 .. Len(t) /\ log'[i] = t[i - Len(log)]
  <2>1. log \in Seq(Events)
    BY DEF TypeInv, TypeOK
  <2> QED  BY <2>1, Appended
<1>2. ASSUME NEW name, NEW c, NEW i \in At(name, c)
      PROVE  i \in At(name, c)' /\ i \in 1 .. Len(log)
  BY <1>1 DEF At
<1>3. ASSUME NEW c \in Calls, NEW i \in At("approval.request", c)' \cup At("tool.completed", c)'
      PROVE  \E j \in At("tool.started", c)' : j < i
  <2>1. i \in 1 .. Len(log') /\ log'[i].call = c
        /\ log'[i].ev \in {"approval.request", "tool.completed"}
    BY <1>3 DEF At
  <2>2. CASE i \in 1 .. Len(log)
    <3>1. i \in At("approval.request", c) \cup At("tool.completed", c)
      BY <1>1, <2>1, <2>2 DEF At
    <3> QED  BY <1>2, <3>1 DEF EventsInOrder
  <2>3. CASE i \notin 1 .. Len(log)
    <3> DEFINE k == i - Len(log)
    <3>1. k \in 1 .. Len(t) /\ log'[i] = t[k] /\ i = Len(log) + k
      BY <1>1, <2>1, <2>3
    <3>2. CASE Started(c)
      <4>1. PICK j \in At("tool.started", c) : TRUE
        BY <3>2 DEF Started
      <4>2. j \in At("tool.started", c)' /\ j \in 1 .. Len(log)
        BY <1>2
      <4> QED  BY <1>1, <2>1, <2>3, <4>2
    <3>3. CASE \E m \in 1 .. k - 1 : t[m].ev = "tool.started" /\ t[m].call = t[k].call
      <4>1. PICK m \in 1 .. k - 1 : t[m].ev = "tool.started" /\ t[m].call = c
        BY <2>1, <3>1, <3>3
      <4>2. m \in 1 .. Len(t) /\ Len(log) + m \in 1 .. Len(log') /\ Len(log) + m < i
        BY <1>1, <3>1
      <4>3. Len(log) + m \in At("tool.started", c)'
        BY <1>1, <4>1, <4>2 DEF At
      <4> QED  BY <4>2, <4>3
    <3> QED  BY <2>1, <3>1, <3>2, <3>3
  <2> QED  BY <2>2, <2>3
<1>4. ASSUME NEW c \in Calls, Gated(c), ~ auto', NEW i \in At("tool.completed", c)'
      PROVE  \E j \in At("approval.request", c)' : j < i
  <2>1. i \in 1 .. Len(log') /\ log'[i].call = c /\ log'[i].ev = "tool.completed"
    BY <1>4 DEF At
  <2>2. CASE i \in 1 .. Len(log)
    <3>1. i \in At("tool.completed", c) /\ ~ auto
      BY <1>1, <1>4, <2>1, <2>2 DEF At
    <3> QED  BY <1>2, <1>4, <3>1 DEF EventsInOrder
  <2>3. CASE i \notin 1 .. Len(log)
    <3>1. i - Len(log) \in 1 .. Len(t) /\ log'[i] = t[i - Len(log)]
      BY <1>1, <2>1, <2>3
    <3>2. AskedFor(c)
      BY <1>4, <2>1, <3>1
    <3>3. PICK j \in At("approval.request", c) : TRUE
      BY <3>2 DEF AskedFor
    <3>4. j \in At("approval.request", c)' /\ j \in 1 .. Len(log)
      BY <1>2
    <3> QED  BY <1>1, <2>1, <2>3, <3>4
  <2> QED  BY <2>2, <2>3
<1>5. \A c : Gated(c)' <=> Gated(c)
  BY DEF Gated
<1> QED  BY <1>3, <1>4, <1>5 DEF EventsInOrder

LEMMA OrderGraph ==
  ASSUME OrderInv, GraphStep
  PROVE  CallsAnnounced' /\ ResultsAreMade' /\ ReviewsAsked'
<1> USE DEF OrderInv
<1>1. UNCHANGED <<pc, auto, log>> /\ made \in Nat
  BY DEF GraphStep, driver, TypeInv, TypeOK, GraphTypeOK
<1>2. \A c : (Started(c)' <=> Started(c)) /\ (AskedFor(c)' <=> AskedFor(c))
  BY <1>1 DEF Started, AskedFor, At
<1>3. Members(<<>>) = {} /\ Members(NoChunk.started) = {} /\ Members(NoChunk.completed) = {}
  BY EmptySeq DEF Members, NoChunk, Chunk
<1> DEFINE Goal == CallsAnnounced' /\ ResultsAreMade' /\ ReviewsAsked'
<1>4. ASSUME NEW n \in 1 .. MaxCalls, GraphCalls(n), pc = "streaming", chunk = NoChunk
      PROVE  Goal
  <2>1. /\ made' = made + n /\ n \in Nat /\ graph' # "reviewed" /\ returned' = returned
        /\ \A c \in todo' : ~ Gated(c)
        /\ chunk'.started = [i \in 1 .. n |-> made + i] /\ chunk'.completed = <<>>
    BY <1>4, BoundsAssumption DEF GraphCalls, Chunk
  <2>2. Len(chunk'.started) = n
    BY <2>1
  <2>3. \A c \in made + 1 .. made + n : c \in Members(chunk'.started)
    <3>1. ASSUME NEW c \in made + 1 .. made + n PROVE c \in Members(chunk'.started)
      <4>1. c - made \in 1 .. n /\ chunk'.started[c - made] = c
        BY <1>1, <2>1
      <4> QED  BY <2>2, <4>1 DEF Members
    <3> QED  BY <3>1
  <2>4. CallsAnnounced'
    BY <1>1, <1>2, <1>3, <1>4, <2>1, <2>3 DEF CallsAnnounced
  <2>5. ResultsAreMade'
    BY <1>1, <1>3, <2>1 DEF ResultsAreMade, TypeInv, TypeOK, GraphTypeOK, Calls
  <2>6. ReviewsAsked'
    BY <1>1, <1>2, <1>3, <1>4, <2>1 DEF ReviewsAsked, Gated
  <2> QED  BY <2>4, <2>5, <2>6
<1>5. ASSUME NEW again \in Resends, GraphReviews(again), pc = "streaming", chunk = NoChunk
      PROVE  Goal
  <2>1. PICK message \in Ascending(IF again THEN batch ELSE {}),
             errors \in Ascending(Verdict("reject")) :
               chunk' = Chunk("update", message, errors)
    BY <1>5 DEF GraphReviews
  <2>2. \A d : Verdict(d) \subseteq Members(review) /\ Verdict(d) \in SUBSET Calls
    <3>1. DOMAIN review = 1 .. Len(review) /\ \A j \in 1 .. Len(review) : review[j] \in Calls
      BY LenProperties, ElementOfSeq DEF TypeInv, TypeOK, GraphTypeOK
    <3> QED  BY <3>1 DEF Verdict, Members
  <2>3. \A c \in Members(chunk'.completed) : c \in Members(review)
    <3>1. chunk'.completed = errors
      BY <2>1 DEF Chunk
    <3>2. \A i \in 1 .. Len(errors) : errors[i] \in Verdict("reject")
      BY <2>2, AscendingSeq
    <3> QED  BY <2>2, <3>1, <3>2 DEF Members
  <2>4. /\ graph = "reviewed" /\ graph' = "ready" /\ UNCHANGED <<made, returned>>
        /\ \A c \in todo' : Gated(c) => c \in Members(review)
    BY <1>5, <2>2 DEF GraphReviews
  <2>5. \A c \in Members(review) : c <= made /\ (~ auto => AskedFor(c))
    <3>1. \A j \in 1 .. Len(review) : review[j] \in 1 .. made
      BY LenProperties DEF CallsAreMade, TypeInv, TypeOK, GraphTypeOK
    <3> QED  BY <2>4, <3>1 DEF Members, ReviewsAsked
  <2>6. CallsAnnounced'
    BY <1>1, <1>2, <1>3, <1>5, <2>4 DEF CallsAnnounced
  <2>7. ResultsAreMade'
    BY <2>3, <2>4, <2>5 DEF ResultsAreMade
  <2>8. ReviewsAsked'
    BY <1>1, <1>2, <1>5, <2>3, <2>4, <2>5 DEF ReviewsAsked, Gated
  <2> QED  BY <2>6, <2>7, <2>8
<1>6. ASSUME NEW c \in Calls, GraphReturns(c), pc = "streaming", chunk = NoChunk
      PROVE  Goal
  <2>1. /\ c \in returned /\ returned' \subseteq returned /\ chunk' = Chunk("update", <<>>, <<c>>)
        /\ UNCHANGED <<graph, review, todo, made>>
    BY <1>6 DEF GraphReturns
  <2>2. Members(chunk'.completed) = {c}
    <3>1. chunk'.completed = <<c>> /\ Len(<<c>>) = 1 /\ <<c>>[1] = c
      BY <2>1 DEF Chunk
    <3> QED  BY <3>1 DEF Members
  <2> QED  BY <1>1, <1>2, <1>3, <1>6, <2>1, <2>2 DEF CallsAnnounced, ResultsAreMade, ReviewsAsked, Gated
<1>7. CASE /\ pc = "streaming" /\ chunk = NoChunk
           /\ GraphText \/ GraphInterrupts \/ GraphLaunches \/ GraphEnds \/ GraphRaises
  <2>1. UNCHANGED <<review, todo, made, returned>> /\ (graph' = "reviewed" => graph = "reviewed")
    BY <1>7 DEF GraphText, GraphInterrupts, GraphLaunches, GraphEnds, GraphRaises, agent
  <2>2. chunk'.started = <<>> /\ chunk'.completed = <<>>
    BY <1>7 DEF GraphText, GraphInterrupts, GraphLaunches, GraphEnds, GraphRaises, Chunk, NoChunk
  <2> QED  BY <1>1, <1>2, <1>3, <1>7, <2>1, <2>2 DEF CallsAnnounced, ResultsAreMade, ReviewsAsked, Gated
<1>8. ASSUME NEW c \in Calls, ToolRuns(c)
      PROVE  Goal
  <2>1. /\ c \in todo /\ todo' \subseteq todo /\ returned' = returned \cup {c}
        /\ UNCHANGED <<graph, review, made, chunk>>
    BY <1>8 DEF ToolRuns
  <2>2. c <= made
    BY <1>1, <2>1 DEF CallsAreMade
  <2> QED  BY <1>1, <1>2, <2>1, <2>2 DEF CallsAnnounced, ResultsAreMade, ReviewsAsked, Gated
<1> QED  BY <1>4, <1>5, <1>6, <1>7, <1>8 DEF GraphStep, GraphAdvances

LEMMA PlaceInLog ==
  ASSUME NEW n \in Nat, NEW m \in Nat, NEW l \in Nat, NEW k \in 1 .. n
  PROVE  k \in 1 .. n + m /\ l + k \in 1 .. l + (n + m)
OBVIOUS

\* A chunk is read: what it announced is in the log.
LEMMA OrderReadUpdate ==
  ASSUME OrderInv, ReadUpdate
  PROVE  CallsAnnounced' /\ ResultsAreMade' /\ ReviewsAsked' /\ EventsInOrder'
<1> USE DEF OrderInv
<1>1. /\ UNCHANGED <<pc, auto, cancels, agent>> /\ chunk' = NoChunk /\ log \in Seq(Events)
      /\ pc = "streaming"
  BY DEF ReadUpdate, Reads, driver, TypeInv, TypeOK
<1>2. Members(NoChunk.started) = {} /\ Members(NoChunk.completed) = {}
  BY EmptySeq DEF Members, NoChunk, Chunk
<1>3. \A c : (Started(c) => Started(c)') /\ (AskedFor(c) => AskedFor(c)')
  BY LogKept DEF Next, DriveStep
<1>4. log' = log \o Updates
  <2> DEFINE s == EachCall("tool.started", chunk.started)
             c == EachCall("tool.completed", chunk.completed)
  <2>2. chunk.started \in Seq(Calls) /\ chunk.completed \in Seq(Calls)
    BY DEF TypeInv, TypeOK, GraphTypeOK, Chunks
  <2>3. s \in Seq(Events) /\ c \in Seq(Events) /\ log' = (log \o s) \o c /\ Updates = s \o c
    BY <2>2, EachCallType DEF ReadUpdate, Names, Updates
  <2> HIDE DEF s, c
  <2> QED  BY <1>1, <2>3, ConcatAssociative
<1>5. Updates \in Seq(Events)
  BY UpdatesType
<1>6. /\ Len(log) \in Nat /\ Len(log') = Len(log) + Len(Updates)
      /\ \A k \in 1 .. Len(Updates) : log'[Len(log) + k] = Updates[k]
  BY <1>1, <1>4, <1>5, Appended
<1>7. /\ Len(chunk.started) \in Nat /\ Len(chunk.completed) \in Nat
      /\ Len(Updates) = Len(chunk.started) + Len(chunk.completed)
      /\ \A k \in 1 .. Len(chunk.started) :
           Updates[k].ev = "tool.started" /\ Updates[k].call = chunk.started[k]
      /\ \A k \in 1 .. Len(Updates) : k \notin 1 .. Len(chunk.started) =>
           LET m == k - Len(chunk.started)
           IN  /\ m \in 1 .. Len(chunk.completed)
               /\ Updates[k].ev = "tool.completed" /\ Updates[k].call = chunk.completed[m]
  BY UpdatesType
<1>8. ASSUME NEW c \in Members(chunk.started) PROVE Started(c)'
  <2>1. PICK k \in 1 .. Len(chunk.started) : chunk.started[k] = c
    BY DEF Members
  <2>2. k \in 1 .. Len(Updates) /\ Len(log) + k \in 1 .. Len(log')
    <3>1. /\ Len(chunk.started) \in Nat /\ Len(chunk.completed) \in Nat
          /\ Len(Updates) = Len(chunk.started) + Len(chunk.completed)
      BY <1>7
    <3>2. Len(log) \in Nat /\ Len(log') = Len(log) + Len(Updates)
      BY <1>6
    <3> QED  BY <2>1, <3>1, <3>2, PlaceInLog, Zenon
  <2>3. Len(log) + k \in At("tool.started", c)'
    BY <1>6, <1>7, <2>1, <2>2 DEF At
  <2> QED  BY <2>3 DEF Started
<1>9. CallsAnnounced'
  BY <1>1, <1>3, <1>8 DEF CallsAnnounced, agent
<1>10. ResultsAreMade' /\ ReviewsAsked'
  BY <1>1, <1>2, <1>3 DEF ResultsAreMade, ReviewsAsked, agent, Gated
<1>11. ASSUME NEW k \in 1 .. Len(Updates), Updates[k].ev \in {"approval.request", "tool.completed"}
       PROVE  /\ \/ Started(Updates[k].call)
                 \/ \E m \in 1 .. k - 1 :
                      Updates[m].ev = "tool.started" /\ Updates[m].call = Updates[k].call
              /\ Gated(Updates[k].call) /\ ~ auto => AskedFor(Updates[k].call)
  <2> DEFINE c == Updates[k].call
  <2>1. k \notin 1 .. Len(chunk.started)
    BY <1>7, <1>11
  <2>2. c \in Members(chunk.completed)
    BY <1>7, <2>1 DEF Members
  <2>3. c \in 1 .. made
    <3>1. c \in Calls
      BY <1>5, <1>11, <2>2, ElementOfSeq DEF Members, TypeInv, TypeOK, GraphTypeOK, Chunks
    <3> QED  BY <2>2, <3>1 DEF ResultsAreMade, Calls
  <2>4. Started(c) \/ c \in Members(chunk.started)
    BY <1>1, <2>3 DEF CallsAnnounced
  <2>5. ASSUME c \in Members(chunk.started)
        PROVE  \E m \in 1 .. k - 1 : Updates[m].ev = "tool.started" /\ Updates[m].call = c
    <3>1. PICK m \in 1 .. Len(chunk.started) : chunk.started[m] = c
      BY <2>5 DEF Members
    <3>2. m \in 1 .. k - 1
      BY <1>7, <2>1
    <3> QED  BY <1>7, <3>1, <3>2
  <2>6. Gated(c) /\ ~ auto => AskedFor(c)
    BY <2>2 DEF ReviewsAsked
  <2> QED  BY <2>4, <2>5, <2>6
<1>12. EventsInOrder'
  BY <1>1, <1>4, <1>5, <1>11, AppendsInOrder
<1> QED  BY <1>9, <1>10, <1>12

LEMMA OrderAskApproval ==
  ASSUME OrderInv, AskApproval
  PROVE  CallsAnnounced' /\ ResultsAreMade' /\ ReviewsAsked' /\ EventsInOrder'
<1> USE DEF OrderInv
<1>1. /\ UNCHANGED <<auto, cancels, agent>> /\ chunk' = NoChunk /\ log \in Seq(Events)
      /\ log' = log \o Requested /\ pc = "streaming" /\ chunk.kind = "interrupt"
  BY DEF AskApproval, Reads, TypeInv, TypeOK, Requested
<1>2. Members(NoChunk.started) = {} /\ Members(NoChunk.completed) = {}
  BY EmptySeq DEF Members, NoChunk, Chunk
<1>3. \A c : (Started(c) => Started(c)') /\ (AskedFor(c) => AskedFor(c)')
  BY LogKept DEF Next, DriveStep
<1>4. /\ Requested \in Seq(Events) /\ Len(review) \in Nat /\ Len(Requested) = Len(review)
      /\ \A i \in 1 .. Len(review) :
           Requested[i].ev = "approval.request" /\ Requested[i].call = review[i]
  BY RequestedType, EventFields
<1>5. /\ Len(log) \in Nat /\ Len(log') = Len(log) + Len(Requested)
      /\ \A k \in 1 .. Len(Requested) : log'[Len(log) + k] = Requested[k]
  BY <1>1, <1>4, Appended
<1>6. ASSUME NEW j \in 1 .. Len(review) PROVE AskedFor(review[j])'
  <2>1. Len(log) + j \in 1 .. Len(log')
    BY <1>4, <1>5
  <2>2. Len(log) + j \in {i \in 1 .. Len(log') : log'[i].ev = "approval.request" /\ log'[i].call = review[j]}
    BY <1>4, <1>5, <2>1
  <2>3. review'[j] = review[j]
    BY <1>1 DEF agent
  <2> QED  BY <2>2, <2>3 DEF AskedFor, At
<1>7. Members(chunk.started) = {}
  BY <1>1, EmptySeq DEF Members, ChunksAreBare
<1>8. CallsAnnounced'
  BY <1>1, <1>3, <1>7 DEF CallsAnnounced, agent
<1>9. ResultsAreMade' /\ ReviewsAsked'
  BY <1>1, <1>2, <1>3, <1>6 DEF ResultsAreMade, ReviewsAsked, agent, Gated
<1>10. \A j \in 1 .. Len(review) : Started(review[j])
  <2>1. \A j \in 1 .. Len(review) : review[j] \in 1 .. made
    BY LenProperties DEF CallsAreMade, TypeInv, TypeOK, GraphTypeOK
  <2> QED  BY <1>1, <1>7, <2>1 DEF CallsAnnounced
<1>11. EventsInOrder'
  BY <1>1, <1>4, <1>10, AppendsInOrder
<1> QED  BY <1>8, <1>9, <1>11

\* A step that tells the client nothing about a call and leaves the graph alone.
LEMMA OrderQuiet ==
  ASSUME OrderInv, [Next]_vars, NEW t \in Seq(Events), log' = log \o t,
         \A k \in 1 .. Len(t) : t[k].ev \in Others,
         UNCHANGED <<review, todo, returned, made>>,
         chunk' \in {chunk, NoChunk},
         chunk' = chunk \/ chunk.kind # "update" \/ pc' = "ended",
         graph' = graph \/ pc = "awaiting" \/ auto,
         pc' = "awaiting" => pc = "awaiting", pc = "ended" => pc' = "ended",
         ~ auto' => ~ auto
  PROVE  CallsAnnounced' /\ ResultsAreMade' /\ ReviewsAsked' /\ EventsInOrder'
<1> USE DEF OrderInv
<1>1. \A c : (Started(c) => Started(c)') /\ (AskedFor(c) => AskedFor(c)')
  BY LogKept
<1>2. Members(NoChunk.started) = {} /\ Members(NoChunk.completed) = {}
  BY EmptySeq DEF Members, NoChunk, Chunk
<1>3. chunk.kind # "update" => Members(chunk.started) = {}
  BY EmptySeq DEF Members, ChunksAreBare
<1>4. CallsAnnounced'
  BY <1>1, <1>2, <1>3 DEF CallsAnnounced
<1>5. ResultsAreMade'
  BY <1>2 DEF ResultsAreMade
<1>6. ReviewsAsked'
  BY <1>1, <1>2 DEF ReviewsAsked, Gated
<1>7. \A k \in 1 .. Len(t) : t[k].ev \notin {"approval.request", "tool.completed"}
  BY DEF Others, Closing, Terminal
<1>8. EventsInOrder'
  BY <1>7, AppendsInOrder
<1> QED  BY <1>4, <1>5, <1>6, <1>8

LEMMA BareNext ==
  ASSUME TypeInv, ChunksAreBare, [Next]_vars
  PROVE  ChunksAreBare'
<1>1. CASE UNCHANGED chunk
  BY <1>1 DEF ChunksAreBare
<1>2. CASE chunk' = NoChunk
  BY <1>2 DEF ChunksAreBare, NoChunk, Chunk
<1>3. CASE GraphAdvances
  <2>1. \/ chunk' = chunk
        \/ \E kind : chunk' = Chunk(kind, <<>>, <<>>)
        \/ \E started, completed : chunk' = Chunk("update", started, completed)
    BY <1>3 DEF GraphAdvances, GraphText, GraphCalls, GraphInterrupts, GraphReviews, GraphLaunches,
       GraphReturns, GraphEnds, GraphRaises
  <2>2. \A kind, started, completed :
          /\ Chunk(kind, started, completed).kind = kind
          /\ Chunk(kind, started, completed).started = started
          /\ Chunk(kind, started, completed).completed = completed
    BY DEF Chunk
  <2> QED  BY <2>1, <2>2 DEF ChunksAreBare
<1>4. UNCHANGED chunk \/ chunk' = NoChunk \/ GraphAdvances
  BY DEF Next, ClientStep, StartRun, RespondLate, Respond, Cancel, OpenStream, TakeEvent, DropStream,
     DeliverResult, GraphStep, ToolRuns, DriveStep, PruneDone, PruneRaises, ReadCancelled, ReadError,
     ReadText, ReadUpdate, AskApproval, AutoApprove, Resume, PersistDone, ReadEnd, Reads, vars
<1> QED  BY <1>1, <1>2, <1>3, <1>4

LEMMA AutoNext ==
  ASSUME AutoIsChosen, [Next]_vars
  PROVE  AutoIsChosen' /\ (~ auto' => ~ auto)
BY DEF AutoIsChosen, Next, ClientStep, StartRun, RespondLate, Respond, Cancel, OpenStream, TakeEvent,
   DropStream, DeliverResult, GraphStep, DriveStep, PruneDone, PruneRaises, ReadCancelled, ReadError,
   ReadText, ReadUpdate, AskApproval, AutoApprove, Resume, PersistDone, ReadEnd, Reads, Finish, vars,
   driver

LEMMA OrderNext ==
  ASSUME OrderInv, [Next]_vars
  PROVE  OrderInv'
<1>1. TypeInv' /\ CallsAreMade' /\ AutoIsChosen' /\ ChunksAreBare' /\ (~ auto' => ~ auto)
  BY TypeNext, CallsAreMadeNext, AutoNext, BareNext DEF OrderInv
<1> SUFFICES CallsAnnounced' /\ ResultsAreMade' /\ ReviewsAsked' /\ EventsInOrder'
  BY <1>1 DEF OrderInv
<1>2. CASE GraphStep
  <2>1. UNCHANGED <<log, auto>>
    BY <1>2 DEF GraphStep, driver
  <2>2. EventsInOrder'
    BY <2>1 DEF OrderInv, EventsInOrder, At, Gated
  <2> QED  BY <1>2, <2>2, OrderGraph
<1>3. CASE ReadUpdate
  BY <1>3, OrderReadUpdate
<1>4. CASE AskApproval
  BY <1>4, OrderAskApproval
<1>5. CASE ~ (GraphStep \/ ReadUpdate \/ AskApproval)
  <2>1. PICK t \in Seq(Events) : log' = log \o t /\ \A k \in 1 .. Len(t) : t[k].ev \in Others
    BY <1>5, LogGrows DEF OrderInv
  <2>2. /\ UNCHANGED <<review, todo, returned, made>>
        /\ chunk' \in {chunk, NoChunk}
        /\ chunk' = chunk \/ chunk.kind # "update" \/ pc' = "ended"
        /\ graph' = graph \/ pc = "awaiting" \/ auto
        /\ pc' = "awaiting" => pc = "awaiting"
        /\ pc = "ended" => pc' = "ended"
    <3>1. CASE DriveStep
      BY <1>5, <3>1 DEF DriveStep, PruneDone, PruneRaises, ReadCancelled, ReadError, ReadText,
         AutoApprove, Resume, ResumeWith, PersistDone, ReadEnd, Reads, Finish, driver, agent
    <3>2. CASE ClientStep \/ DeliverResult \/ UNCHANGED vars
      BY <3>2 DEF ClientStep, StartRun, RespondLate, Respond, Cancel, OpenStream, TakeEvent,
         DropStream, DeliverResult, vars, driver, agent
    <3> QED  BY <1>5, <3>1, <3>2 DEF Next
  <2> QED  BY <1>1, <2>1, <2>2, OrderQuiet
<1> QED  BY <1>2, <1>3, <1>4, <1>5

LEMMA OrderInvariant == Spec => []OrderInv
BY OrderInit, OrderNext, PTL DEF Spec
-----------------------------------------------------------------------------
(* Each approval card shows the call it asks about *)

\* Numbers of a finite set are told apart by how many of the set they reach.
LEMMA RankTellsApart ==
  ASSUME NEW T \in SUBSET Nat, IsFiniteSet(T), NEW p \in T, NEW r \in T,
         Cardinality({q \in T : q <= p}) = Cardinality({q \in T : q <= r})
  PROVE  p = r
<1> DEFINE Upto(x) == {q \in T : q <= x}
<1>1. ASSUME NEW x \in T, NEW y \in T, x < y, Cardinality(Upto(x)) = Cardinality(Upto(y))
      PROVE  FALSE
  <2>1. IsFiniteSet(Upto(y)) /\ Upto(x) \in SUBSET Upto(y)
    <3>1. Upto(y) \in SUBSET T
      OBVIOUS
    <3>2. \A z \in T : z \in Nat
      OBVIOUS
    <3>3. \A q \in T : q <= x => q <= y
      BY <1>1, <3>2
    <3> QED  BY <3>1, <3>3, FS_Subset
  <2>2. Upto(y) = Upto(x)
    BY <1>1, <2>1, FS_Subset
  <2>3. ~ (y <= x) /\ y <= y
    <3>1. \A z \in T : z \in Nat
      OBVIOUS
    <3>2. x \in Nat /\ y \in Nat
      BY <3>1
    <3> QED  BY <1>1, <3>2
  <2>4. y \in Upto(y) /\ y \notin Upto(x)
    BY <2>3
  <2> QED  BY <2>2, <2>4
<1>2. p < r \/ r < p \/ p = r
  OBVIOUS
<1> QED  BY <1>1, <1>2

LEMMA CallsAreNumbers == \A c \in Calls : c \in Nat /\ c >= 1
BY BoundsAssumption DEF Calls

\* The ascending sequence of a set lists each member once, in order.
LEMMA AscendingLists ==
  ASSUME NEW S \in SUBSET Calls, NEW q \in Ascending(S)
  PROVE  /\ DOMAIN q = 1 .. Len(q) /\ Len(q) \in Nat
         /\ \A i, j \in 1 .. Len(q) : i <= j <=> q[i] <= q[j]
         /\ \A c \in S : \E i \in 1 .. Len(q) : q[i] = c
         /\ \A i \in 1 .. Len(q) : q[i] \in S
<1>1. /\ q \in Seq(S) /\ IsFiniteSet(S) /\ Cardinality(S) \in Nat /\ Len(q) = Cardinality(S)
      /\ \A i \in 1 .. Len(q) : q[i] \in S
  BY AscendingSeq
<1>2. q \in [1 .. Len(q) -> S] /\ \A i, j \in 1 .. Len(q) : i < j => q[i] < q[j]
  BY <1>1 DEF Ascending
<1>3. \A i \in 1 .. Len(q) : q[i] \in Nat
  BY <1>1, CallsAreNumbers
<1>4. \A i, j \in 1 .. Len(q) : i <= j <=> q[i] <= q[j]
  BY <1>1, <1>2, <1>3
<1>5. q \in Injection(1 .. Len(q), S)
  BY <1>1, <1>2, <1>3 DEF Injection, IsInjective
<1>6. IsFiniteSet(1 .. Len(q)) /\ Cardinality(1 .. Len(q)) = Len(q)
  BY <1>1, FS_Interval
<1>7. q \in Surjection(1 .. Len(q), S)
  BY <1>1, <1>5, <1>6, FS_Injection
<1> QED  BY <1>1, <1>2, <1>4, <1>7 DEF Surjection

\* As many members as places.
LEMMA PlacesCount ==
  ASSUME NEW S \in SUBSET Calls, NEW q \in Ascending(S), NEW R \in SUBSET (1 .. Len(q))
  PROVE  /\ IsFiniteSet(R) /\ IsFiniteSet({q[k] : k \in R})
         /\ Cardinality({q[k] : k \in R}) = Cardinality(R) /\ Cardinality(R) \in Nat
<1> DEFINE f == [k \in R |-> q[k]]
           T == {q[k] : k \in R}
<1>1. /\ Len(q) \in Nat /\ \A i, j \in 1 .. Len(q) : i <= j <=> q[i] <= q[j]
      /\ \A i \in 1 .. Len(q) : q[i] \in S
  BY AscendingLists
<1>2. IsFiniteSet(R) /\ Cardinality(R) \in Nat
  <2>1. IsFiniteSet(1 .. Len(q))
    BY <1>1, FS_Interval
  <2> QED  BY <2>1, FS_Subset, FS_CardinalityType
<1>3. \A k \in R : k \in 1 .. Len(q) /\ q[k] \in Nat
  BY <1>1, CallsAreNumbers
<1>4. \A j, k \in R : q[j] = q[k] => j = k
  <2>1. ASSUME NEW j \in R, NEW k \in R, q[j] = q[k] PROVE j = k
    <3>1. j <= k /\ k <= j
      BY <1>1, <1>3, <2>1
    <3> QED  BY <1>1, <1>3, <3>1
  <2> QED  BY <2>1
<1>5. f \in Bijection(R, T)
  BY <1>4 DEF Bijection, Injection, IsInjective, Surjection
<1>6. ExistsBijection(R, T)
  BY <1>5 DEF ExistsBijection
<1> HIDE DEF T
<1>7. IsFiniteSet(T) /\ Cardinality(T) = Cardinality(R)
  BY <1>2, <1>6, FS_Bijection
<1> QED  BY <1>2, <1>7 DEF T

AnnouncedOnce == \A c \in Calls : Cardinality(At("tool.started", c)) <= 1

\* The FIFOs hold what the log announced; without a repetition that is the calls made,
\* in order, but for those in the chunk that waits to be read.
AnnouncedLogged == \A p \in 1 .. Len(announced) : Started(announced[p])
AnnouncedInOrder ==
  AnnouncedOnce /\ pc # "ended" =>
    /\ \A p \in 1 .. Len(announced) : announced[p] = p
    /\ \/ Len(announced) = made /\ \A k \in 1 .. Len(chunk.started) : chunk.started[k] \in 1 .. made
       \/ /\ Len(announced) + Len(chunk.started) = made
          /\ \A k \in 1 .. Len(chunk.started) : chunk.started[k] = Len(announced) + k

\* The message being worked on holds the last calls made, and its gated ones are under
\* review.
BatchIsLast == \E m \in 0 .. made : batch = m + 1 .. made
ReviewIsBatch == review \in Ascending({c \in batch : Gated(c)})

\* Of a gated tool, every call was popped but those of a round not asked about yet.
Passed == IF graph = "review" /\ pc # "awaiting" THEN (1 .. made) \ batch ELSE 1 .. made
OfTool(S, t) == {p \in S : ToolOf[p] = t}
PoppedThrough ==
  ~ auto /\ AnnouncedOnce /\ pc # "ended" =>
    \A t \in GatedTools : popped[t] = Cardinality(OfTool(Passed, t))

PairingInv ==
  /\ OrderInv /\ AnnouncedLogged /\ AnnouncedInOrder /\ BatchIsLast /\ ReviewIsBatch
  /\ PoppedThrough /\ CardIsCallIfAnnouncedOnce

LEMMA AtFinite ==
  ASSUME TypeInv, NEW name, NEW c
  PROVE  IsFiniteSet(At(name, c)) /\ Cardinality(At(name, c)) \in Nat /\ At(name, c) \subseteq 1 .. Len(log)
<1>1. Len(log) \in Nat
  BY LenProperties DEF TypeInv, TypeOK
<1>2. IsFiniteSet(1 .. Len(log)) /\ At(name, c) \in SUBSET (1 .. Len(log))
  BY <1>1, FS_Interval DEF At
<1> QED  BY <1>2, FS_Subset, FS_CardinalityType

\* An announcement is not taken back, so that a call announced twice stays so.
LEMMA OnceBefore ==
  ASSUME TypeInv, TypeInv', [Next]_vars, AnnouncedOnce'
  PROVE  AnnouncedOnce
<1>1. PICK t \in Seq(Events) : log' = log \o t
  BY LogGrows
<1>2. log \in Seq(Events)
  BY DEF TypeInv, TypeOK
<1>3. /\ Len(log) \in Nat /\ Len(log') \in Nat /\ Len(log) <= Len(log')
      /\ \A i \in 1 .. Len(log) : log'[i] = log[i]
  BY <1>1, <1>2, Appended
<1>4. ASSUME NEW c \in Calls
      PROVE  Cardinality(At("tool.started", c)) <= 1
  <2>1. At("tool.started", c) \in SUBSET (At("tool.started", c)')
    BY <1>3 DEF At
  <2>2. IsFiniteSet(At("tool.started", c)') /\ Cardinality(At("tool.started", c)') \in Nat
        /\ Cardinality(At("tool.started", c)) \in Nat
    <3>1. Len(log') \in Int /\ 1 \in Int
      BY <1>3
    <3>2. IsFiniteSet(1 .. Len(log'))
      BY <3>1, FS_Interval
    <3>3. At("tool.started", c)' \in SUBSET (1 .. Len(log'))
      BY DEF At
    <3> QED  BY <3>2, <3>3, AtFinite, FS_Subset, FS_CardinalityType
  <2>3. Cardinality(At("tool.started", c)) <= Cardinality(At("tool.started", c)')
    BY <2>1, <2>2, FS_Subset
  <2> QED  BY <2>2, <2>3 DEF AnnouncedOnce
<1> QED  BY <1>4 DEF AnnouncedOnce

\* Announced once is announced in one place.
LEMMA OnceIsOne ==
  ASSUME NEW S, IsFiniteSet(S), Cardinality(S) <= 1, NEW i \in S, NEW j \in S
  PROVE  i = j
<1>1. SUFFICES ASSUME i # j PROVE FALSE
  OBVIOUS
<1>2. IsFiniteSet({i}) /\ Cardinality({i}) = 1
  BY FS_Singleton
<1>3. IsFiniteSet({i} \cup {j}) /\ Cardinality({i} \cup {j}) = 2
  <2>1. j \notin {i}
    BY <1>1
  <2>2. Cardinality({i} \cup {j}) = Cardinality({i}) + 1
    BY <1>2, <2>1, FS_AddElement
  <2> QED  BY <1>2, <2>2, FS_AddElement
<1>4. {i} \cup {j} \in SUBSET S
  OBVIOUS
<1>5. 2 <= Cardinality(S) /\ Cardinality(S) \in Nat
  BY <1>3, <1>4, FS_Subset, FS_CardinalityType
<1> QED  BY <1>5

LEMMA PairingInit == Init => PairingInv
<1> SUFFICES ASSUME Init PROVE PairingInv
  OBVIOUS
<1>1. /\ Len(announced) = 0 /\ Len(log) = 0 /\ made = 0 /\ batch = {} /\ review = <<>>
      /\ chunk.started = <<>> /\ Len(<<>>) = 0 /\ graph = "model"
  BY EmptySeq DEF Init, GraphInit, NoChunk, Chunk
<1>2. AnnouncedLogged /\ AnnouncedInOrder
  BY <1>1 DEF AnnouncedLogged, AnnouncedInOrder
<1>3. BatchIsLast
  <2>1. 0 \in 0 .. made /\ batch = 0 + 1 .. made
    BY <1>1
  <2> QED  BY <2>1 DEF BatchIsLast
<1>4. ReviewIsBatch
  <2>1. {c \in batch : Gated(c)} = {} /\ Cardinality({}) = 0
    BY <1>1, FS_EmptySet
  <2>2. <<>> \in Ascending({})
    BY <2>1, EmptySeq DEF Ascending
  <2> QED  BY <1>1, <2>1, <2>2 DEF ReviewIsBatch
<1>5. PoppedThrough
  <2>1. \A t : OfTool(Passed, t) = {}
    BY <1>1 DEF OfTool, Passed
  <2>2. \A t \in GatedTools : popped[t] = 0
    BY ToolsAssumption DEF Init
  <2> QED  BY <2>1, <2>2, FS_EmptySet DEF PoppedThrough
<1>6. CardIsCallIfAnnouncedOnce
  BY <1>1 DEF CardIsCallIfAnnouncedOnce, CardIsCall
<1> QED  BY <1>2, <1>3, <1>4, <1>5, <1>6, OrderInit DEF PairingInv
\* A step that announces no call leaves the announcements as they are.
LEMMA SameStarts ==
  ASSUME TypeInv, NEW t \in Seq(Events), log' = log \o t,
         \A k \in 1 .. Len(t) : t[k].ev # "tool.started"
  PROVE  /\ \A c : At("tool.started", c)' = At("tool.started", c)
         /\ AnnouncedOnce' <=> AnnouncedOnce
         /\ \A c : Started(c)' <=> Started(c)
<1>1. log \in Seq(Events)
  BY DEF TypeInv, TypeOK
<1>2. /\ Len(log) \in Nat /\ Len(t) \in Nat /\ Len(log') = Len(log) + Len(t)
      /\ \A i \in 1 .. Len(log) : log'[i] = log[i]
      /\ \A i \in 1 .. Len(log') : i \notin 1 .. Len(log) =>
           i - Len(log) \in 1 .. Len(t) /\ log'[i] = t[i - Len(log)]
  BY <1>1, Appended
<1>3. 1 .. Len(log) \subseteq 1 .. Len(log')
  BY <1>2
<1>4. ASSUME NEW c PROVE At("tool.started", c)' = At("tool.started", c)
  BY <1>2, <1>3 DEF At
<1> QED  BY <1>4 DEF AnnouncedOnce, Started

\* Requests whose cards are right keep every card right.
LEMMA CardsKept ==
  ASSUME TypeInv, CardIsCall, NEW t \in Seq(Events), log' = log \o t,
         \A k \in 1 .. Len(t) : t[k].ev = "approval.request" => t[k].card = t[k].call
  PROVE  CardIsCall'
<1>1. log \in Seq(Events)
  BY DEF TypeInv, TypeOK
<1>2. /\ \A i \in 1 .. Len(log) : log'[i] = log[i]
      /\ \A i \in 1 .. Len(log') : i \notin 1 .. Len(log) =>
           i - Len(log) \in 1 .. Len(t) /\ log'[i] = t[i - Len(log)]
  BY <1>1, Appended
<1> QED  BY <1>2 DEF CardIsCall

\* With no call on its way, the FIFOs hold exactly the calls made.
LEMMA AllAnnounced ==
  ASSUME PairingInv, AnnouncedOnce, pc # "ended", Len(chunk.started) = 0
  PROVE  /\ Len(announced) = made /\ made \in Nat
         /\ \A p \in 1 .. made : announced[p] = p
         /\ \A t : Announced(t) = OfTool(1 .. made, t)
<1>1. Len(announced) = made /\ made \in Nat /\ \A p \in 1 .. made : announced[p] = p
  <2>1. made \in Nat /\ Len(announced) \in Nat
    BY LenProperties DEF PairingInv, OrderInv, TypeInv, TypeOK, GraphTypeOK
  <2> QED  BY <2>1 DEF PairingInv, AnnouncedInOrder
<1>2. DOMAIN announced = 1 .. made
  BY <1>1, LenProperties DEF PairingInv, OrderInv, TypeInv, TypeOK
<1> QED  BY <1>1, <1>2 DEF Announced, OfTool

LEMMA PairingGraph ==
  ASSUME PairingInv, GraphStep
  PROVE  /\ AnnouncedLogged' /\ AnnouncedInOrder' /\ BatchIsLast' /\ ReviewIsBatch'
         /\ PoppedThrough' /\ CardIsCallIfAnnouncedOnce'
<1> USE DEF PairingInv
<1>1. UNCHANGED <<pc, auto, log, announced, popped>> /\ made \in Nat /\ Len(announced) \in Nat
  BY LenProperties DEF GraphStep, driver, pairing, OrderInv, TypeInv, TypeOK, GraphTypeOK
<1>2. /\ \A c : (Started(c)' <=> Started(c)) /\ (AnnouncedOnce' <=> AnnouncedOnce)
      /\ \A c : Gated(c)' <=> Gated(c)
  BY <1>1 DEF Started, AnnouncedOnce, At, Gated
<1>3. AnnouncedLogged' /\ CardIsCallIfAnnouncedOnce'
  BY <1>1, <1>2 DEF AnnouncedLogged, CardIsCallIfAnnouncedOnce, CardIsCall, At
<1> DEFINE Goal == AnnouncedInOrder' /\ BatchIsLast' /\ ReviewIsBatch' /\ PoppedThrough'
<1>4. ASSUME UNCHANGED <<batch, review, made>>, chunk' = chunk \/ Len(chunk'.started) = 0,
             chunk' = chunk \/ chunk = NoChunk,
             graph' = graph \/ (graph # "review" /\ graph' # "review")
      PROVE  Goal
  <2>1. Len(NoChunk.started) = 0
    BY EmptySeq DEF NoChunk, Chunk
  <2>2. AnnouncedInOrder'
    <3>1. CASE chunk' = chunk
      BY <1>1, <1>2, <1>4, <3>1 DEF AnnouncedInOrder
    <3>2. CASE chunk = NoChunk /\ Len(chunk'.started) = 0
      BY <1>1, <1>2, <1>4, <2>1, <3>2 DEF AnnouncedInOrder
    <3> QED  BY <1>4, <3>1, <3>2
  <2>3. BatchIsLast' /\ ReviewIsBatch'
    BY <1>2, <1>4 DEF BatchIsLast, ReviewIsBatch, Gated
  <2>4. Passed' = Passed
    BY <1>1, <1>4 DEF Passed
  <2>5. PoppedThrough'
    BY <1>1, <1>2, <2>4 DEF PoppedThrough, OfTool
  <2> QED  BY <2>2, <2>3, <2>5
<1>5. ASSUME NEW c \in Calls, ToolRuns(c) PROVE Goal
  BY <1>4, <1>5 DEF ToolRuns
<1>6. ASSUME GraphText \/ GraphInterrupts \/ GraphLaunches \/ GraphEnds \/ GraphRaises, chunk = NoChunk
      PROVE  Goal
  <2>1. \A kind : Len(Chunk(kind, <<>>, <<>>).started) = 0
    BY EmptySeq DEF Chunk
  <2>2. /\ UNCHANGED <<batch, review, made>>
        /\ chunk' = chunk \/ \E kind : chunk' = Chunk(kind, <<>>, <<>>)
        /\ graph' = graph \/ (graph # "review" /\ graph' # "review")
    BY <1>6 DEF GraphText, GraphInterrupts, GraphLaunches, GraphEnds, GraphRaises, agent, AtModel
  <2>3. chunk' = chunk \/ Len(chunk'.started) = 0
    BY <2>1, <2>2
  <2> HIDE DEF Goal
  <2> QED  BY <1>4, <1>6, <2>2, <2>3
<1>7. ASSUME NEW c \in Calls, GraphReturns(c), chunk = NoChunk PROVE Goal
  <2>1. Len(chunk'.started) = 0
    BY <1>7, EmptySeq DEF GraphReturns, Chunk
  <2> QED  BY <1>4, <1>7, <2>1 DEF GraphReturns
<1>8. ASSUME NEW again \in Resends, GraphReviews(again), chunk = NoChunk, pc = "streaming" PROVE Goal
  <2>1. UNCHANGED <<batch, review, made>> /\ graph # "review" /\ graph' # "review"
    BY <1>8 DEF GraphReviews
  <2>2. PICK message \in Ascending(IF again THEN batch ELSE {}) : chunk'.started = message
    BY <1>8 DEF GraphReviews, Chunk
  <2>3. \A k \in 1 .. Len(chunk'.started) : chunk'.started[k] \in 1 .. made
    <3>1. batch \in SUBSET Calls /\ batch \subseteq 1 .. made
      BY DEF OrderInv, TypeInv, TypeOK, GraphTypeOK, CallsAreMade
    <3>2. (IF again THEN batch ELSE {}) \in SUBSET Calls
      BY <3>1
    <3> HIDE DEF PairingInv
    <3>3. \A k \in 1 .. Len(message) : message[k] \in batch
      BY <2>2, <3>2, AscendingLists
    <3> QED  BY <2>2, <3>1, <3>3
  <2>4. AnnouncedOnce => Len(announced) = made /\ \A p \in 1 .. Len(announced) : announced[p] = p
    <3>1. Len(chunk.started) = 0
      BY <1>8, EmptySeq DEF NoChunk, Chunk
    <3> QED  BY <1>1, <1>8, <3>1 DEF AnnouncedInOrder
  <2>5. AnnouncedInOrder'
    BY <1>1, <1>2, <2>1, <2>3, <2>4 DEF AnnouncedInOrder
  <2>6. BatchIsLast' /\ ReviewIsBatch'
    BY <1>2, <2>1 DEF BatchIsLast, ReviewIsBatch, Gated
  <2>7. Passed' = Passed
    BY <1>1, <2>1 DEF Passed
  <2>8. PoppedThrough'
    BY <1>1, <1>2, <2>7 DEF PoppedThrough, OfTool
  <2> QED  BY <2>5, <2>6, <2>8
<1>9. ASSUME NEW n \in 1 .. MaxCalls, GraphCalls(n), chunk = NoChunk, pc = "streaming" PROVE Goal
  <2> DEFINE new == made + 1 .. made + n
             gated == {c \in new : Gated(c)}
  <2>1. /\ made' = made + n /\ batch' = new /\ review' \in Ascending(gated) /\ n \in Nat
        /\ graph' = IF gated = {} THEN "ready" ELSE "review"
        /\ chunk'.started = [i \in 1 .. n |-> made + i] /\ graph # "review"
    BY <1>9, BoundsAssumption DEF GraphCalls, Chunk, AtModel
  <2>2. BatchIsLast'
    BY <1>1, <2>1 DEF BatchIsLast
  <2>3. ReviewIsBatch'
    BY <2>1 DEF ReviewIsBatch, Gated
  <2>4. AnnouncedOnce => Len(announced) = made /\ \A p \in 1 .. Len(announced) : announced[p] = p
    <3>1. Len(chunk.started) = 0
      BY <1>9, EmptySeq DEF NoChunk, Chunk
    <3> QED  BY <1>1, <1>9, <3>1 DEF AnnouncedInOrder
  <2>5. Len(chunk'.started) = n
    BY <2>1
  <2>6. AnnouncedInOrder'
    BY <1>1, <1>2, <2>1, <2>4, <2>5 DEF AnnouncedInOrder
  <2>7. Passed = 1 .. made
    BY <2>1 DEF Passed
  <2>8. \A t \in GatedTools : OfTool(Passed', t) = OfTool(Passed, t)
    <3>1. CASE gated = {}
      <4>1. Passed' = 1 .. made + n
        BY <2>1, <3>1 DEF Passed
      <4>2. \A p \in 1 .. made + n : p \in 1 .. made \/ p \in new
        BY <1>1, <2>1
      <4>3. \A p \in new : ToolOf[p] \notin GatedTools
        BY <3>1 DEF Gated
      <4>4. 1 .. made \subseteq 1 .. made + n
        BY <1>1, <2>1
      <4> QED  BY <2>7, <4>1, <4>2, <4>3, <4>4 DEF OfTool
    <3>2. CASE gated # {}
      <4>1. Passed' = (1 .. made + n) \ new
        BY <1>1, <1>9, <2>1, <3>2 DEF Passed
      <4>2. (1 .. made + n) \ new = 1 .. made
        BY <1>1, <2>1
      <4> QED  BY <2>7, <4>1, <4>2
    <3> QED  BY <3>1, <3>2
  <2>9. PoppedThrough'
    BY <1>1, <1>2, <2>8 DEF PoppedThrough, OfTool
  <2> QED  BY <2>2, <2>3, <2>6, <2>9
<1> QED
  <2>1. Goal
    BY <1>5, <1>6, <1>7, <1>8, <1>9 DEF GraphStep, GraphAdvances
  <2> QED  BY <1>3, <2>1
LEMMA PairingReadUpdate ==
  ASSUME PairingInv, OrderInv', ReadUpdate
  PROVE  /\ AnnouncedLogged' /\ AnnouncedInOrder' /\ BatchIsLast' /\ ReviewIsBatch'
         /\ PoppedThrough' /\ CardIsCallIfAnnouncedOnce'
<1> USE DEF PairingInv
<1> DEFINE s == chunk.started
<1>1. /\ UNCHANGED <<pc, auto, popped, batch, review, graph, made>>
      /\ announced' = announced \o s /\ pc = "streaming" /\ Len(chunk'.started) = 0
  BY EmptySeq DEF ReadUpdate, Reads, driver, agent, NoChunk, Chunk
<1>2. TypeInv /\ TypeInv' /\ [Next]_vars
  BY DEF OrderInv, Next, DriveStep
<1>3. log \in Seq(Events) /\ announced \in Seq(Calls) /\ s \in Seq(Calls) /\ made \in Nat
  BY <1>2 DEF TypeInv, TypeOK, GraphTypeOK, Chunks
<1>4. log' = log \o Updates
  <2>1. EachCall("tool.started", s) \in Seq(Events)
        /\ EachCall("tool.completed", chunk.completed) \in Seq(Events)
    <3>1. chunk.completed \in Seq(Calls)
      BY <1>2 DEF TypeInv, TypeOK, GraphTypeOK, Chunks
    <3> QED  BY <1>3, <3>1, EachCallType DEF Names
  <2>2. log' = (log \o EachCall("tool.started", s)) \o EachCall("tool.completed", chunk.completed)
    BY DEF ReadUpdate
  <2> QED  BY <1>3, <2>1, <2>2, ConcatAssociative DEF Updates
<1>5. /\ Updates \in Seq(Events) /\ Len(s) \in Nat /\ Len(chunk.completed) \in Nat
      /\ Len(Updates) = Len(s) + Len(chunk.completed)
      /\ \A k \in 1 .. Len(s) : Updates[k].ev = "tool.started" /\ Updates[k].call = s[k]
      /\ \A k \in 1 .. Len(Updates) : Updates[k].ev # "approval.request"
  <2>1. ASSUME NEW k \in 1 .. Len(Updates) PROVE Updates[k].ev \in {"tool.started", "tool.completed"}
    BY <1>2, UpdatesType
  <2> QED  BY <1>2, <2>1, UpdatesType
<1>6. /\ Len(log) \in Nat /\ Len(log') = Len(log) + Len(Updates)
      /\ \A k \in 1 .. Len(Updates) : log'[Len(log) + k] = Updates[k]
      /\ \A i \in 1 .. Len(log) : log'[i] = log[i]
  BY <1>3, <1>4, <1>5, Appended
<1>7. /\ Len(announced) \in Nat /\ Len(announced') = Len(announced) + Len(s)
      /\ \A p \in 1 .. Len(announced) + Len(s) :
           announced'[p] = IF p <= Len(announced) THEN announced[p] ELSE s[p - Len(announced)]
  BY <1>1, <1>3, <1>5, ConcatProperties, LenProperties
<1>17. /\ Len(log) \in Nat /\ Len(log') \in Nat /\ Len(Updates) \in Nat /\ Len(s) \in Nat
       /\ Len(s) <= Len(Updates) /\ Len(log') = Len(log) + Len(Updates)
  <2>1. Len(Updates) = Len(s) + Len(chunk.completed)
    BY <1>5
  <2>2. Len(s) \in Nat /\ Len(chunk.completed) \in Nat /\ Len(log) \in Nat
    BY <1>5, <1>6
  <2>3. \A a, b \in Nat : a + b \in Nat /\ a <= a + b
    OBVIOUS
  <2>4. Len(Updates) \in Nat /\ Len(s) <= Len(Updates)
    BY <2>1, <2>2, <2>3
  <2>5. Len(log') = Len(log) + Len(Updates)
    BY <1>6
  <2>6. Len(log') \in Nat
    BY <2>2, <2>3, <2>4, <2>5
  <2> QED  BY <2>2, <2>4, <2>5, <2>6
<1> DEFINE Starts(c) == {i \in 1 .. Len(log') : log'[i].ev = "tool.started" /\ log'[i].call = c}
<1>0. \A c : Starts(c) = At("tool.started", c)'
  BY DEF At
<1>8. ASSUME NEW k \in 1 .. Len(s)
      PROVE  Len(log) + k \in Starts(s[k])
  <2>1. k \in 1 .. Len(Updates) /\ Len(log) + k \in 1 .. Len(log')
    BY <1>17
  <2> QED  BY <1>5, <1>6, <2>1
<1>16. ASSUME NEW i \in 1 .. Len(log) PROVE i \in 1 .. Len(log') /\ log'[i] = log[i]
  BY <1>6, <1>17
<1>9. AnnouncedLogged'
  <2>1. ASSUME NEW p \in 1 .. Len(announced') PROVE Starts(announced'[p]) # {}
    <3>1. CASE p <= Len(announced)
      <4>1. Started(announced[p]) /\ announced'[p] = announced[p]
        BY <1>5, <1>7, <2>1, <3>1 DEF AnnouncedLogged
      <4>2. PICK i \in 1 .. Len(log) : log[i].ev = "tool.started" /\ log[i].call = announced[p]
        BY <4>1 DEF Started, At
      <4> QED  BY <1>16, <4>1, <4>2
    <3>2. CASE ~ (p <= Len(announced))
      <4>1. p - Len(announced) \in 1 .. Len(s) /\ announced'[p] = s[p - Len(announced)]
        BY <1>5, <1>7, <2>1, <3>2
      <4> QED  BY <1>8, <4>1
    <3> QED  BY <3>1, <3>2
  <2> QED  BY <2>1 DEF AnnouncedLogged, Started, At
<1>10. AnnouncedOnce' => AnnouncedOnce
  BY <1>2, OnceBefore
\* A call that the stream shows again was announced before.
<1>11. ASSUME AnnouncedOnce', Len(announced) = made, Len(s) # 0, s[1] \in 1 .. made,
              \A p \in 1 .. Len(announced) : announced[p] = p
       PROVE  FALSE
  <2>1. Started(s[1])
    BY <1>11 DEF AnnouncedLogged
  <2>2. PICK i \in 1 .. Len(log) : log[i].ev = "tool.started" /\ log[i].call = s[1]
    BY <2>1 DEF Started, At
  <2>3. i \in Starts(s[1]) /\ i # Len(log) + 1
    BY <1>6, <1>16, <2>2
  <2>4. 1 \in 1 .. Len(s)
    BY <1>5, <1>11
  <2>5. Len(log) + 1 \in Starts(s[1]) /\ s[1] \in Calls
    BY <1>3, <1>8, <2>4, ElementOfSeq
  <2>6. IsFiniteSet(Starts(s[1]))
    <3>1. Len(log') \in Int /\ 1 \in Int
      BY <1>5, <1>6
    <3>2. IsFiniteSet(1 .. Len(log')) /\ Starts(s[1]) \in SUBSET (1 .. Len(log'))
      BY <3>1, FS_Interval
    <3> QED  BY <3>2, FS_Subset
  <2>7. Cardinality(Starts(s[1])) <= 1
    BY <1>11, <2>5 DEF AnnouncedOnce, At
  <2> HIDE DEF Starts, s
  <2> QED  BY <2>3, <2>5, <2>6, <2>7, OnceIsOne
<1>12. AnnouncedInOrder'
  <2> SUFFICES ASSUME AnnouncedOnce'
               PROVE  Len(announced') = made /\ \A p \in 1 .. Len(announced') : announced'[p] = p
    BY <1>1 DEF AnnouncedInOrder
  <2>1. \A p \in 1 .. Len(announced) : announced[p] = p
    BY <1>1, <1>10 DEF AnnouncedInOrder
  <2>2. CASE Len(announced) = made /\ \A k \in 1 .. Len(s) : s[k] \in 1 .. made
    <3>1. Len(s) = 0
      BY <1>5, <1>11, <2>1, <2>2
    <3> QED  BY <1>7, <2>1, <2>2, <3>1
  <2>3. CASE Len(announced) + Len(s) = made /\ \A k \in 1 .. Len(s) : s[k] = Len(announced) + k
    <3>1. ASSUME NEW p \in 1 .. Len(announced'), ~ (p <= Len(announced)) PROVE announced'[p] = p
      <4>1. p - Len(announced) \in 1 .. Len(s) /\ announced'[p] = s[p - Len(announced)]
        BY <1>5, <1>7, <3>1
      <4> QED  BY <1>5, <1>7, <2>3, <4>1
    <3> QED  BY <1>5, <1>7, <2>1, <2>3, <3>1
  <2> QED  BY <1>1, <1>10, <2>2, <2>3 DEF AnnouncedInOrder
<1>13. BatchIsLast' /\ ReviewIsBatch'
  BY <1>1 DEF BatchIsLast, ReviewIsBatch, Gated
<1>14. PoppedThrough'
  <2>1. Passed' = Passed
    BY <1>1 DEF Passed
  <2> QED  BY <1>1, <1>10, <2>1 DEF PoppedThrough, OfTool
<1>15. CardIsCallIfAnnouncedOnce'
  BY <1>2, <1>4, <1>5, <1>10, CardsKept DEF CardIsCallIfAnnouncedOnce, AnnouncedOnce
<1> QED  BY <1>9, <1>12, <1>13, <1>14, <1>15
\* The request of a round takes the id of the very call under review.
LEMMA CardShowsCall ==
  ASSUME PairingInv, AnnouncedOnce, AskApproval, NEW i \in 1 .. Len(review)
  PROVE  Card(i) = review[i]
<1> DEFINE t == ToolOf[review[i]]
           gated == {c \in batch : Gated(c)}
           A == OfTool((1 .. made) \ batch, t)
           T == OfTool(1 .. made, t)
           R == {k \in Requests(t) : k <= i}
           U == {review[k] : k \in R}
<1>1. /\ graph = "review" /\ pc = "streaming" /\ ~ auto /\ Len(chunk.started) = 0
  BY EmptySeq DEF AskApproval, Reads, PairingInv, OrderInv, TypeInv, AsksBounded, ChunksAreBare
<1>2. /\ batch \in SUBSET Calls /\ batch \subseteq 1 .. made /\ review \in Seq(Calls) /\ made \in Nat
      /\ review \in Ascending(gated) /\ gated \in SUBSET Calls
  <2>1. /\ batch \in SUBSET Calls /\ batch \subseteq 1 .. made
        /\ review \in Seq(Calls) /\ made \in Nat
    BY DEF PairingInv, OrderInv, TypeInv, TypeOK, GraphTypeOK, CallsAreMade
  <2>2. review \in Ascending(gated)
    BY DEF PairingInv, ReviewIsBatch
  <2> QED  BY <2>1, <2>2
<1>3. /\ DOMAIN review = 1 .. Len(review) /\ Len(review) \in Nat
      /\ \A j, k \in 1 .. Len(review) : j <= k <=> review[j] <= review[k]
      /\ \A c \in gated : \E k \in 1 .. Len(review) : review[k] = c
      /\ \A k \in 1 .. Len(review) : review[k] \in gated
  BY <1>2, AscendingLists
<1>4. t \in GatedTools /\ Gated(review[i]) /\ review[i] \in batch /\ review[i] \in 1 .. made
  BY <1>2, <1>3 DEF Gated
<1>5. Announced(t) = T /\ \A p \in 1 .. made : announced[p] = p
  BY <1>1, AllAnnounced DEF PairingInv, OrderInv
<1>6. popped[t] = Cardinality(A)
  <2>1. Passed = (1 .. made) \ batch
    BY <1>1 DEF Passed
  <2> QED  BY <1>1, <1>4, <2>1 DEF PairingInv, PoppedThrough
\* The calls of the tool up to this one: those of earlier messages, and those under
\* review up to it.
<1>7. {q \in T : q <= review[i]} = A \cup U /\ A \cap U = {}
  <2>1. PICK m \in 0 .. made : batch = m + 1 .. made
    BY DEF PairingInv, BatchIsLast
  <2>2. m \in Nat /\ review[i] \in Nat /\ m + 1 <= review[i]
    BY <1>2, <1>4, <2>1
  <2>3. ASSUME NEW q \in A PROVE q \in T /\ q <= review[i] /\ q \notin U
    <3>1. q \in 1 .. made /\ q \notin batch /\ ToolOf[q] = t
      BY DEF OfTool
    <3>2. q <= m
      BY <1>2, <2>1, <2>2, <3>1
    <3>3. q \notin U
      BY <1>3, <3>1 DEF Requests
    <3> QED  BY <2>2, <3>1, <3>2, <3>3 DEF OfTool
  <2>4. ASSUME NEW q \in U PROVE q \in T /\ q <= review[i]
    <3>1. PICK k \in R : q = review[k]
      OBVIOUS
    <3>2. k \in 1 .. Len(review) /\ ToolOf[review[k]] = t /\ k <= i
      BY <1>3, <3>1 DEF Requests
    <3>3. review[k] \in batch /\ review[k] <= review[i]
      BY <1>3, <3>2
    <3> QED  BY <1>2, <3>1, <3>2, <3>3 DEF OfTool
  <2>5. ASSUME NEW q \in T, q <= review[i], q \notin A PROVE q \in U
    <3>1. q \in batch /\ ToolOf[q] = t
      BY <2>5 DEF OfTool
    <3>2. q \in gated
      BY <1>4, <3>1 DEF Gated
    <3>3. PICK k \in 1 .. Len(review) : review[k] = q
      BY <1>3, <3>2
    <3>4. k <= i
      BY <1>3, <2>5, <3>3
    <3> QED  BY <1>3, <3>1, <3>3, <3>4 DEF Requests
  <2> QED  BY <2>3, <2>4, <2>5
<1>8. IsFiniteSet(T) /\ IsFiniteSet(A) /\ T \in SUBSET Nat /\ review[i] \in T
  <2>1. IsFiniteSet(1 .. made) /\ T \in SUBSET (1 .. made) /\ A \in SUBSET (1 .. made)
    BY <1>2, FS_Interval DEF OfTool
  <2>2. 1 .. made \in SUBSET Nat
    BY <1>2
  <2> QED  BY <1>4, <2>1, <2>2, FS_Subset DEF OfTool
<1>9. /\ IsFiniteSet(U) /\ Cardinality(U) = Cardinality(R) /\ Cardinality(R) \in Nat
  <2>1. R \in SUBSET (1 .. Len(review))
    BY <1>3 DEF Requests
  <2> HIDE DEF R
  <2> QED  BY <1>2, <2>1, PlacesCount
<1>10. Cardinality({q \in T : q <= review[i]}) = popped[t] + Cardinality(R)
  <2> HIDE DEF A, U, T, R
  <2>1. Cardinality(A \cup U) = Cardinality(A) + Cardinality(U) - Cardinality(A \cap U)
    BY <1>8, <1>9, FS_Union
  <2>2. Cardinality(A \cap U) = 0 /\ Cardinality(A) \in Nat
    BY <1>7, <1>8, FS_EmptySet, FS_CardinalityType
  <2>3. Cardinality({q \in T : q <= review[i]}) = Cardinality(A \cup U)
    BY <1>7
  <2> QED  BY <1>6, <1>9, <2>1, <2>2, <2>3
<1> DEFINE place == {p \in T : Cardinality({q \in T : q <= p}) = popped[t] + Cardinality(R)}
<1>11. place = {review[i]}
  <2>1. review[i] \in place
    BY <1>8, <1>10
  <2>2. ASSUME NEW p \in place PROVE p = review[i]
    <3>1. p \in T /\ Cardinality({q \in T : q <= p}) = Cardinality({q \in T : q <= review[i]})
      BY <1>10, <2>2
    <3> HIDE DEF T
    <3> QED  BY <1>8, <3>1, RankTellsApart
  <2> QED  BY <2>1, <2>2
<1>12. Card(i) = IF place = {} THEN NoCall ELSE announced[CHOOSE p \in place : TRUE]
  BY <1>5 DEF Card
<1> QED  BY <1>4, <1>5, <1>11, <1>12

\* A round leaves no gated call of the message unpopped.
LEMMA RoundPops ==
  ASSUME PairingInv, AnnouncedOnce, AskApproval, NEW t \in GatedTools
  PROVE  popped[t] + Pops(t) = Cardinality(OfTool(1 .. made, t))
<1> DEFINE gated == {c \in batch : Gated(c)}
           A == OfTool((1 .. made) \ batch, t)
           T == OfTool(1 .. made, t)
           U == {review[k] : k \in Requests(t)}
<1>1. /\ graph = "review" /\ pc = "streaming" /\ ~ auto /\ Len(chunk.started) = 0
  BY EmptySeq DEF AskApproval, Reads, PairingInv, OrderInv, TypeInv, AsksBounded, ChunksAreBare
<1>2. /\ batch \in SUBSET Calls /\ batch \subseteq 1 .. made /\ review \in Seq(Calls) /\ made \in Nat
      /\ review \in Ascending(gated) /\ gated \in SUBSET Calls
  <2>1. /\ batch \in SUBSET Calls /\ batch \subseteq 1 .. made
        /\ review \in Seq(Calls) /\ made \in Nat
    BY DEF PairingInv, OrderInv, TypeInv, TypeOK, GraphTypeOK, CallsAreMade
  <2>2. review \in Ascending(gated)
    BY DEF PairingInv, ReviewIsBatch
  <2> QED  BY <2>1, <2>2
<1>3. /\ DOMAIN review = 1 .. Len(review) /\ Len(review) \in Nat
      /\ \A c \in gated : \E k \in 1 .. Len(review) : review[k] = c
      /\ \A k \in 1 .. Len(review) : review[k] \in gated
  BY <1>2, AscendingLists
<1>4. Announced(t) = T
  BY <1>1, AllAnnounced DEF PairingInv, OrderInv
<1>5. popped[t] = Cardinality(A)
  <2>1. Passed = (1 .. made) \ batch
    BY <1>1 DEF Passed
  <2> QED  BY <1>1, <2>1 DEF PairingInv, PoppedThrough
<1>6. T = A \cup U /\ A \cap U = {}
  <2>1. ASSUME NEW q \in U PROVE q \in T /\ q \notin A
    BY <1>2, <1>3 DEF OfTool, Requests
  <2>2. ASSUME NEW q \in T, q \notin A PROVE q \in U
    <3>1. q \in gated /\ ToolOf[q] = t
      BY <2>2 DEF OfTool, Gated
    <3>2. PICK k \in 1 .. Len(review) : review[k] = q
      BY <1>3, <3>1
    <3> QED  BY <1>3, <3>1, <3>2 DEF Requests
  <2>3. A \subseteq T
    BY DEF OfTool
  <2> QED  BY <2>1, <2>2, <2>3
<1>7. IsFiniteSet(A)
  <2>1. IsFiniteSet(1 .. made) /\ A \in SUBSET (1 .. made)
    BY <1>2, FS_Interval DEF OfTool
  <2> QED  BY <2>1, FS_Subset
<1>8. /\ IsFiniteSet(U) /\ Cardinality(U) = Cardinality(Requests(t)) /\ Cardinality(Requests(t)) \in Nat
  <2>1. Requests(t) \in SUBSET (1 .. Len(review))
    BY <1>3 DEF Requests
  <2> QED  BY <1>2, <2>1, PlacesCount
<1>9. Cardinality(T) = Cardinality(A) + Cardinality(Requests(t)) /\ Cardinality(A) \in Nat
  <2> HIDE DEF A, U, T
  <2>1. Cardinality(A \cup U) = Cardinality(A) + Cardinality(U) - Cardinality(A \cap U)
    BY <1>7, <1>8, FS_Union
  <2>2. Cardinality(A \cap U) = 0 /\ Cardinality(A) \in Nat
    BY <1>6, <1>7, FS_EmptySet, FS_CardinalityType
  <2> QED  BY <1>6, <1>8, <2>1, <2>2
<1> HIDE DEF A, T
<1>10. Pops(t) = Cardinality(Requests(t))
  BY <1>4, <1>5, <1>8, <1>9 DEF Pops
<1> QED  BY <1>4, <1>5, <1>8, <1>9, <1>10 DEF T
LEMMA PairingAskApproval ==
  ASSUME PairingInv, AskApproval
  PROVE  /\ AnnouncedLogged' /\ AnnouncedInOrder' /\ BatchIsLast' /\ ReviewIsBatch'
         /\ PoppedThrough' /\ CardIsCallIfAnnouncedOnce'
<1>1. /\ UNCHANGED <<auto, announced, batch, review, graph, made>>
      /\ pc = "streaming" /\ pc' = "awaiting" /\ log' = log \o Requested
      /\ popped' = [t \in Tools |-> popped[t] + Pops(t)]
      /\ Len(chunk.started) = 0 /\ Len(chunk'.started) = 0
  BY EmptySeq DEF AskApproval, Reads, agent, NoChunk, Chunk, Requested, PairingInv, OrderInv, ChunksAreBare
<1>2. TypeInv
  BY DEF PairingInv, OrderInv
<1>3. /\ Requested \in Seq(Events) /\ Len(review) \in Nat /\ Len(Requested) = Len(review)
      /\ \A i \in 1 .. Len(review) :
           /\ Requested[i].ev = "approval.request" /\ Requested[i].call = review[i]
           /\ Requested[i].card = Card(i)
  BY <1>2, RequestedType, EventFields
<1>4. /\ AnnouncedOnce' <=> AnnouncedOnce
      /\ \A c : Started(c)' <=> Started(c)
  BY <1>1, <1>2, <1>3, SameStarts
<1>5. AnnouncedLogged' /\ BatchIsLast' /\ ReviewIsBatch'
  BY <1>1, <1>4 DEF PairingInv, AnnouncedLogged, BatchIsLast, ReviewIsBatch, Gated
<1>6. AnnouncedInOrder'
  BY <1>1, <1>4 DEF PairingInv, AnnouncedInOrder
<1>7. PoppedThrough'
  <2> SUFFICES ASSUME AnnouncedOnce, NEW t \in GatedTools
               PROVE  popped'[t] = Cardinality(OfTool(Passed', t))
    BY <1>4 DEF PoppedThrough, OfTool
  <2>1. Passed' = 1 .. made
    BY <1>1 DEF Passed
  <2>2. popped'[t] = popped[t] + Pops(t)
    BY <1>1, ToolsAssumption
  <2> QED  BY <2>1, <2>2, RoundPops
<1>8. CardIsCallIfAnnouncedOnce'
  <2> SUFFICES ASSUME AnnouncedOnce PROVE CardIsCall'
    BY <1>4 DEF CardIsCallIfAnnouncedOnce, AnnouncedOnce
  <2>1. CardIsCall
    BY DEF PairingInv, CardIsCallIfAnnouncedOnce, AnnouncedOnce
  <2>2. \A i \in 1 .. Len(Requested) : Requested[i].card = Requested[i].call
    BY <1>3, CardShowsCall
  <2> QED  BY <1>1, <1>2, <1>3, <2>1, <2>2, CardsKept
<1> QED  BY <1>5, <1>6, <1>7, <1>8

LEMMA PairingNext ==
  ASSUME PairingInv, [Next]_vars
  PROVE  PairingInv'
<1>1. OrderInv' /\ TypeInv
  BY OrderNext DEF PairingInv, OrderInv
<1> SUFFICES /\ AnnouncedLogged' /\ AnnouncedInOrder' /\ BatchIsLast' /\ ReviewIsBatch'
             /\ PoppedThrough' /\ CardIsCallIfAnnouncedOnce'
  BY <1>1 DEF PairingInv
<1>2. CASE GraphStep
  BY <1>2, PairingGraph
<1>3. CASE ReadUpdate
  BY <1>1, <1>3, PairingReadUpdate
<1>4. CASE AskApproval
  BY <1>4, PairingAskApproval
<1>5. CASE ~ (GraphStep \/ ReadUpdate \/ AskApproval)
  <2>1. PICK t \in Seq(Events) : log' = log \o t /\ \A k \in 1 .. Len(t) : t[k].ev \in Others
    BY <1>1, <1>5, LogGrows
  <2>2. \A k \in 1 .. Len(t) : t[k].ev # "tool.started" /\ t[k].ev # "approval.request"
    BY <2>1 DEF Others, Closing, Terminal
  <2>3. /\ AnnouncedOnce' <=> AnnouncedOnce
        /\ \A c : Started(c)' <=> Started(c)
    BY <1>1, <2>1, <2>2, SameStarts
  <2>4. /\ UNCHANGED <<announced, popped, batch, review, made>>
        /\ chunk' = chunk \/ (chunk' = NoChunk /\ (chunk.kind # "update" \/ pc' = "ended"))
        /\ ~ auto' /\ pc' # "ended" => UNCHANGED Passed
        /\ pc = "ended" => pc' = "ended"
    <3>1. CASE DriveStep
      <4>1. /\ UNCHANGED <<announced, popped, batch, review, made>>
            /\ chunk' = chunk \/ (chunk' = NoChunk /\ (chunk.kind # "update" \/ pc' = "ended"))
            /\ pc # "ended"
        BY <1>5, <3>1 DEF DriveStep, PruneDone, PruneRaises, ReadCancelled, ReadError, ReadText,
           AutoApprove, Resume, ResumeWith, PersistDone, ReadEnd, Reads, Finish, agent, pairing
      <4>2. CASE Resume
        <5>1. Passed = 1 .. made /\ Passed' = 1 .. made
          BY <4>2 DEF Resume, ResumeWith, Passed
        <5> QED  BY <4>1, <4>2, <5>1 DEF Resume, ResumeWith
      <4>3. CASE ~ Resume
        <5>1. auto' \/ (graph' = graph /\ pc # "awaiting" /\ pc' # "awaiting")
          BY <1>5, <3>1, <4>3 DEF DriveStep, PruneDone, PruneRaises, ReadCancelled, ReadError, ReadText,
             AutoApprove, PersistDone, ReadEnd, Reads, Finish, driver, agent
        <5> QED  BY <4>1, <5>1 DEF Passed
      <4> QED  BY <4>2, <4>3
    <3>2. CASE ClientStep \/ DeliverResult \/ UNCHANGED vars
      BY <3>2 DEF ClientStep, StartRun, RespondLate, Respond, Cancel, OpenStream, TakeEvent,
         DropStream, DeliverResult, vars, driver, agent, pairing, Passed
    <3> QED  BY <1>5, <3>1, <3>2 DEF Next
  <2>5. AnnouncedLogged' /\ BatchIsLast' /\ ReviewIsBatch'
    BY <2>3, <2>4 DEF PairingInv, AnnouncedLogged, BatchIsLast, ReviewIsBatch, Gated
  <2>6. AnnouncedInOrder'
    <3>1. Len(NoChunk.started) = 0 /\ (chunk.kind # "update" => Len(chunk.started) = 0)
      BY EmptySeq DEF NoChunk, Chunk, PairingInv, OrderInv, ChunksAreBare
    <3>2. CASE chunk' = chunk
      BY <2>3, <2>4, <3>2 DEF PairingInv, AnnouncedInOrder
    <3>3. CASE chunk' = NoChunk /\ chunk.kind # "update"
      BY <2>3, <2>4, <3>1, <3>3 DEF PairingInv, AnnouncedInOrder
    <3>4. CASE pc' = "ended"
      BY <3>4 DEF AnnouncedInOrder
    <3> QED  BY <2>4, <3>2, <3>3, <3>4
  <2>7. PoppedThrough'
    <3>1. ~ auto' => ~ auto
      BY AutoNext DEF PairingInv, OrderInv
    <3> QED  BY <2>3, <2>4, <3>1 DEF PairingInv, PoppedThrough, OfTool
  <2>8. CardIsCallIfAnnouncedOnce'
    BY <1>1, <2>1, <2>2, <2>3, CardsKept DEF PairingInv, CardIsCallIfAnnouncedOnce, AnnouncedOnce
  <2> QED  BY <2>5, <2>6, <2>7, <2>8
<1> QED  BY <1>2, <1>3, <1>4, <1>5

LEMMA PairingInvariant == Spec => []PairingInv
BY PairingInit, PairingNext, PTL DEF Spec

\* The cards are right as well: as long as the stream announces each call once, an
\* approval card carries the id of the call it asks about, over any number of messages,
\* rounds and tools.
THEOREM ClientToldRight == Spec => []EventsAreRight
<1>1. PairingInv => EventsInOrder /\ CardIsCallIfAnnouncedOnce
  BY DEF PairingInv, OrderInv
<1> QED  BY <1>1, PairingInvariant, PTL DEF EventsAreRight
-----------------------------------------------------------------------------
(* The contract of a run *)

\* The graph works on one message after the other, runs a call once, and is back at
\* the model whenever the run completes.
GraphKeepsOrder ==
  /\ graph \in {"model", "review", "reviewed"} => todo = {} /\ returned = {}
  /\ graph \in {"review", "reviewed"} => executed \cap batch = {} /\ Len(review) # 0
  /\ graph = "reviewed" => Len(decisions) = Len(review)
  /\ todo \cap executed = {}
  /\ pc \in {"new", "prune", "dead"} => graph = "model" /\ made = 0
  /\ chunk.kind = "end" \/ pc = "persisting" \/ Status = "run.completed" => AtModel
  /\ registered => pc # "new"

\* Each approval is about a gated call of its own, asked about when its message is
\* under review.
AskedOnce ==
  /\ \A a \in 1 .. asks : about[a] \in 1 .. made /\ Gated(about[a])
  /\ \A a, b \in 1 .. asks : about[a] = about[b] => a = b
  /\ graph = "review" /\ pc # "awaiting" => \A a \in 1 .. asks : about[a] \notin batch
  /\ auto \/ pc = "new" => asks = 0

\* Until a cancel, the answers of the user are what the futures, the callbacks and the
\* graph are given, and what was decided has taken effect; only a round that is being
\* asked about has questions open.
Undisturbed == ~ cancelled \/ pc = "persisting"
AnswersKept ==
  Undisturbed =>
    \A a \in 1 .. asks : said[a] = "none" =>
       pc = "awaiting" /\ \E i \in 1 .. Len(futs) : futs[i] = a
AnswersSaid ==
  ~ cancelled =>
    /\ \A a \in Calls : result[a] # "none" => said[a] = result[a]
    /\ \A j \in 1 .. Len(scheduled) : said[scheduled[j][1]] = scheduled[j][2]
DecisionsSaid ==
  ~ auto /\ ~ cancelled /\ graph = "reviewed" =>
     \A j \in 1 .. Len(review) :
        \E a \in 1 .. asks : about[a] = review[j] /\ said[a] = decisions[j]
EffectsAsSaid ==
  Undisturbed => \A a \in 1 .. asks :
     \/ about[a] \in batch /\ graph \in {"review", "reviewed"}
     \/ about[a] \in executed \cup todo <=> said[a] = "approve"

ContractInv ==
  /\ PairingInv /\ ApprovalInv /\ GraphKeepsOrder /\ AskedOnce
  /\ AnswersKept /\ AnswersSaid /\ DecisionsSaid /\ EffectsAsSaid

\* What the calls under review are.
LEMMA UnderReview ==
  ASSUME PairingInv
  PROVE  /\ Len(review) \in Nat /\ DOMAIN review = 1 .. Len(review) /\ batch \subseteq 1 .. made
         /\ batch \in SUBSET Calls /\ made \in Nat
         /\ \A j \in 1 .. Len(review) : review[j] \in batch /\ Gated(review[j])
         /\ \A c \in batch : Gated(c) => \E j \in 1 .. Len(review) : review[j] = c
         /\ \A i, j \in 1 .. Len(review) : review[i] = review[j] => i = j
<1> DEFINE gated == {c \in batch : Gated(c)}
<1>1. batch \in SUBSET Calls /\ batch \subseteq 1 .. made /\ made \in Nat
  BY DEF PairingInv, OrderInv, TypeInv, TypeOK, GraphTypeOK, CallsAreMade
<1>2. review \in Ascending(gated) /\ gated \in SUBSET Calls
  BY <1>1 DEF PairingInv, ReviewIsBatch
<1>3. /\ DOMAIN review = 1 .. Len(review) /\ Len(review) \in Nat
      /\ \A i, j \in 1 .. Len(review) : i <= j <=> review[i] <= review[j]
      /\ \A c \in gated : \E j \in 1 .. Len(review) : review[j] = c
      /\ \A j \in 1 .. Len(review) : review[j] \in gated
  BY <1>2, AscendingLists
<1>4. ASSUME NEW i \in 1 .. Len(review), NEW j \in 1 .. Len(review), review[i] = review[j]
      PROVE  i = j
  <2>1. review[i] \in Nat
    BY <1>2, <1>3, CallsAreNumbers
  <2>2. i <= j /\ j <= i
    BY <1>3, <1>4, <2>1
  <2> QED  BY <2>2
<1> QED  BY <1>1, <1>3, <1>4

\* A finished run's outcome is the last event but one.
LEMMA FinishSays ==
  ASSUME TypeInv, NEW name \in Terminal, Finish(name)
  PROVE  Status' = name
<1>1. /\ Len(log) \in Nat /\ Len(log') = Len(log) + 2 /\ log'[Len(log) + 1] = Plain(name)
      /\ pc' = "ended"
  BY FinishAppends DEF TypeInv, Finish
<1>2. Len(log') - 1 = Len(log) + 1
  BY <1>1
<1> QED  BY <1>1, <1>2 DEF Status, Plain, Event

LEMMA ContractInit == Init => ContractInv
<1> SUFFICES ASSUME Init PROVE ContractInv
  OBVIOUS
<1>1. PairingInv /\ ApprovalInv
  BY PairingInit, ApprovalInit
<1>2. /\ asks = 0 /\ graph = "model" /\ made = 0 /\ Len(scheduled) = 0 /\ chunk.kind = "none"
      /\ todo = {} /\ returned = {} /\ executed = {} /\ ~ registered /\ pc = "new"
      /\ \A a \in Calls : result[a] = "none"
  BY EmptySeq DEF Init, GraphInit, NoChunk, Chunk
<1>3. GraphKeepsOrder
  BY <1>2 DEF GraphKeepsOrder, Status, AtModel
<1>4. AskedOnce /\ AnswersKept /\ DecisionsSaid /\ EffectsAsSaid
  BY <1>2 DEF AskedOnce, AnswersKept, DecisionsSaid, EffectsAsSaid
<1>5. AnswersSaid
  BY <1>2 DEF AnswersSaid
<1> QED  BY <1>1, <1>3, <1>4, <1>5 DEF ContractInv

\* The life of the driver: a run that has ended or is lost stays so, and tells nothing.
LEMMA LifeStep ==
  ASSUME TypeInv, [Next]_vars
  PROVE  /\ pc # "new" => pc' # "new"
         /\ pc = "ended" => pc' = "ended" /\ log' = log
         /\ pc = "dead" => pc' = "dead"
         /\ pc' = "awaiting" => pc = "awaiting" \/ AskApproval
         /\ pc' \in {"new", "prune", "dead"} => pc \in {"new", "prune", "dead"}
         /\ graph' # graph => GraphStep \/ AutoApprove \/ Resume
         /\ UNCHANGED <<batch, review, todo, returned, executed, made>> \/ GraphStep
         /\ chunk'.kind = "end" => chunk.kind = "end" \/ GraphEnds
<1>1. NoChunk.kind = "none" /\ \A kind, s, c : Chunk(kind, s, c).kind = kind
  BY DEF NoChunk, Chunk
<1>2. CASE GraphStep
  <2>1. chunk'.kind = "end" => chunk.kind = "end" \/ GraphEnds
    <3>1. CASE \E c \in Calls : ToolRuns(c)
      BY <3>1 DEF ToolRuns
    <3>2. CASE GraphAdvances
      <4>1. \/ GraphEnds
            \/ chunk' = chunk
            \/ \E kind \in {"text", "interrupt", "error"} : chunk' = Chunk(kind, <<>>, <<>>)
            \/ \E started, completed : chunk' = Chunk("update", started, completed)
        BY <3>2 DEF GraphAdvances, GraphText, GraphCalls, GraphInterrupts, GraphReviews, GraphLaunches,
           GraphReturns, GraphRaises
      <4> QED  BY <1>1, <4>1
    <3> QED  BY <1>2, <3>1, <3>2 DEF GraphStep
  <2> QED  BY <1>2, <2>1 DEF GraphStep, driver
<1>3. CASE DriveStep
  <2>1. /\ pc' # "new" /\ pc # "ended" /\ pc # "dead"
        /\ pc' = "awaiting" => AskApproval
        /\ pc' \in {"new", "prune", "dead"} => pc = "prune"
    BY <1>3 DEF DriveStep, PruneDone, PruneRaises, ReadCancelled, ReadError, ReadText, ReadUpdate,
       AskApproval, AutoApprove, Resume, PersistDone, ReadEnd, Reads, Finish, driver
  <2>2. /\ graph' # graph => AutoApprove \/ Resume
        /\ UNCHANGED <<batch, review, todo, returned, executed, made>>
        /\ chunk' = chunk \/ chunk' = NoChunk
    BY <1>3 DEF DriveStep, PruneDone, PruneRaises, ReadCancelled, ReadError, ReadText, ReadUpdate,
       AskApproval, AutoApprove, Resume, ResumeWith, PersistDone, ReadEnd, Reads, agent
  <2> QED  BY <1>1, <2>1, <2>2
<1>4. CASE ClientStep \/ DeliverResult \/ UNCHANGED vars
  BY <1>4 DEF ClientStep, StartRun, RespondLate, Respond, Cancel, OpenStream, TakeEvent,
     DropStream, DeliverResult, vars, driver, agent
<1> QED  BY <1>2, <1>3, <1>4 DEF Next
LEMMA KeepsOrderGraph ==
  ASSUME ContractInv, GraphStep
  PROVE  /\ graph' \in {"model", "review", "reviewed"} => todo' = {} /\ returned' = {}
         /\ graph' \in {"review", "reviewed"} => executed' \cap batch' = {} /\ Len(review') # 0
         /\ graph' = "reviewed" => Len(decisions') = Len(review')
         /\ todo' \cap executed' = {}
         /\ pc \in {"new", "prune", "dead"} => graph' = "model" /\ made' = 0
         /\ chunk'.kind = "end" \/ pc = "persisting" \/ Status = "run.completed" => AtModel'
<1>1. GraphKeepsOrder /\ TypeInv /\ CallsAreMade /\ made \in Nat
  BY DEF ContractInv, PairingInv, OrderInv, TypeInv, TypeOK, GraphTypeOK
<1>2. NoChunk.kind = "none" /\ \A kind, s, c : Chunk(kind, s, c).kind = kind
  BY DEF NoChunk, Chunk
<1>3. Status = "run.completed" /\ pc = "streaming" => FALSE
  BY DEF Status
<1>4. /\ batch \subseteq 1 .. made /\ \A j \in 1 .. Len(review) : review[j] \in batch
      /\ DOMAIN review = 1 .. Len(review)
  BY UnderReview DEF ContractInv
<1>5. ASSUME NEW c \in Calls, ToolRuns(c)
      PROVE  /\ graph' \in {"model", "review", "reviewed"} => todo' = {} /\ returned' = {}
             /\ graph' \in {"review", "reviewed"} => executed' \cap batch' = {} /\ Len(review') # 0
             /\ graph' = "reviewed" => Len(decisions') = Len(review')
             /\ todo' \cap executed' = {}
             /\ pc \in {"new", "prune", "dead"} => graph' = "model" /\ made' = 0
             /\ chunk'.kind = "end" \/ pc = "persisting" \/ Status = "run.completed" => AtModel'
  BY <1>1, <1>5 DEF ToolRuns, GraphKeepsOrder, AtModel
<1>6. ASSUME pc = "streaming", chunk = NoChunk, GraphAdvances
      PROVE  /\ graph' \in {"model", "review", "reviewed"} => todo' = {} /\ returned' = {}
             /\ graph' \in {"review", "reviewed"} => executed' \cap batch' = {} /\ Len(review') # 0
             /\ graph' = "reviewed" => Len(decisions') = Len(review')
             /\ todo' \cap executed' = {}
             /\ chunk'.kind = "end" => AtModel'
  <2>1. CASE GraphText \/ GraphInterrupts \/ GraphLaunches \/ GraphEnds \/ GraphRaises
    BY <1>1, <1>2, <1>6, <2>1 DEF GraphText, GraphInterrupts, GraphLaunches, GraphEnds, GraphRaises,
       GraphKeepsOrder, AtModel, agent
  <2>2. ASSUME NEW c \in Calls, GraphReturns(c)
        PROVE  /\ UNCHANGED <<graph, todo, executed>> /\ graph = "tools" /\ chunk'.kind = "update"
    BY <1>2, <2>2 DEF GraphReturns
  <2>3. ASSUME NEW again \in Resends, GraphReviews(again)
        PROVE  /\ graph' = "ready" /\ chunk'.kind = "update" /\ todo' \cap executed' = {}
    <3>1. todo' \subseteq batch
      BY <1>4, <2>3 DEF GraphReviews, Verdict
    <3> QED  BY <1>1, <1>2, <2>3, <3>1 DEF GraphReviews, GraphKeepsOrder
  <2>4. ASSUME NEW n \in 1 .. MaxCalls, GraphCalls(n)
        PROVE  /\ graph' = "review" => todo' = {} /\ returned' = {} /\ Len(review') # 0
               /\ graph' \in {"ready", "review"} /\ chunk'.kind = "update"
               /\ executed' \cap batch' = {} /\ todo' \subseteq batch'
    <3> DEFINE new == made + 1 .. made + n
               gated == {c \in new : Gated(c)}
    <3>1. /\ batch' = new /\ review' \in Ascending(gated) /\ UNCHANGED <<executed, returned>>
          /\ graph' = IF gated = {} THEN "ready" ELSE "review"
          /\ todo' = IF gated = {} THEN new ELSE {}
          /\ n \in Nat /\ made + n <= MaxCalls /\ returned = {} /\ chunk'.kind = "update"
      BY <1>1, <1>2, <2>4, BoundsAssumption DEF GraphCalls, GraphKeepsOrder, AtModel
    <3>2. executed' \cap batch' = {}
      BY <1>1, <3>1 DEF CallsAreMade
    <3>3. gated \in SUBSET Calls
      BY <1>1, <3>1, BoundsAssumption DEF Calls
    <3>4. ASSUME NEW c \in gated PROVE Len(review') # 0
      <4>1. PICK k \in 1 .. Len(review') : review'[k] = c
        BY <3>1, <3>3, AscendingLists
      <4> QED  BY <4>1
    <3> QED  BY <3>1, <3>2, <3>4
  <2>5. CASE \E c \in Calls : GraphReturns(c)
    BY <1>1, <2>2, <2>5 DEF GraphKeepsOrder
  <2>6. CASE \E again \in Resends : GraphReviews(again)
    BY <2>3, <2>6
  <2>7. CASE \E n \in 1 .. MaxCalls : GraphCalls(n)
    BY <2>4, <2>7
  <2> QED  BY <1>6, <2>1, <2>5, <2>6, <2>7 DEF GraphAdvances
<1> QED
  <2>1. CASE \E c \in Calls : ToolRuns(c)
    BY <1>5, <2>1
  <2>2. CASE pc = "streaming" /\ GraphAdvances
    <3>1. chunk = NoChunk
      BY <2>2 DEF GraphAdvances
    <3> QED  BY <1>3, <1>6, <2>2, <3>1
  <2> QED  BY <2>1, <2>2 DEF GraphStep

LEMMA KeepsOrderNext ==
  ASSUME ContractInv, PairingInv', ApprovalInv', [Next]_vars
  PROVE  GraphKeepsOrder'
<1>1. GraphKeepsOrder /\ TypeInv
  BY DEF ContractInv, PairingInv, OrderInv
<1>2. registered' => pc' # "new"
  BY <1>1 DEF GraphKeepsOrder, Next, ClientStep, StartRun, RespondLate, Respond, Cancel, OpenStream,
     TakeEvent, DropStream, DeliverResult, GraphStep, DriveStep, PruneDone, PruneRaises, ReadCancelled,
     ReadError, ReadText, ReadUpdate, AskApproval, AutoApprove, Resume, PersistDone, ReadEnd, Reads,
     Finish, driver, channel, vars
<1>3. CASE GraphStep
  <2>1. UNCHANGED <<pc, log>>
    BY <1>3 DEF GraphStep, driver
  <2>2. Status' = Status
    BY <2>1 DEF Status
  <2> QED  BY <1>2, <1>3, <2>1, <2>2, KeepsOrderGraph DEF GraphKeepsOrder
<1>4. CASE ~ GraphStep
  <2>1. /\ UNCHANGED <<batch, review, todo, returned, executed, made>>
        /\ pc' \in {"new", "prune", "dead"} => pc \in {"new", "prune", "dead"}
        /\ graph' # graph => AutoApprove \/ Resume
    BY <1>1, <1>4, LifeStep
  <2>2. chunk'.kind = "end" => chunk.kind = "end"
    <3>1. chunk' = chunk \/ chunk' = NoChunk
      BY <1>4 DEF Next, ClientStep, StartRun, RespondLate, Respond, Cancel, OpenStream,
         TakeEvent, DropStream, DeliverResult, DriveStep, PruneDone, PruneRaises, ReadCancelled,
         ReadError, ReadText, ReadUpdate, AskApproval, AutoApprove, Resume, PersistDone, ReadEnd,
         Reads, vars
    <3> QED  BY <3>1 DEF NoChunk, Chunk
  <2>3. Status' = "run.completed" \/ pc' = "persisting" =>
          chunk.kind = "end" \/ pc = "persisting" \/ Status = "run.completed"
    <3>1. CASE ReadCancelled \/ ReadError
      <4>1. Status' \in {"run.cancelled", "run.failed"} /\ pc' = "ended"
        BY <1>1, <3>1, FinishSays DEF ReadCancelled, ReadError, Terminal, Finish
      <4> QED  BY <4>1
    <3>2. CASE ~ (ReadCancelled \/ ReadError)
      <4>1. \/ chunk.kind = "end" \/ pc = "persisting"
            \/ pc' \notin {"ended", "persisting"}
            \/ UNCHANGED <<pc, log>>
        BY <1>4, <3>2 DEF Next, ClientStep, StartRun, RespondLate, Respond, Cancel, OpenStream,
           TakeEvent, DropStream, DeliverResult, DriveStep, PruneDone, PruneRaises,
           ReadText, ReadUpdate, AskApproval, AutoApprove, Resume, PersistDone, ReadEnd,
           Reads, vars, driver
      <4>2. pc' \notin {"ended", "persisting"} => Status' # "run.completed"
        <5>1. TypeInv'
          BY DEF ApprovalInv
        <5> QED  BY <5>1 DEF Status, TypeInv, TypeOK
      <4>3. UNCHANGED <<pc, log>> => Status' = Status
        BY DEF Status
      <4> QED  BY <4>1, <4>2, <4>3
    <3> QED  BY <3>1, <3>2
  <2>4. CASE graph' = graph /\ UNCHANGED decisions
    BY <1>1, <1>2, <2>1, <2>2, <2>3, <2>4 DEF GraphKeepsOrder, AtModel
  <2>5. CASE AutoApprove \/ Resume
    <3>1. /\ graph = "review" /\ graph' = "reviewed" /\ pc' = "streaming" /\ chunk' = NoChunk
      BY <1>1, <2>5 DEF AutoApprove, Resume, ResumeWith, Reads, ContractInv, PairingInv, OrderInv,
         CallsAreMade, TypeInv, AsksBounded, driver
    <3>2. Len(decisions') = Len(review)
      <4>1. Len(review) \in Nat
        BY UnderReview DEF ContractInv
      <4>2. Resume => Len(futs) = Len(review)
        BY DEF Resume, ContractInv, ApprovalInv, FutsAreReview
      <4> QED  BY <2>5, <4>1, <4>2 DEF AutoApprove, Resume, ResumeWith, Resolved
    <3>3. chunk'.kind # "end" /\ Status' # "run.completed"
      BY <3>1 DEF NoChunk, Chunk, Status
    <3> QED  BY <1>1, <1>2, <2>1, <3>1, <3>2, <3>3 DEF GraphKeepsOrder
  <2>6. AutoApprove \/ Resume \/ (graph' = graph /\ UNCHANGED decisions)
    BY <1>4 DEF Next, ClientStep, StartRun, RespondLate, Respond, Cancel, OpenStream,
       TakeEvent, DropStream, DeliverResult, DriveStep, PruneDone, PruneRaises, ReadCancelled,
       ReadError, ReadText, ReadUpdate, AskApproval, PersistDone, ReadEnd, agent, vars
  <2> QED  BY <2>4, <2>5, <2>6
<1> QED  BY <1>3, <1>4
\* What a round of requests adds.
LEMMA AskStep ==
  ASSUME ContractInv, AskApproval
  PROVE  LET n == Len(review)
         IN  /\ n \in Nat /\ n # 0 /\ asks \in Nat /\ asks' = asks + n /\ 1 .. asks' \subseteq Calls
             /\ 1 .. asks \subseteq 1 .. asks'
             /\ Len(futs') = n /\ graph = "review" /\ pc = "streaming" /\ ~ auto /\ ~ cancelled
             /\ \A a \in 1 .. asks : about'[a] = about[a]
             /\ \A i \in 1 .. n : asks + i \in 1 .. asks' /\ about'[asks + i] = review[i]
             /\ \A a \in 1 .. asks' : a \notin 1 .. asks =>
                  /\ a - asks \in 1 .. n /\ about'[a] = review[a - asks]
                  /\ futs'[a - asks] = a /\ said[a] = "none"
<1> DEFINE n == Len(review)
           new == asks + 1 .. asks + n
<1>1. /\ graph = "review" /\ pc = "streaming" /\ asks + n <= made
  BY DEF AskApproval, Reads, ContractInv, PairingInv, OrderInv, TypeInv, AsksBounded
<1>2. n \in Nat /\ n # 0 /\ asks \in Nat /\ made \in Nat /\ made <= MaxCalls /\ MaxCalls \in Nat
  BY <1>1, UnderReview, BoundsAssumption DEF ContractInv, GraphKeepsOrder, PairingInv, OrderInv,
     TypeInv, TypeOK, GraphTypeOK
<1>3. /\ asks' = asks + n /\ futs' = [i \in 1 .. n |-> asks + i] /\ ~ auto /\ ~ cancelled
      /\ about' = [a \in Calls |-> IF a \in new THEN review[a - asks] ELSE about[a]]
  BY DEF AskApproval, SeesCancel
<1> HIDE DEF n
<1>4. 1 .. asks' \subseteq Calls /\ 1 .. asks \subseteq 1 .. asks' /\ new \subseteq 1 .. asks'
  BY <1>1, <1>2, <1>3 DEF Calls
<1>5. Len(futs') = n
  BY <1>2, <1>3
<1>6. ASSUME NEW a \in 1 .. asks PROVE about'[a] = about[a]
  BY <1>2, <1>3, <1>4
<1>7. ASSUME NEW i \in 1 .. n PROVE asks + i \in 1 .. asks' /\ about'[asks + i] = review[i]
  <2>1. asks + i \in new /\ (asks + i) - asks = i
    BY <1>2
  <2> QED  BY <1>3, <1>4, <2>1
<1>8. ASSUME NEW a \in 1 .. asks', a \notin 1 .. asks
      PROVE  /\ a - asks \in 1 .. n /\ about'[a] = review[a - asks]
             /\ futs'[a - asks] = a /\ said[a] = "none"
  <2>1. a \in new /\ a - asks \in 1 .. n /\ asks + (a - asks) = a /\ a > asks
    BY <1>2, <1>3, <1>8
  <2> QED  BY <1>3, <1>4, <2>1 DEF ContractInv, ApprovalInv, FreshIds
<1> QED  BY <1>1, <1>2, <1>3, <1>4, <1>5, <1>6, <1>7, <1>8 DEF n

\* Steps other than a round of requests leave the approvals as they are.
LEMMA AskedSame ==
  ASSUME [Next]_vars, ~ AskApproval
  PROVE  UNCHANGED <<asks, futs, about>>
<1>1. CASE GraphStep
  BY <1>1 DEF GraphStep, asking
<1>2. CASE DriveStep
  BY <1>2 DEF DriveStep, PruneDone, PruneRaises, ReadCancelled, ReadError, ReadText, ReadUpdate,
     AutoApprove, Resume, PersistDone, ReadEnd, asking
<1>3. CASE ClientStep \/ DeliverResult \/ UNCHANGED vars
  BY <1>3 DEF ClientStep, StartRun, RespondLate, Respond, Cancel, OpenStream, TakeEvent,
     DropStream, DeliverResult, vars, asking
<1> QED  BY <1>1, <1>2, <1>3 DEF Next

\* Only an answer of the user changes what was said.
LEMMA SaidSame ==
  ASSUME [Next]_vars, \A a \in Calls, choice \in Choices : ~ Respond(a, choice)
  PROVE  said' = said
<1>1. CASE GraphStep
  BY <1>1 DEF GraphStep, answers
<1>2. CASE DriveStep
  BY <1>2 DEF DriveStep, PruneDone, PruneRaises, ReadCancelled, ReadError, ReadText, ReadUpdate,
     AskApproval, AutoApprove, Resume, PersistDone, ReadEnd, answers
<1>3. CASE ClientStep \/ DeliverResult \/ UNCHANGED vars
  BY <1>3 DEF ClientStep, StartRun, RespondLate, Cancel, OpenStream, TakeEvent,
     DropStream, DeliverResult, vars, answers
<1> QED  BY <1>1, <1>2, <1>3 DEF Next

\* An answer: the first word on an approval that is being waited for.
LEMMA RespondStep ==
  ASSUME ContractInv, NEW a \in Calls, NEW choice \in Choices, Respond(a, choice)
  PROVE  /\ a \in 1 .. asks /\ said[a] = "none" /\ result[a] = "none"
         /\ said' = [said EXCEPT ![a] = DecisionOf(choice)] /\ said'[a] = DecisionOf(choice)
         /\ \A b \in Calls : b # a => said'[b] = said[b]
         /\ DecisionOf(choice) \in Decisions
         /\ UNCHANGED <<pc, auto, cancels, asks, futs, about, result, log, agent, chunk>>
<1>1. a \in 1 .. asks /\ said[a] = "none"
  BY DEF Respond, ContractInv, ApprovalInv, FreshIds, TypeInv, TypeOK, Calls
<1> QED  BY <1>1 DEF Respond, ContractInv, ApprovalInv, TypeInv, TypeOK, DecisionOf, Decisions,
   driver, asking

LEMMA MadeGrows ==
  ASSUME TypeInv, [Next]_vars
  PROVE  made \in Nat /\ made' \in Nat /\ made <= made'
<1>1. made \in Nat
  BY DEF TypeInv, TypeOK, GraphTypeOK
<1>2. CASE GraphStep
  <2>1. made' = made \/ \E m \in 1 .. MaxCalls : made' = made + m
    BY <1>2 DEF GraphStep, ToolRuns, GraphAdvances, GraphText, GraphCalls, GraphInterrupts,
       GraphReviews, GraphLaunches, GraphReturns, GraphEnds, GraphRaises, agent
  <2> QED  BY <1>1, <2>1, BoundsAssumption
<1>3. CASE ~ GraphStep
  BY <1>1, <1>3, LifeStep
<1> QED  BY <1>2, <1>3

LEMMA AskedOnceNext ==
  ASSUME ContractInv, [Next]_vars
  PROVE  AskedOnce'
<1>1. AskedOnce /\ TypeInv /\ made \in Nat /\ asks \in Nat
  BY DEF ContractInv, PairingInv, OrderInv, TypeInv, TypeOK, GraphTypeOK
<1>2. made <= made' /\ made' \in Nat
  BY <1>1, MadeGrows
<1>3. \A c : Gated(c)' <=> Gated(c)
  BY DEF Gated
<1>4. CASE AskApproval
  <2>1. UNCHANGED <<made, auto>> /\ pc' = "awaiting"
    BY <1>4 DEF AskApproval, agent
  <2> DEFINE n == Len(review)
  <2>2. /\ \A a \in 1 .. asks : about'[a] = about[a] /\ about[a] \notin batch
        /\ \A a \in 1 .. asks' : a \notin 1 .. asks =>
             /\ a - asks \in 1 .. n /\ about'[a] = review[a - asks]
        /\ ~ auto
    BY <1>1, <1>4, AskStep DEF AskedOnce
  <2>3. /\ \A j \in 1 .. n : review[j] \in batch /\ Gated(review[j]) /\ review[j] \in 1 .. made
        /\ \A i, j \in 1 .. n : review[i] = review[j] => i = j
        /\ n \in Nat
    BY UnderReview DEF ContractInv
  <2> HIDE DEF n
  <2>4. ASSUME NEW a \in 1 .. asks', NEW b \in 1 .. asks', about'[a] = about'[b] PROVE a = b
    <3>1. CASE a \in 1 .. asks /\ b \in 1 .. asks
      BY <1>1, <2>2, <2>4, <3>1 DEF AskedOnce
    <3>2. CASE a \notin 1 .. asks /\ b \notin 1 .. asks
      <4>1. a - asks = b - asks
        BY <2>2, <2>3, <2>4, <3>2
      <4>2. a \in Int /\ b \in Int
        OBVIOUS
      <4> QED  BY <1>1, <4>1, <4>2
    <3>3. CASE ~ (a \in 1 .. asks <=> b \in 1 .. asks)
      BY <2>2, <2>3, <2>4, <3>3
    <3> QED  BY <3>1, <3>2, <3>3
  <2>5. \A a \in 1 .. asks' : about'[a] \in 1 .. made /\ Gated(about'[a])
    BY <1>1, <2>2, <2>3 DEF AskedOnce
  <2> QED  BY <2>1, <2>2, <2>4, <2>5 DEF AskedOnce, Gated
<1>5. CASE ~ AskApproval
  <2>1. UNCHANGED <<asks, about>>
    BY <1>5, AskedSame
  <2>2. auto' \/ pc' = "new" => asks = 0
    <3>1. CASE auto' = auto
      BY <1>1, <3>1, LifeStep DEF AskedOnce
    <3>2. CASE \E approve, replace \in BOOLEAN : StartRun(approve, replace)
      BY <1>1, <3>2 DEF AskedOnce, StartRun
    <3>3. CASE ~ \E approve, replace \in BOOLEAN : StartRun(approve, replace)
      <4>1. auto' = auto
        BY <3>3 DEF Next, ClientStep, RespondLate, Respond, Cancel, OpenStream,
           TakeEvent, DropStream, DeliverResult, GraphStep, DriveStep, PruneDone, PruneRaises,
           ReadCancelled, ReadError, ReadText, ReadUpdate, AskApproval, AutoApprove, Resume,
           PersistDone, ReadEnd, vars, driver
      <4> QED  BY <3>1, <4>1
    <3> QED  BY <3>1, <3>2, <3>3
  <2>3. graph' = "review" /\ pc' # "awaiting" => \A a \in 1 .. asks : about[a] \notin batch'
    <3>1. ASSUME NEW m \in 1 .. MaxCalls, GraphCalls(m)
          PROVE  \A a \in 1 .. asks : about[a] \notin batch'
      <4>1. batch' = made + 1 .. made + m
        BY <3>1 DEF GraphCalls
      <4> QED  BY <1>1, <4>1 DEF AskedOnce
    <3>2. CASE GraphStep /\ ~ \E m \in 1 .. MaxCalls : GraphCalls(m)
      <4>1. pc' = pc /\ batch' = batch /\ (graph' = "review" => graph = "review")
        BY <3>2 DEF GraphStep, driver, ToolRuns, GraphAdvances, GraphText, GraphInterrupts,
           GraphReviews, GraphLaunches, GraphReturns, GraphEnds, GraphRaises, agent
      <4> QED  BY <1>1, <4>1 DEF AskedOnce
    <3>3. CASE ~ GraphStep
      <4>1. batch' = batch
        BY <1>1, <3>3, LifeStep
      <4>2. graph' = "review" /\ pc' # "awaiting" => graph = "review" /\ pc # "awaiting"
        <5>1. CASE DriveStep
          BY <5>1 DEF DriveStep, PruneDone, PruneRaises, ReadCancelled, ReadError, ReadText, ReadUpdate,
             AskApproval, AutoApprove, Resume, ResumeWith, PersistDone, ReadEnd, Reads, Finish, driver,
             agent
        <5>2. CASE ClientStep \/ DeliverResult \/ UNCHANGED vars
          BY <5>2 DEF ClientStep, StartRun, RespondLate, Respond, Cancel, OpenStream, TakeEvent,
             DropStream, DeliverResult, vars, driver, agent
        <5> QED  BY <3>3, <5>1, <5>2 DEF Next
      <4> QED  BY <1>1, <4>1, <4>2 DEF AskedOnce
    <3> QED  BY <3>1, <3>2, <3>3 DEF GraphStep, GraphAdvances
  <2> QED  BY <1>1, <1>2, <1>3, <2>1, <2>2, <2>3 DEF AskedOnce
<1> QED  BY <1>4, <1>5
\* The cancel count and what it does to Undisturbed.
LEMMA CalmBefore ==
  ASSUME TypeInv, [Next]_vars
  PROVE  /\ ~ cancelled' => ~ cancelled
         /\ Undisturbed' => Undisturbed
<1>1. CASE UNCHANGED <<pc, cancels>>
  BY <1>1 DEF Undisturbed, cancelled
<1>2. CASE Cancel
  BY <1>2 DEF Cancel, Undisturbed, cancelled, TypeInv, TypeOK
<1>3. CASE DriveStep
  BY <1>3 DEF DriveStep, PruneDone, PruneRaises, ReadCancelled, ReadError, ReadText, ReadUpdate,
     AskApproval, AutoApprove, Resume, PersistDone, ReadEnd, Reads, Finish, driver, SeesCancel,
     Undisturbed, cancelled
<1>4. ASSUME NEW approve \in BOOLEAN, NEW replace \in BOOLEAN, StartRun(approve, replace)
      PROVE  /\ ~ cancelled' => ~ cancelled
             /\ Undisturbed' => Undisturbed
  BY <1>4 DEF StartRun, Undisturbed, cancelled
<1> QED  BY <1>1, <1>2, <1>3, <1>4 DEF Next, ClientStep, RespondLate, Respond, OpenStream,
   TakeEvent, DropStream, DeliverResult, GraphStep, vars, driver

LEMMA AnswersSaidNext ==
  ASSUME ContractInv, [Next]_vars
  PROVE  AnswersSaid'
<1>1. AnswersSaid /\ TypeInv
  BY DEF ContractInv, PairingInv, OrderInv
<1>2. SUFFICES ASSUME ~ cancelled'
               PROVE  /\ \A a \in Calls : result'[a] # "none" => said'[a] = result'[a]
                      /\ \A j \in 1 .. Len(scheduled') : said'[scheduled'[j][1]] = scheduled'[j][2]
  BY DEF AnswersSaid
<1>3. /\ \A a \in Calls : result[a] # "none" => said[a] = result[a]
      /\ Len(scheduled) \in Nat
      /\ \A j \in 1 .. Len(scheduled) :
           /\ said[scheduled[j][1]] = scheduled[j][2]
           /\ scheduled[j][1] \in Calls /\ scheduled[j][2] \in Decisions
  <2>1. scheduled \in Seq(Calls \X Decisions)
    BY <1>1 DEF TypeInv, TypeOK
  <2> QED  BY <1>1, <1>2, <2>1, CalmBefore, LenProperties, ElementOfSeq DEF AnswersSaid
<1>4. ASSUME NEW a \in Calls, NEW choice \in Choices, Respond(a, choice)
      PROVE  /\ \A b \in Calls : result'[b] # "none" => said'[b] = result'[b]
             /\ \A j \in 1 .. Len(scheduled') : said'[scheduled'[j][1]] = scheduled'[j][2]
  <2> DEFINE e == <<a, DecisionOf(choice)>>
  <2>1. /\ said[a] = "none" /\ result[a] = "none" /\ UNCHANGED result
        /\ said'[a] = DecisionOf(choice) /\ \A b \in Calls : b # a => said'[b] = said[b]
    BY <1>4, RespondStep
  <2>2. \A b \in Calls : result'[b] # "none" => said'[b] = result'[b]
    BY <1>3, <2>1
  <2>3. /\ Len(scheduled') = Len(scheduled) + 1
        /\ \A j \in 1 .. Len(scheduled') :
             (j \in 1 .. Len(scheduled) /\ scheduled'[j] = scheduled[j]) \/ scheduled'[j] = e
    <3>1. /\ scheduled \in Seq(Calls \X Decisions) /\ e \in Calls \X Decisions
          /\ scheduled' = Append(scheduled, e)
      BY <1>1, <1>4 DEF Respond, TypeInv, TypeOK, DecisionOf, Decisions
    <3> HIDE DEF e
    <3> QED  BY <1>3, <3>1, AppendProperties
  <2>4. \A j \in 1 .. Len(scheduled) : scheduled[j][1] # a
    BY <1>3, <2>1 DEF Decisions
  <2>5. ASSUME NEW j \in 1 .. Len(scheduled') PROVE said'[scheduled'[j][1]] = scheduled'[j][2]
    <3>1. CASE j \in 1 .. Len(scheduled) /\ scheduled'[j] = scheduled[j]
      BY <1>3, <2>1, <2>4, <3>1
    <3>2. CASE scheduled'[j] = e
      BY <2>1, <3>2
    <3> QED  BY <2>3, <3>1, <3>2
  <2> QED  BY <2>2, <2>5
<1>5. CASE DeliverResult
  <2>1. /\ Len(scheduled) # 0 /\ Head(scheduled) = scheduled[1] /\ said' = said
        /\ Len(scheduled') = Len(scheduled) - 1
        /\ \A j \in 1 .. Len(scheduled') : scheduled'[j] = scheduled[j + 1]
    BY <1>1, <1>5, EmptySeq, HeadTailProperties DEF DeliverResult, TypeInv, TypeOK
  <2>2. \A j \in 1 .. Len(scheduled') : j + 1 \in 1 .. Len(scheduled)
    BY <1>3, <2>1
  <2>3. 1 \in 1 .. Len(scheduled)
    BY <1>3, <2>1
  <2>4. \A a \in Calls : result'[a] = result[a] \/ (a = scheduled[1][1] /\ result'[a] = scheduled[1][2])
    BY <1>1, <1>5, <2>1 DEF DeliverResult, TypeInv, TypeOK
  <2> QED  BY <1>3, <2>1, <2>2, <2>3, <2>4
<1>6. ASSUME UNCHANGED <<result, scheduled, said>>
      PROVE  /\ \A a \in Calls : result'[a] # "none" => said'[a] = result'[a]
             /\ \A j \in 1 .. Len(scheduled') : said'[scheduled'[j][1]] = scheduled'[j][2]
  BY <1>3, <1>6
<1>7. ~ Cancel
  BY <1>1, <1>2 DEF Cancel, cancelled, TypeInv, TypeOK
<1>8. UNCHANGED <<result, scheduled, said>> \/ DeliverResult
      \/ \E a \in Calls, choice \in Choices : Respond(a, choice)
  <2>1. CASE DriveStep
    BY <2>1 DEF DriveStep, PruneDone, PruneRaises, ReadCancelled, ReadError, ReadText, ReadUpdate,
       AskApproval, AutoApprove, Resume, PersistDone, ReadEnd, answers
  <2>2. CASE GraphStep \/ ClientStep \/ UNCHANGED vars
    BY <1>7, <2>2 DEF GraphStep, ClientStep, StartRun, RespondLate, OpenStream, TakeEvent, DropStream,
       vars, answers
  <2> QED  BY <2>1, <2>2 DEF Next
<1> QED  BY <1>4, <1>5, <1>6, <1>8

\* When the round's futures are all done, every question has its answer.
LEMMA RoundAnswered ==
  ASSUME ContractInv, Resume, ~ cancelled
  PROVE  \A a \in 1 .. asks : said[a] # "none"
<1>1. ASSUME NEW a \in 1 .. asks, said[a] = "none" PROVE FALSE
  <2>1. PICK i \in 1 .. Len(futs) : futs[i] = a
    BY <1>1 DEF ContractInv, AnswersKept, Undisturbed
  <2>2. result[a] # "none"
    BY <2>1 DEF Resume
  <2>3. a \in Calls
    <3>1. futs \in Seq(Calls)
      BY DEF ContractInv, ApprovalInv, TypeInv, TypeOK
    <3> QED  BY <2>1, <3>1, ElementOfSeq
  <2> QED  BY <1>1, <2>2, <2>3 DEF ContractInv, AnswersSaid
<1> QED  BY <1>1

LEMMA AnswersKeptNext ==
  ASSUME ContractInv, [Next]_vars
  PROVE  AnswersKept'
<1>1. TypeInv
  BY DEF ContractInv, PairingInv, OrderInv
<1> SUFFICES ASSUME Undisturbed'
             PROVE  \A a \in 1 .. asks' : said'[a] = "none" =>
                       pc' = "awaiting" /\ \E i \in 1 .. Len(futs') : futs'[i] = a
  BY DEF AnswersKept
<1>2. \A a \in 1 .. asks : said[a] = "none" =>
          pc = "awaiting" /\ \E i \in 1 .. Len(futs) : futs[i] = a
  BY <1>1, CalmBefore DEF ContractInv, AnswersKept
<1>3. CASE AskApproval
  <2>1. \A a \in 1 .. asks : said[a] # "none"
    BY <1>2, <1>3, AskStep
  <2>2. \A a \in 1 .. asks' : a \notin 1 .. asks =>
          a - asks \in 1 .. Len(futs') /\ futs'[a - asks] = a
    BY <1>3, AskStep
  <2> QED  BY <1>3, <2>1, <2>2 DEF AskApproval, answers
<1>4. CASE Resume
  <2>1. ~ cancelled
    BY <1>4 DEF Undisturbed, Resume, cancelled
  <2> QED  BY <1>4, <2>1, RoundAnswered DEF Resume, asking, answers
<1>5. ASSUME NEW a \in Calls, NEW choice \in Choices, Respond(a, choice)
      PROVE  \A b \in 1 .. asks' : said'[b] = "none" =>
                pc' = "awaiting" /\ \E i \in 1 .. Len(futs') : futs'[i] = b
  <2>1. 1 .. asks \subseteq Calls
    BY <1>1, BoundsAssumption DEF TypeInv, TypeOK, Calls
  <2>2. /\ UNCHANGED <<pc, asks, futs>> /\ said'[a] # "none"
        /\ \A b \in Calls : b # a => said'[b] = said[b]
    BY <1>5, RespondStep DEF Decisions
  <2> QED  BY <1>2, <2>1, <2>2
<1>6. CASE ~ (AskApproval \/ Resume \/ \E a \in Calls, choice \in Choices : Respond(a, choice))
  <2>1. UNCHANGED <<said, asks, futs, about>>
    BY <1>6, AskedSame, SaidSame
  <2>2. pc = "awaiting" => pc' = "awaiting"
    BY <1>6 DEF Next, ClientStep, StartRun, RespondLate, Cancel, OpenStream,
       TakeEvent, DropStream, DeliverResult, GraphStep, DriveStep, PruneDone, PruneRaises,
       ReadCancelled, ReadError, ReadText, ReadUpdate, AutoApprove,
       PersistDone, ReadEnd, Reads, vars, driver
  <2> QED  BY <1>2, <2>1, <2>2
<1> QED  BY <1>3, <1>4, <1>5, <1>6
LEMMA DecisionsSaidNext ==
  ASSUME ContractInv, [Next]_vars
  PROVE  DecisionsSaid'
<1>1. TypeInv /\ 1 .. asks \subseteq Calls
  BY BoundsAssumption DEF ContractInv, PairingInv, OrderInv, TypeInv, TypeOK, Calls
<1> SUFFICES ASSUME ~ auto', ~ cancelled', graph' = "reviewed"
             PROVE  \A j \in 1 .. Len(review') :
                       \E a \in 1 .. asks' : about'[a] = review'[j] /\ said'[a] = decisions'[j]
  BY DEF DecisionsSaid
<1>2. ~ auto /\ ~ cancelled
  BY <1>1, CalmBefore, AutoNext DEF ContractInv, PairingInv, OrderInv
<1>3. CASE Resume
  <2>1. UNCHANGED <<said, asks, about, review>> /\ decisions' = Resolved
    BY <1>3 DEF Resume, ResumeWith, answers, asking
  <2>2. ASSUME NEW j \in 1 .. Len(review)
        PROVE  \E a \in 1 .. asks : about[a] = review[j] /\ said[a] = decisions'[j]
    <3>1. /\ pc = "awaiting" /\ j \in 1 .. Len(futs) /\ about[futs[j]] = review[j]
          /\ result[futs[j]] # "none" /\ decisions'[j] = result[futs[j]]
      BY <1>3, <2>1 DEF Resume, Resolved, ContractInv, ApprovalInv, FutsAreReview
    <3>2. futs[j] \in Calls
      <4>1. futs \in Seq(Calls)
        BY <1>1 DEF TypeInv, TypeOK
      <4> QED  BY <3>1, <4>1, ElementOfSeq
    <3>3. futs[j] \in 1 .. asks
      <4>1. review[j] # NoCall
        BY UnderReview, CallsAreNumbers DEF ContractInv, NoCall
      <4>2. ~ (futs[j] > asks)
        BY <3>1, <3>2, <4>1 DEF ContractInv, ApprovalInv, FreshIds
      <4>3. futs[j] \in Nat /\ futs[j] >= 1 /\ asks \in Nat
        BY <1>1, <3>2, CallsAreNumbers DEF TypeInv, TypeOK
      <4> QED  BY <4>2, <4>3
    <3>4. said[futs[j]] = result[futs[j]]
      BY <1>2, <3>1, <3>2 DEF ContractInv, AnswersSaid
    <3> QED  BY <3>1, <3>3, <3>4
  <2> QED  BY <2>1, <2>2
<1>4. CASE ~ Resume
  <2>1. graph = "reviewed" /\ UNCHANGED <<review, decisions>> /\ ~ AskApproval
    <3>1. CASE GraphStep
      BY <3>1 DEF GraphStep, driver, ToolRuns, GraphAdvances, GraphText, GraphCalls, GraphInterrupts,
         GraphReviews, GraphLaunches, GraphReturns, GraphEnds, GraphRaises, agent, AskApproval, asking,
         Reads
    <3>2. CASE DriveStep
      BY <1>2, <1>4, <3>2 DEF DriveStep, PruneDone, PruneRaises, ReadCancelled, ReadError, ReadText,
         ReadUpdate, AskApproval, AutoApprove, PersistDone, ReadEnd, Reads, agent, driver,
         ContractInv, ApprovalInv, TypeInv, AsksBounded
    <3>3. CASE ClientStep \/ DeliverResult \/ UNCHANGED vars
      BY <3>3 DEF ClientStep, StartRun, RespondLate, Respond, Cancel, OpenStream, TakeEvent,
         DropStream, DeliverResult, vars, agent, AskApproval, Reads, driver
    <3> QED  BY <3>1, <3>2, <3>3 DEF Next
  <2>2. UNCHANGED <<asks, about>>
    BY <2>1, AskedSame
  <2>3. ASSUME NEW j \in 1 .. Len(review)
        PROVE  \E a \in 1 .. asks : about[a] = review[j] /\ said'[a] = decisions[j]
    <3>1. PICK a \in 1 .. asks : about[a] = review[j] /\ said[a] = decisions[j]
      BY <1>2, <2>1 DEF ContractInv, DecisionsSaid
    <3>2. decisions[j] \in Decisions
      <4>1. Len(decisions) = Len(review) /\ decisions \in Seq({"approve", "reject"})
        BY <1>1, <2>1 DEF ContractInv, GraphKeepsOrder, TypeInv, TypeOK, GraphTypeOK
      <4>2. j \in 1 .. Len(decisions)
        BY <4>1
      <4> QED  BY <4>1, <4>2, ElementOfSeq DEF Decisions
    <3>3. said'[a] = said[a]
      <4>1. ASSUME NEW b \in Calls, NEW choice \in Choices, Respond(b, choice) PROVE said'[a] = said[a]
        <5>1. b # a
          BY <3>1, <3>2, <4>1, RespondStep DEF Decisions
        <5> QED  BY <1>1, <4>1, <5>1, RespondStep
      <4> QED  BY <4>1, SaidSame
    <3> QED  BY <3>1, <3>3
  <2> QED  BY <2>1, <2>2, <2>3
<1> QED  BY <1>3, <1>4

\* Where the reviewed calls go: those the user approved may run.
LEMMA ReviewTakesEffect ==
  ASSUME ContractInv, NEW again \in Resends, GraphReviews(again), pc = "streaming", Undisturbed,
         NEW a \in 1 .. asks
  PROVE  about[a] \in executed \cup todo' <=> said[a] = "approve"
<1>1. /\ graph = "reviewed" /\ todo = {} /\ executed \cap batch = {} /\ ~ auto /\ ~ cancelled
      /\ todo' = {c \in batch : ~ Gated(c)} \cup Verdict("approve")
      /\ Gated(about[a])
  BY DEF GraphReviews, ContractInv, GraphKeepsOrder, AskedOnce, Undisturbed, ApprovalInv, TypeInv, TypeOK
<1>2. /\ DOMAIN review = 1 .. Len(review)
      /\ \A j \in 1 .. Len(review) : review[j] \in batch /\ Gated(review[j])
      /\ \A c \in batch : Gated(c) => \E j \in 1 .. Len(review) : review[j] = c
      /\ \A i, j \in 1 .. Len(review) : review[i] = review[j] => i = j
  BY UnderReview DEF ContractInv
<1>3. CASE about[a] \in batch
  <2>1. PICK j \in 1 .. Len(review) : review[j] = about[a]
    BY <1>1, <1>2, <1>3
  <2>2. PICK b \in 1 .. asks : about[b] = review[j] /\ said[b] = decisions[j]
    BY <1>1 DEF ContractInv, DecisionsSaid
  <2>3. a = b
    BY <2>1, <2>2 DEF ContractInv, AskedOnce
  <2>4. about[a] \in todo' <=> decisions[j] = "approve"
    BY <1>1, <1>2, <2>1 DEF Verdict
  <2> QED  BY <1>1, <1>3, <2>2, <2>3, <2>4
<1>4. CASE about[a] \notin batch
  <2>1. todo' \subseteq batch
    BY <1>1, <1>2 DEF Verdict
  <2>2. about[a] \in executed \cup todo <=> said[a] = "approve"
    BY <1>4 DEF ContractInv, EffectsAsSaid
  <2> QED  BY <1>1, <1>4, <2>1, <2>2
<1> QED  BY <1>3, <1>4

LEMMA EffectsAsSaidNext ==
  ASSUME ContractInv, [Next]_vars
  PROVE  EffectsAsSaid'
<1>1. TypeInv /\ 1 .. asks \subseteq Calls /\ made \in Nat
  BY BoundsAssumption DEF ContractInv, PairingInv, OrderInv, TypeInv, TypeOK, GraphTypeOK, Calls
<1> SUFFICES ASSUME Undisturbed'
             PROVE  \A a \in 1 .. asks' :
                       \/ about'[a] \in batch' /\ graph' \in {"review", "reviewed"}
                       \/ about'[a] \in executed' \cup todo' <=> said'[a] = "approve"
  BY DEF EffectsAsSaid
<1>2. /\ Undisturbed
      /\ \A a \in 1 .. asks :
           \/ about[a] \in batch /\ graph \in {"review", "reviewed"}
           \/ about[a] \in executed \cup todo <=> said[a] = "approve"
  BY <1>1, CalmBefore DEF ContractInv, EffectsAsSaid
<1>3. CASE AskApproval
  <2>1. UNCHANGED <<batch, graph, executed, todo, said>> /\ graph = "review"
    BY <1>3, AskStep DEF AskApproval, agent
  <2>2. /\ \A a \in 1 .. asks : about'[a] = about[a]
        /\ \A a \in 1 .. asks' : a \notin 1 .. asks =>
             a - asks \in 1 .. Len(review) /\ about'[a] = review[a - asks]
    BY <1>3, AskStep
  <2>3. \A j \in 1 .. Len(review) : review[j] \in batch
    BY UnderReview DEF ContractInv
  <2> QED  BY <1>2, <2>1, <2>2, <2>3
<1>4. ASSUME NEW a \in Calls, NEW choice \in Choices, Respond(a, choice)
      PROVE  \A b \in 1 .. asks' :
                \/ about'[b] \in batch' /\ graph' \in {"review", "reviewed"}
                \/ about'[b] \in executed' \cup todo' <=> said'[b] = "approve"
  <2>1. /\ a \in 1 .. asks /\ said[a] = "none" /\ UNCHANGED <<asks, about>>
        /\ \A b \in Calls : b # a => said'[b] = said[b]
        /\ UNCHANGED <<batch, graph, executed, todo>>
    BY <1>4, RespondStep DEF agent
  <2>2. pc = "awaiting" /\ \E i \in 1 .. Len(futs) : futs[i] = a
    BY <1>2, <2>1 DEF ContractInv, AnswersKept
  <2>3. about[a] \in batch /\ graph = "review"
    <3>1. PICK i \in 1 .. Len(futs) : futs[i] = a
      BY <2>2
    <3>2. i \in 1 .. Len(review) /\ about[a] = review[i]
      BY <2>2, <3>1 DEF ContractInv, ApprovalInv, FutsAreReview
    <3> QED  BY <2>2, <3>2, UnderReview DEF ContractInv, PairingInv, OrderInv, CallsAreMade
  <2> QED  BY <1>1, <1>2, <2>1, <2>3
<1>5. CASE GraphStep
  <2>1. UNCHANGED <<pc, said, asks, about>>
    BY <1>5 DEF GraphStep, driver, asking, answers
  <2>2. ASSUME NEW c \in Calls, ToolRuns(c)
        PROVE  UNCHANGED <<batch, graph>> /\ executed' \cup todo' = executed \cup todo
    BY <2>2 DEF ToolRuns
  <2>3. ASSUME NEW again \in Resends, GraphReviews(again), pc = "streaming"
        PROVE  \A a \in 1 .. asks : about[a] \in executed' \cup todo' <=> said[a] = "approve"
    BY <1>2, <2>3, ReviewTakesEffect DEF GraphReviews
  <2>4. ASSUME NEW n \in 1 .. MaxCalls, GraphCalls(n)
        PROVE  \A a \in 1 .. asks : about[a] \in executed' \cup todo' <=> said[a] = "approve"
    <3>1. /\ todo' \subseteq made + 1 .. made + n /\ executed' = executed /\ todo = {}
          /\ graph \notin {"review", "reviewed"}
      BY <2>4 DEF GraphCalls, AtModel, ContractInv, GraphKeepsOrder
    <3>2. \A a \in 1 .. asks : about[a] \in 1 .. made
      BY DEF ContractInv, AskedOnce
    <3> QED  BY <1>1, <1>2, <3>1, <3>2
  <2>5. CASE \/ GraphText \/ GraphInterrupts \/ GraphLaunches \/ GraphEnds \/ GraphRaises
             \/ \E c \in Calls : GraphReturns(c)
    <3>1. /\ batch' = batch /\ executed' = executed /\ todo' = todo
          /\ graph' = graph \/ graph \notin {"review", "reviewed"}
      BY <2>5 DEF GraphText, GraphInterrupts, GraphLaunches, GraphEnds, GraphRaises, GraphReturns,
         AtModel, agent
    <3>2. executed' \cup todo' = executed \cup todo
      BY <3>1
    <3>3. CASE graph' = graph
      BY <1>2, <2>1, <3>1, <3>2, <3>3
    <3>4. CASE graph \notin {"review", "reviewed"}
      BY <1>2, <2>1, <3>2, <3>4
    <3> QED  BY <3>1, <3>3, <3>4
  <2>6. CASE \E c \in Calls : ToolRuns(c)
    BY <1>2, <2>1, <2>2, <2>6
  <2>7. CASE pc = "streaming" /\ \E again \in Resends : GraphReviews(again)
    BY <2>1, <2>3, <2>7
  <2>8. CASE \E n \in 1 .. MaxCalls : GraphCalls(n)
    BY <2>1, <2>4, <2>8
  <2> QED  BY <1>5, <2>5, <2>6, <2>7, <2>8 DEF GraphStep, GraphAdvances
<1>6. CASE ~ (AskApproval \/ GraphStep \/ \E a \in Calls, choice \in Choices : Respond(a, choice))
  <2>1. UNCHANGED <<said, asks, about>>
    BY <1>6, AskedSame, SaidSame
  <2>2. UNCHANGED <<batch, executed, todo>> /\ (graph' # graph => AutoApprove \/ Resume)
    BY <1>1, <1>6, LifeStep
  <2>3. AutoApprove \/ Resume => graph' = "reviewed"
    BY DEF AutoApprove, Resume, ResumeWith
  <2>4. AutoApprove \/ Resume => graph = "review"
    BY DEF AutoApprove, Resume, Reads, ContractInv, PairingInv, OrderInv, CallsAreMade, TypeInv,
       AsksBounded
  <2> QED  BY <1>2, <2>1, <2>2, <2>3, <2>4
<1> QED  BY <1>3, <1>4, <1>5, <1>6

LEMMA ContractNext ==
  ASSUME ContractInv, PairingInv', ApprovalInv', [Next]_vars
  PROVE  ContractInv'
BY KeepsOrderNext, AskedOnceNext, AnswersKeptNext, AnswersSaidNext, DecisionsSaidNext,
   EffectsAsSaidNext DEF ContractInv

LEMMA ContractInvariant == Spec => []ContractInv
BY ContractInit, ContractNext, PairingInvariant, ApprovalInvariant, PTL DEF Spec
\* What the abstract answers are: those to the one approval about the call.
AnswersShown ==
  /\ \A a \in 1 .. asks : about[a] \in Calls /\ AnswerTo[about[a]] = said[a]
  /\ \A c \in Calls : (\A a \in 1 .. asks : about[a] # c) => AnswerTo[c] = "none"

LEMMA AnswerIs == ContractInv => AnswersShown
<1> SUFFICES ASSUME ContractInv PROVE AnswersShown
  OBVIOUS
<1>1. 1 .. asks \subseteq Calls /\ asks \in Nat /\ made \in 0 .. MaxCalls
  BY BoundsAssumption DEF ContractInv, ApprovalInv, TypeInv, TypeOK, GraphTypeOK, Calls
<1>2. ASSUME NEW a \in Calls, about[a] \in Calls PROVE a \in 1 .. asks
  <2>1. ~ (a > asks)
    BY <1>2, CallsAreNumbers DEF ContractInv, ApprovalInv, FreshIds, NoCall
  <2>2. a \in Nat /\ a >= 1
    BY CallsAreNumbers
  <2> QED  BY <1>1, <2>1, <2>2
<1>3. ASSUME NEW a \in 1 .. asks PROVE about[a] \in Calls /\ AnswerTo[about[a]] = said[a]
  <2>1. about[a] \in Calls
    BY <1>1, BoundsAssumption DEF ContractInv, AskedOnce, Calls
  <2>2. \A b \in Calls : about[b] = about[a] => b = a
    BY <1>2, <2>1 DEF ContractInv, AskedOnce
  <2>3. (CHOOSE b \in Calls : about[b] = about[a]) = a
    BY <1>1, <2>2
  <2> QED  BY <1>1, <2>1, <2>3 DEF AnswerTo
<1>4. ASSUME NEW c \in Calls, \A a \in 1 .. asks : about[a] # c PROVE AnswerTo[c] = "none"
  BY <1>2, <1>4 DEF AnswerTo
<1> QED  BY <1>3, <1>4 DEF AnswersShown

\* Steps that keep what the user sees keep the abstract state.
LEMMA Stutters ==
  ASSUME ContractInv, UNCHANGED <<auto, asks, about, said, executed>>,
         Status' = Status, cancelled' = cancelled
  PROVE  UNCHANGED Contract!vars
<1>1. {about[a] : a \in 1 .. asks}' = {about[a] : a \in 1 .. asks} /\ AnswerTo' = AnswerTo
  BY DEF AnswerTo
<1> QED  BY <1>1 DEF Contract!vars

LEMMA StatusSame ==
  ASSUME [Next]_vars, TypeInv, TypeInv'
  PROVE  /\ UNCHANGED <<pc, log>> => Status' = Status
         /\ pc \in {"prune", "streaming", "persisting"} => Status = "running"
         /\ pc' \in {"prune", "streaming", "persisting"} => Status' = "running"
         /\ pc' = "awaiting" => Status' = "waiting"
         /\ pc = "awaiting" => Status = "waiting"
         /\ pc' = "dead" => Status' = "lost"
         /\ pc = "new" => Status = "new"
BY DEF Status

LEMMA ContractEnds ==
  ASSUME ContractInv, NEW name \in Terminal, Finish(name), pc \in {"streaming", "persisting"},
         UNCHANGED <<auto, cancels, asks, about, said, executed>>,
         name = "run.cancelled" => cancelled,
         name = "run.completed" => Undisturbed /\ AtModel
  PROVE  Contract!End(name)
<1>1. TypeInv
  BY DEF ContractInv, PairingInv, OrderInv
<1>2. Status = "running" /\ Status' = name
  BY <1>1, FinishSays DEF Status
<1>3. {about[a] : a \in 1 .. asks}' = {about[a] : a \in 1 .. asks} /\ AnswerTo' = AnswerTo
      /\ cancelled' = cancelled
  BY DEF AnswerTo, cancelled
<1>4. ASSUME name = "run.completed", NEW a \in 1 .. asks
      PROVE  /\ AnswerTo[about[a]] # "none"
             /\ about[a] \in executed <=> AnswerTo[about[a]] = "approve"
  <2>1. AnswerTo[about[a]] = said[a]
    BY AnswerIs DEF AnswersShown
  <2>2. said[a] # "none"
    BY <1>4 DEF ContractInv, AnswersKept
  <2>3. graph \notin {"review", "reviewed"} /\ todo = {}
    BY <1>4 DEF AtModel, ContractInv, GraphKeepsOrder
  <2> QED  BY <1>4, <2>1, <2>2, <2>3 DEF ContractInv, EffectsAsSaid
<1> QED  BY <1>2, <1>3, <1>4 DEF Contract!End

LEMMA ContractAsks ==
  ASSUME ContractInv, ContractInv', AskApproval, [Next]_vars
  PROVE  Contract!Ask
<1> DEFINE n == Len(review)
           S == {review[i] : i \in 1 .. n}
           asked == {about[a] : a \in 1 .. asks}
<1>1. /\ n \in Nat /\ n # 0 /\ graph = "review" /\ pc = "streaming" /\ ~ auto
      /\ \A a \in 1 .. asks : about'[a] = about[a]
      /\ 1 .. asks \subseteq 1 .. asks'
      /\ \A i \in 1 .. n : asks + i \in 1 .. asks' /\ about'[asks + i] = review[i]
      /\ \A a \in 1 .. asks' : a \notin 1 .. asks =>
           a - asks \in 1 .. n /\ about'[a] = review[a - asks] /\ said[a] = "none"
  BY AskStep
<1>2. /\ pc' = "awaiting" /\ UNCHANGED <<auto, cancels, executed, said>>
  BY DEF AskApproval, answers, agent
<1>3. Status = "running" /\ Status' = "waiting"
  BY <1>1, <1>2 DEF Status
<1> HIDE DEF n
<1>4. {about'[a] : a \in 1 .. asks'} = asked \cup S
  <2>1. ASSUME NEW a \in 1 .. asks' PROVE about'[a] \in asked \cup S
    BY <1>1
  <2>2. ASSUME NEW a \in 1 .. asks PROVE about[a] \in {about'[b] : b \in 1 .. asks'}
    BY <1>1
  <2>3. ASSUME NEW i \in 1 .. n PROVE review[i] \in {about'[b] : b \in 1 .. asks'}
    BY <1>1
  <2> QED  BY <2>1, <2>2, <2>3
<1>5. S \in SUBSET ({c \in Calls : Gated(c)} \ asked) /\ S # {}
  <2>1. \A i \in 1 .. n : review[i] \in batch /\ review[i] \in Calls /\ Gated(review[i])
    BY UnderReview DEF ContractInv, n
  <2>2. \A a \in 1 .. asks : about[a] \notin batch
    BY <1>1 DEF ContractInv, AskedOnce
  <2>3. 1 \in 1 .. n
    BY <1>1
  <2> QED  BY <2>1, <2>2, <2>3
<1>6. AnswersShown /\ AnswersShown'
  BY AnswerIs, PTL
<1>7. AnswerTo' = AnswerTo
  <2>1. ASSUME NEW c \in Calls PROVE (AnswerTo[c])' = AnswerTo[c]
    <3>1. CASE \E a \in 1 .. asks : about[a] = c
      <4>1. PICK a \in 1 .. asks : about[a] = c
        BY <3>1
      <4>2. AnswerTo[c] = said[a] /\ a \in 1 .. asks' /\ about'[a] = c
        BY <1>1, <4>1, <1>6 DEF AnswersShown
      <4>3. \A b \in 1 .. asks' : AnswerTo'[about'[b]] = said'[b]
        BY <1>6 DEF AnswersShown
      <4> QED  BY <1>2, <4>2, <4>3
    <3>2. CASE \E a \in 1 .. asks' : a \notin 1 .. asks /\ about'[a] = c
      <4>1. PICK a \in 1 .. asks' : a \notin 1 .. asks /\ about'[a] = c
        BY <3>2
      <4>2. \A b \in 1 .. asks' : AnswerTo'[about'[b]] = said'[b]
        BY <1>6 DEF AnswersShown
      <4>3. c \notin asked
        BY <1>1, <1>5, <4>1
      <4>4. AnswerTo[c] = "none"
        BY <4>3, <1>6 DEF AnswersShown
      <4> QED  BY <1>1, <1>2, <4>1, <4>2, <4>4
    <3>3. CASE ~ \E a \in 1 .. asks' : about'[a] = c
      <4>1. AnswerTo'[c] = "none"
        <5>1. \A c_1 \in Calls : (\A a \in 1 .. asks' : about'[a] # c_1) => AnswerTo'[c_1] = "none"
          BY <1>6 DEF AnswersShown
        <5> QED  BY <3>3, <5>1
      <4>2. AnswerTo[c] = "none"
        <5>1. \A a \in 1 .. asks : about[a] # c
          BY <1>1, <3>3
        <5> QED  BY <5>1, <1>6 DEF AnswersShown
      <4> QED  BY <4>1, <4>2
    <3> QED  BY <1>1, <3>1, <3>2, <3>3
  <2> QED  BY <2>1 DEF AnswerTo
<1> HIDE DEF S
<1> QED  BY <1>1, <1>2, <1>3, <1>4, <1>5, <1>7 DEF Contract!Ask, cancelled

LEMMA ContractAnswers ==
  ASSUME ContractInv, ContractInv', NEW a \in Calls, NEW choice \in Choices, Respond(a, choice)
  PROVE  about[a] \in Calls /\ Contract!Answer(about[a])
<1>1. /\ a \in 1 .. asks /\ said[a] = "none" /\ said'[a] = DecisionOf(choice)
      /\ \A b \in Calls : b # a => said'[b] = said[b]
      /\ DecisionOf(choice) \in {"approve", "reject"}
      /\ UNCHANGED <<pc, auto, cancels, asks, futs, about, log, executed>>
  BY RespondStep DEF Decisions, Respond, agent
<1>2. about[a] \in Calls /\ AnswerTo[about[a]] = "none"
  BY <1>1, AnswerIs DEF AnswersShown
<1>3. AnswersShown /\ AnswersShown'
  BY AnswerIs, PTL
<1>4. AnswerTo' = [AnswerTo EXCEPT ![about[a]] = DecisionOf(choice)]
  <2>1. 1 .. asks \subseteq Calls
    BY BoundsAssumption DEF ContractInv, ApprovalInv, TypeInv, TypeOK, Calls
  <2>2. ASSUME NEW c \in Calls
        PROVE  AnswerTo'[c] = IF c = about[a] THEN DecisionOf(choice) ELSE AnswerTo[c]
    <3>1. CASE \E b \in 1 .. asks : about[b] = c
      <4>1. PICK b \in 1 .. asks : about[b] = c
        BY <3>1
      <4>2. AnswerTo[c] = said[b]
        BY <4>1, <1>3 DEF AnswersShown
      <4>3. \A d \in 1 .. asks' : AnswerTo'[about'[d]] = said'[d]
        BY <1>3 DEF AnswersShown
      <4>4. AnswerTo'[c] = said'[b]
        BY <1>1, <4>1, <4>3
      <4>5. c = about[a] <=> b = a
        BY <1>1, <4>1 DEF ContractInv, AskedOnce
      <4> QED  BY <1>1, <2>1, <4>2, <4>4, <4>5
    <3>2. CASE ~ \E b \in 1 .. asks : about[b] = c
      <4>1. \A c_1 \in Calls : (\A d \in 1 .. asks' : about'[d] # c_1) => AnswerTo'[c_1] = "none"
        BY <1>3 DEF AnswersShown
      <4>2. AnswerTo'[c] = "none" /\ AnswerTo[c] = "none" /\ c # about[a]
        BY <1>1, <3>2, <4>1, <1>3 DEF AnswersShown
      <4> QED  BY <4>2
    <3> QED  BY <3>1, <3>2
  <2> QED  BY <2>2 DEF AnswerTo
<1>5. Status' = Status /\ cancelled' = cancelled
      /\ {about[b] : b \in 1 .. asks}' = {about[b] : b \in 1 .. asks}
      /\ about[a] \in {about[b] : b \in 1 .. asks}
  BY <1>1 DEF Status, cancelled
<1> QED  BY <1>1, <1>2, <1>4, <1>5 DEF Contract!Answer
\* A finished run has a name for how it ended.
LEMMA StatusIs ==
  ASSUME TypeInv, OneTerminalEvent
  PROVE  /\ pc = "new" <=> Status = "new"
         /\ pc = "dead" <=> Status = "lost"
         /\ pc \in {"prune", "streaming", "persisting"} => Status = "running"
         /\ pc = "awaiting" => Status = "waiting"
<1>1. pc = "ended" => Status \in Terminal
  BY DEF Status, OneTerminalEvent
<1>2. pc \in {"new", "prune", "streaming", "awaiting", "persisting", "ended", "dead"}
  BY DEF TypeInv, TypeOK
<1> QED  BY <1>1, <1>2 DEF Status, Terminal

LEMMA ContractExecutes ==
  ASSUME ContractInv, OneTerminalEvent, NEW c \in Calls, ToolRuns(c),
         UNCHANGED <<driver, asking, answers, log>>
  PROVE  Contract!Execute(c)
<1>1. /\ graph = "tools" /\ c \in todo /\ c \notin executed /\ executed' = executed \cup {c}
      /\ pc \notin {"new", "dead"} /\ Status # "run.completed"
  BY DEF ToolRuns, ContractInv, GraphKeepsOrder, AtModel
<1>2. Status \notin {"new", "run.completed", "lost"}
  BY <1>1, StatusIs DEF ContractInv, ApprovalInv
<1>3. /\ UNCHANGED <<Status, auto, cancelled, AnswerTo>>
      /\ {about[a] : a \in 1 .. asks}' = {about[a] : a \in 1 .. asks}
  BY DEF driver, asking, answers, Status, cancelled, AnswerTo
<1>4. ASSUME Gated(c), ~ auto PROVE AnswerTo[c] = "approve"
  <2>1. PICK a \in Calls : about[a] = c /\ said[a] = "approve"
    BY <1>1, <1>4 DEF ContractInv, ApprovalInv, GraphIsApproved, Approved
  <2>2. a \in 1 .. asks
    <3>1. ~ (a > asks)
      BY <2>1 DEF ContractInv, ApprovalInv, FreshIds
    <3>2. a \in Nat /\ a >= 1 /\ asks \in Nat
      BY CallsAreNumbers DEF ContractInv, ApprovalInv, TypeInv, TypeOK
    <3> QED  BY <3>1, <3>2
  <2> QED  BY <2>1, <2>2, AnswerIs DEF AnswersShown
<1> QED  BY <1>1, <1>2, <1>3, <1>4 DEF Contract!Execute

LEMMA ContractStep ==
  ASSUME ContractInv, ContractInv', OneTerminalEvent, OneTerminalEvent', [Next]_vars
  PROVE  [Contract!Next]_(Contract!vars)
<1> DEFINE asked == {about[a] : a \in 1 .. asks}
<1>1. TypeInv /\ TypeInv' /\ GraphKeepsOrder /\ AskedOnce
  BY DEF ContractInv, PairingInv, OrderInv
<1>2. /\ pc = "new" <=> Status = "new"
      /\ pc \in {"prune", "streaming", "persisting"} => Status = "running"
      /\ pc = "awaiting" => Status = "waiting"
  BY <1>1, StatusIs
<1>3. /\ pc' \in {"prune", "streaming", "persisting"} => Status' = "running"
      /\ pc' = "dead" => Status' = "lost"
  BY DEF Status
<1>4. UNCHANGED <<pc, log>> => Status' = Status
  BY DEF Status
<1>5. UNCHANGED <<asks, about>> => asked' = asked
  OBVIOUS
<1>6. UNCHANGED <<about, said>> => AnswerTo' = AnswerTo
  BY DEF AnswerTo
<1>7. UNCHANGED cancels => cancelled' = cancelled
  BY DEF cancelled
<1>8. ASSUME NEW approve \in BOOLEAN, NEW replace \in BOOLEAN, StartRun(approve, replace)
      PROVE  Contract!Start
  <2>1. pc = "new" /\ pc' \in {"prune", "streaming"} /\ auto' = approve
        /\ UNCHANGED <<cancels, asks, about, said, executed>>
    BY <1>8 DEF StartRun, asking, answers, agent
  <2> QED  BY <1>2, <1>3, <1>5, <1>6, <1>7, <2>1 DEF Contract!Start
<1>9. CASE Cancel
  <2>1. /\ pc # "new" /\ cancelled' /\ UNCHANGED <<pc, log, auto, asks, about, said, executed>>
    BY <1>1, <1>9 DEF Cancel, GraphKeepsOrder, cancelled, TypeInv, TypeOK, asking, agent
  <2>2. Contract!Stop
    BY <1>2, <1>4, <1>5, <1>6, <2>1 DEF Contract!Stop
  <2> QED  BY <2>2 DEF Contract!Next
<1>10. CASE Resume
  <2>1. /\ pc = "awaiting" /\ pc' = "streaming"
        /\ UNCHANGED <<cancels, auto, asks, about, said, executed>>
    BY <1>10 DEF Resume, ResumeWith, asking, answers
  <2>2. cancelled \/ \A c \in asked : AnswerTo[c] # "none"
    BY <1>10, RoundAnswered, AnswerIs DEF AnswersShown
  <2>3. Contract!GoOn
    BY <1>2, <1>3, <1>5, <1>6, <1>7, <2>1, <2>2 DEF Contract!GoOn
  <2> QED  BY <2>3 DEF Contract!Next
<1>11. CASE PruneRaises
  <2>1. /\ pc = "prune" /\ pc' = "dead" /\ UNCHANGED <<cancels, auto, asks, about, said, executed>>
    BY <1>11 DEF PruneRaises, asking, answers, agent
  <2>2. asks = 0 /\ executed = {}
    BY <1>1, <2>1 DEF GraphKeepsOrder, ContractInv, PairingInv, OrderInv, CallsAreMade, TypeInv, TypeOK,
       AsksBounded
  <2>3. Contract!Lose
    BY <1>2, <1>3, <1>5, <1>6, <1>7, <2>1, <2>2 DEF Contract!Lose
  <2> QED  BY <2>3 DEF Contract!Next
<1>12. CASE ReadCancelled \/ ReadError
  <2>1. /\ pc = "streaming" /\ UNCHANGED <<auto, cancels, asks, about, said, executed>>
        /\ (Finish("run.cancelled") /\ cancelled) \/ Finish("run.failed")
    BY <1>12 DEF ReadCancelled, ReadError, Reads, SeesCancel, asking, answers, agent
  <2>2. Contract!End("run.cancelled") \/ Contract!End("run.failed")
    BY <2>1, ContractEnds DEF Terminal
  <2> QED  BY <2>2 DEF Contract!Next, Contract!Outcomes
<1>13. ASSUME PersistDone \/ \E hasSources, hasUsage \in BOOLEAN : ReadEnd(hasSources, hasUsage),
              Finish("run.completed")
       PROVE  Contract!End("run.completed")
  <2>1. /\ pc \in {"streaming", "persisting"} /\ UNCHANGED <<auto, cancels, asks, about, said, executed>>
        /\ Undisturbed /\ AtModel
    BY <1>1, <1>13 DEF PersistDone, ReadEnd, Reads, SeesCancel, asking, answers, agent, Undisturbed,
       GraphKeepsOrder
  <2> QED  BY <1>13, <2>1, ContractEnds DEF Terminal
<1>14. ASSUME UNCHANGED <<auto, cancels, asks, about, said, executed>>, Status' = Status
       PROVE  UNCHANGED Contract!vars
  BY <1>7, <1>14, Stutters
<1>15. CASE PersistDone \/ \E hasSources, hasUsage \in BOOLEAN : ReadEnd(hasSources, hasUsage)
  <2>1. CASE Finish("run.completed")
    BY <1>13, <1>15, <2>1 DEF Contract!Next, Contract!Outcomes
  <2>2. CASE ~ Finish("run.completed")
    <3>1. /\ pc = "streaming" /\ pc' = "persisting"
          /\ UNCHANGED <<auto, cancels, asks, about, said, executed>>
      BY <1>15, <2>2 DEF PersistDone, ReadEnd, Reads, asking, answers, agent
    <3> QED  BY <1>2, <1>3, <1>14, <3>1
  <2> QED  BY <2>1, <2>2
<1>16. CASE GraphStep
  <2>1. UNCHANGED <<driver, asking, answers, log>>
    BY <1>16 DEF GraphStep
  <2>2. CASE \E c \in Calls : ToolRuns(c)
    BY <2>1, <2>2, ContractExecutes DEF Contract!Next
  <2>3. CASE GraphAdvances
    <3>1. UNCHANGED <<pc, log, auto, cancels, asks, about, said, executed>>
      BY <2>1, <2>3 DEF driver, asking, answers, GraphAdvances, GraphText, GraphCalls,
         GraphInterrupts, GraphReviews, GraphLaunches, GraphReturns, GraphEnds, GraphRaises, agent
    <3> QED  BY <1>4, <1>14, <3>1
  <2> QED  BY <1>16, <2>2, <2>3 DEF GraphStep
<1>17. CASE AskApproval
  BY <1>17, ContractAsks DEF Contract!Next
<1>18. CASE \E a \in Calls, choice \in Choices : Respond(a, choice)
  BY <1>18, ContractAnswers DEF Contract!Next
<1>19. CASE PruneDone \/ ReadText \/ ReadUpdate \/ AutoApprove
  <2>1. /\ pc \in {"prune", "streaming"} /\ pc' = "streaming"
        /\ UNCHANGED <<auto, cancels, asks, about, said, executed>>
    BY <1>19 DEF PruneDone, ReadText, ReadUpdate, AutoApprove, ResumeWith, Reads, driver, asking,
       answers, agent
  <2> QED  BY <1>2, <1>3, <1>14, <2>1
<1>20. CASE \/ DeliverResult \/ UNCHANGED vars \/ \E a \in Calls : RespondLate(a)
            \/ \E s \in Streams : OpenStream(s) \/ TakeEvent(s) \/ DropStream(s)
  <2>1. UNCHANGED <<pc, log, auto, cancels, asks, about, said, executed>>
    BY <1>20 DEF DeliverResult, RespondLate, OpenStream, TakeEvent, DropStream, driver, asking,
       answers, agent, vars
  <2> QED  BY <1>4, <1>14, <2>1
<1>21. CASE \E approve, replace \in BOOLEAN : StartRun(approve, replace)
  BY <1>8, <1>21 DEF Contract!Next
<1>22. CASE DriveStep
  BY <1>10, <1>11, <1>12, <1>15, <1>17, <1>19, <1>22 DEF DriveStep
<1>23. CASE ClientStep
  BY <1>9, <1>18, <1>20, <1>21, <1>23 DEF ClientStep
<1> QED  BY <1>16, <1>20, <1>22, <1>23 DEF Next

\* The driver, with its queue, futures and callbacks, keeps the contract of a run,
\* whatever the number of calls, rounds, cancels and streams: its steps are steps of
\* RunContract, or leave what the user sees alone.
THEOREM DriverKeepsContract == Spec => ImplementsContract
<1>1. Init => Contract!Init
  <2>1. Init => {about[a] : a \in 1 .. asks} = {} /\ AnswerTo = [c \in Calls |-> "none"]
    BY CallsAreNumbers DEF Init, AnswerTo, NoCall
  <2> QED  BY <2>1 DEF Init, GraphInit, Contract!Init, Status, cancelled
<1>2. ContractInv /\ ContractInv' /\ OneTerminalEvent /\ OneTerminalEvent' /\ [Next]_vars
        => [Contract!Next]_(Contract!vars)
  BY ContractStep
<1> QED
  BY <1>1, <1>2, ContractInvariant, StreamHasOneEnd, PTL DEF Spec, ImplementsContract, Contract!Spec

-----------------------------------------------------------------------------
(* ChatTurn, whose server is a RunDriver: a step of the turn is a step of the run. *)

\* A call whose announcement waits to be read was not announced before.
FreshStarts ==
  /\ \A c \in Calls : Started(c) => c <= made
  /\ pc # "ended" =>
       /\ \A k \in 1 .. Len(chunk.started) :
            ~ Started(chunk.started[k]) /\ chunk.started[k] <= made
       /\ \A j, k \in 1 .. Len(chunk.started) : chunk.started[j] = chunk.started[k] => j = k

\* An approval.request in the log carries an approval id that was given out for its
\* call.
RequestsAreAsked ==
  \A i \in 1 .. Len(log) : log[i].ev = "approval.request" =>
     log[i].aid \in 1 .. asks /\ about[log[i].aid] = log[i].call

\* A future without a result is one of those _drive awaits.
OpenIsAwaited ==
  \A a \in 1 .. asks : result[a] = "none" =>
     pc = "awaiting" /\ \E i \in 1 .. Len(futs) : futs[i] = a

\* The calls under review have no result, neither told nor on its way.
Done(c) == At("tool.completed", c) # {} \/ c \in returned \/ c \in Members(chunk.completed)
ReviewedAreNotDone ==
  /\ \A c \in Calls : Done(c) => c <= made
  /\ graph \in {"review", "reviewed"} => \A c \in batch : ~ Done(c)

RunInv ==
  /\ ContractInv /\ OneTerminalEvent /\ AnnouncedOnce /\ FreshStarts
  /\ RequestsAreAsked /\ OpenIsAwaited /\ ReviewedAreNotDone /\ taken <= Len(log)

-----------------------------------------------------------------------------
(* The run *)

LEMMA AtMostOne ==
  ASSUME NEW S, \A x, y \in S : x = y
  PROVE  Cardinality(S) <= 1
<1>1. CASE S = {}
  BY <1>1, FS_EmptySet
<1>2. ASSUME NEW x \in S PROVE Cardinality(S) <= 1
  <2>1. S = {x}
    OBVIOUS
  <2> QED  BY <2>1, FS_Singleton
<1> QED  BY <1>1, <1>2

\* The parts of the type invariant used here.
LEMMA RunTypes ==
  ASSUME RunInv
  PROVE  /\ TypeInv /\ PairingInv /\ OrderInv /\ ApprovalInv /\ CallsAreMade
         /\ made \in Nat /\ asks \in Nat /\ Len(log) \in Nat /\ log \in Seq(Events)
         /\ 1 .. asks \subseteq Calls
<1>1. TypeInv /\ PairingInv /\ OrderInv /\ ApprovalInv /\ CallsAreMade
  BY DEF RunInv, ContractInv, PairingInv, OrderInv
<1>2. made \in Nat /\ asks \in 0 .. MaxCalls /\ log \in Seq(Events)
  BY <1>1 DEF TypeInv, TypeOK, GraphTypeOK
<1> QED  BY <1>1, <1>2, LenProperties, BoundsAssumption DEF Calls

\* The events appended by anything but an update report on no call.
LEMMA OtherLog ==
  ASSUME TypeInv, [Next]_vars, ~ ReadUpdate
  PROVE  \E t \in Seq(Events) :
           /\ log' = log \o t
           /\ \A k \in 1 .. Len(t) : t[k].ev # "tool.started" /\ t[k].ev # "tool.completed"
           /\ (AskApproval /\ t = Requested) \/ \A k \in 1 .. Len(t) : t[k].ev # "approval.request"
<1>1. PICK t \in Seq(Events) : /\ log' = log \o t
                               /\ \/ AskApproval /\ t = Requested
                                  \/ \A k \in 1 .. Len(t) : t[k].ev \in Others
  BY LogGrows
<1>2. CASE AskApproval /\ t = Requested
  <2>1. Len(t) = Len(review)
        /\ \A k \in 1 .. Len(review) : t[k] = Event("approval.request", review[k], asks + k, Card(k))
    BY <1>2, RequestedType
  <2>2. \A k \in 1 .. Len(t) : t[k].ev = "approval.request"
    BY <2>1, EventFields
  <2> QED  BY <1>1, <1>2, <2>2
<1>3. CASE \A k \in 1 .. Len(t) : t[k].ev \in Others
  BY <1>1, <1>3 DEF Others, Closing, Terminal
<1> QED  BY <1>1, <1>2, <1>3

\* Steps outside the graph drop the chunk that was read, or leave it.
LEMMA OtherChunk ==
  ASSUME [Next]_vars, ~ GraphStep
  PROVE  chunk' \in {chunk, NoChunk}
<1>1. CASE DriveStep
  BY <1>1 DEF DriveStep, PruneDone, PruneRaises, ReadCancelled, ReadError, ReadText, ReadUpdate,
     AskApproval, AutoApprove, Resume, PersistDone, ReadEnd, Reads
<1>2. CASE ClientStep \/ DeliverResult \/ UNCHANGED vars
  BY <1>2 DEF ClientStep, StartRun, RespondLate, Respond, Cancel, OpenStream, TakeEvent,
     DropStream, DeliverResult, vars
<1> QED  BY <1>1, <1>2 DEF Next

LEMMA NothingOnItsWay ==
  /\ Len(NoChunk.started) = 0 /\ Members(NoChunk.completed) = {}
  /\ Len(<<>>) = 0 /\ Members(<<>>) = {}
  /\ \A kind, s, c : Chunk(kind, s, c).started = s /\ Chunk(kind, s, c).completed = c
BY EmptySeq DEF NoChunk, Chunk, Members

\* The graph announces calls when the model makes them, and then never again.
LEMMA GraphStarts ==
  ASSUME TypeInv, GraphStep, TRUE \notin Resends
  PROVE  \/ chunk' = chunk
         \/ Len(chunk'.started) = 0
         \/ \E n \in 1 .. MaxCalls : GraphCalls(n)
<1>1. ASSUME NEW again \in Resends, GraphReviews(again) PROVE Len(chunk'.started) = 0
  <2>1. ~ again
    BY GraphAssumption
  <2>2. PICK message \in Ascending({}) : chunk'.started = message
    BY <1>1, <2>1, NothingOnItsWay DEF GraphReviews
  <2>3. Len(message) \in Nat /\ \A i \in 1 .. Len(message) : FALSE
    BY AscendingLists
  <2> QED  BY <2>2, <2>3
<1>2. CASE GraphText \/ GraphInterrupts \/ GraphEnds \/ GraphRaises \/ \E c \in Calls : GraphReturns(c)
  <2>1. \E kind, completed : chunk' = Chunk(kind, <<>>, completed)
    BY <1>2 DEF GraphText, GraphInterrupts, GraphEnds, GraphRaises, GraphReturns
  <2> QED  BY <2>1, NothingOnItsWay
<1>3. CASE GraphLaunches \/ \E c \in Calls : ToolRuns(c)
  BY <1>3 DEF GraphLaunches, ToolRuns
<1> QED  BY <1>1, <1>2, <1>3 DEF GraphStep, GraphAdvances

LEMMA FreshGraph ==
  ASSUME RunInv, GraphStep, TRUE \notin Resends
  PROVE  AnnouncedOnce' /\ FreshStarts'
<1>1. UNCHANGED <<log, pc>> /\ [Next]_vars /\ TypeInv
  BY RunTypes DEF GraphStep, driver, Next
<1>2. AnnouncedOnce' /\ \A c : Started(c)' <=> Started(c)
  BY <1>1 DEF RunInv, AnnouncedOnce, Started, At
<1>3. made \in Nat /\ made' \in Nat /\ made <= made'
  BY <1>1, MadeGrows
<1>4. ASSUME NEW n \in 1 .. MaxCalls, GraphCalls(n)
      PROVE  /\ \A k \in 1 .. Len(chunk'.started) :
                  ~ Started(chunk'.started[k]) /\ chunk'.started[k] <= made'
             /\ \A j, k \in 1 .. Len(chunk'.started) : chunk'.started[j] = chunk'.started[k] => j = k
  <2>1. /\ chunk'.started = [i \in 1 .. n |-> made + i] /\ made' = made + n /\ made + n <= MaxCalls
        /\ n \in Nat
    BY <1>4, NothingOnItsWay DEF GraphCalls
  <2>2. Len(chunk'.started) = n /\ \A k \in 1 .. n : chunk'.started[k] = made + k
    BY <2>1
  <2>3. ASSUME NEW k \in 1 .. n
        PROVE  /\ made + k \in Calls /\ ~ (made + k <= made) /\ made + k <= made'
    BY <1>3, <2>1, BoundsAssumption DEF Calls
  <2>4. \A k \in 1 .. n : ~ Started(made + k)
    BY <2>3 DEF RunInv, FreshStarts
  <2>5. \A k \in 1 .. Len(chunk'.started) :
          ~ Started(chunk'.started[k]) /\ chunk'.started[k] <= made'
    BY <2>2, <2>3, <2>4
  <2>6. \A j, k \in 1 .. n : made + j = made + k => j = k
    BY <1>3, <2>1
  <2>7. \A j, k \in 1 .. Len(chunk'.started) : chunk'.started[j] = chunk'.started[k] => j = k
    BY <2>2, <2>6
  <2> QED  BY <2>5, <2>7
<1>5. \/ chunk' = chunk
      \/ Len(chunk'.started) = 0
      \/ \E n \in 1 .. MaxCalls : GraphCalls(n)
  BY <1>1, GraphStarts
<1>6. chunk.started \in Seq(Calls)
  BY <1>1 DEF TypeInv, TypeOK, GraphTypeOK, Chunks
<1>7. \A c \in Calls : c <= made => c <= made'
  BY <1>3 DEF Calls
<1>8. CASE chunk' = chunk
  <2>1. \A k \in 1 .. Len(chunk.started) : chunk.started[k] \in Calls
    BY <1>6, ElementOfSeq
  <2> QED  BY <1>1, <1>2, <1>7, <1>8, <2>1 DEF RunInv, FreshStarts
<1>9. CASE Len(chunk'.started) = 0
  BY <1>1, <1>2, <1>7, <1>9 DEF RunInv, FreshStarts
<1>10. CASE \E n \in 1 .. MaxCalls : GraphCalls(n)
  BY <1>1, <1>2, <1>4, <1>7, <1>10 DEF RunInv, FreshStarts
<1> QED  BY <1>5, <1>8, <1>9, <1>10
\* The announcements that an update adds to the log, and where.
LEMMA UpdateLog ==
  ASSUME TypeInv, ReadUpdate
  PROVE  LET s == chunk.started
             c == chunk.completed
             l == Len(log)
         IN  /\ UNCHANGED <<pc, asks, about, returned, made, graph, batch>> /\ pc = "streaming"
             /\ chunk' = NoChunk
             /\ l \in Nat /\ Len(log') \in Nat /\ l <= Len(log') /\ Len(s) \in Nat
             /\ \A i \in 1 .. l : log'[i] = log[i]
             /\ \A i \in 1 .. Len(log') : i \notin 1 .. l =>
                  \/ /\ i - l \in 1 .. Len(s)
                     /\ log'[i].ev = "tool.started" /\ log'[i].call = s[i - l]
                  \/ /\ log'[i].ev = "tool.completed" /\ log'[i].call \in Members(c)
<1> DEFINE s == chunk.started
           l == Len(log)
<1>1. log \in Seq(Events) /\ [Next]_vars
  BY DEF TypeInv, TypeOK, Next, DriveStep
<1>2. /\ UNCHANGED <<pc, asks, about, returned, made, graph, batch>> /\ chunk' = NoChunk
      /\ pc = "streaming"
  BY DEF ReadUpdate, Reads, driver, asking, agent
<1>3. log' = log \o Updates /\ Updates \in Seq(Events)
  <2>1. PICK t \in Seq(Events) : /\ log' = log \o t
                                 /\ \/ ReadUpdate /\ t = Updates
                                    \/ AskApproval /\ t = Requested
                                    \/ \A k \in 1 .. Len(t) : t[k].ev \in Others
    BY <1>1, LogGrows
  <2>2. chunk.started \in Seq(Calls) /\ chunk.completed \in Seq(Calls)
    BY DEF TypeInv, TypeOK, GraphTypeOK, Chunks
  <2>3. /\ EachCall("tool.started", chunk.started) \in Seq(Events)
        /\ EachCall("tool.completed", chunk.completed) \in Seq(Events)
    BY <2>2, EachCallType DEF Names
  <2>4. log' = (log \o EachCall("tool.started", chunk.started))
                  \o EachCall("tool.completed", chunk.completed)
    BY DEF ReadUpdate
  <2> QED  BY <1>1, <2>3, <2>4, UpdatesType, ConcatAssociative DEF Updates
<1>4. /\ l \in Nat /\ Len(Updates) \in Nat /\ Len(log') = l + Len(Updates)
      /\ \A i \in 1 .. l : log'[i] = log[i]
      /\ \A i \in 1 .. Len(log') : i \notin 1 .. l =>
           i - l \in 1 .. Len(Updates) /\ log'[i] = Updates[i - l]
  BY <1>1, <1>3, Appended
<1>5. /\ Len(s) \in Nat
      /\ \A k \in 1 .. Len(s) : Updates[k].ev = "tool.started" /\ Updates[k].call = s[k]
      /\ \A k \in 1 .. Len(Updates) : k \notin 1 .. Len(s) =>
           LET m == k - Len(s)
           IN  /\ m \in 1 .. Len(chunk.completed)
               /\ Updates[k].ev = "tool.completed" /\ Updates[k].call = chunk.completed[m]
  BY UpdatesType
<1> HIDE DEF s, l
<1>6. ASSUME NEW i \in 1 .. Len(log'), i \notin 1 .. l
      PROVE  \/ /\ i - l \in 1 .. Len(s)
                /\ log'[i].ev = "tool.started" /\ log'[i].call = s[i - l]
             \/ /\ log'[i].ev = "tool.completed" /\ log'[i].call \in Members(chunk.completed)
  <2>1. i - l \in 1 .. Len(Updates) /\ log'[i] = Updates[i - l]
    BY <1>4, <1>6
  <2> QED  BY <1>5, <2>1 DEF Members
<1>7. Len(log') \in Nat /\ l <= Len(log')
  BY <1>4
<1> QED  BY <1>2, <1>4, <1>5, <1>6, <1>7 DEF s, l

LEMMA FreshReadUpdate ==
  ASSUME RunInv, ReadUpdate
  PROVE  AnnouncedOnce' /\ FreshStarts'
<1> DEFINE s == chunk.started
           l == Len(log)
           Starts(c) == {i \in 1 .. Len(log') : log'[i].ev = "tool.started" /\ log'[i].call = c}
<1>1. /\ UNCHANGED <<pc, made>> /\ pc = "streaming" /\ Len(chunk'.started) = 0
      /\ l \in Nat /\ Len(log') \in Nat /\ l <= Len(log') /\ Len(s) \in Nat
      /\ \A i \in 1 .. l : log'[i] = log[i]
      /\ \A i \in 1 .. Len(log') : i \notin 1 .. l =>
           \/ i - l \in 1 .. Len(s) /\ log'[i].ev = "tool.started" /\ log'[i].call = s[i - l]
           \/ log'[i].ev = "tool.completed"
  BY RunTypes, UpdateLog, NothingOnItsWay
<1>2. \A c : Starts(c) = At("tool.started", c)'
  BY DEF At
<1>3. ASSUME NEW c, NEW i \in Starts(c)
      PROVE  \/ i \in At("tool.started", c)
             \/ i \notin 1 .. l /\ i - l \in 1 .. Len(s) /\ s[i - l] = c
  BY <1>1 DEF At
<1>4. /\ \A k \in 1 .. Len(s) : At("tool.started", s[k]) = {} /\ s[k] <= made
      /\ \A j, k \in 1 .. Len(s) : s[j] = s[k] => j = k
  BY <1>1 DEF RunInv, FreshStarts, Started
<1>5. ASSUME NEW c \in Calls, NEW i \in Starts(c), NEW j \in Starts(c) PROVE i = j
  <2>1. CASE i \in At("tool.started", c) /\ j \in At("tool.started", c)
    <3>1. IsFiniteSet(At("tool.started", c)) /\ Cardinality(At("tool.started", c)) <= 1
      BY RunTypes, AtFinite DEF RunInv, AnnouncedOnce
    <3> QED  BY <2>1, <3>1, OnceIsOne
  <2>2. CASE i \notin At("tool.started", c) /\ j \notin At("tool.started", c)
    <3>1. i - l = j - l
      BY <1>3, <1>4, <2>2
    <3> QED  BY <1>1, <3>1
  <2>3. CASE ~ (i \in At("tool.started", c) <=> j \in At("tool.started", c))
    BY <1>3, <1>4, <2>3
  <2> QED  BY <2>1, <2>2, <2>3
<1>6. AnnouncedOnce'
  <2>1. ASSUME NEW c \in Calls PROVE Cardinality(Starts(c)) <= 1
    <3> HIDE DEF Starts
    <3> QED  BY <1>5, AtMostOne
  <2> QED  BY <2>1 DEF AnnouncedOnce, At
<1>7. ASSUME NEW c \in Calls, NEW i \in Starts(c) PROVE c <= made
  <2>1. CASE i \in At("tool.started", c)
    BY <2>1 DEF RunInv, FreshStarts, Started
  <2>2. CASE i \notin At("tool.started", c)
    <3>1. i - l \in 1 .. Len(s) /\ s[i - l] = c
      BY <1>3, <2>2
    <3> QED  BY <1>4, <3>1
  <2> QED  BY <2>1, <2>2
<1>8. FreshStarts'
  BY <1>1, <1>2, <1>7 DEF FreshStarts, Started
<1> QED  BY <1>6, <1>8

LEMMA FreshNext ==
  ASSUME RunInv, [Next]_vars, TRUE \notin Resends
  PROVE  AnnouncedOnce' /\ FreshStarts'
<1>1. CASE GraphStep
  BY <1>1, FreshGraph
<1>2. CASE ReadUpdate
  BY <1>2, FreshReadUpdate
<1>3. CASE ~ GraphStep /\ ~ ReadUpdate
  <2>1. PICK t \in Seq(Events) :
          log' = log \o t /\ \A k \in 1 .. Len(t) : t[k].ev # "tool.started"
    BY <1>3, RunTypes, OtherLog
  <2>2. /\ AnnouncedOnce' <=> AnnouncedOnce
        /\ \A c : Started(c)' <=> Started(c)
    BY <2>1, RunTypes, SameStarts
  <2>3. chunk' \in {chunk, NoChunk} /\ made' = made /\ (pc' # "ended" => pc # "ended")
    BY <1>3, RunTypes, OtherChunk, LifeStep
  <2> QED  BY <2>2, <2>3, NothingOnItsWay DEF RunInv, FreshStarts
<1> QED  BY <1>1, <1>2, <1>3
LEMMA LogStays ==
  ASSUME TypeInv, [Next]_vars
  PROVE  /\ Len(log) \in Nat /\ Len(log') \in Nat /\ Len(log) <= Len(log')
         /\ \A i \in 1 .. Len(log) : log'[i] = log[i]
<1>1. PICK t \in Seq(Events) : log' = log \o t
  BY LogGrows
<1>2. log \in Seq(Events)
  BY DEF TypeInv, TypeOK
<1> QED  BY <1>1, <1>2, Appended

\* An approval stays the approval of its call.
LEMMA ApprovalsStay ==
  ASSUME RunInv, [Next]_vars
  PROVE  1 .. asks \subseteq 1 .. asks' /\ \A a \in 1 .. asks : about'[a] = about[a]
<1>1. CASE AskApproval
  BY <1>1, AskStep DEF RunInv
<1>2. CASE ~ AskApproval
  BY <1>2, AskedSame
<1> QED  BY <1>1, <1>2

LEMMA RequestsNext ==
  ASSUME RunInv, [Next]_vars
  PROVE  RequestsAreAsked'
<1>1. TypeInv /\ ContractInv
  BY RunTypes DEF RunInv
<1>2. ASSUME NEW i \in 1 .. Len(log)
      PROVE  log'[i] = log[i]
             /\ (log[i].ev = "approval.request" =>
                   log[i].aid \in 1 .. asks' /\ about'[log[i].aid] = log[i].call)
  BY <1>1, LogStays, ApprovalsStay DEF RunInv, RequestsAreAsked
<1>3. ASSUME NEW i \in 1 .. Len(log'), i \notin 1 .. Len(log), log'[i].ev = "approval.request"
      PROVE  log'[i].aid \in 1 .. asks' /\ about'[log'[i].aid] = log'[i].call
  <2>1. ~ ReadUpdate
    BY <1>1, <1>3, UpdateLog
  <2>2. PICK t \in Seq(Events) :
          /\ log' = log \o t
          /\ (AskApproval /\ t = Requested) \/ \A k \in 1 .. Len(t) : t[k].ev # "approval.request"
    BY <1>1, <2>1, OtherLog
  <2>3. log \in Seq(Events)
    BY <1>1 DEF TypeInv, TypeOK
  <2> DEFINE k == i - Len(log)
  <2>4. k \in 1 .. Len(t) /\ log'[i] = t[k]
    BY <1>3, <2>2, <2>3, Appended
  <2>5. AskApproval /\ t = Requested
    BY <1>3, <2>2, <2>4
  <2>6. Len(t) = Len(review) /\ t[k] = Event("approval.request", review[k], asks + k, Card(k))
    BY <1>1, <2>4, <2>5, RequestedType
  <2>7. t[k].aid = asks + k /\ t[k].call = review[k]
    BY <2>6, EventFields
  <2>8. asks + k \in 1 .. asks' /\ about'[asks + k] = review[k]
    BY <1>1, <2>4, <2>5, <2>6, AskStep
  <2> QED  BY <2>4, <2>7, <2>8
<1> QED  BY <1>2, <1>3 DEF RequestsAreAsked

LEMMA OpenNext ==
  ASSUME RunInv, [Next]_vars
  PROVE  OpenIsAwaited'
<1>1. ContractInv /\ 1 .. asks \subseteq Calls /\ result \in [Calls -> Decisions \cup {"none"}]
  BY RunTypes DEF RunInv, TypeInv, TypeOK
<1>2. \A a \in 1 .. asks : result[a] = "none" =>
         pc = "awaiting" /\ \E i \in 1 .. Len(futs) : futs[i] = a
  BY DEF RunInv, OpenIsAwaited
<1>3. CASE AskApproval
  <2>1. \A a \in 1 .. asks : result[a] # "none"
    BY <1>1, <1>2, <1>3, AskStep
  <2>2. \A a \in 1 .. asks' : a \notin 1 .. asks =>
           a - asks \in 1 .. Len(futs') /\ futs'[a - asks] = a
    BY <1>1, <1>3, AskStep
  <2>3. result' = result /\ pc' = "awaiting"
    BY <1>3 DEF AskApproval
  <2> QED  BY <2>1, <2>2, <2>3 DEF OpenIsAwaited
<1>4. CASE Resume
  <2>1. /\ \A i \in 1 .. Len(futs) : result[futs[i]] # "none"
        /\ result' = result /\ asks' = asks
    BY <1>4 DEF Resume, asking, answers
  <2> QED  BY <1>2, <2>1 DEF OpenIsAwaited
<1>5. CASE ~ AskApproval /\ ~ Resume
  <2>1. UNCHANGED <<asks, futs>>
    BY <1>5, AskedSame
  <2>2. \A a \in Calls : result'[a] = "none" => result[a] = "none"
    <3>1. CASE DeliverResult
      BY <1>1, <3>1 DEF DeliverResult
    <3>2. CASE result' = result
      BY <3>2
    <3> QED  BY <1>5, <3>1, <3>2 DEF Next, ClientStep, StartRun, RespondLate, Respond, Cancel,
         OpenStream, TakeEvent, DropStream, GraphStep, DriveStep, PruneDone, PruneRaises,
         ReadCancelled, ReadError, ReadText, ReadUpdate, AutoApprove, PersistDone, ReadEnd, vars,
         answers
  <2>3. pc = "awaiting" => pc' = "awaiting"
    BY <1>5 DEF Next, ClientStep, StartRun, RespondLate, Respond, Cancel, OpenStream, TakeEvent,
       DropStream, DeliverResult, GraphStep, DriveStep, PruneDone, PruneRaises, ReadCancelled,
       ReadError, ReadText, ReadUpdate, AutoApprove, PersistDone, ReadEnd, Reads, vars, driver
  <2> QED  BY <1>1, <1>2, <2>1, <2>2, <2>3 DEF OpenIsAwaited
<1> QED  BY <1>3, <1>4, <1>5

\* A result gets into the log from the chunk that carries it.
LEMMA ResultsLogged ==
  ASSUME TypeInv, [Next]_vars, NEW c, At("tool.completed", c)' # {}
  PROVE  \/ At("tool.completed", c) # {}
         \/ ReadUpdate /\ c \in Members(chunk.completed)
<1>1. PICK i \in 1 .. Len(log') : log'[i].ev = "tool.completed" /\ log'[i].call = c
  BY DEF At
<1>2. CASE i \in 1 .. Len(log)
  BY <1>1, <1>2, LogStays DEF At
<1>3. CASE i \notin 1 .. Len(log) /\ ReadUpdate
  BY <1>1, <1>3, UpdateLog
<1>4. CASE i \notin 1 .. Len(log) /\ ~ ReadUpdate
  <2>1. PICK t \in Seq(Events) :
          log' = log \o t /\ \A k \in 1 .. Len(t) : t[k].ev # "tool.completed"
    BY <1>4, OtherLog
  <2>2. log \in Seq(Events)
    BY DEF TypeInv, TypeOK
  <2> QED  BY <1>1, <1>4, <2>1, <2>2, Appended
<1> QED  BY <1>2, <1>3, <1>4

LEMMA NotDoneNext ==
  ASSUME RunInv, [Next]_vars, OrderInv'
  PROVE  ReviewedAreNotDone'
<1>1. TypeInv /\ ReviewedAreNotDone /\ CallsAreMade /\ made \in Nat /\ made' \in Nat /\ made <= made'
  BY RunTypes, MadeGrows DEF RunInv
<1>2. ASSUME NEW c \in Calls, Done(c)' PROVE c <= made'
  <2>1. CASE At("tool.completed", c)' # {}
    <3>1. c <= made
      BY <1>1, <2>1, ResultsLogged DEF ReviewedAreNotDone, Done
    <3> QED  BY <1>1, <3>1 DEF Calls
  <2>2. CASE c \in returned' \/ c \in Members(chunk'.completed)
    BY <2>2 DEF OrderInv, ResultsAreMade, Members
  <2> QED  BY <1>2, <2>1, <2>2 DEF Done
<1>3. ASSUME NEW c \in batch', graph' \in {"review", "reviewed"} PROVE ~ Done(c)'
  <2>1. ASSUME NEW n \in 1 .. MaxCalls, GraphCalls(n), GraphStep PROVE ~ Done(c)'
    <3>1. /\ UNCHANGED <<log, returned>> /\ chunk'.completed = <<>> /\ batch' = made + 1 .. made + n
          /\ made + n <= MaxCalls
      BY <2>1, NothingOnItsWay DEF GraphCalls, GraphStep
    <3>2. c \in Calls /\ ~ (c <= made)
      BY <1>1, <3>1, BoundsAssumption DEF Calls
    <3>3. ~ Done(c)
      BY <1>1, <3>2 DEF ReviewedAreNotDone
    <3> QED  BY <3>1, <3>3, NothingOnItsWay DEF Done, At
  <2>2. ASSUME ~ (GraphStep /\ \E n \in 1 .. MaxCalls : GraphCalls(n)) PROVE ~ Done(c)'
    <3>1. /\ graph \in {"review", "reviewed"} /\ UNCHANGED <<batch, returned>>
          /\ chunk' = chunk \/ Members(chunk'.completed) = {}
      <4>1. CASE GraphStep
        <5>1. UNCHANGED <<graph, batch, returned>>
          BY <1>3, <2>2, <4>1 DEF GraphStep, ToolRuns, GraphAdvances, GraphText, GraphInterrupts,
             GraphReviews, GraphLaunches, GraphReturns, GraphEnds, GraphRaises, agent
        <5>2. chunk' = chunk \/ \E kind : chunk' = Chunk(kind, <<>>, <<>>)
          BY <1>3, <2>2, <4>1 DEF GraphStep, ToolRuns, GraphAdvances, GraphText, GraphInterrupts,
             GraphReviews, GraphLaunches, GraphReturns, GraphEnds, GraphRaises
        <5> QED  BY <1>3, <5>1, <5>2, NothingOnItsWay
      <4>2. CASE ~ GraphStep
        <5>1. UNCHANGED <<batch, returned>> /\ (graph' = graph \/ AutoApprove \/ Resume)
          BY <1>1, <4>2, LifeStep
        <5>2. AutoApprove \/ Resume => graph = "review"
          BY <1>1 DEF AutoApprove, Resume, Reads, CallsAreMade, TypeInv, AsksBounded
        <5> QED  BY <1>3, <4>2, <5>1, <5>2, OtherChunk, NothingOnItsWay
      <4> QED  BY <4>1, <4>2
    <3>2. ~ Done(c)
      BY <1>1, <1>3, <3>1 DEF ReviewedAreNotDone
    <3>3. At("tool.completed", c)' = {}
      BY <1>1, <3>2, ResultsLogged DEF Done
    <3> QED  BY <3>1, <3>2, <3>3 DEF Done
  <2> QED  BY <2>1, <2>2
<1> QED  BY <1>2, <1>3 DEF ReviewedAreNotDone
LEMMA RunInit == Init => RunInv
<1> SUFFICES ASSUME Init PROVE RunInv
  OBVIOUS
<1>1. /\ Len(log) = 0 /\ chunk = NoChunk /\ Len(NoChunk.started) = 0 /\ asks = 0 /\ pc = "new"
      /\ graph = "model" /\ returned = {} /\ Members(chunk.completed) = {} /\ taken = 0
  BY EmptySeq, NothingOnItsWay DEF Init, GraphInit
<1>2. \A name, c : At(name, c) = {} /\ Cardinality(At(name, c)) = 0
  BY <1>1, FS_EmptySet DEF At
<1>3. ContractInv /\ OneTerminalEvent
  BY <1>1, ContractInit DEF OneTerminalEvent
<1>4. AnnouncedOnce /\ FreshStarts
  BY <1>1, <1>2 DEF AnnouncedOnce, FreshStarts, Started
<1>5. RequestsAreAsked /\ OpenIsAwaited /\ ReviewedAreNotDone
  BY <1>1, <1>2 DEF RequestsAreAsked, OpenIsAwaited, ReviewedAreNotDone, Done
<1> QED  BY <1>1, <1>3, <1>4, <1>5 DEF RunInv

LEMMA RunNext ==
  ASSUME RunInv, [Next]_vars, TRUE \notin Resends
  PROVE  RunInv'
<1>1. TypeInv /\ PairingInv /\ ApprovalInv /\ ContractInv /\ OneTerminalEvent
  BY RunTypes DEF RunInv
<1>2. PairingInv' /\ ApprovalInv' /\ OneTerminalEvent'
  BY <1>1, PairingNext, ApprovalNext, OneTerminalStep
<1>3. ContractInv' /\ OrderInv'
  BY <1>1, <1>2, ContractNext DEF PairingInv
<1>4. taken' <= Len(log')
  <2>1. taken \in Nat /\ taken <= Len(log)
    BY <1>1 DEF RunInv, TypeInv, TypeOK
  <2>2. Len(log) \in Nat /\ Len(log') \in Nat /\ Len(log) <= Len(log')
    BY <1>1, LogStays
  <2>3. taken' = taken \/ (taken < Len(log) /\ taken' = taken + 1)
    BY DEF Next, ClientStep, StartRun, RespondLate, Respond, Cancel, OpenStream, TakeEvent,
       DropStream, DeliverResult, GraphStep, DriveStep, PruneDone, PruneRaises, ReadCancelled,
       ReadError, ReadText, ReadUpdate, AskApproval, AutoApprove, Resume, PersistDone, ReadEnd,
       vars, channel
  <2> QED  BY <2>1, <2>2, <2>3
<1> QED  BY <1>2, <1>3, <1>4, FreshNext, RequestsNext, OpenNext, NotDoneNext DEF RunInv

-----------------------------------------------------------------------------
(* The turn *)

\* The cards are of approvals given out for their calls, and so were the cards that
\* were clicked.
CardsAreRight ==
  /\ \A c \in Calls : cards[c] # 0 => cards[c] \in 1 .. asks /\ about[cards[c]] = c
  /\ \A a \in Calls : clicked[a] # NoCall => a \in 1 .. asks /\ about[a] = clicked[a]

\* As long as auto-approve was never on, every answer comes from a click.
AnswersAreClicked ==
  ~ uiAuto =>
    /\ ~ auto /\ \A r \in sent \cap Creates : ~ r.auto
    /\ \A a \in Calls : said[a] # "none" => clicked[a] # NoCall
    /\ \A r \in sent \cap Answers : clicked[r.aid] # NoCall

\* A turn that goes on keeps its stream, and by that its run, until the run has ended.
StreamIsHeard ==
  Served /\ ~ stopped =>
    /\ es = "closed" => pc = "ended"
    /\ pc \notin {"new", "ended"} => registered

ChatInv ==
  /\ RunInv /\ ChatTypeOK
  /\ CardsAreRight /\ AnswersAreClicked /\ StreamIsHeard
  /\ SettledMeansOver /\ NoHiddenApproval

\* A step of the turn is one of the run, or the run does not notice.
LEMMA RunSteps ==
  ASSUME [ChatNext]_chatVars
  PROVE  [Next]_vars
<1>1. CASE ServerCreates
  <2>1. PICK r \in sent \cap Creates : StartRun(r.auto, r.replace)
    BY <1>1 DEF ServerCreates
  <2>2. r.auto \in BOOLEAN /\ r.replace \in BOOLEAN
    BY DEF Creates
  <2> QED  BY <2>1, <2>2 DEF Next, ClientStep
<1>2. CASE AnswerArrives
  <2>1. PICK r \in sent \cap Answers : \/ Respond(r.aid, r.choice)
                                       \/ RespondLate(r.aid)
                                       \/ UNCHANGED vars
    BY <1>2 DEF AnswerArrives
  <2>2. r.aid \in Calls /\ r.choice \in Choices
    BY PageAssumption DEF Answers
  <2> QED  BY <2>1, <2>2 DEF Next, ClientStep
<1>3. CASE Connect \/ Receive \/ Unheard \/ HangUp \/ StreamError
  BY <1>3, PageAssumption DEF Connect, Receive, Unheard, HangUp, StreamError, Next, ClientStep
<1>4. CASE CancelArrives
  BY <1>4 DEF CancelArrives, Next, ClientStep
<1>5. CASE ServerStep
  BY <1>5 DEF ServerStep, Next
<1>6. CASE \/ RunIdArrives \/ CreateFails \/ RequestLost \/ TurnAutoOn \/ Stop \/ LeaveThread
           \/ \E c \in Calls, choice \in {"approve", "reject"} : Click(c, choice)
           \/ UNCHANGED chatVars
  BY <1>6 DEF RunIdArrives, CreateFails, RequestLost, TurnAutoOn, Stop, LeaveThread, Teardown, Click,
     chatVars
<1> QED  BY <1>1, <1>2, <1>3, <1>4, <1>5, <1>6 DEF ChatNext
LEMMA RequestKinds ==
  /\ \A r \in Creates : r.kind = "create" /\ r.auto \in BOOLEAN /\ r.replace \in BOOLEAN
  /\ \A r \in Answers : r.kind = "respond" /\ r.aid \in Calls /\ r.choice \in {"approve", "reject"}
  /\ \A a \in Calls, choice \in {"approve", "reject"} :
       /\ AnswerOf(a, choice) \in Answers
       /\ AnswerOf(a, choice).aid = a /\ AnswerOf(a, choice).choice = choice
  /\ \A a, choice : AnswerOf(a, choice).kind = "respond"
  /\ Created.kind = "created" /\ CancelRun.kind = "cancel"
BY DEF Creates, Answers, AnswerOf, Created, CancelRun

\* What the turn takes back: nothing.
LEMMA TurnGoesOn ==
  ASSUME ChatInv, [ChatNext]_chatVars
  PROVE  /\ ~ uiAuto' => ~ uiAuto
         /\ ~ stopped' => ~ stopped
         /\ Served' => Served
         /\ Fails => ~ Served'
<1>1. faults \in Nat /\ TypeInv
  BY RunTypes, PageAssumption DEF ChatInv, ChatTypeOK
<1>2. pc = "dead" => pc' = "dead"
  BY <1>1, RunSteps, LifeStep
<1>3. Fails => faults' # 0
  BY <1>1 DEF Fails
<1>4. faults' = faults \/ Fails
  BY DEF ChatNext, ServerCreates, RunIdArrives, CreateFails, Connect, Receive, Unheard, HangUp,
     StreamError, Click, TurnAutoOn, Stop, LeaveThread, Teardown, CancelArrives, AnswerArrives,
     RequestLost, ServerStep, chatVars, client
<1>5. (uiAuto' = uiAuto \/ uiAuto') /\ (stopped' = stopped \/ stopped')
  BY DEF ChatNext, ServerCreates, RunIdArrives, CreateFails, Connect, Receive, Unheard, HangUp,
     StreamError, Click, TurnAutoOn, Stop, LeaveThread, Teardown, CancelArrives, AnswerArrives,
     RequestLost, ServerStep, chatVars, client, Arrives
<1> QED  BY <1>2, <1>3, <1>4, <1>5 DEF Served

\* The event that the page is handed.
LEMMA Received ==
  ASSUME ChatInv, TakeEvent(Page)
  PROVE  LET e == log[taken + 1]
         IN  /\ taken \in Nat /\ taken' = taken + 1 /\ taken + 1 \in 1 .. Len(log)
             /\ e \in Events
             /\ e.ev = "approval.request" =>
                  /\ e.aid \in 1 .. asks /\ e.aid \in Calls /\ about[e.aid] = e.call
                  /\ e.call \in Calls /\ CardKey(e) = e.call
             /\ e.ev = "tool.completed" => At("tool.completed", e.call) # {}
             /\ e.ev \in Closing => pc = "ended"
             /\ registered' = registered \/ pc = "ended"
             /\ UNCHANGED <<pc, auto, cancels, asks, futs, about, pending, result, scheduled, said, log>>
<1> DEFINE i == taken + 1
<1>1. RunInv /\ TypeInv /\ log \in Seq(Events) /\ Len(log) \in Nat /\ 1 .. asks \subseteq Calls
      /\ 1 .. made \subseteq Calls
  <2>1. RunInv
    BY DEF ChatInv
  <2>2. TypeInv /\ log \in Seq(Events) /\ Len(log) \in Nat /\ 1 .. asks \subseteq Calls
    BY <2>1, RunTypes
  <2>3. made \in 0 .. MaxCalls
    BY <2>2 DEF TypeInv, TypeOK, GraphTypeOK
  <2> QED  BY <2>1, <2>2, <2>3, BoundsAssumption DEF Calls
<1>2. /\ taken \in Nat /\ taken' = taken + 1 /\ taken < Len(log)
      /\ UNCHANGED <<pc, auto, cancels, asks, futs, about, pending, result, scheduled, said, log>>
  BY <1>1 DEF TakeEvent, TypeInv, TypeOK, driver, asking, answers
<1>3. i \in 1 .. Len(log)
  BY <1>1, <1>2
<1> HIDE DEF i
<1>4. log[i] \in Events
  BY <1>1, <1>3, ElementOfSeq
<1>5. ASSUME log[i].ev = "approval.request"
      PROVE  /\ log[i].aid \in 1 .. asks /\ log[i].aid \in Calls /\ about[log[i].aid] = log[i].call
             /\ log[i].call \in Calls /\ CardKey(log[i]) = log[i].call
  <2>1. log[i].aid \in 1 .. asks /\ about[log[i].aid] = log[i].call
    BY <1>1, <1>3, <1>5 DEF RunInv, RequestsAreAsked
  <2>2. log[i].call \in 1 .. made
    BY <1>1, <2>1 DEF RunInv, ContractInv, AskedOnce
  <2>3. log[i].card = log[i].call
    BY <1>1, <1>3, <1>5 DEF RunInv, ContractInv, PairingInv, CardIsCallIfAnnouncedOnce, AnnouncedOnce,
       CardIsCall
  <2>4. log[i].card # NoCall
    BY <2>2, <2>3 DEF NoCall
  <2> QED  BY <1>1, <2>1, <2>2, <2>3, <2>4 DEF CardKey
<1>6. log[i].ev = "tool.completed" => At("tool.completed", log[i].call) # {}
  BY <1>3 DEF At
<1>7. log[i].ev \in Closing => pc = "ended"
  BY <1>1, <1>3 DEF RunInv, OneTerminalEvent
<1>8. registered' = registered \/ pc = "ended"
  <2>1. registered' = (registered /\ ~ (log[i].ev = "__end__")) /\ registered \in BOOLEAN
    BY <1>1 DEF TakeEvent, i, TypeInv, TypeOK
  <2>2. log[i].ev = "__end__" => pc = "ended"
    BY <1>7 DEF Closing
  <2> QED  BY <2>1, <2>2
<1> QED  BY <1>2, <1>3, <1>4, <1>5, <1>6, <1>7, <1>8 DEF i

\* What an event does to the page.
LEMMA Handled ==
  ASSUME ChatInv, Receive
  PROVE  LET e == log[taken + 1]
         IN  /\ TakeEvent(Page) /\ es = "open" /\ UNCHANGED <<stopped, uiAuto, clicked, faults>>
             /\ named' \in [Tools -> Calls \cup {NoCall}]
             /\ \/ e.ev # "approval.request" /\ UNCHANGED <<es, settled, cards, sent>>
                \/ pc = "ended" /\ es' = "closed" /\ settled' /\ UNCHANGED <<cards, sent>>
                \/ /\ e.ev = "tool.completed" /\ At("tool.completed", e.call) # {}
                   /\ cards' = [cards EXCEPT ![e.call] = 0]
                   /\ UNCHANGED <<es, settled, sent>>
                \/ /\ e.ev = "approval.request" /\ uiAuto
                   /\ sent' = sent \cup {AnswerOf(e.aid, "approve")}
                   /\ UNCHANGED <<es, settled, cards>>
                \/ /\ e.ev = "approval.request" /\ ~ uiAuto
                   /\ cards' = [cards EXCEPT ![e.call] = e.aid]
                   /\ UNCHANGED <<es, settled, sent>>
<1> DEFINE e == log[taken + 1]
<1>1. /\ e.ev = "approval.request" => CardKey(e) = e.call
      /\ e.ev = "tool.completed" => At("tool.completed", e.call) # {}
      /\ e.ev \in Closing => pc = "ended"
      /\ e \in Events
  BY Received DEF Receive
<1>2. /\ TakeEvent(Page) /\ es = "open" /\ UNCHANGED <<stopped, uiAuto, clicked, faults>>
      /\ StartTool(e) \/ CompleteTool(e) \/ RequestApproval(e) \/ EndTurn(e) \/ OtherEvent(e)
  BY DEF Receive
<1>3. named \in [Tools -> Calls \cup {NoCall}] /\ e.call \in Calls \cup {NoCall}
  BY <1>1 DEF ChatInv, ChatTypeOK, Events
<1> HIDE DEF e
<1>4. named' \in [Tools -> Calls \cup {NoCall}]
  <2>1. named' = named \/ named' = [named EXCEPT ![ToolOf[e.call]] = e.call]
    BY <1>2 DEF StartTool, CompleteTool, RequestApproval, EndTurn, OtherEvent
  <2> QED  BY <1>3, <2>1
<1>5. CASE StartTool(e) \/ OtherEvent(e)
  BY <1>2, <1>4, <1>5 DEF StartTool, OtherEvent, e
<1>6. CASE EndTurn(e)
  BY <1>1, <1>2, <1>4, <1>6 DEF EndTurn
<1>7. CASE CompleteTool(e)
  BY <1>1, <1>2, <1>4, <1>7 DEF CompleteTool, e
<1>8. CASE RequestApproval(e)
  BY <1>1, <1>2, <1>4, <1>8 DEF RequestApproval, e
<1> QED  BY <1>2, <1>5, <1>6, <1>7, <1>8

LEMMA ChatTypeNext ==
  ASSUME ChatInv, [ChatNext]_chatVars, RunInv'
  PROVE  ChatTypeOK'
<1> DEFINE Messages == Creates \cup Answers \cup {Created, CancelRun}
<1>1. TypeOK'
  BY DEF RunInv, ContractInv, PairingInv, OrderInv, TypeInv
<1>2. /\ es \in {"null", "open", "closed"}
      /\ stopped \in BOOLEAN /\ settled \in BOOLEAN /\ uiAuto \in BOOLEAN
      /\ cards \in [Calls -> Calls \cup {0}]
      /\ named \in [Tools -> Calls \cup {NoCall}]
      /\ sent \subseteq Messages
      /\ clicked \in [Calls -> Calls \cup {NoCall}]
      /\ faults \in 0 .. MaxFaults
  BY DEF ChatInv, ChatTypeOK
<1>3. Fails => faults' \in 0 .. MaxFaults
  BY <1>2, PageAssumption DEF Fails
<1>4. /\ NoCards \in [Calls -> Calls \cup {0}]
      /\ [t \in Tools |-> NoCall] \in [Tools -> Calls \cup {NoCall}]
      /\ Created \in Messages /\ CancelRun \in Messages
      /\ \A a \in Calls, choice \in {"approve", "reject"} : AnswerOf(a, choice) \in Messages
  BY RequestKinds DEF NoCards
<1> DEFINE Goal == /\ es' \in {"null", "open", "closed"}
                   /\ stopped' \in BOOLEAN /\ settled' \in BOOLEAN /\ uiAuto' \in BOOLEAN
                   /\ cards' \in [Calls -> Calls \cup {0}]
                   /\ named' \in [Tools -> Calls \cup {NoCall}]
                   /\ sent' \subseteq Messages
                   /\ clicked' \in [Calls -> Calls \cup {NoCall}]
                   /\ faults' \in 0 .. MaxFaults
<1> HIDE DEF Messages
<1>5. ASSUME ServerCreates \/ RunIdArrives \/ CreateFails PROVE Goal
  BY <1>2, <1>3, <1>4, <1>5 DEF ServerCreates, RunIdArrives, CreateFails
<1>6. ASSUME Connect \/ Unheard \/ HangUp \/ StreamError \/ ServerStep \/ UNCHANGED chatVars PROVE Goal
  BY <1>2, <1>3, <1>6 DEF Connect, Unheard, HangUp, StreamError, ServerStep, client, chatVars
<1>7. ASSUME Stop \/ LeaveThread PROVE Goal
  BY <1>2, <1>4, <1>7 DEF Stop, LeaveThread, Teardown
<1>8. ASSUME CancelArrives \/ AnswerArrives \/ RequestLost PROVE Goal
  BY <1>2, <1>3, <1>8 DEF CancelArrives, AnswerArrives, RequestLost, Arrives
<1>9. ASSUME NEW c \in Calls, NEW choice \in {"approve", "reject"}, Click(c, choice) PROVE Goal
  <2>1. cards[c] \in Calls
    BY <1>2, <1>9 DEF Click
  <2>2. AnswerOf(cards[c], choice) \in Messages
    BY <1>4, <2>1
  <2> QED  BY <1>2, <1>9, <2>1, <2>2 DEF Click
<1>10. ASSUME TurnAutoOn PROVE Goal
  <2>1. AnsweredByAuto \subseteq Messages
    BY <1>2, <1>4 DEF AnsweredByAuto, CardsOf
  <2> QED  BY <1>2, <1>4, <1>10, <2>1 DEF TurnAutoOn
<1>11. ASSUME Receive PROVE Goal
  <2> DEFINE e == log[taken + 1]
  <2>1. e \in Events /\ (e.ev = "approval.request" => e.aid \in Calls)
    BY <1>11, Received DEF Receive
  <2>2. e.ev = "approval.request" => AnswerOf(e.aid, "approve") \in Messages
    BY <1>4, <2>1
  <2>3. e.aid \in Calls \cup {0} /\ e.call \in Calls \cup {NoCall}
    BY <2>1 DEF Events
  <2>4. /\ UNCHANGED <<stopped, uiAuto, clicked, faults>>
        /\ named' \in [Tools -> Calls \cup {NoCall}]
        /\ es' \in {es, "closed"} /\ settled' \in {settled, TRUE}
        /\ cards' = cards \/ (\E a \in Calls \cup {0} : cards' = [cards EXCEPT ![e.call] = a])
        /\ sent' = sent \/ (e.ev = "approval.request" /\ sent' = sent \cup {AnswerOf(e.aid, "approve")})
    BY <1>11, <2>3, Handled
  <2> HIDE DEF e
  <2> QED  BY <1>2, <2>2, <2>4
<1> HIDE DEF Goal
<1>12. Goal
  BY <1>5, <1>6, <1>7, <1>8, <1>9, <1>10, <1>11 DEF ChatNext
<1> QED  BY <1>1, <1>12 DEF Goal, ChatTypeOK, Messages
LEMMA CardsNext ==
  ASSUME ChatInv, [ChatNext]_chatVars
  PROVE  CardsAreRight'
<1>1. /\ 1 .. asks \subseteq 1 .. asks' /\ \A a \in 1 .. asks : about'[a] = about[a]
      /\ 1 .. asks \subseteq Calls
  BY RunSteps, ApprovalsStay, RunTypes DEF ChatInv
<1>2. /\ cards \in [Calls -> Calls \cup {0}] /\ clicked \in [Calls -> Calls \cup {NoCall}]
      /\ \A c \in Calls : cards[c] # 0 => cards[c] \in 1 .. asks /\ about[cards[c]] = c
      /\ \A a \in Calls : clicked[a] # NoCall => a \in 1 .. asks /\ about[a] = clicked[a]
  BY DEF ChatInv, ChatTypeOK, CardsAreRight
<1>3. ASSUME \A c \in Calls : cards'[c] # 0 => cards'[c] \in 1 .. asks /\ about[cards'[c]] = c,
             \A a \in Calls : clicked'[a] # NoCall => a \in 1 .. asks /\ about[a] = clicked'[a]
      PROVE  CardsAreRight'
  BY <1>1, <1>3 DEF CardsAreRight
<1>4. CASE UNCHANGED <<cards, clicked>>
  BY <1>2, <1>3, <1>4
<1>5. ASSUME cards' = NoCards, clicked' = clicked PROVE CardsAreRight'
  BY <1>2, <1>3, <1>5 DEF NoCards
<1>6. ASSUME NEW c \in Calls, NEW choice \in {"approve", "reject"}, Click(c, choice)
      PROVE  CardsAreRight'
  <2>1. /\ cards' = [cards EXCEPT ![c] = 0] /\ clicked' = [clicked EXCEPT ![cards[c]] = c]
        /\ cards[c] # 0
    BY <1>6 DEF Click
  <2> QED  BY <1>2, <1>3, <2>1
<1>7. CASE Receive
  <2> DEFINE e == log[taken + 1]
  <2>1. e.ev = "approval.request" =>
           e.aid \in 1 .. asks /\ about[e.aid] = e.call /\ e.call \in Calls
    BY <1>7, Received DEF Receive
  <2>2. /\ clicked' = clicked
        /\ \/ cards' = cards
           \/ cards' = [cards EXCEPT ![e.call] = 0]
           \/ e.ev = "approval.request" /\ cards' = [cards EXCEPT ![e.call] = e.aid]
    BY <1>7, Handled
  <2> HIDE DEF e
  <2> QED  BY <1>2, <1>3, <2>1, <2>2
<1>8. UNCHANGED <<cards, clicked>> \/ (cards' = NoCards /\ clicked' = clicked) \/ Receive
      \/ \E c \in Calls, choice \in {"approve", "reject"} : Click(c, choice)
  BY DEF ChatNext, ServerCreates, RunIdArrives, CreateFails, Connect, Unheard, HangUp,
     StreamError, TurnAutoOn, Stop, LeaveThread, Teardown, CancelArrives, AnswerArrives,
     RequestLost, ServerStep, chatVars, client, Arrives
<1> QED  BY <1>4, <1>5, <1>6, <1>7, <1>8

LEMMA AnswersClickedNext ==
  ASSUME ChatInv, [ChatNext]_chatVars
  PROVE  AnswersAreClicked'
<1> SUFFICES ASSUME ~ uiAuto'
             PROVE  /\ ~ auto' /\ \A r \in sent' \cap Creates : ~ r.auto
                    /\ \A a \in Calls : said'[a] # "none" => clicked'[a] # NoCall
                    /\ \A r \in sent' \cap Answers : clicked'[r.aid] # NoCall
  BY DEF AnswersAreClicked
<1>1. /\ ~ uiAuto /\ ~ auto /\ \A r \in sent \cap Creates : ~ r.auto
      /\ \A a \in Calls : said[a] # "none" => clicked[a] # NoCall
      /\ \A r \in sent \cap Answers : clicked[r.aid] # NoCall
  BY TurnGoesOn DEF ChatInv, AnswersAreClicked
<1>2. /\ cards \in [Calls -> Calls \cup {0}] /\ clicked \in [Calls -> Calls \cup {NoCall}]
      /\ said \in [Calls -> Decisions \cup {"none"}]
  BY RunTypes DEF ChatInv, ChatTypeOK, TypeInv, TypeOK
<1>3. /\ {Created, CancelRun} \cap (Creates \cup Answers) = {} /\ Creates \cap Answers = {}
  BY RequestKinds
<1>4. CASE UNCHANGED <<auto, said, clicked>> /\ sent' \subseteq sent \cup {Created, CancelRun}
  BY <1>1, <1>3, <1>4
<1>5. CASE ServerCreates
  <2>1. PICK r \in sent \cap Creates :
          StartRun(r.auto, r.replace) /\ sent' = (sent \ {r}) \cup {Created}
    BY <1>5 DEF ServerCreates
  <2>2. auto' = r.auto /\ UNCHANGED <<said, clicked>>
    BY <1>5, <2>1 DEF ServerCreates, StartRun, answers
  <2> QED  BY <1>1, <1>3, <2>1, <2>2
<1>6. ASSUME NEW c \in Calls, NEW choice \in {"approve", "reject"}, Click(c, choice)
      PROVE  /\ ~ auto' /\ \A r \in sent' \cap Creates : ~ r.auto
             /\ \A a \in Calls : said'[a] # "none" => clicked'[a] # NoCall
             /\ \A r \in sent' \cap Answers : clicked'[r.aid] # NoCall
  <2> DEFINE b == AnswerOf(cards[c], choice)
  <2>1. /\ sent' = sent \cup {b} /\ clicked' = [clicked EXCEPT ![cards[c]] = c]
        /\ cards[c] \in Calls /\ UNCHANGED <<auto, said>> /\ c # NoCall
    BY <1>2, <1>6 DEF Click, vars, driver, answers, Calls, NoCall
  <2>2. b \in Answers /\ b.aid = cards[c]
    BY <2>1, RequestKinds
  <2> HIDE DEF b
  <2>3. \A a \in Calls : clicked[a] # NoCall \/ a = cards[c] => clicked'[a] # NoCall
    BY <1>2, <2>1
  <2>4. \A r \in Answers : r.aid \in Calls
    BY RequestKinds
  <2> QED  BY <1>1, <1>3, <2>1, <2>2, <2>3, <2>4
<1>7. CASE AnswerArrives
  <2>1. PICK r \in sent \cap Answers : /\ sent' = sent \ {r} /\ clicked' = clicked
                                       /\ \/ Respond(r.aid, r.choice)
                                          \/ RespondLate(r.aid)
                                          \/ UNCHANGED vars
    BY <1>7 DEF AnswerArrives, Arrives
  <2>2. auto' = auto /\ (said' = said \/ \E d : said' = [said EXCEPT ![r.aid] = d])
    BY <2>1 DEF Respond, RespondLate, vars, driver, answers
  <2> QED  BY <1>1, <1>2, <2>1, <2>2
<1>8. CASE Receive
  BY <1>1, <1>4, <1>8, Handled, Received
<1>9. CASE ServerStep
  <2>1. UNCHANGED <<auto, said>>
    BY <1>9 DEF ServerStep, DeliverResult, GraphStep, DriveStep, PruneDone, PruneRaises,
       ReadCancelled, ReadError, ReadText, ReadUpdate, AskApproval, AutoApprove, Resume,
       PersistDone, ReadEnd, driver, answers
  <2> QED  BY <1>4, <1>9, <2>1 DEF ServerStep, client
<1>10. CASE RunIdArrives \/ CreateFails \/ Stop \/ LeaveThread \/ UNCHANGED chatVars
  BY <1>4, <1>10 DEF RunIdArrives, CreateFails, Stop, LeaveThread, Teardown, chatVars, client, vars,
     driver, answers
<1>11. CASE Connect \/ Unheard \/ HangUp \/ StreamError
  BY <1>4, <1>11 DEF Connect, Unheard, HangUp, StreamError, OpenStream, TakeEvent, DropStream,
     client, driver, answers
<1>12. CASE CancelArrives \/ RequestLost
  BY <1>4, <1>12 DEF CancelArrives, RequestLost, Arrives, Cancel, vars, driver, answers
<1>13. ~ TurnAutoOn
  BY DEF TurnAutoOn
<1> QED  BY <1>5, <1>6, <1>7, <1>8, <1>9, <1>10, <1>11, <1>12, <1>13 DEF ChatNext
\* The run's place does not move in the steps of its page, but for its start.
LEMMA PageLeavesRun ==
  ASSUME [ChatNext]_chatVars, ~ ServerStep, ~ ServerCreates
  PROVE  UNCHANGED <<pc, log, asks, futs, about, result>>
         /\ (pending' = pending \/ AnswerArrives)
BY DEF ChatNext, RunIdArrives, CreateFails, Connect, Receive, Unheard, HangUp, StreamError, Click,
   TurnAutoOn, Stop, LeaveThread, Teardown, CancelArrives, AnswerArrives, RequestLost, OpenStream,
   TakeEvent, DropStream, Cancel, Respond, RespondLate, chatVars, vars, driver, asking, answers

LEMMA StreamNext ==
  ASSUME ChatInv, [ChatNext]_chatVars
  PROVE  StreamIsHeard'
<1> SUFFICES ASSUME Served', ~ stopped'
             PROVE  /\ es' = "closed" => pc' = "ended"
                    /\ pc' \notin {"new", "ended"} => registered'
  BY DEF StreamIsHeard
<1>1. /\ ~ stopped /\ ~ Fails /\ TypeInv /\ [Next]_vars
      /\ es = "closed" => pc = "ended"
      /\ pc \notin {"new", "ended"} => registered
  BY TurnGoesOn, RunTypes, RunSteps DEF ChatInv, StreamIsHeard
<1>2. pc = "ended" => pc' = "ended"
  BY <1>1, LifeStep
<1>3. CASE UNCHANGED <<pc, es, registered>>
  BY <1>1, <1>3
<1>4. CASE ServerCreates
  <2>1. \E r : StartRun(r.auto, r.replace)
    BY <1>4 DEF ServerCreates
  <2>2. pc = "new" /\ registered' /\ es' = es
    BY <1>4, <2>1 DEF ServerCreates, StartRun
  <2> QED  BY <1>1, <2>2
<1>5. CASE ServerStep
  <2>1. UNCHANGED <<es, registered>> /\ (pc' = pc \/ pc # "new")
    BY <1>5 DEF ServerStep, DeliverResult, GraphStep, DriveStep, PruneDone, PruneRaises,
       ReadCancelled, ReadError, ReadText, ReadUpdate, AskApproval, AutoApprove, Resume,
       PersistDone, ReadEnd, Reads, client, driver, channel
  <2> QED  BY <1>1, <1>2, <2>1
<1>6. CASE Receive
  <2>1. /\ pc' = pc /\ (registered' = registered \/ pc = "ended")
        /\ es' = es \/ pc = "ended"
    BY <1>6, Handled, Received DEF Receive
  <2> QED  BY <1>1, <2>1
<1>7. CASE HangUp \/ Unheard
  <2>1. es = "closed" /\ pc' = pc
    BY <1>7 DEF HangUp, Unheard, DropStream, TakeEvent, driver
  <2> QED  BY <1>1, <2>1
<1>8. CASE RunIdArrives \/ Connect \/ CancelArrives \/ AnswerArrives \/ UNCHANGED chatVars
  <2>1. UNCHANGED <<pc, registered>> /\ (es' = es \/ es' = "open")
    BY <1>8 DEF RunIdArrives, Connect, CancelArrives, AnswerArrives, OpenStream, Cancel,
       Respond, RespondLate, Arrives, chatVars, client, vars, driver, channel
  <2> QED  BY <1>1, <2>1
<1>9. CASE \E c \in Calls, choice \in {"approve", "reject"} : Click(c, choice)
  BY <1>3, <1>9 DEF Click, vars, driver, channel
<1>10. CASE TurnAutoOn
  BY <1>3, <1>10 DEF TurnAutoOn, vars, driver, channel
<1>11. ~ (CreateFails \/ StreamError \/ RequestLost \/ Stop \/ LeaveThread)
  BY <1>1 DEF CreateFails, StreamError, RequestLost, Stop, LeaveThread, Teardown
<1> QED  BY <1>4, <1>5, <1>6, <1>7, <1>8, <1>9, <1>10, <1>11 DEF ChatNext

LEMMA SettledNext ==
  ASSUME ChatInv, [ChatNext]_chatVars
  PROVE  SettledMeansOver'
<1> SUFFICES ASSUME Served', ~ stopped', settled'
             PROVE  pc' = "ended"
  BY DEF SettledMeansOver
<1>1. /\ ~ stopped /\ ~ Fails /\ TypeInv /\ [Next]_vars
      /\ settled => pc = "ended"
  BY TurnGoesOn, RunTypes, RunSteps DEF ChatInv, SettledMeansOver
<1>2. pc = "ended" => pc' = "ended"
  BY <1>1, LifeStep
<1>3. CASE UNCHANGED settled
  BY <1>1, <1>2, <1>3
<1>4. CASE Receive
  BY <1>1, <1>2, <1>4, Handled
<1>5. UNCHANGED settled \/ Receive
  BY <1>1 DEF ChatNext, ServerCreates, RunIdArrives, CreateFails, Connect, Unheard, HangUp,
     StreamError, Click, TurnAutoOn, Stop, LeaveThread, Teardown, CancelArrives, AnswerArrives,
     RequestLost, ServerStep, chatVars, client, Arrives
<1> QED  BY <1>3, <1>4, <1>5

\* What NoHiddenApproval asks of an approval.
Offered(a, held, net) ==
  \/ \E c \in Calls : held[c] = a
  \/ \E choice \in {"approve", "reject"} : AnswerOf(a, choice) \in net

\* Every approval handed to a live turn that nothing has answered is offered.
LEMMA OpenIsOffered ==
  ASSUME ChatInv, Served, ~ stopped, NEW i \in 1 .. taken, log[i].ev = "approval.request",
         log[i].aid \in pending, result[log[i].aid] = "none"
  PROVE  pc = "awaiting" /\ Offered(log[i].aid, cards, sent)
<1>1. i \in 1 .. Len(log)
  <2>1. taken \in Nat /\ Len(log) \in Nat /\ taken <= Len(log)
    BY RunTypes DEF ChatInv, RunInv, TypeInv, TypeOK
  <2> QED  BY <2>1
<1>2. log[i].aid \in 1 .. asks
  BY <1>1 DEF ChatInv, RunInv, RequestsAreAsked
<1>3. pc = "awaiting"
  BY <1>2 DEF ChatInv, RunInv, OpenIsAwaited
<1> QED  BY <1>3 DEF ChatInv, NoHiddenApproval, Offered

\* The call of an approval that nothing has answered is under review: it has no result.
LEMMA OpenIsNotDone ==
  ASSUME ChatInv, NEW a \in 1 .. asks, result[a] = "none"
  PROVE  At("tool.completed", about[a]) = {}
<1>1. PICK j \in 1 .. Len(futs) : futs[j] = a
  BY DEF ChatInv, RunInv, OpenIsAwaited
<1>2. pc = "awaiting" /\ graph = "review"
  BY RunTypes DEF ChatInv, RunInv, OpenIsAwaited, CallsAreMade
<1>3. Len(futs) = Len(review) /\ about[a] = review[j]
  BY <1>1, <1>2, RunTypes DEF ChatInv, ApprovalInv, FutsAreReview
<1>4. about[a] \in batch
  BY <1>1, <1>3, UnderReview, RunTypes DEF ChatInv
<1> QED  BY <1>2, <1>4 DEF ChatInv, RunInv, ReviewedAreNotDone, Done
\* An approval that nothing has answered yet was not answered before.
LEMMA OpenBefore ==
  ASSUME RunInv, [Next]_vars, NEW a \in 1 .. asks, a \in pending', result'[a] = "none"
  PROVE  a \in pending /\ result[a] = "none"
<1>1. /\ a \in Calls /\ asks \in Nat /\ result \in [Calls -> Decisions \cup {"none"}]
  BY RunTypes DEF TypeInv, TypeOK
<1>2. CASE AskApproval
  <2>1. pending' = pending \cup Futures(Len(review)) /\ result' = result
    BY <1>2 DEF AskApproval
  <2>2. Len(review) \in Nat
    BY UnderReview, RunTypes
  <2>3. a \notin Futures(Len(review))
    BY <1>1, <2>2 DEF Futures
  <2> QED  BY <2>1, <2>3
<1>3. CASE DeliverResult
  BY <1>1, <1>3 DEF DeliverResult
<1>4. CASE ~ AskApproval /\ ~ DeliverResult
  BY <1>4 DEF Next, ClientStep, StartRun, RespondLate, Respond, Cancel, OpenStream, TakeEvent,
     DropStream, GraphStep, DriveStep, PruneDone, PruneRaises, ReadCancelled, ReadError, ReadText,
     ReadUpdate, AutoApprove, Resume, PersistDone, ReadEnd, vars, answers
<1> QED  BY <1>2, <1>3, <1>4

\* What is offered stays offered until it is answered.
LEMMA StaysOffered ==
  ASSUME ChatInv, [ChatNext]_chatVars, Served', ~ stopped', pc = "awaiting",
         NEW a \in 1 .. asks, a \in pending', result[a] = "none", Offered(a, cards, sent)
  PROVE  Offered(a, cards', sent')
<1>1. /\ ~ stopped /\ Served /\ ~ Fails /\ registered /\ es # "closed"
  BY TurnGoesOn DEF ChatInv, StreamIsHeard
<1>2. /\ cards \in [Calls -> Calls \cup {0}] /\ a # 0
      /\ \A c \in Calls : cards[c] # 0 => cards[c] \in 1 .. asks /\ about[cards[c]] = c
  BY RunTypes DEF ChatInv, ChatTypeOK, CardsAreRight
<1>3. CASE cards' = cards /\ \A choice : AnswerOf(a, choice) \in sent => AnswerOf(a, choice) \in sent'
  BY <1>3 DEF Offered
<1>4. ASSUME NEW c \in Calls, NEW choice \in {"approve", "reject"}, Click(c, choice)
      PROVE  Offered(a, cards', sent')
  <2>1. /\ sent' = sent \cup {AnswerOf(cards[c], choice)} /\ cards' = [cards EXCEPT ![c] = 0]
    BY <1>4 DEF Click
  <2>2. CASE cards[c] = a
    BY <2>1, <2>2 DEF Offered
  <2>3. CASE cards[c] # a
    <3>1. \A d \in Calls : cards[d] = a => cards'[d] = a
      BY <1>2, <2>1, <2>3
    <3> QED  BY <2>1, <3>1 DEF Offered
  <2> QED  BY <2>2, <2>3
<1>5. CASE TurnAutoOn
  <2>1. ASSUME NEW c \in Calls, cards[c] = a PROVE AnswerOf(a, "approve") \in sent'
    <3>1. c \in CardsOf(cards)
      BY <1>2, <2>1 DEF CardsOf
    <3> QED  BY <1>5, <2>1, <3>1 DEF TurnAutoOn, AnsweredByAuto
  <2> QED  BY <1>5, <2>1 DEF Offered, TurnAutoOn
<1>6. CASE Receive
  <2> DEFINE e == log[taken + 1]
  <2>1. /\ e.ev = "approval.request" => e.aid \in 1 .. asks /\ about[e.aid] = e.call
        /\ \/ UNCHANGED <<cards, sent>>
           \/ /\ e.ev = "tool.completed" /\ At("tool.completed", e.call) # {}
              /\ cards' = [cards EXCEPT ![e.call] = 0] /\ sent' = sent
           \/ sent' = sent \cup {AnswerOf(e.aid, "approve")} /\ cards' = cards
           \/ /\ e.ev = "approval.request"
              /\ cards' = [cards EXCEPT ![e.call] = e.aid] /\ sent' = sent
    BY <1>6, Handled, Received DEF Receive
  <2> HIDE DEF e
  <2>2. /\ At("tool.completed", about[a]) = {}
        /\ \A b \in 1 .. asks : about[a] = about[b] => a = b
    BY OpenIsNotDone DEF ChatInv, RunInv, ContractInv, AskedOnce
  <2>3. ASSUME NEW c \in Calls, cards[c] = a PROVE cards'[c] = a
    <3>1. about[a] = c
      BY <1>2, <2>3
    <3> QED  BY <1>2, <2>1, <2>2, <2>3, <3>1
  <2>4. sent \subseteq sent'
    BY <2>1
  <2> QED  BY <2>3, <2>4 DEF Offered
<1>7. CASE AnswerArrives
  <2>1. PICK r \in sent \cap Answers : /\ sent' = sent \ {r} /\ cards' = cards
                                       /\ \/ Respond(r.aid, r.choice)
                                          \/ RespondLate(r.aid)
                                          \/ ~ (registered /\ r.aid \in pending) /\ UNCHANGED vars
    BY <1>7 DEF AnswerArrives, Arrives
  <2>2. r.aid # a
    BY <1>1, <2>1 DEF Respond, RespondLate, vars, answers
  <2>3. \A choice : AnswerOf(a, choice) # r
    BY <2>2 DEF AnswerOf
  <2> QED  BY <1>3, <2>1, <2>3
<1>8. CASE RunIdArrives \/ CancelArrives
  <2>1. /\ cards' = cards
        /\ \A r \in sent : r = Created \/ r = CancelRun \/ r \in sent'
    BY <1>8 DEF RunIdArrives, CancelArrives, Arrives
  <2>2. \A choice : AnswerOf(a, choice) # Created /\ AnswerOf(a, choice) # CancelRun
    BY RequestKinds
  <2> QED  BY <1>3, <2>1, <2>2
<1>9. CASE Connect \/ ServerStep \/ UNCHANGED chatVars
  BY <1>3, <1>9 DEF Connect, ServerStep, chatVars, client
<1>10. ~ (ServerCreates \/ Unheard \/ HangUp)
  BY <1>1 DEF ServerCreates, StartRun, Unheard, HangUp
<1>11. ~ (CreateFails \/ StreamError \/ RequestLost \/ Stop \/ LeaveThread)
  BY <1>1 DEF CreateFails, StreamError, RequestLost, Stop, LeaveThread, Teardown
<1> QED  BY <1>4, <1>5, <1>6, <1>7, <1>8, <1>9, <1>10, <1>11 DEF ChatNext

LEMMA HiddenNext ==
  ASSUME ChatInv, [ChatNext]_chatVars
  PROVE  NoHiddenApproval'
<1> SUFFICES ASSUME Served', ~ stopped', pc' = "awaiting", NEW i \in 1 .. taken',
                    log'[i].ev = "approval.request", log'[i].aid \in pending',
                    result'[log'[i].aid] = "none"
             PROVE  Offered(log'[i].aid, cards', sent')
  BY DEF NoHiddenApproval, Offered
<1>1. /\ RunInv /\ TypeInv /\ [Next]_vars /\ taken \in Nat /\ Len(log) \in Nat /\ taken <= Len(log)
      /\ Served /\ ~ stopped
  BY RunTypes, RunSteps, TurnGoesOn DEF ChatInv, RunInv, TypeInv, TypeOK
<1>2. CASE i \in 1 .. taken
  <2> DEFINE a == log[i].aid
  <2>1. i \in 1 .. Len(log) /\ log'[i] = log[i]
    BY <1>1, <1>2, LogStays
  <2>2. a \in 1 .. asks
    BY <1>1, <2>1 DEF RunInv, RequestsAreAsked
  <2>3. a \in pending /\ result[a] = "none"
    BY <1>1, <2>1, <2>2, OpenBefore
  <2>4. pc = "awaiting" /\ Offered(a, cards, sent)
    BY <1>1, <1>2, <2>1, <2>3, OpenIsOffered
  <2>5. Offered(a, cards', sent')
    <3>1. a \in pending'
      BY <2>1
    <3> QED  BY <2>2, <2>3, <2>4, <3>1, StaysOffered
  <2> QED  BY <2>1, <2>5
<1>3. CASE i \notin 1 .. taken
  <2>1. Receive
    <3>1. taken' # taken
      BY <1>3
    <3>2. Receive \/ Unheard
      BY <3>1 DEF ChatNext, ServerCreates, RunIdArrives, CreateFails, Connect, HangUp, StreamError,
         Click, TurnAutoOn, Stop, LeaveThread, Teardown, CancelArrives, AnswerArrives, RequestLost,
         ServerStep, DeliverResult, GraphStep, DriveStep, PruneDone, PruneRaises, ReadCancelled,
         ReadError, ReadText, ReadUpdate, AskApproval, AutoApprove, Resume, PersistDone, ReadEnd,
         StartRun, OpenStream, DropStream, Cancel, Respond, RespondLate, chatVars, vars, channel
    <3>3. Unheard => pc' = pc /\ pc = "ended"
      BY <1>1 DEF Unheard, TakeEvent, driver, ChatInv, StreamIsHeard
    <3> QED  BY <3>2, <3>3
  <2> DEFINE e == log[taken + 1]
  <2>2. /\ e.ev = "approval.request" => e.call \in Calls /\ e.aid \in Calls
        /\ pc' = pc /\ taken' = taken + 1 /\ log' = log
    BY <2>1, Received DEF Receive
  <2>3. log'[i] = e
    BY <1>1, <1>3, <2>2
  <2>4. /\ \/ e.ev = "approval.request" => AnswerOf(e.aid, "approve") \in sent'
           \/ cards' = [cards EXCEPT ![e.call] = e.aid]
        /\ cards \in [Calls -> Calls \cup {0}]
    <3>1. e.ev = "approval.request" /\ pc # "ended"
      BY <2>2, <2>3
    <3> QED  BY <2>1, <3>1, Handled DEF ChatInv, ChatTypeOK
  <2> HIDE DEF e
  <2> QED  BY <2>2, <2>3, <2>4 DEF Offered
<1> QED  BY <1>2, <1>3
LEMMA ChatInitial == ChatInit => ChatInv
<1> SUFFICES ASSUME ChatInit PROVE ChatInv
  OBVIOUS
<1>1. RunInv /\ pc = "new" /\ ~ auto /\ \A a \in Calls : said[a] = "none"
  BY RunInit DEF ChatInit, Init
<1>2. /\ es = "null" /\ stopped = FALSE /\ settled = FALSE /\ uiAuto \in BOOLEAN /\ faults = 0
      /\ cards = NoCards /\ named = [t \in Tools |-> NoCall] /\ clicked = [a \in Calls |-> NoCall]
  BY DEF ChatInit
<1>3. PICK r \in Creates : sent = {r} /\ r.auto = uiAuto
  <2>1. PICK replace \in BOOLEAN : sent = {[kind |-> "create", auto |-> uiAuto, replace |-> replace]}
    BY DEF ChatInit
  <2> DEFINE r == [kind |-> "create", auto |-> uiAuto, replace |-> replace]
  <2>2. r \in Creates /\ r.auto = uiAuto
    BY <1>2 DEF Creates
  <2>3. sent = {r}
    BY <2>1
  <2> HIDE DEF r
  <2> QED  BY <2>2, <2>3
<1>4. ChatTypeOK
  <2>1. TypeOK
    BY <1>1, RunTypes DEF TypeInv
  <2>2. cards \in [Calls -> Calls \cup {0}] /\ named \in [Tools -> Calls \cup {NoCall}]
        /\ clicked \in [Calls -> Calls \cup {NoCall}]
    BY <1>2 DEF NoCards
  <2>3. sent \subseteq Creates \cup Answers \cup {Created, CancelRun}
    BY <1>3
  <2>4. faults \in 0 .. MaxFaults
    BY <1>2, PageAssumption
  <2> QED  BY <1>2, <2>1, <2>2, <2>3, <2>4 DEF ChatTypeOK
<1>5. CardsAreRight
  BY <1>2 DEF CardsAreRight, NoCards
<1>6. AnswersAreClicked
  <2>1. sent \cap Answers = {}
    BY <1>3, RequestKinds
  <2> QED  BY <1>1, <1>3, <2>1 DEF AnswersAreClicked
<1>7. StreamIsHeard /\ SettledMeansOver /\ NoHiddenApproval
  BY <1>1, <1>2 DEF StreamIsHeard, SettledMeansOver, NoHiddenApproval
<1> QED  BY <1>1, <1>4, <1>5, <1>6, <1>7 DEF ChatInv

LEMMA ChatStep ==
  ASSUME ChatInv, [ChatNext]_chatVars, TRUE \notin Resends
  PROVE  ChatInv'
<1>1. RunInv'
  BY RunSteps, RunNext DEF ChatInv
<1> QED  BY <1>1, ChatTypeNext, CardsNext, AnswersClickedNext, StreamNext, SettledNext, HiddenNext
         DEF ChatInv

LEMMA ChatInvariant ==
  ASSUME TRUE \notin Resends
  PROVE  ChatSpec => []ChatInv
<1>1. ChatInv /\ [ChatNext]_chatVars => ChatInv'
  BY ChatStep
<1> QED  BY <1>1, ChatInitial, PTL DEF ChatSpec

\* An approval handed to a live turn that nobody has answered is on a card, or its
\* answer is under way: for any number of calls and of messages, whatever the user does
\* (requestApproval, completeTool), as long as the graph shows each call once.
THEOREM NothingHidden ==
  ASSUME TRUE \notin Resends
  PROVE  ChatSpec => []NoHiddenApproval
<1>1. ChatInv => NoHiddenApproval
  BY DEF ChatInv
<1> QED  BY <1>1, ChatInvariant, PTL

\* Without auto-approve, a gated call that ran was approved on its own card, through
\* any failures and a Stop at any time; and a turn shown as over is over (respond,
\* teardownRun, finish).
THEOREM CardsTellTheRun ==
  ASSUME TRUE \notin Resends
  PROVE  ChatSpec => []PageTracksRun
<1>1. ASSUME ChatInv, ~ uiAuto, NEW c \in executed, Gated(c)
      PROVE  \E a \in Calls : about[a] = c /\ said[a] = "approve" /\ clicked[a] = c
  <2>1. ~ auto /\ \A a \in Calls : said[a] # "none" => clicked[a] # NoCall
    BY <1>1 DEF ChatInv, AnswersAreClicked
  <2>2. PICK a \in Calls : about[a] = c /\ said[a] = "approve"
    BY <1>1, <2>1, RunTypes DEF ChatInv, ApprovalInv, GraphIsApproved, Approved
  <2>3. clicked[a] # NoCall
    BY <2>1, <2>2
  <2>4. about[a] = clicked[a]
    BY <1>1, <2>3 DEF ChatInv, CardsAreRight
  <2> QED  BY <2>2, <2>4
<1>2. ChatInv => PageTracksRun
  BY <1>1 DEF PageTracksRun, ApprovedOnItsCard, ChatInv
<1> QED  BY <1>2, ChatInvariant, PTL
=============================================================================
