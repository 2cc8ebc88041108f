----------------------------- MODULE AgentGraph -----------------------------
(***************************************************************************)
(* The compiled agent graph of one run, as _stream_segment reads it        *)
(* (backend/app/agent/runs.py:172-249).  The graph is library code; this   *)
(* module states what the driver may see of it: text, messages with tool   *)
(* calls, an interrupt listing the gated calls in tool_calls order, tool   *)
(* results, the end of the stream, an exception.                           *)
(*                                                                         *)
(* astream is a generator: the graph computes while its reader awaits the  *)
(* next chunk, so at most one chunk is on its way, and the tools of a      *)
(* message are launched only when the stream is read on.  Launched tools   *)
(* run beside each other and may finish after the reader stopped.          *)
(*                                                                         *)
(* Call ids are fresh and are numbered in the order they are made.         *)
(***************************************************************************)
EXTENDS Integers, Sequences, FiniteSets

CONSTANTS
  MaxCalls,      \* bound: tool calls the model makes in one run
  MaxTexts,      \* bound: text chunks of one run
  Tools,         \* tool names
  GatedTools,    \* names in interrupt_on
  ToolOf,        \* call -> tool name
  Resends,       \* may the review node stream its AIMessage once more?
  GraphFails     \* may the stream raise?

Calls == 1 .. MaxCalls
NoCall == 0

ASSUME BoundsAssumption == MaxCalls \in Nat /\ MaxTexts \in Nat
ASSUME ToolsAssumption == GatedTools \subseteq Tools /\ ToolOf \in [Calls -> Tools]
ASSUME GraphAssumption == Resends \subseteq BOOLEAN /\ GraphFails \in BOOLEAN

VARIABLES
  graph,      \* where the graph stands
  batch,      \* calls of the assistant message being worked on
  review,     \* action_requests of the interrupt, in order
  decisions,  \* Command(resume={"decisions": ...}) last given to the graph
  todo,       \* calls it may execute
  returned,   \* executed calls whose ToolMessage is not streamed yet
  executed,   \* every call whose tool has run
  made,       \* number of calls made so far
  texts,      \* number of text chunks so far
  chunk       \* what astream yields next

agent == <<graph, batch, review, decisions, todo, returned, executed, made, texts>>

Gated(c) == ToolOf[c] \in GatedTools

\* The ascending sequence of the numbers in S, as the one element of a set.
Ascending(S) ==
  {q \in [1 .. Cardinality(S) -> S] :
     \A i, j \in 1 .. Cardinality(S) : i < j => q[i] < q[j]}

Chunk(kind, started, completed) ==
  [kind |-> kind, started |-> started, completed |-> completed]
NoChunk == Chunk("none", <<>>, <<>>)
Chunks == [kind : {"none", "text", "update", "interrupt", "end", "error"},
           started : Seq(Calls), completed : Seq(Calls)]

GraphTypeOK ==
  /\ graph \in {"model", "review", "reviewed", "ready", "tools"}
  /\ batch \in SUBSET Calls
  /\ review \in Seq(Calls)
  /\ decisions \in Seq({"approve", "reject"})
  /\ todo \in SUBSET Calls
  /\ returned \in SUBSET Calls
  /\ executed \in SUBSET Calls
  /\ made \in 0 .. MaxCalls
  /\ texts \in 0 .. MaxTexts
  /\ chunk \in Chunks

GraphInit ==
  /\ graph = "model" /\ batch = {} /\ review = <<>> /\ decisions = <<>>
  /\ todo = {} /\ returned = {} /\ executed = {} /\ made = 0 /\ texts = 0
  /\ chunk = NoChunk

\* The model is called at the start, and whenever every tool call of the last
\* message has its ToolMessage.
AtModel == graph = "model" \/ (graph = "tools" /\ todo = {} /\ returned = {})

GraphText ==
  /\ AtModel /\ texts < MaxTexts
  /\ texts' = texts + 1 /\ graph' = "model"
  /\ chunk' = Chunk("text", <<>>, <<>>)
  /\ UNCHANGED <<batch, review, decisions, todo, returned, executed, made>>

\* The model answers with n tool calls.  When some are gated the review node
\* comes next, with those as its action_requests; otherwise they all run.
GraphCalls(n) ==
  LET new == made + 1 .. made + n
      gated == {c \in new : Gated(c)}
  IN /\ AtModel /\ made + n <= MaxCalls
     /\ made' = made + n /\ batch' = new
     /\ review' \in Ascending(gated)
     /\ graph' = IF gated = {} THEN "ready" ELSE "review"
     /\ todo' = IF gated = {} THEN new ELSE {}
     /\ chunk' = Chunk("update", [i \in 1 .. n |-> made + i], <<>>)
     /\ UNCHANGED <<decisions, returned, executed, texts>>

GraphInterrupts ==
  /\ graph = "review"
  /\ chunk' = Chunk("interrupt", <<>>, <<>>)
  /\ UNCHANGED agent

\* The resumed review node applies decisions[i] to the i-th action request:
\* an approved call may run, a rejected one gets an error ToolMessage.  Its
\* update may carry the reviewed AIMessage once more.
Verdict(d) == {review[i] : i \in {j \in DOMAIN review : decisions[j] = d}}
GraphReviews(again) ==
  /\ graph = "reviewed"
  /\ graph' = "ready"
  /\ todo' = {c \in batch : ~ Gated(c)} \cup Verdict("approve")
  /\ \E message \in Ascending(IF again THEN batch ELSE {}),
        errors \in Ascending(Verdict("reject")) :
          chunk' = Chunk("update", message, errors)
  /\ UNCHANGED <<batch, review, decisions, returned, executed, made, texts>>

GraphLaunches ==
  /\ graph = "ready"
  /\ graph' = "tools"
  /\ UNCHANGED <<batch, review, decisions, todo, returned, executed, made,
                 texts, chunk>>

GraphReturns(c) ==
  /\ graph = "tools" /\ c \in returned
  /\ returned' = returned \ {c}
  /\ chunk' = Chunk("update", <<>>, <<c>>)
  /\ UNCHANGED <<graph, batch, review, decisions, todo, executed, made, texts>>

GraphEnds ==
  /\ AtModel
  /\ chunk' = Chunk("end", <<>>, <<>>)
  /\ UNCHANGED agent

GraphRaises ==
  /\ GraphFails
  /\ chunk' = Chunk("error", <<>>, <<>>)
  /\ UNCHANGED agent

\* What the graph does while its reader awaits a chunk.
GraphAdvances ==
  /\ chunk = NoChunk
  /\ \/ GraphText \/ GraphInterrupts \/ GraphLaunches \/ GraphEnds \/ GraphRaises
     \/ \E n \in 1 .. MaxCalls : GraphCalls(n)
     \/ \E again \in Resends : GraphReviews(again)
     \/ \E c \in Calls : GraphReturns(c)

\* What it does at any time: a launched tool runs.
ToolRuns(c) ==
  /\ graph = "tools" /\ c \in todo
  /\ todo' = todo \ {c}
  /\ executed' = executed \cup {c}
  /\ returned' = returned \cup {c}
  /\ UNCHANGED <<graph, batch, review, decisions, made, texts, chunk>>
=============================================================================
