------------------------------ MODULE ChatTurn ------------------------------
(***************************************************************************)
(* One turn of the chat page (frontend/src/runtime/JoyjoyRuntimeProvider)  *)
(* in front of one run: runTurn posts the run, opens its event stream,     *)
(* keeps one approval card per tool call and answers; Stop and a switch of *)
(* thread tear the turn down.  RunDriver is the server side.               *)
(*                                                                         *)
(* HTTP requests are in flight for any time and overtake each other; an    *)
(* event that the server hands to the stream is handled by the page in the *)
(* same step while the page's EventSource is open, and lost otherwise.     *)
(* The server notices a closed EventSource in a later step.                *)
(***************************************************************************)
EXTENDS RunDriver

CONSTANTS
  Page,       \* the page's EventSource, one of Streams
  MaxFaults   \* bound: requests and streams that fail

ASSUME PageAssumption ==
  Page \in Streams /\ MaxFaults \in Nat /\ {"approve", "reject"} \subseteq Choices

VARIABLES
  es,        \* handle.es: "null", "open" or "closed"
  stopped,   \* handle.cancelled
  settled,   \* has finish() run?
  uiAuto,    \* the chat store's autoApprove
  cards,     \* `pending`: tool call -> approval id shown on it, 0 if none
  named,     \* toolByNameRef: tool name -> last started call
  sent,      \* HTTP requests and replies in flight
  clicked,   \* approval id -> call whose card was clicked for it
  faults     \* failures so far

client == <<es, stopped, settled, uiAuto, cards, named, sent, clicked, faults>>
chatVars == <<vars, client>>

Creates == [kind : {"create"}, auto : BOOLEAN, replace : BOOLEAN]
Created == [kind |-> "created"]
CancelRun == [kind |-> "cancel"]
Answers == [kind : {"respond"}, aid : Calls, choice : {"approve", "reject"}]
AnswerOf(a, choice) == [kind |-> "respond", aid |-> a, choice |-> choice]

NoCards == [c \in Calls |-> 0]
CardsOf(f) == {c \in Calls : f[c] # 0}

ChatTypeOK ==
  /\ TypeOK
  /\ es \in {"null", "open", "closed"}
  /\ stopped \in BOOLEAN /\ settled \in BOOLEAN /\ uiAuto \in BOOLEAN
  /\ cards \in [Calls -> Calls \cup {0}]
  /\ named \in [Tools -> Calls \cup {NoCall}]
  /\ sent \subseteq Creates \cup Answers \cup {Created, CancelRun}
  /\ clicked \in [Calls -> Calls \cup {NoCall}]
  /\ faults \in 0 .. MaxFaults

\* The user has just sent, reloaded or edited a message.
ChatInit ==
  /\ Init
  /\ es = "null" /\ stopped = FALSE /\ settled = FALSE
  /\ cards = NoCards /\ named = [t \in Tools |-> NoCall]
  /\ clicked = [a \in Calls |-> NoCall]
  /\ uiAuto \in BOOLEAN /\ faults = 0
  /\ \E replace \in BOOLEAN :
       sent = {[kind |-> "create", auto |-> uiAuto, replace |-> replace]}

Fails == faults < MaxFaults /\ faults' = faults + 1

-----------------------------------------------------------------------------
(* createRun and its reply *)

ServerCreates ==
  \E r \in sent \cap Creates :
    /\ StartRun(r.auto, r.replace)
    /\ sent' = (sent \ {r}) \cup {Created}
    /\ UNCHANGED <<es, stopped, settled, uiAuto, cards, named, clicked, faults>>

\* Mutant: a turn stopped meanwhile is finished, but its run is not cancelled.
MutantRunIdArrives ==
  /\ Created \in sent
  /\ sent' = sent \ {Created}
  /\ IF stopped THEN settled' = TRUE /\ UNCHANGED es
                ELSE es' = "open" /\ UNCHANGED settled
  /\ UNCHANGED <<vars, stopped, uiAuto, cards, named, clicked, faults>>

\* The run id is known.  A turn stopped meanwhile cancels the run and never
\* opens the stream.
RunIdArrives ==
  /\ Created \in sent
  /\ IF stopped
     THEN /\ sent' = (sent \ {Created}) \cup {CancelRun}
          /\ settled' = TRUE
          /\ UNCHANGED es
     ELSE /\ sent' = sent \ {Created}
          /\ es' = "open"
          /\ UNCHANGED settled
  /\ UNCHANGED <<vars, stopped, uiAuto, cards, named, clicked, faults>>

\* The POST or its reply fails; when it was the reply, the run goes on.
CreateFails ==
  /\ Fails
  /\ \E r \in sent \cap (Creates \cup {Created}) : sent' = sent \ {r}
  /\ settled' = TRUE
  /\ UNCHANGED <<vars, es, stopped, uiAuto, cards, named, clicked>>

-----------------------------------------------------------------------------
(* The event stream *)

\* GET .../events reaches the server, maybe after the page gave it up.
Connect ==
  /\ es # "null"
  /\ OpenStream(Page)
  /\ UNCHANGED client

\* Mutant: cards are keyed by tool name, as without the server's pairing.
MutantCardKey(e) == named[ToolOf[e.call]]
CardKey(e) == IF e.card # NoCall THEN e.card ELSE named[ToolOf[e.call]]

StartTool(e) ==
  /\ e.ev = "tool.started"
  /\ named' = [named EXCEPT ![ToolOf[e.call]] = e.call]
  /\ UNCHANGED <<es, settled, cards, sent>>

\* Mutant: the call's entry is dropped from the record it is looked up in.
MutantCompleteTool(e) ==
  /\ e.ev = "tool.completed"
  /\ cards' = [c \in DOMAIN cards \ {e.call} |-> cards[c]]
  /\ UNCHANGED <<es, settled, named, sent>>

CompleteTool(e) ==
  /\ e.ev = "tool.completed"
  /\ cards' = [cards EXCEPT ![e.call] = 0]
  /\ UNCHANGED <<es, settled, named, sent>>

\* Mutant: with auto-approve on, the answer is left to the server.
MutantRequestApproval(e) ==
  /\ e.ev = "approval.request"
  /\ cards' = IF uiAuto THEN cards ELSE [cards EXCEPT ![CardKey(e)] = e.aid]
  /\ UNCHANGED <<es, settled, named, sent>>

\* In auto-approve mode the page answers at once and shows no card.
RequestApproval(e) ==
  /\ e.ev = "approval.request"
  /\ IF uiAuto
     THEN sent' = sent \cup {AnswerOf(e.aid, "approve")} /\ UNCHANGED cards
     ELSE cards' = [cards EXCEPT ![CardKey(e)] = e.aid] /\ UNCHANGED sent
  /\ UNCHANGED <<es, settled, named>>

\* Mutant: the turn is over with its sources.
MutantEndTurn(e) ==
  /\ e.ev \in Closing \cup {"sources"}
  /\ es' = "closed" /\ settled' = TRUE
  /\ UNCHANGED <<cards, named, sent>>

\* A terminal event, or [DONE] when the server's generator ends.
EndTurn(e) ==
  /\ e.ev \in Closing
  /\ es' = "closed" /\ settled' = TRUE
  /\ UNCHANGED <<cards, named, sent>>

OtherEvent(e) ==
  /\ e.ev \in {"message.delta", "sources"}
  /\ UNCHANGED <<es, settled, cards, named, sent>>

Receive ==
  /\ es = "open"
  /\ TakeEvent(Page)
  /\ LET e == log[taken + 1]
     IN StartTool(e) \/ CompleteTool(e) \/ RequestApproval(e) \/ EndTurn(e) \/ OtherEvent(e)
  /\ UNCHANGED <<stopped, uiAuto, clicked, faults>>

\* The closed EventSource: events go nowhere until the server notices.
Unheard == es = "closed" /\ TakeEvent(Page) /\ UNCHANGED client
HangUp == es = "closed" /\ DropStream(Page) /\ UNCHANGED client

\* es.onerror: the page neither reconnects nor cancels the run.
StreamError ==
  /\ Fails /\ es = "open"
  /\ DropStream(Page)
  /\ es' = "closed" /\ settled' = TRUE
  /\ UNCHANGED <<stopped, uiAuto, cards, named, sent, clicked>>

-----------------------------------------------------------------------------
(* The user *)

\* respond: the card goes and its answer is sent.
Click(c, choice) ==
  /\ cards[c] # 0
  /\ sent' = sent \cup {AnswerOf(cards[c], choice)}
  /\ clicked' = [clicked EXCEPT ![cards[c]] = c]
  /\ cards' = [cards EXCEPT ![c] = 0]
  /\ UNCHANGED <<vars, es, stopped, settled, uiAuto, named, faults>>

AnsweredByAuto == {AnswerOf(cards[c], "approve") : c \in CardsOf(cards)}

\* Auto-approve is switched on while the turn runs: the effect answers every
\* waiting card.
TurnAutoOn ==
  /\ ~ uiAuto
  /\ uiAuto' = TRUE
  /\ sent' = sent \cup AnsweredByAuto
  /\ cards' = NoCards
  /\ UNCHANGED <<vars, es, stopped, settled, named, clicked, faults>>

\* teardownRun: the stream is closed first, then the cancel is posted if the
\* run id is known.  finish() makes the turn inactive, so it happens once.
Teardown ==
  /\ ~ settled
  /\ stopped' = TRUE /\ settled' = TRUE
  /\ es' = IF es = "null" THEN "null" ELSE "closed"
  /\ sent' = IF es = "null" THEN sent ELSE sent \cup {CancelRun}
  /\ UNCHANGED <<vars, uiAuto, clicked, faults>>

Stop == Teardown /\ UNCHANGED <<cards, named>>

\* loadThread: another thread is selected.
LeaveThread == Teardown /\ cards' = NoCards /\ named' = [t \in Tools |-> NoCall]

-----------------------------------------------------------------------------
(* Requests reach the server *)

Arrives(r) == sent' = sent \ {r}
              /\ UNCHANGED <<es, stopped, settled, uiAuto, cards, named, clicked>>

CancelArrives ==
  /\ CancelRun \in sent /\ Arrives(CancelRun) /\ UNCHANGED faults
  /\ IF registered THEN Cancel ELSE UNCHANGED vars

AnswerArrives ==
  \E r \in sent \cap Answers :
    /\ Arrives(r) /\ UNCHANGED faults
    /\ \/ Respond(r.aid, r.choice)
       \/ RespondLate(r.aid)
       \/ ~ (registered /\ r.aid \in pending) /\ UNCHANGED vars

\* Every caller swallows the error of a failed request.
RequestLost ==
  /\ Fails
  /\ \E r \in sent \cap (Answers \cup {CancelRun}) : Arrives(r)
  /\ UNCHANGED vars

ServerStep == (DeliverResult \/ GraphStep \/ DriveStep) /\ UNCHANGED client

ChatNext ==
  \/ ServerCreates \/ RunIdArrives \/ CreateFails
  \/ Connect \/ Receive \/ Unheard \/ HangUp \/ StreamError
  \/ \E c \in Calls, choice \in {"approve", "reject"} : Click(c, choice)
  \/ TurnAutoOn \/ Stop \/ LeaveThread
  \/ CancelArrives \/ AnswerArrives \/ RequestLost
  \/ ServerStep

(***************************************************************************)
(* Fairness: the server's (see RunDriver), a network that delivers what is *)
(* sent, a server that notices a closed connection, and a user who answers *)
(* the cards in front of him; nobody has to press Stop.                    *)
(***************************************************************************)
ChatFairness ==
  /\ WF_chatVars(DriveStep /\ UNCHANGED client)
  /\ WF_chatVars(DeliverResult /\ UNCHANGED client)
  /\ WF_chatVars(GraphStep /\ UNCHANGED client)
  /\ WF_chatVars(ServerCreates) /\ WF_chatVars(RunIdArrives)
  /\ WF_chatVars(Connect) /\ WF_chatVars(Receive) /\ WF_chatVars(HangUp)
  /\ WF_chatVars(CancelArrives) /\ WF_chatVars(AnswerArrives)
  /\ WF_chatVars(\E c \in Calls, choice \in {"approve", "reject"} : Click(c, choice))

ChatSpec == ChatInit /\ [][ChatNext]_chatVars /\ ChatFairness

-----------------------------------------------------------------------------
(* Properties *)

\* No request and no stream failed, and the run was not lost by its prune.
Served == faults = 0 /\ pc # "dead"

\* A run that waits for its user is never stuck behind the page: each approval
\* handed to a live turn is on a card or its answer is under way, which is what
\* requestApproval's comment is about (JoyjoyRuntimeProvider.tsx:383-388).
NoHiddenApproval ==
  Served /\ ~ stopped /\ pc = "awaiting" =>
    \A i \in 1 .. taken :
      LET a == log[i].aid
      IN log[i].ev = "approval.request" /\ a \in pending /\ result[a] = "none" =>
           \/ \E c \in Calls : cards[c] = a
           \/ \E choice \in {"approve", "reject"} : AnswerOf(a, choice) \in sent

\* With auto-approve off, a gated call that ran was approved on its own card,
\* not on the card of another call, whatever fails and whenever the user stops.
ApprovedOnItsCard ==
  ~ uiAuto => \A c \in executed : Gated(c) =>
                \E a \in Calls : about[a] = c /\ said[a] = "approve" /\ clicked[a] = c

\* The page shows a turn as over only when its run is over, unless the user
\* stopped it.
SettledMeansOver == Served /\ settled /\ ~ stopped => pc = "ended"

\* The cards and the state of the turn tell what the run did: a gated call ran
\* only after approval on its own card, and a turn shown as over is over.
PageTracksRun == ApprovedOnItsCard /\ SettledMeansOver

\* A turn whose user answers the cards ends.
TurnEnds == <>(settled \/ ~ Served)

\* ActiveRun.cancelled: a Stop before the run id is known ends the run.
StopBeforeIdEnds == (stopped /\ es = "null") ~> (pc = "ended" \/ ~ Served)

\* teardownRun's comment: it stops the stream and cancels the backend run.
\* Does not hold: when the server sees the closed stream before the cancel
\* arrives, the run has left _RUNS and cannot be cancelled any more.
StopEnds == stopped ~> pc = "ended"
=============================================================================
