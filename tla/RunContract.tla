----------------------------- MODULE RunContract -----------------------------
(***************************************************************************)
(* What a run promises to the user in front of it, whatever the driver,    *)
(* its queue and its futures do: which tool calls may take effect, when    *)
(* the run may go on past a question, and what each outcome means.         *)
(* RunDriver implements it (ImplementsContract there).                     *)
(***************************************************************************)
CONSTANTS
  Calls,       \* the tool calls of the run
  GatedCalls   \* those that need the user's approval

VARIABLES
  status,      \* "new", "running", "waiting", the outcome, or "lost"
  auto,        \* every gate is approved beforehand
  stopped,     \* the user asked for the run to stop
  asked,       \* calls the user has been asked about
  answer,      \* call -> the user's answer, "none" until there is one
  executed     \* calls whose tool has run

vars == <<status, auto, stopped, asked, answer, executed>>
Outcomes == {"run.completed", "run.failed", "run.cancelled"}

Init ==
  /\ status = "new" /\ auto = FALSE /\ stopped = FALSE
  /\ asked = {} /\ executed = {}
  /\ answer = [c \in Calls |-> "none"]

Start ==
  /\ status = "new"
  /\ status' = "running"
  /\ auto' \in BOOLEAN
  /\ UNCHANGED <<stopped, asked, answer, executed>>

\* Every gated call of one message is asked about at once, each only once.
Ask ==
  /\ status = "running" /\ ~ auto
  /\ status' = "waiting"
  /\ \E S \in SUBSET (GatedCalls \ asked) : S # {} /\ asked' = asked \cup S
  /\ UNCHANGED <<auto, stopped, answer, executed>>

Answer(c) ==
  /\ c \in asked /\ answer[c] = "none"
  /\ \E d \in {"approve", "reject"} : answer' = [answer EXCEPT ![c] = d]
  /\ UNCHANGED <<status, auto, stopped, asked, executed>>

\* A run goes on only when every question has its answer, or to stop.
GoOn ==
  /\ status = "waiting"
  /\ stopped \/ \A c \in asked : answer[c] # "none"
  /\ status' = "running"
  /\ UNCHANGED <<auto, stopped, asked, answer, executed>>

\* A call takes effect at most once, and a gated one only when approved.
Execute(c) ==
  /\ status \notin {"new", "run.completed", "lost"} /\ c \notin executed
  /\ c \in GatedCalls /\ ~ auto => answer[c] = "approve"
  /\ executed' = executed \cup {c}
  /\ UNCHANGED <<status, auto, stopped, asked, answer>>

Stop ==
  /\ status # "new"
  /\ stopped' = TRUE
  /\ UNCHANGED <<status, auto, asked, answer, executed>>

\* A completed run has done what the user approved and nothing it refused; a
\* run is cancelled only when the user stopped it.
End(outcome) ==
  /\ status = "running"
  /\ outcome = "run.cancelled" => stopped
  /\ outcome = "run.completed" =>
       \A c \in asked : answer[c] # "none" /\ (c \in executed <=> answer[c] = "approve")
  /\ status' = outcome
  /\ UNCHANGED <<auto, stopped, asked, answer, executed>>

\* A run may be lost, but only before it has done anything.
Lose ==
  /\ status = "running" /\ asked = {} /\ executed = {}
  /\ status' = "lost"
  /\ UNCHANGED <<auto, stopped, asked, answer, executed>>

Next ==
  \/ Start \/ Ask \/ GoOn \/ Stop \/ Lose
  \/ \E c \in Calls : Answer(c) \/ Execute(c)
  \/ \E outcome \in Outcomes : End(outcome)

Spec == Init /\ [][Next]_vars
=============================================================================
