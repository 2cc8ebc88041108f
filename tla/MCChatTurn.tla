----------------------------- MODULE MCChatTurn -----------------------------
(* Instances of ChatTurn for TLC: every call is of the one gated tool. *)
EXTENDS ChatTurn

MCOneTool == [c \in Calls |-> "execute"]

\* A turn whose cards are answered ends, and so does a run whose turn was
\* stopped before its id was known.
TurnsEnd == TurnEnds /\ StopBeforeIdEnds
=============================================================================
