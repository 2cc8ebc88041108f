----------------------------- MODULE MCRunDriver -----------------------------
(* Instances of RunDriver for TLC: a gated tool around an ungated one. *)
EXTENDS RunDriver

MCToolOf == [c \in Calls |-> IF c = 2 THEN "read_file" ELSE "execute"]
MCOneTool == [c \in Calls |-> "execute"]

\* A cancelled run ends, a round that is answered goes on, and a stream whose
\* run needs no answers ends with it.
RunsMoveOn == CancelEnds /\ AnsweredResumes /\ ServedStreamEnds
=============================================================================
