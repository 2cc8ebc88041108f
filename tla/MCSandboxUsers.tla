--------------------------- MODULE MCSandboxUsers ---------------------------
(* Instances of SandboxUsers for TLC. *)
EXTENDS SandboxUsers, TLC

\* Two threads with uids of their own.
MCApart == "t1" :> 2 @@ "t2" :> 1

Symmetry == Permutations(Boxes) \cup Permutations(Callers)
=============================================================================
