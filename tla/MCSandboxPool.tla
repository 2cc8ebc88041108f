--------------------------- MODULE MCSandboxPool ---------------------------
(* Instances of SandboxPool for TLC. *)
EXTENDS SandboxPool, TLC

\* Every acquire ends, and a sandbox nobody uses leaves the pool.
PoolMovesOn == AcquiresEnd /\ IdleLeaves
=============================================================================
