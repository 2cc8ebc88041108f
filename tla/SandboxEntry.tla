---------------------------- MODULE SandboxEntry ----------------------------
(***************************************************************************)
(* What the pool of backend/app/sandbox/sandbox.py promises one user: at   *)
(* most one sandbox at a time is the user's entry, a new one is created    *)
(* only when there is none, and one that is no longer the entry stops,     *)
(* unless a call to the sandbox service has failed.                        *)
(*                                                                         *)
(* SandboxPool implements it for each user.  SandboxUsers builds on it.    *)
(***************************************************************************)
EXTENDS Integers

CONSTANT Boxes      \* the sandboxes the service may create
ASSUME BoxesAssumption == 0 \notin Boxes
None == 0

VARIABLES
  made,     \* the user's sandboxes so far
  live,     \* the ones running
  lost,     \* the ones running that are not, or never were, the entry
  entry     \* the sandbox that calls are given, or None

pooled == <<made, live, lost, entry>>

EntryInit == made = {} /\ live = {} /\ lost = {} /\ entry = None

\* A call finds no entry: the service creates a sandbox...
Creates(b) ==
  /\ entry = None /\ entry' = b
  /\ b \in Boxes \ made /\ made' = made \cup {b}
  /\ live' = live \cup {b} /\ UNCHANGED lost

\* ...or fails, and may have created it all the same.
Slips(b) ==
  /\ entry = None
  /\ b \in Boxes \ made /\ made' = made \cup {b}
  /\ live' = live \cup {b} /\ lost' = lost \cup {b} /\ UNCHANGED entry

\* The entry leaves the pool: its sandbox is paused, or goes on for a while.
Leaves ==
  /\ entry # None /\ entry' = None
  /\ \/ live' = live \ {entry} /\ UNCHANGED lost
     \/ entry \in live /\ lost' = lost \cup {entry} /\ UNCHANGED live
  /\ UNCHANGED made

\* A running sandbox is stopped, or stops by itself.
Dies(b) ==
  /\ b \in live /\ live' = live \ {b} /\ lost' = lost \ {b}
  /\ UNCHANGED <<made, entry>>

EntryNext == Leaves \/ \E b \in Boxes : Creates(b) \/ Slips(b) \/ Dies(b)
EntrySpec == EntryInit /\ [][EntryNext]_pooled
=============================================================================
