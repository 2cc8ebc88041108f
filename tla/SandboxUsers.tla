---------------------------- MODULE SandboxUsers ----------------------------
(***************************************************************************)
(* The threads of one user in the user's shared sandbox: sandbox.py gives  *)
(* each a Linux user and a directory (_bootstrap_thread), deletes the      *)
(* directory with the session (_delete_thread_workspace), and              *)
(* sandbox_backend.py runs each command of a thread as its Linux user.     *)
(* OpenSandboxBackend.execute acquires twice: the command runs in the      *)
(* sandbox of the first acquire, as the user set up in that of the second. *)
(*                                                                         *)
(* The pool is the one of SandboxEntry.  The volume outlives every         *)
(* sandbox, the Linux users do not.  A script of the shell is one step.    *)
(***************************************************************************)
EXTENDS SandboxEntry, FiniteSets

CONSTANTS
  Threads,
  Candidate,    \* thread -> the uid its name hashes to
  Callers       \* worker threads of tool calls, and session deletions

ASSUME UsersAssumption ==
  /\ Candidate \in [Threads -> Nat \ {0}]
  /\ IsFiniteSet(Threads) /\ "none" \notin Threads

VARIABLES
  passwd,    \* sandbox -> thread -> uid of its Linux user, or 0
  cache,     \* sandbox -> thread -> uid in _THREAD_UID, or 0
  owner,     \* thread -> uid that owns its directory on the volume, or 0
  stage,     \* caller -> what it does
  thread,    \* caller -> the thread it works for
  sb,        \* caller -> the sandbox of its first acquire, or of a deletion
  box,       \* caller -> the sandbox that _bootstrap_thread works in
  uid        \* caller -> the uid it has got

linux == <<passwd, cache, owner>>
calls == <<stage, thread, sb, box, uid>>
vars == <<pooled, linux, calls>>

Stages == {"idle", "held", "script", "scripted", "run", "delete", "deleted"}

TypeOK ==
  /\ passwd \in [Boxes -> [Threads -> Nat]]
  /\ cache \in [Boxes -> [Threads -> Nat]]
  /\ owner \in [Threads -> Nat]
  /\ stage \in [Callers -> Stages]
  /\ thread \in [Callers -> Threads \cup {"none"}]
  /\ sb \in [Callers -> Boxes \cup {None}] /\ box \in [Callers -> Boxes \cup {None}]
  /\ uid \in [Callers -> Nat]
  /\ \A c \in Callers : stage[c] = "run" => uid[c] # 0     \* never as root

Init ==
  /\ EntryInit
  /\ passwd = [b \in Boxes |-> [t \in Threads |-> 0]] /\ cache = passwd
  /\ owner = [t \in Threads |-> 0]
  /\ stage = [c \in Callers |-> "idle"] /\ thread = [c \in Callers |-> "none"]
  /\ sb = [c \in Callers |-> None] /\ box = sb /\ uid = [c \in Callers |-> 0]

Goes(c, place) == stage' = [stage EXCEPT ![c] = place]
\* The call is over, with what it knew.
Over(c) ==
  /\ Goes(c, "idle") /\ thread' = [thread EXCEPT ![c] = "none"]
  /\ sb' = [sb EXCEPT ![c] = None] /\ box' = [box EXCEPT ![c] = None]
  /\ uid' = [uid EXCEPT ![c] = 0]

-----------------------------------------------------------------------------
(* A command *)

\* _acquire: the entry, or a sandbox created for it.
Acquires(b) ==
  \/ entry # None /\ b = entry /\ UNCHANGED pooled
  \/ Creates(b)

\* execute(): _sb().
Begin(c, t) ==
  /\ stage[c] = "idle"
  /\ \E b \in Boxes : Acquires(b) /\ sb' = [sb EXCEPT ![c] = b]
  /\ Goes(c, "held") /\ thread' = [thread EXCEPT ![c] = t]
  /\ UNCHANGED <<linux, box, uid>>

\* Mutant: a thread once set up is taken to be set up everywhere.
MutantCached(b, t) == {cache[x][t] : x \in Boxes} \ {0}
Cached(b, t) == {cache[b][t]} \ {0}

\* _thread() finds the thread in _THREAD_UID, or has to set it up.
Enter(c) ==
  /\ stage[c] = "held"
  /\ \E b \in Boxes :
       /\ Acquires(b)
       /\ \/ /\ Cached(b, thread[c]) = {}
             /\ Goes(c, "script") /\ box' = [box EXCEPT ![c] = b] /\ UNCHANGED uid
          \/ /\ \E n \in Cached(b, thread[c]) : uid' = [uid EXCEPT ![c] = n]
             /\ Goes(c, "run") /\ UNCHANGED box
  /\ UNCHANGED <<linux, thread, sb>>

\* Either _acquire finds no entry and cannot create one.
AcquireRaises(c) ==
  /\ stage[c] \in {"idle", "held"} /\ entry = None
  /\ Over(c)
  /\ UNCHANGED <<pooled, linux>>

\* Mutant: the probing starts at the base of the range.
MutantFirst(t) == 1
First(t) == Candidate[t]

\* The first uid that no Linux user of b has.
FreeUid(b, t) ==
  CHOOSE n \in First(t) .. First(t) + Cardinality(Threads) :
    /\ \A s \in Threads : passwd[b][s] # n
    /\ \A m \in First(t) .. n - 1 : \E s \in Threads : passwd[b][s] = m
UidIn(b, t) == IF passwd[b][t] # 0 THEN passwd[b][t] ELSE FreeUid(b, t)

\* The script makes the directory and the Linux user.
Script(c) ==
  LET b == box[c]
      t == thread[c]
  IN /\ stage[c] = "script" /\ b \in live
     /\ passwd' = [passwd EXCEPT ![b][t] = UidIn(b, t)]
     /\ owner' = [owner EXCEPT ![t] = UidIn(b, t)]
     /\ uid' = [uid EXCEPT ![c] = UidIn(b, t)]
     /\ Goes(c, "scripted")
     /\ UNCHANGED <<pooled, cache, thread, sb, box>>

Notes(c) == cache' = [cache EXCEPT ![box[c]][thread[c]] = uid[c]]

\* The output of the script is read, and the uid noted.
Bootstrapped(c) ==
  /\ stage[c] = "scripted"
  /\ Notes(c)
  /\ Goes(c, "run") /\ box' = [box EXCEPT ![c] = None]
  /\ UNCHANGED <<pooled, passwd, owner, thread, sb, uid>>

\* The sandbox does not answer, or not with a uid.
BootstrapRaises(c) ==
  /\ stage[c] \in {"script", "scripted"}
  /\ Over(c)
  /\ UNCHANGED <<pooled, linux>>

\* The command has run, or failed.
Ends(c) ==
  /\ stage[c] = "run"
  /\ Over(c)
  /\ UNCHANGED <<pooled, linux>>

-----------------------------------------------------------------------------
(* The deletion of a thread's session *)

BeginDelete(c, t) ==
  /\ stage[c] = "idle" /\ entry # None
  /\ Goes(c, "delete")
  /\ thread' = [thread EXCEPT ![c] = t] /\ sb' = [sb EXCEPT ![c] = entry]
  /\ UNCHANGED <<pooled, linux, box, uid>>

Deletes(c) ==
  /\ stage[c] = "delete" /\ sb[c] \in live
  /\ owner' = [owner EXCEPT ![thread[c]] = 0]
  /\ Goes(c, "deleted")
  /\ UNCHANGED <<pooled, passwd, cache, thread, sb, box, uid>>

\* Also when the deletion has failed.
Forgets(c) ==
  /\ stage[c] \in {"delete", "deleted"}
  /\ cache' = [cache EXCEPT ![sb[c]][thread[c]] = 0]
  /\ Over(c)
  /\ UNCHANGED <<pooled, passwd, owner>>

-----------------------------------------------------------------------------
CallStep(c) ==
  \/ \E t \in Threads : Begin(c, t) \/ BeginDelete(c, t)
  \/ Enter(c) \/ AcquireRaises(c) \/ Script(c) \/ Bootstrapped(c) \/ BootstrapRaises(c)
  \/ Ends(c) \/ Deletes(c) \/ Forgets(c)

\* The rest of the pool: other calls, the reaper, the cap, the service.
PoolStep == EntryNext /\ UNCHANGED <<linux, calls>>

Next == (\E c \in Callers : CallStep(c)) \/ PoolStep
Spec == Init /\ [][Next]_vars

-----------------------------------------------------------------------------
(* Properties *)

\* A uid in _THREAD_UID is that of the thread's Linux user in that very
\* sandbox, whatever was created, paused or deleted since it was noted.
CachedUidExists ==
  \A b \in Boxes, t \in Threads : cache[b][t] \in {0, passwd[b][t]}

\* A command runs with a uid known in the sandbox it runs in, although the
\* sandbox and the uid come from two acquires with a pause in between.
RunsWhereKnown ==
  \A c \in Callers :
    stage[c] = "run" /\ sb[c] \in live \ lost => passwd[sb[c]][thread[c]] = uid[c]

\* The uid of a command owns the directory of its thread, unless that was
\* deleted, and of no other thread, in whatever order threads and sandboxes
\* came.
OwnDirectoryOnly ==
  \A c \in Callers, s \in Threads :
    stage[c] = "run" /\ owner[s] # 0 => (owner[s] = uid[c] <=> s = thread[c])

\* A thread has the same uid in every sandbox of the user.
UidIsStable ==
  \A a, b \in Boxes, t \in Threads :
    passwd[a][t] # 0 /\ passwd[b][t] # 0 => passwd[a][t] = passwd[b][t]
=============================================================================
