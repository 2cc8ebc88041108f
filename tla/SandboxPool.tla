---------------------------- MODULE SandboxPool ----------------------------
(***************************************************************************)
(* The warm sandboxes of backend/app/sandbox/sandbox.py: one container per *)
(* user in _POOL, which every tool call and every request of the dock      *)
(* acquires, and which the reaper, the cap and the shutdown pause.         *)
(*                                                                         *)
(* All of it runs on one loop: a step ends at an await that suspends.      *)
(* _LOCK is an asyncio.Lock, so its waiters are served in order.  No       *)
(* caller gives _acquire a sandbox id to resume, and none calls            *)
(* kill_session: a sandbox that was paused is never used again, and is     *)
(* not told from one that died.  The pool does not know how long a call    *)
(* uses the sandbox it was given, so a call ends here when it has it.      *)
(***************************************************************************)
EXTENDS Integers, Sequences, FiniteSets

CONSTANTS
  Users,
  Callers,      \* worker threads of tool calls, and requests of the dock
  MaxLive,      \* sandbox_max_live
  MaxBoxes      \* bound: sandboxes the service creates

ASSUME PoolAssumption ==
  /\ MaxLive \in Nat \ {0} /\ MaxBoxes \in Nat
  /\ Callers \cap {"reaper", "shutdown"} = {} /\ "nobody" \notin Users

None == 0
Boxes == 1 .. MaxBoxes
Actors == Callers \cup {"reaper", "shutdown"}

VARIABLES
  made,      \* sandboxes created so far
  mounts,    \* sandbox -> the user whose volume it mounts
  live,      \* the sandboxes running
  orphans,   \* of these, the ones a failed call has left to the service
  pool,      \* user -> the sandbox of its entry in _POOL
  lru,       \* the users with an entry, by last_used
  idle,      \* the ones not used for sandbox_idle_minutes
  lock,      \* the actors at _LOCK, the holder first
  stage,     \* caller -> where its _acquire is
  user,      \* caller -> the user it acquires for, while it does
  reaper,    \* where _reaper_loop is
  stale,     \* the entries it has still to pause
  down,      \* where _shutdown is
  closing    \* the sandboxes it has still to pause

service == <<made, mounts, live, orphans>>
entries == <<pool, lru, idle>>
calls == <<stage, user>>
closer == <<reaper, stale, down, closing>>
vars == <<service, entries, lock, calls, closer>>

TypeOK ==
  /\ made \in 0 .. MaxBoxes
  /\ mounts \in [1 .. made -> Users]
  /\ live \in SUBSET (1 .. made) /\ orphans \in SUBSET live
  /\ pool \in [Users -> 0 .. made]
  /\ lru \in Seq(Users) /\ idle \in SUBSET Users
  /\ lock \in Seq(Actors)
  /\ stage \in [Callers -> {"idle", "wait", "renew", "create", "cap"}]
  /\ user \in [Callers -> Users \cup {"nobody"}]
  /\ reaper \in {"asleep", "queued", "pausing", "off"} /\ stale \in SUBSET Users
  /\ down \in {"no", "queued", "pausing"} /\ closing \in SUBSET (1 .. made)

Init ==
  /\ made = 0 /\ mounts = <<>> /\ live = {} /\ orphans = {}
  /\ pool = [u \in Users |-> None] /\ lru = <<>> /\ idle = {}
  /\ lock = <<>> /\ stage = [c \in Callers |-> "idle"] /\ user = [c \in Callers |-> "nobody"]
  /\ reaper = "asleep" /\ stale = {} /\ down = "no" /\ closing = {}

\* order without x, which is in it at most once.
Without(order, x) ==
  LET at == {i \in DOMAIN order : order[i] = x}
  IN IF at = {} THEN order
     ELSE [i \in 1 .. Len(order) - 1 |-> order[IF \E p \in at : p <= i THEN i + 1 ELSE i]]
Pooled == {pool[u] : u \in Users} \ {None}
Goes(c, place) == stage' = [stage EXCEPT ![c] = place]

-----------------------------------------------------------------------------
(* The lock *)

Queue(a) == lock' = Append(lock, a)
\* Mutant: every coroutine makes a lock of its own.
MutantHolds(a) == \E i \in 1 .. Len(lock) : lock[i] = a
Holds(a) == lock # <<>> /\ Head(lock) = a
Release == lock' = Tail(lock)

-----------------------------------------------------------------------------
(* _acquire *)

Begin(c, u) ==
  /\ stage[c] = "idle"
  /\ Goes(c, "wait") /\ user' = [user EXCEPT ![c] = u]
  /\ Queue(c)
  /\ UNCHANGED <<service, entries, closer>>

Forget(c) == user' = [user EXCEPT ![c] = "nobody"]
Return(c) == Goes(c, "idle") /\ Forget(c) /\ Release

Touch(u) == lru' = Append(Without(lru, u), u) /\ idle' = idle \ {u}

\* An entry of the user is used now and renewed; else one is created.
LookUp(c) ==
  /\ stage[c] = "wait" /\ Holds(c)
  /\ \/ pool[user[c]] # None /\ Touch(user[c]) /\ Goes(c, "renew")
     \/ pool[user[c]] = None /\ Goes(c, "create") /\ UNCHANGED <<lru, idle>>
  /\ UNCHANGED <<service, pool, lock, user, closer>>

\* The renewal may fail: the sandbox of the entry is returned all the same.
Renewed(c) ==
  /\ stage[c] = "renew"
  /\ Return(c)
  /\ UNCHANGED <<service, entries, closer>>

\* Mutant: the cap is tested without the new entry.
MutantOverCap(order) == Len(order) > MaxLive + 1
OverCap(order) == Len(order) > MaxLive

Creates(c) ==
  /\ stage[c] = "create" /\ made < MaxBoxes
  /\ made' = made + 1 /\ live' = live \cup {made'}
  /\ mounts' = Append(mounts, user[c])

Created(c) ==
  /\ Creates(c)
  /\ pool' = [pool EXCEPT ![user[c]] = made']
  /\ lru' = Append(lru, user[c])
  /\ IF OverCap(lru') THEN Goes(c, "cap") /\ UNCHANGED <<lock, user>> ELSE Return(c)
  /\ UNCHANGED <<orphans, idle, closer>>

\* Mutant: the lock is left by the returns only.
MutantRaise(c) == Goes(c, "idle") /\ Forget(c) /\ UNCHANGED lock
Raise(c) == Return(c)

\* The service refuses, or has created a sandbox and its answer is lost.
CreateRaises(c) ==
  /\ stage[c] = "create"
  /\ \/ UNCHANGED service
     \/ Creates(c) /\ orphans' = orphans \cup {made'}
  /\ Raise(c)
  /\ UNCHANGED <<entries, closer>>

-----------------------------------------------------------------------------
(* Pausing *)

\* The service pauses b, or fails to.
Pause(b) ==
  \/ live' = live \ {b} /\ orphans' = orphans \ {b}
  \/ b \in live /\ orphans' = orphans \cup {b} /\ UNCHANGED live

\* Mutant: the entry is dropped, and its pause is lost with its task.
MutantPauseEntry(u) ==
  /\ pool' = [pool EXCEPT ![u] = None]
  /\ lru' = Without(lru, u) /\ idle' = idle \ {u}
  /\ UNCHANGED <<live, orphans>>
\* _pause_entry: the entry goes whatever comes of the pause.
PauseEntry(u) ==
  /\ Pause(pool[u])
  /\ pool' = [pool EXCEPT ![u] = None]
  /\ lru' = Without(lru, u) /\ idle' = idle \ {u}

\* _enforce_cap: the least recently used first.
Evict(c) ==
  /\ stage[c] = "cap"
  /\ PauseEntry(Head(lru))
  /\ IF OverCap(lru') THEN UNCHANGED <<calls, lock>> ELSE Return(c)
  /\ UNCHANGED <<made, mounts, closer>>

\* _reaper_loop wakes every _REAPER_POLL_S.
ReaperWakes ==
  /\ reaper = "asleep"
  /\ reaper' = "queued" /\ Queue("reaper")
  /\ UNCHANGED <<service, entries, calls, stale, down, closing>>

\* Mutant: an iteration with nothing to pause ends the loop.
MutantReaperRests == reaper' = (IF reaper = "queued" THEN "off" ELSE "asleep") /\ Release
ReaperRests == reaper' = "asleep" /\ Release

ReaperLooks ==
  /\ reaper = "queued" /\ Holds("reaper")
  /\ stale' = idle
  /\ IF idle = {} THEN ReaperRests ELSE reaper' = "pausing" /\ UNCHANGED lock
  /\ UNCHANGED <<service, entries, calls, down, closing>>

ReaperPauses(u) ==
  /\ reaper = "pausing" /\ u \in stale
  /\ PauseEntry(u)
  /\ stale' = stale \ {u}
  /\ IF stale' = {} THEN ReaperRests ELSE UNCHANGED <<reaper, lock>>
  /\ UNCHANGED <<made, mounts, calls, down, closing>>

\* _shutdown cancels the reaper, which leaves the lock or its queue.
ShutdownBegins ==
  /\ down = "no" /\ down' = "queued"
  /\ reaper' = "off" /\ stale' = {}
  /\ lock' = Append(Without(lock, "reaper"), "shutdown")
  /\ UNCHANGED <<service, entries, calls, closing>>

ShutdownTakes ==
  /\ down = "queued" /\ Holds("shutdown")
  /\ down' = "pausing" /\ closing' = Pooled
  /\ pool' = [u \in Users |-> None] /\ lru' = <<>> /\ idle' = {}
  /\ Release
  /\ UNCHANGED <<service, calls, reaper, stale>>

ShutdownPauses(b) ==
  /\ b \in closing /\ closing' = closing \ {b}
  /\ Pause(b)
  /\ UNCHANGED <<made, mounts, entries, lock, calls, reaper, stale, down>>

\* A sandbox reaches its timeout or fails.
Dies(b) ==
  /\ b \in live
  /\ live' = live \ {b} /\ orphans' = orphans \ {b}
  /\ UNCHANGED <<made, mounts, entries, lock, calls, closer>>

\* sandbox_idle_minutes pass for the entry used least recently.
Ages ==
  /\ \E i \in DOMAIN lru : /\ lru[i] \notin idle /\ \A j \in 1 .. i - 1 : lru[j] \in idle
                           /\ idle' = idle \cup {lru[i]}
  /\ UNCHANGED <<service, pool, lru, lock, calls, closer>>

-----------------------------------------------------------------------------
CallStep(c) == LookUp(c) \/ Renewed(c) \/ Created(c) \/ CreateRaises(c) \/ Evict(c)
ReaperStep == ReaperWakes \/ ReaperLooks \/ \E u \in Users : ReaperPauses(u)
ShutdownStep == ShutdownTakes \/ \E b \in Boxes : ShutdownPauses(b)

Next ==
  \/ \E c \in Callers : CallStep(c) \/ \E u \in Users : Begin(c, u)
  \/ ReaperStep \/ ShutdownBegins \/ ShutdownStep
  \/ Ages \/ \E b \in Boxes : Dies(b)

\* The loop runs what is ready, and every request to the service ends.
Fairness ==
  /\ \A c \in Callers : WF_vars(CallStep(c))
  /\ WF_vars(ReaperStep) /\ WF_vars(ShutdownStep)

Spec == Init /\ [][Next]_vars /\ Fairness

-----------------------------------------------------------------------------
(* Properties *)

\* _POOL and what is kept about it agree whenever somebody looks: calls work
\* on it only with the lock, entries are ordered and idle once each, and the
\* reaper pauses none that has left meanwhile.
PoolOK ==
  /\ TypeOK
  /\ \A u \in Users : pool[u] # None <=> \E i \in 1 .. Len(lru) : lru[i] = u
  /\ \A i, j \in 1 .. Len(lru) : lru[i] = lru[j] => i = j
  /\ \A u \in idle \cup stale : pool[u] # None
  /\ \A c \in Callers : stage[c] \in {"renew", "create", "cap"} => Holds(c)
  /\ reaper = "pausing" => Holds("reaper")

\* No sandbox runs that nothing will pause: it is in the pool, in the hands
\* of the shutdown, or a failed call has left it to the service's timeout.
NothingForgotten == live \subseteq Pooled \cup orphans \cup closing

\* sandbox_max_live holds outside _acquire, and by one more inside, for the
\* sandboxes whose pause has not failed.
CapHolds ==
  LET kept == Cardinality(live \ (orphans \cup closing))
  IN /\ kept <= MaxLive + 1
     /\ (\A c \in Callers : stage[c] # "cap") => kept <= MaxLive

\* The pool is within its cap, and whole whenever somebody looks at it.
PoolIsKept == PoolOK /\ CapHolds

\* Every acquire ends, and leaves _LOCK to the others.
AcquiresEnd == \A c \in Callers : stage[c] # "idle" ~> stage[c] = "idle"

\* An idle sandbox is used again or leaves the pool, until the shutdown.
IdleLeaves == \A u \in Users : u \in idle ~> (u \notin idle \/ down # "no")

\* For each user the pool keeps the promise of SandboxEntry.
BoxesOf(u) == {b \in 1 .. made : mounts[b] = u}
Entry(u) == INSTANCE SandboxEntry WITH
  made <- BoxesOf(u), live <- live \cap BoxesOf(u),
  lost <- (orphans \cup closing) \cap live \cap BoxesOf(u), entry <- pool[u]
EntryStep(u) == Entry(u)!EntryNext \/ UNCHANGED Entry(u)!pooled
ImplementsEntry ==
  (\A u \in Users : Entry(u)!EntryInit) /\ [][\A u \in Users : EntryStep(u)]_vars
=============================================================================
