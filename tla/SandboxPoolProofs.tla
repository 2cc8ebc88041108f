--------------------------- MODULE SandboxPoolProofs ---------------------------
(***************************************************************************)
(* The pool stays whole and within its cap, forgets no sandbox, and gives  *)
(* each user what SandboxEntry promises: for any users, callers, cap and   *)
(* number of sandboxes, and any failures of the sandbox service.           *)
(***************************************************************************)
EXTENDS SandboxPool, FiniteSetTheorems, TLAPS

Occurs(x, q) == \E i \in 1 .. Len(q) : q[i] = x
Unique(q) == \A i, j \in 1 .. Len(q) : q[i] = q[j] => i = j

\* Who is at _LOCK, and who has gone past its acquire.
Busy == {"renew", "create", "cap"}
At(a) == CASE a = "reaper" -> reaper \in {"queued", "pausing"}
           [] a = "shutdown" -> down = "queued"
           [] OTHER -> stage[a] # "idle"
Inside(a) == CASE a = "reaper" -> reaper = "pausing"
               [] a = "shutdown" -> FALSE
               [] OTHER -> stage[a] \in Busy
LockOK ==
  /\ Unique(lock)
  /\ \A a \in Actors : (Occurs(a, lock) <=> At(a)) /\ (Inside(a) => Holds(a))

\* The entries and their order, and what a call has found out about them: while it
\* creates there is no entry, while it enforces the cap there is one too many.
EntriesOK ==
  /\ Unique(lru)
  /\ \A u \in Users : pool[u] # None <=> Occurs(u, lru)
  /\ \A u \in idle \cup stale : pool[u] # None
  /\ stale # {} => reaper = "pausing"
CallsOK ==
  /\ \A c \in Callers :
       /\ stage[c] # "idle" => user[c] \in Users
       /\ stage[c] = "create" => pool[user[c]] = None
       /\ stage[c] = "cap" => Len(lru) = MaxLive + 1
  /\ (\A c \in Callers : stage[c] # "cap") => Len(lru) <= MaxLive

\* An entry is a sandbox of its user that no failed call and no shutdown has.
ServiceOK ==
  /\ NothingForgotten
  /\ down # "pausing" => closing = {}
  /\ \A u \in Users : pool[u] # None => /\ mounts[pool[u]] = u
                                        /\ pool[u] \notin orphans \cup closing

PoolInv == TypeOK /\ LockOK /\ EntriesOK /\ CallsOK /\ ServiceOK

-----------------------------------------------------------------------------
(* Queues *)

\* A newcomer at the end.
LEMMA AppendFacts ==
  ASSUME NEW S, NEW q \in Seq(S), NEW x \in S, Unique(q), ~ Occurs(x, q)
  PROVE  /\ Append(q, x) \in Seq(S) /\ Unique(Append(q, x)) /\ Len(Append(q, x)) = Len(q) + 1
         /\ \A y : Occurs(y, Append(q, x)) <=> Occurs(y, q) \/ y = x
         /\ q # <<>> => Head(Append(q, x)) = Head(q) /\ Append(q, x) # <<>>
<1> DEFINE r == Append(q, x)
<1>1. r \in Seq(S) /\ Len(r) = Len(q) + 1 /\ Len(q) \in Nat /\ r[Len(q) + 1] = x
  OBVIOUS
<1>2. \A i \in 1 .. Len(q) : r[i] = q[i]
  OBVIOUS
<1>3. q # <<>> => Head(r) = Head(q) /\ r # <<>>
  <2>1. q # <<>> => Len(q) >= 1
    OBVIOUS
  <2> QED  BY <1>1, <1>2, <2>1
<1> HIDE DEF r
<1>4. \A i \in 1 .. Len(r) : i \in 1 .. Len(q) \/ i = Len(q) + 1
  BY <1>1
<1>5. Unique(r)
  BY <1>1, <1>2, <1>4 DEF Unique, Occurs
<1>6. \A y : Occurs(y, r) <=> Occurs(y, q) \/ y = x
  BY <1>1, <1>2, <1>4 DEF Occurs
<1> QED  BY <1>1, <1>3, <1>5, <1>6 DEF r

\* The first one leaves.
LEMMA TailFacts ==
  ASSUME NEW S, NEW q \in Seq(S), q # <<>>, Unique(q)
  PROVE  /\ Tail(q) \in Seq(S) /\ Unique(Tail(q))
         /\ \A x : Occurs(x, Tail(q)) <=> Occurs(x, q) /\ x # Head(q)
<1> DEFINE r == Tail(q)
<1>1. r \in Seq(S) /\ Len(r) = Len(q) - 1 /\ Len(q) \in Nat \ {0} /\ Head(q) = q[1]
  OBVIOUS
<1>2. \A i \in 1 .. Len(r) : r[i] = q[i + 1]
  OBVIOUS
<1> HIDE DEF r
<1>3. \A i \in 1 .. Len(r) : i + 1 \in 2 .. Len(q)
  BY <1>1
<1>4. Unique(r)
  <2> SUFFICES ASSUME NEW i \in 1 .. Len(r), NEW j \in 1 .. Len(r), r[i] = r[j] PROVE i = j
    BY DEF Unique
  <2>1. i + 1 \in 1 .. Len(q) /\ j + 1 \in 1 .. Len(q)
    BY <1>1
  <2> QED  BY <1>2, <2>1 DEF Unique
<1>5. ASSUME NEW x PROVE Occurs(x, r) <=> Occurs(x, q) /\ x # Head(q)
  <2>1. ASSUME Occurs(x, r) PROVE Occurs(x, q) /\ x # Head(q)
    <3>1. PICK i \in 1 .. Len(r) : r[i] = x
      BY <2>1 DEF Occurs
    <3>2. i + 1 \in 1 .. Len(q) /\ 1 \in 1 .. Len(q) /\ i + 1 # 1 /\ q[i + 1] = x
      BY <1>1, <1>2, <3>1
    <3> QED  BY <1>1, <3>2 DEF Occurs, Unique
  <2>2. ASSUME Occurs(x, q), x # Head(q) PROVE Occurs(x, r)
    <3>1. PICK i \in 1 .. Len(q) : q[i] = x
      BY <2>2 DEF Occurs
    <3>2. i - 1 \in 1 .. Len(r) /\ (i - 1) + 1 = i
      BY <1>1, <2>2, <3>1
    <3>3. r[i - 1] = x
      BY <1>2, <3>1, <3>2
    <3> QED  BY <3>2, <3>3 DEF Occurs
  <2> QED  BY <2>1, <2>2
<1> QED  BY <1>1, <1>4, <1>5 DEF r

\* One leaves, wherever it is.
LEMMA WithoutFacts ==
  ASSUME NEW S, NEW q \in Seq(S), NEW x, Unique(q)
  PROVE  /\ Without(q, x) \in Seq(S) /\ Unique(Without(q, x))
         /\ \A y : Occurs(y, Without(q, x)) <=> Occurs(y, q) /\ y # x
         /\ Len(Without(q, x)) = IF Occurs(x, q) THEN Len(q) - 1 ELSE Len(q)
         /\ q # <<>> /\ Head(q) # x => Without(q, x) # <<>> /\ Head(Without(q, x)) = Head(q)
<1> DEFINE at == {i \in DOMAIN q : q[i] = x}
           n == Len(q)
           r == Without(q, x)
<1>1. n \in Nat /\ DOMAIN q = 1 .. n /\ \A i \in 1 .. n : q[i] \in S
  OBVIOUS
<1>2. CASE ~ Occurs(x, q)
  <2>1. at = {}
    BY <1>1, <1>2 DEF Occurs
  <2>2. r = q
    BY <2>1 DEF Without
  <2> QED  BY <1>2, <2>2 DEF Occurs
<1>3. CASE Occurs(x, q)
  <2>1. PICK p \in 1 .. n : q[p] = x
    BY <1>3 DEF Occurs
  <2>2. at = {p}
    BY <1>1, <2>1 DEF Unique
  <2>3. r = [i \in 1 .. n - 1 |-> q[IF p <= i THEN i + 1 ELSE i]]
    BY <2>2 DEF Without
  <2> DEFINE from(i) == IF p <= i THEN i + 1 ELSE i
  <2>4. \A i \in 1 .. n - 1 : /\ from(i) \in 1 .. n /\ from(i) # p /\ r[i] = q[from(i)]
                              /\ \A j \in 1 .. n - 1 : from(i) = from(j) => i = j
    BY <1>1, <2>1, <2>3
  <2>5. r \in Seq(S) /\ Len(r) = n - 1
    <3>1. n - 1 \in Nat /\ \A i \in 1 .. n - 1 : q[from(i)] \in S
      BY <1>1, <2>1, <2>4
    <3> HIDE DEF from
    <3> QED  BY <2>3, <3>1 DEF from
  <2>6. Unique(r)
    <3> SUFFICES ASSUME NEW i \in 1 .. n - 1, NEW j \in 1 .. n - 1, r[i] = r[j] PROVE i = j
      BY <2>5 DEF Unique
    <3>1. from(i) = from(j)
      <4> HIDE DEF from
      <4> QED  BY <2>4 DEF Unique
    <3> QED  BY <2>4, <3>1
  <2>7. ASSUME NEW y PROVE Occurs(y, r) <=> Occurs(y, q) /\ y # x
    <3>1. ASSUME Occurs(y, r) PROVE Occurs(y, q) /\ y # x
      <4>1. PICK i \in 1 .. n - 1 : r[i] = y
        BY <2>5, <3>1 DEF Occurs
      <4>2. from(i) \in 1 .. n /\ from(i) # p /\ y = q[from(i)]
        BY <2>4, <4>1
      <4> HIDE DEF from
      <4> QED  BY <2>1, <4>2 DEF Occurs, Unique
    <3>2. ASSUME Occurs(y, q), y # x PROVE Occurs(y, r)
      <4>1. PICK k \in 1 .. n : q[k] = y
        BY <3>2 DEF Occurs
      <4>2. k # p
        BY <2>1, <3>2, <4>1
      <4> DEFINE i == IF p < k THEN k - 1 ELSE k
      <4>3. i \in 1 .. n - 1 /\ from(i) = k
        BY <1>1, <2>1, <4>2
      <4>4. r[i] = y
        BY <2>4, <4>1, <4>3
      <4> HIDE DEF i
      <4> QED  BY <2>5, <4>3, <4>4 DEF Occurs
    <3> QED  BY <3>1, <3>2
  <2>8. ASSUME q # <<>>, Head(q) # x PROVE r # <<>> /\ Head(r) = Head(q)
    <3>1. Head(q) = q[1] /\ p # 1
      BY <1>1, <2>1, <2>8
    <3>2. 1 \in 1 .. n - 1 /\ from(1) = 1
      BY <1>1, <2>1, <3>1
    <3>3. r[1] = q[1] /\ Len(r) >= 1
      BY <2>4, <2>5, <3>2
    <3> HIDE DEF r
    <3> QED  BY <2>5, <3>1, <3>3
  <2> HIDE DEF r
  <2> QED  BY <1>3, <2>5, <2>6, <2>7, <2>8 DEF r
<1> QED  BY <1>2, <1>3

LEMMA SeqIsFunction ==
  ASSUME NEW S, NEW q \in Seq(S), NEW n, Len(q) = n PROVE q \in [1 .. n -> S]
  OBVIOUS
LEMMA OccursNonempty == ASSUME NEW S, NEW q \in Seq(S), NEW x, Occurs(x, q) PROVE q # <<>>
  BY DEF Occurs
LEMMA HeadOccurs == ASSUME NEW S, NEW q \in Seq(S), q # <<>> PROVE Occurs(Head(q), q) /\ Head(q) \in S
<1>1. 1 \in 1 .. Len(q) /\ Head(q) = q[1]
  OBVIOUS
<1> QED  BY <1>1 DEF Occurs

-----------------------------------------------------------------------------
(* The lock *)

LEMMA Alone ==
  ASSUME LockOK, NEW a \in Actors, NEW b \in Actors, Holds(a), Inside(b)
  PROVE  a = b
  BY DEF LockOK, Holds

\* A caller among the actors.
LEMMA CallerAt ==
  ASSUME NEW c \in Callers
  PROVE  /\ c \in Actors /\ c # "reaper" /\ c # "shutdown"
         /\ (At(c) <=> stage[c] # "idle") /\ (At(c)' <=> stage'[c] # "idle")
         /\ (Inside(c) <=> stage[c] \in Busy) /\ (Inside(c)' <=> stage'[c] \in Busy)
  BY PoolAssumption DEF Actors, At, Inside
LEMMA ServantAt ==
  /\ {"reaper", "shutdown"} \subseteq Actors
  /\ At("reaper") <=> reaper \in {"queued", "pausing"}
  /\ At("reaper")' <=> reaper' \in {"queued", "pausing"}
  /\ At("shutdown") <=> down = "queued"
  /\ At("shutdown")' <=> down' = "queued"
  /\ Inside("reaper") <=> reaper = "pausing"
  /\ Inside("reaper")' <=> reaper' = "pausing"
  /\ ~ Inside("shutdown") /\ ~ Inside("shutdown")'
  BY DEF Actors, At, Inside

\* Others stay where they are when a caller goes on.
LEMMA CallerGoes ==
  ASSUME TypeOK, NEW c \in Callers, NEW place, Goes(c, place),
         UNCHANGED <<reaper, down>>
  PROVE  /\ c \in Actors
         /\ At(c)' <=> place # "idle"
         /\ Inside(c)' <=> place \in Busy
         /\ \A b \in Actors \ {c} : (At(b)' <=> At(b)) /\ (Inside(b)' <=> Inside(b))
<1>1. stage'[c] = place /\ \A b \in Callers \ {c} : stage'[b] = stage[b]
  BY DEF TypeOK, Goes
<1>2. \A b \in Actors \ {c} : b \in Callers \ {c} \/ b = "reaper" \/ b = "shutdown"
  BY DEF Actors
<1> QED  BY <1>1, <1>2, CallerAt, ServantAt

\* Somebody queues.
LEMMA LockJoins ==
  ASSUME LockOK, lock \in Seq(Actors), NEW a \in Actors, ~ At(a), Queue(a),
         At(a)', ~ Inside(a)',
         \A b \in Actors \ {a} : (At(b)' <=> At(b)) /\ (Inside(b)' => Inside(b))
  PROVE  LockOK' /\ lock' \in Seq(Actors)
<1>1. Unique(lock) /\ ~ Occurs(a, lock) /\ lock' = Append(lock, a)
  BY DEF LockOK, Queue
<1>2. /\ lock' \in Seq(Actors) /\ Unique(lock')
      /\ \A b : Occurs(b, lock') <=> Occurs(b, lock) \/ b = a
      /\ lock # <<>> => Head(lock') = Head(lock) /\ lock' # <<>>
  BY <1>1, AppendFacts
<1>3. ASSUME NEW b \in Actors PROVE (Occurs(b, lock') <=> At(b)') /\ (Inside(b)' => Holds(b)')
  <2>1. Occurs(b, lock') <=> At(b)'
    BY <1>2 DEF LockOK
  <2>2. ASSUME Inside(b)' PROVE Holds(b)'
    <3>1. Holds(b)
      BY <2>2 DEF LockOK
    <3> QED  BY <1>2, <3>1 DEF Holds
  <2> QED  BY <2>1, <2>2
<1> QED  BY <1>2, <1>3 DEF LockOK

\* The holder leaves.
LEMMA LockLeft ==
  ASSUME LockOK, lock \in Seq(Actors), NEW a \in Actors, Holds(a), Release,
         ~ At(a)', ~ Inside(a)',
         \A b \in Actors \ {a} : (At(b)' <=> At(b)) /\ (Inside(b)' => Inside(b))
  PROVE  LockOK' /\ lock' \in Seq(Actors)
<1>1. Unique(lock) /\ lock # <<>> /\ Head(lock) = a /\ lock' = Tail(lock)
  BY DEF LockOK, Holds, Release
<1>2. /\ lock' \in Seq(Actors) /\ Unique(lock')
      /\ \A b : Occurs(b, lock') <=> Occurs(b, lock) /\ b # a
  BY <1>1, TailFacts
<1>3. \A b \in Actors : ~ Inside(b)'
  BY Alone
<1> QED  BY <1>2, <1>3 DEF LockOK

\* Nobody comes or leaves.
LEMMA LockStays ==
  ASSUME LockOK, lock \in Seq(Actors), lock' = lock,
         \A b \in Actors : (At(b)' <=> At(b)) /\ (Inside(b)' => Inside(b) \/ Holds(b))
  PROVE  LockOK' /\ lock' \in Seq(Actors)
  BY DEF LockOK, Holds

\* A caller inside goes on, or returns.
LEMMA CallerGoesOn ==
  ASSUME TypeOK, LockOK, NEW c \in Callers, Holds(c), NEW place \in Busy, Goes(c, place),
         UNCHANGED <<lock, reaper, down>>
  PROVE  LockOK' /\ lock' \in Seq(Actors)
<1>1. At(c)
  <2>1. Occurs(c, lock)
    BY HeadOccurs DEF TypeOK, Holds
  <2> QED  BY <2>1, CallerAt DEF LockOK
<1>2. \A b \in Actors : (At(b)' <=> At(b)) /\ (Inside(b)' => Inside(b) \/ Holds(b))
  BY <1>1, CallerGoes DEF Busy
<1> QED  BY <1>2, LockStays DEF TypeOK

LEMMA CallerReturns ==
  ASSUME TypeOK, LockOK, NEW c \in Callers, Holds(c), Return(c), UNCHANGED <<reaper, down>>
  PROVE  LockOK' /\ lock' \in Seq(Actors)
<1>1. Goes(c, "idle") /\ Release
  BY DEF Return
<1>2. /\ c \in Actors /\ ~ At(c)' /\ ~ Inside(c)'
      /\ \A b \in Actors \ {c} : (At(b)' <=> At(b)) /\ (Inside(b)' <=> Inside(b))
  BY <1>1, CallerGoes DEF Busy
<1> QED  BY <1>1, <1>2, LockLeft DEF TypeOK

\* Nobody moves.
LEMMA NobodyMoves ==
  ASSUME TypeOK, LockOK, UNCHANGED <<lock, stage, reaper, down>>
  PROVE  LockOK' /\ lock' \in Seq(Actors)
  BY LockStays DEF TypeOK, At, Inside

\* What a caller inside knows.
LEMMA BusyHolds ==
  ASSUME LockOK, NEW c \in Callers, stage[c] \in Busy
  PROVE  Holds(c)
  BY CallerAt DEF LockOK
LEMMA OnlyBusy ==
  ASSUME LockOK, NEW a \in Actors, Holds(a)
  PROVE  /\ \A c \in Callers : stage[c] \in Busy => c = a
         /\ reaper = "pausing" => a = "reaper"
  BY Alone, CallerAt, ServantAt

-----------------------------------------------------------------------------
(* The entries and their sandboxes *)

Promised == \A v \in Users : EntryStep(v)

\* A step that concerns no sandbox.
LEMMA Stutters ==
  ASSUME UNCHANGED <<service, pool, closing>>
  PROVE  Promised
  BY DEF service, Promised, EntryStep, Entry!pooled, BoxesOf

LEMMA ServiceKept ==
  ASSUME ServiceOK, UNCHANGED <<service, pool, closing>>, down' = "pausing" => closing = {} \/ down = "pausing",
         down = "pausing" => down' = "pausing"
  PROVE  ServiceOK'
  BY DEF ServiceOK, service, NothingForgotten, Pooled

\* The sandboxes of two users are different.
LEMMA EntriesDiffer ==
  ASSUME ServiceOK, NEW u \in Users, NEW v \in Users, u # v, pool[u] # None
  PROVE  pool[u] # pool[v]
  BY DEF ServiceOK

\* An entry is paused.
LEMMA EntryPaused ==
  ASSUME TypeOK, EntriesOK, ServiceOK, NEW u \in Users, pool[u] # None, PauseEntry(u),
         UNCHANGED <<made, mounts, closing, down>>
  PROVE  /\ live' \in SUBSET (1 .. made) /\ orphans' \in SUBSET live'
         /\ pool' \in [Users -> 0 .. made] /\ idle' \in SUBSET Users
         /\ lru' \in Seq(Users) /\ Unique(lru') /\ Len(lru') = Len(lru) - 1
         /\ \A v \in Users : pool'[v] # None <=> Occurs(v, lru')
         /\ \A v \in idle' : pool'[v] # None
         /\ pool'[u] = None /\ \A v \in Users \ {u} : pool'[v] = pool[v]
         /\ ServiceOK' /\ Promised
<1> DEFINE b == pool[u]
<1>0. /\ pool \in [Users -> 0 .. made] /\ lru \in Seq(Users) /\ idle \subseteq Users
      /\ live \subseteq 1 .. made /\ orphans \subseteq live /\ b \in 1 .. made
      /\ made \in Nat
  BY DEF TypeOK, None
<1>1. /\ \/ live' = live \ {b} /\ orphans' = orphans \ {b}
         \/ b \in live /\ orphans' = orphans \cup {b} /\ live' = live
      /\ pool' = [pool EXCEPT ![u] = None]
      /\ lru' = Without(lru, u) /\ idle' = idle \ {u}
  BY DEF PauseEntry, Pause
<1>2. pool'[u] = None /\ \A v \in Users \ {u} : pool'[v] = pool[v]
  BY <1>0, <1>1
<1>3. /\ lru' \in Seq(Users) /\ Unique(lru') /\ Len(lru') = Len(lru) - 1
      /\ \A v : Occurs(v, lru') <=> Occurs(v, lru) /\ v # u
  BY <1>0, <1>1, WithoutFacts DEF EntriesOK
<1>4. \A v \in Users : pool'[v] # None <=> Occurs(v, lru')
  BY <1>2, <1>3 DEF EntriesOK
<1>5. \A v \in idle' : pool'[v] # None
  BY <1>0, <1>1, <1>2 DEF EntriesOK
<1>6. pool' \in [Users -> 0 .. made]
  BY <1>0, <1>1 DEF None
<1>7. live' \in SUBSET (1 .. made) /\ orphans' \in SUBSET live'
  BY <1>0, <1>1
<1>8. b \notin orphans \cup closing /\ mounts[b] = u
  BY DEF ServiceOK
<1>9. ServiceOK'
  <2>1. ASSUME NEW x \in live' PROVE x \in Pooled' \cup orphans' \cup closing
    <3>1. x \in live /\ x \in Pooled \cup orphans \cup closing
      BY <1>1 DEF ServiceOK, NothingForgotten
    <3>2. CASE x = b
      BY <1>1, <2>1, <3>2
    <3>3. CASE x \in Pooled /\ x # b
      <4>1. PICK v \in Users : x = pool[v] /\ v # u /\ x # None
        BY <3>3 DEF Pooled
      <4> QED  BY <1>2, <4>1 DEF Pooled
    <3>4. CASE x \in orphans \cup closing /\ x # b
      BY <1>1, <3>4
    <3> QED  BY <3>1, <3>2, <3>3, <3>4
  <2>2. ASSUME NEW v \in Users, pool'[v] # None
        PROVE  mounts[pool'[v]] = v /\ pool'[v] \notin orphans' \cup closing
    <3>1. v # u /\ pool'[v] = pool[v]
      BY <1>2, <2>2
    <3>2. pool[v] # b
      BY <3>1, EntriesDiffer
    <3> QED  BY <1>1, <2>2, <3>1, <3>2 DEF ServiceOK
  <2> QED  BY <2>1, <2>2 DEF ServiceOK, NothingForgotten
<1>10. Promised
  <2> SUFFICES ASSUME NEW v \in Users PROVE EntryStep(v)
    BY DEF Promised
  <2>1. BoxesOf(v)' = BoxesOf(v)
    BY DEF BoxesOf
  <2>2. CASE v = u
    <3>1. b \in BoxesOf(u) /\ b # 0
      BY <1>0, <1>8 DEF BoxesOf
    <3>2. Entry(u)!Leaves
      BY <1>0, <1>1, <1>2, <1>8, <2>1, <2>2, <3>1 DEF Entry!Leaves, Entry!None, None
    <3> QED  BY <2>2, <3>2 DEF EntryStep, Entry!EntryNext
  <2>3. CASE v # u
    <3>1. b \notin BoxesOf(v)
      BY <1>8, <2>3 DEF BoxesOf
    <3>2. UNCHANGED Entry(v)!pooled
      BY <1>1, <1>2, <2>1, <2>3, <3>1 DEF Entry!pooled
    <3> QED  BY <3>2 DEF EntryStep
  <2> QED  BY <2>2, <2>3
<1> QED  BY <1>1, <1>0, <1>2, <1>3, <1>4, <1>5, <1>6, <1>7, <1>9, <1>10

\* A sandbox is created for the user of c, and becomes its entry or is nobody's.
LEMMA BoxCreated ==
  ASSUME TypeOK, ServiceOK, NEW c \in Callers, user[c] \in Users, pool[user[c]] = None,
         Creates(c), UNCHANGED <<closing, down>>,
         \/ pool' = [pool EXCEPT ![user[c]] = made'] /\ orphans' = orphans
         \/ pool' = pool /\ orphans' = orphans \cup {made'}
  PROVE  /\ made' \in 0 .. MaxBoxes /\ mounts' \in [1 .. made' -> Users]
         /\ live' \in SUBSET (1 .. made') /\ orphans' \in SUBSET live'
         /\ closing' \in SUBSET (1 .. made')
         /\ pool' \in [Users -> 0 .. made']
         /\ ServiceOK' /\ Promised
<1> DEFINE u == user[c]
           b == made + 1
<1>0. /\ made \in 0 .. MaxBoxes /\ MaxBoxes \in Nat /\ mounts \in [1 .. made -> Users]
      /\ pool \in [Users -> 0 .. made] /\ live \subseteq 1 .. made /\ orphans \subseteq live
      /\ closing \subseteq 1 .. made
  BY PoolAssumption DEF TypeOK
<1>1. made < MaxBoxes /\ made' = b /\ live' = live \cup {b} /\ mounts' = Append(mounts, u)
  BY DEF Creates
<1>2. b \in 1 .. MaxBoxes /\ b \notin live /\ b \notin orphans /\ b \notin closing /\ b # None
      /\ \A v \in Users : pool[v] # b
      /\ u \in Users /\ pool[u] = None /\ closing' = closing
  BY <1>0, <1>1 DEF None
<1>3. mounts' \in [1 .. made' -> Users] /\ mounts'[b] = u /\ \A i \in 1 .. made : mounts'[i] = mounts[i]
  <2>1. mounts \in Seq(Users) /\ Len(mounts) = made
    BY <1>0
  <2>2. /\ Append(mounts, u) \in Seq(Users) /\ Len(Append(mounts, u)) = made + 1
        /\ Append(mounts, u)[made + 1] = u
        /\ \A i \in 1 .. made : Append(mounts, u)[i] = mounts[i]
    BY <2>1
  <2>3. Append(mounts, u) \in [1 .. made + 1 -> Users]
    BY <2>2, SeqIsFunction
  <2> QED  BY <1>1, <2>2, <2>3
<1>4. /\ made' \in 0 .. MaxBoxes /\ live' \in SUBSET (1 .. made') /\ orphans' \in SUBSET live'
      /\ closing' \in SUBSET (1 .. made') /\ pool' \in [Users -> 0 .. made']
  <2>1. 1 .. made \subseteq 1 .. made' /\ 0 .. made \subseteq 0 .. made' /\ b \in 1 .. made'
        /\ b \in 0 .. made' /\ made' \in 0 .. MaxBoxes
    BY <1>0, <1>1
  <2>2. pool' \in [Users -> 0 .. made']
    <3>1. pool \in [Users -> 0 .. made']
      BY <1>0, <2>1
    <3> HIDE DEF b
    <3> QED  BY <1>1, <2>1, <3>1
  <2> HIDE DEF b
  <2> QED  BY <1>0, <1>1, <1>2, <2>1, <2>2
<1>5. \A v \in Users \ {u} : pool'[v] = pool[v]
  BY <1>0
<1>6. ServiceOK'
  <2>1. live' \subseteq Pooled' \cup orphans' \cup closing'
    <3>1. Pooled \subseteq Pooled'
      BY <1>5 DEF Pooled
    <3>2. b \in Pooled' \cup orphans'
      BY <1>0, <1>1, <1>2 DEF Pooled
    <3> QED  BY <1>1, <3>1, <3>2 DEF ServiceOK, NothingForgotten
  <2>2. ASSUME NEW v \in Users, pool'[v] # None
        PROVE  mounts'[pool'[v]] = v /\ pool'[v] \notin orphans' \cup closing'
    <3>1. CASE v = u
      <4>1. pool'[u] = b /\ orphans' = orphans
        BY <1>0, <1>1, <2>2, <3>1
      <4> QED  BY <1>2, <1>3, <3>1, <4>1
    <3>2. CASE v # u
      <4>1. pool'[v] = pool[v] /\ pool[v] \in 1 .. made /\ pool[v] # b
        BY <1>0, <1>2, <1>5, <2>2, <3>2 DEF None
      <4>2. orphans' \subseteq orphans \cup {b}
        BY <1>1
      <4> QED  BY <1>3, <2>2, <4>1, <4>2 DEF ServiceOK
    <3> QED  BY <3>1, <3>2
  <2> QED  BY <2>1, <2>2 DEF ServiceOK, NothingForgotten
<1>7. Promised
  <2> SUFFICES ASSUME NEW v \in Users PROVE EntryStep(v)
    BY DEF Promised
  <2>1. BoxesOf(v)' = IF v = u THEN BoxesOf(v) \cup {b} ELSE BoxesOf(v)
    BY <1>0, <1>1, <1>3 DEF BoxesOf
  <2>2. b \in Boxes \ BoxesOf(v) /\ b \in Boxes
    BY <1>0, <1>2 DEF Boxes, BoxesOf
  <2> HIDE DEF b
  <2>3. CASE v = u /\ pool' = [pool EXCEPT ![u] = made'] /\ orphans' = orphans
    <3>1. pool[v] = 0 /\ pool'[v] = b /\ BoxesOf(v)' = BoxesOf(v) \cup {b}
      BY <1>0, <1>1, <1>2, <2>1, <2>3 DEF None
    <3>2. live' \cap BoxesOf(v)' = (live \cap BoxesOf(v)) \cup {b}
      BY <1>1, <1>2, <2>2, <3>1
    <3>3. (orphans' \cup closing') \cap live' \cap BoxesOf(v)'
            = (orphans \cup closing) \cap live \cap BoxesOf(v)
      BY <1>1, <1>2, <2>2, <2>3, <3>1
    <3>4. Entry(v)!Creates(b)
      BY <2>2, <3>1, <3>2, <3>3 DEF Entry!Creates, Entry!None
    <3> QED  BY <2>2, <3>4 DEF EntryStep, Entry!EntryNext
  <2>4. CASE v = u /\ pool' = pool /\ orphans' = orphans \cup {made'}
    <3>1. pool[v] = 0 /\ pool'[v] = pool[v] /\ BoxesOf(v)' = BoxesOf(v) \cup {b}
      BY <1>2, <2>1, <2>4 DEF None
    <3>2. live' \cap BoxesOf(v)' = (live \cap BoxesOf(v)) \cup {b}
      BY <1>1, <1>2, <2>2, <3>1
    <3>3. (orphans' \cup closing') \cap live' \cap BoxesOf(v)'
            = ((orphans \cup closing) \cap live \cap BoxesOf(v)) \cup {b}
      BY <1>1, <1>2, <2>2, <2>4, <3>1
    <3>4. Entry(v)!Slips(b)
      BY <2>2, <3>1, <3>2, <3>3 DEF Entry!Slips, Entry!None
    <3> QED  BY <2>2, <3>4 DEF EntryStep, Entry!EntryNext
  <2>5. CASE v # u
    <3>1. UNCHANGED Entry(v)!pooled
      BY <1>1, <1>2, <1>5, <2>1, <2>2, <2>5 DEF Entry!pooled
    <3> QED  BY <3>1 DEF EntryStep
  <2> QED  BY <2>3, <2>4, <2>5
<1> QED  BY <1>3, <1>4, <1>6, <1>7

\* A sandbox stops: by itself, or because the shutdown pauses it.
LEMMA BoxGone ==
  ASSUME TypeOK, ServiceOK, NEW b, UNCHANGED <<made, mounts, pool>>,
         \/ /\ live' = live \ {b} /\ orphans' = orphans \ {b}
            /\ closing' \in {closing, closing \ {b}} /\ b \in live \cup closing
         \/ /\ b \in closing /\ b \in live /\ closing' = closing \ {b}
            /\ orphans' = orphans \cup {b} /\ live' = live,
         down' = down
  PROVE  /\ live' \in SUBSET (1 .. made) /\ orphans' \in SUBSET live'
         /\ closing' \in SUBSET (1 .. made)
         /\ ServiceOK' /\ Promised
<1>0. /\ live \subseteq 1 .. made /\ orphans \subseteq live /\ closing \subseteq 1 .. made
      /\ made \in Nat /\ made <= MaxBoxes /\ MaxBoxes \in Nat
  BY PoolAssumption DEF TypeOK
<1>1. /\ live' \in SUBSET (1 .. made) /\ orphans' \in SUBSET live'
      /\ closing' \in SUBSET (1 .. made)
  BY <1>0
<1>2. /\ orphans' \cup closing' \subseteq orphans \cup closing
      /\ live' \subseteq live
      /\ (live' \cap (orphans \cup closing)) \subseteq orphans' \cup closing'
  OBVIOUS
<1>3. ServiceOK'
  BY <1>2 DEF ServiceOK, NothingForgotten, Pooled
<1>4. Promised
  <2> SUFFICES ASSUME NEW v \in Users PROVE EntryStep(v)
    BY DEF Promised
  <2>1. BoxesOf(v)' = BoxesOf(v)
    BY DEF BoxesOf
  <2>2. CASE live' = live \ {b} /\ b \in live \cap BoxesOf(v)
    <3>1. b \in Boxes
      BY <1>0, <2>2 DEF Boxes
    <3>2. Entry(v)!Dies(b)
      BY <2>1, <2>2 DEF Entry!Dies
    <3> QED  BY <3>1, <3>2 DEF EntryStep, Entry!EntryNext
  <2>3. CASE ~ (live' = live \ {b} /\ b \in live \cap BoxesOf(v))
    <3>1. UNCHANGED Entry(v)!pooled
      BY <2>1, <2>3 DEF Entry!pooled
    <3> QED  BY <3>1 DEF EntryStep
  <2> QED  BY <2>2, <2>3
<1> QED  BY <1>1, <1>3, <1>4

-----------------------------------------------------------------------------
(* The steps of a call *)

Kept == PoolInv' /\ Promised

LEMMA BeginOK ==
  ASSUME PoolInv, NEW c \in Callers, NEW u \in Users, Begin(c, u)
  PROVE  Kept
<1> USE DEF PoolInv
<1>1. /\ stage[c] = "idle" /\ Goes(c, "wait") /\ user' = [user EXCEPT ![c] = u] /\ Queue(c)
      /\ UNCHANGED <<service, entries, closer>>
  BY DEF Begin
<1>2. LockOK' /\ lock' \in Seq(Actors)
  <2>1. /\ c \in Actors /\ ~ At(c) /\ At(c)' /\ ~ Inside(c)'
        /\ \A b \in Actors \ {c} : (At(b)' <=> At(b)) /\ (Inside(b)' <=> Inside(b))
    BY <1>1, CallerAt, CallerGoes DEF Busy, closer
  <2> QED  BY <1>1, <2>1, LockJoins DEF TypeOK
<1>3. TypeOK'
  BY <1>1, <1>2 DEF TypeOK, Goes, service, entries, closer
<1>4. EntriesOK'
  BY <1>1 DEF EntriesOK, entries, closer
<1>5. CallsOK'
  BY <1>1 DEF CallsOK, TypeOK, Goes, entries
<1>6. ServiceOK' /\ Promised
  BY <1>1, ServiceKept, Stutters DEF entries, closer
<1> QED  BY <1>2, <1>3, <1>4, <1>5, <1>6 DEF Kept

LEMMA LookUpOK ==
  ASSUME PoolInv, NEW c \in Callers, LookUp(c)
  PROVE  Kept
<1> USE DEF PoolInv
<1> DEFINE u == user[c]
<1>1. /\ stage[c] = "wait" /\ Holds(c) /\ u \in Users
      /\ UNCHANGED <<service, pool, lock, user, closer>>
  BY DEF LookUp, CallsOK
<1>2. \A d \in Callers : stage[d] \notin Busy
  BY <1>1, OnlyBusy, CallerAt DEF Busy
<1>3. Len(lru) <= MaxLive
  BY <1>2 DEF CallsOK, Busy
<1>4. ServiceOK' /\ Promised
  BY <1>1, ServiceKept, Stutters DEF closer
<1>5. CASE pool[u] # None /\ Touch(u) /\ Goes(c, "renew")
  <2>1. /\ Without(lru, u) \in Seq(Users) /\ Unique(Without(lru, u))
        /\ \A y : Occurs(y, Without(lru, u)) <=> Occurs(y, lru) /\ y # u
        /\ Len(Without(lru, u)) = Len(lru) - 1
    BY <1>1, <1>5, WithoutFacts DEF TypeOK, EntriesOK
  <2>2. /\ lru' \in Seq(Users) /\ Unique(lru') /\ Len(lru') = Len(lru)
        /\ \A y : Occurs(y, lru') <=> (Occurs(y, lru) /\ y # u) \/ y = u
    <3>1. Len(lru) \in Nat
      BY DEF TypeOK
    <3> QED  BY <1>1, <1>5, <2>1, <3>1, AppendFacts DEF Touch
  <2>3. LockOK' /\ lock' \in Seq(Actors)
    BY <1>1, <1>5, CallerGoesOn DEF Busy, closer
  <2>4. EntriesOK'
    BY <1>1, <1>5, <2>2 DEF EntriesOK, Touch, closer
  <2>5. CallsOK'
    <3>1. \A d \in Callers : stage'[d] \in {stage[d], "renew"} /\ (d # c => stage'[d] = stage[d])
      BY <1>5 DEF Goes, TypeOK
    <3> QED  BY <1>1, <1>2, <1>3, <2>2, <3>1 DEF CallsOK, Busy
  <2>6. TypeOK'
    BY <1>1, <1>5, <2>2, <2>3 DEF TypeOK, Goes, Touch, service, closer
  <2> QED  BY <1>4, <2>3, <2>4, <2>5, <2>6 DEF Kept
<1>6. CASE pool[u] = None /\ Goes(c, "create") /\ UNCHANGED <<lru, idle>>
  <2>1. LockOK' /\ lock' \in Seq(Actors)
    BY <1>1, <1>6, CallerGoesOn DEF Busy, closer
  <2>2. EntriesOK'
    BY <1>1, <1>6 DEF EntriesOK, closer
  <2>3. CallsOK'
    <3>1. \A d \in Callers : stage'[d] = IF d = c THEN "create" ELSE stage[d]
      BY <1>6 DEF Goes, TypeOK
    <3> QED  BY <1>1, <1>2, <1>3, <1>6, <3>1 DEF CallsOK, Busy
  <2>4. TypeOK'
    BY <1>1, <1>6, <2>1 DEF TypeOK, Goes, service, closer
  <2> QED  BY <1>4, <2>1, <2>2, <2>3, <2>4 DEF Kept
<1> QED  BY <1>5, <1>6 DEF LookUp

\* What a return leaves of the calls, once the pool is within its cap.
LEMMA ReturnCalls ==
  ASSUME TypeOK, LockOK, CallsOK, NEW c \in Callers, Holds(c), Goes(c, "idle"), Forget(c),
         Len(lru') <= MaxLive
  PROVE  /\ CallsOK' /\ stage' \in [Callers -> {"idle", "wait", "renew", "create", "cap"}]
         /\ user' \in [Callers -> Users \cup {"nobody"}]
<1>1. \A d \in Callers : d # c => /\ stage'[d] = stage[d] /\ user'[d] = user[d]
                                  /\ stage[d] \notin Busy
  BY OnlyBusy, CallerAt DEF TypeOK, Goes, Forget
<1>2. stage'[c] = "idle"
  BY DEF TypeOK, Goes
<1>3. CallsOK'
  BY <1>1, <1>2 DEF CallsOK, Busy
<1> QED  BY <1>3 DEF TypeOK, Goes, Forget

LEMMA RenewedOK ==
  ASSUME PoolInv, NEW c \in Callers, Renewed(c)
  PROVE  Kept
<1> USE DEF PoolInv
<1>1. /\ stage[c] = "renew" /\ Return(c) /\ UNCHANGED <<service, entries, closer>> /\ Holds(c)
  BY BusyHolds DEF Renewed, Busy
<1>2. LockOK' /\ lock' \in Seq(Actors)
  BY <1>1, CallerReturns DEF closer
<1>3. Len(lru') <= MaxLive
  <2>1. \A d \in Callers : stage[d] # "cap"
    BY <1>1, OnlyBusy, CallerAt DEF Busy
  <2> QED  BY <1>1, <2>1 DEF CallsOK, entries
<1>4. /\ CallsOK' /\ stage' \in [Callers -> {"idle", "wait", "renew", "create", "cap"}]
      /\ user' \in [Callers -> Users \cup {"nobody"}]
  BY <1>1, <1>3, ReturnCalls DEF Return
<1>5. TypeOK' /\ EntriesOK'
  BY <1>1, <1>2, <1>4 DEF TypeOK, EntriesOK, service, entries, closer
<1>6. ServiceOK' /\ Promised
  BY <1>1, ServiceKept, Stutters DEF entries, closer
<1> QED  BY <1>2, <1>4, <1>5, <1>6 DEF Kept

\* While c creates it is alone, and the pool within its cap.
LEMMA Creating ==
  ASSUME PoolInv, NEW c \in Callers, stage[c] = "create"
  PROVE  /\ Holds(c) /\ user[c] \in Users /\ pool[user[c]] = None
         /\ \A d \in Callers : d # c => stage[d] \notin Busy
         /\ Len(lru) <= MaxLive
<1> USE DEF PoolInv
<1>1. Holds(c)
  BY BusyHolds DEF Busy
<1>2. \A d \in Callers : d # c => stage[d] \notin Busy
  BY <1>1, OnlyBusy, CallerAt
<1>3. \A d \in Callers : stage[d] # "cap"
  BY <1>2 DEF Busy
<1> QED  BY <1>1, <1>2, <1>3 DEF CallsOK

LEMMA CreatedOK ==
  ASSUME PoolInv, NEW c \in Callers, Created(c)
  PROVE  Kept
<1> USE DEF PoolInv
<1> DEFINE u == user[c]
<1>1. /\ stage[c] = "create" /\ Creates(c) /\ pool' = [pool EXCEPT ![u] = made']
      /\ lru' = Append(lru, u) /\ UNCHANGED <<orphans, idle, closer>>
      /\ IF OverCap(lru') THEN Goes(c, "cap") /\ UNCHANGED <<lock, user>> ELSE Return(c)
  BY DEF Created, Creates
<1>2. /\ Holds(c) /\ u \in Users /\ pool[u] = None /\ Len(lru) <= MaxLive
      /\ \A d \in Callers : d # c => stage[d] \notin Busy
  BY <1>1, Creating
<1>3. /\ made' \in 0 .. MaxBoxes /\ mounts' \in [1 .. made' -> Users]
      /\ live' \in SUBSET (1 .. made') /\ orphans' \in SUBSET live'
      /\ closing' \in SUBSET (1 .. made')
      /\ pool' \in [Users -> 0 .. made']
      /\ ServiceOK' /\ Promised
  BY <1>1, <1>2, BoxCreated DEF closer
<1>4. /\ lru' \in Seq(Users) /\ Unique(lru') /\ Len(lru') = Len(lru) + 1
      /\ \A y : Occurs(y, lru') <=> Occurs(y, lru) \/ y = u
  BY <1>1, <1>2, AppendFacts DEF TypeOK, EntriesOK
<1>5. EntriesOK'
  <2>1. pool'[u] # None /\ \A v \in Users : v # u => pool'[v] = pool[v]
    BY <1>1, <1>2 DEF TypeOK, Creates, None
  <2>2. idle \subseteq Users /\ stale \subseteq Users /\ UNCHANGED <<idle, stale, reaper>>
    BY <1>1 DEF TypeOK, closer
  <2> QED  BY <1>4, <2>1, <2>2 DEF EntriesOK
<1>6. CASE OverCap(lru')
  <2>1. Goes(c, "cap") /\ UNCHANGED <<lock, user>> /\ Len(lru) \in Nat /\ MaxLive \in Nat
    BY <1>1, <1>6, PoolAssumption DEF TypeOK
  <2>2. Len(lru') = MaxLive + 1
    BY <1>2, <1>4, <1>6, <2>1 DEF OverCap
  <2>3. LockOK' /\ lock' \in Seq(Actors)
    BY <1>1, <1>2, <2>1, CallerGoesOn DEF Busy, closer
  <2>4. CallsOK'
    <3>1. \A d \in Callers : stage'[d] = IF d = c THEN "cap" ELSE stage[d]
      BY <2>1 DEF Goes, TypeOK
    <3> QED  BY <1>2, <2>1, <2>2, <3>1 DEF CallsOK, Busy
  <2>5. TypeOK'
    BY <1>1, <1>3, <1>4, <2>1, <2>3 DEF TypeOK, Goes, closer
  <2> QED  BY <1>3, <1>5, <2>3, <2>4, <2>5 DEF Kept
<1>7. CASE ~ OverCap(lru')
  <2>1. Return(c)
    BY <1>1, <1>7
  <2>2. LockOK' /\ lock' \in Seq(Actors)
    BY <1>1, <1>2, <2>1, CallerReturns DEF closer
  <2>3. Len(lru') <= MaxLive
    BY <1>4, <1>7, PoolAssumption DEF OverCap
  <2>4. /\ CallsOK' /\ stage' \in [Callers -> {"idle", "wait", "renew", "create", "cap"}]
        /\ user' \in [Callers -> Users \cup {"nobody"}]
    BY <1>2, <2>1, <2>3, ReturnCalls DEF Return
  <2>5. TypeOK'
    BY <1>1, <1>3, <1>4, <2>2, <2>4 DEF TypeOK, closer
  <2> QED  BY <1>3, <1>5, <2>2, <2>4, <2>5 DEF Kept
<1> QED  BY <1>6, <1>7

LEMMA CreateRaisesOK ==
  ASSUME PoolInv, NEW c \in Callers, CreateRaises(c)
  PROVE  Kept
<1> USE DEF PoolInv
<1>1. /\ stage[c] = "create" /\ Return(c) /\ UNCHANGED <<entries, closer>>
      /\ UNCHANGED service \/ (Creates(c) /\ orphans' = orphans \cup {made'})
  BY DEF CreateRaises, Raise
<1>2. /\ Holds(c) /\ user[c] \in Users /\ pool[user[c]] = None /\ Len(lru) <= MaxLive
  BY <1>1, Creating
<1>3. LockOK' /\ lock' \in Seq(Actors)
  BY <1>1, <1>2, CallerReturns DEF closer
<1>4. /\ CallsOK' /\ stage' \in [Callers -> {"idle", "wait", "renew", "create", "cap"}]
      /\ user' \in [Callers -> Users \cup {"nobody"}]
  BY <1>1, <1>2, ReturnCalls DEF Return, entries
<1>5. /\ made' \in 0 .. MaxBoxes /\ mounts' \in [1 .. made' -> Users]
      /\ live' \in SUBSET (1 .. made') /\ orphans' \in SUBSET live'
      /\ closing' \in SUBSET (1 .. made')
      /\ pool' \in [Users -> 0 .. made']
      /\ ServiceOK' /\ Promised
  <2>1. CASE UNCHANGED service
    BY <1>1, <2>1, ServiceKept, Stutters DEF TypeOK, service, entries, closer
  <2>2. CASE Creates(c) /\ orphans' = orphans \cup {made'}
    BY <1>1, <1>2, <2>2, BoxCreated DEF entries, closer
  <2> QED  BY <1>1, <2>1, <2>2
<1>6. TypeOK' /\ EntriesOK'
  BY <1>1, <1>3, <1>4, <1>5 DEF TypeOK, EntriesOK, entries, closer
<1> QED  BY <1>3, <1>4, <1>5, <1>6 DEF Kept

LEMMA EvictOK ==
  ASSUME PoolInv, NEW c \in Callers, Evict(c)
  PROVE  Kept
<1> USE DEF PoolInv
<1> DEFINE u == Head(lru)
<1>1. /\ stage[c] = "cap" /\ PauseEntry(u) /\ UNCHANGED <<made, mounts, closer>>
      /\ IF OverCap(lru') THEN UNCHANGED <<calls, lock>> ELSE Return(c)
  BY DEF Evict
<1>2. Holds(c) /\ Len(lru) = MaxLive + 1 /\ MaxLive \in Nat \ {0}
  BY <1>1, BusyHolds, PoolAssumption DEF CallsOK, Busy
<1>3. u \in Users /\ pool[u] # None
  <2>1. lru \in Seq(Users) /\ lru # <<>>
    BY <1>2 DEF TypeOK
  <2> QED  BY <2>1, HeadOccurs DEF EntriesOK
<1> HIDE DEF u
<1>4. stale = {}
  BY <1>2, OnlyBusy, CallerAt DEF EntriesOK
<1>5. /\ live' \in SUBSET (1 .. made) /\ orphans' \in SUBSET live'
      /\ pool' \in [Users -> 0 .. made] /\ idle' \in SUBSET Users
      /\ lru' \in Seq(Users) /\ Unique(lru') /\ Len(lru') = Len(lru) - 1
      /\ \A v \in Users : pool'[v] # None <=> Occurs(v, lru')
      /\ \A v \in idle' : pool'[v] # None
      /\ ServiceOK' /\ Promised
  BY <1>1, <1>3, EntryPaused DEF closer
<1>6. Len(lru') <= MaxLive /\ Return(c)
  BY <1>1, <1>2, <1>5 DEF OverCap
<1>7. LockOK' /\ lock' \in Seq(Actors)
  BY <1>1, <1>2, <1>6, CallerReturns DEF closer
<1>8. /\ CallsOK' /\ stage' \in [Callers -> {"idle", "wait", "renew", "create", "cap"}]
      /\ user' \in [Callers -> Users \cup {"nobody"}]
  BY <1>2, <1>6, ReturnCalls DEF Return
<1>9. TypeOK' /\ EntriesOK'
  BY <1>1, <1>4, <1>5, <1>7, <1>8 DEF TypeOK, EntriesOK, closer
<1> QED  BY <1>5, <1>7, <1>8, <1>9 DEF Kept

-----------------------------------------------------------------------------
(* The reaper, the shutdown and the service *)

\* The reaper or the shutdown moves, and no caller.
LEMMA ServantGoes ==
  ASSUME UNCHANGED stage
  PROVE  /\ \A c \in Callers : (At(c)' <=> At(c)) /\ (Inside(c)' <=> Inside(c))
         /\ down' = down => (At("shutdown")' <=> At("shutdown"))
         /\ reaper' = reaper => /\ At("reaper")' <=> At("reaper")
                                /\ Inside("reaper")' <=> Inside("reaper")
  BY CallerAt, ServantAt

LEMMA ReaperGoes ==
  ASSUME UNCHANGED <<stage, down>>
  PROVE  \A b \in Actors \ {"reaper"} : (At(b)' <=> At(b)) /\ (Inside(b)' <=> Inside(b))
  BY ServantGoes, ServantAt DEF Actors

\* The reaper is done with the lock.
LEMMA ReaperLeaves ==
  ASSUME TypeOK, LockOK, Holds("reaper"), ReaperRests, UNCHANGED <<stage, down>>
  PROVE  LockOK' /\ lock' \in Seq(Actors)
<1>1. reaper' = "asleep" /\ Release
  BY DEF ReaperRests
<1>2. "reaper" \in Actors /\ ~ At("reaper")' /\ ~ Inside("reaper")'
  BY <1>1, ServantAt
<1> QED  BY <1>1, <1>2, ReaperGoes, LockLeft DEF TypeOK

LEMMA ReaperWakesOK == ASSUME PoolInv, ReaperWakes PROVE Kept
<1> USE DEF PoolInv
<1>1. /\ reaper = "asleep" /\ reaper' = "queued" /\ Queue("reaper")
      /\ UNCHANGED <<service, entries, calls, stale, down, closing>>
  BY DEF ReaperWakes
<1>2. LockOK' /\ lock' \in Seq(Actors)
  <2>1. "reaper" \in Actors /\ ~ At("reaper") /\ At("reaper")' /\ ~ Inside("reaper")'
    BY <1>1, ServantAt
  <2>2. \A b \in Actors \ {"reaper"} : (At(b)' <=> At(b)) /\ (Inside(b)' <=> Inside(b))
    BY <1>1, ReaperGoes DEF calls
  <2> QED  BY <1>1, <2>1, <2>2, LockJoins DEF TypeOK
<1>3. TypeOK' /\ EntriesOK' /\ CallsOK'
  BY <1>1, <1>2 DEF TypeOK, EntriesOK, CallsOK, service, entries, calls
<1>4. ServiceOK' /\ Promised
  BY <1>1, ServiceKept, Stutters DEF entries
<1> QED  BY <1>2, <1>3, <1>4 DEF Kept

LEMMA ReaperLooksOK == ASSUME PoolInv, ReaperLooks PROVE Kept
<1> USE DEF PoolInv
<1>1. /\ reaper = "queued" /\ Holds("reaper") /\ stale' = idle
      /\ IF idle = {} THEN ReaperRests ELSE reaper' = "pausing" /\ UNCHANGED lock
      /\ UNCHANGED <<service, entries, calls, down, closing>>
  BY DEF ReaperLooks
<1>2. ServiceOK' /\ Promised
  BY <1>1, ServiceKept, Stutters DEF entries
<1>3. LockOK' /\ lock' \in Seq(Actors) /\ reaper' \in {"asleep", "pausing"}
      /\ (stale' # {} => reaper' = "pausing")
  <2>1. CASE idle = {}
    BY <1>1, <2>1, ReaperLeaves DEF calls, ReaperRests
  <2>2. CASE idle # {}
    <3>1. reaper' = "pausing" /\ lock' = lock
      BY <1>1, <2>2
    <3>2. \A b \in Actors : (At(b)' <=> At(b)) /\ (Inside(b)' => Inside(b) \/ Holds(b))
      BY <1>1, <3>1, ReaperGoes, ServantAt DEF calls
    <3> QED  BY <3>1, <3>2, LockStays DEF TypeOK
  <2> QED  BY <2>1, <2>2
<1>4. TypeOK' /\ EntriesOK' /\ CallsOK'
  BY <1>1, <1>3 DEF TypeOK, EntriesOK, CallsOK, service, entries, calls
<1> QED  BY <1>2, <1>3, <1>4 DEF Kept

LEMMA ReaperPausesOK == ASSUME PoolInv, NEW u \in Users, ReaperPauses(u) PROVE Kept
<1> USE DEF PoolInv
<1>1. /\ reaper = "pausing" /\ u \in stale /\ PauseEntry(u) /\ stale' = stale \ {u}
      /\ IF stale' = {} THEN ReaperRests ELSE UNCHANGED <<reaper, lock>>
      /\ UNCHANGED <<made, mounts, calls, down, closing>>
  BY DEF ReaperPauses
<1>2. Holds("reaper") /\ pool[u] # None
  BY <1>1, ServantAt DEF LockOK, EntriesOK
<1>3. /\ live' \in SUBSET (1 .. made) /\ orphans' \in SUBSET live'
      /\ pool' \in [Users -> 0 .. made] /\ idle' \in SUBSET Users
      /\ lru' \in Seq(Users) /\ Unique(lru') /\ Len(lru') = Len(lru) - 1
      /\ \A v \in Users : pool'[v] # None <=> Occurs(v, lru')
      /\ \A v \in idle' : pool'[v] # None
      /\ pool'[u] = None /\ \A v \in Users \ {u} : pool'[v] = pool[v]
      /\ ServiceOK' /\ Promised
  BY <1>1, <1>2, EntryPaused
<1>4. LockOK' /\ lock' \in Seq(Actors) /\ reaper' \in {"asleep", "pausing"}
      /\ (stale' # {} => reaper' = "pausing")
  <2>1. CASE stale' = {}
    BY <1>1, <1>2, <2>1, ReaperLeaves DEF calls, ReaperRests
  <2>2. CASE stale' # {}
    BY <1>1, <2>2, NobodyMoves DEF calls
  <2> QED  BY <2>1, <2>2
<1>5. EntriesOK'
  <2>1. \A v \in stale' : v \in Users /\ pool'[v] # None
    BY <1>1, <1>3 DEF TypeOK, EntriesOK
  <2> QED  BY <1>3, <1>4, <2>1 DEF EntriesOK
<1>6. CallsOK'
  <2>1. \A c \in Callers : stage[c] \notin Busy
    BY <1>2, OnlyBusy, CallerAt, ServantAt
  <2>2. Len(lru') <= MaxLive
    <3>1. Len(lru) <= MaxLive /\ Len(lru) \in Nat /\ MaxLive \in Nat
      BY <2>1, PoolAssumption DEF CallsOK, Busy, TypeOK
    <3> QED  BY <1>3, <3>1
  <2> QED  BY <1>1, <2>1, <2>2 DEF CallsOK, calls, Busy
<1>7. TypeOK'
  BY <1>1, <1>3, <1>4 DEF TypeOK, calls
<1> QED  BY <1>3, <1>4, <1>5, <1>6, <1>7 DEF Kept

LEMMA ShutdownBeginsOK == ASSUME PoolInv, ShutdownBegins PROVE Kept
<1> USE DEF PoolInv
<1> DEFINE q == Without(lock, "reaper")
<1>1. /\ down = "no" /\ down' = "queued" /\ reaper' = "off" /\ stale' = {}
      /\ lock' = Append(q, "shutdown")
      /\ UNCHANGED <<service, entries, calls, closing>>
  BY DEF ShutdownBegins
<1>2. /\ q \in Seq(Actors) /\ Unique(q)
      /\ \A y : Occurs(y, q) <=> Occurs(y, lock) /\ y # "reaper"
      /\ lock # <<>> /\ Head(lock) # "reaper" => q # <<>> /\ Head(q) = Head(lock)
  BY WithoutFacts DEF TypeOK, LockOK
<1>3. ~ Occurs("shutdown", q)
  BY <1>1, <1>2, ServantAt DEF LockOK
<1> HIDE DEF q
<1>4. /\ lock' \in Seq(Actors) /\ Unique(lock')
      /\ \A y : Occurs(y, lock') <=> Occurs(y, q) \/ y = "shutdown"
      /\ q # <<>> => Head(lock') = Head(q) /\ lock' # <<>>
  BY <1>1, <1>2, <1>3, AppendFacts, ServantAt
<1>5. LockOK'
  <2>1. ASSUME NEW c \in Callers
        PROVE  (Occurs(c, lock') <=> At(c)') /\ (Inside(c)' => Holds(c)')
    <3>1. /\ c # "reaper" /\ c # "shutdown" /\ c \in Actors
          /\ (At(c)' <=> At(c)) /\ (Inside(c)' <=> Inside(c))
      BY <1>1, CallerAt, ServantGoes DEF calls
    <3>2. Occurs(c, lock') <=> At(c)'
      BY <1>2, <1>4, <3>1 DEF LockOK
    <3>3. Inside(c)' => Holds(c)'
      BY <1>2, <1>4, <3>1 DEF LockOK, Holds
    <3> QED  BY <3>2, <3>3
  <2>2. Occurs("shutdown", lock') /\ At("shutdown")' /\ ~ Inside("shutdown")'
    BY <1>1, <1>4, ServantAt
  <2>3. ~ Occurs("reaper", lock') /\ ~ At("reaper")' /\ ~ Inside("reaper")'
    BY <1>1, <1>2, <1>4, ServantAt
  <2> QED  BY <1>4, <2>1, <2>2, <2>3 DEF LockOK, Actors
<1>6. TypeOK' /\ EntriesOK' /\ CallsOK'
  BY <1>1, <1>4 DEF TypeOK, EntriesOK, CallsOK, service, entries, calls
<1>7. ServiceOK' /\ Promised
  BY <1>1, ServiceKept, Stutters DEF entries
<1> QED  BY <1>5, <1>6, <1>7 DEF Kept

LEMMA ShutdownTakesOK == ASSUME PoolInv, ShutdownTakes PROVE Kept
<1> USE DEF PoolInv
<1>1. /\ down = "queued" /\ Holds("shutdown") /\ down' = "pausing" /\ closing' = Pooled
      /\ pool' = [u \in Users |-> None] /\ lru' = <<>> /\ idle' = {} /\ Release
      /\ UNCHANGED <<service, calls, reaper, stale>>
  BY DEF ShutdownTakes
<1>2. closing = {} /\ stale = {} /\ \A c \in Callers : stage[c] \notin Busy
  BY <1>1, OnlyBusy, CallerAt, ServantAt DEF ServiceOK, EntriesOK
<1>3. LockOK' /\ lock' \in Seq(Actors)
  <2>1. "shutdown" \in Actors /\ ~ At("shutdown")' /\ ~ Inside("shutdown")'
    BY <1>1, ServantAt
  <2>2. \A b \in Actors \ {"shutdown"} : (At(b)' <=> At(b)) /\ (Inside(b)' <=> Inside(b))
    BY <1>1, ServantGoes, ServantAt DEF Actors, calls
  <2> QED  BY <1>1, <2>1, <2>2, LockLeft DEF TypeOK
<1>4. Pooled \subseteq 1 .. made
  BY DEF TypeOK, Pooled, None
<1>5. TypeOK'
  BY <1>1, <1>3, <1>4 DEF TypeOK, service, calls, None
<1>6. EntriesOK'
  <2>1. Unique(lru') /\ \A v : ~ Occurs(v, lru')
    BY <1>1 DEF Unique, Occurs
  <2> QED  BY <1>1, <1>2, <2>1 DEF EntriesOK
<1>7. CallsOK'
  <2>1. Len(lru') = 0 /\ MaxLive \in Nat
    BY <1>1, PoolAssumption
  <2> QED  BY <1>1, <1>2, <2>1 DEF CallsOK, calls, Busy
<1>8. ServiceOK'
  BY <1>1, <1>2 DEF ServiceOK, NothingForgotten, service
<1>9. Promised
  <2> SUFFICES ASSUME NEW v \in Users PROVE EntryStep(v)
    BY DEF Promised
  <2> DEFINE b == pool[v]
  <2>1. BoxesOf(v)' = BoxesOf(v) /\ pool'[v] = None /\ live' = live /\ orphans' = orphans
        /\ closing' = Pooled
    BY <1>1 DEF BoxesOf, service
  <2>2. \A x \in Pooled : x \in BoxesOf(v) => x = b
    BY DEF ServiceOK, Pooled, BoxesOf
  <2>3. CASE b = None
    <3>1. Pooled \cap BoxesOf(v) = {}
      BY <2>2, <2>3 DEF Pooled
    <3>2. (orphans' \cup closing') \cap live' \cap BoxesOf(v)'
            = (orphans \cup closing) \cap live \cap BoxesOf(v)
      BY <1>2, <2>1, <3>1
    <3>3. UNCHANGED Entry(v)!pooled
      BY <1>1, <2>1, <2>3, <3>2 DEF Entry!pooled, service
    <3> QED  BY <3>3 DEF EntryStep
  <2>4. CASE b # None
    <3>1. b \in BoxesOf(v) /\ b \in Pooled /\ b \notin orphans
      BY <1>4, <2>4 DEF ServiceOK, Pooled, BoxesOf
    <3>2. (orphans' \cup closing') \cap live' \cap BoxesOf(v)'
            = ((orphans \cup closing) \cap live \cap BoxesOf(v)) \cup ({b} \cap live)
      BY <1>2, <2>1, <2>2, <3>1
    <3>3. Entry(v)!Leaves
      <4>1. CASE b \in live
        BY <2>1, <2>4, <3>1, <3>2, <4>1 DEF Entry!Leaves, Entry!None, None
      <4>2. CASE b \notin live
        BY <2>1, <2>4, <3>1, <3>2, <4>2 DEF Entry!Leaves, Entry!None, None
      <4> QED  BY <4>1, <4>2
    <3> QED  BY <3>3 DEF EntryStep, Entry!EntryNext
  <2> QED  BY <2>3, <2>4
<1> QED  BY <1>3, <1>5, <1>6, <1>7, <1>8, <1>9 DEF Kept

\* A step of the service alone.
LEMMA ServiceOnly ==
  ASSUME PoolInv, UNCHANGED <<entries, lock, calls, reaper, stale, down, made, mounts>>,
         live' \in SUBSET (1 .. made), orphans' \in SUBSET live',
         closing' \in SUBSET (1 .. made), ServiceOK', Promised
  PROVE  Kept
<1> USE DEF PoolInv
<1>1. LockOK'
  BY NobodyMoves DEF calls
<1>2. TypeOK' /\ EntriesOK' /\ CallsOK'
  BY DEF TypeOK, EntriesOK, CallsOK, entries, calls
<1> QED  BY <1>1, <1>2 DEF Kept

LEMMA ShutdownPausesOK == ASSUME PoolInv, NEW b, ShutdownPauses(b) PROVE Kept
<1>1. /\ b \in closing /\ closing' = closing \ {b} /\ Pause(b)
      /\ UNCHANGED <<made, mounts, entries, lock, calls, reaper, stale, down>>
  BY DEF ShutdownPauses
<1>2. /\ live' \in SUBSET (1 .. made) /\ orphans' \in SUBSET live'
      /\ closing' \in SUBSET (1 .. made) /\ ServiceOK' /\ Promised
  BY <1>1, BoxGone DEF Pause, PoolInv, entries
<1> QED  BY <1>1, <1>2, ServiceOnly

LEMMA DiesOK == ASSUME PoolInv, NEW b, Dies(b) PROVE Kept
<1>1. /\ b \in live /\ live' = live \ {b} /\ orphans' = orphans \ {b}
      /\ UNCHANGED <<made, mounts, entries, lock, calls, closer>>
  BY DEF Dies
<1>2. /\ live' \in SUBSET (1 .. made) /\ orphans' \in SUBSET live'
      /\ closing' \in SUBSET (1 .. made) /\ ServiceOK' /\ Promised
  BY <1>1, BoxGone DEF PoolInv, entries, closer
<1> QED  BY <1>1, <1>2, ServiceOnly DEF closer

LEMMA AgesOK == ASSUME PoolInv, Ages PROVE Kept
<1> USE DEF PoolInv
<1>1. /\ \E i \in DOMAIN lru : idle' = idle \cup {lru[i]}
      /\ UNCHANGED <<service, pool, lru, lock, calls, closer>>
  BY DEF Ages
<1>a. DOMAIN lru = 1 .. Len(lru)
  BY DEF TypeOK
<1>2. PICK i \in 1 .. Len(lru) : idle' = idle \cup {lru[i]}
  BY <1>1, <1>a
<1>3. lru[i] \in Users /\ pool[lru[i]] # None
  BY DEF TypeOK, EntriesOK, Occurs
<1>4. LockOK'
  BY <1>1, NobodyMoves DEF calls, closer
<1>5. TypeOK' /\ EntriesOK' /\ CallsOK'
  BY <1>1, <1>2, <1>3 DEF TypeOK, EntriesOK, CallsOK, service, calls, closer
<1>6. ServiceOK' /\ Promised
  BY <1>1, ServiceKept, Stutters DEF closer
<1> QED  BY <1>4, <1>5, <1>6 DEF Kept

-----------------------------------------------------------------------------
LEMMA InitOK == ASSUME Init PROVE PoolInv
<1> USE DEF Init
<1>1. TypeOK
  <2>1. mounts \in [1 .. made -> Users]
    OBVIOUS
  <2> QED  BY <2>1, PoolAssumption DEF TypeOK, None
<1>2. Unique(<<>>) /\ \A x : ~ Occurs(x, <<>>)
  BY DEF Unique, Occurs
<1>3. LockOK
  BY <1>2, CallerAt, ServantAt DEF LockOK, Actors, Busy
<1>4. EntriesOK /\ CallsOK
  BY <1>2, PoolAssumption DEF EntriesOK, CallsOK
<1>5. ServiceOK
  BY DEF ServiceOK, NothingForgotten
<1> QED  BY <1>1, <1>3, <1>4, <1>5 DEF PoolInv

LEMMA InitPromised == ASSUME Init, NEW u \in Users PROVE Entry(u)!EntryInit
  BY DEF Init, Entry!EntryInit, Entry!None, BoxesOf, None

LEMMA StepOK == ASSUME PoolInv, [Next]_vars PROVE Kept
<1>1. CASE \E c \in Callers : CallStep(c) \/ \E u \in Users : Begin(c, u)
  BY <1>1, BeginOK, LookUpOK, RenewedOK, CreatedOK, CreateRaisesOK, EvictOK DEF CallStep
<1>2. CASE ReaperStep
  BY <1>2, ReaperWakesOK, ReaperLooksOK, ReaperPausesOK DEF ReaperStep
<1>3. CASE ShutdownBegins \/ ShutdownStep
  BY <1>3, ShutdownBeginsOK, ShutdownTakesOK, ShutdownPausesOK DEF ShutdownStep
<1>4. CASE Ages \/ \E b \in Boxes : Dies(b)
  BY <1>4, AgesOK, DiesOK
<1>5. CASE UNCHANGED vars
  <2>1. LockOK'
    BY <1>5, NobodyMoves DEF vars, calls, closer, PoolInv
  <2>2. TypeOK' /\ EntriesOK' /\ CallsOK'
    BY <1>5 DEF vars, calls, closer, entries, service, PoolInv, TypeOK, EntriesOK, CallsOK
  <2>3. ServiceOK' /\ Promised
    BY <1>5, ServiceKept, Stutters DEF vars, closer, entries, PoolInv
  <2> QED  BY <2>1, <2>2, <2>3 DEF Kept, PoolInv
<1> QED  BY <1>1, <1>2, <1>3, <1>4, <1>5 DEF Next

\* The invariant the others follow from: who is at the lock, what a call with it
\* has found, and which sandbox each entry names.
THEOREM Invariance == Spec => []PoolInv
<1>1. PoolInv /\ [Next]_vars => PoolInv'
  BY StepOK DEF Kept
<1>2. Init => PoolInv
  BY InitOK
<1> QED  BY <1>1, <1>2, PTL DEF Spec

-----------------------------------------------------------------------------
(* What follows from it *)

LEMMA PoolIsWhole == ASSUME PoolInv PROVE PoolOK
<1> USE DEF PoolInv
<1>1. /\ \A u \in Users : pool[u] # None <=> \E i \in 1 .. Len(lru) : lru[i] = u
      /\ \A i, j \in 1 .. Len(lru) : lru[i] = lru[j] => i = j
      /\ \A u \in idle \cup stale : pool[u] # None
  BY DEF EntriesOK, Occurs, Unique
<1>2. \A c \in Callers : stage[c] \in {"renew", "create", "cap"} => Holds(c)
  BY BusyHolds DEF Busy
<1>3. reaper = "pausing" => Holds("reaper")
  BY ServantAt DEF LockOK, Actors
<1> QED  BY <1>1, <1>2, <1>3 DEF PoolOK

\* The sandboxes with an entry are as many as the entries at most.
LEMMA EntriesBound ==
  ASSUME PoolInv
  PROVE  IsFiniteSet(Pooled) /\ Cardinality(Pooled) <= Len(lru)
<1> USE DEF PoolInv
<1> DEFINE f == [i \in 1 .. Len(lru) |-> pool[lru[i]]]
<1>1. Len(lru) \in Nat /\ \A i \in 1 .. Len(lru) : lru[i] \in Users
  BY DEF TypeOK
<1>2. f \in [1 .. Len(lru) -> Pooled]
  <2> SUFFICES ASSUME NEW i \in 1 .. Len(lru) PROVE pool[lru[i]] \in Pooled
    OBVIOUS
  <2>1. pool[lru[i]] # None
    BY <1>1 DEF EntriesOK, Occurs
  <2> QED  BY <1>1, <2>1 DEF Pooled
<1>3. \A b \in Pooled : \E i \in 1 .. Len(lru) : f[i] = b
  <2> SUFFICES ASSUME NEW b \in Pooled PROVE \E i \in 1 .. Len(lru) : f[i] = b
    OBVIOUS
  <2>1. PICK u \in Users : pool[u] = b /\ pool[u] # None
    BY DEF Pooled
  <2>2. PICK i \in 1 .. Len(lru) : lru[i] = u
    BY <2>1 DEF EntriesOK, Occurs
  <2> QED  BY <2>1, <2>2
<1>4. f \in Surjection(1 .. Len(lru), Pooled)
  BY <1>2, <1>3 DEF Surjection
<1>5. IsFiniteSet(1 .. Len(lru))
  BY <1>1, FS_Interval
<1> HIDE DEF f
<1>6. IsFiniteSet(Pooled)
  BY <1>4, <1>5, FS_Surjection
<1>7. ExistsSurjection(1 .. Len(lru), Pooled)
  BY <1>4 DEF ExistsSurjection
<1> QED  BY <1>1, <1>6, <1>7, FS_SurjCardinalityBound

LEMMA PoolWithinCap == ASSUME PoolInv PROVE CapHolds
<1> USE DEF PoolInv
<1> DEFINE kept == live \ (orphans \cup closing)
<1>1. kept \in SUBSET Pooled
  BY DEF ServiceOK, NothingForgotten
<1>2. IsFiniteSet(kept) /\ Cardinality(kept) <= Cardinality(Pooled)
  BY <1>1, EntriesBound, FS_Subset
<1>3. Cardinality(kept) \in Nat /\ Cardinality(Pooled) \in Nat
  BY <1>2, EntriesBound, FS_CardinalityType
<1>4. Len(lru) \in Nat /\ MaxLive \in Nat
  BY PoolAssumption DEF TypeOK
<1>5. (\A c \in Callers : stage[c] # "cap") => Len(lru) <= MaxLive
  BY DEF CallsOK
<1>6. Len(lru) <= MaxLive + 1
  BY <1>4, <1>5 DEF CallsOK
<1> HIDE DEF kept
<1>7. /\ Cardinality(kept) <= MaxLive + 1
      /\ (\A c \in Callers : stage[c] # "cap") => Cardinality(kept) <= MaxLive
  BY <1>2, <1>3, <1>4, <1>5, <1>6, EntriesBound
<1> QED  BY <1>7 DEF CapHolds, kept

\* Whoever works on _POOL has the lock, entries are ordered and idle once
\* each, and no more than sandbox_max_live sandboxes are kept outside a call.
THEOREM PoolStaysKept == Spec => []PoolIsKept
<1>1. PoolInv => PoolIsKept
  BY PoolIsWhole, PoolWithinCap DEF PoolIsKept
<1> QED  BY <1>1, Invariance, PTL

\* Whatever fails, a sandbox that runs is in the pool, in the hands of the
\* shutdown, or left to the service's timeout by a call that failed.
THEOREM NoneForgotten == Spec => []NothingForgotten
<1>1. PoolInv => NothingForgotten
  BY DEF PoolInv, ServiceOK
<1> QED  BY <1>1, Invariance, PTL

\* Every step of the pool is, for each user, a step of SandboxEntry or none.
THEOREM PoolImplementsEntry == Spec => ImplementsEntry
<1>1. Init => \A u \in Users : Entry(u)!EntryInit
  BY InitPromised
<1>2. PoolInv /\ [Next]_vars => [\A u \in Users : EntryStep(u)]_vars
  BY StepOK DEF Kept, Promised
<1> QED  BY <1>1, <1>2, Invariance, PTL DEF Spec, ImplementsEntry
=============================================================================
