--------------------------- MODULE XaiOauthProofs ---------------------------
(***************************************************************************)
(* The lock of a model keeps its rotating tokens: for any models, requests *)
(* and number of refreshes, and any failures where the statement allows    *)
(* them.                                                                   *)
(***************************************************************************)
EXTENDS XaiOauth, TLAPS

Occurs(u, q) == \E i \in 1 .. Len(q) : q[i] = u
Unique(q) == \A i, j \in 1 .. Len(q) : i # j => q[i] # q[j]

\* Who is at a lock, and that whoever has gone past its acquire holds it.
Held == {"refresh", "store", "stored"}
LineOK(m) ==
  /\ Unique(lock[m])
  /\ \A t \in Tasks : Occurs(t, lock[m]) <=> pc[t] \in Inside /\ model[t] = m
HolderOK(t) ==
  /\ pc[t] \in Held \/ (pc[t] = "fresh" /\ query[t] # "none") => Holds(t)
  /\ query[t] # "none" => pc[t] \in {"specs", "fresh"}
LockInv == (\A m \in Models : LineOK(m)) /\ (\A t \in Tasks : HolderOK(t))

\* Nobody has a pair that was not issued, and a pair goes to xAI only when its
\* access token was expiring.
PairsInv ==
  /\ issued <= aged
  /\ \A m \in Models : rows[m] <= issued
  /\ \A found \in specs, m \in Models : found[m] <= issued
  /\ \A t \in Tasks :
       /\ query[t] = "read" => \A m \in Models : seen[t][m] <= issued
       /\ pc[t] = "refresh" => pair[t] <= issued /\ pair[t] < aged
       /\ pc[t] = "store" => pair[t] <= issued

\* With one model to the login: the working token is in its row, or with the
\* request that is about to store it.
StoredInv ==
  /\ \A t \in Tasks : pc[t] = "store" => pair[t] = issued
  /\ faults = 0 /\ (\A t \in Tasks : pc[t] # "store") => \A m \in Models : rows[m] = issued
OneModel == \E m : Models = {m}

-----------------------------------------------------------------------------
(* Queues *)

\* A newcomer at the end.
LEMMA AppendFacts ==
  ASSUME NEW S, NEW q \in Seq(S), NEW t \in S, Unique(q), ~ Occurs(t, q)
  PROVE  /\ Append(q, t) \in Seq(S) /\ Unique(Append(q, t))
         /\ \A u : Occurs(u, Append(q, t)) <=> Occurs(u, q) \/ u = t
         /\ q # <<>> => Head(Append(q, t)) = Head(q)
<1> DEFINE r == Append(q, t)
<1>1. r \in Seq(S) /\ Len(r) = Len(q) + 1 /\ Len(q) \in Nat /\ r[Len(q) + 1] = t
  OBVIOUS
<1>2. \A i \in 1 .. Len(q) : r[i] = q[i]
  OBVIOUS
<1>3. q # <<>> => Head(r) = Head(q)
  <2>1. q # <<>> => Len(q) >= 1
    OBVIOUS
  <2> QED  BY <1>1, <1>2, <2>1
<1> HIDE DEF r
<1>4. \A i \in 1 .. Len(r) : i \in 1 .. Len(q) \/ i = Len(q) + 1
  BY <1>1
<1>5. Unique(r)
  BY <1>1, <1>2, <1>4 DEF Unique, Occurs
<1>6. \A u : Occurs(u, r) <=> Occurs(u, q) \/ u = t
  BY <1>1, <1>2, <1>4 DEF Occurs
<1> QED  BY <1>1, <1>3, <1>5, <1>6 DEF r

\* The first one leaves.
LEMMA TailFacts ==
  ASSUME NEW S, NEW q \in Seq(S), q # <<>>, Unique(q)
  PROVE  /\ Tail(q) \in Seq(S) /\ Unique(Tail(q))
         /\ \A u : Occurs(u, Tail(q)) <=> Occurs(u, q) /\ u # Head(q)
<1> DEFINE r == Tail(q)
<1>1. r \in Seq(S) /\ Len(r) = Len(q) - 1 /\ Len(q) \in Nat \ {0} /\ Head(q) = q[1]
  OBVIOUS
<1>2. \A i \in 1 .. Len(r) : r[i] = q[i + 1]
  OBVIOUS
<1> HIDE DEF r
<1>3. \A i \in 1 .. Len(r) : i + 1 \in 2 .. Len(q)
  BY <1>1
<1>4. Unique(r)
  <2> SUFFICES ASSUME NEW i \in 1 .. Len(r), NEW j \in 1 .. Len(r), i # j PROVE r[i] # r[j]
    BY DEF Unique
  <2>1. i + 1 \in 1 .. Len(q) /\ j + 1 \in 1 .. Len(q) /\ i + 1 # j + 1
    BY <1>1
  <2> QED  BY <1>2, <2>1 DEF Unique
<1>5. ASSUME NEW u PROVE Occurs(u, r) <=> Occurs(u, q) /\ u # Head(q)
  <2>1. ASSUME Occurs(u, r) PROVE Occurs(u, q) /\ u # Head(q)
    <3>1. PICK i \in 1 .. Len(r) : r[i] = u
      BY <2>1 DEF Occurs
    <3>2. i + 1 \in 1 .. Len(q) /\ 1 \in 1 .. Len(q) /\ i + 1 # 1 /\ q[i + 1] = u
      BY <1>1, <1>2, <3>1
    <3> QED  BY <1>1, <3>2 DEF Occurs, Unique
  <2>2. ASSUME Occurs(u, q), u # Head(q) PROVE Occurs(u, r)
    <3>1. PICK i \in 1 .. Len(q) : q[i] = u
      BY <2>2 DEF Occurs
    <3>2. i - 1 \in 1 .. Len(r) /\ (i - 1) + 1 = i
      BY <1>1, <2>2, <3>1
    <3>3. r[i - 1] = u
      BY <1>2, <3>1, <3>2
    <3> QED  BY <3>2, <3>3 DEF Occurs
  <2> QED  BY <2>1, <2>2
<1> QED  BY <1>1, <1>4, <1>5 DEF r

\* A member is in a queue that is not empty, and a queue has one head.
LEMMA OccursNonempty == ASSUME NEW S, NEW q \in Seq(S), NEW u, Occurs(u, q) PROVE q # <<>>
  BY DEF Occurs
LEMMA EmptyQueue == ASSUME NEW u PROVE Unique(<<>>) /\ ~ Occurs(u, <<>>)
  BY DEF Occurs, Unique

-----------------------------------------------------------------------------
(* The three ways a step of request t treats its lock *)

\* t joins its lock.
LEMMA Joins ==
  ASSUME TypeOK, LockInv, NEW t \in Tasks, pc[t] = "specs", model' = model,
         pc' = [pc EXCEPT ![t] = "fresh"],
         query' = [query EXCEPT ![t] = "none"],
         lock' = [lock EXCEPT ![model[t]] = Append(@, t)]
  PROVE  LockInv' /\ lock' \in [Models -> Seq(Tasks)]
<1> DEFINE m == model[t]
           q == lock[m]
<1>0. /\ lock \in [Models -> Seq(Tasks)] /\ pc \in [Tasks -> {"idle", "specs"} \cup Inside]
      /\ model \in [Tasks -> Models] /\ DOMAIN query = Tasks /\ m \in Models /\ q \in Seq(Tasks)
  BY DEF TypeOK
<1>1. Unique(q) /\ ~ Occurs(t, q)
  BY <1>0 DEF LockInv, LineOK, Inside
<1>2. /\ Append(q, t) \in Seq(Tasks) /\ Unique(Append(q, t))
      /\ \A u : Occurs(u, Append(q, t)) <=> Occurs(u, q) \/ u = t
      /\ q # <<>> => Head(Append(q, t)) = Head(q)
  BY <1>0, <1>1, AppendFacts
<1>3. lock' \in [Models -> Seq(Tasks)]
  BY <1>0, <1>2
<1>4. ASSUME NEW n \in Models PROVE LineOK(n)'
  <2>1. CASE n = m
    <3>1. lock'[n] = Append(q, t)
      BY <1>0, <2>1
    <3> HIDE DEF m, q
    <3>2. \A u \in Tasks : Occurs(u, lock'[n]) <=> pc'[u] \in Inside /\ model'[u] = n
      BY <1>0, <1>2, <2>1, <3>1 DEF LockInv, LineOK, Inside, m, q
    <3>3. Unique(lock'[n])
      BY <1>2, <3>1
    <3> QED  BY <3>2, <3>3 DEF LineOK
  <2>2. CASE n # m
    <3>1. lock'[n] = lock[n]
      BY <1>0, <2>2
    <3>2. \A u \in Tasks : Occurs(u, lock'[n]) <=> pc'[u] \in Inside /\ model'[u] = n
      BY <1>0, <2>2, <3>1 DEF LockInv, LineOK, Inside
    <3>3. Unique(lock'[n])
      BY <3>1 DEF LockInv, LineOK
    <3> QED  BY <3>2, <3>3 DEF LineOK
  <2> QED  BY <2>1, <2>2
<1>5. ASSUME NEW u \in Tasks PROVE HolderOK(u)'
  <2>1. CASE u = t
    BY <1>0, <2>1 DEF HolderOK, Held
  <2>2. CASE u # t
    <3>1. pc'[u] = pc[u] /\ query'[u] = query[u]
      BY <1>0, <2>2
    <3>2. ASSUME pc[u] \in Held \/ (pc[u] = "fresh" /\ query[u] # "none") PROVE Holds(u)'
      <4>1. Holds(u) /\ Occurs(u, lock[model[u]]) /\ model[u] \in Models
        BY <1>0, <3>2 DEF LockInv, HolderOK, LineOK, Inside, Held
      <4>2. lock[model[u]] # <<>>
        BY <1>0, <4>1, OccursNonempty
      <4>3. Head(lock'[model[u]]) = Head(lock[model[u]])
        BY <1>0, <1>2, <4>1, <4>2
      <4> QED  BY <4>1, <4>3 DEF Holds
    <3> QED  BY <3>1, <3>2 DEF LockInv, HolderOK
  <2> QED  BY <2>1, <2>2
<1> QED  BY <1>3, <1>4, <1>5 DEF LockInv

\* t, which holds its lock, leaves it.
LEMMA Leaves ==
  ASSUME TypeOK, LockInv, NEW t \in Tasks, Holds(t), pc[t] \in Inside, model' = model,
         NEW place \in {"idle", "specs"}, pc' = [pc EXCEPT ![t] = place],
         query' = [query EXCEPT ![t] = "none"],
         Release(t)
  PROVE  LockInv' /\ lock' \in [Models -> Seq(Tasks)]
<1> DEFINE m == model[t]
           q == lock[m]
<1>0. /\ lock \in [Models -> Seq(Tasks)] /\ pc \in [Tasks -> {"idle", "specs"} \cup Inside]
      /\ model \in [Tasks -> Models] /\ DOMAIN query = Tasks /\ m \in Models /\ q \in Seq(Tasks)
      /\ lock' = [lock EXCEPT ![m] = Tail(@)]
  BY DEF TypeOK, Release
<1>1. Unique(q) /\ Occurs(t, q) /\ Head(q) = t
  BY <1>0 DEF LockInv, LineOK, Holds
<1>2. q # <<>>
  BY <1>0, <1>1, OccursNonempty
<1>3. /\ Tail(q) \in Seq(Tasks) /\ Unique(Tail(q))
      /\ \A u : Occurs(u, Tail(q)) <=> Occurs(u, q) /\ u # t
  BY <1>0, <1>1, <1>2, TailFacts
<1>4. lock' \in [Models -> Seq(Tasks)]
  BY <1>0, <1>3
<1>5. ASSUME NEW n \in Models PROVE LineOK(n)'
  <2>1. CASE n = m
    <3>1. lock'[n] = Tail(q)
      BY <1>0, <2>1
    <3> HIDE DEF m, q
    <3>2. \A u \in Tasks : Occurs(u, lock'[n]) <=> pc'[u] \in Inside /\ model'[u] = n
      BY <1>0, <1>3, <2>1, <3>1 DEF LockInv, LineOK, Inside, m, q
    <3>3. Unique(lock'[n])
      BY <1>3, <3>1
    <3> QED  BY <3>2, <3>3 DEF LineOK
  <2>2. CASE n # m
    <3>1. lock'[n] = lock[n]
      BY <1>0, <2>2
    <3>2. \A u \in Tasks : Occurs(u, lock'[n]) <=> pc'[u] \in Inside /\ model'[u] = n
      BY <1>0, <2>2, <3>1 DEF LockInv, LineOK, Inside
    <3>3. Unique(lock'[n])
      BY <3>1 DEF LockInv, LineOK
    <3> QED  BY <3>2, <3>3 DEF LineOK
  <2> QED  BY <2>1, <2>2
<1>6. ASSUME NEW u \in Tasks PROVE HolderOK(u)'
  <2>1. CASE u = t
    BY <1>0, <2>1 DEF HolderOK, Held
  <2>2. CASE u # t
    <3>1. pc'[u] = pc[u] /\ query'[u] = query[u]
      BY <1>0, <2>2
    <3>2. ASSUME Holds(u), pc[u] \in Inside PROVE Holds(u)'
      <4>1. model[u] # m
        BY <1>1, <2>2, <3>2 DEF Holds
      <4>2. lock'[model[u]] = lock[model[u]]
        BY <1>0, <4>1
      <4> QED  BY <3>2, <4>2 DEF Holds
    <3> QED  BY <3>1, <3>2 DEF LockInv, HolderOK, Inside, Held
  <2> QED  BY <2>1, <2>2
<1> QED  BY <1>4, <1>5, <1>6 DEF LockInv

\* t stays where it is with its lock: at none, or at its head.
LEMMA Stays ==
  ASSUME TypeOK, LockInv, NEW t \in Tasks, model' = model, lock' = lock,
         NEW place, NEW q, pc' = [pc EXCEPT ![t] = place], query' = [query EXCEPT ![t] = q],
         \/ pc[t] \in Inside /\ place \in Inside /\ Holds(t) /\ (place # "fresh" => q = "none")
         \/ pc[t] \notin Inside /\ place = "specs"
         \/ pc[t] \notin Inside /\ place = "idle" /\ q = "none"
  PROVE  LockInv'
<1>0. /\ lock \in [Models -> Seq(Tasks)] /\ pc \in [Tasks -> {"idle", "specs"} \cup Inside]
      /\ model \in [Tasks -> Models] /\ DOMAIN query = Tasks
  BY DEF TypeOK
<1>1. ASSUME NEW n \in Models PROVE LineOK(n)'
  <2>1. \A u \in Tasks : pc'[u] \in Inside <=> pc[u] \in Inside
    BY <1>0 DEF Inside
  <2> QED  BY <2>1 DEF LockInv, LineOK, Unique, Occurs
<1>2. ASSUME NEW u \in Tasks PROVE HolderOK(u)'
  <2>1. CASE u = t
    <3>1. pc'[t] = place /\ query'[t] = q
      BY <1>0
    <3> QED  BY <2>1, <3>1 DEF HolderOK, Inside, Held, Holds
  <2>2. CASE u # t
    <3>1. pc'[u] = pc[u] /\ query'[u] = query[u]
      BY <1>0, <2>2
    <3> QED  BY <3>1 DEF LockInv, HolderOK, Holds
  <2> QED  BY <2>1, <2>2
<1> QED  BY <1>1, <1>2 DEF LockInv

-----------------------------------------------------------------------------
(* The lock is kept *)

\* Returning leaves the lock region.
LEMMA ReturnsTo ==
  ASSUME TypeOK, NEW t \in Tasks, Returns(t)
  PROVE  /\ \E place \in {"idle", "specs"} : pc' = [pc EXCEPT ![t] = place]
         /\ building' \in [Tasks -> BOOLEAN]
  BY DEF TypeOK, Returns, Goes

\* What a finished lookup does.
LEMMA FoundOK ==
  ASSUME TypeOK, LockInv, NEW t \in Tasks, NEW found \in [Models -> Pairs], Found(t, found),
         pc[t] = "specs" \/ (pc[t] = "fresh" /\ Holds(t)),
         model' = model, query' = [query EXCEPT ![t] = "none"]
  PROVE  /\ LockInv' /\ lock' \in [Models -> Seq(Tasks)]
         /\ pc' \in [Tasks -> {"idle", "specs"} \cup Inside]
         /\ building' \in [Tasks -> BOOLEAN] /\ pair' \in [Tasks -> Pairs]
<1> DEFINE p == found[model[t]]
<1>0. /\ p \in Pairs /\ lock \in [Models -> Seq(Tasks)] /\ building \in [Tasks -> BOOLEAN]
      /\ pair \in [Tasks -> Pairs] /\ pc \in [Tasks -> {"idle", "specs"} \cup Inside]
  BY DEF TypeOK
<1>1. CASE pc[t] = "specs" /\ Expiring(p)
  <2>1. /\ pc' = [pc EXCEPT ![t] = "fresh"] /\ UNCHANGED <<building, pair>>
        /\ lock' = [lock EXCEPT ![model[t]] = Append(@, t)]
    BY <1>1 DEF Found, Ensure, Goes
  <2>2. LockInv' /\ lock' \in [Models -> Seq(Tasks)]
    BY <1>1, <2>1, Joins
  <2> QED  BY <1>0, <2>1, <2>2 DEF Inside
<1>2. CASE pc[t] = "specs" /\ ~ Expiring(p)
  <2>1. Returns(t) /\ UNCHANGED <<lock, pair>>
    BY <1>2 DEF Found, Ensure
  <2>2. PICK place \in {"idle", "specs"} : pc' = [pc EXCEPT ![t] = place]
    BY <2>1, ReturnsTo
  <2>3. LockInv'
    BY <1>2, <2>1, <2>2, Stays DEF Inside
  <2> QED  BY <1>0, <2>1, <2>2, <2>3, ReturnsTo
<1>3. CASE pc[t] = "fresh" /\ Expiring(p)
  <2>1. /\ pc' = [pc EXCEPT ![t] = "refresh"] /\ UNCHANGED <<lock, building>>
        /\ pair' = [pair EXCEPT ![t] = p]
    BY <1>3 DEF Found, ReCheck, Goes
  <2>2. LockInv'
    BY <1>3, <2>1, Stays DEF Inside
  <2> QED  BY <1>0, <2>1, <2>2 DEF Inside
<1>4. CASE pc[t] = "fresh" /\ ~ Expiring(p)
  <2>1. Returns(t) /\ Release(t) /\ UNCHANGED pair
    BY <1>4 DEF Found, ReCheck
  <2>2. PICK place \in {"idle", "specs"} : pc' = [pc EXCEPT ![t] = place]
    BY <2>1, ReturnsTo
  <2>3. LockInv' /\ lock' \in [Models -> Seq(Tasks)]
    BY <1>4, <2>1, <2>2, Leaves DEF Inside
  <2> QED  BY <1>0, <2>1, <2>2, <2>3, ReturnsTo
<1> QED  BY <1>1, <1>2, <1>3, <1>4

\* Leaving the lock from inside it, on the way out of a refresh.
LEMMA OutOK ==
  ASSUME TypeOK, LockInv, NEW t \in Tasks, pc[t] \in Held, Release(t),
         NEW place \in {"idle", "specs"}, pc' = [pc EXCEPT ![t] = place],
         UNCHANGED <<model, query>>
  PROVE  /\ LockInv' /\ lock' \in [Models -> Seq(Tasks)]
         /\ pc' \in [Tasks -> {"idle", "specs"} \cup Inside]
<1>1. Holds(t) /\ pc[t] \in Inside /\ query' = [query EXCEPT ![t] = "none"]
  BY DEF LockInv, HolderOK, TypeOK, Held, Inside
<1>2. LockInv' /\ lock' \in [Models -> Seq(Tasks)]
  BY <1>1, Leaves
<1> QED  BY <1>2 DEF TypeOK

\* Going on under the lock.
LEMMA OnOK ==
  ASSUME TypeOK, LockInv, NEW t \in Tasks, pc[t] \in Held,
         NEW place \in Held, pc' = [pc EXCEPT ![t] = place],
         UNCHANGED <<lock, model, query>>
  PROVE  LockInv' /\ pc' \in [Tasks -> {"idle", "specs"} \cup Inside]
<1>1. /\ Holds(t) /\ pc[t] \in Inside /\ place \in Inside
      /\ query' = [query EXCEPT ![t] = "none"]
  BY DEF LockInv, HolderOK, TypeOK, Held, Inside
<1>2. LockInv'
  BY <1>1, Stays
<1> QED  BY <1>1, <1>2 DEF TypeOK

LEMMA LockInit == Init => TypeOK /\ LockInv
<1> SUFFICES ASSUME Init PROVE TypeOK /\ LockInv
  OBVIOUS
<1>1. 0 \in Pairs /\ 0 \in 0 .. MaxFaults /\ <<>> \in Seq(Tasks)
  BY BoundsAssumption DEF Pairs
<1>2. TypeOK
  BY <1>1 DEF Init, TypeOK
<1>3. ASSUME NEW m \in Models PROVE LineOK(m)
  <2>1. lock[m] = <<>>
    BY DEF Init
  <2> QED  BY <2>1, EmptyQueue DEF Init, LineOK, Inside
<1>4. ASSUME NEW t \in Tasks PROVE HolderOK(t)
  BY DEF Init, HolderOK, Held
<1> QED  BY <1>2, <1>3, <1>4 DEF LockInv

LEMMA LockStep == TypeOK /\ LockInv /\ [Next]_vars => TypeOK' /\ LockInv'
<1> SUFFICES ASSUME TypeOK, LockInv, [Next]_vars PROVE TypeOK' /\ LockInv'
  OBVIOUS
<1> DEFINE Same == UNCHANGED <<lock, pc, model, query>>
<1>0. ASSUME Same PROVE LockInv'
  BY <1>0 DEF LockInv, LineOK, HolderOK, Holds, Unique, Occurs
<1>1. ASSUME NEW t \in Tasks, NEW m \in Models, Begin(t, m) PROVE TypeOK' /\ LockInv'
  <2>1. LockInv'
    <3>1. ASSUME NEW n \in Models PROVE LineOK(n)'
      <4>1. \A u \in Tasks : (pc'[u] \in Inside /\ model'[u] = n) <=> (pc[u] \in Inside /\ model[u] = n)
        BY <1>1 DEF TypeOK, Begin, Goes, Inside
      <4>2. lock' = lock
        BY <1>1 DEF Begin
      <4> QED  BY <4>1, <4>2 DEF LockInv, LineOK, Unique, Occurs
    <3>2. ASSUME NEW u \in Tasks PROVE HolderOK(u)'
      BY <1>1 DEF TypeOK, LockInv, HolderOK, Begin, Goes, Held, Holds
    <3> QED  BY <3>1, <3>2 DEF LockInv
  <2>2. TypeOK'
    BY <1>1 DEF TypeOK, Begin, Goes
  <2> QED  BY <2>1, <2>2
<1>2. ASSUME NEW t \in Tasks, LookUp(t) PROVE TypeOK' /\ LockInv'
  <2>1. CASE \E found \in specs : Found(t, found) /\ UNCHANGED query
    <3>1. PICK found \in specs : Found(t, found) /\ UNCHANGED query
      BY <2>1
    <3>2. found \in [Models -> Pairs] /\ query' = [query EXCEPT ![t] = "none"]
      BY <1>2, <3>1 DEF TypeOK, LookUp
    <3>3. /\ LockInv' /\ lock' \in [Models -> Seq(Tasks)]
          /\ pc' \in [Tasks -> {"idle", "specs"} \cup Inside]
          /\ building' \in [Tasks -> BOOLEAN] /\ pair' \in [Tasks -> Pairs]
      BY <1>2, <3>1, <3>2, FoundOK DEF LookUp
    <3> QED  BY <1>2, <3>1, <3>3 DEF TypeOK, LookUp
  <2>2. CASE query' = [query EXCEPT ![t] = "sent"] /\ UNCHANGED <<lock, pc, building, pair>>
    <3>0. pc[t] = "specs" \/ (pc[t] = "fresh" /\ Holds(t))
      BY <1>2 DEF LookUp
    <3>2. pc' = [pc EXCEPT ![t] = pc[t]] /\ model' = model
      BY <1>2, <2>2 DEF TypeOK, LookUp
    <3>1. LockInv'
      BY <2>2, <3>0, <3>2, Stays DEF Inside
    <3> QED  BY <1>2, <2>2, <3>1 DEF TypeOK, LookUp
  <2> QED  BY <1>2, <2>1, <2>2 DEF LookUp
<1>3. ASSUME NEW t \in Tasks, LoadReads(t) PROVE TypeOK' /\ LockInv'
  <2>1. pc[t] = "specs" \/ (pc[t] = "fresh" /\ Holds(t))
    BY <1>3 DEF LockInv, HolderOK, LoadReads
  <2>2. pc' = [pc EXCEPT ![t] = pc[t]]
    BY <1>3 DEF LoadReads, TypeOK
  <2>3. LockInv'
    BY <1>3, <2>1, <2>2, Stays DEF LoadReads, Inside
  <2> QED  BY <1>3, <2>3 DEF TypeOK, LoadReads
<1>4. ASSUME NEW t \in Tasks, LoadEnds(t) PROVE TypeOK' /\ LockInv'
  <2>1. pc[t] = "specs" \/ (pc[t] = "fresh" /\ Holds(t))
    BY <1>4 DEF LockInv, HolderOK, LoadEnds
  <2>2. seen[t] \in [Models -> Pairs] /\ [m \in Models |-> 0] \in [Models -> Pairs]
    BY BoundsAssumption DEF TypeOK, Pairs
  <2>3. /\ LockInv' /\ lock' \in [Models -> Seq(Tasks)]
        /\ pc' \in [Tasks -> {"idle", "specs"} \cup Inside]
        /\ building' \in [Tasks -> BOOLEAN] /\ pair' \in [Tasks -> Pairs]
    BY <1>4, <2>1, <2>2, FoundOK DEF LoadEnds
  <2> QED  BY <1>4, <2>2, <2>3 DEF TypeOK, LoadEnds
<1>5. ASSUME NEW t \in Tasks, Granted(t) PROVE TypeOK' /\ LockInv'
  <2>1. LockInv' /\ pc' \in [Tasks -> {"idle", "specs"} \cup Inside]
    BY <1>5, OnOK DEF Granted, Goes, Held
  <2>2. issued + 1 \in Pairs
    BY <1>5, BoundsAssumption DEF Granted, TypeOK, Pairs
  <2> QED  BY <1>5, <2>1, <2>2 DEF TypeOK, Granted
<1>6. ASSUME NEW t \in Tasks, Refused(t) PROVE TypeOK' /\ LockInv'
  <2>1. PICK place \in {"idle", "specs"} : pc' = [pc EXCEPT ![t] = place]
    BY <1>6, ReturnsTo DEF Refused, GivesUp
  <2>2. /\ LockInv' /\ lock' \in [Models -> Seq(Tasks)]
        /\ pc' \in [Tasks -> {"idle", "specs"} \cup Inside]
    BY <1>6, <2>1, OutOK DEF Refused, GivesUp, Held
  <2>3. building' \in [Tasks -> BOOLEAN]
    BY <1>6, ReturnsTo DEF Refused, GivesUp
  <2> QED  BY <1>6, <2>2, <2>3 DEF TypeOK, Refused
<1>7. ASSUME NEW t \in Tasks, RefreshFails(t) PROVE TypeOK' /\ LockInv'
  <2>1. PICK place \in {"idle", "specs"} : pc' = [pc EXCEPT ![t] = place]
    BY <1>7, ReturnsTo DEF RefreshFails, GivesUp
  <2>2. /\ LockInv' /\ lock' \in [Models -> Seq(Tasks)]
        /\ pc' \in [Tasks -> {"idle", "specs"} \cup Inside]
    BY <1>7, <2>1, OutOK DEF RefreshFails, GivesUp, Held
  <2>3. building' \in [Tasks -> BOOLEAN]
    BY <1>7, ReturnsTo DEF RefreshFails, GivesUp
  <2>4. faults' \in 0 .. MaxFaults /\ issued' \in Pairs
    BY <1>7, BoundsAssumption DEF TypeOK, RefreshFails, Fails
  <2> QED  BY <1>7, <2>2, <2>3, <2>4 DEF TypeOK, RefreshFails
<1>8. ASSUME NEW t \in Tasks, StoreCommits(t) PROVE TypeOK' /\ LockInv'
  <2>1. LockInv' /\ pc' \in [Tasks -> {"idle", "specs"} \cup Inside]
    BY <1>8, OnOK DEF StoreCommits, Goes, Held
  <2> QED  BY <1>8, <2>1 DEF TypeOK, StoreCommits, Stores
<1>9. ASSUME NEW t \in Tasks, StoreReturns(t) PROVE TypeOK' /\ LockInv'
  <2>1. PICK place \in {"idle", "specs"} : pc' = [pc EXCEPT ![t] = place]
    BY <1>9, ReturnsTo DEF StoreReturns
  <2>2. /\ LockInv' /\ lock' \in [Models -> Seq(Tasks)]
        /\ pc' \in [Tasks -> {"idle", "specs"} \cup Inside]
    BY <1>9, <2>1, OutOK DEF StoreReturns, Held
  <2>3. building' \in [Tasks -> BOOLEAN]
    BY <1>9, ReturnsTo DEF StoreReturns
  <2> QED  BY <1>9, <2>2, <2>3 DEF TypeOK, StoreReturns
<1>10. ASSUME NEW t \in Tasks, StoreFails(t) PROVE TypeOK' /\ LockInv'
  <2>1. /\ LockInv' /\ lock' \in [Models -> Seq(Tasks)]
        /\ pc' \in [Tasks -> {"idle", "specs"} \cup Inside]
    BY <1>10, OutOK DEF StoreFails, Goes, Held
  <2>2. faults' \in 0 .. MaxFaults
    BY <1>10, BoundsAssumption DEF TypeOK, StoreFails, Fails
  <2> QED  BY <1>10, <2>1, <2>2 DEF TypeOK, StoreFails
<1>11. ASSUME Age PROVE TypeOK' /\ LockInv'
  <2>1. LockInv'
    BY <1>0, <1>11 DEF Age, request
  <2>2. aged' \in Pairs
    BY <1>11, BoundsAssumption DEF TypeOK, Age, Pairs
  <2> QED  BY <1>11, <2>1, <2>2 DEF TypeOK, Age, request
<1>12. ASSUME SpecsExpire PROVE TypeOK' /\ LockInv'
  <2>1. LockInv'
    BY <1>0, <1>12 DEF SpecsExpire, request
  <2> QED  BY <1>12, <2>1 DEF TypeOK, SpecsExpire, request
<1>13. ASSUME UNCHANGED vars PROVE TypeOK' /\ LockInv'
  <2>1. LockInv'
    BY <1>0, <1>13 DEF vars, request
  <2> QED  BY <1>13, <2>1 DEF TypeOK, vars, request
<1> QED  BY <1>1, <1>2, <1>3, <1>4, <1>5, <1>6, <1>7, <1>8, <1>9, <1>10, <1>11, <1>12, <1>13
         DEF Next, TaskStep

LEMMA LockInvariant == Spec => [](TypeOK /\ LockInv)
  BY LockInit, LockStep, PTL DEF Spec

\* The lock of a model lists the requests between acquire and release, each
\* once, and is released on every way out.
THEOREM LocksCorrect == Spec => []LocksOK
<1>1. TypeOK /\ LockInv => LocksOK
  BY DEF LocksOK, LockInv, LineOK, InLine, Occurs, Unique
<1> QED  BY <1>1, LockInvariant, PTL

-----------------------------------------------------------------------------
(* Pairs *)

LEMMA PairsInit == Init => PairsInv
  BY DEF Init, PairsInv

\* A lookup that found issued pairs sends one only if it is expiring.
LEMMA FoundPair ==
  ASSUME TypeOK, NEW t \in Tasks, NEW found \in [Models -> Pairs], Found(t, found),
         pc[t] \in {"specs", "fresh"}, \A m \in Models : found[m] <= issued,
         \A u \in Tasks : pc[u] = "refresh" => pair[u] <= issued /\ pair[u] < aged
  PROVE  /\ \A u \in Tasks : pc'[u] = "refresh" => pair'[u] <= issued /\ pair'[u] < aged
         /\ \A u \in Tasks : pc'[u] = "store" => pc[u] = "store" /\ pair'[u] = pair[u]
         /\ \A u \in Tasks : pc[u] = "store" => pc'[u] = "store"
<1>1. CASE pc[t] = "specs"
  BY <1>1 DEF TypeOK, Found, Ensure, Returns, Goes
<1>2. CASE pc[t] = "fresh"
  BY <1>2 DEF TypeOK, Found, ReCheck, Returns, Goes, Expiring
<1> QED  BY <1>1, <1>2

LEMMA PairsStep == TypeOK /\ LockInv /\ PairsInv /\ [Next]_vars => PairsInv'
<1> SUFFICES ASSUME TypeOK, LockInv, PairsInv, [Next]_vars PROVE PairsInv'
  OBVIOUS
<1>0. /\ issued \in Int /\ aged \in Int /\ \A m \in Models : rows[m] \in Int
      /\ \A t \in Tasks : pair[t] \in Int
      /\ \A t \in Tasks, m \in Models : seen[t][m] \in Int
      /\ \A found \in specs, m \in Models : found[m] \in Int
  BY DEF TypeOK, Pairs
<1>1. ASSUME NEW t \in Tasks, NEW m \in Models, Begin(t, m) PROVE PairsInv'
  BY <1>1 DEF TypeOK, PairsInv, Begin, Goes
<1>2. ASSUME NEW t \in Tasks, LookUp(t) PROVE PairsInv'
  <2>1. CASE \E found \in specs : Found(t, found) /\ UNCHANGED query
    <3>1. PICK found \in specs : Found(t, found) /\ UNCHANGED query
      BY <2>1
    <3>2. /\ \A u \in Tasks : pc'[u] = "refresh" => pair'[u] <= issued /\ pair'[u] < aged
          /\ \A u \in Tasks : pc'[u] = "store" => pc[u] = "store" /\ pair'[u] = pair[u]
      BY <1>2, <3>1, FoundPair DEF TypeOK, LookUp, PairsInv
    <3> QED  BY <1>2, <3>1, <3>2 DEF PairsInv, LookUp
  <2>2. CASE query' = [query EXCEPT ![t] = "sent"] /\ UNCHANGED <<lock, pc, building, pair>>
    BY <1>2, <2>2 DEF TypeOK, PairsInv, LookUp
  <2> QED  BY <1>2, <2>1, <2>2 DEF LookUp
<1>3. ASSUME NEW t \in Tasks, LoadReads(t) PROVE PairsInv'
  BY <1>3 DEF TypeOK, PairsInv, LoadReads
<1>4. ASSUME NEW t \in Tasks, LoadEnds(t) PROVE PairsInv'
  <2>1. pc[t] \in {"specs", "fresh"}
    BY <1>4 DEF LockInv, HolderOK, LoadEnds
  <2>2. seen[t] \in [Models -> Pairs] /\ \A m \in Models : seen[t][m] <= issued
    BY <1>4 DEF TypeOK, PairsInv, LoadEnds
  <2>3. /\ \A u \in Tasks : pc'[u] = "refresh" => pair'[u] <= issued /\ pair'[u] < aged
        /\ \A u \in Tasks : pc'[u] = "store" => pc[u] = "store" /\ pair'[u] = pair[u]
    BY <1>4, <2>1, <2>2, FoundPair DEF LoadEnds, PairsInv
  <2>4. \A found \in specs', m \in Models : found[m] <= issued
    BY <1>4, <2>2 DEF LoadEnds
  <2>5. \A u \in Tasks : query'[u] = "read" => \A m \in Models : seen'[u][m] <= issued
    BY <1>4 DEF TypeOK, LoadEnds, PairsInv
  <2> QED  BY <1>4, <2>3, <2>4, <2>5 DEF PairsInv, LoadEnds
<1>5. ASSUME NEW t \in Tasks, Granted(t) PROVE PairsInv'
  <2>1. issued' = issued + 1 /\ issued' <= aged
    BY <1>0, <1>5 DEF Granted, PairsInv
  <2>2. /\ \A u \in Tasks : pc'[u] = "refresh" => pc[u] = "refresh" /\ pair'[u] = pair[u]
        /\ \A u \in Tasks : pc'[u] = "store" => pair'[u] = issued' \/ (pc[u] = "store" /\ pair'[u] = pair[u])
    BY <1>5 DEF TypeOK, Granted, Goes
  <2> QED  BY <1>0, <1>5, <2>1, <2>2 DEF PairsInv, Granted
<1>6. ASSUME NEW t \in Tasks, Refused(t) PROVE PairsInv'
  BY <1>6 DEF TypeOK, PairsInv, Refused, GivesUp, Returns, Goes
<1>7. ASSUME NEW t \in Tasks, RefreshFails(t) PROVE PairsInv'
  <2>1. issued' \in Int /\ issued <= issued' /\ issued' <= aged
    BY <1>0, <1>7 DEF RefreshFails, PairsInv
  <2>2. /\ \A u \in Tasks : pc'[u] = "refresh" => pc[u] = "refresh"
        /\ \A u \in Tasks : pc'[u] = "store" => pc[u] = "store"
    BY <1>7 DEF TypeOK, RefreshFails, GivesUp, Returns, Goes
  <2> QED  BY <1>0, <1>7, <2>1, <2>2 DEF PairsInv, RefreshFails
<1>8. ASSUME NEW t \in Tasks, StoreCommits(t), pair[t] <= issued PROVE PairsInv'
  BY <1>8 DEF TypeOK, PairsInv, StoreCommits, Stores, Goes
<1>9. ASSUME NEW t \in Tasks, StoreReturns(t) PROVE PairsInv'
  BY <1>9 DEF TypeOK, PairsInv, StoreReturns, Returns, Goes
<1>10. ASSUME NEW t \in Tasks, StoreFails(t) PROVE PairsInv'
  BY <1>10 DEF TypeOK, PairsInv, StoreFails, Goes
<1>11. ASSUME Age PROVE PairsInv'
  BY <1>0, <1>11 DEF PairsInv, Age, request
<1>12. ASSUME SpecsExpire PROVE PairsInv'
  BY <1>12 DEF PairsInv, SpecsExpire, request
<1>13. ASSUME UNCHANGED vars PROVE PairsInv'
  BY <1>13 DEF PairsInv, vars, request
<1>14. \A t \in Tasks : StoreCommits(t) => pair[t] <= issued
  BY DEF PairsInv, StoreCommits
<1> QED  BY <1>1, <1>2, <1>3, <1>4, <1>5, <1>6, <1>7, <1>8, <1>9, <1>10, <1>11, <1>12, <1>13, <1>14
         DEF Next, TaskStep

\* A pair is replaced only when its access token was about to expire.
THEOREM RotatesWhenNeeded == Spec => []NoNeedlessRotation
<1>1. PairsInv => NoNeedlessRotation
  BY DEF PairsInv, NoNeedlessRotation
<1> QED  BY <1>1, LockInvariant, PairsInit, PairsStep, PTL DEF Spec

-----------------------------------------------------------------------------
(* One model to the login *)

\* Only one request at a time has a pair to refresh or to store.
LEMMA OneHolder ==
  ASSUME TypeOK, LockInv, OneModel, NEW t \in Tasks, NEW u \in Tasks,
         pc[t] \in Held, pc[u] \in Held
  PROVE  t = u
<1>1. model[t] = model[u]
  BY DEF OneModel, TypeOK
<1>2. Holds(t) /\ Holds(u)
  BY DEF LockInv, HolderOK
<1> QED  BY <1>1, <1>2 DEF Holds

LEMMA StoredInit == Init => StoredInv
  BY DEF Init, StoredInv

LEMMA StoredStep ==
  TypeOK /\ LockInv /\ PairsInv /\ StoredInv /\ OneModel /\ [Next]_vars => StoredInv'
<1> SUFFICES ASSUME TypeOK, LockInv, PairsInv, StoredInv, OneModel, [Next]_vars PROVE StoredInv'
  OBVIOUS
<1> DEFINE StoresKept ==
      \A u \in Tasks : pc'[u] = "store" <=> pc[u] = "store"
<1>0. ASSUME StoresKept, UNCHANGED <<issued, rows>>, faults' = faults,
             \A u \in Tasks : pc[u] = "store" => pair'[u] = pair[u]
      PROVE  StoredInv'
  BY <1>0 DEF StoredInv
<1>f. ASSUME NEW t \in Tasks, Fails, pc[t] \in Held, UNCHANGED pair,
             \A u \in Tasks : u # t => pc'[u] = pc[u], pc'[t] # "store"
      PROVE  StoredInv'
  <2>1. faults' # 0
    BY <1>f DEF Fails, TypeOK
  <2>2. \A u \in Tasks : pc'[u] # "store"
    BY <1>f, OneHolder DEF Held
  <2> QED  BY <2>1, <2>2 DEF StoredInv
<1>1. ASSUME NEW t \in Tasks, NEW m \in Models, Begin(t, m) PROVE StoredInv'
  <2>1. StoresKept
    BY <1>1 DEF TypeOK, Begin, Goes
  <2> QED  BY <1>0, <1>1, <2>1 DEF Begin
<1>2. ASSUME NEW t \in Tasks, LookUp(t) PROVE StoredInv'
  <2>1. CASE \E found \in specs : Found(t, found)
    <3>1. PICK found \in specs : Found(t, found)
      BY <2>1
    <3>2. /\ \A u \in Tasks : pc'[u] = "store" => pc[u] = "store" /\ pair'[u] = pair[u]
          /\ \A u \in Tasks : pc[u] = "store" => pc'[u] = "store"
      BY <1>2, <3>1, FoundPair DEF TypeOK, LookUp, PairsInv
    <3> QED  BY <1>0, <1>2, <3>2 DEF LookUp
  <2>2. CASE UNCHANGED <<pc, pair>>
    BY <1>0, <1>2, <2>2 DEF LookUp
  <2> QED  BY <1>2, <2>1, <2>2 DEF LookUp
<1>3. ASSUME NEW t \in Tasks, LoadReads(t) PROVE StoredInv'
  BY <1>0, <1>3 DEF LoadReads
<1>4. ASSUME NEW t \in Tasks, LoadEnds(t) PROVE StoredInv'
  <2>1. pc[t] \in {"specs", "fresh"}
    BY <1>4 DEF LockInv, HolderOK, LoadEnds
  <2>2. seen[t] \in [Models -> Pairs] /\ \A m \in Models : seen[t][m] <= issued
    BY <1>4 DEF TypeOK, PairsInv, LoadEnds
  <2>3. /\ \A u \in Tasks : pc'[u] = "store" => pc[u] = "store" /\ pair'[u] = pair[u]
        /\ \A u \in Tasks : pc[u] = "store" => pc'[u] = "store"
    BY <1>4, <2>1, <2>2, FoundPair DEF LoadEnds, PairsInv
  <2> QED  BY <1>0, <1>4, <2>3 DEF LoadEnds
<1>5. ASSUME NEW t \in Tasks, Granted(t) PROVE StoredInv'
  <2>1. pc'[t] = "store" /\ pair'[t] = issued'
    BY <1>5 DEF TypeOK, Granted, Goes
  <2>2. \A u \in Tasks : u # t => pc'[u] # "store"
    BY <1>5, OneHolder DEF TypeOK, Granted, Goes, Held
  <2> QED  BY <2>1, <2>2 DEF StoredInv
<1>6. ASSUME NEW t \in Tasks, Refused(t) PROVE StoredInv'
  <2>1. StoresKept
    BY <1>6 DEF TypeOK, Refused, GivesUp, Returns, Goes
  <2> QED  BY <1>0, <1>6, <2>1 DEF Refused
<1>7. ASSUME NEW t \in Tasks, RefreshFails(t) PROVE StoredInv'
  <2>1. pc'[t] # "store" /\ \A u \in Tasks : u # t => pc'[u] = pc[u]
    BY <1>7 DEF TypeOK, RefreshFails, GivesUp, Returns, Goes
  <2> QED  BY <1>f, <1>7, <2>1 DEF RefreshFails, Held
<1>8. ASSUME NEW t \in Tasks, StoreCommits(t) PROVE StoredInv'
  <2>1. \A u \in Tasks : pc'[u] # "store"
    BY <1>8, OneHolder DEF TypeOK, StoreCommits, Goes, Held
  <2>2. pair[t] = issued
    BY <1>8 DEF StoredInv, StoreCommits
  <2>3. Models = {model[t]}
    BY DEF OneModel, TypeOK
  <2>4. \A m \in Models : rows'[m] = issued'
    BY <1>8, <2>2, <2>3 DEF TypeOK, StoreCommits, Stores
  <2> QED  BY <2>1, <2>4 DEF StoredInv
<1>9. ASSUME NEW t \in Tasks, StoreReturns(t) PROVE StoredInv'
  <2>1. StoresKept
    BY <1>9 DEF TypeOK, StoreReturns, Returns, Goes
  <2> QED  BY <1>0, <1>9, <2>1 DEF StoreReturns
<1>10. ASSUME NEW t \in Tasks, StoreFails(t) PROVE StoredInv'
  <2>1. pc'[t] # "store" /\ \A u \in Tasks : u # t => pc'[u] = pc[u]
    BY <1>10 DEF TypeOK, StoreFails, Goes
  <2> QED  BY <1>f, <1>10, <2>1 DEF StoreFails, Held
<1>11. ASSUME Age \/ SpecsExpire \/ UNCHANGED vars PROVE StoredInv'
  BY <1>0, <1>11 DEF Age, SpecsExpire, vars, request
<1> QED  BY <1>1, <1>2, <1>3, <1>4, <1>5, <1>6, <1>7, <1>8, <1>9, <1>10, <1>11
         DEF Next, TaskStep

LEMMA StoredInvariant ==
  ASSUME OneModel
  PROVE  Spec => [](TypeOK /\ LockInv /\ PairsInv /\ StoredInv)
<1>1. TypeOK /\ LockInv /\ PairsInv /\ StoredInv /\ [Next]_vars => StoredInv'
  BY OneModel, StoredStep
<1> QED  BY <1>1, LockInvariant, PairsInit, PairsStep, StoredInit, PTL DEF Spec

\* While nothing has failed and the lock is free, the row of the login's one
\* model holds the refresh token that works (agent.py:204-206).
THEOREM TokensAreStored ==
  ASSUME OneModel
  PROVE  Spec => []RefreshStored
<1>1. TypeOK /\ LockInv /\ StoredInv => RefreshStored
  <2> SUFFICES ASSUME TypeOK, LockInv, StoredInv, \A m \in Models : lock[m] = <<>>
               PROVE  \A t \in Tasks : pc[t] # "store"
    BY DEF RefreshStored, StoredInv
  <2> SUFFICES ASSUME NEW t \in Tasks, pc[t] = "store" PROVE FALSE
    OBVIOUS
  <2>1. model[t] \in Models /\ Occurs(t, lock[model[t]])
    BY DEF TypeOK, LockInv, LineOK, Inside
  <2> QED  BY <2>1, EmptyQueue
<1> QED  BY <1>1, StoredInvariant, PTL

\* With one model to the login, a refresh is refused only to a request that was
\* handed cached specs older than the row.
THEOREM LockGuardsRotation ==
  ASSUME OneModel
  PROVE  Spec => RotationGuarded
<1>1. TypeOK /\ LockInv /\ PairsInv /\ StoredInv /\ [Next]_vars =>
        [\A t \in Tasks : faults = 0 /\ Refused(t) => pair[t] < rows[model[t]]]_vars
  <2> SUFFICES ASSUME TypeOK, LockInv, PairsInv, StoredInv,
                      NEW t \in Tasks, faults = 0, Refused(t)
               PROVE  pair[t] < rows[model[t]]
    OBVIOUS
  <2>1. \A u \in Tasks : pc[u] # "store"
    BY OneHolder DEF Refused, Held
  <2>2. rows[model[t]] = issued
    BY <2>1 DEF StoredInv, TypeOK
  <2>3. pair[t] <= issued /\ pair[t] # issued /\ pair[t] \in Int /\ issued \in Int
    BY DEF PairsInv, Refused, TypeOK, Pairs
  <2> QED  BY <2>2, <2>3
<1> QED  BY <1>1, StoredInvariant, PTL DEF Spec, RotationGuarded
=============================================================================
