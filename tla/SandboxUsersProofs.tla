------------------------- MODULE SandboxUsersProofs -------------------------
(***************************************************************************)
(* Proofs about SandboxUsers, for any sandboxes, threads and callers.      *)
(*                                                                         *)
(* Two facts hold whatever uids the names of the threads hash to: the      *)
(* notes of _THREAD_UID are right, and a command finds its user where it   *)
(* runs.  The other two need names that hash apart.                        *)
(***************************************************************************)
EXTENDS SandboxUsers, FiniteSetTheorems, WellFoundedInduction, TLAPS

\* Of the pool: what runs is the entry, or has been given up.
EntryOK ==
  /\ made \in SUBSET Boxes /\ live \in SUBSET made /\ lost \in SUBSET live
  /\ entry \in made \cup {None} /\ entry \notin lost
  /\ live \subseteq lost \cup {entry}

\* The tables are tables, whatever is in them.
Shape ==
  /\ passwd = [b \in Boxes |-> [t \in Threads |-> passwd[b][t]]]
  /\ cache = [b \in Boxes |-> [t \in Threads |-> cache[b][t]]]
  /\ owner = [t \in Threads |-> owner[t]]
  /\ stage \in [Callers -> Stages]
  /\ thread \in [Callers -> Threads \cup {"none"}]
  /\ sb \in [Callers -> made \cup {None}] /\ box \in [Callers -> made \cup {None}]
  /\ uid = [c \in Callers |-> uid[c]]

\* A call that works for a thread knows it, and its sandboxes.
Knows(c) ==
  stage[c] # "idle" => thread[c] \in Threads /\ sb[c] \in made

\* The sandbox of the first acquire, if it is still kept, is that of the
\* second; the user is there once the script has run.
SetUp(c) ==
  /\ stage[c] \in {"script", "scripted"} =>
       box[c] \in made /\ (sb[c] \in live \ lost => sb[c] = box[c])
  /\ stage[c] = "scripted" => passwd[box[c]][thread[c]] = uid[c] /\ uid[c] # 0
  /\ stage[c] = "run" => uid[c] # 0
  /\ stage[c] = "run" /\ sb[c] \in live \ lost => passwd[sb[c]][thread[c]] = uid[c]

UidInv ==
  /\ EntryOK /\ Shape /\ CachedUidExists
  /\ \A c \in Callers : Knows(c) /\ SetUp(c)
-----------------------------------------------------------------------------
(* The first free uid *)

\* A set of numbers has a least one.
LEMMA Least ==
  ASSUME NEW S \in SUBSET Nat, S # {}
  PROVE  \E n \in S : \A m \in S : n <= m
<1>1. PICK n \in S : \A m \in S : ~ (<<m, n>> \in OpToRel(<, Nat))
  BY NatLessThanWellFounded, WFMin
<1>2. ASSUME NEW m \in S, m < n PROVE FALSE
  <2>1. <<m, n>> \in OpToRel(<, Nat)
    BY <1>2 DEF OpToRel
  <2> QED  BY <1>1, <2>1
<1> QED  BY <1>2

\* Among one uid more than there are threads, one is free.
LEMMA SomeUidIsFree ==
  ASSUME NEW b, NEW t \in Threads
  PROVE  \E n \in Candidate[t] .. Candidate[t] + Cardinality(Threads) :
           \A s \in Threads : passwd[b][s] # n
<1> DEFINE range == Candidate[t] .. Candidate[t] + Cardinality(Threads)
<1> SUFFICES ASSUME \A n \in range : \E s \in Threads : passwd[b][s] = n
             PROVE  FALSE
  OBVIOUS
<1>1. Candidate[t] \in Nat /\ Cardinality(Threads) \in Nat
  BY UsersAssumption, FS_CardinalityType
<1>2. IsFiniteSet(range) /\ Cardinality(range) = Cardinality(Threads) + 1
  <2> DEFINE lo == Candidate[t]
             hi == lo + Cardinality(Threads)
  <2>1. lo \in Int /\ hi \in Int /\ ~ lo > hi /\ hi - lo + 1 = Cardinality(Threads) + 1
    BY <1>1
  <2>2. range = lo .. hi
    OBVIOUS
  <2> HIDE DEF range, lo, hi
  <2>3. IsFiniteSet(lo .. hi) /\ Cardinality(lo .. hi) = hi - lo + 1
    BY <2>1, FS_Interval
  <2> QED  BY <2>1, <2>2, <2>3
<1> DEFINE user == [n \in range |-> CHOOSE s \in Threads : passwd[b][s] = n]
<1>3. user \in [range -> Threads] /\ \A n \in range : passwd[b][user[n]] = n
  OBVIOUS
<1> HIDE DEF user, range
<1>4. \E n, m \in range : n # m /\ user[n] = user[m]
  <2>1. IsFiniteSet(Threads) /\ Cardinality(Threads) < Cardinality(range)
    BY <1>1, <1>2, UsersAssumption
  <2> QED  BY <1>2, <1>3, <2>1, FS_PigeonHole
<1> QED  BY <1>3, <1>4

\* The probing of the script ends at a uid of no other thread.
LEMMA FreeUidIsFree ==
  ASSUME NEW b, NEW t \in Threads
  PROVE  /\ FreeUid(b, t) \in Nat \ {0} /\ FreeUid(b, t) >= Candidate[t]
         /\ \A s \in Threads : passwd[b][s] # FreeUid(b, t)
         /\ \A m \in Candidate[t] .. FreeUid(b, t) - 1 : \E s \in Threads : passwd[b][s] = m
<1> DEFINE range == Candidate[t] .. Candidate[t] + Cardinality(Threads)
           free == {n \in range : \A s \in Threads : passwd[b][s] # n}
<1>1. Candidate[t] \in Nat \ {0} /\ Cardinality(Threads) \in Nat
  BY UsersAssumption, FS_CardinalityType
<1>2. free \in SUBSET Nat /\ free # {}
  BY <1>1, SomeUidIsFree
<1>3. PICK n \in free : \A m \in free : n <= m
  BY <1>2, Least
<1>4. \A m \in Candidate[t] .. n - 1 : m \in range /\ m \notin free
  BY <1>1, <1>3
<1>5. \E k \in range :
        /\ \A s \in Threads : passwd[b][s] # k
        /\ \A m \in Candidate[t] .. k - 1 : \E s \in Threads : passwd[b][s] = m
  BY <1>3, <1>4
<1>6. /\ FreeUid(b, t) \in range
      /\ \A s \in Threads : passwd[b][s] # FreeUid(b, t)
      /\ \A m \in Candidate[t] .. FreeUid(b, t) - 1 : \E s \in Threads : passwd[b][s] = m
  BY <1>5, Zenon DEF FreeUid, First
<1> QED  BY <1>1, <1>6

LEMMA UidInIsUid ==
  ASSUME NEW b, NEW t \in Threads
  PROVE  UidIn(b, t) # 0
BY FreeUidIsFree DEF UidIn

-----------------------------------------------------------------------------
(* The pool *)

\* No step of the pool takes up again what it has given up.
Kept == /\ made \subseteq made'
        /\ \A b \in made : b \in live' \ lost' => b \in live \ lost

LEMMA PoolKeeps ==
  ASSUME EntryOK, EntryNext \/ UNCHANGED pooled
  PROVE  EntryOK' /\ Kept
<1> USE BoxesAssumption DEF EntryOK, Kept, None
<1>1. CASE UNCHANGED pooled
  BY <1>1 DEF pooled
<1>2. CASE Leaves
  BY <1>2 DEF Leaves
<1>3. ASSUME NEW b \in Boxes, Creates(b) PROVE EntryOK' /\ Kept
  BY <1>3 DEF Creates
<1>4. ASSUME NEW b \in Boxes, Slips(b) PROVE EntryOK' /\ Kept
  BY <1>4 DEF Slips
<1>5. ASSUME NEW b \in Boxes, Dies(b) PROVE EntryOK' /\ Kept
  BY <1>5 DEF Dies
<1> QED  BY <1>1, <1>2, <1>3, <1>4, <1>5 DEF EntryNext

\* What a call acquires is the entry, the only sandbox not given up.
LEMMA AcquireGives ==
  ASSUME EntryOK, NEW b \in Boxes, Acquires(b)
  PROVE  EntryOK' /\ Kept /\ b \in made' /\ live' \ lost' \subseteq {b}
<1>1. EntryNext \/ UNCHANGED pooled
  BY DEF Acquires, EntryNext
<1>2. entry' = b
  BY DEF Acquires, Creates, pooled
<1>3. EntryOK' /\ Kept
  BY <1>1, PoolKeeps
<1>4. b # None
  BY BoxesAssumption DEF None
<1> QED  BY <1>2, <1>3, <1>4 DEF EntryOK

-----------------------------------------------------------------------------
(* Users and notes *)

LEMMA UidInit == Init => UidInv
<1> SUFFICES ASSUME Init PROVE UidInv
  OBVIOUS
<1> USE DEF Init, EntryInit
<1>1. EntryOK
  BY DEF EntryOK
<1>2. Shape
  BY DEF Shape, Stages
<1>3. CachedUidExists
  BY DEF CachedUidExists
<1>4. \A c \in Callers : Knows(c) /\ SetUp(c)
  BY DEF Knows, SetUp
<1> QED  BY <1>1, <1>2, <1>3, <1>4 DEF UidInv

LEMMA UidPool ==
  ASSUME UidInv, EntryNext \/ UNCHANGED pooled, UNCHANGED <<linux, calls>>
  PROVE  UidInv'
<1>1. EntryOK' /\ Kept
  BY PoolKeeps DEF UidInv
<1>2. Shape'
  BY <1>1 DEF UidInv, Shape, Kept, linux, calls
<1>3. CachedUidExists'
  BY DEF UidInv, CachedUidExists, linux, calls
<1>4. ASSUME NEW c \in Callers PROVE Knows(c)' /\ SetUp(c)'
  <2>1. Knows(c) /\ SetUp(c)
    BY DEF UidInv
  <2> QED  BY <1>1, <2>1 DEF Kept, Knows, SetUp, linux, calls
<1> QED  BY <1>1, <1>2, <1>3, <1>4 DEF UidInv

\* A call that ends takes nothing with it.
LEMMA UidOver ==
  ASSUME UidInv, NEW c \in Callers, Over(c), UNCHANGED <<pooled, passwd, owner>>,
         cache' = [b \in Boxes |-> [t \in Threads |-> cache'[b][t]]],
         \A b \in Boxes, t \in Threads : cache'[b][t] \in {0, cache[b][t]}
  PROVE  UidInv'
<1>1. EntryOK'
  BY DEF UidInv, EntryOK, pooled
<1>2. Shape'
  BY DEF UidInv, Shape, Over, Goes, Stages, pooled
<1>3. CachedUidExists'
  BY DEF UidInv, CachedUidExists
<1>4. ASSUME NEW d \in Callers PROVE Knows(d)' /\ SetUp(d)'
  BY DEF UidInv, Knows, SetUp, Over, Goes, Shape, pooled
<1> QED  BY <1>1, <1>2, <1>3, <1>4 DEF UidInv

LEMMA UidStep == UidInv /\ [Next]_vars => UidInv'
<1> SUFFICES ASSUME UidInv, [Next]_vars PROVE UidInv'
  OBVIOUS
<1>0. EntryOK /\ Shape /\ CachedUidExists
  BY DEF UidInv
<1>1. CASE UNCHANGED vars
  BY <1>1, UidPool DEF vars
<1>2. CASE PoolStep
  BY <1>2, UidPool DEF PoolStep
<1>3. ASSUME NEW c \in Callers, NEW t \in Threads, Begin(c, t) PROVE UidInv'
  <2>1. PICK b \in Boxes : Acquires(b) /\ sb' = [sb EXCEPT ![c] = b]
    BY <1>3 DEF Begin
  <2>2. EntryOK' /\ Kept /\ b \in made'
    BY <1>0, <2>1, AcquireGives
  <2>3. Shape'
    BY <1>0, <1>3, <2>1, <2>2 DEF Begin, Shape, Goes, Stages, Kept, linux
  <2>4. CachedUidExists'
    BY <1>0, <1>3 DEF Begin, CachedUidExists, linux
  <2>5. ASSUME NEW d \in Callers PROVE Knows(d)' /\ SetUp(d)'
    <3>1. Knows(d) /\ SetUp(d)
      BY DEF UidInv
    <3>2. CASE d = c
      BY <1>0, <1>3, <2>1, <2>2, <3>2 DEF Begin, Knows, SetUp, Goes, Shape
    <3>3. CASE d # c
      BY <1>0, <1>3, <2>1, <2>2, <3>1, <3>3
         DEF Begin, Knows, SetUp, Goes, Shape, Kept, linux
    <3> QED  BY <3>2, <3>3
  <2> QED  BY <2>2, <2>3, <2>4, <2>5 DEF UidInv
<1>4. ASSUME NEW c \in Callers, Enter(c) PROVE UidInv'
  <2>1. PICK b \in Boxes :
          /\ Acquires(b)
          /\ \/ /\ Cached(b, thread[c]) = {}
                /\ Goes(c, "script") /\ box' = [box EXCEPT ![c] = b] /\ UNCHANGED uid
             \/ /\ \E n \in Cached(b, thread[c]) : uid' = [uid EXCEPT ![c] = n]
                /\ Goes(c, "run") /\ UNCHANGED box
    BY <1>4 DEF Enter
  <2>2. EntryOK' /\ Kept /\ b \in made' /\ live' \ lost' \subseteq {b}
    BY <1>0, <2>1, AcquireGives
  <2>3. Shape'
    <3>0. stage' \in [Callers -> Stages]
      BY <1>0, <2>1 DEF Shape, Goes, Stages
    <3>1. box' \in [Callers -> made' \cup {None}]
      <4>1. box \in [Callers -> made' \cup {None}]
        BY <1>0, <2>2 DEF Shape, Kept
      <4> QED  BY <2>1, <2>2, <4>1
    <3>2. uid' = [d \in Callers |-> uid'[d]]
      BY <1>0, <2>1 DEF Shape
    <3>3. sb' \in [Callers -> made' \cup {None}]
      BY <1>0, <1>4, <2>2 DEF Enter, Shape, Kept
    <3> QED  BY <1>0, <1>4, <3>0, <3>1, <3>2, <3>3 DEF Enter, Shape, linux
  <2>4. CachedUidExists'
    BY <1>0, <1>4 DEF Enter, CachedUidExists, linux
  <2>5. ASSUME NEW d \in Callers PROVE Knows(d)' /\ SetUp(d)'
    <3>1. Knows(d) /\ SetUp(d) /\ Knows(c)
      BY DEF UidInv
    <3>2. CASE d = c
      <4>1. thread[c] \in Threads /\ sb[c] \in made
        BY <1>4, <3>1 DEF Enter, Knows
      <4>2. Knows(c)'
        BY <1>0, <1>4, <2>2, <4>1 DEF Enter, Knows, Kept
      <4>3. CASE Goes(c, "script") /\ box' = [box EXCEPT ![c] = b] /\ UNCHANGED uid
        <5>1. stage'[c] = "script" /\ box'[c] = b /\ sb'[c] = sb[c]
          BY <1>0, <1>4, <4>3 DEF Enter, Goes, Shape
        <5>2. b # sb[c] => sb[c] \notin live' \ lost'
          BY <2>2
        <5> QED  BY <2>2, <4>2, <5>1, <5>2, <3>2 DEF SetUp
      <4>4. CASE Goes(c, "run") /\ \E n \in Cached(b, thread[c]) : uid' = [uid EXCEPT ![c] = n]
        <5>1. stage'[c] = "run" /\ sb'[c] = sb[c] /\ thread'[c] = thread[c]
          BY <1>0, <1>4, <4>4 DEF Enter, Goes, Shape
        <5>2. uid'[c] = cache[b][thread[c]] /\ uid'[c] # 0
          BY <1>0, <4>4 DEF Cached, Shape
        <5>3. passwd'[b][thread[c]] = uid'[c]
          BY <1>0, <1>4, <4>1, <5>2 DEF Enter, CachedUidExists, linux
        <5>4. sb'[c] \in live' \ lost' => sb'[c] = b
          BY <2>2
        <5> QED  BY <4>2, <5>1, <5>2, <5>3, <5>4, <3>2 DEF SetUp
      <4> QED  BY <2>1, <4>3, <4>4, <3>2
    <3>3. CASE d # c
      <4>1. UNCHANGED <<stage[d], thread[d], sb[d], box[d], uid[d], passwd>>
        BY <1>0, <1>4, <2>1, <3>3 DEF Enter, Goes, Shape, linux
      <4> QED  BY <2>2, <3>1, <4>1 DEF Knows, SetUp, Kept
    <3> QED  BY <3>2, <3>3
  <2> QED  BY <2>2, <2>3, <2>4, <2>5 DEF UidInv
<1>5. ASSUME NEW c \in Callers, AcquireRaises(c) \/ BootstrapRaises(c) \/ Ends(c) PROVE UidInv'
  BY <1>0, <1>5, UidOver DEF AcquireRaises, BootstrapRaises, Ends, linux, Shape
<1>6. ASSUME NEW c \in Callers, Script(c) PROVE UidInv'
  <2> DEFINE b == box[c]
             t == thread[c]
             n == UidIn(b, t)
  <2>1. b \in made /\ b \in Boxes /\ t \in Threads /\ sb[c] \in made
    BY <1>0, <1>6 DEF Script, UidInv, Knows, SetUp, EntryOK
  <2>2. passwd' = [passwd EXCEPT ![b][t] = n] /\ UNCHANGED <<pooled, cache, thread, sb, box>>
    BY <1>6 DEF Script
  <2>3. /\ passwd' = [x \in Boxes |-> [y \in Threads |-> passwd'[x][y]]]
        /\ passwd'[b][t] = n
        /\ \A x \in Boxes, y \in Threads : x # b \/ y # t => passwd'[x][y] = passwd[x][y]
    <3>1. passwd = [x \in Boxes |-> [y \in Threads |-> passwd[x][y]]]
      BY <1>0 DEF Shape
    <3> HIDE DEF n, b, t
    <3> QED  BY <2>1, <2>2, <3>1
  <2>4. /\ n # 0
        /\ \A x \in Boxes, y \in Threads : passwd[x][y] # 0 => passwd'[x][y] = passwd[x][y]
    BY <2>1, <2>3, UidInIsUid DEF UidIn
  <2> HIDE DEF n
  <2>5. EntryOK'
    BY <1>0, <2>2 DEF EntryOK, pooled
  <2>6. Shape'
    <3>1. owner' = [y \in Threads |-> owner'[y]] /\ uid' = [d \in Callers |-> uid'[d]]
      BY <1>0, <1>6 DEF Script, Shape
    <3>2. stage' \in [Callers -> Stages]
      BY <1>0, <1>6 DEF Script, Shape, Goes, Stages
    <3> QED  BY <1>0, <2>2, <2>3, <3>1, <3>2 DEF Shape, pooled
  <2>7. CachedUidExists'
    BY <1>0, <2>2, <2>4 DEF CachedUidExists
  <2>8. ASSUME NEW d \in Callers PROVE Knows(d)' /\ SetUp(d)'
    <3>1. Knows(d) /\ SetUp(d) /\ SetUp(c)
      BY DEF UidInv
    <3>2. CASE d = c
      <4>1. stage'[c] = "scripted" /\ uid'[c] = n
        BY <1>0, <1>6 DEF Script, Goes, Shape, n
      <4> QED  BY <1>6, <2>1, <2>2, <2>3, <2>4, <3>1, <3>2, <4>1 DEF Script, Knows, SetUp, pooled
    <3>3. CASE d # c
      <4>1. UNCHANGED <<stage[d], uid[d]>>
        BY <1>0, <1>6, <3>3 DEF Script, Goes, Shape
      <4>2. UNCHANGED <<made, live, lost, thread[d], sb[d], box[d]>>
        BY <2>2 DEF pooled
      <4>3. stage[d] = "scripted" => passwd'[box[d]][thread[d]] = uid[d]
        BY <1>0, <2>4, <3>1 DEF Knows, SetUp, EntryOK
      <4>4. stage[d] = "run" /\ sb[d] \in live \ lost => passwd'[sb[d]][thread[d]] = uid[d]
        BY <1>0, <2>4, <3>1 DEF Knows, SetUp, EntryOK
      <4> QED  BY <3>1, <4>1, <4>2, <4>3, <4>4 DEF Knows, SetUp
    <3> QED  BY <3>2, <3>3
  <2> QED  BY <2>5, <2>6, <2>7, <2>8 DEF UidInv
<1>7. ASSUME NEW c \in Callers, Bootstrapped(c) PROVE UidInv'
  <2> DEFINE b == box[c]
             t == thread[c]
  <2>1. /\ b \in made /\ b \in Boxes /\ t \in Threads /\ sb[c] \in made
        /\ passwd[b][t] = uid[c] /\ uid[c] # 0 /\ (sb[c] \in live \ lost => sb[c] = b)
    BY <1>0, <1>7 DEF Bootstrapped, UidInv, Knows, SetUp, EntryOK
  <2>2. /\ cache' = [cache EXCEPT ![b][t] = uid[c]]
        /\ UNCHANGED <<pooled, passwd, owner, thread, sb, uid>>
    BY <1>7 DEF Bootstrapped, Notes
  <2>3. /\ cache' = [x \in Boxes |-> [y \in Threads |-> cache'[x][y]]]
        /\ cache'[b][t] = uid[c]
        /\ \A x \in Boxes, y \in Threads : x # b \/ y # t => cache'[x][y] = cache[x][y]
    <3>1. cache = [x \in Boxes |-> [y \in Threads |-> cache[x][y]]]
      BY <1>0 DEF Shape
    <3> HIDE DEF b, t
    <3> QED  BY <2>1, <2>2, <3>1
  <2>4. EntryOK'
    BY <1>0, <2>2 DEF EntryOK, pooled
  <2>5. Shape'
    <3>1. stage' \in [Callers -> Stages] /\ box' \in [Callers -> made \cup {None}]
      BY <1>0, <1>7 DEF Bootstrapped, Shape, Goes, Stages
    <3> QED  BY <1>0, <2>2, <2>3, <3>1 DEF Shape, pooled
  <2>6. CachedUidExists'
    BY <1>0, <2>1, <2>2, <2>3 DEF CachedUidExists
  <2>7. ASSUME NEW d \in Callers PROVE Knows(d)' /\ SetUp(d)'
    <3>1. Knows(d) /\ SetUp(d)
      BY DEF UidInv
    <3>2. UNCHANGED <<made, live, lost, passwd, thread[d], sb[d], uid[d]>>
      BY <2>2 DEF pooled
    <3>3. CASE d = c
      <4>1. stage'[c] = "run"
        BY <1>0, <1>7 DEF Bootstrapped, Goes, Shape
      <4> QED  BY <2>1, <3>2, <3>3, <4>1 DEF Knows, SetUp
    <3>4. CASE d # c
      <4>1. UNCHANGED <<stage[d], box[d]>>
        BY <1>0, <1>7, <3>4 DEF Bootstrapped, Goes, Shape
      <4> QED  BY <3>1, <3>2, <4>1 DEF Knows, SetUp
    <3> QED  BY <3>3, <3>4
  <2> QED  BY <2>4, <2>5, <2>6, <2>7 DEF UidInv
<1>8. ASSUME NEW c \in Callers, NEW t \in Threads, BeginDelete(c, t) PROVE UidInv'
  <2>1. EntryOK' /\ CachedUidExists' /\ entry \in made
    BY <1>0, <1>8 DEF BeginDelete, EntryOK, CachedUidExists, pooled, linux
  <2>2. Shape'
    BY <1>0, <1>8, <2>1 DEF BeginDelete, Shape, Goes, Stages, pooled, linux
  <2>3. ASSUME NEW d \in Callers PROVE Knows(d)' /\ SetUp(d)'
    <3>1. Knows(d) /\ SetUp(d)
      BY DEF UidInv
    <3> QED
      BY <1>0, <1>8, <2>1, <3>1 DEF BeginDelete, Knows, SetUp, Goes, Shape, pooled, linux
  <2> QED  BY <2>1, <2>2, <2>3 DEF UidInv
<1>9. ASSUME NEW c \in Callers, Deletes(c) PROVE UidInv'
  <2>1. EntryOK' /\ CachedUidExists'
    BY <1>0, <1>9 DEF Deletes, EntryOK, CachedUidExists, pooled
  <2>2. Shape'
    BY <1>0, <1>9 DEF Deletes, Shape, Goes, Stages, pooled
  <2>3. ASSUME NEW d \in Callers PROVE Knows(d)' /\ SetUp(d)'
    <3>1. Knows(d) /\ SetUp(d)
      BY DEF UidInv
    <3> QED
      BY <1>0, <1>9, <3>1 DEF Deletes, Knows, SetUp, Goes, Shape, pooled
  <2> QED  BY <2>1, <2>2, <2>3 DEF UidInv
<1>10. ASSUME NEW c \in Callers, Forgets(c) PROVE UidInv'
  <2>1. sb[c] \in Boxes /\ thread[c] \in Threads
    BY <1>0, <1>10 DEF Forgets, UidInv, Knows, EntryOK
  <2>2. /\ cache' = [x \in Boxes |-> [y \in Threads |-> cache'[x][y]]]
        /\ cache'[sb[c]][thread[c]] = 0
        /\ \A x \in Boxes, y \in Threads :
             x # sb[c] \/ y # thread[c] => cache'[x][y] = cache[x][y]
    <3>1. cache = [x \in Boxes |-> [y \in Threads |-> cache[x][y]]]
      BY <1>0 DEF Shape
    <3>2. cache' = [cache EXCEPT ![sb[c]][thread[c]] = 0]
      BY <1>10 DEF Forgets
    <3> QED  BY <2>1, <3>1, <3>2
  <2>3. \A x \in Boxes, y \in Threads : cache'[x][y] \in {0, cache[x][y]}
    BY <2>2
  <2> QED  BY <1>10, <2>2, <2>3, UidOver DEF Forgets
<1> QED
  BY <1>1, <1>2, <1>3, <1>4, <1>5, <1>6, <1>7, <1>8, <1>9, <1>10 DEF Next, CallStep

\* A note of _THREAD_UID is right, for any threads and uids: whatever was
\* created, paused or deleted since, the sandbox has the thread's Linux user.
THEOREM NotesAreRight == Spec => []CachedUidExists
<1>1. UidInv => CachedUidExists
  BY DEF UidInv
<1> QED  BY <1>1, UidInit, UidStep, PTL DEF Spec

\* A command finds its Linux user in the sandbox it runs in, for any threads
\* and uids, although that sandbox and the uid come from two acquires.
THEOREM CommandsFindTheirUser == Spec => []RunsWhereKnown
<1>1. UidInv => RunsWhereKnown
  BY DEF UidInv, SetUp, RunsWhereKnown
<1> QED  BY <1>1, UidInit, UidStep, PTL DEF Spec

-----------------------------------------------------------------------------
(* Names that hash apart *)

Apart == \A s, t \in Threads : Candidate[s] = Candidate[t] => s = t

\* Then every uid is the one the name hashes to.
NamesInv ==
  /\ \A b \in Boxes, t \in Threads :
       passwd[b][t] \in {0, Candidate[t]} /\ cache[b][t] \in {0, Candidate[t]}
  /\ \A t \in Threads : owner[t] \in {0, Candidate[t]}
  /\ \A c \in Callers : stage[c] \in {"scripted", "run"} => uid[c] = Candidate[thread[c]]

\* The probing of the script ends where it starts.
LEMMA FirstIsFree ==
  ASSUME Apart, NamesInv, NEW b \in Boxes, NEW t \in Threads
  PROVE  UidIn(b, t) = Candidate[t]
<1>1. Candidate \in [Threads -> Nat \ {0}]
  BY UsersAssumption
<1>2. CASE passwd[b][t] # 0
  BY <1>2 DEF NamesInv, UidIn
<1>3. CASE passwd[b][t] = 0
  <2>1. \A s \in Threads : passwd[b][s] # Candidate[t]
    BY <1>1, <1>3 DEF Apart, NamesInv
  <2>2. ~ (FreeUid(b, t) > Candidate[t])
    BY <1>1, <2>1, FreeUidIsFree
  <2> QED  BY <1>1, <1>3, <2>2, FreeUidIsFree DEF UidIn
<1> QED  BY <1>2, <1>3

LEMMA NamesInit == Init => NamesInv
BY DEF Init, NamesInv

LEMMA NamesStep ==
  ASSUME Apart, UidInv, NamesInv, [Next]_vars
  PROVE  NamesInv'
<1>0. Shape
  BY DEF UidInv
<1>1. CASE UNCHANGED <<linux, calls>>
  BY <1>1 DEF NamesInv, linux, calls
<1>2. ASSUME NEW c \in Callers, Over(c), UNCHANGED <<passwd, owner>>,
             \A b \in Boxes, t \in Threads : cache'[b][t] \in {0, cache[b][t]}
      PROVE  NamesInv'
  <2>1. \A d \in Callers : stage'[d] \in {"scripted", "run"} =>
          stage[d] = stage'[d] /\ thread'[d] = thread[d] /\ uid'[d] = uid[d]
    BY <1>0, <1>2 DEF Over, Goes, Shape
  <2> QED  BY <1>2, <2>1 DEF NamesInv
<1>3. ASSUME NEW c \in Callers, UNCHANGED linux,
             \A d \in Callers : stage'[d] \in {"scripted", "run"} =>
               stage[d] = stage'[d] /\ thread'[d] = thread[d] /\ uid'[d] = uid[d]
      PROVE  NamesInv'
  BY <1>3 DEF NamesInv, linux
<1>4. ASSUME NEW c \in Callers, NEW t \in Threads, Begin(c, t) \/ BeginDelete(c, t)
      PROVE  NamesInv'
  BY <1>0, <1>3, <1>4 DEF Begin, BeginDelete, Goes, Shape
<1>5. ASSUME NEW c \in Callers, Enter(c) PROVE NamesInv'
  <2>1. Knows(c) /\ stage[c] = "held" /\ UNCHANGED <<linux, thread>>
    BY <1>5 DEF UidInv, Enter
  <2>2. \A d \in Callers \ {c} : stage'[d] = stage[d] /\ uid'[d] = uid[d]
    BY <1>0, <1>5 DEF Enter, Goes, Shape
  <2>3. stage'[c] \in {"scripted", "run"} => uid'[c] = Candidate[thread[c]]
    BY <1>0, <1>5, <2>1 DEF Enter, Goes, Shape, Cached, Knows, NamesInv
  <2> QED  BY <2>1, <2>2, <2>3 DEF NamesInv, linux
<1>6. ASSUME NEW c \in Callers, Script(c) PROVE NamesInv'
  <2>1. box[c] \in Boxes /\ thread[c] \in Threads
    BY <1>0, <1>6 DEF Script, UidInv, Knows, SetUp, EntryOK
  <2>2. UidIn(box[c], thread[c]) = Candidate[thread[c]]
    BY <2>1, FirstIsFree
  <2>3. /\ passwd' = [passwd EXCEPT ![box[c]][thread[c]] = Candidate[thread[c]]]
        /\ owner' = [owner EXCEPT ![thread[c]] = Candidate[thread[c]]]
        /\ uid' = [uid EXCEPT ![c] = Candidate[thread[c]]]
        /\ Goes(c, "scripted") /\ UNCHANGED <<cache, thread>>
    BY <1>6, <2>2 DEF Script
  <2>4. \A b \in Boxes, t \in Threads : passwd'[b][t] \in {0, Candidate[t]}
    BY <1>0, <2>1, <2>3 DEF Shape, NamesInv
  <2>5. \A t \in Threads : owner'[t] \in {0, Candidate[t]}
    BY <1>0, <2>1, <2>3 DEF Shape, NamesInv
  <2>6. \A d \in Callers : stage'[d] \in {"scripted", "run"} => uid'[d] = Candidate[thread[d]]
    BY <1>0, <2>3 DEF Shape, Goes, NamesInv
  <2> QED  BY <2>3, <2>4, <2>5, <2>6 DEF NamesInv
<1>7. ASSUME NEW c \in Callers, Bootstrapped(c) PROVE NamesInv'
  <2>1. box[c] \in Boxes /\ thread[c] \in Threads /\ uid[c] = Candidate[thread[c]]
    BY <1>0, <1>7 DEF Bootstrapped, UidInv, Knows, SetUp, EntryOK, NamesInv
  <2>2. /\ cache' = [cache EXCEPT ![box[c]][thread[c]] = Candidate[thread[c]]]
        /\ Goes(c, "run") /\ UNCHANGED <<passwd, owner, thread, uid>>
    BY <1>7, <2>1 DEF Bootstrapped, Notes
  <2>3. \A b \in Boxes, t \in Threads : cache'[b][t] \in {0, Candidate[t]}
    BY <1>0, <2>1, <2>2 DEF Shape, NamesInv
  <2>4. \A d \in Callers : stage'[d] \in {"scripted", "run"} => uid'[d] = Candidate[thread[d]]
    BY <1>0, <2>1, <2>2 DEF Shape, Goes, NamesInv
  <2> QED  BY <2>2, <2>3, <2>4 DEF NamesInv
<1>8. ASSUME NEW c \in Callers, AcquireRaises(c) \/ BootstrapRaises(c) \/ Ends(c)
      PROVE  NamesInv'
  BY <1>2, <1>8 DEF AcquireRaises, BootstrapRaises, Ends, linux
<1>9. ASSUME NEW c \in Callers, Deletes(c) PROVE NamesInv'
  <2>1. \A d \in Callers : stage'[d] \in {"scripted", "run"} => stage[d] = stage'[d]
    BY <1>0, <1>9 DEF Deletes, Goes, Shape
  <2>2. \A t \in Threads : owner'[t] \in {0, Candidate[t]}
    BY <1>0, <1>9 DEF Deletes, Shape, NamesInv
  <2> QED  BY <1>9, <2>1, <2>2 DEF Deletes, NamesInv
<1>10. ASSUME NEW c \in Callers, Forgets(c) PROVE NamesInv'
  <2>1. \A b \in Boxes, t \in Threads : cache'[b][t] \in {0, cache[b][t]}
    BY <1>0, <1>10 DEF Forgets, UidInv, Knows, EntryOK, Shape
  <2> QED  BY <1>2, <1>10, <2>1 DEF Forgets
<1> QED
  BY <1>1, <1>4, <1>5, <1>6, <1>7, <1>8, <1>9, <1>10 DEF Next, CallStep, PoolStep, vars

\* With names that hash apart, a thread has the same uid in every sandbox of
\* the user, whichever threads were set up there before it.
THEOREM UidsAreStable ==
  ASSUME Apart
  PROVE  Spec => []UidIsStable
<1>1. NamesInv => UidIsStable
  BY DEF NamesInv, UidIsStable
<1>2. UidInv /\ NamesInv /\ [Next]_vars => UidInv' /\ NamesInv'
  BY UidStep, NamesStep
<1> QED  BY <1>1, <1>2, UidInit, NamesInit, PTL DEF Spec

\* With names that hash apart, a command's uid owns the directory of its
\* thread and no other thread's, across deletions and new sandboxes.
THEOREM DirectoriesAreApart ==
  ASSUME Apart
  PROVE  Spec => []OwnDirectoryOnly
<1>1. UidInv /\ NamesInv => OwnDirectoryOnly
  <2> SUFFICES ASSUME UidInv, NamesInv, NEW c \in Callers, NEW s \in Threads,
                      stage[c] = "run", owner[s] # 0
               PROVE  owner[s] = uid[c] <=> s = thread[c]
    BY DEF OwnDirectoryOnly
  <2>1. thread[c] \in Threads /\ uid[c] = Candidate[thread[c]] /\ owner[s] = Candidate[s]
    BY DEF UidInv, Knows, NamesInv
  <2> QED  BY <2>1 DEF Apart
<1>2. UidInv /\ NamesInv /\ [Next]_vars => UidInv' /\ NamesInv'
  BY UidStep, NamesStep
<1> QED  BY <1>1, <1>2, UidInit, NamesInit, PTL DEF Spec
=============================================================================
