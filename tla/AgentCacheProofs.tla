-------------------------- MODULE AgentCacheProofs --------------------------
(***************************************************************************)
(* An edit saved while its user has no request under way is never undone   *)
(* by the caches; the caches stay within their caps and well-formed; and   *)
(* an agent in use is not evicted: for any users, requests, editors,       *)
(* limits and edits.                                                       *)
(***************************************************************************)
EXTENDS AgentCache, SequenceTheorems, FiniteSetTheorems, TLAPS

\* The types of everything but the orders of the caches.
ValuesOK ==
  /\ db \in [Users -> [Parts -> Versions]]
  /\ edit \in [Editors -> {NoEdit} \cup (Users \X Parts \X Versions)]
  /\ blobs.value \in [BlobKeys -> SUBSET Blobs]
  /\ agents.value \in [AgentKeys -> SUBSET [Baked -> Versions]]
  /\ stage \in [Tasks -> Stages]
  /\ query \in [Tasks -> {"none", "sent", "read"}]
  /\ owner \in [Tasks -> {NoOwner} \cup AgentKeys]
  /\ \A t \in Tasks : stage[t] # "idle" => owner[t] \in AgentKeys
  /\ loaded \in [Tasks -> Versions] /\ tools \in [Tasks -> Versions]
  /\ using \in [Tasks -> [Parts -> Versions]]
  /\ settled \in [Users -> [Parts -> Versions]]

\* No version that a user's caches or requests still hold is older than the
\* user's last settled one.
BlobsSettled ==
  \A u \in Users, p \in Parts :
    /\ settled[u][p] <= db[u][p]
    /\ \A e \in blobs.value[<<u, p>>] : settled[u][p] <= e.version
AgentsSettled ==
  \A u \in Users, c \in Confs, p \in Baked :
    \A a \in agents.value[<<u, c>>] : settled[u][p] <= a[p]

TaskSettled(t) ==
  IF stage[t] \in {"idle", "done"} THEN query[t] = "none"
  ELSE LET floor == settled[User(t)]
       IN /\ query[t] = "read" => floor[PartOf(stage[t])] <= loaded[t]
          /\ stage[t] = "model" => floor["mcp"] <= tools[t]
          /\ stage[t] = "run" => \A p \in Baked : floor[p] <= using[t][p]
TasksSettled == \A t \in Tasks : TaskSettled(t)

SettledInv == ValuesOK /\ BlobsSettled /\ AgentsSettled /\ TasksSettled

-----------------------------------------------------------------------------
(* The cache operations *)

\* A content of the blobs that SettledInv allows.
Sound(b) ==
  /\ b.value \in [BlobKeys -> SUBSET Blobs]
  /\ \A u \in Users, p \in Parts : \A e \in b.value[<<u, p>>] : settled[u][p] <= e.version

\* Promoting a key changes no entry.
LEMMA TouchValue == \A c, k : Touch(c, k).value = c.value
  BY DEF Touch

\* Dropping keys leaves a sound cache.
LEMMA DropSound ==
  ASSUME NEW b, NEW gone, Sound(b)
  PROVE  Sound(Drop(b, gone))
<1>1. Drop(b, gone).value = [k \in BlobKeys |-> IF k \in gone THEN {} ELSE b.value[k]]
  BY DEF Drop, Sound
<1>2. \A k \in BlobKeys : Drop(b, gone).value[k] \subseteq b.value[k]
  BY <1>1
<1>3. Drop(b, gone).value \in [BlobKeys -> SUBSET Blobs]
  BY <1>1 DEF Sound
<1> QED  BY <1>2, <1>3 DEF Sound, BlobKeys

\* Putting an entry that is recent enough leaves a sound cache.
LEMMA PutSound ==
  ASSUME NEW b, Sound(b), NEW u \in Users, NEW p \in Parts, NEW max,
         NEW e \in Blobs, settled[u][p] <= e.version
  PROVE  Sound(Put(b, <<u, p>>, e, max))
<1> DEFINE k == <<u, p>>
           order == Append(Without(b.order, {k}), k)
           c == [value |-> [b.value EXCEPT ![k] = {e}], order |-> order]
           oldest == {order[i] : i \in 1 .. Len(order) - max}
<1>1. c.value \in [BlobKeys -> SUBSET Blobs]
  BY DEF Sound, BlobKeys
<1>2. \A w \in Users, q \in Parts : \A f \in c.value[<<w, q>>] : settled[w][q] <= f.version
  <2> SUFFICES ASSUME NEW w \in Users, NEW q \in Parts, NEW f \in c.value[<<w, q>>]
               PROVE  settled[w][q] <= f.version
    OBVIOUS
  <2>1. CASE <<w, q>> = k
    BY <2>1 DEF Sound, BlobKeys
  <2>2. CASE <<w, q>> # k
    BY <2>2 DEF Sound, BlobKeys
  <2> QED  BY <2>1, <2>2
<1>3. Sound(c)
  BY <1>1, <1>2 DEF Sound
<1>4. Put(b, k, e, max) = Drop(c, oldest)
  BY DEF Put
<1> HIDE DEF c, oldest, k
<1>5. Sound(Put(b, k, e, max))
  BY <1>3, <1>4, DropSound
<1> QED  BY <1>5 DEF k

\* What a hit in a sound cache returns.
LEMMA HitSound ==
  ASSUME NEW b, Sound(b), NEW u \in Users, NEW p \in Parts, NEW e \in Hits(b, <<u, p>>)
  PROVE  e \in Blobs /\ e.version \in Versions /\ settled[u][p] <= e.version
<1>1. e \in b.value[<<u, p>>] /\ <<u, p>> \in BlobKeys
  BY DEF Hits, BlobKeys
<1>2. e \in Blobs /\ settled[u][p] <= e.version
  BY <1>1 DEF Sound
<1>3. e.version \in Versions
  BY <1>2 DEF Blobs
<1> QED  BY <1>2, <1>3

\* The same for the agents.
AgentsSound(c) ==
  /\ c.value \in [AgentKeys -> SUBSET [Baked -> Versions]]
  /\ \A u \in Users, f \in Confs, p \in Baked :
       \A a \in c.value[<<u, f>>] : settled[u][p] <= a[p]

LEMMA DropAgentsSound ==
  ASSUME NEW c, NEW gone, AgentsSound(c)
  PROVE  AgentsSound(Drop(c, gone))
<1>1. Drop(c, gone).value = [k \in AgentKeys |-> IF k \in gone THEN {} ELSE c.value[k]]
  BY DEF Drop, AgentsSound
<1>2. \A k \in AgentKeys : Drop(c, gone).value[k] \subseteq c.value[k]
  BY <1>1
<1>3. Drop(c, gone).value \in [AgentKeys -> SUBSET [Baked -> Versions]]
  BY <1>1 DEF AgentsSound
<1> QED  BY <1>2, <1>3 DEF AgentsSound, AgentKeys

LEMMA PutAgentSound ==
  ASSUME NEW c, AgentsSound(c), NEW k \in AgentKeys, NEW max,
         NEW a \in [Baked -> Versions], \A p \in Baked : settled[k[1]][p] <= a[p]
  PROVE  AgentsSound(Put(c, k, a, max))
<1> DEFINE order == Append(Without(c.order, {k}), k)
           d == [value |-> [c.value EXCEPT ![k] = {a}], order |-> order]
           oldest == {order[i] : i \in 1 .. Len(order) - max}
<1>1. d.value \in [AgentKeys -> SUBSET [Baked -> Versions]]
  BY DEF AgentsSound
<1>2. \A u \in Users, f \in Confs, p \in Baked :
        \A b \in d.value[<<u, f>>] : settled[u][p] <= b[p]
  <2> SUFFICES ASSUME NEW u \in Users, NEW f \in Confs, NEW p \in Baked,
                      NEW b \in d.value[<<u, f>>]
               PROVE  settled[u][p] <= b[p]
    OBVIOUS
  <2>1. CASE <<u, f>> = k
    <3>1. b = a /\ k[1] = u
      BY <2>1 DEF AgentsSound, AgentKeys
    <3> QED  BY <3>1
  <2>2. CASE <<u, f>> # k
    BY <2>2 DEF AgentsSound, AgentKeys
  <2> QED  BY <2>1, <2>2
<1>3. AgentsSound(d)
  BY <1>1, <1>2 DEF AgentsSound
<1>4. Put(c, k, a, max) = Drop(d, oldest)
  BY DEF Put
<1> HIDE DEF d, oldest
<1> QED  BY <1>3, <1>4, DropAgentsSound

-----------------------------------------------------------------------------
(* The steps of a request *)

\* The parts of SettledInv a request's step leaves to be shown: it moves only
\* its own task, to a lookup whose load has not been read.
LEMMA TaskMoves ==
  ASSUME SettledInv, NEW t \in Tasks, NEW s \in Stages, NEW q \in {"none", "sent"},
         owner[t] \in AgentKeys, s \in {"idle", "done"} => q = "none",
         UNCHANGED <<db, edit, owner, settled>>,
         stage' = [stage EXCEPT ![t] = s],
         query' = [query EXCEPT ![t] = q],
         loaded' \in [Tasks -> Versions],
         tools' \in [Tasks -> Versions],
         using' \in [Tasks -> [Parts -> Versions]],
         \A r \in Tasks \ {t} :
           loaded'[r] = loaded[r] /\ tools'[r] = tools[r] /\ using'[r] = using[r],
         Sound(blobs'), AgentsSound(agents'),
         s = "model" => settled[User(t)]["mcp"] <= tools'[t],
         s = "run" => \A p \in Baked : settled[User(t)][p] <= using'[t][p]
  PROVE  SettledInv'
<1>1. ValuesOK'
  BY DEF SettledInv, ValuesOK, Sound, AgentsSound
<1>2. BlobsSettled'
  BY DEF SettledInv, BlobsSettled, Sound
<1>3. AgentsSettled'
  BY DEF AgentsSound, AgentsSettled
<1>4. TasksSettled'
  <2> SUFFICES ASSUME NEW r \in Tasks PROVE TaskSettled(r)'
    BY DEF TasksSettled
  <2>0. User(r)' = User(r)
    BY DEF User
  <2>1. CASE r = t
    <3>1. stage'[r] = s /\ query'[r] = q /\ query'[r] # "read"
      BY <2>1 DEF SettledInv, ValuesOK
    <3> QED  BY <2>0, <2>1, <3>1 DEF TaskSettled
  <2>2. CASE r # t
    <3>1. stage'[r] = stage[r] /\ query'[r] = query[r]
      BY <2>2 DEF SettledInv, ValuesOK
    <3>2. TaskSettled(r)
      BY DEF SettledInv, TasksSettled
    <3> QED  BY <2>0, <2>2, <3>1, <3>2 DEF TaskSettled
  <2> QED  BY <2>1, <2>2
<1> QED  BY <1>1, <1>2, <1>3, <1>4 DEF SettledInv

\* What SettledInv says of the caches and of the task that looks up.
LEMMA Facts ==
  ASSUME SettledInv, NEW t \in Tasks, stage[t] \notin {"idle", "done"}
  PROVE  /\ owner[t] \in AgentKeys /\ User(t) \in Users /\ owner[t][1] = User(t)
         /\ PartOf(stage[t]) \in Parts
         /\ KeyOf(t) = <<User(t), PartOf(stage[t])>>
         /\ Sound(blobs) /\ AgentsSound(agents)
<1>1. owner[t] \in AgentKeys
  BY DEF SettledInv, ValuesOK
<1>2. User(t) \in Users /\ owner[t][1] = User(t)
  BY <1>1 DEF User, AgentKeys
<1>3. PartOf(stage[t]) \in Parts
  BY DEF PartOf, Parts
<1>4. Sound(blobs) /\ AgentsSound(agents)
  BY DEF SettledInv, ValuesOK, BlobsSettled, AgentsSettled, Sound, AgentsSound
<1> QED  BY <1>1, <1>2, <1>3, <1>4 DEF KeyOf

\* A step with what it leaves alone, for the lemmas below.
Quiet(t) ==
  /\ UNCHANGED <<db, edit, owner, settled>>
  /\ loaded' \in [Tasks -> Versions]
  /\ \A r \in Tasks \ {t} : loaded'[r] = loaded[r]

LEMMA RunsWithMoves ==
  ASSUME SettledInv, NEW t \in Tasks, stage[t] \notin {"idle", "done"}, Quiet(t),
         NEW b, Sound(b), NEW a \in [Baked -> Versions],
         \A p \in Baked : settled[User(t)][p] <= a[p],
         RunsWith(t, b, a), AgentsSound(agents'),
         tools' \in [Tasks -> Versions], \A r \in Tasks \ {t} : tools'[r] = tools[r]
  PROVE  SettledInv'
<1> DEFINE w == [p \in Parts |-> IF p \in Baked THEN a[p] ELSE 0]
<1>0. owner[t] \in AgentKeys
  BY Facts
<1>1. w \in [Parts -> Versions] /\ \A p \in Baked : w[p] = a[p]
  <2>1. 0 \in Versions
    BY LimitsAssumption DEF Versions
  <2> QED  BY <2>1 DEF Parts, Baked
<1> HIDE DEF w
<1>2. using' = [using EXCEPT ![t] = w]
  BY DEF RunsWith, w
<1>3. /\ using' \in [Tasks -> [Parts -> Versions]]
      /\ using'[t] = w
      /\ \A r \in Tasks \ {t} : using'[r] = using[r]
  BY <1>1, <1>2 DEF SettledInv, ValuesOK
<1>4. /\ stage' = [stage EXCEPT ![t] = "run"]
      /\ query' = [query EXCEPT ![t] = "none"]
      /\ blobs' = b
  BY DEF RunsWith, GoesTo
<1>5. Sound(blobs')
  BY <1>4
<1>6. \A p \in Baked : settled[User(t)][p] <= using'[t][p]
  BY <1>1, <1>3
<1>7. "run" \in Stages
  BY DEF Stages
<1> QED  BY <1>0, <1>3, <1>4, <1>5, <1>6, <1>7, TaskMoves DEF Quiet

LEMMA MissesMoves ==
  ASSUME SettledInv, NEW t \in Tasks, stage[t] \notin {"idle", "done"}, Quiet(t),
         NEW b, Sound(b), NEW s \in {"resolve", "specs", "mcp", "model", "run"},
         Misses(t, b, s), UNCHANGED <<agents, using>>,
         s = "run" => stage[t] = "run",
         tools' \in [Tasks -> Versions], \A r \in Tasks \ {t} : tools'[r] = tools[r],
         s = "model" => settled[User(t)]["mcp"] <= tools'[t]
  PROVE  SettledInv'
<1>1. owner[t] \in AgentKeys /\ AgentsSound(agents')
  BY Facts DEF AgentsSound
<1>2. /\ stage' = [stage EXCEPT ![t] = s]
      /\ query' = [query EXCEPT ![t] = "sent"]
      /\ Sound(blobs')
  BY DropSound DEF Misses
<1>3. s = "run" => \A p \in Baked : settled[User(t)][p] <= using'[t][p]
  BY DEF SettledInv, TasksSettled, TaskSettled
<1>4. using' \in [Tasks -> [Parts -> Versions]]
  BY DEF SettledInv, ValuesOK
<1>5. s \in Stages
  BY DEF Stages
<1> QED  BY <1>1, <1>2, <1>3, <1>4, <1>5, TaskMoves DEF Quiet

LEMMA BuildMoves ==
  ASSUME SettledInv, NEW t \in Tasks, stage[t] \notin {"idle", "done"}, Quiet(t),
         NEW b, Sound(b), NEW m \in Versions, settled[User(t)]["mcp"] <= m,
         Build(t, b, m)
  PROVE  SettledInv'
<1> DEFINE key == <<User(t), "specs">>
<1>0. /\ User(t) \in Users /\ owner[t] \in AgentKeys /\ AgentsSound(agents)
      /\ owner[t][1] = User(t)
  BY Facts
<1>1. CASE Misses(t, b, "model") /\ tools' = [tools EXCEPT ![t] = m] /\ UNCHANGED <<agents, using>>
  <2>1. /\ tools' \in [Tasks -> Versions]
        /\ tools'[t] = m
        /\ \A r \in Tasks \ {t} : tools'[r] = tools[r]
    BY <1>1 DEF SettledInv, ValuesOK
  <2> QED  BY <1>1, <2>1, MissesMoves
<1>2. CASE \E e \in Hits(b, key) :
             LET agent == [p \in Baked |-> IF p = "mcp" THEN m ELSE e.version]
             IN /\ agents' = Put(agents, owner[t], agent, AgentMax)
                /\ RunsWith(t, Touch(b, key), agent)
                /\ tools' = [tools EXCEPT ![t] = 0]
  <2> PICK e \in Hits(b, key) :
             LET agent == [p \in Baked |-> IF p = "mcp" THEN m ELSE e.version]
             IN /\ agents' = Put(agents, owner[t], agent, AgentMax)
                /\ RunsWith(t, Touch(b, key), agent)
                /\ tools' = [tools EXCEPT ![t] = 0]
    BY <1>2
  <2> DEFINE agent == [p \in Baked |-> IF p = "mcp" THEN m ELSE e.version]
  <2>1. e \in Blobs /\ settled[User(t)]["specs"] <= e.version
    <3>1. "specs" \in Parts
      BY DEF Parts
    <3> QED  BY <1>0, <3>1, HitSound
  <2>2. agent \in [Baked -> Versions] /\ \A p \in Baked : settled[User(t)][p] <= agent[p]
    BY <2>1 DEF Baked, Blobs
  <2>3. /\ agents' = Put(agents, owner[t], agent, AgentMax)
        /\ RunsWith(t, Touch(b, key), agent)
        /\ tools' = [tools EXCEPT ![t] = 0]
    OBVIOUS
  <2> HIDE DEF agent
  <2>4. AgentsSound(agents')
    BY <1>0, <2>2, <2>3, PutAgentSound
  <2>5. Sound(Touch(b, key))
    BY TouchValue DEF Sound
  <2>6. tools' \in [Tasks -> Versions] /\ \A r \in Tasks \ {t} : tools'[r] = tools[r]
    BY <2>3, LimitsAssumption DEF SettledInv, ValuesOK, Versions
  <2> QED  BY <2>2, <2>3, <2>4, <2>5, <2>6, RunsWithMoves
<1> QED  BY <1>1, <1>2 DEF Build

LEMMA FindAgentMoves ==
  ASSUME SettledInv, NEW t \in Tasks, stage[t] \notin {"idle", "done"}, Quiet(t),
         NEW b, Sound(b), FindAgent(t, b)
  PROVE  SettledInv'
<1> DEFINE key == <<User(t), "mcp">>
<1>0. /\ User(t) \in Users /\ owner[t] \in AgentKeys /\ AgentsSound(agents)
      /\ owner[t][1] = User(t) /\ tools \in [Tasks -> Versions]
  BY Facts DEF SettledInv, ValuesOK
<1>1. CASE \E a \in agents.value[owner[t]] :
             /\ agents' = Touch(agents, owner[t])
             /\ RunsWith(t, b, a)
             /\ UNCHANGED tools
  <2> PICK a \in agents.value[owner[t]] :
             /\ agents' = Touch(agents, owner[t])
             /\ RunsWith(t, b, a)
             /\ UNCHANGED tools
    BY <1>1
  <2>1. AgentsSound(agents')
    BY <1>0, TouchValue DEF AgentsSound
  <2>2. a \in [Baked -> Versions] /\ \A p \in Baked : settled[User(t)][p] <= a[p]
    BY <1>0 DEF AgentsSound, AgentKeys
  <2> QED  BY <1>0, <2>1, <2>2, RunsWithMoves
<1>2. CASE Misses(t, b, "mcp") /\ UNCHANGED <<agents, tools, using, since>>
  BY <1>0, <1>2, MissesMoves
<1>3. CASE \E e \in Hits(b, key) : Build(t, Touch(b, key), e.version)
  <2> PICK e \in Hits(b, key) : Build(t, Touch(b, key), e.version)
    BY <1>3
  <2>1. e.version \in Versions /\ settled[User(t)]["mcp"] <= e.version
    <3>1. "mcp" \in Parts
      BY DEF Parts
    <3> QED  BY <1>0, <3>1, HitSound
  <2>2. Sound(Touch(b, key))
    BY TouchValue DEF Sound
  <2> QED  BY <2>1, <2>2, BuildMoves
<1> QED  BY <1>1, <1>2, <1>3 DEF FindAgent

LEMMA FoundMoves ==
  ASSUME SettledInv, NEW t \in Tasks, stage[t] \notin {"idle", "done"}, Quiet(t),
         NEW b, Sound(b), NEW v \in Versions,
         settled[User(t)][PartOf(stage[t])] <= v, Found(t, b, v)
  PROVE  SettledInv'
<1>0. /\ owner[t] \in AgentKeys /\ AgentsSound(agents)
      /\ tools \in [Tasks -> Versions] /\ using \in [Tasks -> [Parts -> Versions]]
  BY Facts DEF SettledInv, ValuesOK
<1>1. CASE stage[t] = "resolve" /\ GoesTo(t, b, "specs") /\ UNCHANGED <<agents, tools, using, since>>
  <2>1. AgentsSound(agents') /\ Sound(blobs')
    BY <1>0, <1>1 DEF AgentsSound, GoesTo
  <2>2. "specs" \in Stages
    BY DEF Stages
  <2> QED  BY <1>0, <1>1, <2>1, <2>2, TaskMoves DEF Quiet, GoesTo
<1>2. CASE stage[t] = "specs" /\ FindAgent(t, b)
  BY <1>2, FindAgentMoves
<1>3. CASE stage[t] = "mcp" /\ Build(t, b, v)
  <2>1. settled[User(t)]["mcp"] <= v
    BY <1>3 DEF PartOf
  <2> QED  BY <1>3, <2>1, BuildMoves
<1>4. CASE stage[t] = "model" /\ Build(t, b, tools[t])
  <2>1. tools[t] \in Versions /\ settled[User(t)]["mcp"] <= tools[t]
    BY <1>0, <1>4 DEF SettledInv, TasksSettled, TaskSettled
  <2> QED  BY <1>4, <2>1, BuildMoves
<1>5. CASE /\ stage[t] = "run" /\ GoesTo(t, b, "done")
           /\ using' = [using EXCEPT ![t]["skills"] = v]
           /\ UNCHANGED <<agents, tools, since>>
  <2>1. AgentsSound(agents') /\ Sound(blobs')
    BY <1>0, <1>5 DEF AgentsSound, GoesTo
  <2>2. "done" \in Stages
    BY DEF Stages
  <2>3. using' \in [Tasks -> [Parts -> Versions]] /\ \A r \in Tasks \ {t} : using'[r] = using[r]
    BY <1>0, <1>5 DEF Parts
  <2> QED  BY <1>0, <1>5, <2>1, <2>2, <2>3, TaskMoves DEF Quiet, GoesTo
<1> QED  BY <1>1, <1>2, <1>3, <1>4, <1>5 DEF Found

LEMMA LookUpKeeps ==
  ASSUME SettledInv, NEW t \in Tasks, LookUp(t)
  PROVE  SettledInv'
<1> DEFINE key == KeyOf(t)
<1>1. stage[t] \in {"resolve", "specs", "run"} /\ stage[t] \notin {"idle", "done"}
  BY DEF LookUp
<1>2. /\ User(t) \in Users /\ PartOf(stage[t]) \in Parts
      /\ key = <<User(t), PartOf(stage[t])>> /\ Sound(blobs)
  BY <1>1, Facts
<1>3. UNCHANGED loaded /\ loaded \in [Tasks -> Versions] /\ tools \in [Tasks -> Versions]
  BY DEF LookUp, SettledInv, ValuesOK
<1>4. CASE \E e \in Hits(blobs, key) : Found(t, Touch(blobs, key), e.version)
  <2> PICK e \in Hits(blobs, key) : Found(t, Touch(blobs, key), e.version)
    BY <1>4
  <2>1. e.version \in Versions /\ settled[User(t)][PartOf(stage[t])] <= e.version
    BY <1>2, HitSound
  <2>2. Sound(Touch(blobs, key))
    BY <1>2, TouchValue DEF Sound
  <2>3. Quiet(t)
    BY <1>3 DEF Quiet, Found
  <2> QED  BY <1>1, <2>1, <2>2, <2>3, FoundMoves
<1>5. CASE /\ Misses(t, blobs, stage[t])
           /\ UNCHANGED <<db, edit, agents, owner, tools, using, asOf, saved, settled, since>>
  <2>1. Quiet(t)
    BY <1>3, <1>5 DEF Quiet
  <2>2. stage[t] \in {"resolve", "specs", "mcp", "model", "run"} /\ stage[t] # "model"
    BY <1>1
  <2> QED  BY <1>1, <1>2, <1>3, <1>5, <2>1, <2>2, MissesMoves
<1> QED  BY <1>4, <1>5 DEF LookUp

LEMMA LoadEndsKeeps ==
  ASSUME SettledInv, NEW t \in Tasks, stage[t] \notin {"idle", "done"}, LoadEnds(t)
  PROVE  SettledInv'
<1> DEFINE entry == [version |-> loaded[t], live |-> TRUE]
           b == Put(blobs, KeyOf(t), entry, BlobMax)
<1>1. /\ User(t) \in Users /\ PartOf(stage[t]) \in Parts
      /\ KeyOf(t) = <<User(t), PartOf(stage[t])>> /\ Sound(blobs)
  BY Facts
<1>2. loaded \in [Tasks -> Versions] /\ settled[User(t)][PartOf(stage[t])] <= loaded[t]
  BY DEF LoadEnds, SettledInv, ValuesOK, TasksSettled, TaskSettled
<1>3. Found(t, b, loaded[t]) /\ loaded' = [loaded EXCEPT ![t] = 0]
  BY DEF LoadEnds
<1>4. Quiet(t)
  <2>1. 0 \in Versions
    BY LimitsAssumption DEF Versions
  <2> QED  BY <1>2, <1>3, <2>1 DEF Quiet, Found
<1>5. entry \in Blobs /\ entry.version = loaded[t]
  BY <1>2 DEF Blobs
<1> HIDE DEF entry
<1>6. Sound(b)
  BY <1>1, <1>2, <1>5, PutSound
<1> HIDE DEF b
<1> QED  BY <1>2, <1>3, <1>4, <1>6, FoundMoves

LEMMA LoadReadsKeeps ==
  ASSUME SettledInv, NEW t \in Tasks, LoadReads(t)
  PROVE  SettledInv'
<1> DEFINE v == db[User(t)][PartOf(stage[t])]
<1>1. stage[t] \notin {"idle", "done"} /\ query[t] = "sent"
  BY DEF LoadReads, SettledInv, TasksSettled, TaskSettled
<1>2. User(t) \in Users /\ PartOf(stage[t]) \in Parts
  BY <1>1, Facts
<1>3. v \in Versions /\ settled[User(t)][PartOf(stage[t])] <= v
  BY <1>2 DEF SettledInv, ValuesOK, BlobsSettled
<1>4. /\ query' = [query EXCEPT ![t] = "read"]
      /\ loaded' = [loaded EXCEPT ![t] = v]
      /\ UNCHANGED <<db, edit, blobs, agents, stage, owner, tools, using, settled>>
  BY DEF LoadReads
<1> HIDE DEF v
<1>5. ValuesOK'
  BY <1>3, <1>4 DEF SettledInv, ValuesOK
<1>6. BlobsSettled' /\ AgentsSettled'
  BY <1>4 DEF SettledInv, BlobsSettled, AgentsSettled
<1>7. TasksSettled'
  <2> SUFFICES ASSUME NEW r \in Tasks PROVE TaskSettled(r)'
    BY DEF TasksSettled
  <2>1. User(r)' = User(r) /\ stage'[r] = stage[r] /\ PartOf(stage[r])' = PartOf(stage[r])
    BY <1>4 DEF User, PartOf
  <2>2. TaskSettled(r)
    BY DEF SettledInv, TasksSettled
  <2>3. CASE r = t
    <3>1. query'[r] = "read" /\ loaded'[r] = v
      BY <1>4, <2>3 DEF SettledInv, ValuesOK
    <3> QED  BY <1>1, <1>3, <1>4, <2>1, <2>2, <2>3, <3>1 DEF TaskSettled
  <2>4. CASE r # t
    <3>1. query'[r] = query[r] /\ loaded'[r] = loaded[r]
      BY <1>4, <2>4 DEF SettledInv, ValuesOK
    <3> QED  BY <1>4, <2>1, <2>2, <3>1 DEF TaskSettled
  <2> QED  BY <2>3, <2>4
<1> QED  BY <1>5, <1>6, <1>7 DEF SettledInv

LEMMA BeginKeeps ==
  ASSUME SettledInv, NEW t \in Tasks, NEW o \in AgentKeys, Begin(t, o)
  PROVE  SettledInv'
<1>1. /\ stage' = [stage EXCEPT ![t] = "resolve"]
      /\ owner' = [owner EXCEPT ![t] = o]
      /\ using' = [using EXCEPT ![t] = Zero]
      /\ UNCHANGED <<db, edit, blobs, agents, query, loaded, tools, settled>>
  BY DEF Begin
<1>2. query[t] = "none"
  BY DEF Begin, SettledInv, TasksSettled, TaskSettled
<1>3. Zero \in [Parts -> Versions] /\ "resolve" \in Stages
  BY LimitsAssumption DEF Zero, Versions, Stages
<1>4. ValuesOK'
  BY <1>1, <1>3 DEF SettledInv, ValuesOK
<1>5. BlobsSettled' /\ AgentsSettled'
  BY <1>1 DEF SettledInv, BlobsSettled, AgentsSettled
<1>6. TasksSettled'
  <2> SUFFICES ASSUME NEW r \in Tasks PROVE TaskSettled(r)'
    BY DEF TasksSettled
  <2>1. CASE r = t
    <3>1. stage'[r] = "resolve" /\ query'[r] = "none"
      BY <1>1, <1>2, <2>1 DEF SettledInv, ValuesOK
    <3> QED  BY <3>1 DEF TaskSettled
  <2>2. CASE r # t
    <3>1. stage'[r] = stage[r] /\ owner'[r] = owner[r] /\ using'[r] = using[r]
      BY <1>1, <2>2 DEF SettledInv, ValuesOK
    <3>2. TaskSettled(r)
      BY DEF SettledInv, TasksSettled
    <3> QED  BY <1>1, <3>1, <3>2 DEF TaskSettled, User
  <2> QED  BY <2>1, <2>2
<1> QED  BY <1>4, <1>5, <1>6 DEF SettledInv

-----------------------------------------------------------------------------
(* Edits, and time *)

\* Steps that leave the requests and the settled versions alone.
LEMMA TasksKept ==
  ASSUME SettledInv, UNCHANGED <<requests, settled>>
  PROVE  TasksSettled'
<1> SUFFICES ASSUME NEW r \in Tasks PROVE TaskSettled(r)'
  BY DEF TasksSettled
<1>1. TaskSettled(r)
  BY DEF SettledInv, TasksSettled
<1> QED  BY <1>1 DEF TaskSettled, User, requests

LEMMA CommitKeeps ==
  ASSUME SettledInv, NEW e \in Editors, NEW u \in Users, NEW p \in Parts, NEW v \in Versions,
         Commit(e, u, p, v)
  PROVE  SettledInv'
<1>1. /\ db' = [db EXCEPT ![u][p] = v] /\ db[u][p] < v
      /\ edit' = [edit EXCEPT ![e] = <<u, p, v>>]
      /\ UNCHANGED <<blobs, agents, requests, settled>>
  BY DEF Commit
<1>2. ValuesOK'
  BY <1>1 DEF SettledInv, ValuesOK, requests
<1>3. BlobsSettled'
  <2> SUFFICES ASSUME NEW w \in Users, NEW q \in Parts
               PROVE  settled[w][q] <= db'[w][q]
    BY <1>1 DEF BlobsSettled, SettledInv
  <2>1. db'[w][q] = IF w = u /\ q = p THEN v ELSE db[w][q]
    BY <1>1 DEF SettledInv, ValuesOK
  <2>2. settled[w][q] <= db[w][q]
    BY DEF SettledInv, BlobsSettled
  <2>3. db[w][q] \in Versions /\ settled[w][q] \in Versions
    BY DEF SettledInv, ValuesOK
  <2> QED  BY <1>1, <2>1, <2>2, <2>3 DEF Versions
<1>4. AgentsSettled'
  BY <1>1 DEF SettledInv, AgentsSettled
<1> QED  BY <1>1, <1>2, <1>3, <1>4, TasksKept DEF SettledInv

LEMMA ExpireKeeps ==
  ASSUME SettledInv, NEW k \in BlobKeys, Expire(k)
  PROVE  SettledInv'
<1> PICK e \in blobs.value[k] :
      blobs' = [value |-> [blobs.value EXCEPT ![k] = {[version |-> e.version, live |-> FALSE]}],
                order |-> blobs.order]
  BY DEF Expire
<1> DEFINE f == [version |-> e.version, live |-> FALSE]
<1>1. f \in Blobs /\ f.version = e.version
  <2>1. e \in Blobs
    BY DEF SettledInv, ValuesOK
  <2> QED  BY <2>1 DEF Blobs
<1>2. blobs'.value = [blobs.value EXCEPT ![k] = {f}]
  OBVIOUS
<1> HIDE DEF f
<1>3. blobs'.value \in [BlobKeys -> SUBSET Blobs]
  BY <1>1, <1>2 DEF SettledInv, ValuesOK
<1>4. UNCHANGED <<db, edit, agents, requests, settled>>
  BY DEF Expire
<1>5. ValuesOK'
  BY <1>3, <1>4 DEF SettledInv, ValuesOK, requests
<1>6. BlobsSettled'
  <2> SUFFICES ASSUME NEW u \in Users, NEW p \in Parts, NEW g \in blobs'.value[<<u, p>>]
               PROVE  settled[u][p] <= g.version
    BY <1>4 DEF SettledInv, BlobsSettled
  <2>1. <<u, p>> \in BlobKeys
    BY DEF BlobKeys
  <2>2. g \in blobs.value[<<u, p>>] \/ (<<u, p>> = k /\ g = f)
    BY <1>2, <2>1 DEF SettledInv, ValuesOK
  <2> QED  BY <1>1, <2>2 DEF SettledInv, BlobsSettled
<1>7. AgentsSettled'
  BY <1>4 DEF SettledInv, AgentsSettled
<1> QED  BY <1>4, <1>5, <1>6, <1>7, TasksKept DEF SettledInv

\* invalidate_user_cache keeps what is left sound, and leaves nothing of u.
LEMMA ForgetKeeps ==
  ASSUME SettledInv, NEW u \in Users, Forget(u)
  PROVE  /\ Sound(blobs') /\ AgentsSound(agents')
         /\ \A p \in Parts : blobs'.value[<<u, p>>] = {}
         /\ \A c \in Confs : agents'.value[<<u, c>>] = {}
<1>1. Sound(blobs) /\ AgentsSound(agents)
  BY DEF SettledInv, ValuesOK, BlobsSettled, AgentsSettled, Sound, AgentsSound
<1>2. blobs' = Drop(blobs, {u} \X Parts) /\ agents' = Drop(agents, {u} \X Confs)
  BY DEF Forget
<1>3. Sound(blobs') /\ AgentsSound(agents')
  BY <1>1, <1>2, DropSound, DropAgentsSound
<1>4. \A p \in Parts : blobs'.value[<<u, p>>] = {}
  BY <1>1, <1>2 DEF Drop, Sound, BlobKeys
<1>5. \A c \in Confs : agents'.value[<<u, c>>] = {}
  BY <1>1, <1>2 DEF Drop, AgentsSound, AgentKeys
<1> QED  BY <1>3, <1>4, <1>5

LEMMA MemorySavedKeeps ==
  ASSUME SettledInv, NEW u \in Users, MemorySaved(u)
  PROVE  SettledInv'
<1>1. Sound(blobs') /\ AgentsSound(agents') /\ UNCHANGED <<db, edit, requests, settled>>
  BY ForgetKeeps DEF MemorySaved
<1>2. ValuesOK'
  BY <1>1 DEF SettledInv, ValuesOK, Sound, AgentsSound, requests
<1>3. BlobsSettled' /\ AgentsSettled'
  BY <1>1 DEF SettledInv, BlobsSettled, AgentsSettled, Sound, AgentsSound
<1> QED  BY <1>1, <1>2, <1>3, TasksKept DEF SettledInv

\* Here the settled versions of a user may rise, when nothing of the user is
\* left in the caches and no request of the user is under way.
LEMMA InvalidateKeeps ==
  ASSUME SettledInv, NEW e \in Editors, Invalidate(e)
  PROVE  SettledInv'
<1> DEFINE u == edit[e][1]
<1>1. u \in Users
  BY DEF Invalidate, SettledInv, ValuesOK
<1>2. /\ Forget(u)
      /\ settled' = IF \E t \in Tasks : UnderWay(t, u) THEN settled
                    ELSE [settled EXCEPT ![u] = db[u]]
      /\ edit' = [edit EXCEPT ![e] = NoEdit]
      /\ UNCHANGED <<db, requests>>
  BY DEF Invalidate
<1> HIDE DEF u
<1>3. /\ Sound(blobs) /\ Sound(blobs') /\ AgentsSound(agents')
      /\ \A p \in Parts : blobs'.value[<<u, p>>] = {}
      /\ \A c \in Confs : agents'.value[<<u, c>>] = {}
  <2>1. Sound(blobs)
    BY DEF SettledInv, ValuesOK, BlobsSettled, Sound
  <2> QED  BY <1>1, <1>2, <2>1, ForgetKeeps
<1>4. CASE settled' = settled
  <2>1. ValuesOK'
    BY <1>2, <1>3, <1>4 DEF SettledInv, ValuesOK, Sound, AgentsSound, requests
  <2>2. BlobsSettled' /\ AgentsSettled'
    BY <1>2, <1>3, <1>4 DEF SettledInv, BlobsSettled, AgentsSettled, Sound, AgentsSound
  <2> QED  BY <1>2, <1>4, <2>1, <2>2, TasksKept DEF SettledInv
<1>5. CASE /\ ~ \E t \in Tasks : UnderWay(t, u)
           /\ settled' = [settled EXCEPT ![u] = db[u]]
  <2>1. settled'[u] = db[u] /\ \A w \in Users \ {u} : settled'[w] = settled[w]
    BY <1>1, <1>5 DEF SettledInv, ValuesOK
  <2>2. settled' \in [Users -> [Parts -> Versions]]
    BY <1>1, <1>5 DEF SettledInv, ValuesOK
  <2>3. /\ blobs'.value \in [BlobKeys -> SUBSET Blobs]
        /\ agents'.value \in [AgentKeys -> SUBSET [Baked -> Versions]]
    BY <1>3 DEF Sound, AgentsSound
  <2>4. edit' \in [Editors -> {NoEdit} \cup (Users \X Parts \X Versions)]
    BY <1>2 DEF SettledInv, ValuesOK
  <2>5. ValuesOK'
    BY <1>2, <2>2, <2>3, <2>4 DEF SettledInv, ValuesOK, requests
  <2>6. BlobsSettled'
    <3> SUFFICES ASSUME NEW w \in Users, NEW p \in Parts
                 PROVE  /\ settled'[w][p] <= db[w][p]
                        /\ \A f \in blobs'.value[<<w, p>>] : settled'[w][p] <= f.version
      BY <1>2 DEF BlobsSettled
    <3>1. CASE w = u
      <4>1. db[u][p] \in Versions
        BY <1>1 DEF SettledInv, ValuesOK
      <4>2. \A n \in Versions : n <= n
        BY DEF Versions
      <4> QED  BY <1>3, <2>1, <3>1, <4>1, <4>2
    <3>2. CASE w # u
      BY <1>3, <2>1, <3>2 DEF SettledInv, BlobsSettled, Sound
    <3> QED  BY <3>1, <3>2
  <2>7. AgentsSettled'
    <3> SUFFICES ASSUME NEW w \in Users, NEW c \in Confs, NEW p \in Baked,
                        NEW a \in agents'.value[<<w, c>>]
                 PROVE  settled'[w][p] <= a[p]
      BY DEF AgentsSettled
    <3>1. w # u
      BY <1>3
    <3> QED  BY <1>3, <2>1, <3>1 DEF AgentsSound
  <2>8. TasksSettled'
    <3> SUFFICES ASSUME NEW r \in Tasks PROVE TaskSettled(r)'
      BY DEF TasksSettled
    <3>1. TaskSettled(r) /\ UNCHANGED <<stage, query, owner, loaded, tools, using>>
      BY <1>2 DEF SettledInv, TasksSettled, requests
    <3>2. User(r)' = User(r)
      BY <3>1 DEF User
    <3>3. CASE stage[r] \in {"idle", "done"}
      BY <3>1, <3>3 DEF TaskSettled
    <3>4. CASE stage[r] \notin {"idle", "done"}
      <4>1. User(r) \in Users \ {u}
        BY <1>5, <3>4, Facts DEF UnderWay
      <4>2. settled'[User(r)] = settled[User(r)]
        BY <2>1, <4>1
      <4> QED  BY <3>1, <3>2, <3>4, <4>2 DEF TaskSettled
    <3> QED  BY <3>3, <3>4
  <2> QED  BY <2>5, <2>6, <2>7, <2>8 DEF SettledInv
<1> QED  BY <1>2, <1>4, <1>5

-----------------------------------------------------------------------------
LEMMA SettledInit == Init => SettledInv
<1> SUFFICES ASSUME Init PROVE SettledInv
  OBVIOUS
<1>1. 0 \in Versions /\ Zero \in [Parts -> Versions] /\ "idle" \in Stages
  BY LimitsAssumption DEF Zero, Versions, Stages
<1>2. ValuesOK
  BY <1>1 DEF Init, ValuesOK, Empty
<1>3. BlobsSettled /\ AgentsSettled
  BY DEF Init, BlobsSettled, AgentsSettled, Empty, Zero, BlobKeys, AgentKeys
<1>4. TasksSettled
  BY DEF Init, TasksSettled, TaskSettled
<1> QED  BY <1>2, <1>3, <1>4 DEF SettledInv

LEMMA SettledNext == SettledInv /\ [Next]_vars => SettledInv'
<1> SUFFICES ASSUME SettledInv, [Next]_vars PROVE SettledInv'
  OBVIOUS
<1>1. ASSUME NEW t \in Tasks, TaskStep(t) PROVE SettledInv'
  <2>1. CASE LookUp(t)
    BY <2>1, LookUpKeeps
  <2>2. CASE LoadReads(t)
    BY <2>2, LoadReadsKeeps
  <2>3. CASE LoadEnds(t)
    <3>1. stage[t] \notin {"idle", "done"}
      BY <2>3 DEF LoadEnds, SettledInv, TasksSettled, TaskSettled
    <3> QED  BY <2>3, <3>1, LoadEndsKeeps
  <2> QED  BY <1>1, <2>1, <2>2, <2>3 DEF TaskStep
<1>2. ASSUME NEW t \in Tasks, NEW o \in AgentKeys, Begin(t, o) PROVE SettledInv'
  BY <1>2, BeginKeeps
<1>3. ASSUME NEW e \in Editors, Invalidate(e) PROVE SettledInv'
  BY <1>3, InvalidateKeeps
<1>4. ASSUME NEW e \in Editors, NEW u \in Users, NEW p \in Parts, NEW v \in Versions,
             Commit(e, u, p, v)
      PROVE  SettledInv'
  BY <1>4, CommitKeeps
<1>5. ASSUME NEW u \in Users, MemorySaved(u) PROVE SettledInv'
  BY <1>5, MemorySavedKeeps
<1>6. ASSUME NEW k \in BlobKeys, Expire(k) PROVE SettledInv'
  BY <1>6, ExpireKeeps
<1>7. CASE UNCHANGED vars
  <2>1. ValuesOK' /\ BlobsSettled' /\ AgentsSettled'
    BY <1>7 DEF SettledInv, ValuesOK, BlobsSettled, AgentsSettled, vars, requests
  <2> QED  BY <1>7, <2>1, TasksKept DEF SettledInv, vars
<1> QED  BY <1>1, <1>2, <1>3, <1>4, <1>5, <1>6, <1>7 DEF Next

\* The inductive invariant: nothing a user's caches and requests hold is older
\* than the user's last settled edit.
LEMMA SettledInvariant == Spec => []SettledInv
  BY SettledInit, SettledNext, PTL DEF Spec

\* When a request ends, all it works with is recent enough: what it compiled
\* or was given by the invariant, and the skills it has just looked up.
LEMMA EndsSettled ==
  ASSUME SettledInv, [Next]_vars, NEW t \in Tasks, stage[t] = "run", stage'[t] = "done"
  PROVE  Settled(t)
<1>0. stage \in [Tasks -> Stages] /\ stage[t] \notin {"idle", "done"} /\ stage'[t] # stage[t]
  BY DEF SettledInv, ValuesOK
<1>1. LookUp(t) \/ LoadEnds(t)
  <2>1. ASSUME NEW r \in Tasks \ {t}, TaskStep(r) PROVE stage'[t] = stage[t]
    BY <1>0, <2>1 DEF TaskStep, LookUp, LoadReads, LoadEnds, Found, FindAgent, Build,
                      Misses, GoesTo, RunsWith
  <2>2. ASSUME NEW r \in Tasks, NEW o \in AgentKeys, Begin(r, o) PROVE stage'[t] # "done"
    BY <1>0, <2>2 DEF Begin
  <2>3. ASSUME LoadReads(t) PROVE stage'[t] = stage[t]
    BY <2>3 DEF LoadReads
  <2>4. ASSUME NEW e \in Editors, Invalidate(e) PROVE stage' = stage
    BY <2>4 DEF Invalidate, requests
  <2>5. ASSUME NEW e \in Editors, NEW u \in Users, NEW p \in Parts, NEW v \in Versions,
               Commit(e, u, p, v)
        PROVE  stage' = stage
    BY <2>5 DEF Commit, requests
  <2>6. ASSUME NEW u \in Users, MemorySaved(u) PROVE stage' = stage
    BY <2>6 DEF MemorySaved, requests
  <2>7. ASSUME NEW k \in BlobKeys, Expire(k) PROVE stage' = stage
    BY <2>7 DEF Expire, requests
  <2>8. ASSUME UNCHANGED vars PROVE stage' = stage
    BY <2>8 DEF vars, requests
  <2> QED  BY <1>0, <2>1, <2>2, <2>3, <2>4, <2>5, <2>6, <2>7, <2>8 DEF Next, TaskStep
<1>2. PICK v \in Versions : (\E b : Found(t, b, v)) /\ settled[User(t)]["skills"] <= v
  <2>0. PartOf(stage[t]) = "skills" /\ User(t) \in Users /\ "skills" \in Parts
    BY <1>0, Facts DEF PartOf, Parts
  <2>1. CASE LookUp(t)
    <3>1. PICK e \in Hits(blobs, KeyOf(t)) : Found(t, Touch(blobs, KeyOf(t)), e.version)
      BY <1>0, <2>1 DEF LookUp, Misses
    <3>2. e.version \in Versions /\ settled[User(t)]["skills"] <= e.version
      BY <1>0, <2>0, Facts, HitSound
    <3> QED  BY <3>1, <3>2
  <2>2. CASE LoadEnds(t)
    <3>1. loaded[t] \in Versions /\ settled[User(t)]["skills"] <= loaded[t]
      BY <1>0, <2>0, <2>2 DEF LoadEnds, SettledInv, ValuesOK, TasksSettled, TaskSettled
    <3> QED  BY <2>2, <3>1 DEF LoadEnds
  <2> QED  BY <1>1, <2>1, <2>2
<1>3. using' = [using EXCEPT ![t]["skills"] = v]
  BY <1>2 DEF Found
<1>4. using[t] \in [Parts -> Versions] /\ using \in [Tasks -> [Parts -> Versions]]
  BY DEF SettledInv, ValuesOK
<1>5. \A p \in Baked : settled[User(t)][p] <= using[t][p]
  BY <1>0 DEF SettledInv, TasksSettled, TaskSettled
<1> QED  BY <1>2, <1>3, <1>4, <1>5 DEF Settled, Parts, Baked

\* An edit saved while its user has no request under way is part of every
\* request that ends later, for any number of users, requests and editors and
\* any cache sizes (invalidate_user_cache and the late puts that may follow it).
THEOREM QuietEditsAreSeen == Spec => QuietEditsTakeEffect
<1>1. SettledInv /\ [Next]_vars =>
        [\A t \in Tasks : stage[t] = "run" /\ stage'[t] = "done" => Settled(t)]_vars
  BY EndsSettled
<1> QED  BY <1>1, SettledInvariant, PTL DEF Spec, QuietEditsTakeEffect

-----------------------------------------------------------------------------
(* The orders of the caches *)

Each(q) == {q[i] : i \in 1 .. Len(q)}
Once(q) == \A i, j \in 1 .. Len(q) : i # j => q[i] # q[j]

\* Where the n-th key that Without keeps was.
Source(q, gone, from) ==
  LET r == Without(q, gone) IN
  /\ from \in [1 .. Len(r) -> 1 .. Len(q)]
  /\ \A n \in 1 .. Len(r) : r[n] = q[from[n]] /\ r[n] \notin gone
  /\ \A m, n \in 1 .. Len(r) : m < n => from[m] < from[n]
  /\ \A i \in 1 .. Len(q) : q[i] \notin gone => \E n \in 1 .. Len(r) : from[n] = i

\* Without keeps the keys that stay, as many and in the order as they were.
LEMMA WithoutSource ==
  ASSUME NEW S, NEW q \in Seq(S), NEW gone
  PROVE  /\ Without(q, gone) \in Seq(S)
         /\ Len(Without(q, gone)) = Cardinality({i \in 1 .. Len(q) : q[i] \notin gone})
         /\ \E from : Source(q, gone, from)
<1> DEFINE kept == {i \in 1 .. Len(q) : q[i] \notin gone}
           UpTo(i) == Cardinality({j \in kept : j <= i})
           N == Cardinality(kept)
           at == [n \in 1 .. N |-> CHOOSE i \in kept : UpTo(i) = n]
<1>1. Len(q) \in Nat /\ DOMAIN q = 1 .. Len(q) /\ \A i \in 1 .. Len(q) : q[i] \in S
  BY LenProperties, ElementOfSeq
<1>2. IsFiniteSet(kept) /\ N \in Nat
  <2>1. kept \in SUBSET (1 .. Len(q)) /\ IsFiniteSet(1 .. Len(q))
    BY <1>1, FS_Interval
  <2> QED  BY <2>1, FS_Subset, FS_CardinalityType
<1>3. ASSUME NEW i \in kept
      PROVE  /\ UpTo(i) \in 1 .. N
             /\ \A j \in kept : i < j => UpTo(i) < UpTo(j)
  <2> DEFINE L(j) == {k \in kept : k <= j}
  <2>1. ASSUME NEW j \in kept
        PROVE  IsFiniteSet(L(j)) /\ Cardinality(L(j)) \in Nat /\ Cardinality(L(j)) <= N
    BY <1>2, FS_Subset, FS_CardinalityType
  <2>2. Cardinality(L(i)) # 0
    <3>1. i \in L(i)
      BY <1>1
    <3> QED  BY <2>1, <3>1, FS_EmptySet
  <2>3. ASSUME NEW j \in kept, i < j PROVE Cardinality(L(i)) < Cardinality(L(j))
    <3>1. L(i) \in SUBSET L(j) /\ j \in L(j) /\ j \notin L(i)
      BY <1>1, <2>3
    <3>2. Cardinality(L(i)) <= Cardinality(L(j)) /\ Cardinality(L(j)) # Cardinality(L(i))
      <4> HIDE DEF L
      <4> QED  BY <2>1, <3>1, FS_Subset
    <3>3. Cardinality(L(i)) \in Nat /\ Cardinality(L(j)) \in Nat
      BY <2>1
    <3> QED  BY <3>2, <3>3
  <2>4. Cardinality(L(i)) \in 1 .. N
    BY <1>2, <2>1, <2>2
  <2> QED  BY <2>3, <2>4
<1> HIDE DEF UpTo
<1>4. \A n \in 1 .. N : \E i \in kept : UpTo(i) = n
  <2> DEFINE rank == [i \in kept |-> UpTo(i)]
  <2>1. rank \in [kept -> 1 .. N]
    BY <1>3
  <2>2. \A i, j \in kept : rank[i] = rank[j] => i = j
    <3> SUFFICES ASSUME NEW i \in kept, NEW j \in kept, UpTo(i) = UpTo(j) PROVE i = j
      OBVIOUS
    <3>1. ~ i < j /\ ~ j < i
      <4>1. \A n \in 1 .. N : ~ n < n
        BY <1>2
      <4> QED  BY <1>3, <4>1
    <3> QED  BY <1>1, <3>1
  <2>3. rank \in Injection(kept, 1 .. N)
    BY <2>1, <2>2 DEF Injection, IsInjective
  <2>4. IsFiniteSet(1 .. N) /\ Cardinality(1 .. N) = N
    BY <1>2, FS_Interval
  <2>5. rank \in Surjection(kept, 1 .. N)
    <3> HIDE DEF kept, rank
    <3> QED  BY <2>3, <2>4, FS_Injection
  <2> QED  BY <2>5 DEF Surjection
<1>5. \A n \in 1 .. N : at[n] \in kept /\ UpTo(at[n]) = n
  BY <1>4
<1>6. Without(q, gone) = [n \in 1 .. N |-> q[at[n]]]
  BY <1>1 DEF Without, UpTo
<1> HIDE DEF at
<1>7. Without(q, gone) \in Seq(S) /\ Len(Without(q, gone)) = N
  <2>1. \A n \in 1 .. N : q[at[n]] \in S
    BY <1>1, <1>5
  <2> QED  BY <1>2, <1>6, <2>1
<1>8. Source(q, gone, at)
  <2>1. at \in [1 .. N -> 1 .. Len(q)]
    <3>1. at = [n \in 1 .. N |-> at[n]]
      BY DEF at
    <3> QED  BY <1>5, <3>1
  <2>2. \A n \in 1 .. N : Without(q, gone)[n] = q[at[n]] /\ Without(q, gone)[n] \notin gone
    BY <1>5, <1>6
  <2>3. ASSUME NEW m \in 1 .. N, NEW n \in 1 .. N, m < n PROVE at[m] < at[n]
    <3>1. at[m] # at[n] /\ ~ at[n] < at[m]
      <4>1. UpTo(at[m]) = m /\ UpTo(at[n]) = n /\ at[m] \in kept /\ at[n] \in kept
        BY <1>5
      <4> HIDE DEF kept
      <4> QED  BY <1>2, <1>3, <2>3, <4>1
    <3>2. at[m] \in Int /\ at[n] \in Int
      BY <1>5, <1>1
    <3> QED  BY <3>1, <3>2
  <2>4. ASSUME NEW i \in 1 .. Len(q), q[i] \notin gone PROVE \E n \in 1 .. N : at[n] = i
    <3>1. i \in kept
      BY <2>4
    <3>2. UpTo(i) \in 1 .. N /\ at[UpTo(i)] \in kept /\ UpTo(at[UpTo(i)]) = UpTo(i)
      BY <1>3, <1>5, <3>1
    <3>3. ~ i < at[UpTo(i)] /\ ~ at[UpTo(i)] < i
      <4>1. \A n \in 1 .. N : ~ n < n
        BY <1>2
      <4> HIDE DEF kept
      <4> QED  BY <1>3, <3>1, <3>2, <4>1
    <3>4. at[UpTo(i)] = i
      BY <1>1, <3>2, <3>3
    <3> QED  BY <3>2, <3>4
  <2> QED  BY <1>7, <2>1, <2>2, <2>3, <2>4 DEF Source
<1> QED  BY <1>7, <1>8
\* Without keeps a list of keys that are listed once, and drops just those of gone.
LEMMA WithoutOnce ==
  ASSUME NEW S, NEW q \in Seq(S), NEW gone, Once(q)
  PROVE  /\ Without(q, gone) \in Seq(S) /\ Once(Without(q, gone))
         /\ Each(Without(q, gone)) = Each(q) \ gone
         /\ Len(Without(q, gone)) <= Len(q)
         /\ \A k : k \in Each(q) => Len(Without(q, {k})) = Len(q) - 1
<1>0. Len(q) \in Nat
  BY LenProperties
<1>1. /\ Without(q, gone) \in Seq(S)
      /\ Len(Without(q, gone)) = Cardinality({i \in 1 .. Len(q) : q[i] \notin gone})
  BY WithoutSource
<1>2. PICK from : Source(q, gone, from)
  BY WithoutSource
<1> DEFINE r == Without(q, gone)
<1>3. Len(r) \in Nat
  BY <1>1, LenProperties
<1>4. Once(r)
  <2> SUFFICES ASSUME NEW m \in 1 .. Len(r), NEW n \in 1 .. Len(r), m # n PROVE r[m] # r[n]
    BY DEF Once
  <2>1. from[m] \in 1 .. Len(q) /\ from[n] \in 1 .. Len(q) /\ r[m] = q[from[m]] /\ r[n] = q[from[n]]
    BY <1>2 DEF Source
  <2>2. m < n \/ n < m
    BY <1>3
  <2>3. from[m] < from[n] \/ from[n] < from[m]
    BY <1>2, <2>2 DEF Source
  <2>4. from[m] # from[n]
    BY <1>0, <2>1, <2>3
  <2> QED  BY <2>1, <2>4 DEF Once
<1>5. Each(r) = Each(q) \ gone
  <2>1. ASSUME NEW x \in Each(r) PROVE x \in Each(q) \ gone
    BY <1>2, <2>1 DEF Each, Source
  <2>2. ASSUME NEW x \in Each(q) \ gone PROVE x \in Each(r)
    BY <1>2, <2>2 DEF Each, Source
  <2> QED  BY <2>1, <2>2
<1>6. Len(r) <= Len(q)
  <2>1. {i \in 1 .. Len(q) : q[i] \notin gone} \in SUBSET (1 .. Len(q))
    OBVIOUS
  <2>2. IsFiniteSet(1 .. Len(q)) /\ Cardinality(1 .. Len(q)) = Len(q)
    BY <1>0, FS_Interval
  <2> QED  BY <1>1, <2>1, <2>2, FS_Subset
<1>7. ASSUME NEW k \in Each(q) PROVE Len(Without(q, {k})) = Len(q) - 1
  <2>1. PICK i \in 1 .. Len(q) : q[i] = k
    BY DEF Each
  <2>2. {j \in 1 .. Len(q) : q[j] \notin {k}} = (1 .. Len(q)) \ {i}
    BY <2>1 DEF Once
  <2>3. IsFiniteSet(1 .. Len(q)) /\ Cardinality(1 .. Len(q)) = Len(q)
    BY <1>0, FS_Interval
  <2>4. Cardinality((1 .. Len(q)) \ {i}) = Len(q) - 1
    BY <2>1, <2>3, FS_RemoveElement
  <2>5. Len(Without(q, {k})) = Cardinality({j \in 1 .. Len(q) : q[j] \notin {k}})
    BY WithoutSource
  <2> QED  BY <2>2, <2>4, <2>5
<1> QED  BY <1>1, <1>4, <1>5, <1>6, <1>7

\* A bounded cache with values of V under keys of K.
LruOK(c, K, V, max) ==
  /\ c \in [value : [K -> SUBSET V], order : Seq(K)]
  /\ WellFormed(c, max)

LEMMA WellFormedParts ==
  ASSUME NEW c, NEW max
  PROVE  WellFormed(c, max) <=>
           /\ Len(c.order) <= max /\ Once(c.order)
           /\ Each(c.order) = {k \in DOMAIN c.value : c.value[k] # {}}
  BY DEF WellFormed, Once, Each

\* The order once k is the last one used.
ToEnd(q, k) == Append(Without(q, {k}), k)

LEMMA LastUsed ==
  ASSUME NEW K, NEW q \in Seq(K), NEW k \in K, Once(q)
  PROVE  /\ ToEnd(q, k) \in Seq(K) /\ Once(ToEnd(q, k))
         /\ Each(ToEnd(q, k)) = Each(q) \cup {k}
         /\ Len(ToEnd(q, k)) \in Nat /\ Len(ToEnd(q, k)) >= 1
         /\ ToEnd(q, k)[Len(ToEnd(q, k))] = k
         /\ k \in Each(q) => Len(ToEnd(q, k)) = Len(q)
<1> DEFINE r == Without(q, {k})
           p == Append(r, k)
<1>1. /\ r \in Seq(K) /\ Once(r) /\ Each(r) = Each(q) \ {k}
      /\ Len(r) <= Len(q) /\ (k \in Each(q) => Len(r) = Len(q) - 1)
  BY WithoutOnce
<1>2. Len(q) \in Nat /\ Len(r) \in Nat
  BY <1>1, LenProperties
<1> HIDE DEF r
<1>3. /\ p \in Seq(K) /\ Len(p) = Len(r) + 1 /\ p[Len(r) + 1] = k
      /\ \A i \in 1 .. Len(r) : p[i] = r[i]
  BY <1>1, AppendProperties
<1>4. \A i \in 1 .. Len(r) : r[i] # k
  BY <1>1 DEF Each
<1> HIDE DEF p
<1>5. Each(p) = Each(q) \cup {k}
  <2>1. \A i \in 1 .. Len(p) : i \in 1 .. Len(r) \/ i = Len(r) + 1
    BY <1>2, <1>3
  <2>2. \A i \in 1 .. Len(r) + 1 : i \in 1 .. Len(p)
    BY <1>3
  <2>3. Each(p) \subseteq Each(r) \cup {k}
    BY <1>3, <2>1 DEF Each
  <2>4. Each(r) \subseteq Each(p) /\ k \in Each(p)
    <3>1. \A i \in 1 .. Len(r) : i \in 1 .. Len(r) + 1
      BY <1>2
    <3>2. Len(r) + 1 \in 1 .. Len(p)
      BY <1>2, <1>3
    <3> QED  BY <1>3, <2>2, <3>1, <3>2 DEF Each
  <2> QED  BY <1>1, <2>3, <2>4
<1>6. Once(p)
  <2> SUFFICES ASSUME NEW i \in 1 .. Len(p), NEW j \in 1 .. Len(p), i # j PROVE p[i] # p[j]
    BY DEF Once
  <2>1. (i \in 1 .. Len(r) \/ i = Len(r) + 1) /\ (j \in 1 .. Len(r) \/ j = Len(r) + 1)
    BY <1>2, <1>3
  <2>2. CASE i \in 1 .. Len(r) /\ j \in 1 .. Len(r)
    BY <1>1, <1>3, <2>2 DEF Once
  <2>3. CASE i \in 1 .. Len(r) /\ j = Len(r) + 1
    BY <1>3, <1>4, <2>3
  <2>4. CASE i = Len(r) + 1 /\ j \in 1 .. Len(r)
    BY <1>3, <1>4, <2>4
  <2> QED  BY <2>1, <2>2, <2>3, <2>4
<1>7. /\ Len(p) \in Nat /\ Len(p) >= 1 /\ p[Len(p)] = k
      /\ k \in Each(q) => Len(p) = Len(q)
  BY <1>1, <1>2, <1>3
<1>8. ToEnd(q, k) = p
  BY DEF ToEnd, p, r
<1> QED  BY <1>3, <1>5, <1>6, <1>7, <1>8

LEMMA EmptyOK ==
  ASSUME NEW K, NEW V, NEW max \in Nat
  PROVE  LruOK(Empty(K), K, V, max)
<1>1. Empty(K).value = [k \in K |-> {}] /\ Empty(K).order = <<>> /\ Len(<<>>) = 0
  BY EmptySeq DEF Empty
<1>2. Empty(K) \in [value : [K -> SUBSET V], order : Seq(K)]
  BY EmptySeq DEF Empty
<1> QED  BY <1>1, <1>2 DEF LruOK, WellFormed

LEMMA TouchOK ==
  ASSUME NEW K, NEW V, NEW max, NEW c, LruOK(c, K, V, max), NEW k \in K, c.value[k] # {}
  PROVE  LruOK(Touch(c, k), K, V, max)
<1> DEFINE p == ToEnd(c.order, k)
<1>1. /\ c.value \in [K -> SUBSET V] /\ c.order \in Seq(K)
      /\ Len(c.order) <= max /\ Once(c.order) /\ Each(c.order) = {j \in K : c.value[j] # {}}
  BY WellFormedParts DEF LruOK
<1>2. k \in Each(c.order)
  BY <1>1
<1>3. p \in Seq(K) /\ Once(p) /\ Each(p) = Each(c.order) \cup {k} /\ Len(p) = Len(c.order)
  <2> DEFINE q == c.order
  <2>1. q \in Seq(K) /\ Once(q) /\ k \in Each(q)
    BY <1>1, <1>2
  <2> HIDE DEF q
  <2>2. /\ ToEnd(q, k) \in Seq(K) /\ Once(ToEnd(q, k))
        /\ Each(ToEnd(q, k)) = Each(q) \cup {k} /\ Len(ToEnd(q, k)) = Len(q)
    BY <2>1, LastUsed
  <2> QED  BY <2>2 DEF q
<1>4. Touch(c, k) = [value |-> c.value, order |-> p]
  BY DEF Touch, ToEnd
<1> HIDE DEF p
<1>5. Touch(c, k).value = c.value /\ Touch(c, k).order = p
  BY <1>4
<1>6. WellFormed(Touch(c, k), max)
  BY <1>1, <1>2, <1>3, <1>5, WellFormedParts
<1>7. Touch(c, k) \in [value : [K -> SUBSET V], order : Seq(K)]
  BY <1>1, <1>3, <1>4
<1> QED  BY <1>6, <1>7 DEF LruOK

LEMMA DropOK ==
  ASSUME NEW K, NEW V, NEW max, NEW c, NEW gone,
         c \in [value : [K -> SUBSET V], order : Seq(K)],
         Once(c.order), Each(c.order) = {k \in K : c.value[k] # {}},
         Len(Without(c.order, gone)) <= max
  PROVE  LruOK(Drop(c, gone), K, V, max)
<1> DEFINE d == Drop(c, gone)
           v == [k \in K |-> IF k \in gone THEN {} ELSE c.value[k]]
           p == Without(c.order, gone)
<1>1. c.value \in [K -> SUBSET V] /\ c.order \in Seq(K)
  OBVIOUS
<1>2. d = [value |-> v, order |-> p]
  BY <1>1 DEF Drop
<1>3. p \in Seq(K) /\ Once(p) /\ Each(p) = Each(c.order) \ gone /\ Len(p) <= max
  BY <1>1, WithoutOnce
<1>4. v \in [K -> SUBSET V] /\ {k \in K : v[k] # {}} = {k \in K : c.value[k] # {}} \ gone
  BY <1>1
<1> HIDE DEF v, p
<1>5. d.value = v /\ d.order = p /\ DOMAIN v = K
  BY <1>2, <1>4
<1> HIDE DEF d
<1>6. WellFormed(d, max)
  BY <1>3, <1>4, <1>5, WellFormedParts
<1>7. d \in [value : [K -> SUBSET V], order : Seq(K)]
  BY <1>2, <1>3, <1>4
<1> QED  BY <1>6, <1>7 DEF LruOK, d

\* Dropping keys, whichever they are.
LEMMA DropsOK ==
  ASSUME NEW K, NEW V, NEW max \in Nat, NEW c, NEW gone, LruOK(c, K, V, max)
  PROVE  LruOK(Drop(c, gone), K, V, max)
<1>1. /\ c \in [value : [K -> SUBSET V], order : Seq(K)] /\ c.order \in Seq(K)
      /\ Len(c.order) <= max /\ Once(c.order) /\ Each(c.order) = {k \in K : c.value[k] # {}}
  BY WellFormedParts DEF LruOK
<1>2. Len(Without(c.order, gone)) <= Len(c.order) /\ Without(c.order, gone) \in Seq(K)
  BY <1>1, WithoutOnce
<1>3. Len(Without(c.order, gone)) \in Nat /\ Len(c.order) \in Nat
  BY <1>1, <1>2, LenProperties
<1>4. Len(Without(c.order, gone)) <= max
  BY <1>1, <1>2, <1>3
<1> QED  BY <1>1, <1>4, DropOK
\* Of a list, those but the first Len - max are max at most.
LEMMA NewestStay ==
  ASSUME NEW K, NEW p \in Seq(K), NEW max \in Nat
  PROVE  Len(Without(p, {p[i] : i \in 1 .. Len(p) - max})) <= max
<1> DEFINE oldest == {p[i] : i \in 1 .. Len(p) - max}
           stay == {i \in 1 .. Len(p) : p[i] \notin oldest}
           lo == IF Len(p) <= max THEN 1 ELSE Len(p) - max + 1
<1>1. Len(p) \in Nat
  BY LenProperties
<1>2. stay \in SUBSET (lo .. Len(p))
  <2> SUFFICES ASSUME NEW i \in stay PROVE i \in lo .. Len(p)
    OBVIOUS
  <2>1. i \in 1 .. Len(p) /\ i \notin 1 .. Len(p) - max
    OBVIOUS
  <2> QED  BY <1>1, <2>1
<1>3. lo \in Int /\ Len(p) \in Int /\ (IF lo > Len(p) THEN 0 ELSE Len(p) - lo + 1) <= max
  BY <1>1
<1>4. IsFiniteSet(lo .. Len(p)) /\ Cardinality(lo .. Len(p)) <= max /\ Cardinality(lo .. Len(p)) \in Nat
  <2> HIDE DEF lo
  <2>1. /\ IsFiniteSet(lo .. Len(p))
        /\ Cardinality(lo .. Len(p)) = IF lo > Len(p) THEN 0 ELSE Len(p) - lo + 1
    BY <1>3, FS_Interval
  <2> QED  BY <1>3, <2>1, FS_CardinalityType
<1>5. Cardinality(stay) <= Cardinality(lo .. Len(p)) /\ Cardinality(stay) \in Nat
  <2> HIDE DEF stay, lo
  <2> QED  BY <1>2, <1>4, FS_Subset, FS_CardinalityType
<1>6. Len(Without(p, oldest)) = Cardinality(stay)
  <2> HIDE DEF oldest
  <2> QED  BY WithoutSource
<1> HIDE DEF stay, lo, oldest
<1>7. Len(Without(p, oldest)) <= max
  BY <1>4, <1>5, <1>6
<1> QED  BY <1>7 DEF oldest

LEMMA PutOK ==
  ASSUME NEW K, NEW V, NEW max \in Nat, NEW c, LruOK(c, K, V, max),
         NEW k \in K, NEW v \in V
  PROVE  LruOK(Put(c, k, v, max), K, V, max)
<1> DEFINE p == ToEnd(c.order, k)
           w == [c.value EXCEPT ![k] = {v}]
           d == [value |-> w, order |-> p]
           oldest == {p[i] : i \in 1 .. Len(p) - max}
<1>1. /\ c.value \in [K -> SUBSET V] /\ c.order \in Seq(K)
      /\ Once(c.order) /\ Each(c.order) = {j \in K : c.value[j] # {}}
  BY WellFormedParts DEF LruOK
<1>2. p \in Seq(K) /\ Once(p) /\ Each(p) = Each(c.order) \cup {k}
  <2> DEFINE q == c.order
  <2>1. q \in Seq(K) /\ Once(q)
    BY <1>1
  <2> HIDE DEF q
  <2>2. /\ ToEnd(q, k) \in Seq(K) /\ Once(ToEnd(q, k))
        /\ Each(ToEnd(q, k)) = Each(q) \cup {k}
    BY <2>1, LastUsed
  <2> QED  BY <2>2 DEF q
<1>3. Put(c, k, v, max) = Drop(d, oldest)
  BY DEF Put, ToEnd
<1>4. Len(Without(p, oldest)) <= max
  <2> HIDE DEF p
  <2> QED  BY <1>2, NewestStay
<1>5. w \in [K -> SUBSET V] /\ {j \in K : w[j] # {}} = {j \in K : c.value[j] # {}} \cup {k}
  BY <1>1
<1> HIDE DEF p, w, oldest
<1>6. d.order = p /\ d.value = w /\ d \in [value : [K -> SUBSET V], order : Seq(K)]
  BY <1>2, <1>5
<1> HIDE DEF d
<1>7. LruOK(Drop(d, oldest), K, V, max)
  BY <1>1, <1>2, <1>4, <1>5, <1>6, DropOK
<1> QED  BY <1>3, <1>7

-----------------------------------------------------------------------------
(* The caches in every state *)

BlobsOK(b) == LruOK(b, BlobKeys, Blobs, BlobMax)
AgentsOK(c) == LruOK(c, AgentKeys, [Baked -> Versions], AgentMax)

\* The agents are listed in the order of their last use.
UsedSince(p, s) == \A i, j \in 1 .. Len(p) : i < j => p[j] \in s[p[i]]

HistoriesOK ==
  /\ saved \in [Users -> [Parts -> Versions]] /\ asOf \in [Tasks -> [Parts -> Versions]]
  /\ since \in [AgentKeys -> SUBSET AgentKeys]
  /\ \A k \in AgentKeys : IsFiniteSet(since[k])

LruInv ==
  /\ SettledInv /\ HistoriesOK /\ BlobsOK(blobs) /\ AgentsOK(agents)
  /\ UsedSince(agents.order, since)

\* What a request does to the agents.
AgentsMove ==
  \/ UNCHANGED <<agents, since>>
  \/ \E k \in AgentKeys :
       /\ Uses(k)
       /\ \/ agents.value[k] # {} /\ agents' = Touch(agents, k)
          \/ \E a \in [Baked -> Versions] : agents' = Put(agents, k, a, AgentMax)

LEMMA HitOK ==
  ASSUME NEW b, BlobsOK(b), NEW k \in BlobKeys, NEW e \in Hits(b, k)
  PROVE  BlobsOK(Touch(b, k)) /\ e.version \in Versions
<1>1. e \in b.value[k] /\ b.value[k] \subseteq Blobs
  BY DEF Hits, BlobsOK, LruOK
<1>2. e.version \in Versions
  BY <1>1 DEF Blobs
<1> QED  BY <1>1, <1>2, TouchOK DEF BlobsOK

LEMMA MissOK ==
  ASSUME NEW t, NEW b, BlobsOK(b), NEW s, Misses(t, b, s)
  PROVE  BlobsOK(blobs')
  BY DropsOK, LimitsAssumption DEF Misses, BlobsOK

LEMMA BuildOrders ==
  ASSUME NEW t \in Tasks, owner[t] \in AgentKeys, User(t) \in Users,
         NEW b, BlobsOK(b), NEW m \in Versions, Build(t, b, m)
  PROVE  BlobsOK(blobs') /\ AgentsMove
<1> DEFINE key == <<User(t), "specs">>
<1>1. CASE Misses(t, b, "model") /\ UNCHANGED <<agents, since>>
  BY <1>1, MissOK DEF AgentsMove
<1>2. ASSUME NEW e \in Hits(b, key),
             LET agent == [p \in Baked |-> IF p = "mcp" THEN m ELSE e.version]
             IN /\ agents' = Put(agents, owner[t], agent, AgentMax)
                /\ RunsWith(t, Touch(b, key), agent)
      PROVE  BlobsOK(blobs') /\ AgentsMove
  <2> DEFINE agent == [p \in Baked |-> IF p = "mcp" THEN m ELSE e.version]
  <2>1. key \in BlobKeys
    BY DEF BlobKeys, Parts
  <2>2. BlobsOK(Touch(b, key)) /\ e.version \in Versions
    <3> HIDE DEF key
    <3> QED  BY <2>1, HitOK
  <2>3. agent \in [Baked -> Versions]
    BY <2>2
  <2>4. /\ agents' = Put(agents, owner[t], agent, AgentMax)
        /\ blobs' = Touch(b, key) /\ Uses(owner[t])
    BY <1>2 DEF RunsWith, GoesTo
  <2> HIDE DEF agent
  <2> QED  BY <2>2, <2>3, <2>4 DEF AgentsMove
<1> QED  BY <1>1, <1>2 DEF Build

LEMMA FoundOrders ==
  ASSUME SettledInv, NEW t \in Tasks, stage[t] \notin {"idle", "done"},
         NEW b, BlobsOK(b), NEW v \in Versions, Found(t, b, v)
  PROVE  BlobsOK(blobs') /\ AgentsMove
<1>0. owner[t] \in AgentKeys /\ User(t) \in Users /\ tools[t] \in Versions
  BY Facts DEF SettledInv, ValuesOK
<1>1. CASE GoesTo(t, b, "specs") /\ UNCHANGED <<agents, since>>
  BY <1>1 DEF GoesTo, AgentsMove
<1>2. CASE FindAgent(t, b)
  <2> DEFINE key == <<User(t), "mcp">>
  <2>1. ASSUME NEW a \in agents.value[owner[t]],
               agents' = Touch(agents, owner[t]), RunsWith(t, b, a)
        PROVE  BlobsOK(blobs') /\ AgentsMove
    BY <1>0, <2>1 DEF RunsWith, GoesTo, AgentsMove
  <2>2. CASE Misses(t, b, "mcp") /\ UNCHANGED <<agents, since>>
    BY <2>2, MissOK DEF AgentsMove
  <2>3. ASSUME NEW e \in Hits(b, key), Build(t, Touch(b, key), e.version)
        PROVE  BlobsOK(blobs') /\ AgentsMove
    <3>1. key \in BlobKeys
      BY <1>0 DEF BlobKeys, Parts
    <3>2. BlobsOK(Touch(b, key)) /\ e.version \in Versions
      <4> HIDE DEF key
      <4> QED  BY <3>1, HitOK
    <3> QED  BY <1>0, <2>3, <3>2, BuildOrders
  <2> QED  BY <1>2, <2>1, <2>2, <2>3 DEF FindAgent
<1>3. CASE Build(t, b, v) \/ Build(t, b, tools[t])
  BY <1>0, <1>3, BuildOrders
<1>4. CASE GoesTo(t, b, "done") /\ UNCHANGED <<agents, since>>
  BY <1>4 DEF GoesTo, AgentsMove
<1> QED  BY <1>1, <1>2, <1>3, <1>4 DEF Found

LEMMA TaskOrders ==
  ASSUME LruInv, NEW t \in Tasks, TaskStep(t)
  PROVE  BlobsOK(blobs') /\ AgentsMove /\ UNCHANGED <<saved, asOf>>
<1>0. SettledInv /\ BlobsOK(blobs)
  BY DEF LruInv
<1>1. CASE LookUp(t)
  <2>1. stage[t] \notin {"idle", "done"} /\ UNCHANGED <<saved, asOf>>
    BY <1>1 DEF LookUp, Found
  <2>2. KeyOf(t) \in BlobKeys
    BY <1>0, <2>1, Facts DEF BlobKeys
  <2>3. ASSUME NEW e \in Hits(blobs, KeyOf(t)), Found(t, Touch(blobs, KeyOf(t)), e.version)
        PROVE  BlobsOK(blobs') /\ AgentsMove
    BY <1>0, <2>1, <2>2, <2>3, HitOK, FoundOrders
  <2>4. CASE Misses(t, blobs, stage[t]) /\ UNCHANGED <<agents, since>>
    BY <1>0, <2>1, <2>4, MissOK DEF AgentsMove
  <2> QED  BY <1>1, <2>1, <2>3, <2>4 DEF LookUp
<1>2. CASE LoadReads(t)
  BY <1>0, <1>2 DEF LoadReads, AgentsMove
<1>3. CASE LoadEnds(t)
  <2> DEFINE entry == [version |-> loaded[t], live |-> TRUE]
             b == Put(blobs, KeyOf(t), entry, BlobMax)
  <2>1. stage[t] \notin {"idle", "done"}
    BY <1>0, <1>3 DEF LoadEnds, SettledInv, TasksSettled, TaskSettled
  <2>2. KeyOf(t) \in BlobKeys /\ loaded[t] \in Versions
    BY <1>0, <2>1, Facts DEF BlobKeys, SettledInv, ValuesOK
  <2>3. entry \in Blobs
    BY <2>2 DEF Blobs
  <2>4. Found(t, b, loaded[t]) /\ UNCHANGED <<saved, asOf>>
    BY <1>3 DEF LoadEnds, Found
  <2> HIDE DEF entry
  <2>5. BlobsOK(b)
    BY <1>0, <2>2, <2>3, PutOK, LimitsAssumption DEF BlobsOK
  <2> HIDE DEF b
  <2> QED  BY <1>0, <2>1, <2>2, <2>4, <2>5, FoundOrders
<1> QED  BY <1>1, <1>2, <1>3 DEF TaskStep
LEMMA UsesCounts ==
  ASSUME HistoriesOK, NEW k \in AgentKeys, Uses(k)
  PROVE  /\ since' \in [AgentKeys -> SUBSET AgentKeys]
         /\ \A j \in AgentKeys : IsFiniteSet(since'[j])
         /\ \A j \in AgentKeys \ {k} : since'[j] = since[j] \cup {k}
<1>1. since' = [j \in AgentKeys |-> IF j = k THEN {} ELSE since[j] \cup {k}]
  BY DEF Uses, HistoriesOK
<1>2. since' \in [AgentKeys -> SUBSET AgentKeys] /\ since'[k] = {}
      /\ \A j \in AgentKeys \ {k} : since'[j] = since[j] \cup {k}
  BY <1>1 DEF HistoriesOK
<1>3. ASSUME NEW j \in AgentKeys PROVE IsFiniteSet(since'[j])
  <2>1. IsFiniteSet(since[j]) /\ IsFiniteSet({})
    BY FS_EmptySet DEF HistoriesOK
  <2>2. IsFiniteSet(since[j] \cup {k})
    BY <2>1, FS_AddElement
  <2> QED  BY <1>2, <2>1, <2>2
<1> QED  BY <1>2, <1>3

\* A list loses keys, and keeps its order.
LEMMA UsedDrop ==
  ASSUME NEW K, NEW q \in Seq(K), NEW gone, NEW s, UsedSince(q, s)
  PROVE  UsedSince(Without(q, gone), s)
<1> DEFINE r == Without(q, gone)
<1>1. PICK from : Source(q, gone, from)
  BY WithoutSource
<1> SUFFICES ASSUME NEW i \in 1 .. Len(r), NEW j \in 1 .. Len(r), i < j PROVE r[j] \in s[r[i]]
  BY DEF UsedSince
<1>2. /\ from[i] \in 1 .. Len(q) /\ from[j] \in 1 .. Len(q) /\ from[i] < from[j]
      /\ r[i] = q[from[i]] /\ r[j] = q[from[j]]
  BY <1>1 DEF Source
<1> QED  BY <1>2 DEF UsedSince

\* A key that is used goes to the end, and is used since the others were.
LEMMA UsedLast ==
  ASSUME HistoriesOK, NEW q \in Seq(AgentKeys), Once(q), NEW k \in AgentKeys,
         UsedSince(q, since), Uses(k)
  PROVE  UsedSince(ToEnd(q, k), since')
<1> DEFINE r == Without(q, {k})
           p == ToEnd(q, k)
<1>1. r \in Seq(AgentKeys) /\ Each(r) = Each(q) \ {k} /\ UsedSince(r, since)
  BY WithoutOnce, UsedDrop
<1>2. p = Append(r, k)
  BY DEF ToEnd
<1> HIDE DEF r, p
<1>3. /\ Len(r) \in Nat /\ Len(p) = Len(r) + 1 /\ p[Len(r) + 1] = k
      /\ \A i \in 1 .. Len(r) : p[i] = r[i] /\ r[i] \in AgentKeys
  BY <1>1, <1>2, AppendProperties, LenProperties, ElementOfSeq
<1>4. \A i \in 1 .. Len(r) : r[i] # k
  BY <1>1 DEF Each
<1> SUFFICES ASSUME NEW i \in 1 .. Len(p), NEW j \in 1 .. Len(p), i < j PROVE p[j] \in since'[p[i]]
  BY DEF UsedSince, p
<1>5. i \in 1 .. Len(r) /\ (j \in 1 .. Len(r) \/ j = Len(r) + 1)
  BY <1>3
<1>6. since'[p[i]] = since[p[i]] \cup {k}
  BY <1>3, <1>4, <1>5, UsesCounts
<1>7. CASE j \in 1 .. Len(r)
  <2>1. r[j] \in since[r[i]]
    BY <1>1, <1>5, <1>7 DEF UsedSince
  <2> QED  BY <1>3, <1>5, <1>6, <1>7, <2>1
<1>8. CASE j = Len(r) + 1
  BY <1>3, <1>6, <1>8
<1> QED  BY <1>5, <1>7, <1>8

\* A key before max others was used before max others.
LEMMA OldestIsOld ==
  ASSUME NEW p \in Seq(AgentKeys), Once(p), NEW s, UsedSince(p, s), NEW max \in Nat,
         NEW i \in 1 .. Len(p) - max, IsFiniteSet(s[p[i]])
  PROVE  Cardinality(s[p[i]]) >= max
<1> DEFINE T == s[p[i]]
           f == [j \in i + 1 .. Len(p) |-> p[j]]
<1>1. Len(p) \in Nat /\ i \in Nat /\ i >= 1 /\ i <= Len(p) - max
  BY LenProperties
<1>2. \A j \in i + 1 .. Len(p) : j \in 1 .. Len(p) /\ i \in 1 .. Len(p) /\ i < j
  BY <1>1
<1>3. \A j \in i + 1 .. Len(p) : p[j] \in T
  BY <1>2 DEF UsedSince
<1>4. f \in Injection(i + 1 .. Len(p), T)
  <2>1. f \in [i + 1 .. Len(p) -> T]
    BY <1>3
  <2>2. \A a, b \in i + 1 .. Len(p) : f[a] = f[b] => a = b
    BY <1>2 DEF Once
  <2> QED  BY <2>1, <2>2 DEF Injection, IsInjective
<1> HIDE DEF T, f
<1>5. Cardinality(i + 1 .. Len(p)) = Len(p) - i
  <2>1. i + 1 \in Int /\ Len(p) \in Int /\ (IF i + 1 > Len(p) THEN 0 ELSE Len(p) - (i + 1) + 1) = Len(p) - i
    BY <1>1
  <2> QED  BY <2>1, FS_Interval
<1>6. IsFiniteSet(T)
  BY DEF T
<1>7. Cardinality(i + 1 .. Len(p)) <= Cardinality(T) /\ Cardinality(T) \in Nat
  BY <1>4, <1>6, FS_Injection, FS_CardinalityType
<1>8. Cardinality(T) >= max
  BY <1>1, <1>5, <1>7
<1> QED  BY <1>8 DEF T

\* The agents stay well-formed and in the order of their use, and one that is
\* evicted is preceded by AgentMax used after it.
LEMMA AgentsMoveKeeps ==
  ASSUME LruInv, AgentsMove
  PROVE  /\ AgentsOK(agents') /\ UsedSince(agents'.order, since')
         /\ since' \in [AgentKeys -> SUBSET AgentKeys]
         /\ \A j \in AgentKeys : IsFiniteSet(since'[j])
         /\ \A j \in AgentKeys :
              agents.value[j] # {} /\ agents'.value[j] = {} => Cardinality(since'[j]) >= AgentMax
<1> DEFINE q == agents.order
<1>0. /\ HistoriesOK /\ AgentsOK(agents) /\ UsedSince(q, since)
      /\ q \in Seq(AgentKeys) /\ Once(q) /\ agents.value \in [AgentKeys -> SUBSET [Baked -> Versions]]
      /\ Each(q) = {k \in AgentKeys : agents.value[k] # {}}
  BY WellFormedParts DEF LruInv, AgentsOK, LruOK
<1>1. CASE UNCHANGED <<agents, since>>
  BY <1>0, <1>1 DEF HistoriesOK, AgentsOK
<1>2. ASSUME NEW k \in AgentKeys, Uses(k)
      PROVE  /\ since' \in [AgentKeys -> SUBSET AgentKeys]
             /\ \A j \in AgentKeys : IsFiniteSet(since'[j])
             /\ UsedSince(ToEnd(q, k), since')
             /\ ToEnd(q, k) \in Seq(AgentKeys) /\ Once(ToEnd(q, k))
             /\ Each(ToEnd(q, k)) = Each(q) \cup {k}
  <2>1. q \in Seq(AgentKeys) /\ Once(q) /\ UsedSince(q, since) /\ HistoriesOK
    BY <1>0
  <2> HIDE DEF q
  <2>2. /\ since' \in [AgentKeys -> SUBSET AgentKeys]
        /\ \A j \in AgentKeys : IsFiniteSet(since'[j])
    BY <1>2, <2>1, UsesCounts
  <2>3. UsedSince(ToEnd(q, k), since')
    BY <1>2, <2>1, UsedLast
  <2>4. /\ ToEnd(q, k) \in Seq(AgentKeys) /\ Once(ToEnd(q, k))
        /\ Each(ToEnd(q, k)) = Each(q) \cup {k}
    BY <2>1, LastUsed
  <2> QED  BY <2>2, <2>3, <2>4
<1>3. ASSUME NEW k \in AgentKeys, Uses(k), agents.value[k] # {}, agents' = Touch(agents, k)
      PROVE  AgentsOK(agents') /\ UsedSince(agents'.order, since') /\ agents'.value = agents.value
  <2>1. AgentsOK(agents')
    BY <1>0, <1>3, TouchOK DEF AgentsOK
  <2>2. agents'.order = ToEnd(q, k) /\ agents'.value = agents.value
    BY <1>3 DEF Touch, ToEnd
  <2> QED  BY <1>2, <1>3, <2>1, <2>2
<1>4. ASSUME NEW k \in AgentKeys, Uses(k), NEW a \in [Baked -> Versions],
             agents' = Put(agents, k, a, AgentMax)
      PROVE  /\ AgentsOK(agents') /\ UsedSince(agents'.order, since')
             /\ \A j \in AgentKeys :
                  agents.value[j] # {} /\ agents'.value[j] = {} => Cardinality(since'[j]) >= AgentMax
  <2> DEFINE p == ToEnd(q, k)
             oldest == {p[i] : i \in 1 .. Len(p) - AgentMax}
             w == [agents.value EXCEPT ![k] = {a}]
  <2>1. AgentsOK(agents')
    <3>1. AgentMax \in Nat
      BY LimitsAssumption
    <3> QED  BY <1>0, <1>4, <3>1, PutOK DEF AgentsOK
  <2>2. agents' = Drop([value |-> w, order |-> p], oldest)
    BY <1>4 DEF Put, ToEnd
  <2>3. w \in [AgentKeys -> SUBSET [Baked -> Versions]]
        /\ \A j \in AgentKeys : agents.value[j] # {} => w[j] # {}
    BY <1>0
  <2>4. /\ UsedSince(p, since') /\ p \in Seq(AgentKeys) /\ Once(p)
        /\ \A j \in AgentKeys : IsFiniteSet(since'[j])
    BY <1>2, <1>4
  <2> HIDE DEF p, w
  <2>5. agents'.order = Without(p, oldest)
        /\ agents'.value = [j \in AgentKeys |-> IF j \in oldest THEN {} ELSE w[j]]
    BY <2>2, <2>3 DEF Drop
  <2>6. UsedSince(agents'.order, since')
    <3> HIDE DEF oldest
    <3> QED  BY <2>4, <2>5, UsedDrop
  <2>7. ASSUME NEW j \in AgentKeys, agents.value[j] # {}, agents'.value[j] = {}
        PROVE  Cardinality(since'[j]) >= AgentMax
    <3>1. PICK i \in 1 .. Len(p) - AgentMax : j = p[i]
      BY <2>3, <2>5, <2>7
    <3>2. IsFiniteSet(since'[p[i]]) /\ AgentMax \in Nat
      BY <2>4, <3>1, LimitsAssumption
    <3>3. Cardinality(since'[p[i]]) >= AgentMax
      BY <2>4, <3>2, OldestIsOld
    <3> QED  BY <3>1, <3>3
  <2> QED  BY <2>1, <2>6, <2>7
<1> HIDE DEF q
<1>5. CASE \E k \in AgentKeys :
             /\ Uses(k)
             /\ \/ agents.value[k] # {} /\ agents' = Touch(agents, k)
                \/ \E a \in [Baked -> Versions] : agents' = Put(agents, k, a, AgentMax)
  BY <1>2, <1>3, <1>4, <1>5
<1> QED  BY <1>1, <1>5 DEF AgentsMove
LEMMA ForgetOrders ==
  ASSUME LruInv, NEW u, Forget(u)
  PROVE  BlobsOK(blobs') /\ AgentsOK(agents') /\ UsedSince(agents'.order, since)
<1>1. BlobsOK(blobs) /\ AgentsOK(agents) /\ UsedSince(agents.order, since)
      /\ agents.order \in Seq(AgentKeys)
  BY DEF LruInv, AgentsOK, LruOK
<1>2. blobs' = Drop(blobs, {u} \X Parts) /\ agents' = Drop(agents, {u} \X Confs)
  BY DEF Forget
<1>3. AgentMax \in Nat /\ BlobMax \in Nat
  BY LimitsAssumption
<1>4. BlobsOK(blobs')
  BY <1>1, <1>2, <1>3, DropsOK DEF BlobsOK
<1>5. AgentsOK(agents')
  BY <1>1, <1>2, <1>3, DropsOK DEF AgentsOK
<1>6. agents'.order = Without(agents.order, {u} \X Confs)
  BY <1>2 DEF Drop
<1> QED  BY <1>1, <1>4, <1>5, <1>6, UsedDrop

LEMMA LruInit == ASSUME Init PROVE LruInv
<1>1. SettledInv
  BY SettledInit
<1>2. BlobsOK(blobs) /\ AgentsOK(agents)
  BY EmptyOK, LimitsAssumption DEF Init, BlobsOK, AgentsOK
<1>3. UsedSince(agents.order, since)
  <2>1. agents.order = <<>> /\ Len(<<>>) = 0
    BY EmptySeq DEF Init, Empty
  <2> QED  BY <2>1 DEF UsedSince
<1>4. HistoriesOK
  <2>1. Zero \in [Parts -> Versions]
    BY LimitsAssumption DEF Zero, Versions
  <2>2. IsFiniteSet({})
    BY FS_EmptySet
  <2> QED  BY <2>1, <2>2 DEF Init, HistoriesOK
<1> QED  BY <1>1, <1>2, <1>3, <1>4 DEF LruInv

LEMMA LruNext == ASSUME LruInv, [Next]_vars PROVE LruInv'
<1>0. SettledInv' /\ SettledInv /\ HistoriesOK /\ BlobsOK(blobs) /\ AgentsOK(agents)
      /\ UsedSince(agents.order, since)
  BY SettledNext DEF LruInv
<1>1. ASSUME NEW t \in Tasks, TaskStep(t) PROVE LruInv'
  <2>1. BlobsOK(blobs') /\ AgentsMove /\ UNCHANGED <<saved, asOf>>
    BY <1>1, TaskOrders
  <2>2. /\ AgentsOK(agents') /\ UsedSince(agents'.order, since')
        /\ since' \in [AgentKeys -> SUBSET AgentKeys]
        /\ \A j \in AgentKeys : IsFiniteSet(since'[j])
    BY <2>1, AgentsMoveKeeps
  <2>3. HistoriesOK'
    BY <1>0, <2>1, <2>2 DEF HistoriesOK
  <2> QED  BY <1>0, <2>1, <2>2, <2>3 DEF LruInv, BlobsOK, AgentsOK
<1>2. ASSUME NEW t \in Tasks, NEW o \in AgentKeys, Begin(t, o) PROVE LruInv'
  <2>1. o[1] \in Users
    BY DEF AgentKeys
  <2>2. asOf' = [asOf EXCEPT ![t] = saved[o[1]]] /\ UNCHANGED <<blobs, agents, saved, since>>
    BY <1>2 DEF Begin
  <2>3. HistoriesOK'
    BY <1>0, <2>1, <2>2 DEF HistoriesOK
  <2> QED  BY <1>0, <2>2, <2>3 DEF LruInv, BlobsOK, AgentsOK
<1>3. ASSUME NEW e \in Editors, Invalidate(e) PROVE LruInv'
  <2> DEFINE u == edit[e][1]
             p == edit[e][2]
             v == edit[e][3]
  <2>1. u \in Users /\ p \in Parts /\ v \in Versions
    BY <1>3 DEF Invalidate, SettledInv, ValuesOK, LruInv
  <2>2. /\ Forget(u) /\ UNCHANGED <<since, asOf>>
        /\ saved' = [saved EXCEPT ![u][p] = IF @ < v THEN v ELSE @]
    BY <1>3 DEF Invalidate, requests
  <2> HIDE DEF u, p, v
  <2>3. saved' \in [Users -> [Parts -> Versions]]
    BY <1>0, <2>1, <2>2 DEF HistoriesOK
  <2>4. HistoriesOK'
    BY <1>0, <2>2, <2>3 DEF HistoriesOK
  <2>5. BlobsOK(blobs') /\ AgentsOK(agents') /\ UsedSince(agents'.order, since')
    BY <2>2, ForgetOrders
  <2> QED  BY <1>0, <2>4, <2>5 DEF LruInv, BlobsOK, AgentsOK
<1>4. ASSUME UNCHANGED <<blobs, agents, since, saved, asOf>> PROVE LruInv'
  BY <1>0, <1>4 DEF LruInv, BlobsOK, AgentsOK, HistoriesOK
<1>5. ASSUME NEW e \in Editors, NEW u \in Users, NEW p \in Parts, NEW v \in Versions,
             Commit(e, u, p, v)
      PROVE  LruInv'
  BY <1>4, <1>5 DEF Commit, requests
<1>6. ASSUME NEW u \in Users, MemorySaved(u) PROVE LruInv'
  <2>1. Forget(u) /\ UNCHANGED <<since, asOf, saved>>
    BY <1>6 DEF MemorySaved, requests
  <2>2. BlobsOK(blobs') /\ AgentsOK(agents') /\ UsedSince(agents'.order, since')
    BY <2>1, ForgetOrders
  <2> QED  BY <1>0, <2>1, <2>2 DEF LruInv, BlobsOK, AgentsOK, HistoriesOK
<1>7. ASSUME NEW k \in BlobKeys, Expire(k) PROVE LruInv'
  <2>1. PICK e \in blobs.value[k] :
          blobs' = [value |-> [blobs.value EXCEPT ![k] = {[version |-> e.version, live |-> FALSE]}],
                    order |-> blobs.order]
    BY <1>7 DEF Expire
  <2> DEFINE w == [blobs.value EXCEPT ![k] = {[version |-> e.version, live |-> FALSE]}]
  <2>2. /\ blobs.value \in [BlobKeys -> SUBSET Blobs] /\ blobs.order \in Seq(BlobKeys)
        /\ Len(blobs.order) <= BlobMax /\ Once(blobs.order)
        /\ Each(blobs.order) = {j \in BlobKeys : blobs.value[j] # {}}
    BY <1>0, WellFormedParts DEF BlobsOK, LruOK
  <2>3. [version |-> e.version, live |-> FALSE] \in Blobs
    <3>1. e \in Blobs
      BY <2>2
    <3> QED  BY <3>1 DEF Blobs
  <2>4. w \in [BlobKeys -> SUBSET Blobs]
        /\ {j \in BlobKeys : w[j] # {}} = {j \in BlobKeys : blobs.value[j] # {}}
    BY <2>2, <2>3
  <2> HIDE DEF w
  <2>5. blobs' = [value |-> w, order |-> blobs.order]
    BY <2>1 DEF w
  <2>6. blobs'.value = w /\ blobs'.order = blobs.order /\ DOMAIN w = BlobKeys
        /\ blobs' \in [value : [BlobKeys -> SUBSET Blobs], order : Seq(BlobKeys)]
    BY <2>2, <2>4, <2>5
  <2>7. WellFormed(blobs', BlobMax)
    BY <2>2, <2>4, <2>6, WellFormedParts
  <2>8. BlobsOK(blobs') /\ UNCHANGED <<agents, since, saved, asOf>>
    BY <1>7, <2>6, <2>7 DEF BlobsOK, LruOK, Expire, requests
  <2> QED  BY <1>0, <2>8 DEF LruInv, BlobsOK, AgentsOK, HistoriesOK
<1>8. CASE UNCHANGED vars
  BY <1>4, <1>8 DEF vars, requests
<1> QED  BY <1>1, <1>2, <1>3, <1>5, <1>6, <1>7, <1>8 DEF Next

\* Besides what SettledInv says of the versions: both caches are well-formed and the
\* agents are listed in the order of their last use.
LEMMA LruInvariant == Spec => []LruInv
<1>1. Init => LruInv
  BY LruInit
<1>2. LruInv /\ [Next]_vars => LruInv'
  BY LruNext
<1> QED  BY <1>1, <1>2, PTL DEF Spec

\* Both caches stay within their caps, and their orders list just the keys they hold,
\* each once: for any limits, requests, saves and expiries (cache_put, user_blob_put
\* and invalidate_user_cache change the dictionary in one stretch each).
THEOREM CachesAreBounded == Spec => []CachesOK
<1>1. LruInv => CachesOK
  BY DEF LruInv, CachesOK, TypeOK, SettledInv, ValuesOK, HistoriesOK, BlobsOK, AgentsOK, LruOK
<1> QED  BY <1>1, LruInvariant, PTL

\* Requests evict an agent only after AgentMax others were used since its own last use:
\* a hit moves the agent to the end, however many users share the cache (cache_get).
THEOREM HotAgentsStay == Spec => HotAgentStays
<1>1. LruInv /\ [Next]_vars =>
        [\A t \in Tasks, k \in AgentKeys :
           TaskStep(t) /\ agents.value[k] # {} /\ agents'.value[k] = {}
             => Cardinality(since'[k]) >= AgentMax]_vars
  BY TaskOrders, AgentsMoveKeeps
<1> QED  BY <1>1, LruInvariant, PTL DEF Spec, HotAgentStays
=============================================================================
