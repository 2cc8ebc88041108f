----------------------------- MODULE AgentCache -----------------------------
(***************************************************************************)
(* The two process-wide caches of backend/app/agent/agent_common.py: the   *)
(* compiled agents, and per user the loaded inputs of an agent (model      *)
(* specs, MCP tools, skills manifest).  Requests fill them between awaits  *)
(* of the database, while the user's editors commit a change and then      *)
(* invalidate.                                                             *)
(*                                                                         *)
(* The version of a stored input is the number of the user's edit that     *)
(* last changed it.  All code runs on one asyncio loop: a step is a        *)
(* stretch between two awaits that suspend, so a lookup that hits goes on  *)
(* to the next lookup in the same step.                                    *)
(***************************************************************************)
EXTENDS Integers, Sequences, FiniteSets

CONSTANTS
  Users, Confs,      \* Confs: the rest of an agent key (mode, model, effort, genui)
  Tasks, Editors,    \* requests served, and edits saved, at the same time
  AgentMax,          \* AGENT_CACHE_MAX
  BlobMax,           \* USER_BLOB_CACHE_MAX
  MaxEdits           \* bound: edits of each user

ASSUME LimitsAssumption ==
  AgentMax \in Nat \ {0} /\ BlobMax \in Nat \ {0} /\ MaxEdits \in Nat

Parts == {"specs", "mcp", "skills"}
Baked == {"specs", "mcp"}     \* the inputs a compiled agent holds
Versions == 0 .. MaxEdits
BlobKeys == Users \X Parts
AgentKeys == Users \X Confs
Blobs == [version : Versions, live : BOOLEAN]

VARIABLES
  db,       \* user -> part -> version stored
  edit,     \* editor -> the edit it has committed and not yet invalidated
  blobs,    \* _USER_BLOBS
  agents,   \* _AGENT_CACHE
  stage,    \* task -> the lookup it is at
  query,    \* task -> where that lookup's database load is, if it misses
  owner,    \* task -> <<user, conf>> of its request
  loaded,   \* task -> the version its load has read
  tools,    \* task -> the MCP tools it builds with
  using,    \* task -> the inputs its run works with
  saved,    \* history: user -> part -> last version whose save returned
  asOf,     \* history: task -> saved[user] when its request began
  settled,  \* history: user -> db[user] at the last invalidation during
            \* which no request of the user was under way
  since     \* history: agent key -> other keys used since its last use

requests == <<stage, query, owner, loaded, tools, using, asOf>>
vars == <<db, edit, blobs, agents, requests, saved, settled, since>>

-----------------------------------------------------------------------------
(* An OrderedDict kept as a bounded LRU: value[k] holds the entry of k, if   *)
(* any, and order lists the keys, most recently used last.                   *)

Empty(keys) == [value |-> [k \in keys |-> {}], order |-> <<>>]
\* The keys that are not in gone, in their order: the n-th of them is at the place up
\* to which n are kept.
Without(order, gone) ==
  LET kept == {i \in DOMAIN order : order[i] \notin gone}
      UpTo(i) == Cardinality({j \in kept : j <= i})
  IN [n \in 1 .. Cardinality(kept) |-> order[CHOOSE i \in kept : UpTo(i) = n]]

\* Mutant: a hit leaves the entry where it was inserted.
MutantTouch(c, k) == c
Touch(c, k) == [value |-> c.value, order |-> Append(Without(c.order, {k}), k)]

Drop(c, gone) ==
  [value |-> [k \in DOMAIN c.value |-> IF k \in gone THEN {} ELSE c.value[k]],
   order |-> Without(c.order, gone)]

\* Mutant: the cap is tested before the new entry is in.
MutantPut(c, k, v, max) ==
  LET order == Append(Without(c.order, {k}), k)
      oldest == {order[i] : i \in 1 .. Len(order) - 1 - max}
  IN Drop([value |-> [c.value EXCEPT ![k] = {v}], order |-> order], oldest)

Put(c, k, v, max) ==
  LET order == Append(Without(c.order, {k}), k)
      oldest == {order[i] : i \in 1 .. Len(order) - max}
  IN Drop([value |-> [c.value EXCEPT ![k] = {v}], order |-> order], oldest)

WellFormed(c, max) ==
  /\ Len(c.order) <= max
  /\ {c.order[i] : i \in 1 .. Len(c.order)} = {k \in DOMAIN c.value : c.value[k] # {}}
  /\ \A i, j \in 1 .. Len(c.order) : i # j => c.order[i] # c.order[j]

\* user_blob_get: the entry of k that has not expired, if any.
Hits(c, k) == {e \in c.value[k] : e.live}

-----------------------------------------------------------------------------
Stages == {"idle", "resolve", "specs", "mcp", "model", "run", "done"}
NoEdit == <<>>
NoOwner == <<>>
Zero == [p \in Parts |-> 0]

TypeOK ==
  /\ db \in [Users -> [Parts -> Versions]]
  /\ edit \in [Editors -> {NoEdit} \cup (Users \X Parts \X Versions)]
  /\ blobs \in [value : [BlobKeys -> SUBSET Blobs], order : Seq(BlobKeys)]
  /\ agents \in [value : [AgentKeys -> SUBSET [Baked -> Versions]], order : Seq(AgentKeys)]
  /\ stage \in [Tasks -> Stages]
  /\ query \in [Tasks -> {"none", "sent", "read"}]
  /\ owner \in [Tasks -> {NoOwner} \cup AgentKeys]
  /\ \A t \in Tasks : stage[t] # "idle" => owner[t] \in AgentKeys
  /\ loaded \in [Tasks -> Versions] /\ tools \in [Tasks -> Versions]
  /\ using \in [Tasks -> [Parts -> Versions]]
  /\ saved \in [Users -> [Parts -> Versions]]
  /\ settled \in [Users -> [Parts -> Versions]]
  /\ asOf \in [Tasks -> [Parts -> Versions]]
  /\ since \in [AgentKeys -> SUBSET AgentKeys]

\* Both caches stay within their caps, and list each of their keys once.
CachesOK == TypeOK /\ WellFormed(blobs, BlobMax) /\ WellFormed(agents, AgentMax)

Init ==
  /\ db = [u \in Users |-> Zero] /\ edit = [e \in Editors |-> NoEdit]
  /\ blobs = Empty(BlobKeys) /\ agents = Empty(AgentKeys)
  /\ stage = [t \in Tasks |-> "idle"] /\ query = [t \in Tasks |-> "none"]
  /\ owner = [t \in Tasks |-> NoOwner]
  /\ loaded = [t \in Tasks |-> 0] /\ tools = [t \in Tasks |-> 0]
  /\ using = [t \in Tasks |-> Zero] /\ asOf = [t \in Tasks |-> Zero]
  /\ saved = [u \in Users |-> Zero] /\ settled = [u \in Users |-> Zero]
  /\ since = [k \in AgentKeys |-> {}]

User(t) == owner[t][1]
UnderWay(t, u) == stage[t] \notin {"idle", "done"} /\ User(t) = u

-----------------------------------------------------------------------------
(* A request: resolve_model of the route, _get_or_build, and the skills        *)
(* manifest its run reads                                                      *)

\* The cached input each lookup is about.
PartOf(s) == CASE s \in {"resolve", "specs", "model"} -> "specs"
               [] s = "mcp" -> "mcp"
               [] OTHER -> "skills"
KeyOf(t) == <<User(t), PartOf(stage[t])>>

Uses(k) == since' = [j \in AgentKeys |-> IF j = k THEN {} ELSE since[j] \cup {k}]

Begin(t, o) ==
  /\ stage[t] \in {"idle", "done"}
  /\ stage' = [stage EXCEPT ![t] = "resolve"]
  /\ owner' = [owner EXCEPT ![t] = o]
  /\ asOf' = [asOf EXCEPT ![t] = saved[o[1]]]
  /\ using' = [using EXCEPT ![t] = Zero]
  /\ UNCHANGED <<db, edit, blobs, agents, query, loaded, tools, saved, settled, since>>

\* The lookup at stage s misses in b: an expired entry is popped, and the
\* database is asked.
Misses(t, b, s) ==
  /\ stage' = [stage EXCEPT ![t] = s]
  /\ query' = [query EXCEPT ![t] = "sent"]
  /\ blobs' = Drop(b, {<<User(t), PartOf(s)>>})

GoesTo(t, b, s) ==
  /\ stage' = [stage EXCEPT ![t] = s]
  /\ query' = [query EXCEPT ![t] = "none"]
  /\ blobs' = b

RunsWith(t, b, inputs) ==
  /\ GoesTo(t, b, "run")
  /\ using' = [using EXCEPT ![t] =
                 [p \in Parts |-> IF p \in Baked THEN inputs[p] ELSE 0]]
  /\ Uses(owner[t])

\* build_model_for, create_deep_agent and cache_put, with the MCP tools m.
Build(t, b, m) ==
  LET key == <<User(t), "specs">>
  IN \/ /\ Hits(b, key) = {}
        /\ Misses(t, b, "model")
        /\ tools' = [tools EXCEPT ![t] = m]
        /\ UNCHANGED <<agents, using, since>>
     \/ \E e \in Hits(b, key) :
          LET agent == [p \in Baked |-> IF p = "mcp" THEN m ELSE e.version]
          IN /\ agents' = Put(agents, owner[t], agent, AgentMax)
             /\ RunsWith(t, Touch(b, key), agent)
             /\ tools' = [tools EXCEPT ![t] = 0]

\* cache_get; without an agent, the MCP tools.
FindAgent(t, b) ==
  LET key == <<User(t), "mcp">>
  IN \/ \E a \in agents.value[owner[t]] :
          /\ agents' = Touch(agents, owner[t])
          /\ RunsWith(t, b, a)
          /\ UNCHANGED tools
     \/ /\ agents.value[owner[t]] = {} /\ Hits(b, key) = {}
        /\ Misses(t, b, "mcp")
        /\ UNCHANGED <<agents, tools, using, since>>
     \/ /\ agents.value[owner[t]] = {}
        /\ \E e \in Hits(b, key) : Build(t, Touch(b, key), e.version)

\* The lookup of stage[t] has found version v, which leaves the blobs as b.
Found(t, b, v) ==
  /\ \/ stage[t] = "resolve" /\ GoesTo(t, b, "specs") /\ UNCHANGED <<agents, tools, using, since>>
     \/ stage[t] = "specs" /\ FindAgent(t, b)
     \/ stage[t] = "mcp" /\ Build(t, b, v)
     \/ stage[t] = "model" /\ Build(t, b, tools[t])
     \/ /\ stage[t] = "run" /\ GoesTo(t, b, "done")
        /\ using' = [using EXCEPT ![t]["skills"] = v]
        /\ UNCHANGED <<agents, tools, since>>
  /\ UNCHANGED <<db, edit, owner, asOf, saved, settled>>

LookUp(t) ==
  /\ stage[t] \in {"resolve", "specs", "run"} /\ query[t] = "none"
  /\ \/ \E e \in Hits(blobs, KeyOf(t)) : Found(t, Touch(blobs, KeyOf(t)), e.version)
     \/ /\ Hits(blobs, KeyOf(t)) = {}
        /\ Misses(t, blobs, stage[t])
        /\ UNCHANGED <<db, edit, agents, owner, tools, using, asOf, saved, settled, since>>
  /\ UNCHANGED loaded

\* The database answers; closing the session, and for MCP starting the
\* servers, still has to be awaited.
LoadReads(t) ==
  /\ query[t] = "sent"
  /\ query' = [query EXCEPT ![t] = "read"]
  /\ loaded' = [loaded EXCEPT ![t] = db[User(t)][PartOf(stage[t])]]
  /\ UNCHANGED <<db, edit, blobs, agents, stage, owner, tools, using, asOf, saved, settled, since>>

\* user_blob_put, and on with the value that was read.
LoadEnds(t) ==
  LET entry == [version |-> loaded[t], live |-> TRUE]
  IN /\ query[t] = "read"
     /\ Found(t, Put(blobs, KeyOf(t), entry, BlobMax), loaded[t])
     /\ loaded' = [loaded EXCEPT ![t] = 0]

-----------------------------------------------------------------------------
(* Edits, and time *)

\* The transaction of the user's v-th save commits.
Commit(e, u, p, v) ==
  /\ edit[e] = NoEdit
  /\ \A q \in Parts : db[u][q] < v
  /\ \E q \in Parts : db[u][q] = v - 1
  /\ db' = [db EXCEPT ![u][p] = v]
  /\ edit' = [edit EXCEPT ![e] = <<u, p, v>>]
  /\ UNCHANGED <<blobs, agents, requests, saved, settled, since>>

\* Mutant: the agents are kept, they are dear to build.
MutantForget(u) ==
  /\ blobs' = Drop(blobs, {u} \X Parts)
  /\ UNCHANGED agents
\* invalidate_user_cache
Forget(u) ==
  /\ blobs' = Drop(blobs, {u} \X Parts)
  /\ agents' = Drop(agents, {u} \X Confs)

\* The save invalidates and returns.
Invalidate(e) ==
  /\ edit[e] # NoEdit
  /\ LET u == edit[e][1] p == edit[e][2] v == edit[e][3]
     IN /\ Forget(u)
        /\ saved' = [saved EXCEPT ![u][p] = IF @ < v THEN v ELSE @]
        /\ settled' = IF \E t \in Tasks : UnderWay(t, u) THEN settled
                      ELSE [settled EXCEPT ![u] = db[u]]
  /\ edit' = [edit EXCEPT ![e] = NoEdit]
  /\ UNCHANGED <<db, requests, since>>

\* A save of AGENTS.md, which is not among the cached inputs, invalidates too.
MemorySaved(u) ==
  /\ Forget(u)
  /\ UNCHANGED <<db, edit, requests, saved, settled, since>>

\* The jittered TTL of a blob passes.
Expire(k) ==
  /\ \E e \in blobs.value[k] :
       /\ e.live
       /\ blobs' = [value |-> [blobs.value EXCEPT ![k] = {[version |-> e.version, live |-> FALSE]}],
                    order |-> blobs.order]
  /\ UNCHANGED <<db, edit, agents, requests, saved, settled, since>>

TaskStep(t) == LookUp(t) \/ LoadReads(t) \/ LoadEnds(t)
Next ==
  \/ \E t \in Tasks : TaskStep(t) \/ \E o \in AgentKeys : Begin(t, o)
  \/ \E e \in Editors :
       Invalidate(e) \/ \E u \in Users, p \in Parts, v \in Versions : Commit(e, u, p, v)
  \/ \E u \in Users : MemorySaved(u)
  \/ \E k \in BlobKeys : Expire(k)

\* The loop runs what is ready, the database answers and time passes.  Nobody
\* has to send a request or to edit.
Fairness ==
  /\ \A t \in Tasks : WF_vars(TaskStep(t))
  /\ \A e \in Editors : WF_vars(Invalidate(e))
  /\ \A k \in BlobKeys : WF_vars(Expire(k))
Spec == Init /\ [][Next]_vars /\ Fairness

-----------------------------------------------------------------------------
(* Properties *)

\* invalidate_user_cache: once a save has returned, the next call takes the
\* edit into account.  Does not hold: an input that was read before the edit
\* committed is put back after it has invalidated.
EditsTakeEffect ==
  \A t \in Tasks : stage[t] = "done" =>
    \A p \in Parts : using[t][p] >= asOf[t][p]

\* An edit saved while the user has no request under way is seen by every
\* request that ends later, whatever loads, builds, saves and evictions come
\* between them.
Settled(t) == \A p \in Parts : using'[t][p] >= settled[User(t)][p]
QuietEditsTakeEffect ==
  [][\A t \in Tasks : stage[t] = "run" /\ stage'[t] = "done" => Settled(t)]_vars

\* LRU promotion (agent_common.py:30-34): unless it is invalidated, an agent
\* is lost only after AgentMax others were used since its own last use.
HotAgentStays ==
  [][\A t \in Tasks, k \in AgentKeys :
       TaskStep(t) /\ agents.value[k] # {} /\ agents'.value[k] = {}
         => Cardinality(since'[k]) >= AgentMax]_vars
=============================================================================
