------------------------------ MODULE XaiOauth ------------------------------
(***************************************************************************)
(* The rotating tokens of one user's xAI login (backend/app/agent/agent.py *)
(* _ensure_xai_oauth_fresh and its callers, xai_oauth.py): every request   *)
(* for a model saved with that login looks at its tokens, refreshes them   *)
(* when the access token is about to expire, and looks again if it has to  *)
(* build the agent.                                                        *)
(*                                                                         *)
(* xAI answers a refresh with a new pair of tokens and refuses the refresh *)
(* token it has replaced, so a pair is the number of refreshes before it.  *)
(* save_user_models_bulk stores the same first pair with every model.      *)
(*                                                                         *)
(* A step ends at an await that suspends, or between two lookups that hit. *)
(***************************************************************************)
EXTENDS Integers, Sequences

CONSTANTS
  Models,        \* the models saved with the login
  Tasks,         \* requests served at the same time
  MaxRefreshes,  \* bound: refreshes that xAI grants
  MaxFaults      \* bound: refreshes and transactions that fail

ASSUME BoundsAssumption == MaxRefreshes \in Nat /\ MaxFaults \in Nat
Pairs == 0 .. MaxRefreshes

VARIABLES
  issued,    \* the pair xAI issued last, the only one it refreshes
  aged,      \* the pairs below have an access token about to expire
  rows,      \* model -> pair in its database row
  specs,     \* the cached merged_model_specs (rows as they were), if any
  lock,      \* model -> the tasks at its asyncio.Lock, the holder first
  pc,        \* task -> where it is
  model,     \* task -> the model it asks for
  building,  \* task -> has it come to build_model_for?
  query,     \* task -> where its lookup's database load is, if it misses
  seen,      \* task -> the rows that load has read
  pair,      \* task -> the pair it refreshes, then stores
  faults     \* faults so far

request == <<pc, model, building, query, seen, pair>>
vars == <<issued, aged, rows, specs, lock, request, faults>>

Inside == {"fresh", "refresh", "store", "stored"}   \* of the lock, or at it
InLine(t, m) == \E i \in 1 .. Len(lock[m]) : lock[m][i] = t

TypeOK ==
  /\ issued \in Pairs /\ aged \in Pairs
  /\ rows \in [Models -> Pairs]
  /\ specs \in SUBSET [Models -> Pairs] /\ \A a, b \in specs : a = b
  /\ lock \in [Models -> Seq(Tasks)]
  /\ pc \in [Tasks -> {"idle", "specs"} \cup Inside]
  /\ model \in [Tasks -> Models]
  /\ building \in [Tasks -> BOOLEAN]
  /\ query \in [Tasks -> {"none", "sent", "read"}]
  /\ seen \in [Tasks -> [Models -> Pairs]]
  /\ pair \in [Tasks -> Pairs]
  /\ faults \in 0 .. MaxFaults

Init ==
  /\ issued = 0 /\ aged = 0 /\ faults = 0
  /\ rows = [m \in Models |-> 0] /\ specs = {}
  /\ lock = [m \in Models |-> <<>>]
  /\ pc = [t \in Tasks |-> "idle"] /\ model \in [Tasks -> Models]
  /\ building = [t \in Tasks |-> FALSE] /\ query = [t \in Tasks |-> "none"]
  /\ seen = [t \in Tasks |-> rows]
  /\ pair = [t \in Tasks |-> 0]

Expiring(p) == p < aged
Fails == faults < MaxFaults /\ faults' = faults + 1

\* Mutant: the lock is made anew for each call.
MutantHolds(t) == TRUE
Holds(t) == Head(lock[model[t]]) = t

-----------------------------------------------------------------------------
(* Requests *)

Goes(t, place) == pc' = [pc EXCEPT ![t] = place]

\* Its route has resolved the model; the next lookup is _get_or_build's.
Begin(t, m) ==
  /\ pc[t] = "idle"
  /\ Goes(t, "specs")
  /\ model' = [model EXCEPT ![t] = m]
  /\ building' = [building EXCEPT ![t] = FALSE]
  /\ UNCHANGED <<issued, aged, rows, specs, lock, query, seen, pair, faults>>

\* _ensure_xai_oauth_fresh has returned.  _get_or_build finds the compiled
\* agent, or goes on to build_model_for; that one has the tokens it needs.
Returns(t) ==
  \/ Goes(t, "idle") /\ UNCHANGED building
  \/ /\ ~ building[t]
     /\ Goes(t, "specs") /\ building' = [building EXCEPT ![t] = TRUE]

Release(t) == lock' = [lock EXCEPT ![model[t]] = Tail(@)]

\* The tokens looked up before the lock.
Ensure(t, p) ==
  IF Expiring(p)
  THEN /\ Goes(t, "fresh")
       /\ lock' = [lock EXCEPT ![model[t]] = Append(@, t)]
       /\ UNCHANGED <<building, pair>>
  ELSE Returns(t) /\ UNCHANGED <<lock, pair>>

\* The tokens looked up under the lock: another task may have refreshed them.
ReCheck(t, p) ==
  IF Expiring(p)
  THEN Goes(t, "refresh") /\ pair' = [pair EXCEPT ![t] = p] /\ UNCHANGED <<lock, building>>
  ELSE Returns(t) /\ Release(t) /\ UNCHANGED pair

Found(t, found) ==
  LET p == found[model[t]]
  IN IF pc[t] = "specs" THEN Ensure(t, p) ELSE ReCheck(t, p)

\* merged_model_specs hits, or asks the database.
LookUp(t) ==
  /\ pc[t] = "specs" \/ (pc[t] = "fresh" /\ Holds(t))
  /\ query[t] = "none"
  /\ \/ \E found \in specs : Found(t, found) /\ UNCHANGED query
     \/ /\ specs = {}
        /\ query' = [query EXCEPT ![t] = "sent"]
        /\ UNCHANGED <<lock, pc, building, pair>>
  /\ UNCHANGED <<issued, aged, rows, specs, model, seen, faults>>

LoadReads(t) ==
  /\ query[t] = "sent"
  /\ query' = [query EXCEPT ![t] = "read"]
  /\ seen' = [seen EXCEPT ![t] = rows]
  /\ UNCHANGED <<issued, aged, rows, specs, lock, pc, model, building, pair, faults>>

LoadEnds(t) ==
  /\ query[t] = "read"
  /\ specs' = {seen[t]}
  /\ Found(t, seen[t])
  /\ query' = [query EXCEPT ![t] = "none"]
  /\ seen' = [seen EXCEPT ![t] = [m \in Models |-> 0]]
  /\ UNCHANGED <<issued, aged, rows, model, faults>>

-----------------------------------------------------------------------------
(* The refresh *)

\* refresh_access_token: the pair has not been replaced.
Granted(t) ==
  /\ pc[t] = "refresh" /\ pair[t] = issued /\ issued < MaxRefreshes
  /\ issued' = issued + 1
  /\ pair' = [pair EXCEPT ![t] = issued']
  /\ Goes(t, "store")
  /\ UNCHANGED <<aged, rows, specs, lock, model, building, query, seen, faults>>

\* The exception is logged and the old spec returned.
GivesUp(t) == Returns(t) /\ Release(t)

Refused(t) ==
  /\ pc[t] = "refresh" /\ pair[t] # issued
  /\ GivesUp(t)
  /\ UNCHANGED <<issued, aged, rows, specs, model, query, seen, pair, faults>>

\* The request does not reach xAI, or its reply is lost.
RefreshFails(t) ==
  /\ Fails
  /\ pc[t] = "refresh"
  /\ issued' \in {issued} \cup {p \in Pairs : p = issued + 1 /\ pair[t] = issued}
  /\ GivesUp(t)
  /\ UNCHANGED <<aged, rows, specs, model, query, seen, pair>>

\* Mutant: a rotated refresh token is taken for the old one and not written.
MutantStores(t) == UNCHANGED rows
Stores(t) == rows' = [rows EXCEPT ![model[t]] = pair[t]]

\* _persist_xai_oauth_tokens: its transaction commits...
StoreCommits(t) ==
  /\ pc[t] = "store"
  /\ Stores(t)
  /\ Goes(t, "stored")
  /\ UNCHANGED <<issued, aged, specs, lock, model, building, query, seen, pair, faults>>

\* ...and the session closed, it invalidates the user's caches.
StoreReturns(t) ==
  /\ pc[t] = "stored"
  /\ specs' = {}
  /\ Returns(t) /\ Release(t)
  /\ UNCHANGED <<issued, aged, rows, model, query, seen, pair, faults>>

\* Mutant: the lock is left by the returns only.
MutantStoreFails(t) ==
  /\ Fails
  /\ pc[t] = "store"
  /\ Goes(t, "idle")
  /\ UNCHANGED <<issued, aged, rows, specs, lock, model, building, query, seen, pair>>
\* It raises: no handler up to the route, and the request fails.
StoreFails(t) ==
  /\ Fails
  /\ pc[t] = "store"
  /\ Goes(t, "idle") /\ Release(t)
  /\ UNCHANGED <<issued, aged, rows, specs, model, building, query, seen, pair>>

-----------------------------------------------------------------------------
(* Time *)

\* The access token issued last comes near its expiry.
Age ==
  /\ aged <= issued /\ issued < MaxRefreshes
  /\ aged' = issued + 1
  /\ UNCHANGED <<issued, rows, specs, lock, request, faults>>

\* The TTL of the cached specs passes.
SpecsExpire ==
  /\ specs' = {} /\ specs # {}
  /\ UNCHANGED <<issued, aged, rows, lock, request, faults>>

TaskStep(t) ==
  \/ LookUp(t) \/ LoadReads(t) \/ LoadEnds(t)
  \/ Granted(t) \/ Refused(t) \/ StoreCommits(t) \/ StoreReturns(t)
Next ==
  \/ \E t \in Tasks :
       TaskStep(t) \/ RefreshFails(t) \/ StoreFails(t) \/ \E m \in Models : Begin(t, m)
  \/ Age \/ SpecsExpire

\* The loop runs what is ready, the database and xAI answer.
Spec == Init /\ [][Next]_vars /\ \A t \in Tasks : WF_vars(TaskStep(t))

-----------------------------------------------------------------------------
(* Properties *)

\* The lock of a model lists the requests between its acquire and its release,
\* each once: whatever way _ensure_xai_oauth_fresh is left, it is released.
LocksOK ==
  /\ TypeOK
  /\ \A t \in Tasks, m \in Models : InLine(t, m) <=> pc[t] \in Inside /\ model[t] = m
  /\ \A m \in Models : \A i, j \in 1 .. Len(lock[m]) : i # j => lock[m][i] # lock[m][j]

\* _persist_xai_oauth_tokens (agent.py:204-206): whenever the locks are free,
\* each row holds the one refresh token that works, if nothing failed.
RefreshStored ==
  faults = 0 /\ (\A m \in Models : lock[m] = <<>>) => \A m \in Models : rows[m] = issued

\* The lock (agent.py:186-189): no two requests spend the same refresh token.
\* With nothing failed, a refresh is refused only to a request that was handed
\* cached specs older than the row, never between another's refresh and store.
RotationGuarded ==
  [][\A t \in Tasks : faults = 0 /\ Refused(t) => pair[t] < rows[model[t]]]_vars

\* The re-check (agent.py:233-238): a pair is replaced only when its access
\* token was about to expire, whoever waited for the lock.
NoNeedlessRotation == issued <= aged

\* No request waits for the lock for ever, also when a refresh or a store fails.
CallsEnd == \A t \in Tasks : pc[t] # "idle" ~> pc[t] = "idle"

\* xAI is not asked to refresh a token it has replaced (agent.py:187-189).
NoDeadRefresh == [][\A t \in Tasks : ~ Refused(t)]_vars
=============================================================================
