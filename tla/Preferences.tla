------------------------------ MODULE Preferences ------------------------------
(***************************************************************************)
(* The user's interface settings: on the page (zustand stores, next-themes,*)
(* i18n), in the query cache ["ui-settings"], and in the UserConfig row of *)
(* the server.  Two kinds of writer share the cache: persistPref, which    *)
(* sends and forgets, and the mutation of useUpdateUiSettings, which is    *)
(* optimistic, rolls back and fetches again.  Both send the whole cache.   *)
(*                                                                         *)
(* The value of a setting is the number of the choice that made it: 0 is   *)
(* what this browser remembers, 1 what the server holds at first.          *)
(***************************************************************************)
EXTENDS Integers

CONSTANTS
  Picked,      \* settings saved by persistPref: skin, theme, locale, model...
  Written,     \* settings saved by the mutation: display_name, sidebar_order
  MaxChoices,  \* bound: the user's choices
  MaxFetches,  \* bound: fetches of the settings
  MaxFaults    \* bound: requests that fail

Settings == Picked \cup Written
ASSUME SettingsAssumption == Picked \cap Written = {}
ASSUME PrefBounds == MaxChoices \in Nat /\ MaxFetches \in Nat /\ MaxFaults \in Nat

VARIABLES
  uiRow,       \* the server's row
  uiCache,     \* the cached object, a function of the settings it has
  uiCached,    \* the cache holds an object at all
  uiShown,     \* what the page applies
  uiApplied,   \* PrefsSync's applied.current
  uiFetch,     \* the fetch whose answer the cache waits for, 0 for none
  uiNet,       \* requests and answers in flight
  uiChoices, uiFetches, uiFaults,   \* how many there were
  uiChosen,    \* the user's last choice of each setting
  uiLost,      \* settings whose last write failed
  uiCalm       \* no write was sent where an earlier request could undo it

uiVars == <<uiRow, uiCache, uiCached, uiShown, uiApplied, uiFetch, uiNet,
            uiChoices, uiFetches, uiFaults, uiChosen, uiLost, uiCalm>>

Put(n, body, mutation, prev, had) ==
  [kind |-> "put", n |-> n, body |-> body, mutation |-> mutation, prev |-> prev, had |-> had]
Get(n) == [kind |-> "get", n |-> n]
Got(n, body) == [kind |-> "got", n |-> n, body |-> body]
Answered(put, ok) == [put EXCEPT !.kind = IF ok THEN "ok" ELSE "failed"]
InFlight(kinds) == {r \in uiNet : r.kind \in kinds}
Nothing == [k \in {} |-> 0]
Only(k, n) == [j \in {k} |-> n]
\* Settings laid over others, { ...rest, ...patch }.
Over(patch, rest) ==
  [k \in DOMAIN patch \cup DOMAIN rest |-> IF k \in DOMAIN patch THEN patch[k] ELSE rest[k]]

InitPreferences ==
  /\ uiRow = [k \in Settings |-> 1] /\ uiChosen = uiRow
  /\ uiCache = Nothing /\ uiCached = FALSE
  /\ uiShown = [k \in Settings |-> 0] /\ uiApplied = FALSE
  /\ uiFetch = 1 /\ uiNet = {Get(1)} /\ uiFetches = 1
  /\ uiChoices = 1 /\ uiFaults = 0 /\ uiLost = {} /\ uiCalm = TRUE

-----------------------------------------------------------------------------
(* The cache, and the effect of PrefsSync that watches it *)

\* Mutant: what the server holds is applied on every change of the cache.
MutantHydrated(shown, cache) == Over(cache, shown)
Hydrated(shown, cache) == IF uiApplied THEN shown ELSE Over(cache, shown)

SetCache(cache, shown) ==
  /\ uiCache' = cache /\ uiCached' = TRUE
  /\ uiShown' = Hydrated(shown, cache) /\ uiApplied' = TRUE

FetchPrefs ==
  /\ uiFetches' = uiFetches + 1
  /\ uiFetch' = uiFetches + 1

\* The panes leave every setting open to change at any time.
Chosen(k, n) ==
  /\ uiChoices < MaxChoices /\ n = uiChoices + 1
  /\ uiChoices' = n
  /\ uiChosen' = [uiChosen EXCEPT ![k] = n]
  /\ uiLost' = uiLost \ {k}

-----------------------------------------------------------------------------
(* The two writers *)

\* persistPref, after the setter has shown the choice.
Persist(k, n) ==
  LET next == Over(Only(k, n), uiCache) IN
  /\ SetCache(next, [uiShown EXCEPT ![k] = n])
  /\ uiNet' = uiNet \cup {Put(n, next, FALSE, Nothing, FALSE)}

\* A setter of store/settings.ts, store/chat.ts, AppearancePane or setLanguage.
SetPref(k) ==
  \E n \in 2 .. MaxChoices :
    /\ Chosen(k, n) /\ Persist(k, n)
    /\ uiCalm' = (uiCalm /\ uiFetch = 0 /\ InFlight({"put", "failed", "ok"}) = {})
    /\ UNCHANGED <<uiRow, uiFetch, uiFetches, uiFaults>>

\* Mutant: the fetch under way is not cancelled.
MutantCancelled(fetch) == fetch
Cancelled(fetch) == 0

\* mutate of useUpdateUiSettings: onMutate, then mutationFn.
WriteSetting(k) ==
  \E n \in 2 .. MaxChoices :
    /\ Chosen(k, n)
    /\ uiFetch' = Cancelled(uiFetch)
    /\ LET next == Over(Only(k, n), uiCache) IN
       /\ SetCache(next, uiShown)
       /\ uiNet' = uiNet \cup {Put(n, next, TRUE, uiCache, uiCached)}
    /\ uiCalm' = (uiCalm /\ InFlight({"put", "failed", "ok"}) = {})
    /\ UNCHANGED <<uiRow, uiFetches, uiFaults>>

\* onError and onSettled.
WriteSettled(r) ==
  /\ r \in InFlight({"ok", "failed"})
  /\ IF r.kind = "failed" /\ r.had THEN SetCache(r.prev, uiShown)
                                   ELSE UNCHANGED <<uiCache, uiCached, uiShown, uiApplied>>
  /\ FetchPrefs
  /\ uiNet' = (uiNet \ {r}) \cup {Get(uiFetch')}
  /\ UNCHANGED <<uiRow, uiChoices, uiFaults, uiChosen, uiLost, uiCalm>>

-----------------------------------------------------------------------------
(* The server *)

\* Mutant: a PUT replaces the row; what it does not name gets its default.
MutantStored(body, row) == Over(body, [k \in Settings |-> 0])
\* write_ui: only the keys of the body.
Stored(body, row) == Over(body, row)

\* The choice a PUT was sent for.
Subject(r) == {k \in DOMAIN r.body : r.body[k] = r.n}
Reply(r, ok) == IF r.mutation THEN {Answered(r, ok)} ELSE {}

PutArrives(r) ==
  /\ r \in InFlight({"put"})
  /\ uiRow' = Stored(r.body, uiRow)
  /\ uiNet' = (uiNet \ {r}) \cup Reply(r, TRUE)
  /\ UNCHANGED <<uiCache, uiCached, uiShown, uiApplied, uiFetch, uiFetches, uiChoices,
                 uiFaults, uiChosen, uiLost, uiCalm>>

\* The request or its answer is lost, or write_ui fails and reports ok: FALSE
\* with status 200, which the mutation takes for success.
PutFails(r) ==
  /\ r \in InFlight({"put"}) /\ uiFaults < MaxFaults
  /\ uiFaults' = uiFaults + 1
  /\ \E stored, ok \in BOOLEAN :
       /\ ~ (stored /\ ok)
       /\ uiRow' = IF stored THEN Stored(r.body, uiRow) ELSE uiRow
       /\ uiNet' = (uiNet \ {r}) \cup Reply(r, ok)
  /\ uiLost' = uiLost \cup Subject(r)
  /\ UNCHANGED <<uiCache, uiCached, uiShown, uiApplied, uiFetch, uiFetches, uiChoices,
                 uiChosen, uiCalm>>

\* A component that reads the settings is mounted when they are stale.
Refetch ==
  /\ uiFetch = 0 /\ uiFetches < MaxFetches
  /\ FetchPrefs
  /\ uiNet' = uiNet \cup {Get(uiFetch')}
  /\ uiCalm' = (uiCalm /\ InFlight({"put", "failed", "ok"}) = {})
  /\ UNCHANGED <<uiRow, uiCache, uiCached, uiShown, uiApplied, uiChoices, uiFaults,
                 uiChosen, uiLost>>

\* read_ui; it answers an empty object when the database fails.
GetArrives(r) ==
  /\ r \in InFlight({"get"})
  /\ \/ uiNet' = (uiNet \ {r}) \cup {Got(r.n, uiRow)} /\ UNCHANGED uiFaults
     \/ /\ uiFaults < MaxFaults /\ uiFaults' = uiFaults + 1
        /\ uiNet' = (uiNet \ {r}) \cup {Got(r.n, Nothing)}
  /\ UNCHANGED <<uiRow, uiCache, uiCached, uiShown, uiApplied, uiFetch, uiFetches,
                 uiChoices, uiChosen, uiLost, uiCalm>>

\* The answer to a fetch that was cancelled or replaced is dropped.
GotArrives(r) ==
  /\ r \in InFlight({"got"})
  /\ uiNet' = uiNet \ {r}
  /\ IF r.n = uiFetch
     THEN SetCache(r.body, uiShown) /\ uiFetch' = 0
     ELSE UNCHANGED <<uiCache, uiCached, uiShown, uiApplied, uiFetch>>
  /\ UNCHANGED <<uiRow, uiFetches, uiChoices, uiFaults, uiChosen, uiLost, uiCalm>>

GetFails(r) ==
  /\ r \in InFlight({"get"}) /\ uiFaults < MaxFaults
  /\ uiFaults' = uiFaults + 1
  /\ uiNet' = uiNet \ {r}
  /\ uiFetch' = IF r.n = uiFetch THEN 0 ELSE uiFetch
  /\ UNCHANGED <<uiRow, uiCache, uiCached, uiShown, uiApplied, uiFetches, uiChoices,
                 uiChosen, uiLost, uiCalm>>

NextPreferences ==
  \/ \E k \in Picked : SetPref(k)
  \/ \E k \in Written : WriteSetting(k)
  \/ \E r \in uiNet : WriteSettled(r) \/ PutArrives(r) \/ PutFails(r)
                      \/ GetArrives(r) \/ GotArrives(r) \/ GetFails(r)
  \/ Refetch

SpecPreferences == InitPreferences /\ [][NextPreferences]_uiVars

-----------------------------------------------------------------------------
(* Properties *)

\* What the user picked on this page stays applied: neither the first answer of
\* the server, nor a later one, nor a rollback puts another value in its place.
\* Settings picked before the first answer depend on persistPref filling the
\* cache (api/prefs.ts:28-31) and on PrefsSync applying once.
ChoiceShown == \A k \in Picked : uiChosen[k] > 1 => uiShown[k] = uiChosen[k]

\* A write that no earlier request can undo is stored, and it leaves what other
\* writers chose alone, also what was never in the cache and what was cached
\* while a write failed: writers that send the whole cache do not overwrite each
\* other (api/prefs.ts:10-11, api/usersettings.ts:51-53).
CalmWritesStored ==
  uiCalm /\ uiNet = {} => \A k \in Settings \ uiLost : uiRow[k] = uiChosen[k]
=============================================================================
