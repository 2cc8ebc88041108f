----------------------------- MODULE ProviderSetup -----------------------------
(***************************************************************************)
(* The dialog that adds models of a provider: choose the provider, for xAI *)
(* perhaps in OAuth mode, enter a key or log in by device code, fetch the  *)
(* provider's models, select some and add them.                            *)
(*                                                                         *)
(* Each provider has one model, named by the provider, so that a model     *)
(* shows whose list it came from.  A login is numbered; its device code,   *)
(* its access token and its refresh token carry that number.  A mutate     *)
(* call's callbacks run only if no later call of the same hook was made,   *)
(* and only while the component is mounted.                                *)
(***************************************************************************)
EXTENDS Integers

CONSTANTS
  Others,     \* the providers that have no second mode
  MaxLogins,  \* bound: device codes issued
  MaxPolls,   \* bound: polls sent
  MaxSteps    \* bound: choices of a provider or mode, and fetches

Xai == "xai"
XaiOauthId == "xai_oauth"
Owners == Others \cup {Xai, XaiOauthId}

ASSUME OthersAssumption == {Xai, XaiOauthId} \cap Others = {} /\ Others # {}
ASSUME ProviderBounds == MaxLogins \in Nat /\ MaxPolls \in Nat /\ MaxSteps \in Nat

VARIABLES
  xiPhase, xiCode,  \* phase and data.device_code of the login; 0: none
  xiStart,          \* start.mutate is pending, and its callbacks would run
  xiPolls,          \* polls under way
  xiGranted,        \* xAI: codes the user granted
  xiRedeemed,       \* xAI: codes that were exchanged, and may not be again
  xiReached,        \* codes whose tokens reached the page
  xiLogins, xiPolled,
  xiOverlap         \* a poll was sent before the one before it was answered
xiVars == <<xiPhase, xiCode, xiStart, xiPolls, xiGranted, xiRedeemed, xiReached, xiLogins,
            xiPolled, xiOverlap>>

VARIABLES
  prProvider, prOauth,  \* the drop-down and the switch
  prLogin,              \* oauthTokens and the api_key that came with them
  prFound,              \* discovered: whose list, or none
  prPicked,             \* selected
  prFetch,              \* discover: whose list is asked for, or none
  prSaves, prSaving,    \* bulk saves sent; whether the last one is pending
  prSteps,
  prMoved               \* the provider was changed since the list was asked for
prVars == <<prProvider, prOauth, prLogin, prFound, prPicked, prFetch, prSaves, prSaving, prSteps,
            prMoved>>
setupVars == <<xiVars, prVars>>

NoOne == "none"
Effective == IF prProvider = Xai /\ prOauth THEN XaiOauthId ELSE prProvider
LoginShown == Effective = XaiOauthId

InitSetup ==
  /\ xiPhase = "idle" /\ xiCode = 0 /\ xiStart = FALSE /\ xiPolls = {}
  /\ xiGranted = {} /\ xiRedeemed = {} /\ xiReached = {}
  /\ xiLogins = 0 /\ xiPolled = 0 /\ xiOverlap = FALSE
  /\ prProvider = Xai /\ prOauth = FALSE /\ prLogin = 0
  /\ prFound = NoOne /\ prPicked = {} /\ prFetch = NoOne /\ prSaves = {} /\ prSaving = FALSE
  /\ prSteps = 0 /\ prMoved = FALSE

-----------------------------------------------------------------------------
(* xAI *)

\* The user grants a code that is shown (or was), in another window.
Grant(c) ==
  /\ c \in 1 .. xiLogins /\ c \notin xiGranted
  /\ xiGranted' = xiGranted \cup {c}
  /\ UNCHANGED <<xiPhase, xiCode, xiStart, xiPolls, xiRedeemed, xiReached, xiLogins, xiPolled,
                 xiOverlap, prVars>>

\* The token endpoint: a granted code is exchanged once.
Exchange(p) ==
  /\ p \in xiPolls /\ p.answer = "none"
  /\ LET code == p.code
         answer == IF code \in xiRedeemed THEN "error"
                   ELSE IF code \in xiGranted THEN "complete" ELSE "pending"
     IN /\ xiPolls' = (xiPolls \ {p}) \cup {[p EXCEPT !.answer = answer]}
        /\ xiRedeemed' = IF answer = "complete" THEN xiRedeemed \cup {code} ELSE xiRedeemed
  /\ UNCHANGED <<xiPhase, xiCode, xiStart, xiGranted, xiReached, xiLogins, xiPolled, xiOverlap,
                 prVars>>

\* The code expired, or the user refused.
Expire(p) ==
  /\ p \in xiPolls /\ p.answer = "none" /\ p.code \notin xiGranted
  /\ xiPolls' = (xiPolls \ {p}) \cup {[p EXCEPT !.answer = "error"]}
  /\ UNCHANGED <<xiPhase, xiCode, xiStart, xiGranted, xiRedeemed, xiReached, xiLogins, xiPolled,
                 xiOverlap, prVars>>

-----------------------------------------------------------------------------
(* XaiOauthLogin *)

\* The button is there until a code is shown, and again after an error.
LoginOffered == LoginShown /\ ~ xiStart /\ xiPhase \in {"idle", "error"}

Begin ==
  /\ LoginOffered
  /\ xiPhase' = "waiting" /\ xiCode' = 0 /\ xiStart' = TRUE
  /\ UNCHANGED <<xiPolls, xiGranted, xiRedeemed, xiReached, xiLogins, xiPolled, xiOverlap, prVars>>

Started ==
  /\ xiStart /\ xiLogins < MaxLogins
  /\ xiStart' = FALSE
  /\ xiLogins' = xiLogins + 1 /\ xiCode' = xiLogins'
  /\ UNCHANGED <<xiPhase, xiPolls, xiGranted, xiRedeemed, xiReached, xiPolled, xiOverlap, prVars>>

StartFails ==
  /\ xiStart /\ xiStart' = FALSE /\ xiPhase' = "error"
  /\ UNCHANGED <<xiCode, xiPolls, xiGranted, xiRedeemed, xiReached, xiLogins, xiPolled, xiOverlap,
                 prVars>>

\* Mutant: the interval and its handlers outlive the login.
MutantPolling == xiPhase \in {"waiting", "done"} /\ xiCode # 0
\* The effect that polls is in place; its cleanup sets settled.
Polling == xiPhase = "waiting" /\ xiCode # 0

\* The interval: one poll more, whose callbacks replace those of the last one.
Tick ==
  /\ Polling /\ xiPolled < MaxPolls
  /\ xiPolled' = xiPolled + 1
  /\ xiPolls' = {[p EXCEPT !.live = FALSE] : p \in xiPolls}
       \cup {[n |-> xiPolled', code |-> xiCode, answer |-> "none", live |-> TRUE]}
  /\ xiOverlap' = (xiOverlap \/ \E p \in xiPolls : p.live)
  /\ UNCHANGED <<xiPhase, xiCode, xiStart, xiGranted, xiRedeemed, xiReached, xiLogins, prVars>>

\* A failed poll has no handler: the next tick asks again.
PollLost(p) ==
  /\ p \in xiPolls /\ xiPolls' = xiPolls \ {p}
  /\ UNCHANGED <<xiPhase, xiCode, xiStart, xiGranted, xiRedeemed, xiReached, xiLogins, xiPolled,
                 xiOverlap, prVars>>

Heard(p) == p.live /\ Polling /\ p.code = xiCode

PollAnswered(p) ==
  /\ p \in xiPolls /\ p.answer \in {"pending", "error"}
  /\ xiPolls' = xiPolls \ {p}
  /\ xiPhase' = IF p.answer = "error" /\ Heard(p) THEN "error" ELSE xiPhase
  /\ UNCHANGED <<xiCode, xiStart, xiGranted, xiRedeemed, xiReached, xiLogins, xiPolled, xiOverlap,
                 prVars>>

\* "complete": if it is heard, onXaiAuthenticated takes the tokens and fetches
\* the list with them, for whatever was asked before.
PollCompletes(p) ==
  /\ p \in xiPolls /\ p.answer = "complete"
  /\ xiPolls' = xiPolls \ {p}
  /\ xiReached' = xiReached \cup {p.code}
  /\ IF Heard(p)
     THEN /\ xiPhase' = "done"
          /\ prLogin' = p.code
          /\ prFound' = NoOne /\ prPicked' = {}
          /\ prFetch' = Effective /\ prMoved' = FALSE
     ELSE UNCHANGED <<xiPhase, prLogin, prFound, prPicked, prFetch, prMoved>>
  /\ UNCHANGED <<xiCode, xiStart, xiGranted, xiRedeemed, xiLogins, xiPolled, xiOverlap, prProvider,
                 prOauth, prSaves, prSaving, prSteps>>

-----------------------------------------------------------------------------
(* ProviderModelDialog *)

\* Of the dialog that adds models: the login or the fetch, the list, and the
\* button that adds what is selected.
AddControls ==
  {IF LoginShown THEN "login" ELSE "fetch"} \cup {c \in {"list"} : prFound # NoOne}
    \cup {c \in {"add"} : prPicked # {} /\ ~ prSaving}

\* A login widget that goes takes its state and its callbacks with it.
WidgetGone ==
  /\ xiPhase' = "idle" /\ xiCode' = 0 /\ xiStart' = FALSE
  /\ xiPolls' = {[p EXCEPT !.live = FALSE] : p \in xiPolls}
WidgetStays == UNCHANGED <<xiPhase, xiCode, xiStart, xiPolls>>

\* The drop-down and the switch keep everything else as it was.
Choose(provider, oauth) ==
  /\ prSteps < MaxSteps /\ prSteps' = prSteps + 1
  /\ <<provider, oauth>> # <<prProvider, prOauth>>
  /\ (provider = prProvider) \/ (oauth = (prOauth /\ provider = Xai))
  /\ oauth => provider = Xai
  /\ prProvider' = provider /\ prOauth' = oauth
  /\ prMoved' = TRUE
  /\ IF LoginShown THEN WidgetGone ELSE WidgetStays
  /\ UNCHANGED <<xiGranted, xiRedeemed, xiReached, xiLogins, xiPolled, xiOverlap, prLogin, prFound,
                 prPicked, prFetch, prSaves, prSaving>>

\* Mutant: what was selected survives a new fetch.
MutantClearPicked == UNCHANGED prPicked
ClearPicked == prPicked' = {}

\* onFetch; in OAuth mode there is no button.
FetchModels ==
  /\ "fetch" \in AddControls /\ prFetch = NoOne
  /\ prSteps < MaxSteps /\ prSteps' = prSteps + 1
  /\ prFound' = NoOne /\ ClearPicked
  /\ prFetch' = Effective /\ prMoved' = FALSE
  /\ UNCHANGED <<xiVars, prProvider, prOauth, prLogin, prSaves, prSaving>>

Discovered ==
  /\ prFetch # NoOne /\ prFetch' = NoOne
  /\ \/ prFound' = prFetch
     \/ UNCHANGED prFound  \* an error
  /\ UNCHANGED <<xiVars, prProvider, prOauth, prLogin, prPicked, prSaves, prSaving, prSteps,
                 prMoved>>

Toggle ==
  /\ "list" \in AddControls
  /\ prPicked' = IF prFound \in prPicked THEN prPicked \ {prFound} ELSE prPicked \cup {prFound}
  /\ UNCHANGED <<xiVars, prProvider, prOauth, prLogin, prFound, prFetch, prSaves, prSaving, prSteps,
                 prMoved>>

\* onAddSelected: the provider of now, the models selected, the tokens there are.
AddSelected ==
  /\ "add" \in AddControls
  /\ prSaving' = TRUE
  /\ prSaves' = prSaves \cup {[provider |-> Effective, ids |-> prPicked, login |-> prLogin,
                               moved |-> prMoved]}
  /\ UNCHANGED <<xiVars, prProvider, prOauth, prLogin, prFound, prPicked, prFetch, prSteps,
                 prMoved>>

\* Not every model could be saved: the dialog stays.
AddFails ==
  /\ prSaving /\ prSaving' = FALSE
  /\ UNCHANGED <<xiVars, prProvider, prOauth, prLogin, prFound, prPicked, prFetch, prSaves, prSteps,
                 prMoved>>

\* onClose, by hand or after every model was saved; the next dialog is new.
Close ==
  /\ xiPhase' = "idle" /\ xiCode' = 0 /\ xiStart' = FALSE
  /\ xiPolls' = {[p EXCEPT !.live = FALSE] : p \in xiPolls}
  /\ prProvider' = Xai /\ prOauth' = FALSE /\ prLogin' = 0
  /\ prFound' = NoOne /\ prPicked' = {} /\ prFetch' = NoOne /\ prMoved' = FALSE
  /\ prSaving' = FALSE
  /\ UNCHANGED <<xiGranted, xiRedeemed, xiReached, xiLogins, xiPolled, xiOverlap, prSaves, prSteps>>

NextSetup ==
  \/ \E c \in 1 .. MaxLogins : Grant(c)
  \/ \E p \in xiPolls : Exchange(p) \/ Expire(p) \/ PollLost(p) \/ PollAnswered(p)
                        \/ PollCompletes(p)
  \/ Begin \/ Started \/ StartFails \/ Tick
  \/ \E provider \in Others \cup {Xai}, oauth \in BOOLEAN : Choose(provider, oauth)
  \/ FetchModels \/ Discovered \/ Toggle \/ AddSelected \/ AddFails \/ Close

SpecSetup == InitSetup /\ [][NextSetup]_setupVars

-----------------------------------------------------------------------------
(* Properties *)

\* Models are added under the provider whose list they were selected from, and
\* an OAuth model with the tokens of a login that xAI granted, unless the
\* provider was changed after its list was asked for: the dialog then keeps
\* the list, the selection and the key (ProvidersPanel.tsx:533-537, 417-438).
AddedAsFetched ==
  \A s \in prSaves : ~ s.moved =>
    /\ s.ids = {s.provider}
    /\ s.provider = XaiOauthId => s.login \in xiRedeemed

\* A login whose tokens reached the page does not end in an error, if no poll
\* was sent before the one before it was answered (ProvidersPanel.tsx:177-186).
LoginIsTaken == xiPhase = "error" /\ ~ xiOverlap => xiCode \notin xiReached

\* The same without the condition, which is what the comment there says: a poll
\* that was already in flight cannot turn a login that succeeded into an error.
\* Does not hold: callbacks given to mutate run for the latest call only, so the
\* answer "complete" of a poll is not seen once the next poll was sent.
LoginSurvivesOverlap == xiPhase = "error" => xiCode \notin xiReached \/ xiCode = 0
=============================================================================
