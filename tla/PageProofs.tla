----------------------------- MODULE PageProofs -----------------------------
(***************************************************************************)
(* The page: each of its panels, for any names, files and settings, and    *)
(* any number of clicks, requests, losses and late answers; then all       *)
(* panels together, and all views, whose own proofs are in ViewProofs.     *)
(***************************************************************************)
EXTENDS PageViews, Panels, ViewProofs

-----------------------------------------------------------------------------
(* ProviderSetup *)

XiPolls == [n : Nat, code : Nat, answer : {"none", "pending", "complete", "error"}, live : BOOLEAN]

XiTypeOK ==
  /\ xiPhase \in {"idle", "waiting", "done", "error"} /\ xiStart \in BOOLEAN
  /\ xiLogins \in Nat /\ xiPolled \in Nat /\ xiOverlap \in BOOLEAN
  /\ xiCode \in 0 .. xiLogins /\ xiReached \subseteq 1 .. xiLogins
  /\ xiPolls \subseteq XiPolls /\ \A p \in xiPolls : p.code \in 1 .. xiLogins
  /\ \A p \in xiPolls : p.answer = "complete" => p.code \in xiRedeemed

\* While a login starts it has no code yet.  As long as no poll overlaps another, one
\* poll at most would be heard, which is of the code shown, and the tokens of that
\* code have only been taken.
LoginInv ==
  /\ xiStart => xiPhase = "waiting" /\ xiCode = 0
  /\ ~ xiOverlap =>
       /\ \A p, q \in xiPolls : p.live /\ q.live => p = q
       /\ \A p \in xiPolls : p.live => p.code = xiCode /\ xiPhase = "waiting"
       /\ \A p \in xiPolls : ~ p.live => p.code # xiCode
       /\ xiCode \in xiReached => xiPhase = "done"

\* What is asked for, found and selected is of the provider chosen, until another one
\* is chosen; in OAuth mode only after a login whose tokens came.
ListInv ==
  ~ prMoved =>
    /\ prFetch \in {NoOne, Effective} /\ prFound \in {NoOne, Effective}
    /\ prPicked \subseteq {Effective} /\ (prPicked # {} => prFound # NoOne)
    /\ LoginShown /\ (prFetch # NoOne \/ prFound # NoOne) => prLogin \in xiRedeemed
PsInv == XiTypeOK /\ LoginInv /\ prMoved \in BOOLEAN /\ ListInv /\ AddedAsFetched

-----------------------------------------------------------------------------
LEMMA SetupInitOK == InitSetup => PsInv
<1> SUFFICES ASSUME InitSetup PROVE PsInv
  OBVIOUS
<1>1. XiTypeOK
  <2>1. xiPolls = {} /\ xiReached = {} /\ xiCode = 0 /\ xiLogins = 0
    BY DEF InitSetup
  <2>2. xiCode \in 0 .. xiLogins
    BY <2>1
  <2>3. /\ xiPhase \in {"idle", "waiting", "done", "error"} /\ xiStart \in BOOLEAN
        /\ xiPolled \in Nat /\ xiOverlap \in BOOLEAN
    BY DEF InitSetup
  <2> QED  BY <2>1, <2>2, <2>3 DEF XiTypeOK
<1>2. LoginInv
  BY DEF InitSetup, LoginInv
<1>3. ListInv /\ prMoved \in BOOLEAN
  BY DEF InitSetup, ListInv
<1>4. AddedAsFetched
  BY DEF InitSetup, AddedAsFetched
<1> QED  BY <1>1, <1>2, <1>3, <1>4 DEF PsInv

\* The tokens that were exchanged stay so.
LEMMA ListStays ==
  ASSUME PsInv, xiRedeemed \subseteq xiRedeemed', UNCHANGED prVars
  PROVE  (prMoved \in BOOLEAN)' /\ ListInv' /\ AddedAsFetched'
  BY DEF PsInv, ListInv, AddedAsFetched, prVars, Effective, LoginShown

LEMMA XaiOK ==
  ASSUME PsInv, \/ \E c \in 1 .. MaxLogins : Grant(c)
                \/ \E p \in xiPolls : Exchange(p) \/ Expire(p)
  PROVE  PsInv'
<1>1. /\ xiRedeemed \subseteq xiRedeemed' /\ UNCHANGED prVars
      /\ UNCHANGED <<xiPhase, xiCode, xiStart, xiReached, xiLogins, xiPolled, xiOverlap>>
  BY DEF Grant, Exchange, Expire
<1>2. CASE \E c \in 1 .. MaxLogins : Grant(c)
  <2>1. UNCHANGED <<xiPolls, xiRedeemed>>
    BY <1>2 DEF Grant
  <2> QED  BY <1>1, <2>1, ListStays DEF PsInv, XiTypeOK, LoginInv
<1>3. CASE \E p \in xiPolls : Exchange(p) \/ Expire(p)
  <2>1. PICK p \in xiPolls : Exchange(p) \/ Expire(p)
    BY <1>3
  <2>2. PICK answer \in {"pending", "complete", "error"} :
          /\ xiPolls' = (xiPolls \ {p}) \cup {[p EXCEPT !.answer = answer]}
          /\ answer = "complete" => p.code \in xiRedeemed'
    BY <2>1 DEF Exchange, Expire
  <2> DEFINE to == [p EXCEPT !.answer = answer]
  <2>3. p \in XiPolls
    BY DEF PsInv, XiTypeOK
  <2>4. to \in XiPolls /\ to.code = p.code /\ to.live = p.live /\ to.answer = answer
    BY <2>3 DEF XiPolls
  <2> HIDE DEF to
  <2>5. xiPolls' = (xiPolls \ {p}) \cup {to}
    BY <2>2 DEF to
  <2>6. XiTypeOK'
    BY <1>1, <2>2, <2>4, <2>5 DEF PsInv, XiTypeOK
  <2>7. LoginInv'
    BY <1>1, <2>4, <2>5 DEF PsInv, LoginInv
  <2> QED  BY <1>1, <2>6, <2>7, ListStays DEF PsInv
<1> QED  BY <1>2, <1>3

LEMMA StartOK == ASSUME PsInv, Begin \/ Started \/ StartFails PROVE PsInv'
<1>1. UNCHANGED prVars /\ UNCHANGED <<xiPolls, xiRedeemed, xiReached, xiPolled, xiOverlap>>
  BY DEF Begin, Started, StartFails
<1>2. \A p \in xiPolls : p.code \in 1 .. xiLogins /\ p.live \in BOOLEAN
  BY DEF PsInv, XiTypeOK, XiPolls
<1>3. XiTypeOK' /\ LoginInv'
  <2>1. CASE Begin
    BY <1>1, <1>2, <2>1 DEF PsInv, XiTypeOK, LoginInv, Begin, LoginOffered
  <2>2. CASE Started
    <3>1. /\ xiStart /\ xiStart' = FALSE /\ xiLogins' = xiLogins + 1 /\ xiCode' = xiLogins + 1
          /\ xiPhase' = xiPhase
      BY <2>2 DEF Started
    <3>2. ~ xiOverlap => \A p \in xiPolls : ~ p.live
      BY <1>2, <3>1 DEF PsInv, LoginInv
    <3>3. xiLogins \in Nat /\ xiLogins' \in Nat
      BY <3>1 DEF PsInv, XiTypeOK
    <3>4. 1 .. xiLogins \subseteq 1 .. xiLogins' /\ xiCode' \in 0 .. xiLogins'
          /\ xiCode' \notin 1 .. xiLogins
      BY <3>1, <3>3
    <3>5. XiTypeOK'
      BY <1>1, <3>1, <3>3, <3>4 DEF PsInv, XiTypeOK
    <3>6. LoginInv'
      BY <1>1, <1>2, <3>1, <3>2, <3>4 DEF PsInv, XiTypeOK, LoginInv
    <3> QED  BY <3>5, <3>6
  <2>3. CASE StartFails
    <3>1. xiStart /\ xiStart' = FALSE /\ xiPhase' = "error" /\ UNCHANGED <<xiCode, xiLogins>>
      BY <2>3 DEF StartFails
    <3>2. xiCode = 0 /\ xiCode \notin xiReached
      BY <3>1 DEF PsInv, LoginInv, XiTypeOK
    <3>3. ~ xiOverlap => \A p \in xiPolls : ~ p.live
      BY <1>2, <3>2 DEF PsInv, LoginInv
    <3>4. XiTypeOK'
      BY <1>1, <3>1 DEF PsInv, XiTypeOK
    <3>5. LoginInv'
      BY <1>1, <3>1, <3>2, <3>3 DEF PsInv, LoginInv
    <3> QED  BY <3>4, <3>5
  <2> QED  BY <2>1, <2>2, <2>3
<1> QED  BY <1>1, <1>3, ListStays DEF PsInv

LEMMA TickOK == ASSUME PsInv, Tick PROVE PsInv'
<1> DEFINE new == [n |-> xiPolled', code |-> xiCode, answer |-> "none", live |-> TRUE]
           old(p) == [p EXCEPT !.live = FALSE]
<1>1. /\ xiPhase = "waiting" /\ xiCode # 0 /\ xiPolled' = xiPolled + 1
      /\ xiPolls' = {old(p) : p \in xiPolls} \cup {new}
      /\ xiOverlap' = (xiOverlap \/ \E p \in xiPolls : p.live)
      /\ UNCHANGED <<xiPhase, xiCode, xiStart, xiRedeemed, xiReached, xiLogins, prVars>>
  BY DEF Tick, Polling
<1>2. new \in XiPolls /\ new.code = xiCode /\ new.live = TRUE /\ new.answer = "none"
  BY <1>1 DEF XiPolls, PsInv, XiTypeOK
<1>3. \A p \in xiPolls : /\ old(p) \in XiPolls /\ old(p).code = p.code /\ old(p).live = FALSE
                         /\ old(p).answer = p.answer
  BY DEF XiPolls, PsInv, XiTypeOK
<1> HIDE DEF new, old
<1>4. XiTypeOK'
  BY <1>1, <1>2, <1>3 DEF PsInv, XiTypeOK
<1>5. LoginInv'
  <2>1. xiOverlap' \/ \A p \in xiPolls : ~ p.live
    BY <1>1
  <2> QED  BY <1>1, <1>2, <1>3, <2>1 DEF PsInv, LoginInv, XiTypeOK
<1> QED  BY <1>1, <1>4, <1>5, ListStays DEF PsInv

LEMMA PollEndsOK ==
  ASSUME PsInv, NEW p \in xiPolls, PollLost(p) \/ PollAnswered(p) PROVE PsInv'
<1>1. /\ xiPolls' = xiPolls \ {p} /\ xiPhase' \in {xiPhase, "error"}
      /\ xiPhase' # xiPhase => xiPhase = "waiting" /\ xiCode # 0 /\ p.live
      /\ UNCHANGED <<xiCode, xiStart, xiRedeemed, xiReached, xiLogins, xiPolled, xiOverlap, prVars>>
  BY DEF PollLost, PollAnswered, Heard, Polling
<1>2. XiTypeOK'
  BY <1>1 DEF PsInv, XiTypeOK
<1>3. LoginInv'
  BY <1>1 DEF PsInv, LoginInv
<1> QED  BY <1>1, <1>2, <1>3, ListStays DEF PsInv

LEMMA PollCompletesOK == ASSUME PsInv, NEW p \in xiPolls, PollCompletes(p) PROVE PsInv'
<1>1. /\ p.answer = "complete" /\ xiPolls' = xiPolls \ {p} /\ xiReached' = xiReached \cup {p.code}
      /\ UNCHANGED <<xiCode, xiStart, xiGranted, xiRedeemed, xiLogins, xiPolled, xiOverlap,
                     prProvider, prOauth, prSaves, prSaving, prSteps>>
  BY DEF PollCompletes
<1>2. p \in XiPolls /\ p.code \in 1 .. xiLogins /\ p.code \in xiRedeemed /\ p.live \in BOOLEAN
  BY <1>1 DEF PsInv, XiTypeOK, XiPolls
<1>3. AddedAsFetched'
  BY <1>1 DEF PsInv, AddedAsFetched
<1>4. CASE Heard(p)
  <2>1. /\ xiPhase' = "done" /\ prLogin' = p.code /\ prFound' = NoOne /\ prPicked' = {}
        /\ prFetch' = Effective /\ prMoved' = FALSE
    BY <1>4 DEF PollCompletes
  <2>2. XiTypeOK'
    BY <1>1, <1>2, <2>1 DEF PsInv, XiTypeOK
  <2>3. LoginInv'
    BY <1>1, <1>2, <1>4, <2>1 DEF PsInv, LoginInv, Heard, Polling, XiTypeOK
  <2>4. ListInv'
    BY <1>1, <1>2, <2>1 DEF ListInv, Effective, LoginShown
  <2> QED  BY <1>3, <2>1, <2>2, <2>3, <2>4 DEF PsInv
<1>5. CASE ~ Heard(p)
  <2>1. UNCHANGED <<xiPhase, prLogin, prFound, prPicked, prFetch, prMoved>>
    BY <1>5 DEF PollCompletes
  <2>2. XiTypeOK'
    BY <1>1, <1>2, <2>1 DEF PsInv, XiTypeOK
  <2>3. ~ xiOverlap => ~ p.live /\ p.code # xiCode
    BY <1>2, <1>5 DEF PsInv, LoginInv, Heard, Polling, XiTypeOK
  <2>4. LoginInv'
    BY <1>1, <2>1, <2>3 DEF PsInv, LoginInv
  <2>5. ListInv'
    BY <1>1, <2>1 DEF PsInv, ListInv, Effective, LoginShown
  <2> QED  BY <1>3, <2>1, <2>2, <2>4, <2>5 DEF PsInv
<1> QED  BY <1>4, <1>5

-----------------------------------------------------------------------------
\* A login widget that goes, and one that stays.
LEMMA WidgetOK ==
  ASSUME PsInv, WidgetGone \/ WidgetStays,
         UNCHANGED <<xiRedeemed, xiReached, xiLogins, xiPolled, xiOverlap>>
  PROVE  XiTypeOK' /\ LoginInv'
<1>1. CASE WidgetStays
  BY <1>1 DEF WidgetStays, PsInv, XiTypeOK, LoginInv
<1>2. CASE WidgetGone
  <2> DEFINE old(p) == [p EXCEPT !.live = FALSE]
  <2>1. xiPhase' = "idle" /\ xiCode' = 0 /\ xiStart' = FALSE /\ xiPolls' = {old(p) : p \in xiPolls}
    BY <1>2 DEF WidgetGone
  <2>2. \A p \in xiPolls : /\ old(p) \in XiPolls /\ old(p).code = p.code /\ old(p).live = FALSE
                           /\ old(p).answer = p.answer /\ p.code \in 1 .. xiLogins
    BY DEF XiPolls, PsInv, XiTypeOK
  <2> HIDE DEF old
  <2>3. XiTypeOK'
    <3>1. xiCode' \in 0 .. xiLogins'
      BY <2>1 DEF PsInv, XiTypeOK
    <3>2. /\ xiPolls' \subseteq XiPolls /\ \A p \in xiPolls' : p.code \in 1 .. xiLogins
          /\ \A p \in xiPolls' : p.answer = "complete" => p.code \in xiRedeemed
      BY <2>1, <2>2 DEF PsInv, XiTypeOK
    <3> QED  BY <2>1, <3>1, <3>2 DEF PsInv, XiTypeOK
  <2>4. LoginInv'
    BY <2>1, <2>2 DEF PsInv, LoginInv, XiTypeOK
  <2> QED  BY <2>3, <2>4
<1> QED  BY <1>1, <1>2

LEMMA ChooseOK ==
  ASSUME PsInv, (\E provider \in Others \cup {Xai}, oauth \in BOOLEAN : Choose(provider, oauth)) \/ Close
  PROVE  PsInv'
<1>1. /\ WidgetGone \/ WidgetStays
      /\ UNCHANGED <<xiRedeemed, xiReached, xiLogins, xiPolled, xiOverlap, prSaves>>
      /\ prMoved' \in BOOLEAN
      /\ ~ prMoved' => prFetch' = NoOne /\ prFound' = NoOne /\ prPicked' = {}
  BY DEF Choose, Close, WidgetGone
<1>2. XiTypeOK' /\ LoginInv'
  BY <1>1, WidgetOK
<1>3. ListInv' /\ AddedAsFetched'
  BY <1>1 DEF PsInv, ListInv, AddedAsFetched
<1> QED  BY <1>1, <1>2, <1>3 DEF PsInv

LEMMA SelectionOK ==
  ASSUME PsInv, FetchModels \/ Discovered \/ Toggle \/ AddFails PROVE PsInv'
<1>1. UNCHANGED <<xiVars, prProvider, prOauth, prLogin, prSaves>>
  BY DEF FetchModels, Discovered, Toggle, AddFails
<1>2. XiTypeOK' /\ LoginInv' /\ AddedAsFetched'
  BY <1>1 DEF xiVars, PsInv, XiTypeOK, LoginInv, AddedAsFetched
<1>3. prMoved' \in BOOLEAN
  BY DEF FetchModels, Discovered, Toggle, AddFails, PsInv
<1>4. ListInv'
  <2>0. Effective' = Effective /\ LoginShown' = LoginShown /\ UNCHANGED <<xiRedeemed, prLogin>>
    BY <1>1 DEF Effective, LoginShown, xiVars
  <2>1. CASE FetchModels
    <3>1. ~ LoginShown
      BY <2>1 DEF FetchModels, AddControls
    <3>2. prFetch' = Effective /\ prFound' = NoOne /\ prPicked' = {}
      BY <2>1 DEF FetchModels, ClearPicked
    <3> QED  BY <2>0, <3>1, <3>2 DEF ListInv
  <2>2. CASE Discovered
    BY <2>0, <2>2 DEF Discovered, PsInv, ListInv
  <2>3. CASE Toggle
    <3>1. prFound # NoOne
      BY <2>3 DEF Toggle, AddControls
    <3> QED  BY <2>0, <2>3, <3>1 DEF Toggle, PsInv, ListInv
  <2>4. CASE AddFails
    BY <2>0, <2>4 DEF AddFails, PsInv, ListInv
  <2> QED  BY <2>1, <2>2, <2>3, <2>4
<1> QED  BY <1>2, <1>3, <1>4 DEF PsInv

LEMMA AddSelectedOK == ASSUME PsInv, AddSelected PROVE PsInv'
<1>1. /\ UNCHANGED <<xiVars, prProvider, prOauth, prLogin, prFound, prPicked, prFetch, prMoved>>
      /\ prSaves' = prSaves \cup {[provider |-> Effective, ids |-> prPicked, login |-> prLogin,
                                   moved |-> prMoved]}
  BY DEF AddSelected
<1>2. prPicked # {}
  BY DEF AddSelected, AddControls
<1>3. XiTypeOK' /\ LoginInv' /\ ListInv' /\ prMoved' \in BOOLEAN
  BY <1>1 DEF xiVars, PsInv, XiTypeOK, LoginInv, ListInv, Effective, LoginShown
<1>4. ~ prMoved => prPicked = {Effective} /\ (Effective = XaiOauthId => prLogin \in xiRedeemed)
  BY <1>2 DEF PsInv, ListInv, LoginShown
<1>5. AddedAsFetched'
  BY <1>1, <1>4 DEF xiVars, PsInv, AddedAsFetched
<1> QED  BY <1>3, <1>5 DEF PsInv

LEMMA SetupStepOK == PsInv /\ [NextSetup]_setupVars => PsInv'
<1> SUFFICES ASSUME PsInv, [NextSetup]_setupVars PROVE PsInv'
  OBVIOUS
<1>1. CASE \/ \E c \in 1 .. MaxLogins : Grant(c)
           \/ \E p \in xiPolls : Exchange(p) \/ Expire(p)
  BY <1>1, XaiOK
<1>2. CASE \E p \in xiPolls : PollLost(p) \/ PollAnswered(p) \/ PollCompletes(p)
  BY <1>2, PollEndsOK, PollCompletesOK
<1>3. CASE Begin \/ Started \/ StartFails \/ Tick
  BY <1>3, StartOK, TickOK
<1>4. CASE \/ \E provider \in Others \cup {Xai}, oauth \in BOOLEAN : Choose(provider, oauth)
           \/ Close
  BY <1>4, ChooseOK
<1>5. CASE FetchModels \/ Discovered \/ Toggle \/ AddFails \/ AddSelected
  BY <1>5, SelectionOK, AddSelectedOK
<1>6. CASE UNCHANGED setupVars
  BY <1>6 DEF setupVars, xiVars, prVars, PsInv, XiTypeOK, LoginInv, ListInv, AddedAsFetched,
     Effective, LoginShown
<1> QED  BY <1>1, <1>2, <1>3, <1>4, <1>5, <1>6 DEF NextSetup

\* A login whose tokens reached the page does not end in an error, if no poll was sent
\* before the one before it was answered: for any logins, lost polls, expired codes and
\* changes of the provider (XaiOauthLogin).
THEOREM LoginsAreTaken == SpecSetup => []LoginIsTaken
<1>1. PsInv => LoginIsTaken
  BY DEF PsInv, LoginInv, LoginIsTaken
<1> QED  BY <1>1, SetupInitOK, SetupStepOK, PTL DEF SpecSetup

\* Models are added under the provider whose list they were selected from, an OAuth
\* model with tokens that were exchanged, for any providers and late answers, unless
\* the provider was changed after the list was asked for (onAddSelected).
THEOREM ModelsAddedAsFetched == SpecSetup => []AddedAsFetched
<1>1. PsInv => AddedAsFetched
  BY DEF PsInv
<1> QED  BY <1>1, SetupInitOK, SetupStepOK, PTL DEF SpecSetup

-----------------------------------------------------------------------------
(* ModelList *)

MlRequests ==
  {r \in [kind : {"test", "delete", "save"}, n : Nat, model : Models, deployment : Nat, label : Nat,
           live : BOOLEAN, at : {"sent", "probed", "done", "refetch"}, ok : BOOLEAN] :
     r.kind = "test" => r.at # "refetch"}
MlRowSet == [deployment : Nat, label : Nat, flag : Nat]

MlDialogs ==
  [model : Models \cup {NoModel}, deployment : Nat, switched : Nat, listed : BOOLEAN]

MlTypeOK ==
  /\ mlRows \in [Models -> MlRowSet] /\ mlList \in [Models -> Nat]
  /\ mlDialog \in MlDialogs
  /\ mlTesting \in Models \cup {NoModel} /\ mlCalls \in Nat /\ mlOverlap \in BOOLEAN
  /\ mlNet \subseteq MlRequests

\* A probe under way knows the deployment its row has, if the row is still there.
FlagInv ==
  ~ mlOverlap =>
    /\ \A m \in Models : mlRows[m].flag \in {0, mlRows[m].deployment}
    /\ \A r \in mlNet : r.kind = "test" /\ r.at = "probed" =>
         mlRows[r.model].deployment \in {0, r.deployment}

LiveTests == {t \in mlNet : t.kind = "test" /\ t.live}

\* One call's callbacks live at a time, and the button is its.
TestInv ==
  /\ \A a, b \in LiveTests : a = b
  /\ \A a \in LiveTests : a.model = mlTesting
  /\ mlTesting # NoModel => LiveTests # {}
MlInv == MlTypeOK /\ FlagInv /\ TestInv

-----------------------------------------------------------------------------
LEMMA ModelsInitOK == InitModels => MlInv
<1> SUFFICES ASSUME InitModels PROVE MlInv
  OBVIOUS
<1>1. NoModelRow \in MlRowSet /\ NoModelDialog \in MlDialogs
  BY DEF NoModelRow, MlRowSet, NoModelDialog, MlDialogs
<1>2. MlTypeOK
  BY <1>1 DEF InitModels, MlTypeOK, MlRowSet
<1>3. FlagInv
  BY DEF InitModels, FlagInv, NoModelRow
<1>4. TestInv
  BY DEF InitModels, TestInv, LiveTests
<1> QED  BY <1>2, <1>3, <1>4 DEF MlInv

\* What sending a call does to the requests.
LEMMA ModelCallOK ==
  ASSUME MlTypeOK, NEW kind \in {"test", "delete", "save"}, NEW m \in Models, ModelCall(kind, m)
  PROVE  /\ mlNet' \subseteq MlRequests /\ mlCalls' \in Nat
         /\ \A r \in mlNet' : r.kind = "test" /\ r.at = "probed" =>
              \E q \in mlNet : q.kind = "test" /\ q.at = "probed" /\ q.model = r.model
                               /\ q.deployment = r.deployment
         /\ kind # "test" => LiveTests' = LiveTests
         /\ kind = "test" => \E a : a.model = m /\ LiveTests' = {a}
<1> DEFINE old(r) == [r EXCEPT !.live = @ /\ r.kind # kind]
           new == [kind |-> kind, n |-> mlCalls', model |-> m, deployment |-> mlDialog.deployment,
                   label |-> mlDialog.switched, live |-> TRUE, at |-> "sent", ok |-> TRUE]
<1>1. mlNet' = {old(r) : r \in mlNet} \cup {new}
  BY DEF ModelCall
<1>2. mlCalls' \in Nat /\ new \in MlRequests
  BY DEF ModelCall, MlTypeOK, MlRequests, MlDialogs
<1>3. ASSUME NEW r \in mlNet
      PROVE  /\ old(r) \in MlRequests /\ old(r).kind = r.kind /\ old(r).at = r.at
             /\ old(r).model = r.model /\ old(r).deployment = r.deployment
             /\ old(r).live = (r.live /\ r.kind # kind)
             /\ r.kind # kind => old(r) = r
  BY <1>3 DEF MlTypeOK, MlRequests
<1>4. new.kind = kind /\ new.at = "sent" /\ new.live = TRUE /\ new.model = m
  OBVIOUS
<1> HIDE DEF old, new
<1>5. mlNet' \subseteq MlRequests
  BY <1>1, <1>2, <1>3
<1>6. \A r \in mlNet' : r.kind = "test" /\ r.at = "probed" =>
        \E q \in mlNet : q.kind = "test" /\ q.at = "probed" /\ q.model = r.model
                         /\ q.deployment = r.deployment
  BY <1>1, <1>3, <1>4
<1>7. kind # "test" => LiveTests' = LiveTests
  <2> SUFFICES ASSUME kind # "test" PROVE LiveTests' = LiveTests
    OBVIOUS
  <2>1. ASSUME NEW r \in LiveTests' PROVE r \in LiveTests
    <3>1. r \in mlNet' /\ r.kind = "test" /\ r.live
      BY <2>1 DEF LiveTests
    <3>2. PICK q \in mlNet : r = old(q)
      BY <1>1, <1>4, <3>1
    <3> QED  BY <1>3, <3>1, <3>2 DEF LiveTests
  <2>2. ASSUME NEW r \in LiveTests PROVE r \in LiveTests'
    <3>1. r \in mlNet /\ r.kind = "test" /\ r.live /\ old(r) = r
      BY <1>3, <2>2 DEF LiveTests
    <3>2. r \in mlNet'
      BY <1>1, <3>1
    <3> QED  BY <3>1, <3>2 DEF LiveTests
  <2> QED  BY <2>1, <2>2
<1>8. kind = "test" => LiveTests' = {new}
  <2> SUFFICES ASSUME kind = "test" PROVE LiveTests' = {new}
    OBVIOUS
  <2>1. new \in LiveTests'
    BY <1>1, <1>4 DEF LiveTests
  <2>2. ASSUME NEW r \in LiveTests' PROVE r = new
    <3>1. r \in mlNet' /\ r.kind = "test" /\ r.live
      BY <2>2 DEF LiveTests
    <3> QED  BY <1>1, <1>3, <3>1
  <2> QED  BY <2>1, <2>2
<1> QED  BY <1>2, <1>4, <1>5, <1>6, <1>7, <1>8

LEMMA RunTestOK == ASSUME MlInv, NEW m \in Models, RunTest(m) PROVE MlInv'
<1>1. /\ mlNet' \subseteq MlRequests /\ mlCalls' \in Nat
      /\ \A r \in mlNet' : r.kind = "test" /\ r.at = "probed" =>
           \E q \in mlNet : q.kind = "test" /\ q.at = "probed" /\ q.model = r.model
                            /\ q.deployment = r.deployment
      /\ \E a : a.model = m /\ LiveTests' = {a}
  BY ModelCallOK DEF MlInv, RunTest
<1>2. MlTypeOK'
  BY <1>1 DEF MlInv, MlTypeOK, RunTest
<1>3. FlagInv'
  BY <1>1 DEF MlInv, FlagInv, RunTest
<1>4. TestInv'
  BY <1>1 DEF TestInv, RunTest
<1> QED  BY <1>2, <1>3, <1>4 DEF MlInv

LEMMA OtherCallOK ==
  ASSUME MlInv, (\E m \in Models : DeleteModel(m)) \/ SaveModel PROVE MlInv'
<1>1. \E kind \in {"delete", "save"}, m \in Models : ModelCall(kind, m)
  BY ModelBounds DEF DeleteModel, SaveModel, EditControls, MlInv, MlTypeOK, MlDialogs
<1>2. /\ mlNet' \subseteq MlRequests /\ mlCalls' \in Nat
      /\ \A r \in mlNet' : r.kind = "test" /\ r.at = "probed" =>
           \E q \in mlNet : q.kind = "test" /\ q.at = "probed" /\ q.model = r.model
                            /\ q.deployment = r.deployment
      /\ LiveTests' = LiveTests
  BY <1>1, ModelCallOK DEF MlInv
<1>3. UNCHANGED <<mlRows, mlList, mlDialog, mlTesting, mlOverlap>>
  BY DEF DeleteModel, SaveModel
<1>4. MlTypeOK'
  BY <1>2, <1>3 DEF MlInv, MlTypeOK
<1>5. FlagInv'
  BY <1>2, <1>3 DEF MlInv, FlagInv
<1>6. TestInv'
  BY <1>2, <1>3 DEF MlInv, TestInv
<1> QED  BY <1>4, <1>5, <1>6 DEF MlInv

LEMMA EditDialogOK ==
  ASSUME MlInv,
         \/ \E m \in Models : OpenEdit(m)
         \/ \E d \in Deployments : TypeDeployment(d) \/ PickForEdit(d)
         \/ FetchForEdit
  PROVE  MlInv'
<1>1. UNCHANGED <<mlRows, mlList, mlTesting, mlNet, mlCalls, mlOverlap>>
  BY DEF OpenEdit, TypeDeployment, PickForEdit, FetchForEdit, Dialog
<1>2. NoModelDialog \in MlDialogs
  BY DEF NoModelDialog, MlDialogs
<1>3. ASSUME NEW m \in Models, OpenEdit(m) PROVE mlDialog' \in MlDialogs
  <2>1. mlList[m] \in Nat
    BY DEF MlInv, MlTypeOK
  <2> QED  BY <1>2, <1>3, <2>1 DEF MlDialogs, OpenEdit, Dialog
<1>4. ASSUME NEW d \in Deployments, TypeDeployment(d) \/ PickForEdit(d)
      PROVE  mlDialog' \in MlDialogs
  <2>1. d \in Nat
    BY ModelBounds DEF Deployments
  <2> QED  BY <1>4, <2>1 DEF MlDialogs, MlInv, MlTypeOK, TypeDeployment, PickForEdit, Dialog
<1>5. ASSUME FetchForEdit PROVE mlDialog' \in MlDialogs
  <2>1. PICK ok \in BOOLEAN : mlDialog' = [mlDialog EXCEPT !.listed = ok, !.switched = 0]
    BY <1>5 DEF FetchForEdit, Dialog
  <2> QED  BY <2>1 DEF MlDialogs, MlInv, MlTypeOK
<1>6. MlTypeOK'
  BY <1>1, <1>3, <1>4, <1>5 DEF MlInv, MlTypeOK
<1>7. FlagInv' /\ TestInv'
  BY <1>1 DEF MlInv, FlagInv, TestInv, LiveTests
<1> QED  BY <1>6, <1>7 DEF MlInv

LEMMA CloseEditOK == ASSUME MlInv, CloseEdit PROVE MlInv'
<1> DEFINE old(r) == [r EXCEPT !.live = @ /\ r.kind # "save"]
<1>1. mlNet' = {old(r) : r \in mlNet}
  BY DEF CloseEdit
<1>2. UNCHANGED <<mlRows, mlList, mlTesting, mlCalls, mlOverlap>> /\ mlDialog' = NoModelDialog
  BY DEF CloseEdit, Dialog
<1>3. ASSUME NEW r \in mlNet
      PROVE  /\ old(r) \in MlRequests /\ old(r).kind = r.kind
             /\ r.kind = "test" => old(r) = r
  BY DEF MlInv, MlTypeOK, MlRequests
<1> HIDE DEF old
<1>4. MlTypeOK'
  BY <1>1, <1>2, <1>3 DEF MlInv, MlTypeOK, NoModelDialog, MlDialogs
<1>5. \A r : r.kind = "test" => (r \in mlNet' <=> r \in mlNet)
  BY <1>1, <1>3
<1>6. LiveTests' = LiveTests
  BY <1>5 DEF LiveTests
<1>7. FlagInv' /\ TestInv'
  BY <1>2, <1>5, <1>6 DEF MlInv, FlagInv, TestInv
<1> QED  BY <1>4, <1>7 DEF MlInv

-----------------------------------------------------------------------------
\* A request that is served, whatever becomes of it, is still its call's.
LEMMA ServedOK ==
  ASSUME MlInv, NEW r \in mlNet, NEW to \in MlRequests, Served(r, to),
         to.kind = r.kind, to.model = r.model, to.live = r.live
  PROVE  TestInv'
<1>1. mlNet' = (mlNet \ {r}) \cup {to} /\ mlTesting' = mlTesting
  BY DEF Served
<1>2. CASE r \in LiveTests
  <2>1. LiveTests' = {to}
    BY <1>1, <1>2 DEF LiveTests, MlInv, TestInv
  <2> QED  BY <1>1, <1>2, <2>1 DEF MlInv, TestInv
<1>3. CASE r \notin LiveTests
  <2>1. LiveTests' = LiveTests
    BY <1>1, <1>3 DEF LiveTests
  <2> QED  BY <1>1, <2>1 DEF MlInv, TestInv
<1> QED  BY <1>2, <1>3

LEMMA SaveArrivesOK == ASSUME MlInv, NEW r \in mlNet, SaveArrives(r) PROVE MlInv'
<1>1. PICK ok \in BOOLEAN :
        /\ Served(r, [r EXCEPT !.at = "done", !.ok = ok])
        /\ IF ok
           THEN /\ ModelRow(r.model, Saved(r))
                /\ mlOverlap' = (mlOverlap \/ \E t \in Of("test") :
                                                t.at = "probed" /\ t.model = r.model)
           ELSE UNCHANGED <<mlRows, mlOverlap>>
  BY DEF SaveArrives
<1> DEFINE to == [r EXCEPT !.at = "done", !.ok = ok]
<1>2. r \in MlRequests /\ r.kind = "save"
  BY DEF SaveArrives, Of, MlInv, MlTypeOK
<1>3. to \in MlRequests /\ to.kind = "save" /\ to.model = r.model /\ to.live = r.live
  BY <1>2 DEF MlRequests
<1>4. mlNet' = (mlNet \ {r}) \cup {to} /\ UNCHANGED <<mlList, mlDialog, mlTesting, mlCalls>>
  BY <1>1 DEF Served
<1> HIDE DEF to
<1>5. TestInv'
  BY <1>1, <1>2, <1>3, ServedOK DEF to
<1>6. \A t \in mlNet' : t.kind = "test" => t \in mlNet
  BY <1>3, <1>4
<1>7. CASE ~ ok
  BY <1>1, <1>3, <1>4, <1>5, <1>6, <1>7 DEF MlInv, MlTypeOK, FlagInv
<1>8. CASE ok
  <2>1. /\ mlRows' = [mlRows EXCEPT ![r.model] = Saved(r)]
        /\ mlOverlap' = (mlOverlap \/ \E t \in Of("test") : t.at = "probed" /\ t.model = r.model)
    BY <1>1, <1>8 DEF ModelRow
  <2>2. Saved(r) \in MlRowSet /\ Saved(r).flag = 0
    BY <1>2 DEF Saved, MlRowSet, MlRequests
  <2>3. r.model \in Models
    BY <1>2 DEF MlRequests
  <2>4. MlTypeOK'
    BY <1>3, <1>4, <2>1, <2>2 DEF MlInv, MlTypeOK
  <2>5. ASSUME ~ mlOverlap' PROVE ~ mlOverlap /\ \A t \in mlNet : t.kind = "test" /\ t.at = "probed" => t.model # r.model
    BY <2>1, <2>5 DEF Of
  <2>6. \A m \in Models : mlRows'[m] = IF m = r.model THEN Saved(r) ELSE mlRows[m]
    BY <2>1 DEF MlInv, MlTypeOK
  <2>7. \A t \in mlNet : t.model \in Models
    BY DEF MlInv, MlTypeOK, MlRequests
  <2>8. FlagInv'
    BY <1>6, <2>2, <2>5, <2>6, <2>7 DEF MlInv, FlagInv
  <2> QED  BY <1>5, <2>4, <2>8 DEF MlInv
<1> QED  BY <1>7, <1>8

LEMMA DeleteArrivesOK == ASSUME MlInv, NEW r \in mlNet, DeleteArrives(r) PROVE MlInv'
<1> DEFINE to == [r EXCEPT !.at = "done"]
<1>1. r \in MlRequests /\ r.kind = "delete" /\ r.model \in Models
  BY DEF DeleteArrives, Of, MlInv, MlTypeOK, MlRequests
<1>2. to \in MlRequests /\ to.kind = "delete" /\ to.model = r.model /\ to.live = r.live
  BY <1>1 DEF MlRequests
<1>3. /\ mlNet' = (mlNet \ {r}) \cup {to} /\ UNCHANGED <<mlList, mlDialog, mlTesting, mlCalls>>
      /\ Served(r, to)
      /\ mlOverlap' = mlOverlap /\ mlRows' = [mlRows EXCEPT ![r.model] = NoModelRow]
  BY DEF DeleteArrives, Served, ModelRow
<1> HIDE DEF to
<1>4. TestInv'
  BY <1>1, <1>2, <1>3, ServedOK
<1>5. NoModelRow \in MlRowSet /\ NoModelRow.flag = 0 /\ NoModelRow.deployment = 0
  BY DEF NoModelRow, MlRowSet
<1>6. MlTypeOK'
  BY <1>2, <1>3, <1>5 DEF MlInv, MlTypeOK
<1>7. \A m \in Models : mlRows'[m] = IF m = r.model THEN NoModelRow ELSE mlRows[m]
  BY <1>3 DEF MlInv, MlTypeOK
<1>8. \A t \in mlNet' : t.kind = "test" => t \in mlNet /\ t.model \in Models
  BY <1>2, <1>3 DEF MlInv, MlTypeOK, MlRequests
<1>9. FlagInv'
  BY <1>3, <1>5, <1>7, <1>8 DEF MlInv, FlagInv
<1> QED  BY <1>4, <1>6, <1>9 DEF MlInv

LEMMA ProbeArrivesOK == ASSUME MlInv, NEW r \in mlNet, ProbeArrives(r) PROVE MlInv'
<1> DEFINE d == mlRows[r.model].deployment
           to == [r EXCEPT !.at = IF d = 0 THEN "done" ELSE "probed", !.deployment = d]
<1>1. r \in MlRequests /\ r.kind = "test" /\ r.model \in Models
  BY DEF ProbeArrives, Of, MlInv, MlTypeOK, MlRequests
<1>2. d \in Nat
  BY <1>1 DEF MlInv, MlTypeOK, MlRowSet
<1>3. /\ to \in MlRequests /\ to.kind = r.kind /\ to.model = r.model /\ to.live = r.live
      /\ to.deployment = d
  BY <1>1, <1>2 DEF MlRequests
<1>4. /\ mlNet' = (mlNet \ {r}) \cup {to}
      /\ UNCHANGED <<mlRows, mlList, mlDialog, mlTesting, mlCalls, mlOverlap>>
      /\ Served(r, to)
  BY DEF ProbeArrives, Served
<1> HIDE DEF to
<1>5. TestInv'
  BY <1>3, <1>4, ServedOK
<1>6. MlTypeOK'
  BY <1>3, <1>4 DEF MlInv, MlTypeOK
<1>7. FlagInv'
  BY <1>3, <1>4 DEF MlInv, FlagInv
<1> QED  BY <1>5, <1>6, <1>7 DEF MlInv

LEMMA ProbeEndsOK == ASSUME MlInv, NEW r \in mlNet, ProbeEnds(r) PROVE MlInv'
<1> DEFINE to == [r EXCEPT !.at = "done"]
           row == [mlRows[r.model] EXCEPT !.flag = r.deployment]
<1>1. r \in MlRequests /\ r.kind = "test" /\ r.model \in Models /\ r.deployment \in Nat
      /\ r.at = "probed"
  BY DEF ProbeEnds, Of, MlInv, MlTypeOK, MlRequests
<1>2. to \in MlRequests /\ to.kind = r.kind /\ to.model = r.model /\ to.live = r.live
      /\ to.at = "done"
  BY <1>1 DEF MlRequests
<1>3. /\ mlNet' = (mlNet \ {r}) \cup {to}
      /\ UNCHANGED <<mlList, mlDialog, mlTesting, mlCalls, mlOverlap>>
      /\ Served(r, to)
      /\ \/ mlRows[r.model].deployment # 0 /\ mlRows' = [mlRows EXCEPT ![r.model] = row]
         \/ mlRows' = mlRows
  BY DEF ProbeEnds, Served, ModelRow
<1>4. /\ row \in MlRowSet /\ row.flag = r.deployment
      /\ row.deployment = mlRows[r.model].deployment
  BY <1>1 DEF MlInv, MlTypeOK, MlRowSet
<1> HIDE DEF to, row
<1>5. TestInv'
  BY <1>2, <1>3, ServedOK
<1>6. MlTypeOK'
  BY <1>2, <1>3, <1>4 DEF MlInv, MlTypeOK
<1>7. \A t \in mlNet' : t.kind = "test" /\ t.at = "probed" => t \in mlNet /\ t.model \in Models
  BY <1>2, <1>3 DEF MlInv, MlTypeOK, MlRequests
<1>8. CASE mlRows' = mlRows
  BY <1>3, <1>5, <1>6, <1>7, <1>8 DEF MlInv, FlagInv
<1>9. CASE mlRows[r.model].deployment # 0 /\ mlRows' = [mlRows EXCEPT ![r.model] = row]
  <2>1. \A m \in Models : mlRows'[m] = IF m = r.model THEN row ELSE mlRows[m]
    BY <1>9 DEF MlInv, MlTypeOK
  <2>2. ~ mlOverlap => mlRows[r.model].deployment = r.deployment
    BY <1>1, <1>9 DEF MlInv, FlagInv
  <2>3. FlagInv'
    BY <1>3, <1>4, <1>7, <2>1, <2>2 DEF MlInv, FlagInv
  <2> QED  BY <1>5, <1>6, <2>3 DEF MlInv
<1> QED  BY <1>3, <1>8, <1>9

-----------------------------------------------------------------------------
LEMMA ModelAnswersOK ==
  ASSUME MlInv, ModelsArrive \/ \E r \in mlNet : ModelAnswer(r) \/ ModelSettles(r)
  PROVE  MlInv'
<1>1. UNCHANGED <<mlRows, mlTesting, mlCalls, mlOverlap>>
  BY DEF ModelsArrive, ModelAnswer, ModelSettles
<1>2. mlNet' \subseteq MlRequests /\ \A t : t.kind = "test" => (t \in mlNet' <=> t \in mlNet)
  <2>1. CASE ModelsArrive
    BY <2>1 DEF ModelsArrive, MlInv, MlTypeOK
  <2>2. CASE \E r \in mlNet : ModelAnswer(r)
    <3>1. PICK r \in mlNet : ModelAnswer(r)
      BY <2>2
    <3>2. r \in MlRequests /\ r.kind # "test"
      BY <3>1 DEF ModelAnswer, MlInv, MlTypeOK
    <3>3. [r EXCEPT !.at = "refetch"] \in MlRequests /\ [r EXCEPT !.at = "refetch"].kind = r.kind
      BY <3>2 DEF MlRequests
    <3> QED  BY <3>1, <3>2, <3>3 DEF ModelAnswer, MlInv, MlTypeOK
  <2>3. CASE \E r \in mlNet : ModelSettles(r)
    <3>1. PICK r \in mlNet : ModelSettles(r)
      BY <2>3
    <3>2. r \in MlRequests /\ r.at = "refetch" /\ mlNet' = mlNet \ {r}
      BY <3>1 DEF ModelSettles, MlInv, MlTypeOK
    <3>3. r.kind # "test"
      BY <3>2 DEF MlRequests
    <3> QED  BY <3>2, <3>3 DEF MlInv, MlTypeOK
  <2> QED  BY <2>1, <2>2, <2>3
<1>3. mlDialog' \in {mlDialog, NoModelDialog}
  BY DEF ModelsArrive, ModelAnswer, ModelSettles
<1>4. mlList' \in [Models -> Nat]
  BY DEF ModelsArrive, ModelAnswer, ModelSettles, Deployed, MlInv, MlTypeOK, MlRowSet
<1>5. MlTypeOK'
  <2>1. NoModelDialog \in MlDialogs
    BY DEF NoModelDialog, MlDialogs
  <2>2. mlDialog' \in MlDialogs
    BY <1>3, <2>1 DEF MlInv, MlTypeOK
  <2> QED  BY <1>1, <1>2, <1>4, <2>2 DEF MlInv, MlTypeOK
<1>6. LiveTests' = LiveTests
  BY <1>2 DEF LiveTests
<1>7. FlagInv' /\ TestInv'
  BY <1>1, <1>2, <1>6 DEF MlInv, FlagInv, TestInv
<1> QED  BY <1>5, <1>7 DEF MlInv

LEMMA TestAnsweredOK ==
  ASSUME MlInv, NEW r \in mlNet, TestAnswer(r) \/ CallLost(r) PROVE MlInv'
<1>1. /\ UNCHANGED <<mlRows, mlList, mlDialog, mlCalls, mlOverlap>> /\ mlNet' = mlNet \ {r}
      /\ mlTesting' = IF r \in LiveTests THEN NoModel ELSE mlTesting
  BY DEF TestAnswer, CallLost, Of, LiveTests, Takes
<1>2. MlTypeOK' /\ FlagInv'
  BY <1>1 DEF MlInv, MlTypeOK, FlagInv
<1>3. LiveTests' = LiveTests \ {r}
  BY <1>1 DEF LiveTests
<1>4. TestInv'
  BY <1>1, <1>3 DEF MlInv, TestInv
<1> QED  BY <1>2, <1>4 DEF MlInv

LEMMA ModelsStepOK == MlInv /\ [NextModels]_mlVars => MlInv'
<1> SUFFICES ASSUME MlInv, [NextModels]_mlVars PROVE MlInv'
  OBVIOUS
<1>1. CASE (\E m \in Models : RunTest(m) \/ DeleteModel(m)) \/ SaveModel
  BY <1>1, RunTestOK, OtherCallOK
<1>2. CASE \/ \E m \in Models : OpenEdit(m)
           \/ \E d \in Deployments : TypeDeployment(d) \/ PickForEdit(d)
           \/ FetchForEdit \/ CloseEdit
  BY <1>2, EditDialogOK, CloseEditOK
<1>3. CASE \E r \in mlNet : SaveArrives(r) \/ DeleteArrives(r) \/ ProbeArrives(r) \/ ProbeEnds(r)
  BY <1>3, SaveArrivesOK, DeleteArrivesOK, ProbeArrivesOK, ProbeEndsOK
<1>4. CASE ModelsArrive \/ \E r \in mlNet : \/ ModelAnswer(r) \/ ModelSettles(r)
                                          \/ TestAnswer(r) \/ CallLost(r)
  BY <1>4, ModelAnswersOK, TestAnsweredOK
<1>5. CASE UNCHANGED mlVars
  BY <1>5 DEF mlVars, MlInv, MlTypeOK, FlagInv, TestInv, LiveTests
<1> QED  BY <1>1, <1>2, <1>3, <1>4, <1>5 DEF NextModels

\* The reasoning flag of a model was measured with the deployment it has: for any
\* models, edits, deletions, probes and lost requests (save_user_model,
\* _persist_reasoning_flag).
THEOREM FlagsAreMeasured == SpecModels => []FlagIsMeasured
<1>1. MlInv => FlagIsMeasured
  BY DEF MlInv, FlagInv, FlagIsMeasured
<1> QED  BY <1>1, ModelsInitOK, ModelsStepOK, PTL DEF SpecModels

\* The button says that a model is tested while and only while the answer to its
\* test is awaited, for any number of tests started one over the other (runTest).
THEOREM TestingTellsTheTest == SpecModels => []TestingIsAwaited
<1>1. MlInv => TestingIsAwaited
  <2> SUFFICES ASSUME MlInv PROVE TestingIsAwaited
    OBVIOUS
  <2>1. {r.model : r \in {t \in Of("test") : t.live}} = {r.model : r \in LiveTests}
    BY DEF Of, LiveTests
  <2>2. CASE mlTesting = NoModel
    <3>1. LiveTests = {}
      BY <2>2, ModelBounds DEF MlInv, MlTypeOK, MlRequests, TestInv, LiveTests
    <3> QED  BY <2>1, <2>2, <3>1 DEF TestingIsAwaited
  <2>3. CASE mlTesting # NoModel
    <3>1. {r.model : r \in LiveTests} = {mlTesting}
      BY <2>3 DEF MlInv, TestInv
    <3> QED  BY <2>1, <2>3, <3>1 DEF TestingIsAwaited
  <2> QED  BY <2>2, <2>3
<1> QED  BY <1>1, ModelsInitOK, ModelsStepOK, PTL DEF SpecModels

-----------------------------------------------------------------------------
(* WorkspaceDock *)

DockKinds == {"write", "create", "upload", "delete", "rename"}
DockRequests ==
  [kind : DockKinds, n : Nat, file : Places, to : DockPaths, text : Int, of : Places,
   live : BOOLEAN, at : {"sent", "done", "refetch"}]
DockEdits == [editing : BOOLEAN, draft : Int, of : Places]

WdTypeOK ==
  /\ wdDisk \in [Places -> Int] /\ wdCache \in [Places -> Int]
  /\ wdRoom \in Rooms /\ wdSel \in DockPaths \cup {Closed} /\ wdEdit \in DockEdits
  /\ wdTree \in [Rooms -> SUBSET DockPaths] /\ wdAsked \subseteq Keys /\ wdStale \subseteq Keys
  /\ wdNet \subseteq DockRequests /\ wdTold \in BOOLEAN /\ wdActs \in Nat
  /\ wdOdd \subseteq {"moved", "left"}

\* The draft is of the file in view, unless a late creation moved the view.
DraftInv ==
  "moved" \notin wdOdd =>
    /\ wdSel # Closed => wdEdit.of = Opened
    /\ \A q \in wdNet : q.kind = "write" => q.of = q.file

\* What a query has cached is what the server would answer.
Right(k) ==
  IF k[2] = TreeKey THEN wdTree[k[1]] = OnDisk(k[1])
  ELSE wdCache[k] = Unread \/ wdDisk[k] = NoFile \/ wdCache[k] = wdDisk[k]

\* Once the page knows of every write, what is not right is asked for, or will be when
\* it comes into view.
KnowsAll == wdTold /\ \A q \in wdNet : q.at # "done"
FreshInv ==
  /\ wdStale \cap InView(wdRoom, wdSel) = {}
  /\ KnowsAll => \A k \in Keys : k \in wdAsked \cup wdStale \/ Right(k)
WdInv == WdTypeOK /\ DraftInv /\ FreshInv

\* Two requests that differ in their callbacks only.
SameCall(q, o) == q.kind = o.kind /\ q.of = o.of /\ q.file = o.file /\ q.at = o.at /\ q.to = o.to

LEMMA DockPlaces ==
  /\ \A r \in Rooms, p \in DockPaths : <<r, p>> \in Places /\ <<r, p>> \in Keys
                                       /\ p # TreeKey /\ p # Closed
  /\ \A r \in Rooms : PathsOf(r) \subseteq DockPaths /\ <<r, TreeKey>> \in Keys
  /\ FirstRoom \in Rooms /\ FirstPath \in DockPaths
  /\ \A k \in Keys : k[1] \in Rooms /\ (k[2] # TreeKey => k \in Places)
<1>1. \A r \in Rooms : PathsOf(r) \subseteq DockPaths
  <2> SUFFICES ASSUME NEW r \in Rooms, NEW p \in PathsOf(r) PROVE p \in DockPaths
    OBVIOUS
  <2>1. <<r, p>> \in DockFiles
    BY DEF PathsOf
  <2> QED  BY <2>1 DEF DockPaths
<1>2. FirstRoom \in Rooms /\ FirstPath \in DockPaths
  <2>1. <<FirstRoom, FirstPath>> \in DockFiles
    BY DockAssumption
  <2> QED  BY <2>1, DockAssumption DEF DockPaths
<1>3. \A p \in DockPaths : p # TreeKey /\ p # Closed
  BY DockAssumption
<1> HIDE DEF DockPaths
<1>4. \A k \in Keys : k[1] \in Rooms /\ (k[2] # TreeKey => k \in Places)
  BY DEF Keys, Places
<1>5. \A r \in Rooms, p \in DockPaths : <<r, p>> \in Places /\ <<r, p>> \in Keys
  BY DEF Keys, Places
<1>6. \A r \in Rooms : <<r, TreeKey>> \in Keys
  BY DEF Keys
<1> QED  BY <1>1, <1>2, <1>3, <1>4, <1>5, <1>6

-----------------------------------------------------------------------------
LEMMA DockInitOK == InitDock => WdInv
<1> SUFFICES ASSUME InitDock PROVE WdInv
  OBVIOUS
<1>1. FirstRoom \in Rooms /\ <<FirstRoom, FirstPath>> \in Places
  BY DockPlaces
<1>2. wdEdit \in DockEdits
  BY <1>1 DEF InitDock, DockEdits, NoView
<1>3. wdAsked \subseteq Keys /\ wdStale \subseteq Keys
  BY <1>1, DockPlaces DEF InitDock
<1>4. wdDisk \in [Places -> Int] /\ wdCache \in [Places -> Int]
  BY DEF InitDock, NoFile, Unread
<1>5. WdTypeOK
  BY <1>1, <1>2, <1>3, <1>4 DEF InitDock, WdTypeOK
<1>6. DraftInv
  BY DEF InitDock, DraftInv
<1>7. wdStale \cap InView(wdRoom, wdSel) = {}
  BY DEF InitDock, InView
<1>8. \A k \in Keys : k \in wdAsked \cup wdStale \/ Right(k)
  <2> SUFFICES ASSUME NEW k \in Keys PROVE k \in wdAsked \cup wdStale \/ Right(k)
    OBVIOUS
  <2>1. CASE k[2] = TreeKey
    <3>1. k = <<k[1], TreeKey>> /\ k[1] \in Rooms
      BY <2>1 DEF Keys
    <3> QED  BY <3>1 DEF InitDock
  <2>2. CASE k[2] # TreeKey
    <3>1. k \in Places
      BY <2>2, DockPlaces
    <3> QED  BY <2>2, <3>1 DEF Right, InitDock
  <2> QED  BY <2>1, <2>2
<1> QED  BY <1>5, <1>6, <1>7, <1>8 DEF WdInv, FreshInv

-----------------------------------------------------------------------------
(* What moves the view *)

\* The view moves to a file or a chat: nothing that has to be asked is forgotten.
LEMMA LooksOK ==
  ASSUME WdTypeOK, NEW room \in Rooms, NEW sel \in DockPaths \cup {Closed},
         NEW stale \in SUBSET Keys, NEW net \in SUBSET DockRequests,
         Looks(room, sel, stale, net)
  PROVE  /\ wdRoom' = room /\ wdSel' = sel /\ wdEdit' \in DockEdits
         /\ wdNet' \subseteq DockRequests /\ \A q \in wdNet' : \E o \in net : SameCall(q, o)
         /\ \A o \in net : \E q \in wdNet' : SameCall(q, o)
         /\ wdAsked' \subseteq Keys /\ wdStale' \subseteq Keys
         /\ wdAsked \cup stale \subseteq wdAsked' \cup wdStale'
         /\ wdStale' \cap InView(room, sel) = {}
         /\ sel # Closed /\ (wdSel = Closed \/ (Opened = <<room, sel>> /\ wdEdit.of = Opened)) =>
              wdEdit'.of = <<room, sel>>
<1> DEFINE new == <<room, sel>>
           old(q) == [q EXCEPT !.live = @ /\ (q.kind # "write" \/ sel # Closed)]
<1>1. wdRoom' = room /\ wdSel' = sel /\ wdNet' = {old(q) : q \in net}
  BY DEF Looks
<1>2. ASSUME NEW q \in net PROVE old(q) \in DockRequests /\ SameCall(old(q), q)
  <2>1. q \in DockRequests
    OBVIOUS
  <2> QED  BY <2>1 DEF DockRequests, SameCall
<1>3. /\ wdNet' \subseteq DockRequests /\ \A q \in wdNet' : \E o \in net : SameCall(q, o)
      /\ \A o \in net : \E q \in wdNet' : SameCall(q, o)
  <2> HIDE DEF old
  <2> QED  BY <1>1, <1>2
<1>4. InView(room, sel) \subseteq Keys
  BY DockPlaces DEF InView
<1>5. wdAsked' \subseteq Keys /\ wdStale' \subseteq Keys
  BY <1>4 DEF Looks, WdTypeOK
<1>6. wdAsked \cup stale \subseteq wdAsked' \cup wdStale' /\ wdStale' \cap InView(room, sel) = {}
  BY DEF Looks
<1>7. wdEdit' = CASE sel = Closed -> NoView
                  [] sel # Closed /\ wdSel = Closed -> ViewOf(new)
                  [] OTHER -> IF wdCache[new] \in {Unread, wdCache[Opened]} THEN wdEdit
                              ELSE [wdEdit EXCEPT !.draft = wdCache[new], !.of = new]
  BY DEF Looks
<1>8. CASE sel = Closed
  <2>1. wdEdit' = NoView
    BY <1>7, <1>8
  <2>2. NoView \in DockEdits
    BY DockPlaces DEF NoView, DockEdits
  <2> QED  BY <1>1, <1>3, <1>5, <1>6, <1>8, <2>1, <2>2
<1>9. CASE sel # Closed
  <2>1. new \in Places /\ wdCache[new] \in Int
    BY <1>9, DockPlaces DEF WdTypeOK
  <2>2. CASE wdSel = Closed
    <3>1. wdEdit' = ViewOf(new)
      BY <1>7, <1>9, <2>2
    <3>2. ViewOf(new) \in DockEdits /\ ViewOf(new).of = new
      BY <2>1 DEF ViewOf, DockEdits, TextOf
    <3> QED  BY <1>1, <1>3, <1>5, <1>6, <3>1, <3>2
  <2>3. CASE wdSel # Closed
    <3>1. \/ wdEdit' = wdEdit
          \/ /\ wdEdit' = [wdEdit EXCEPT !.draft = wdCache[new], !.of = new]
             /\ wdCache[new] # wdCache[Opened]
      BY <1>7, <1>9, <2>3
    <3>2. wdEdit' \in DockEdits
      BY <2>1, <3>1 DEF WdTypeOK, DockEdits
    <3>3. Opened = new => wdEdit' = wdEdit
      BY <3>1
    <3> QED  BY <1>1, <1>3, <1>5, <1>6, <2>3, <3>2, <3>3
  <2> QED  BY <2>2, <2>3
<1> QED  BY <1>8, <1>9

\* The requests from which net was made: no save is new, and none is forgotten that
\* was served.
MadeOf(net) ==
  /\ net \subseteq DockRequests
  /\ \A q \in net : q.kind = "write" => \E o \in wdNet : SameCall(q, o)
  /\ \A o \in wdNet : o.at = "done" => \E q \in net : SameCall(q, o)

\* Such a move while nothing else changes.
LEMMA MoveOK ==
  ASSUME WdInv, NEW room \in Rooms, NEW sel \in DockPaths \cup {Closed}, NEW net, MadeOf(net),
         Looks(room, sel, wdStale, net), UNCHANGED <<wdDisk, wdTree, wdCache, wdTold>>,
         wdActs' \in Nat, wdOdd' \subseteq {"moved", "left"}, wdOdd \subseteq wdOdd',
         sel = Closed \/ wdSel = Closed \/ "moved" \in wdOdd'
  PROVE  WdInv'
<1>1. /\ wdRoom' = room /\ wdSel' = sel /\ wdEdit' \in DockEdits
      /\ wdNet' \subseteq DockRequests /\ \A q \in wdNet' : \E o \in net : SameCall(q, o)
      /\ \A o \in net : \E q \in wdNet' : SameCall(q, o)
      /\ wdAsked' \subseteq Keys /\ wdStale' \subseteq Keys
      /\ wdAsked \cup wdStale \subseteq wdAsked' \cup wdStale'
      /\ wdStale' \cap InView(room, sel) = {}
      /\ sel # Closed /\ wdSel = Closed => wdEdit'.of = <<room, sel>>
  <2>1. WdTypeOK /\ wdStale \in SUBSET Keys /\ net \in SUBSET DockRequests
    BY DEF WdInv, WdTypeOK, MadeOf
  <2> QED  BY <2>1, LooksOK
<1>2. WdTypeOK'
  BY <1>1 DEF WdInv, WdTypeOK
<1>3. \A q \in wdNet' : q.kind = "write" => \E o \in wdNet : q.of = o.of /\ q.file = o.file
                                                              /\ o.kind = "write"
  BY <1>1 DEF SameCall, MadeOf
<1>4. DraftInv'
  <2> SUFFICES ASSUME "moved" \notin wdOdd'
               PROVE  /\ wdSel' # Closed => wdEdit'.of = Opened'
                      /\ \A q \in wdNet' : q.kind = "write" => q.of = q.file
    BY DEF DraftInv
  <2>1. \A q \in wdNet : q.kind = "write" => q.of = q.file
    BY DEF WdInv, DraftInv
  <2> QED  BY <1>1, <1>3, <2>1 DEF Opened
<1>5. KnowsAll' => KnowsAll
  <2> SUFFICES ASSUME KnowsAll', NEW o \in wdNet, o.at = "done" PROVE FALSE
    BY DEF KnowsAll
  <2>1. PICK q \in net : SameCall(q, o)
    BY DEF MadeOf
  <2>2. PICK r \in wdNet' : SameCall(r, q)
    BY <1>1
  <2> QED  BY <2>1, <2>2 DEF KnowsAll, SameCall
<1>6. \A k : Right(k)' = Right(k)
  BY DEF Right, OnDisk
<1>7. FreshInv'
  BY <1>1, <1>5, <1>6 DEF WdInv, FreshInv, Right, OnDisk
<1> QED  BY <1>2, <1>4, <1>7 DEF WdInv

\* Everything that was ever fetched is asked for again: nothing is wrong and taken for
\* right, whatever the page did not know before.
LEMMA InvalidateOK ==
  ASSUME WdInv, NEW net, net \subseteq DockRequests,
         \A q \in net : q.kind = "write" => \E o \in wdNet : SameCall(q, o) \/ (o.kind = "write" /\ o.of = q.of /\ o.file = q.file),
         InvalidateAll(net), UNCHANGED <<wdDisk, wdTree, wdCache, wdActs>>, wdTold' \in BOOLEAN
  PROVE  WdInv'
<1>1. /\ wdRoom' = wdRoom /\ wdSel' = wdSel /\ wdEdit' \in DockEdits
      /\ wdNet' \subseteq DockRequests /\ \A q \in wdNet' : \E o \in net : SameCall(q, o)
      /\ wdAsked' \subseteq Keys /\ wdStale' \subseteq Keys
      /\ wdAsked \cup wdStale \cup Invalidated \subseteq wdAsked' \cup wdStale'
      /\ wdStale' \cap InView(wdRoom, wdSel) = {}
      /\ wdSel # Closed /\ wdEdit.of = Opened => wdEdit'.of = Opened
  <2>1. /\ WdTypeOK /\ wdStale \cup Invalidated \in SUBSET Keys /\ net \in SUBSET DockRequests
        /\ wdRoom \in Rooms /\ wdSel \in DockPaths \cup {Closed}
    BY DEF WdInv, WdTypeOK, Invalidated
  <2>2. Looks(wdRoom, wdSel, wdStale \cup Invalidated, net)
    BY DEF InvalidateAll
  <2>3. Opened = <<wdRoom, wdSel>>
    BY DEF Opened
  <2> HIDE DEF Invalidated
  <2> QED  BY <2>1, <2>2, <2>3, LooksOK
<1>2. wdOdd \subseteq wdOdd' /\ wdOdd' \subseteq {"moved", "left"}
  BY DEF InvalidateAll, WdInv, WdTypeOK
<1>3. WdTypeOK'
  BY <1>1, <1>2 DEF WdInv, WdTypeOK
<1>4. DraftInv'
  <2>1. \A q \in wdNet' : q.kind = "write" => \E o \in wdNet : q.of = o.of /\ q.file = o.file
                                                                /\ o.kind = "write"
    BY <1>1 DEF SameCall
  <2> QED  BY <1>1, <1>2, <2>1 DEF WdInv, DraftInv, Opened
<1>5. \A k \in Keys : k \in Invalidated \/ Right(k)'
  BY DEF Invalidated, Right
<1>6. FreshInv'
  BY <1>1, <1>5 DEF FreshInv
<1> QED  BY <1>3, <1>4, <1>6 DEF WdInv

-----------------------------------------------------------------------------
LEMMA NavigateOK ==
  ASSUME WdInv, \/ \E r \in Rooms : SwitchRoom(r)
                \/ \E p \in PathsOf(wdRoom) : OpenFile(p)
                \/ CloseFile
  PROVE  WdInv'
<1>1. MadeOf(wdNet)
  BY DEF MadeOf, SameCall, WdInv, WdTypeOK
<1>2. UNCHANGED <<wdDisk, wdTree, wdCache, wdTold, wdActs, wdOdd>>
  BY DEF SwitchRoom, OpenFile, CloseFile, wdBounds
<1>3. wdActs' \in Nat /\ wdOdd' \subseteq {"moved", "left"} /\ wdOdd \subseteq wdOdd'
  BY <1>2 DEF WdInv, WdTypeOK
<1>4. \E room \in Rooms, sel \in DockPaths \cup {Closed} :
        Looks(room, sel, wdStale, wdNet) /\ (sel = Closed \/ wdSel = Closed)
  <2>0. wdRoom \in Rooms
    BY DEF WdInv, WdTypeOK
  <2>1. CASE \E r \in Rooms : SwitchRoom(r)
    BY <2>1 DEF SwitchRoom, AfterSwitch
  <2>2. CASE \E p \in PathsOf(wdRoom) : OpenFile(p)
    <3>1. PICK p \in DockPaths : OpenFile(p)
      BY <2>0, <2>2, DockPlaces
    <3> QED  BY <2>0, <3>1 DEF OpenFile, RowControls
  <2>3. CASE CloseFile
    BY <2>0, <2>3 DEF CloseFile
  <2> QED  BY <2>1, <2>2, <2>3
<1> QED  BY <1>1, <1>2, <1>3, <1>4, MoveOK

\* What concerns the mounted view only.
LEMMA ViewStays ==
  ASSUME WdInv, wdEdit' \in DockEdits, wdEdit'.of \in {wdEdit.of, Opened}, wdNet' \subseteq DockRequests,
         \A q \in wdNet' : q.kind = "write" => \E o \in wdNet : SameCall(q, o),
         \A o \in wdNet : o.at = "done" => \E q \in wdNet' : SameCall(q, o),
         UNCHANGED <<wdDisk, wdRoom, wdSel, wdTree, wdCache, wdAsked, wdStale, wdTold, wdOdd>>,
         wdActs' \in Nat
  PROVE  WdInv'
<1>1. WdTypeOK'
  BY DEF WdInv, WdTypeOK
<1>2. DraftInv'
  BY DEF WdInv, DraftInv, SameCall, Opened
<1>3. KnowsAll' => KnowsAll
  BY DEF KnowsAll, SameCall
<1>4. FreshInv'
  BY <1>3 DEF WdInv, FreshInv, Right, OnDisk
<1> QED  BY <1>1, <1>2, <1>4 DEF WdInv

LEMMA ReopenOK == ASSUME WdInv, Reopen PROVE WdInv'
<1> DEFINE old(q) == [q EXCEPT !.live = @ /\ q.kind # "write"]
<1>1. /\ wdSel # Closed /\ wdEdit' = ViewOf(Opened) /\ wdNet' = {old(q) : q \in wdNet}
      /\ UNCHANGED <<wdDisk, wdRoom, wdSel, wdTree, wdCache, wdAsked, wdStale, wdTold, wdActs, wdOdd>>
  BY DEF Reopen, wdQueries
<1>2. \A q \in wdNet : old(q) \in DockRequests /\ SameCall(old(q), q)
  BY DEF WdInv, WdTypeOK, DockRequests, SameCall
<1> HIDE DEF old
<1>3. Opened \in Places /\ wdCache[Opened] \in Int
  BY <1>1, DockPlaces DEF WdInv, WdTypeOK, Opened
<1>4. wdEdit' \in DockEdits /\ wdEdit'.of = Opened
  BY <1>1, <1>3 DEF ViewOf, TextOf, DockEdits
<1>5. wdActs' \in Nat
  BY <1>1 DEF WdInv, WdTypeOK
<1> QED  BY <1>1, <1>2, <1>4, <1>5, ViewStays

LEMMA DockEditorOK == ASSUME WdInv, StartFileEdit \/ CancelEdit \/ EditText PROVE WdInv'
<1>1. UNCHANGED <<wdDisk, wdRoom, wdSel, wdTree, wdCache, wdAsked, wdStale, wdNet, wdTold, wdActs,
                  wdOdd>>
  BY DEF StartFileEdit, CancelEdit, EditText, DockPage, wdQueries, wdBounds
<1>2. wdSel # Closed
  BY DEF StartFileEdit, CancelEdit, EditText, ViewControls, Editable
<1>3. Opened \in Places /\ wdCache[Opened] \in Int
  BY <1>2, DockPlaces DEF WdInv, WdTypeOK, Opened
<1>4. wdEdit \in DockEdits /\ Typed \in Int
  BY DEF WdInv, WdTypeOK, Typed
<1>5. wdEdit' \in DockEdits /\ wdEdit'.of \in {wdEdit.of, Opened}
  <2>1. CASE StartFileEdit
    BY <1>4, <2>1 DEF StartFileEdit, DockPage, DockEdits
  <2>2. CASE CancelEdit
    BY <1>3, <2>2 DEF CancelEdit, DockPage, ViewOf, TextOf, DockEdits
  <2>3. CASE EditText
    BY <1>3, <1>4, <2>3 DEF EditText, DockPage, DockEdits
  <2> QED  BY <2>1, <2>2, <2>3
<1>6. wdNet' \subseteq DockRequests /\ wdActs' \in Nat /\ \A q : SameCall(q, q)
  BY <1>1 DEF WdInv, WdTypeOK, SameCall
<1> QED  BY <1>1, <1>5, <1>6, ViewStays

-----------------------------------------------------------------------------
(* Requests *)

\* What sending a call does to the requests.
LEMMA SentOK ==
  ASSUME WdInv, NEW kind \in DockKinds, NEW p \in DockPaths, NEW to \in DockPaths,
         NEW text \in Int, Act, kind = "write" /\ "moved" \notin wdOdd => wdEdit.of = <<wdRoom, p>>
  PROVE  /\ wdActs' \in Nat /\ Sent(kind, p, to, text) \subseteq DockRequests
         /\ \A o \in wdNet : \E q \in Sent(kind, p, to, text) : SameCall(q, o)
         /\ \A q \in Sent(kind, p, to, text) :
              \/ \E o \in wdNet : SameCall(q, o)
              \/ q.kind = kind /\ q.at = "sent" /\ q.of = wdEdit.of /\ q.file = <<wdRoom, p>>
<1> DEFINE old(q) == [q EXCEPT !.live = @ /\ ~ (kind = "create" /\ q.kind = "create")]
           new == [kind |-> kind, n |-> wdActs', file |-> <<wdRoom, p>>, to |-> to, text |-> text,
                   of |-> wdEdit.of, live |-> TRUE, at |-> "sent"]
<1>1. wdActs' \in Nat
  BY DEF Act, WdInv, WdTypeOK
<1>2. Sent(kind, p, to, text) = {old(q) : q \in wdNet} \cup {new}
  BY DEF Sent
<1>3. <<wdRoom, p>> \in Places /\ wdEdit.of \in Places
  BY DockPlaces DEF WdInv, WdTypeOK, DockEdits
<1>4. new \in DockRequests /\ new.kind = kind /\ new.at = "sent" /\ new.of = wdEdit.of
      /\ new.file = <<wdRoom, p>>
  BY <1>1, <1>3 DEF DockRequests
<1>5. \A q \in wdNet : old(q) \in DockRequests /\ SameCall(old(q), q)
  BY DEF WdInv, WdTypeOK, DockRequests, SameCall
<1> HIDE DEF old, new
<1> QED  BY <1>1, <1>2, <1>4, <1>5

LEMMA DockCallOK ==
  ASSUME WdInv, NEW kind \in DockKinds, NEW p \in DockPaths, NEW to \in DockPaths,
         NEW text \in Int, kind = "write" /\ "moved" \notin wdOdd => wdEdit.of = <<wdRoom, p>>,
         DockCall(kind, p, to, text)
  PROVE  WdInv'
<1>1. /\ Act /\ wdNet' = Sent(kind, p, to, text)
      /\ UNCHANGED <<wdDisk, wdRoom, wdSel, wdEdit, wdTree, wdCache, wdAsked, wdStale, wdTold, wdOdd>>
  BY DEF DockCall, wdQueries
<1>2. /\ wdActs' \in Nat /\ wdNet' \subseteq DockRequests
      /\ \A o \in wdNet : \E q \in wdNet' : SameCall(q, o)
      /\ \A q \in wdNet' :
           \/ \E o \in wdNet : SameCall(q, o)
           \/ q.kind = kind /\ q.at = "sent" /\ q.of = wdEdit.of /\ q.file = <<wdRoom, p>>
  BY <1>1, SentOK
<1>3. WdTypeOK'
  BY <1>1, <1>2 DEF WdInv, WdTypeOK
<1>4. DraftInv'
  BY <1>1, <1>2 DEF WdInv, DraftInv, SameCall, Opened
<1>5. KnowsAll' => KnowsAll
  BY <1>1, <1>2 DEF KnowsAll, SameCall
<1>6. FreshInv'
  BY <1>1, <1>5 DEF WdInv, FreshInv, Right, OnDisk
<1> QED  BY <1>3, <1>4, <1>6 DEF WdInv

LEMMA CallsOK ==
  ASSUME WdInv, \/ SaveText
                \/ \E p \in PathsOf(wdRoom) : Upload(p) \/ RemoveFile(p)
                \/ \E p, to \in PathsOf(wdRoom) : RenameFile(p, to)
  PROVE  WdInv'
<1>1. PathsOf(wdRoom) \subseteq DockPaths
  BY DockPlaces DEF WdInv, WdTypeOK
<1>2. CASE SaveText
  <2>1. wdSel # Closed /\ DockCall("write", wdSel, wdSel, wdEdit.draft)
    BY <1>2 DEF SaveText, ViewControls, Editable
  <2>2. wdSel \in DockPaths /\ wdEdit.draft \in Int
    BY <2>1 DEF WdInv, WdTypeOK, DockEdits
  <2>3. "moved" \notin wdOdd => wdEdit.of = <<wdRoom, wdSel>>
    BY <2>1 DEF WdInv, DraftInv, Opened
  <2> QED  BY <2>1, <2>2, <2>3, DockCallOK DEF DockKinds
<1>3. CASE \E p \in PathsOf(wdRoom) : Upload(p) \/ RemoveFile(p)
  <2>1. PICK p \in DockPaths : Upload(p) \/ RemoveFile(p)
    BY <1>1, <1>3
  <2>2. NewText \in Int /\ NoFile \in Int
    BY DEF NewText, NoFile, WdInv, WdTypeOK
  <2>3. \/ DockCall("upload", p, p, NewText)
        \/ DockCall("delete", p, p, NoFile)
    BY <2>1 DEF Upload, RemoveFile
  <2> QED  BY <2>2, <2>3, DockCallOK DEF DockKinds
<1>4. CASE \E p, to \in PathsOf(wdRoom) : RenameFile(p, to)
  <2>1. PICK p \in DockPaths, to \in DockPaths : DockCall("rename", p, to, 0)
    BY <1>1, <1>4 DEF RenameFile
  <2> QED  BY <2>1, DockCallOK DEF DockKinds
<1> QED  BY <1>2, <1>3, <1>4

LEMMA CreateOK == ASSUME WdInv, NEW p \in PathsOf(wdRoom), Create(p) PROVE WdInv'
<1>1. p \in DockPaths /\ wdRoom \in Rooms
  BY DockPlaces DEF WdInv, WdTypeOK
<1>2. /\ Act /\ Looks(wdRoom, Closed, wdStale, Sent("create", p, p, 0))
      /\ UNCHANGED <<wdDisk, wdTree, wdCache, wdTold, wdOdd>>
  BY DEF Create
<1>3. /\ wdActs' \in Nat /\ Sent("create", p, p, 0) \subseteq DockRequests
      /\ \A o \in wdNet : \E q \in Sent("create", p, p, 0) : SameCall(q, o)
      /\ \A q \in Sent("create", p, p, 0) :
           \/ \E o \in wdNet : SameCall(q, o)
           \/ q.kind = "create"
  BY <1>1, <1>2, SentOK DEF DockKinds
<1>4. MadeOf(Sent("create", p, p, 0))
  BY <1>3 DEF MadeOf
<1>5. wdOdd' \subseteq {"moved", "left"} /\ wdOdd \subseteq wdOdd'
  BY <1>2 DEF WdInv, WdTypeOK
<1> HIDE DEF Sent
<1> QED  BY <1>1, <1>2, <1>3, <1>4, <1>5, MoveOK

LEMMA RefreshOK == ASSUME WdInv, Refresh PROVE WdInv'
<1>1. /\ wdAsked' = wdAsked \cup {<<wdRoom, TreeKey>>}
      /\ UNCHANGED <<wdDisk, wdRoom, wdSel, wdEdit, wdTree, wdCache, wdStale, wdNet, wdTold, wdActs,
                     wdOdd>>
  BY DEF Refresh, wdBounds
<1>2. <<wdRoom, TreeKey>> \in Keys
  BY DockPlaces DEF WdInv, WdTypeOK
<1>3. WdTypeOK' /\ DraftInv'
  BY <1>1, <1>2 DEF WdInv, WdTypeOK, DraftInv, Opened
<1>4. FreshInv'
  BY <1>1 DEF WdInv, FreshInv, KnowsAll, Right, OnDisk
<1> QED  BY <1>3, <1>4 DEF WdInv

\* The disk changes, and the page is yet to be told.
LEMMA DockServedOK == ASSUME WdInv, NEW q \in wdNet, ServeDock(q) PROVE WdInv'
<1> DEFINE to == [q EXCEPT !.at = "done"]
<1>1. /\ wdNet' = (wdNet \ {q}) \cup {to} /\ wdDisk' \in {WrittenBy(q), wdDisk}
      /\ UNCHANGED <<wdRoom, wdSel, wdEdit, wdTree, wdCache, wdAsked, wdStale, wdTold, wdActs, wdOdd>>
  BY DEF ServeDock, wdQueries, wdBounds
<1>2. q \in DockRequests
  BY DEF WdInv, WdTypeOK
<1>3. to \in DockRequests /\ to.at = "done" /\ to.kind = q.kind /\ to.of = q.of /\ to.file = q.file
  BY <1>2 DEF DockRequests
<1> HIDE DEF to
<1>4. WrittenBy(q) \in [Places -> Int]
  <2>1. q.file \in Places /\ q.text \in Int /\ wdDisk \in [Places -> Int] /\ NoFile \in Int
    BY <1>2 DEF DockRequests, NoFile, WdInv, WdTypeOK
  <2> QED  BY <2>1 DEF WrittenBy
<1>5. WdTypeOK'
  BY <1>1, <1>3, <1>4 DEF WdInv, WdTypeOK
<1>6. DraftInv'
  BY <1>1, <1>3 DEF WdInv, DraftInv, Opened
<1>7. ~ KnowsAll'
  BY <1>1, <1>3 DEF KnowsAll
<1>8. FreshInv'
  BY <1>1, <1>7 DEF WdInv, FreshInv
<1> QED  BY <1>5, <1>6, <1>8 DEF WdInv

LEMMA AgentSavesOK == ASSUME WdInv, NEW d \in DockFiles, AgentSaves(d) PROVE WdInv'
<1>1. /\ wdDisk' = [wdDisk EXCEPT ![d] = NewText] /\ wdTold' = FALSE /\ Act
      /\ UNCHANGED <<wdRoom, wdSel, wdEdit, wdTree, wdCache, wdAsked, wdStale, wdNet, wdOdd>>
  BY DEF AgentSaves, wdQueries
<1>2. NewText \in Int /\ wdActs' \in Nat
  BY <1>1 DEF NewText, Act, WdInv, WdTypeOK
<1>3. WdTypeOK'
  BY <1>1, <1>2 DEF WdInv, WdTypeOK
<1>4. DraftInv' /\ FreshInv'
  BY <1>1 DEF WdInv, DraftInv, FreshInv, KnowsAll, Opened
<1> QED  BY <1>3, <1>4 DEF WdInv

-----------------------------------------------------------------------------
(* Answers *)

LEMMA ToldOK ==
  ASSUME WdInv, ToolCompleted \/ \E q \in wdNet : DockAnswer(q) PROVE WdInv'
<1>1. wdTold' \in BOOLEAN /\ UNCHANGED <<wdDisk, wdTree, wdCache, wdActs>>
  BY DEF ToolCompleted, DockAnswer, wdBounds, WdInv, WdTypeOK
<1>2. CASE ToolCompleted
  <2>1. InvalidateAll(wdNet) /\ wdNet \subseteq DockRequests /\ \A q : SameCall(q, q)
    BY <1>2 DEF ToolCompleted, WdInv, WdTypeOK, SameCall
  <2> QED  BY <1>1, <2>1, InvalidateOK
<1>3. CASE \E q \in wdNet : DockAnswer(q)
  <2>1. PICK q \in wdNet : DockAnswer(q)
    BY <1>3
  <2> DEFINE to == [q EXCEPT !.at = "refetch"]
             net == (wdNet \ {q}) \cup IF q.kind \in {"write", "create"} THEN {to} ELSE {}
  <2>2. InvalidateAll(net)
    BY <2>1 DEF DockAnswer
  <2>3. to \in DockRequests /\ to.kind = q.kind /\ to.of = q.of /\ to.file = q.file
    BY DEF WdInv, WdTypeOK, DockRequests
  <2> HIDE DEF to
  <2>4. net \subseteq DockRequests
    BY <2>3 DEF WdInv, WdTypeOK
  <2>5. \A r \in net : r.kind = "write" =>
          \E o \in wdNet : SameCall(r, o) \/ (o.kind = "write" /\ o.of = r.of /\ o.file = r.file)
    BY <2>3
  <2> HIDE DEF net
  <2> QED  BY <1>1, <2>2, <2>4, <2>5, InvalidateOK
<1> QED  BY <1>2, <1>3

LEMMA SettlesOK == ASSUME WdInv, NEW q \in wdNet, DockSettles(q) PROVE WdInv'
<1>1. q \in DockRequests /\ q.at = "refetch"
      /\ UNCHANGED <<wdDisk, wdTree, wdCache, wdTold, wdActs>>
  BY DEF DockSettles, wdBounds, WdInv, WdTypeOK
<1>2. MadeOf(wdNet \ {q})
  BY <1>1 DEF MadeOf, SameCall, WdInv, WdTypeOK
<1>3. wdActs' \in Nat
  BY <1>1 DEF WdInv, WdTypeOK
<1>4. CASE q.kind = "create" /\ q.live
  <2>1. /\ Looks(wdRoom, q.to, wdStale, wdNet \ {q})
        /\ wdOdd' = IF wdSel = Closed THEN wdOdd ELSE wdOdd \cup {"moved"}
    BY <1>4 DEF DockSettles
  <2>2. wdRoom \in Rooms /\ q.to \in DockPaths
    BY <1>1 DEF WdInv, WdTypeOK, DockRequests
  <2>3. /\ wdOdd' \subseteq {"moved", "left"} /\ wdOdd \subseteq wdOdd'
        /\ wdSel = Closed \/ "moved" \in wdOdd'
    BY <2>1 DEF WdInv, WdTypeOK
  <2> QED  BY <1>1, <1>2, <1>3, <2>1, <2>2, <2>3, MoveOK
<1>5. CASE ~ (q.kind = "create" /\ q.live)
  <2>1. /\ wdNet' = wdNet \ {q}
        /\ wdEdit' \in {[wdEdit EXCEPT !.editing = FALSE], wdEdit}
        /\ UNCHANGED <<wdRoom, wdSel, wdAsked, wdStale, wdOdd>>
    BY <1>5 DEF DockSettles
  <2>2. wdEdit' \in DockEdits /\ wdEdit'.of = wdEdit.of
    BY <2>1 DEF WdInv, WdTypeOK, DockEdits
  <2>3. wdNet' \subseteq DockRequests
    BY <2>1 DEF WdInv, WdTypeOK
  <2> QED  BY <1>1, <1>2, <1>3, <2>1, <2>2, <2>3, ViewStays DEF MadeOf
<1> QED  BY <1>4, <1>5

LEMMA FetchedOK == ASSUME WdInv, NEW k \in Keys, DockFetched(k) PROVE WdInv'
<1>1. /\ wdAsked' = wdAsked \ {k} /\ wdStale' = wdStale \ {k}
      /\ UNCHANGED <<wdDisk, wdRoom, wdSel, wdNet, wdTold, wdActs, wdOdd>>
  BY DEF DockFetched, wdBounds
<1>2. CASE k[2] = TreeKey
  <2>1. wdTree' = [wdTree EXCEPT ![k[1]] = OnDisk(k[1])] /\ UNCHANGED <<wdCache, wdEdit>>
    BY <1>2 DEF DockFetched
  <2>2. k[1] \in Rooms /\ OnDisk(k[1]) \subseteq DockPaths
    BY DockPlaces DEF OnDisk
  <2>3. WdTypeOK' /\ DraftInv'
    BY <1>1, <2>1, <2>2 DEF WdInv, WdTypeOK, DraftInv, Opened
  <2>4. \A j \in Keys : Right(j) \/ (j = k) => Right(j)'
    <3> SUFFICES ASSUME NEW j \in Keys, Right(j) \/ j = k PROVE Right(j)'
      OBVIOUS
    <3>1. CASE j[2] = TreeKey
      <4>1. j[1] \in Rooms /\ (j[1] # k[1] => j # k)
        BY DockPlaces
      <4>2. wdTree'[j[1]] = IF j[1] = k[1] THEN OnDisk(k[1]) ELSE wdTree[j[1]]
        BY <2>1, <4>1 DEF WdInv, WdTypeOK
      <4> QED  BY <1>1, <3>1, <4>1, <4>2 DEF Right, OnDisk
    <3>2. CASE j[2] # TreeKey
      BY <1>1, <1>2, <2>1, <3>2 DEF Right
    <3> QED  BY <3>1, <3>2
  <2>5. FreshInv'
    BY <1>1, <2>4 DEF WdInv, FreshInv, KnowsAll
  <2> QED  BY <2>3, <2>5 DEF WdInv
<1>3. CASE k[2] # TreeKey
  <2>1. /\ wdCache' = IF wdDisk[k] = NoFile THEN wdCache ELSE [wdCache EXCEPT ![k] = wdDisk[k]]
        /\ wdEdit' = IF k = Opened /\ wdCache'[k] # wdCache[k]
                     THEN [wdEdit EXCEPT !.draft = wdDisk[k], !.of = k] ELSE wdEdit
        /\ UNCHANGED wdTree
    BY <1>3 DEF DockFetched
  <2>2. k \in Places /\ wdDisk[k] \in Int
    BY <1>3, DockPlaces DEF WdInv, WdTypeOK
  <2>3. wdCache' \in [Places -> Int]
    BY <2>1, <2>2 DEF WdInv, WdTypeOK
  <2>4. wdEdit' \in DockEdits /\ (wdEdit'.of = wdEdit.of \/ wdEdit'.of = Opened)
    BY <2>1, <2>2 DEF WdInv, WdTypeOK, DockEdits
  <2>5. WdTypeOK'
    BY <1>1, <2>1, <2>3, <2>4 DEF WdInv, WdTypeOK
  <2>6. DraftInv'
    BY <1>1, <2>4 DEF WdInv, DraftInv, Opened
  <2>7. \A j \in Keys : Right(j) \/ (j = k) => Right(j)'
    <3> SUFFICES ASSUME NEW j \in Keys, Right(j) \/ j = k PROVE Right(j)'
      OBVIOUS
    <3>1. CASE j[2] = TreeKey
      BY <1>1, <1>3, <2>1, <3>1 DEF Right, OnDisk
    <3>2. CASE j[2] # TreeKey
      <4>1. j \in Places
        BY <3>2, DockPlaces
      <4>2. wdCache'[j] = IF j = k /\ wdDisk[k] # NoFile THEN wdDisk[k] ELSE wdCache[j]
        BY <2>1, <2>2, <4>1 DEF WdInv, WdTypeOK
      <4> QED  BY <1>1, <3>2, <4>2 DEF Right
    <3> QED  BY <3>1, <3>2
  <2>8. FreshInv'
    BY <1>1, <2>7 DEF WdInv, FreshInv, KnowsAll
  <2> QED  BY <2>5, <2>6, <2>8 DEF WdInv
<1> QED  BY <1>2, <1>3

LEMMA DockStepOK == WdInv /\ [NextDock]_wdVars => WdInv'
<1> SUFFICES ASSUME WdInv, [NextDock]_wdVars PROVE WdInv'
  OBVIOUS
<1>1. CASE \/ \E r \in Rooms : SwitchRoom(r)
           \/ \E p \in PathsOf(wdRoom) : OpenFile(p)
           \/ CloseFile
  BY <1>1, NavigateOK
<1>2. CASE \/ SaveText
           \/ \E p \in PathsOf(wdRoom) : Upload(p) \/ RemoveFile(p)
           \/ \E p, to \in PathsOf(wdRoom) : RenameFile(p, to)
  BY <1>2, CallsOK
<1>3. CASE (\E p \in PathsOf(wdRoom) : Create(p)) \/ \E d \in DockFiles : AgentSaves(d)
  BY <1>3, CreateOK, AgentSavesOK
<1>4. CASE Reopen \/ Refresh \/ StartFileEdit \/ CancelEdit \/ EditText
  BY <1>4, ReopenOK, RefreshOK, DockEditorOK
<1>5. CASE ToolCompleted \/ \E q \in wdNet : ServeDock(q) \/ DockAnswer(q) \/ DockSettles(q)
  BY <1>5, ToldOK, DockServedOK, SettlesOK
<1>6. CASE \E k \in Keys : DockFetched(k)
  BY <1>6, FetchedOK
<1>7. CASE UNCHANGED wdVars
  BY <1>7 DEF wdVars, WdInv, WdTypeOK, DraftInv, FreshInv, KnowsAll, Right, OnDisk, Opened
<1> QED  BY <1>1, <1>2, <1>3, <1>4, <1>5, <1>6, <1>7 DEF NextDock

\* What is saved in a workspace file was typed for it or loaded from it, for any chats,
\* files and requests, unless a creation answered late moved the view (WorkspaceDock).
THEOREM DockSavesTheFileShown == SpecDock => []DockSavesItsOwn
<1>1. WdInv => DockSavesItsOwn
  BY DEF WdInv, DraftInv, DockSavesItsOwn
<1> QED  BY <1>1, DockInitOK, DockStepOK, PTL DEF SpecDock

\* With nothing under way and the page told of the agent's writes, the tree is the
\* directory and the file in view has the text on disk, for any files, chats, writes,
\* renames and failures (useWorkspaceMutations).
THEOREM DockIsUpToDate == SpecDock => []DockShowsDisk
<1>1. WdInv => DockShowsDisk
  <2> SUFFICES ASSUME WdInv, wdNet = {}, wdAsked = {}, wdTold
               PROVE  /\ wdTree[wdRoom] = OnDisk(wdRoom)
                      /\ Editable /\ wdDisk[Opened] # NoFile => wdCache[Opened] = wdDisk[Opened]
    BY DEF DockShowsDisk
  <2>1. \A k \in Keys : k \in InView(wdRoom, wdSel) => Right(k)
    BY DEF WdInv, FreshInv, KnowsAll
  <2>2. <<wdRoom, TreeKey>> \in Keys /\ <<wdRoom, TreeKey>> \in InView(wdRoom, wdSel)
    BY DockPlaces DEF WdInv, WdTypeOK, InView
  <2>3. wdTree[wdRoom] = OnDisk(wdRoom)
    BY <2>1, <2>2 DEF Right
  <2>4. ASSUME wdSel # Closed, wdCache[Opened] # Unread, wdDisk[Opened] # NoFile
        PROVE  wdCache[Opened] = wdDisk[Opened]
    <3>1. Opened \in Keys /\ Opened \in InView(wdRoom, wdSel) /\ Opened[2] # TreeKey
      BY <2>4, DockPlaces DEF WdInv, WdTypeOK, InView, Opened
    <3> QED  BY <2>1, <2>4, <3>1 DEF Right
  <2> QED  BY <2>3, <2>4 DEF Editable
<1> QED  BY <1>1, DockInitOK, DockStepOK, PTL DEF SpecDock

-----------------------------------------------------------------------------
(* Composer *)

SentMessages ==
  [n : Nat, thread : Conversations, files : SUBSET Attachables, up : SUBSET Attachables]
PostedRuns ==
  [thread : Conversations, sentIn : Conversations, files : SUBSET Attachables, shown : Efforts,
   known : BOOLEAN, effort : Efforts]
ThreadLoads == Seq([thread : Conversations, last : BOOLEAN])

CpTypeOK ==
  /\ cpThread \in Conversations
  /\ cpDraft \in [text : BOOLEAN, files : SUBSET Attachables]
  /\ cpPick \in [engine : Engines, effort : Efforts]
  /\ cpSending \subseteq SentMessages
  /\ cpStored \in [Conversations -> SUBSET Attachables]
  /\ cpRun \in PostedRuns \cup {NoRunYet}
  /\ cpLoad \in ThreadLoads
  /\ cpCounts \in [sends : Nat, moves : Nat]

\* What was uploaded for a message is in the workspace of the thread it was sent in.
UploadsInv == \A s \in cpSending : s.up \subseteq cpStored[s.thread]

\* The run under way and the load whose answer counts are those of the open thread.
OpenThreadInv ==
  /\ cpRun # NoRunYet => cpRun.thread = cpThread
  /\ \A i \in DOMAIN cpLoad : cpLoad[i].last => cpLoad[i].thread = cpThread

CpInv == CpTypeOK /\ UploadsInv /\ OpenThreadInv /\ FilesAreThere /\ EffortAsShown /\ BadgeOfThread

-----------------------------------------------------------------------------
LEMMA ComposerInitOK == InitComposer => CpInv
<1> SUFFICES ASSUME InitComposer PROVE CpInv
  OBVIOUS
<1>1. CpTypeOK
  BY ComposerBounds DEF InitComposer, CpTypeOK, EmptyDraft, Efforts, ThreadLoads
<1>2. UploadsInv /\ OpenThreadInv
  BY DEF InitComposer, UploadsInv, OpenThreadInv
<1>3. FilesAreThere /\ EffortAsShown /\ BadgeOfThread
  BY DEF InitComposer, FilesAreThere, EffortAsShown, BadgeOfThread, Badge, NoRunYet
<1> QED  BY <1>1, <1>2, <1>3 DEF CpInv

\* A run is posted for the open thread, with the effort shown there unless the page
\* does not know the models as they are.
LEMMA PostedOK ==
  ASSUME CpTypeOK, NEW s \in SentMessages, RunWith(s)
  PROVE  /\ cpRun' \in PostedRuns /\ cpRun'.thread = cpThread /\ cpRun'.sentIn = s.thread
         /\ cpRun'.files = s.files /\ EffortAsShown'
<1>1. ActiveEffort \in Efforts /\ Applied(cpPick.engine, cpPick.effort) \in Efforts
  BY DEF ActiveEffort, Applied, CpTypeOK, Efforts
<1>2. cpOffer = cpCapable => Applied(cpPick.engine, cpPick.effort) = ActiveEffort
  BY DEF ActiveEffort, Applied
<1>3. cpRun' = [thread |-> cpThread, sentIn |-> s.thread, files |-> s.files,
                shown |-> ActiveEffort, known |-> cpOffer = cpCapable,
                effort |-> Applied(cpPick.engine, cpPick.effort)]
  BY DEF RunWith
<1> HIDE DEF RunWith
<1>4. cpRun' \in PostedRuns
  BY <1>1, <1>3 DEF PostedRuns, SentMessages, CpTypeOK
<1>5. EffortAsShown'
  BY <1>2, <1>3 DEF EffortAsShown
<1> QED  BY <1>3, <1>4, <1>5

\* The page as it stands, with the run that is posted with message s.
LEMMA PageStays ==
  ASSUME CpInv, NEW s \in SentMessages, s.files \subseteq cpStored[s.thread], RunWith(s),
         KeepPage, KeepPicks, UNCHANGED cpStored,
         cpDraft' \in [text : BOOLEAN, files : SUBSET Attachables],
         cpCounts' \in [sends : Nat, moves : Nat], cpSending' \subseteq cpSending
  PROVE  CpInv'
<1>1. /\ cpRun' \in PostedRuns /\ cpRun'.thread = cpThread /\ cpRun'.sentIn = s.thread
      /\ cpRun'.files = s.files /\ EffortAsShown'
  BY PostedOK DEF CpInv
<1>2. CpTypeOK'
  BY <1>1 DEF CpInv, CpTypeOK, KeepPage, KeepPicks
<1>3. UploadsInv' /\ OpenThreadInv'
  BY <1>1 DEF CpInv, UploadsInv, OpenThreadInv, KeepPage
<1>4. FilesAreThere' /\ BadgeOfThread'
  BY <1>1 DEF CpInv, FilesAreThere, BadgeOfThread, Badge, KeepPage
<1> QED  BY <1>1, <1>2, <1>3, <1>4 DEF CpInv

LEMMA DraftOK ==
  ASSUME CpInv, TypeDraft \/ \E f \in Attachables : AddAttachment(f) \/ RemoveAttachment(f)
  PROVE  CpInv'
<1>1. KeepRuns /\ KeepPage /\ KeepPicks /\ UNCHANGED cpCounts
  BY DEF TypeDraft, AddAttachment, RemoveAttachment, Edit
<1>2. cpDraft' \in [text : BOOLEAN, files : SUBSET Attachables]
  <2>1. cpDraft \in [text : BOOLEAN, files : SUBSET Attachables]
    BY DEF CpInv, CpTypeOK
  <2>2. CASE TypeDraft
    BY <2>1, <2>2 DEF TypeDraft, Edit
  <2>3. CASE \E f \in Attachables : AddAttachment(f) \/ RemoveAttachment(f)
    <3>1. PICK f \in Attachables : AddAttachment(f) \/ RemoveAttachment(f)
      BY <2>3
    <3>2. \/ cpDraft' = [cpDraft EXCEPT !.files = @ \cup {f}]
          \/ cpDraft' = [cpDraft EXCEPT !.files = @ \ {f}]
      BY <3>1 DEF AddAttachment, RemoveAttachment, Edit
    <3> QED  BY <2>1, <3>2
  <2> QED  BY <2>2, <2>3
<1> QED  BY <1>1, <1>2 DEF KeepRuns, KeepPage, KeepPicks, CpInv, CpTypeOK, UploadsInv,
            OpenThreadInv, FilesAreThere, EffortAsShown, BadgeOfThread, Badge

LEMMA PickerOK ==
  ASSUME CpInv, \/ \E e \in Engines : PickEngine(e) \/ Probed(e)
                \/ \E level \in Efforts : PickEffort(level)
                \/ OfferArrives
  PROVE  CpInv'
<1>1. KeepRuns /\ KeepPage /\ UNCHANGED cpDraft
  BY DEF PickEngine, Probed, PickEffort, OfferArrives
<1>2. cpPick' \in [engine : Engines, effort : Efforts]
  BY DEF PickEngine, Probed, PickEffort, OfferArrives, CpInv, CpTypeOK
<1>3. cpCounts' \in [sends : Nat, moves : Nat]
  BY DEF PickEngine, Probed, PickEffort, OfferArrives, Moved, CpInv, CpTypeOK
<1> QED  BY <1>1, <1>2, <1>3 DEF KeepRuns, KeepPage, CpInv, CpTypeOK, UploadsInv,
            OpenThreadInv, FilesAreThere, EffortAsShown, BadgeOfThread, Badge

LEMMA SendOK == ASSUME CpInv, Send PROVE CpInv'
<1> DEFINE message == [n |-> cpCounts.sends, thread |-> cpThread, files |-> cpDraft.files,
                       up |-> {}]
<1>1. message \in SentMessages /\ message.files = cpDraft.files /\ message.up = {}
  BY DEF SentMessages, CpInv, CpTypeOK
<1>2. /\ cpCounts' \in [sends : Nat, moves : Nat]
      /\ cpDraft' \in [text : BOOLEAN, files : SUBSET Attachables]
  BY DEF Send, EmptyDraft, CpInv, CpTypeOK
<1>3. UNCHANGED cpStored /\ KeepPage /\ KeepPicks
  BY DEF Send
<1>4. CASE cpDraft.files = {}
  <2>1. RunWith(message) /\ UNCHANGED cpSending
    BY <1>4 DEF Send
  <2> QED  BY <1>1, <1>2, <1>3, <1>4, <2>1, PageStays
<1>5. CASE cpDraft.files # {}
  <2>1. cpSending' = cpSending \cup {message} /\ UNCHANGED cpRun
    BY <1>5 DEF Send
  <2> HIDE DEF message
  <2>2. CpTypeOK'
    BY <1>1, <1>2, <1>3, <2>1 DEF CpInv, CpTypeOK, KeepPage, KeepPicks
  <2>3. UploadsInv'
    BY <1>1, <1>3, <2>1 DEF CpInv, UploadsInv
  <2> QED  BY <1>3, <2>1, <2>2, <2>3 DEF KeepPage, CpInv, OpenThreadInv, FilesAreThere,
              EffortAsShown, BadgeOfThread, Badge
<1> QED  BY <1>4, <1>5

LEMMA PressOK == ASSUME CpInv, PressGenerated PROVE CpInv'
<1> DEFINE message == [n |-> cpCounts.sends, thread |-> cpThread, files |-> {}, up |-> {}]
<1>1. message \in SentMessages /\ message.files = {}
  BY DEF SentMessages, CpInv, CpTypeOK
<1>2. /\ cpCounts' \in [sends : Nat, moves : Nat] /\ RunWith(message) /\ KeepPage /\ KeepPicks
      /\ UNCHANGED <<cpDraft, cpSending, cpStored>>
  BY DEF PressGenerated, CpInv, CpTypeOK
<1>3. cpDraft' \in [text : BOOLEAN, files : SUBSET Attachables]
  BY <1>2 DEF CpInv, CpTypeOK
<1> QED  BY <1>1, <1>2, <1>3, PageStays

LEMMA UploadOK ==
  ASSUME CpInv, NEW s \in cpSending, NEW f \in Attachables, UploadStored(s, f) \/ UploadLost(s, f)
  PROVE  CpInv'
<1>1. s \in SentMessages /\ s.thread \in Conversations
  BY DEF CpInv, CpTypeOK, SentMessages
<1>2. KeepPage /\ KeepPicks /\ UNCHANGED <<cpDraft, cpRun, cpCounts>>
  BY DEF UploadStored, UploadLost
<1>3. CASE UploadLost(s, f)
  <2>1. cpSending' = cpSending \ {s} /\ cpStored' = cpStored
    BY <1>3 DEF UploadLost
  <2> QED  BY <1>2, <2>1 DEF KeepPage, KeepPicks, CpInv, CpTypeOK, UploadsInv,
              OpenThreadInv, FilesAreThere, EffortAsShown, BadgeOfThread, Badge
<1>4. CASE UploadStored(s, f)
  <2> DEFINE to == [s EXCEPT !.up = @ \cup {f}]
  <2>1. to \in SentMessages /\ to.thread = s.thread /\ to.up = s.up \cup {f}
    BY <1>1 DEF SentMessages
  <2>2. /\ cpStored' = [cpStored EXCEPT ![s.thread] = @ \cup {f}]
        /\ cpSending' = (cpSending \ {s}) \cup {to}
    BY <1>4 DEF UploadStored
  <2> HIDE DEF to
  <2>3. /\ cpStored' \in [Conversations -> SUBSET Attachables]
        /\ \A t \in Conversations : cpStored[t] \subseteq cpStored'[t]
        /\ f \in cpStored'[s.thread]
    BY <1>1, <2>2 DEF CpInv, CpTypeOK
  <2>4. CpTypeOK'
    BY <1>2, <2>1, <2>2, <2>3 DEF KeepPage, KeepPicks, CpInv, CpTypeOK
  <2>5. \A r \in cpSending : r.thread \in Conversations
    BY DEF CpInv, CpTypeOK, SentMessages
  <2>6. UploadsInv'
    BY <1>1, <2>1, <2>2, <2>3, <2>5 DEF CpInv, UploadsInv
  <2>7. cpRun # NoRunYet => cpRun.thread \in Conversations
    BY DEF CpInv, CpTypeOK, PostedRuns
  <2>8. FilesAreThere'
    BY <1>2, <2>3, <2>7 DEF CpInv, FilesAreThere
  <2> QED  BY <1>2, <2>4, <2>6, <2>8 DEF KeepPage, CpInv, OpenThreadInv,
              EffortAsShown, BadgeOfThread, Badge
<1> QED  BY <1>3, <1>4

LEMMA AllUploadedOK == ASSUME CpInv, NEW s \in cpSending, AllUploaded(s) PROVE CpInv'
<1>1. s \in SentMessages /\ s.files \subseteq cpStored[s.thread]
  BY DEF CpInv, CpTypeOK, UploadsInv, AllUploaded, Uploaded
<1>2. /\ cpSending' = cpSending \ {s} /\ RunWith(s) /\ KeepPage /\ KeepPicks
      /\ UNCHANGED <<cpDraft, cpStored, cpCounts>>
  BY DEF AllUploaded
<1>3. /\ cpDraft' \in [text : BOOLEAN, files : SUBSET Attachables]
      /\ cpCounts' \in [sends : Nat, moves : Nat]
  BY <1>2 DEF CpInv, CpTypeOK
<1> QED  BY <1>1, <1>2, <1>3, PageStays

LEMMA RunEventsOK == ASSUME CpInv, RunOver \/ UsageEvent PROVE CpInv'
<1>1. CASE RunOver
  BY <1>1 DEF RunOver, NoRunYet, KeepPage, KeepPicks, CpInv, CpTypeOK, UploadsInv,
     OpenThreadInv, FilesAreThere, EffortAsShown, BadgeOfThread, Badge
<1>2. CASE UsageEvent
  BY <1>2 DEF UsageEvent, KeepRuns, KeepPicks, CpInv, CpTypeOK, UploadsInv,
     OpenThreadInv, FilesAreThere, EffortAsShown, BadgeOfThread, Badge
<1> QED  BY <1>1, <1>2

LEMMA OpenConversationOK ==
  ASSUME CpInv, NEW t \in Conversations, OpenConversation(t) PROVE CpInv'
<1>1. /\ cpThread' = t /\ cpUsage' = NoThread /\ cpRun' = NoRunYet
      /\ KeepPicks /\ UNCHANGED <<cpDraft, cpSending, cpStored>>
  BY DEF OpenConversation
<1>0. cpCounts' \in [sends : Nat, moves : Nat]
  <2>1. cpCounts' = [cpCounts EXCEPT !.moves = @ + 1]
    BY DEF OpenConversation, Moved
  <2> QED  BY <2>1 DEF CpInv, CpTypeOK
<1> DEFINE old == [i \in DOMAIN cpLoad |-> [cpLoad[i] EXCEPT !.last = FALSE]]
           loads == [thread : Conversations, last : BOOLEAN]
<1>2. PICK new \in {<<>>, <<[thread |-> t, last |-> TRUE]>>} : cpLoad' = old \o new
  BY DEF OpenConversation
<1>3. cpLoad \in Seq(loads)
  BY DEF CpInv, CpTypeOK, ThreadLoads
<1>4. /\ old \in Seq(loads) /\ Len(old) = Len(cpLoad)
      /\ \A i \in 1 .. Len(old) : old[i].last = FALSE
  <2>1. \A i \in 1 .. Len(cpLoad) :
          [cpLoad[i] EXCEPT !.last = FALSE] \in loads
          /\ [cpLoad[i] EXCEPT !.last = FALSE].last = FALSE
    <3>1. \A i \in 1 .. Len(cpLoad) : cpLoad[i] \in loads
      <4> HIDE DEF loads
      <4> QED  BY <1>3
    <3> QED  BY <3>1
  <2>2. DOMAIN cpLoad = 1 .. Len(cpLoad) /\ Len(cpLoad) \in Nat
    BY <1>3
  <2> QED  BY <2>1, <2>2
<1>5. new \in Seq(loads) /\ \A i \in 1 .. Len(new) : new[i].thread = t
  <2>1. CASE new = <<>>
    BY <2>1
  <2>2. CASE new = <<[thread |-> t, last |-> TRUE]>>
    <3>1. [thread |-> t, last |-> TRUE] \in loads
      OBVIOUS
    <3> QED  BY <2>2, <3>1
  <2> QED  BY <2>1, <2>2
<1> HIDE DEF old, loads
<1>6. cpLoad' \in Seq(loads)
  BY <1>2, <1>4, <1>5
<1>7. \A i \in DOMAIN cpLoad' : cpLoad'[i].last => cpLoad'[i].thread = t
  BY <1>2, <1>4, <1>5
<1>8. CpTypeOK'
  BY <1>0, <1>1, <1>6 DEF CpInv, CpTypeOK, KeepPicks, ThreadLoads, loads
<1>9. UploadsInv' /\ OpenThreadInv'
  BY <1>1, <1>7 DEF CpInv, UploadsInv, OpenThreadInv
<1>10. FilesAreThere' /\ EffortAsShown' /\ BadgeOfThread'
  BY <1>1 DEF FilesAreThere, EffortAsShown, BadgeOfThread, Badge, NoRunYet
<1> QED  BY <1>8, <1>9, <1>10 DEF CpInv

LEMMA ConversationLoadedOK ==
  ASSUME CpInv, NEW i \in DOMAIN cpLoad, ConversationLoaded(i) PROVE CpInv'
<1>1. KeepRuns /\ KeepPicks /\ UNCHANGED <<cpThread, cpDraft, cpCounts>>
  BY DEF ConversationLoaded
<1>2. cpLoad' = [j \in 1 .. Len(cpLoad) - 1 |-> cpLoad[IF j < i THEN j ELSE j + 1]]
  BY DEF ConversationLoaded
<1>3. cpLoad \in ThreadLoads /\ i \in 1 .. Len(cpLoad) /\ Len(cpLoad) \in Nat
  BY DEF CpInv, CpTypeOK, ThreadLoads
<1>4. \A j \in 1 .. Len(cpLoad) - 1 : (IF j < i THEN j ELSE j + 1) \in 1 .. Len(cpLoad)
  BY <1>3
<1>5. cpLoad' \in ThreadLoads
  <2> DEFINE loads == [thread : Conversations, last : BOOLEAN]
             n == Len(cpLoad) - 1
  <2>1. cpLoad \in Seq(loads) /\ n \in Nat
    BY <1>3 DEF ThreadLoads
  <2> HIDE DEF loads
  <2>2. \A j \in 1 .. n : cpLoad[IF j < i THEN j ELSE j + 1] \in loads
    BY <1>4, <2>1
  <2> HIDE DEF n
  <2>3. [j \in 1 .. n |-> cpLoad[IF j < i THEN j ELSE j + 1]] \in Seq(loads)
    BY <2>1, <2>2
  <2> QED  BY <1>2, <2>3 DEF ThreadLoads, loads, n
<1>6. \A j \in DOMAIN cpLoad' : cpLoad'[j].last => cpLoad'[j].thread = cpThread
  <2>1. \A j \in 1 .. Len(cpLoad) : cpLoad[j].last => cpLoad[j].thread = cpThread
    BY <1>3 DEF CpInv, OpenThreadInv, ThreadLoads
  <2> QED  BY <1>2, <1>4, <2>1
<1>7. BadgeOfThread'
  BY <1>1 DEF ConversationLoaded, Current, CpInv, OpenThreadInv, BadgeOfThread, Badge
<1>8. CpTypeOK'
  BY <1>1, <1>5 DEF KeepRuns, KeepPicks, CpInv, CpTypeOK
<1> QED  BY <1>1, <1>6, <1>7, <1>8 DEF KeepRuns, CpInv, UploadsInv, OpenThreadInv,
            FilesAreThere, EffortAsShown

LEMMA ComposerStepOK == CpInv /\ [NextComposer]_cpVars => CpInv'
<1> SUFFICES ASSUME CpInv, [NextComposer]_cpVars PROVE CpInv'
  OBVIOUS
<1>1. CASE TypeDraft \/ \E f \in Attachables : AddAttachment(f) \/ RemoveAttachment(f)
  BY <1>1, DraftOK
<1>2. CASE \/ \E e \in Engines : PickEngine(e) \/ Probed(e)
           \/ \E level \in Efforts : PickEffort(level)
           \/ OfferArrives
  BY <1>2, PickerOK
<1>3. CASE Send \/ PressGenerated \/ RunOver \/ UsageEvent
  BY <1>3, SendOK, PressOK, RunEventsOK
<1>4. CASE \E s \in cpSending : \/ AllUploaded(s)
                                \/ \E f \in Attachables : UploadStored(s, f) \/ UploadLost(s, f)
  BY <1>4, AllUploadedOK, UploadOK
<1>5. CASE (\E t \in Conversations : OpenConversation(t))
           \/ \E i \in DOMAIN cpLoad : ConversationLoaded(i)
  BY <1>5, OpenConversationOK, ConversationLoadedOK
<1>6. CASE UNCHANGED cpVars
  BY <1>6 DEF cpVars, CpInv, CpTypeOK, UploadsInv, OpenThreadInv, FilesAreThere, EffortAsShown,
     BadgeOfThread, Badge
<1> QED  BY <1>1, <1>2, <1>3, <1>4, <1>5, <1>6 DEF NextComposer

\* A run that is told of files finds them in its workspace, if the user stayed in the
\* thread: for any threads, files, failed uploads and messages sent meanwhile (onNew,
\* workspaceAttachment.ts).
THEOREM FilesAreFound == SpecComposer => []FilesAreThere
<1>1. CpInv => FilesAreThere
  BY DEF CpInv
<1> QED  BY <1>1, ComposerInitOK, ComposerStepOK, PTL DEF SpecComposer

\* A run gets the effort that the picker highlighted, and the badge never shows the
\* usage of another thread than the open one, for any models, threads, probes and
\* late loads (resolveModelEffort, loadSeqRef).
THEOREM ComposerShowsItsOwn == SpecComposer => [](EffortAsShown /\ BadgeOfThread)
<1>1. CpInv => EffortAsShown /\ BadgeOfThread
  BY DEF CpInv
<1> QED  BY <1>1, ComposerInitOK, ComposerStepOK, PTL DEF SpecComposer

-----------------------------------------------------------------------------
(* MediaParts *)

Readiness == {"na", "ready", "pending", "absent"}
MediaViews ==
  [kind : {"blob", "document"}, state : {"loading", "error", "ok"}, src : Nat, fetch : Nat,
   deps : Nat \X Readiness, failed : BOOLEAN, ever : BOOLEAN]
Trees ==
  [known : BOOLEAN, listed : SUBSET MediaLinks, ask : {"no", "asked", "read"},
   seen : SUBSET MediaLinks, stale : BOOLEAN]

MdTypeOK ==
  /\ mdLink \in Nat /\ mdMounted \in BOOLEAN /\ mdGate \in {"unknown", "on", "off"}
  /\ mdDisk \subseteq MediaLinks /\ mdTool \in BOOLEAN /\ mdTree \in Trees /\ mdTold \in BOOLEAN
  /\ mdView \in MediaViews

\* The tree is as the disk, or is still asked for, or will be when a view needs it,
\* unless somebody wrote to the disk or lost a request since.
TreeInv ==
  /\ mdTree.stale => mdTree.ask = "no" /\ ~ Observed
  /\ mdTold /\ ~ mdTool /\ ~ mdTree.stale =>
       /\ mdTree.ask = "read" => mdTree.seen = mdDisk
       /\ mdTree.ask = "no" /\ mdTree.known => mdTree.listed = mdDisk

\* A view follows its link: its effect ran for the link and its readiness as they are,
\* and what it fetched came, failed, or is still awaited.
ViewOK(pane, link, ready) ==
  IF link = NoLink THEN pane = FreshView(pane.kind)
  ELSE /\ pane.deps = <<link, ready>> /\ pane.fetch \in {NoLink, link}
       /\ pane.kind = "blob" => pane.src \in {NoLink, link}
       /\ ready \in {"na", "ready"} /\ pane.fetch = NoLink =>
            pane.state = "ok" \/ pane.failed \/ pane.ever
ViewInv ==
  IF mdMounted THEN ViewOK(mdView, mdLink, Ready(mdLink, mdGate, mdTree))
  ELSE mdView = FreshView(mdView.kind)
MdInv == MdTypeOK /\ TreeInv /\ ViewInv

LEMMA FreshIsView == \A kind \in {"blob", "document"} :
                       FreshView(kind) \in MediaViews /\ FreshView(kind).kind = kind
  BY DEF FreshView, MediaViews, NoLink, Readiness

LEMMA ReadyType ==
  ASSUME NEW link, NEW gate \in {"unknown", "on", "off"}, NEW tree
  PROVE  Ready(link, gate, tree) \in Readiness
  BY DEF Ready, Readiness

\* What the effect makes of a view, for a new link or a new readiness.
LEMMA EffectOK ==
  ASSUME NEW pane \in MediaViews, NEW link0 \in Nat, NEW ready0 \in Readiness,
         NEW link \in Nat, NEW ready \in Readiness, link = NoLink => link0 = NoLink,
         ViewOK(pane, link0, ready0)
  PROVE  /\ Effect(pane, link, ready) \in MediaViews
         /\ ViewOK(Effect(pane, link, ready), link, ready)
<1> DEFINE deps == <<link, ready>>
           now == [pane EXCEPT !.deps = deps]
<1>1. CASE link = NoLink
  <2>1. Effect(pane, link, ready) = pane
    BY <1>1 DEF Effect
  <2> QED  BY <1>1, <2>1 DEF ViewOK
<1>2. CASE link # NoLink /\ deps = pane.deps
  <2>1. Effect(pane, link, ready) = pane
    BY <1>2 DEF Effect, Deps
  <2>2. CASE link0 = NoLink
    BY <1>2, <2>2 DEF ViewOK, FreshView
  <2>3. CASE link0 # NoLink
    <3>1. pane.deps = <<link0, ready0>>
      BY <2>3 DEF ViewOK
    <3>2. link = link0 /\ ready = ready0
      BY <1>2, <3>1
    <3> QED  BY <2>1, <3>2
  <2> QED  BY <2>2, <2>3
<1>3. CASE link # NoLink /\ deps # pane.deps
  <2>1. /\ now \in MediaViews /\ now.kind = pane.kind /\ now.deps = deps
        /\ now.src = pane.src
    BY DEF MediaViews
  <2>2. Effect(pane, link, ready) =
          IF pane.kind = "blob" THEN Probe(now, link, ready) ELSE ProbeDocument(now, link, ready)
    BY <1>3 DEF Effect, Deps
  <2> HIDE DEF now
  <2>3. CASE pane.kind = "blob"
    <3>1. Probe(now, link, ready) \in MediaViews
      BY <2>1 DEF Probe, MediaViews, NoLink
    <3>2. /\ Probe(now, link, ready).deps = deps /\ Probe(now, link, ready).src = NoLink
          /\ Probe(now, link, ready).fetch = IF ready \in {"na", "ready"} THEN link ELSE NoLink
      BY <2>1 DEF Probe, MediaViews
    <3> QED  BY <1>3, <2>2, <2>3, <3>1, <3>2 DEF ViewOK
  <2>4. CASE pane.kind # "blob"
    <3>1. ProbeDocument(now, link, ready) \in MediaViews
      BY <2>1 DEF ProbeDocument, MediaViews, NoLink
    <3>2. /\ ProbeDocument(now, link, ready).deps = deps
          /\ ProbeDocument(now, link, ready).kind # "blob"
          /\ ProbeDocument(now, link, ready).fetch =
               IF ready \in {"na", "ready"} THEN link ELSE NoLink
      BY <2>1, <2>4 DEF ProbeDocument, MediaViews
    <3> QED  BY <1>3, <2>2, <2>4, <3>1, <3>2 DEF ViewOK
  <2> QED  BY <2>3, <2>4
<1> QED  BY <1>1, <1>2, <1>3

\* Whatever changes the link, the capabilities or the tree: the view follows.
LEMMA FollowOK ==
  ASSUME MdTypeOK, ViewInv, UNCHANGED mdMounted, NEW link \in Nat,
         NEW gate \in {"unknown", "on", "off"}, NEW tree \in Trees, Follow(link, gate, tree),
         link = NoLink => mdLink = NoLink
  PROVE  mdView' \in MediaViews /\ ViewInv'
<1>1. /\ mdLink' = link /\ mdGate' = gate /\ mdTree' = tree
      /\ mdView' = IF mdMounted THEN Effect(mdView, link, Ready(link, gate, tree)) ELSE mdView
  BY DEF Follow
<1>2. CASE mdMounted
  <2>1. Ready(link, gate, tree) \in Readiness /\ Ready(mdLink, mdGate, mdTree) \in Readiness
    BY ReadyType DEF MdTypeOK
  <2>2. ViewOK(mdView, mdLink, Ready(mdLink, mdGate, mdTree))
    BY <1>2 DEF ViewInv
  <2>3. mdLink \in Nat /\ mdView \in MediaViews
    BY DEF MdTypeOK
  <2>4. /\ Effect(mdView, link, Ready(link, gate, tree)) \in MediaViews
        /\ ViewOK(Effect(mdView, link, Ready(link, gate, tree)), link, Ready(link, gate, tree))
    BY <2>1, <2>2, <2>3, EffectOK
  <2>5. ViewInv' = ViewOK(mdView', link, Ready(link, gate, tree))
    BY <1>1, <1>2 DEF ViewInv
  <2> QED  BY <1>1, <1>2, <2>4, <2>5
<1>3. CASE ~ mdMounted
  BY <1>1, <1>3 DEF ViewInv, MdTypeOK
<1> QED  BY <1>2, <1>3

-----------------------------------------------------------------------------
LEMMA MediaInitOK == InitMedia => MdInv
<1> SUFFICES ASSUME InitMedia PROVE MdInv
  OBVIOUS
<1>1. PICK kind \in {"blob", "document"} : mdView = FreshView(kind)
  BY DEF InitMedia
<1>2. mdView \in MediaViews /\ mdView = FreshView(mdView.kind)
  BY <1>1, FreshIsView
<1>3. NoTree \in Trees /\ ~ NoTree.stale /\ NoTree.ask = "no" /\ ~ NoTree.known
  BY DEF NoTree, Trees
<1>4. MdTypeOK
  BY <1>2, <1>3 DEF InitMedia, MdTypeOK, NoLink
<1>5. TreeInv
  BY <1>3 DEF InitMedia, TreeInv
<1>6. ViewInv
  BY <1>2 DEF InitMedia, ViewInv, ViewOK
<1> QED  BY <1>4, <1>5, <1>6 DEF MdInv

-----------------------------------------------------------------------------
LEMMA LinkGrowsOK == ASSUME MdInv, LinkGrows PROVE MdInv'
<1> DEFINE asks == mdLink = NoLink /\ (mdTree.stale \/ ~ mdTree.known) /\ mdTree.ask = "no"
           tree == IF asks THEN [mdTree EXCEPT !.ask = "asked", !.stale = FALSE] ELSE mdTree
<1>1. /\ mdMounted /\ Follow(mdLink + 1, mdGate, tree)
      /\ UNCHANGED <<mdMounted, mdDisk, mdTool, mdTold, mdCounts>>
  BY DEF LinkGrows
<1>2. /\ tree \in Trees /\ tree.known = mdTree.known /\ tree.listed = mdTree.listed
      /\ tree.seen = mdTree.seen
      /\ asks => tree.ask = "asked" /\ ~ tree.stale
      /\ ~ asks => tree = mdTree
  BY DEF MdInv, MdTypeOK, Trees
<1> HIDE DEF tree
<1>3. mdLink \in Nat /\ mdGate \in {"unknown", "on", "off"}
  BY DEF MdInv, MdTypeOK
<1>4. mdView' \in MediaViews /\ ViewInv'
  BY <1>1, <1>2, <1>3, FollowOK DEF MdInv, NoLink
<1>5. mdLink' = mdLink + 1 /\ mdGate' = mdGate /\ mdTree' = tree
  BY <1>1 DEF Follow
<1>6. MdTypeOK'
  BY <1>1, <1>2, <1>3, <1>4, <1>5 DEF MdInv, MdTypeOK
<1>7. TreeInv'
  BY <1>1, <1>2, <1>5 DEF MdInv, TreeInv, Observed
<1> QED  BY <1>4, <1>6, <1>7 DEF MdInv

LEMMA WriterOK ==
  ASSUME MdInv, StartWriter \/ (\E link \in MediaLinks : ToolWrites(link)) \/ ToolUnseen PROVE MdInv'
<1>1. UNCHANGED <<mdLink, mdMounted, mdGate, mdTree, mdView>>
  BY DEF StartWriter, ToolWrites, ToolUnseen
<1>2. /\ mdTold' \in {mdTold, FALSE} /\ mdTool' \in BOOLEAN /\ mdDisk' \subseteq MediaLinks
      /\ mdTold' => mdTool'
  BY DEF StartWriter, ToolWrites, ToolUnseen, MdInv, MdTypeOK
<1>3. MdTypeOK' /\ ViewInv'
  BY <1>1, <1>2 DEF MdInv, MdTypeOK, ViewInv
<1>4. TreeInv'
  BY <1>1, <1>2 DEF MdInv, TreeInv, Observed
<1> QED  BY <1>3, <1>4 DEF MdInv

LEMMA RefreshedOK ==
  ASSUME MdInv
  PROVE  /\ Refreshed(mdTree) \in Trees
         /\ AsksAnew(mdTree) /\ Observed =>
              Refreshed(mdTree).ask = "asked" /\ ~ Refreshed(mdTree).stale
         /\ AsksAnew(mdTree) /\ ~ Observed =>
              Refreshed(mdTree).ask = "no" /\ Refreshed(mdTree).stale
         /\ ~ AsksAnew(mdTree) => Refreshed(mdTree) = mdTree
  BY DEF Refreshed, AsksAnew, MdInv, MdTypeOK, Trees

LEMMA ToolSeenOK == ASSUME MdInv, ToolSeen PROVE MdInv'
<1>1. /\ mdTool' = FALSE /\ mdTold' = AsksAnew(mdTree)
      /\ Follow(mdLink, mdGate, Refreshed(mdTree)) /\ UNCHANGED <<mdMounted, mdDisk, mdCounts>>
  BY DEF ToolSeen
<1>2. mdLink' = mdLink /\ mdGate' = mdGate /\ mdTree' = Refreshed(mdTree)
  BY <1>1 DEF Follow
<1>3. mdLink \in Nat /\ mdGate \in {"unknown", "on", "off"}
  BY DEF MdInv, MdTypeOK
<1>4. mdView' \in MediaViews /\ ViewInv'
  BY <1>1, <1>3, RefreshedOK, FollowOK DEF MdInv
<1>5. mdTold' \in BOOLEAN
  BY <1>1 DEF AsksAnew, Observed
<1>6. MdTypeOK'
  BY <1>1, <1>2, <1>3, <1>4, <1>5, RefreshedOK DEF MdInv, MdTypeOK
<1>7. Observed' = Observed
  BY <1>1, <1>2 DEF Observed
<1>8. TreeInv'
  BY <1>1, <1>2, <1>7, RefreshedOK DEF MdInv, TreeInv
<1> QED  BY <1>4, <1>6, <1>8 DEF MdInv

LEMMA CapabilitiesOK ==
  ASSUME MdInv, NEW gate \in {"on", "off"}, CapabilitiesLoaded(gate) PROVE MdInv'
<1>1. Follow(mdLink, gate, mdTree) /\ UNCHANGED <<mdMounted, mdDisk, mdTool, mdTold, mdCounts>>
  BY DEF CapabilitiesLoaded
<1>2. mdLink' = mdLink /\ mdGate' = gate /\ mdTree' = mdTree
  BY <1>1 DEF Follow
<1>3. mdLink \in Nat /\ mdTree \in Trees
  BY DEF MdInv, MdTypeOK
<1>4. mdView' \in MediaViews /\ ViewInv'
  BY <1>1, <1>3, FollowOK DEF MdInv
<1>5. MdTypeOK' /\ TreeInv'
  BY <1>1, <1>2, <1>4 DEF MdInv, MdTypeOK, TreeInv, Observed
<1> QED  BY <1>4, <1>5 DEF MdInv

LEMMA TreeOK == ASSUME MdInv, TreeRead \/ TreeLoaded \/ TreeFails PROVE MdInv'
<1>1. PICK tree : /\ Follow(mdLink, mdGate, tree)
                  /\ \/ /\ mdTree.ask = "asked" /\ mdTold' = mdTold
                        /\ tree = [mdTree EXCEPT !.ask = "read", !.seen = mdDisk]
                     \/ /\ mdTree.ask = "read" /\ mdTold' = mdTold
                        /\ tree = [mdTree EXCEPT !.known = TRUE, !.listed = mdTree.seen,
                                                 !.ask = "no"]
                     \/ /\ mdTree.ask # "no" /\ mdTold' = FALSE
                        /\ tree = [mdTree EXCEPT !.ask = "no"]
  BY DEF TreeRead, TreeLoaded, TreeFails
<1>2. UNCHANGED <<mdMounted, mdDisk, mdTool>>
  BY DEF TreeRead, TreeLoaded, TreeFails
<1>3. /\ tree \in Trees /\ tree.stale = mdTree.stale /\ mdTree.ask # "no"
      /\ mdTold' => mdTold
      /\ mdTold' /\ tree.ask = "read" => tree.seen = mdDisk
      /\ mdTold' /\ tree.ask = "no" => mdTree.ask = "read" /\ tree.listed = mdTree.seen
  <2>1. mdTree \in Trees /\ mdDisk \subseteq MediaLinks
    BY DEF MdInv, MdTypeOK
  <2>2. CASE /\ mdTree.ask = "asked" /\ mdTold' = mdTold
             /\ tree = [mdTree EXCEPT !.ask = "read", !.seen = mdDisk]
    BY <2>1, <2>2 DEF Trees
  <2>3. CASE /\ mdTree.ask = "read" /\ mdTold' = mdTold
             /\ tree = [mdTree EXCEPT !.known = TRUE, !.listed = mdTree.seen, !.ask = "no"]
    BY <2>1, <2>3 DEF Trees
  <2>4. CASE /\ mdTree.ask # "no" /\ mdTold' = FALSE
             /\ tree = [mdTree EXCEPT !.ask = "no"]
    BY <2>1, <2>4 DEF Trees
  <2> QED  BY <1>1, <2>2, <2>3, <2>4
<1>4. mdLink' = mdLink /\ mdGate' = mdGate /\ mdTree' = tree
  BY <1>1 DEF Follow
<1>5. mdLink \in Nat /\ mdGate \in {"unknown", "on", "off"}
  BY DEF MdInv, MdTypeOK
<1>6. mdView' \in MediaViews /\ ViewInv'
  BY <1>1, <1>2, <1>3, <1>5, FollowOK DEF MdInv
<1>7. MdTypeOK'
  BY <1>1, <1>2, <1>3, <1>4, <1>5, <1>6 DEF MdInv, MdTypeOK
<1>8. ~ mdTree.stale /\ Observed' = Observed
  BY <1>2, <1>3, <1>4 DEF MdInv, TreeInv, Observed
<1>9. TreeInv'
  BY <1>2, <1>3, <1>4, <1>8 DEF MdInv, TreeInv
<1> QED  BY <1>6, <1>7, <1>9 DEF MdInv

LEMMA FileOK == ASSUME MdInv, FileShown \/ FileFails PROVE MdInv'
<1>1. UNCHANGED <<mdLink, mdMounted, mdGate, mdDisk, mdTool, mdTree, mdTold>>
  BY DEF FileShown, FileFails
<1>2. mdView \in MediaViews /\ mdView.fetch # NoLink
  BY MediaBounds DEF FileShown, FileFails, MdInv, MdTypeOK, MediaLinks, NoLink
<1>3. mdMounted /\ mdLink # NoLink
  BY <1>2 DEF MdInv, ViewInv, ViewOK, FreshView
<1>4. /\ mdView.deps = <<mdLink, Ready(mdLink, mdGate, mdTree)>> /\ mdView.fetch = mdLink
      /\ mdView.kind = "blob" => mdView.src \in {NoLink, mdLink}
  BY <1>2, <1>3 DEF MdInv, ViewInv, ViewOK
<1>5. /\ mdView' \in MediaViews /\ mdView'.deps = mdView.deps /\ mdView'.fetch = NoLink
      /\ mdView'.kind = mdView.kind /\ mdView'.src \in {mdView.src, mdView.fetch}
      /\ mdView'.state = "ok" \/ mdView'.failed \/ mdView'.ever
  <2>1. CASE FileShown
    BY <1>2, <2>1 DEF FileShown, MediaViews, NoLink
  <2>2. CASE FileFails
    BY <1>2, <2>2 DEF FileFails, MediaViews, NoLink
  <2> QED  BY <2>1, <2>2
<1>6. ViewInv'
  BY <1>1, <1>3, <1>4, <1>5 DEF ViewInv, ViewOK
<1>7. MdTypeOK' /\ TreeInv'
  BY <1>1, <1>5 DEF MdInv, MdTypeOK, TreeInv, Observed
<1> QED  BY <1>6, <1>7 DEF MdInv

LEMMA LeaveOK == ASSUME MdInv, LeaveAnswer PROVE MdInv'
<1>1. mdView' \in MediaViews /\ mdView' = FreshView(mdView'.kind)
  BY FreshIsView DEF LeaveAnswer, MdInv, MdTypeOK, MediaViews
<1>2. mdMounted' = FALSE /\ UNCHANGED <<mdLink, mdGate, mdDisk, mdTool, mdTree, mdTold>>
  BY DEF LeaveAnswer
<1>3. MdTypeOK' /\ TreeInv'
  BY <1>1, <1>2 DEF MdInv, MdTypeOK, TreeInv, Observed
<1> QED  BY <1>1, <1>2, <1>3 DEF MdInv, ViewInv

LEMMA ReturnOK == ASSUME MdInv, ReturnToAnswer PROVE MdInv'
<1>1. PICK old \in {TRUE, mdTree.stale \/ ~ mdTree.known} :
        LET asks == mdLink # NoLink /\ old /\ mdTree.ask = "no"
            tree == IF asks THEN [mdTree EXCEPT !.ask = "asked", !.stale = FALSE] ELSE mdTree
        IN /\ mdTree' = tree
           /\ mdView' = Effect(FreshView(mdView.kind), mdLink, Ready(mdLink, mdGate, tree))
  BY DEF ReturnToAnswer
<1> DEFINE asks == mdLink # NoLink /\ old /\ mdTree.ask = "no"
<1>2. ~ mdMounted /\ mdMounted' = TRUE /\ UNCHANGED <<mdLink, mdGate, mdDisk, mdTool, mdTold>>
  BY DEF ReturnToAnswer
<1>3. /\ mdTree' \in Trees /\ mdTree'.known = mdTree.known /\ mdTree'.listed = mdTree.listed
      /\ mdTree'.seen = mdTree.seen
      /\ asks => mdTree'.ask = "asked" /\ ~ mdTree'.stale
      /\ ~ asks => mdTree' = mdTree
  BY <1>1 DEF MdInv, MdTypeOK, Trees
<1>4. mdView' = Effect(FreshView(mdView.kind), mdLink, Ready(mdLink, mdGate, mdTree'))
  BY <1>1
<1>5. mdLink \in Nat /\ mdGate \in {"unknown", "on", "off"} /\ mdView.kind \in {"blob", "document"}
  BY DEF MdInv, MdTypeOK, MediaViews
<1>6. mdView' \in MediaViews /\ ViewOK(mdView', mdLink, Ready(mdLink, mdGate, mdTree'))
  <2>1. FreshView(mdView.kind) \in MediaViews /\ FreshView(mdView.kind).kind = mdView.kind
    BY <1>5, FreshIsView
  <2>2. ViewOK(FreshView(mdView.kind), NoLink, "na")
    BY <2>1 DEF ViewOK
  <2>3. Ready(mdLink, mdGate, mdTree') \in Readiness /\ "na" \in Readiness /\ NoLink \in Nat
    BY <1>5, ReadyType DEF Readiness, NoLink
  <2> QED  BY <1>4, <1>5, <2>1, <2>2, <2>3, EffectOK
<1>7. ViewInv'
  BY <1>2, <1>6 DEF ViewInv
<1>8. MdTypeOK'
  BY <1>2, <1>3, <1>5, <1>6 DEF MdInv, MdTypeOK
<1>9. mdTree.stale => old
  BY DEF MdInv, MdTypeOK, Trees
<1>10. TreeInv'
  BY <1>2, <1>3, <1>9 DEF MdInv, TreeInv, Observed
<1> QED  BY <1>7, <1>8, <1>10 DEF MdInv

LEMMA MediaStepOK == MdInv /\ [NextMedia]_mdVars => MdInv'
<1> SUFFICES ASSUME MdInv, [NextMedia]_mdVars PROVE MdInv'
  OBVIOUS
<1>1. CASE \/ LinkGrows \/ StartWriter \/ ToolSeen \/ ToolUnseen
           \/ \E link \in MediaLinks : ToolWrites(link)
  BY <1>1, LinkGrowsOK, WriterOK, ToolSeenOK
<1>2. CASE \/ \E gate \in {"on", "off"} : CapabilitiesLoaded(gate)
           \/ TreeRead \/ TreeLoaded \/ TreeFails
  BY <1>2, CapabilitiesOK, TreeOK
<1>3. CASE FileShown \/ FileFails \/ LeaveAnswer \/ ReturnToAnswer
  BY <1>3, FileOK, LeaveOK, ReturnOK
<1>4. CASE UNCHANGED mdVars
  BY <1>4 DEF mdVars, MdInv, MdTypeOK, TreeInv, ViewInv, Observed
<1> QED  BY <1>1, <1>2, <1>3, <1>4 DEF NextMedia

\* A file that exists is shown once nothing is under way, and never under another link:
\* for any links, tools, failed requests and returns to the thread (useMediaReady).
THEOREM MediaIsShown == SpecMedia => []MediaShown
<1>1. MdInv => MediaShown
  <2> SUFFICES ASSUME MdInv PROVE MediaShown
    OBVIOUS
  <2>1. mdView.kind = "blob" => mdView.src \in {NoLink, mdLink}
    BY DEF MdInv, ViewInv, ViewOK, FreshView
  <2>2. ASSUME MediaAtRest, mdTold, mdLink \in mdDisk, mdView.state # "ok"
        PROVE  mdView.failed \/ mdView.ever
    <3>1. mdMounted /\ mdLink # NoLink /\ mdTree.listed = mdDisk /\ mdView.fetch = NoLink
      BY <2>2 DEF MediaAtRest, Observed, MdInv, TreeInv
    <3>2. Ready(mdLink, mdGate, mdTree) \in {"na", "ready"}
      BY <2>2, <3>1 DEF Ready
    <3> QED  BY <2>2, <3>1, <3>2 DEF MdInv, ViewInv, ViewOK
  <2> QED  BY <2>1, <2>2 DEF MediaShown
<1> QED  BY <1>1, MediaInitOK, MediaStepOK, PTL DEF SpecMedia

-----------------------------------------------------------------------------
(* McpServers *)

ServerRows == [command : Nat, secrets : Nat, enabled : BOOLEAN]
McpRequests ==
  [kind : {"save", "toggle", "delete"}, n : Nat, server : Servers, config : ServerRows,
   live : BOOLEAN, at : {"sent", "done", "refetch"}, ok : BOOLEAN]
McpDialogs == [open : BOOLEAN, target : Servers, command : Nat, secrets : Nat]

McTypeOK ==
  /\ mcRows \in [Servers -> ServerRows] /\ mcList \in [Servers -> ServerRows]
  /\ mcNet \subseteq McpRequests /\ mcDialog \in McpDialogs
  /\ mcConfigs \in Nat /\ mcCalls \in Nat /\ mcOdd \in BOOLEAN

\* As long as no mutation overlapped another there is one at most.  What it saved is
\* in its row, and in the list once that was fetched after the answer.
SavedInv ==
  ~ mcOdd =>
    /\ \A a, b \in mcNet : a = b
    /\ \A r \in mcNet : r.kind = "save" /\ r.ok =>
         /\ r.at # "sent" => mcRows[r.server].command = r.config.command
         /\ r.at = "refetch" => mcAsked \/ mcList = ServersListed(mcRows)
McInv == McTypeOK /\ SavedInv

-----------------------------------------------------------------------------
LEMMA NoServerType == NoServer \in ServerRows
  BY DEF NoServer, ServerRows

LEMMA McpInitOK == InitMcp => McInv
<1> SUFFICES ASSUME InitMcp PROVE McInv
  OBVIOUS
<1>1. mcRows \in [Servers -> ServerRows] /\ mcList \in [Servers -> ServerRows]
  BY NoServerType DEF InitMcp, ServerRows
<1>2. mcDialog \in McpDialogs
  BY ServersAssumption DEF InitMcp, NoDialog, McpDialogs
<1> QED  BY <1>1, <1>2 DEF InitMcp, McInv, McTypeOK, SavedInv

LEMMA ServerListedType ==
  ASSUME NEW rows \in [Servers -> ServerRows]
  PROVE  /\ ServersListed(rows) \in [Servers -> ServerRows]
         /\ \A s \in Servers : ServersListed(rows)[s].command = rows[s].command
<1>1. \A s \in Servers : /\ [rows[s] EXCEPT !.secrets = 0] \in ServerRows
                         /\ [rows[s] EXCEPT !.secrets = 0].command = rows[s].command
  BY DEF ServerRows
<1> QED  BY <1>1 DEF ServersListed

\* The dialog asks nothing of the server.
LEMMA McpDialogOK ==
  ASSUME McInv, AddServer \/ (\E s \in Servers : EditServer(s)) \/ TypeConfig \/ CloseServer
  PROVE  McInv'
<1>1. CASE AddServer
  <2>1. mcDialog' \in McpDialogs
    BY <1>1, ServersAssumption DEF AddServer, NoDialog, McpDialogs
  <2> QED  BY <1>1, <2>1 DEF AddServer, Unsent, McInv, McTypeOK, SavedInv
<1>2. ASSUME NEW s \in Servers, EditServer(s) PROVE McInv'
  <2>1. mcDialog' \in McpDialogs
    BY <1>2 DEF EditServer, McpDialogs, McInv, McTypeOK, ServerRows
  <2> QED  BY <1>2, <2>1 DEF EditServer, Unsent, McInv, McTypeOK, SavedInv
<1>3. CASE TypeConfig
  <2>1. mcConfigs' \in Nat /\ mcDialog' \in McpDialogs
    BY <1>3 DEF TypeConfig, McpDialogs, McInv, McTypeOK
  <2> QED  BY <1>3, <2>1 DEF TypeConfig, Unsent, McInv, McTypeOK, SavedInv
<1>4. CASE CloseServer
  <2> DEFINE Unheard(r) == [r EXCEPT !.live = FALSE]
  <2>1. \A r \in mcNet :
          /\ Unheard(r) \in McpRequests /\ Unheard(r).kind = r.kind /\ Unheard(r).ok = r.ok
          /\ Unheard(r).at = r.at /\ Unheard(r).server = r.server /\ Unheard(r).config = r.config
    BY DEF McInv, McTypeOK, McpRequests
  <2>2. mcDialog' \in McpDialogs
    BY <1>4, ServersAssumption DEF CloseServer, NoDialog, McpDialogs
  <2>3. mcNet' = {Unheard(r) : r \in mcNet}
        /\ UNCHANGED <<mcRows, mcList, mcAsked, mcConfigs, mcCalls, mcOdd>>
    BY <1>4 DEF CloseServer
  <2> HIDE DEF Unheard
  <2>4. McTypeOK'
    BY <2>1, <2>2, <2>3 DEF McInv, McTypeOK
  <2>5. SavedInv'
    BY <2>1, <2>3 DEF McInv, SavedInv
  <2> QED  BY <2>4, <2>5 DEF McInv
<1> QED  BY <1>1, <1>2, <1>3, <1>4

LEMMA McpCallOK ==
  ASSUME McInv, NEW s \in Servers, SaveServer(s) \/ SwitchServer(s) \/ DeleteServer(s)
  PROVE  McInv'
<1>1. PICK kind \in {"save", "toggle", "delete"}, config \in ServerRows, live \in BOOLEAN :
        McpCall(kind, s, config, live)
  <2>1. Config \in ServerRows /\ [NoServer EXCEPT !.enabled = ~ mcList[s].enabled] \in ServerRows
    BY DEF Config, NoServer, ServerRows, McInv, McTypeOK, McpDialogs
  <2> QED  BY <2>1, NoServerType DEF SaveServer, SwitchServer, DeleteServer
<1> DEFINE new == [kind |-> kind, n |-> mcCalls', server |-> s, config |-> config,
                   live |-> live, at |-> "sent", ok |-> TRUE]
<1>2. mcCalls' \in Nat /\ new \in McpRequests /\ new.at = "sent"
  BY <1>1 DEF McpCall, McpRequests, McInv, McTypeOK
<1>3. /\ mcNet' = mcNet \cup {new} /\ mcOdd' = (mcOdd \/ mcNet # {})
      /\ UNCHANGED <<mcRows, mcList, mcAsked, mcDialog, mcConfigs>>
  BY <1>1 DEF McpCall
<1> HIDE DEF new
<1>4. McTypeOK'
  BY <1>2, <1>3 DEF McInv, McTypeOK
<1>5. SavedInv'
  BY <1>2, <1>3 DEF McInv, McTypeOK, SavedInv
<1> QED  BY <1>4, <1>5 DEF McInv

\* One request is replaced by what became of it.
LEMMA ServeMcpOK == ASSUME McInv, NEW r \in mcNet, ServeMcp(r) PROVE McInv'
<1> DEFINE old == mcRows[r.server]
           ok == r.server # GlobalServer /\ (r.kind = "save" \/ old.command # 0)
           row == CASE ~ ok -> old
                    [] ok /\ r.kind = "save" -> SavedRow(old, r.config)
                    [] ok /\ r.kind = "toggle" -> [old EXCEPT !.enabled = r.config.enabled]
                    [] ok /\ r.kind = "delete" -> NoServer
           done == [r EXCEPT !.at = "done", !.ok = ok]
<1>1. /\ r \in McpRequests /\ r.server \in Servers /\ r.config \in ServerRows /\ old \in ServerRows
      /\ r.kind \in {"save", "toggle", "delete"}
  BY DEF McInv, McTypeOK, McpRequests
<1>2. /\ SavedRow(old, r.config) \in ServerRows
      /\ SavedRow(old, r.config).command = r.config.command
      /\ [old EXCEPT !.enabled = r.config.enabled] \in ServerRows
  BY <1>1 DEF SavedRow, ServerRows
<1>3. /\ mcRows' = [mcRows EXCEPT ![r.server] = row] /\ mcNet' = (mcNet \ {r}) \cup {done}
      /\ UNCHANGED <<mcList, mcAsked, mcDialog, mcConfigs, mcCalls, mcOdd>>
  BY DEF ServeMcp
<1>4. row \in ServerRows /\ (r.kind = "save" /\ ok => row.command = r.config.command)
  BY <1>1, <1>2, NoServerType
<1>5. /\ done \in McpRequests /\ done.at = "done" /\ done.ok = ok /\ done.kind = r.kind
      /\ done.server = r.server /\ done.config = r.config
  BY <1>1 DEF McpRequests
<1> HIDE DEF row, ok, done
<1>6. McTypeOK'
  BY <1>1, <1>3, <1>4, <1>5 DEF McInv, McTypeOK
<1>7. SavedInv'
  <2> SUFFICES ASSUME ~ mcOdd PROVE /\ mcNet' = {done}
                                    /\ r.kind = "save" /\ ok => mcRows'[r.server].command = r.config.command
    BY <1>3, <1>5 DEF SavedInv
  <2>1. mcNet = {r}
    BY DEF McInv, SavedInv
  <2>2. mcRows'[r.server] = row
    BY <1>1, <1>3 DEF McInv, McTypeOK
  <2> QED  BY <1>3, <1>4, <2>1, <2>2
<1> QED  BY <1>6, <1>7 DEF McInv

LEMMA McpAnswersOK ==
  ASSUME McInv, McpList \/ \E r \in mcNet : LoseMcp(r) \/ McpAnswer(r) \/ McpSettles(r)
  PROVE  McInv'
<1>1. CASE McpList
  <2>1. mcList' \in [Servers -> ServerRows]
    BY <1>1, ServerListedType DEF McpList, McInv, McTypeOK
  <2> QED  BY <1>1, <2>1 DEF McpList, McInv, McTypeOK, SavedInv
<1>2. ASSUME NEW r \in mcNet, LoseMcp(r) PROVE McInv'
  BY <1>2 DEF LoseMcp, McInv, McTypeOK, SavedInv
<1>3. ASSUME NEW r \in mcNet, McpAnswer(r) PROVE McInv'
  <2> DEFINE told == [r EXCEPT !.at = "refetch"]
  <2>1. /\ told \in McpRequests /\ told.kind = r.kind /\ told.ok = r.ok /\ told.server = r.server
        /\ told.config = r.config /\ r.at = "done"
    BY <1>3 DEF McpAnswer, McInv, McTypeOK, McpRequests
  <2>2. /\ mcNet' = (mcNet \ {r}) \cup {told} /\ mcAsked'
        /\ UNCHANGED <<mcRows, mcList, mcDialog, mcConfigs, mcCalls, mcOdd>>
    BY <1>3 DEF McpAnswer
  <2> HIDE DEF told
  <2>3. McTypeOK'
    BY <2>1, <2>2 DEF McInv, McTypeOK
  <2>4. SavedInv'
    BY <2>1, <2>2 DEF McInv, SavedInv
  <2> QED  BY <2>3, <2>4 DEF McInv
<1>4. ASSUME NEW r \in mcNet, McpSettles(r) PROVE McInv'
  <2>1. mcDialog' \in McpDialogs
    BY <1>4, ServersAssumption DEF McpSettles, NoDialog, McpDialogs, McInv, McTypeOK
  <2> QED  BY <1>4, <2>1 DEF McpSettles, McInv, McTypeOK, SavedInv
<1> QED  BY <1>1, <1>2, <1>3, <1>4

LEMMA McpStepOK == McInv /\ [NextMcp]_mcVars => McInv'
<1> SUFFICES ASSUME McInv, [NextMcp]_mcVars PROVE McInv'
  OBVIOUS
<1>1. CASE AddServer \/ (\E s \in Servers : EditServer(s)) \/ TypeConfig \/ CloseServer
  BY <1>1, McpDialogOK
<1>2. CASE \E s \in Servers : SaveServer(s) \/ SwitchServer(s) \/ DeleteServer(s)
  BY <1>2, McpCallOK
<1>3. CASE McpList \/ \E r \in mcNet : LoseMcp(r) \/ McpAnswer(r) \/ McpSettles(r)
  BY <1>3, McpAnswersOK
<1>4. CASE \E r \in mcNet : ServeMcp(r)
  BY <1>4, ServeMcpOK
<1>5. CASE UNCHANGED mcVars
  BY <1>5 DEF mcVars, McInv, McTypeOK, SavedInv
<1> QED  BY <1>1, <1>2, <1>3, <1>4, <1>5 DEF NextMcp

\* The list that the dialog uncovers after a save has the server as it was saved, for
\* any servers, edits, refused and lost requests, unless mutations overlapped
\* (queries.ts, McpPanel).
THEOREM SavedIsListed == SpecMcp => ClosedMeansListed
<1> DEFINE Shown ==
      \A r \in mcNet :
        r.kind = "save" /\ mcDialog.open /\ ~ mcDialog'.open /\ ~ mcOdd
        /\ (\A q \in mcNet' : q.n # r.n)
          => mcList[r.server].command = r.config.command
<1>1. McInv /\ [NextMcp]_mcVars => [Shown]_mcVars
  <2> SUFFICES ASSUME McInv, NextMcp, NEW r \in mcNet, r.kind = "save", mcDialog.open,
                      ~ mcDialog'.open, ~ mcOdd, \A q \in mcNet' : q.n # r.n
               PROVE  mcList[r.server].command = r.config.command
    OBVIOUS
  <2>1. mcNet = {r} /\ r \in McpRequests
    BY DEF McInv, McTypeOK, SavedInv
  <2>2. ASSUME McpSettles(r) PROVE mcList[r.server].command = r.config.command
    <3>1. r.at = "refetch" /\ ~ mcAsked /\ r.ok
      BY <2>2 DEF McpSettles, FetchedAgain
    <3>2. mcList = ServersListed(mcRows) /\ mcRows[r.server].command = r.config.command
      BY <3>1 DEF McInv, SavedInv
    <3> QED  BY <2>1, <3>2, ServerListedType DEF McInv, McTypeOK, McpRequests
  <2>3. ~ CloseServer
    <3>1. [r EXCEPT !.live = FALSE].n = r.n
      BY <2>1 DEF McpRequests
    <3> QED  BY <2>1, <3>1 DEF CloseServer
  <2>4. ~ AddServer /\ ~ TypeConfig /\ ~ McpList /\ ~ \E s \in Servers : EditServer(s)
    BY DEF AddServer, EditServer, TypeConfig, McpList, OfferedFor, McInv, McTypeOK, McpDialogs, DialogControls
  <2>5. ~ \E s \in Servers : SaveServer(s) \/ SwitchServer(s) \/ DeleteServer(s)
    BY DEF SaveServer, SwitchServer, DeleteServer, McpCall
  <2>6. ~ \E q \in mcNet : ServeMcp(q) \/ LoseMcp(q) \/ McpAnswer(q)
    BY DEF ServeMcp, LoseMcp, McpAnswer
  <2> QED  BY <2>1, <2>2, <2>3, <2>4, <2>5, <2>6 DEF NextMcp
<1> HIDE DEF Shown
<1>2. SpecMcp => [][Shown]_mcVars
  BY <1>1, McpInitOK, McpStepOK, PTL DEF SpecMcp
<1> QED  BY <1>2 DEF ClosedMeansListed, Shown

-----------------------------------------------------------------------------
(* Panels *)

\* The panels share no state: whatever happens on the page is a step of the panel it
\* happens in and leaves the others as they are.
LEMMA StepsAreApart ==
  ASSUME [NextPanels]_panelsVars
  PROVE  /\ [NextSetup]_setupVars /\ [NextModels]_mlVars /\ [NextDock]_wdVars
         /\ [NextComposer]_cpVars /\ [NextMedia]_mdVars /\ [NextMcp]_mcVars
  BY DEF NextPanels, InMcp, InProviders, InModels, InDock, InComposer, InMedia, panelsVars

LEMMA PanelsAreApart ==
  SpecPanels => SpecSetup /\ SpecModels /\ SpecDock /\ SpecComposer /\ SpecMedia /\ SpecMcp
<1>1. InitPanels => /\ InitSetup /\ InitModels /\ InitDock /\ InitComposer /\ InitMedia
                    /\ InitMcp
  BY DEF InitPanels
<1> QED  BY <1>1, StepsAreApart, PTL
         DEF SpecPanels, SpecSetup, SpecModels, SpecDock, SpecComposer, SpecMedia, SpecMcp

\* Models are added under the provider their list came from, and workspace files saved
\* with the text typed for them, whatever late answers move (onAddSelected, WorkspaceDock).
THEOREM PanelsSaveWhatIsTheirs == SpecPanels => []PanelsSaveTheirOwn
<1>1. AddedAsFetched /\ DockSavesItsOwn => PanelsSaveTheirOwn
  BY DEF PanelsSaveTheirOwn
<1> QED  BY <1>1, PanelsAreApart, ModelsAddedAsFetched, DockSavesTheFileShown, PTL

\* The dock shows the disk, the button the test awaited, the picker the effort of the
\* run, and the badge the open thread, for any number of requests, edits and switches
\* (useWorkspaceMutations, runTest, resolveModelEffort, loadSeqRef).
THEOREM PanelsTellTheTruth == SpecPanels => []PanelsShowTrue
<1>1. DockShowsDisk /\ TestingIsAwaited /\ EffortAsShown /\ BadgeOfThread => PanelsShowTrue
  BY DEF PanelsShowTrue
<1> QED  BY <1>1, PanelsAreApart, DockIsUpToDate, TestingTellsTheTest, ComposerShowsItsOwn, PTL

\* And what one panel promises it promises on the page.
THEOREM PanelsKeepTheirWord ==
  SpecPanels => /\ [](LoginIsTaken /\ FlagIsMeasured /\ FilesAreThere /\ MediaShown)
                /\ ClosedMeansListed
  BY PanelsAreApart, LoginsAreTaken, FlagsAreMeasured, FilesAreFound, MediaIsShown, SavedIsListed,
     PTL

-----------------------------------------------------------------------------
(* PageViews *)

\* The views share no state: what happens in one leaves the others as they are, and a
\* view that is never used stays in an initial state.
LEMMA ViewsStepApart ==
  ASSUME [NextPage]_pageVars
  PROVE  /\ [NextPreferences]_uiVars /\ [NextSessionList]_slVars /\ [NextSignIn]_acVars
         /\ [NextMemory]_mmVars /\ [NextSkills]_skVars /\ [NextTranscript]_trVars
  BY DEF NextPage, InSettings, InSessions, InSignIn, InMemory, InSkills, InTranscript,
         InRendering, pageVars

LEMMA ViewsAreApart ==
  SpecPage => SpecPreferences /\ SpecSessionList /\ SpecSignIn /\ SpecMemory /\ SpecSkills
              /\ SpecTranscript
<1>1. InitPage => /\ InitPreferences /\ InitSessionList /\ InitSignIn /\ InitMemory
                  /\ InitSkills /\ InitTranscript
  BY DEF InitPage
<1> QED  BY <1>1, ViewsStepApart, PTL
         DEF SpecPage, SpecPreferences, SpecSessionList, SpecSignIn, SpecMemory, SpecSkills,
             SpecTranscript

\* Whatever an editor saves was typed for the document it is saved under, and a calm
\* choice is stored: in memory, skills and settings, for any documents, texts and
\* settings, and any number of requests, losses and late answers (FileEditor,
\* SkillsPanel, prefs.ts).
THEOREM EditorsSaveTheirOwn == SpecPage => []SavesItsOwn
<1>1. SavesItsOwnText /\ SkillKeepsItsText /\ CalmWritesStored => SavesItsOwn
  BY DEF SavesItsOwn
<1> QED  BY <1>1, ViewsAreApart, TextsStayWithFiles, SkillTextsStay, CalmWritesAreStored, PTL

\* Whatever a view shows when nothing is under way is what the server holds, for any
\* settings, conversations, files, skills and names (PrefsSync, sidebar, AuthPage,
\* MemoryPanel, SkillsPanel).
THEOREM ViewsShowTheTruth == SpecPage => []ShownIsTrue
<1>1. ChoiceShown /\ ListAgrees /\ PanelTellsTruth /\ CleanMeansSaved /\ TakenIsTrue => ShownIsTrue
  BY DEF ShownIsTrue
<1> QED  BY <1>1, ViewsAreApart, ChoicesStayShown, ListTellsTheRows, PanelIsTrue, CleanIsSaved,
            TakenMeansTaken, PTL

\* And what the conversation list, the sign-in and the transcript promise they promise
\* on the page.
THEOREM ViewsKeepTheirWord ==
  SpecPage => [](NoBorrowedApproval /\ NothingOfOthers) /\ ApprovalsInReach
  BY ViewsAreApart, ApprovalIsNotBorrowed, NothingIsLeft, ApprovalsStayInReach, PTL
=============================================================================
