----------------------------- MODULE ViewProofs -----------------------------
(***************************************************************************)
(* Views of the page, each for any names, chats, files and settings, and   *)
(* any number of clicks, requests, losses and late answers.                *)
(* SignIn: nothing of one user is left to the next.  SessionList:          *)
(* auto-approve never leaks from one chat to another, and the list tells   *)
(* the rows.  MemoryFiles, Preferences and SkillFiles: what is typed is    *)
(* saved where it was typed, and what is shown is stored.  Transcript: an  *)
(* approval that is asked is in reach.                                     *)
(***************************************************************************)
EXTENDS SignIn, SessionList, MemoryFiles, Preferences, SkillFiles, Transcript, FiniteSetTheorems,
        TLAPS

-----------------------------------------------------------------------------
(* SignIn *)

AuthKinds == Forms \cup {"check", "checked", "answer", "code", "logout", "loggedout"}
AuthRequests == [kind : AuthKinds, name : Names \cup {Short, None}, ok : BOOLEAN, n : Nat]
Modes == {"signin", "signup", "forgot", "reset"}

AcTypeOK ==
  /\ acAt \in {"auth", "guard", "app"}
  /\ acMode \in Modes
  /\ acName \in Names \cup {Short} /\ acTimer \in Names \cup {Short, None}
  /\ acBusy \in BOOLEAN /\ acTaken \in BOOLEAN /\ acDoubt \in BOOLEAN
  /\ acUsers \subseteq Names
  /\ acSubmits \in Nat
  /\ acNet \subseteq AuthRequests

\* What AuthPage waits for.
Awaited == Forms \cup {"answer", "code"}
OnPage == Awaited \cup {"check", "checked"}

\* Past AuthPage only logouts are under way.  On the way in nothing is kept; in the
\* app, what is kept is of the user of the cookie, which can only be lost there.
KeptInv ==
  /\ acAt # "auth" => AuthNet(OnPage) = {}
  /\ ~ acThrown =>
       /\ acAt # "app" => acCached = {} /\ acThread = None
       /\ acAt = "app" => /\ acThread # None /\ acCached \subseteq {acThread}
                          /\ acCookie \in {None, acThread}

\* One form at a time is submitted.
FormInv ==
  /\ ~ acBusy => AuthNet(Awaited) = {}
  /\ \A a, b \in AuthNet(Awaited) : a = b

\* While one signs up, the name shown is too short, or will be asked for, or is, or its
\* verdict came; a verdict can only be old once the account of the page was made.
Welcome == \E r \in AuthNet({"answer"}) : r.ok
Verdict(ok) == Welcome \/ ok = (acName \in acUsers)
NameInv ==
  acAt = "auth" /\ acMode = "signup" /\ ~ acDoubt =>
    \/ acName = Short /\ ~ acTaken /\ acTimer = None /\ Checks = {}
    \/ acName # Short /\ acTimer = acName /\ Checks = {}
    \/ /\ acName # Short /\ acTimer = None
       /\ \E r \in Checks : /\ Checks = {r} /\ r.name = acName
                            /\ r.kind = "checked" => Verdict(r.ok)
    \/ acName # Short /\ acTimer = None /\ Checks = {} /\ Verdict(acTaken)

SignInInv == AcTypeOK /\ KeptInv /\ FormInv /\ NameInv

-----------------------------------------------------------------------------
LEMMA AskType ==
  ASSUME AcTypeOK, NEW kind \in AuthKinds, NEW name \in Names \cup {Short, None}
  PROVE  /\ Ask(kind, name) \in AuthRequests
         /\ Ask(kind, name).kind = kind /\ Ask(kind, name).name = name
  BY DEF Ask, AuthRequests, AcTypeOK

\* An answer is the request with another kind.
LEMMA KindType ==
  ASSUME NEW r \in AuthRequests, NEW kind \in AuthKinds, NEW a, a = [r EXCEPT !.kind = kind]
  PROVE  a \in AuthRequests /\ a.kind = kind /\ a.name = r.name
  BY DEF AuthRequests

\* AuthPage just mounted, with nothing under way but logouts.
LEMMA MountedOK ==
  ASSUME SignInInv, Mounted, acAt # "auth", acNet' \subseteq acNet
  PROVE  /\ acMode' \in Modes /\ acName' \in Names \cup {Short}
         /\ acTimer' \in Names \cup {Short, None}
         /\ acBusy' \in BOOLEAN /\ acTaken' \in BOOLEAN /\ acDoubt' \in BOOLEAN
         /\ AuthNet(OnPage)' = {} /\ FormInv' /\ NameInv'
<1>1. AuthNet(OnPage)' = {} /\ AuthNet(Awaited)' = {}
  BY DEF SignInInv, KeptInv, OnPage, AuthNet
<1>2. acMode' = "signin" /\ acName' = Short /\ acTimer' = None
      /\ acBusy' = FALSE /\ acTaken' = FALSE /\ acDoubt' = FALSE
  BY DEF Mounted
<1>3. FormInv'
  BY <1>1 DEF FormInv
<1>4. NameInv'
  BY <1>2 DEF NameInv
<1> QED  BY <1>1, <1>2, <1>3, <1>4 DEF Modes

LEMMA SignInInitOK == InitSignIn => SignInInv
<1> SUFFICES ASSUME InitSignIn PROVE SignInInv
  OBVIOUS
<1>1. AcTypeOK /\ KeptInv
  BY DEF InitSignIn, AcTypeOK, KeptInv, Names, Modes
<1>2. FormInv /\ NameInv
  BY DEF InitSignIn, FormInv, NameInv, AuthNet
<1> QED  BY <1>1, <1>2 DEF SignInInv

-----------------------------------------------------------------------------
(* AuthPage *)

\* The name or the mode changes, with the effect of both.
LEMMA EditedOK ==
  ASSUME SignInInv, NEW mode \in Modes, NEW name \in Names \cup {Short}, acAt = "auth",
         acMode' = mode, acName' = name, CheckName(mode, name), acDoubt' = (acDoubt \/ Checks # {}),
         UNCHANGED <<acAt, acBusy, acNet, acUsers, acCookie, acKept, acSubmits, acThrown>>
  PROVE  SignInInv'
<1>1. AcTypeOK' /\ KeptInv'
  BY DEF CheckName, acKept, SignInInv, AcTypeOK, KeptInv, AuthNet
<1>2. FormInv'
  BY DEF SignInInv, FormInv, AuthNet
<1>3. NameInv'
  BY NamesAssumption DEF SignInInv, AcTypeOK, CheckName, NameInv, AuthNet, Checks
<1> QED  BY <1>1, <1>2, <1>3 DEF SignInInv

LEMMA CheckDueOK == SignInInv /\ CheckDue => SignInInv'
<1> SUFFICES ASSUME SignInInv, CheckDue PROVE SignInInv'
  OBVIOUS
<1> DEFINE q == Ask("check", acTimer)
<1>1. q \in AuthRequests /\ q.kind = "check" /\ q.name = acTimer
  BY AskType DEF SignInInv, AcTypeOK, AuthKinds
<1>2. acNet' = acNet \cup {q}
  BY DEF CheckDue
<1> HIDE DEF q
<1>3. /\ UNCHANGED AuthNet(Awaited) /\ UNCHANGED AuthNet({"answer"}) /\ Checks' = Checks \cup {q}
  BY <1>1, <1>2 DEF AuthNet, Awaited, Forms, Checks
<1>4. AcTypeOK' /\ KeptInv'
  BY <1>1, <1>2 DEF CheckDue, acKept, SignInInv, AcTypeOK, KeptInv
<1>5. FormInv'
  BY <1>3 DEF CheckDue, SignInInv, FormInv
<1>6. NameInv'
  BY <1>1, <1>3 DEF CheckDue, SignInInv, NameInv, Verdict, Welcome
<1> QED  BY <1>4, <1>5, <1>6 DEF SignInInv

LEMMA SubmitFormOK == SignInInv /\ SubmitForm => SignInInv'
<1> SUFFICES ASSUME SignInInv, SubmitForm PROVE SignInInv'
  OBVIOUS
<1> DEFINE kind == CASE acMode = "signin" -> "login" [] OTHER -> acMode
           q == Ask(kind, acName)
<1>1. kind \in Forms
  BY DEF SignInInv, AcTypeOK, Forms, Modes
<1>2. acNet' = acNet \cup {q}
  BY DEF SubmitForm
<1> HIDE DEF kind
<1>3. q \in AuthRequests /\ q.kind = kind
  BY <1>1, AskType DEF SignInInv, AcTypeOK, AuthKinds
<1> HIDE DEF q
<1>4. /\ AuthNet(Awaited)' = AuthNet(Awaited) \cup {q} /\ Checks' = Checks
      /\ AuthNet({"answer"})' = AuthNet({"answer"})
  BY <1>1, <1>2, <1>3 DEF AuthNet, Awaited, Forms, Checks
<1>5. AcTypeOK' /\ KeptInv'
  BY <1>2, <1>3 DEF SubmitForm, SubmitOffered, acKept, SignInInv, AcTypeOK, KeptInv
<1>6. FormInv'
  BY <1>4 DEF SubmitForm, SubmitOffered, SignInInv, FormInv
<1>7. NameInv'
  BY <1>4 DEF SubmitForm, SignInInv, NameInv, Verdict, Welcome
<1> QED  BY <1>5, <1>6, <1>7 DEF SignInInv

LEMMA FormOK ==
  ASSUME SignInInv, SwitchMode \/ TypeName \/ CheckDue \/ SubmitForm
  PROVE  SignInInv'
<1>1. CASE SwitchMode
  <2>1. PICK m \in Links(acMode) : Edited(m, acName)
    BY <1>1 DEF SwitchMode
  <2>2. m \in Modes /\ acName \in Names \cup {Short}
    BY DEF Links, Modes, SignInInv, AcTypeOK
  <2> QED  BY <1>1, <2>1, <2>2, EditedOK DEF SwitchMode, Edited
<1>2. CASE TypeName
  <2>1. PICK name \in Names \cup {Short} : Edited(acMode, name)
    BY <1>2 DEF TypeName
  <2>2. acMode \in Modes
    BY DEF SignInInv, AcTypeOK
  <2> QED  BY <1>2, <2>1, <2>2, EditedOK DEF TypeName, Edited
<1> QED  BY <1>1, <1>2, CheckDueOK, SubmitFormOK

-----------------------------------------------------------------------------
(* The way in and out *)

LEMMA SessionEndsOK == SignInInv /\ SessionEnds => SignInInv'
  BY DEF SessionEnds, acForm, acKept, SignInInv, AcTypeOK, KeptInv, FormInv, NameInv, AuthNet

LEMMA GuardOK == SignInInv /\ Guard => SignInInv'
<1> SUFFICES ASSUME SignInInv, Guard PROVE SignInInv'
  OBVIOUS
<1>1. UNCHANGED <<acNet, acUsers, acCookie, acCached, acSubmits, acThrown>> /\ acAt = "guard"
  BY DEF Guard
<1>2. CASE acCookie = None
  <2>1. acAt' = "auth" /\ Mounted /\ UNCHANGED <<acThread, acTyped>>
    BY <1>2 DEF Guard
  <2> QED  BY <1>1, <2>1, MountedOK DEF SignInInv, AcTypeOK, KeptInv
<1>3. CASE acCookie # None
  <2>1. acAt' = "app" /\ UNCHANGED acForm
        /\ acThread' = IF acThread = None THEN acCookie ELSE acThread
    BY <1>3 DEF Guard
  <2>2. AuthNet(OnPage)' = AuthNet(OnPage) /\ FormInv'
    BY <1>1, <2>1 DEF AuthNet, SignInInv, FormInv, acForm
  <2>3. NameInv'
    BY <2>1 DEF NameInv
  <2>4. KeptInv'
    BY <1>1, <1>3, <2>1, <2>2 DEF SignInInv, KeptInv
  <2> QED  BY <1>1, <2>1, <2>2, <2>3, <2>4 DEF SignInInv, AcTypeOK, acForm
<1> QED  BY <1>2, <1>3

LEMMA QueryOK == SignInInv /\ Query => SignInInv'
<1> SUFFICES ASSUME SignInInv, Query PROVE SignInInv'
  OBVIOUS
<1>1. UNCHANGED <<acNet, acUsers, acCookie, acThread, acSubmits>> /\ acAt = "app"
  BY DEF Query
<1>2. CASE acCookie = None
  <2>1. acAt' = "auth" /\ Mounted /\ acThrown' = TRUE /\ UNCHANGED <<acCached, acTyped>>
    BY <1>2 DEF Query
  <2> QED  BY <1>1, <2>1, MountedOK DEF SignInInv, AcTypeOK, KeptInv
<1>3. CASE acCookie # None
  <2>1. acCached' = acCached \cup {acCookie} /\ UNCHANGED <<acAt, acForm, acThrown>>
    BY <1>3 DEF Query
  <2>2. AuthNet(OnPage)' = AuthNet(OnPage) /\ FormInv'
    BY <1>1, <2>1 DEF AuthNet, SignInInv, FormInv, acForm
  <2>3. NameInv'
    BY <1>1, <2>1 DEF NameInv
  <2>4. KeptInv'
    BY <1>1, <1>3, <2>1, <2>2 DEF SignInInv, KeptInv
  <2> QED  BY <1>1, <2>1, <2>2, <2>3, <2>4 DEF SignInInv, AcTypeOK, acForm
<1> QED  BY <1>2, <1>3

LEMMA LogoutOK == SignInInv /\ Logout => SignInInv'
<1> SUFFICES ASSUME SignInInv, Logout PROVE SignInInv'
  OBVIOUS
<1> DEFINE q == Ask("logout", None)
<1>1. q \in AuthRequests /\ q.kind = "logout" /\ acNet' = acNet \cup {q}
  BY AskType DEF SignInInv, AuthKinds, Logout
<1> HIDE DEF q
<1>2. /\ acSubmits' \in Nat /\ acAt = "app"
      /\ UNCHANGED <<acAt, acForm, acUsers, acCookie, acKept, acThrown>>
  BY DEF Logout, SignInInv, AcTypeOK
<1>3. AuthNet(OnPage)' = AuthNet(OnPage) /\ AuthNet(Awaited)' = AuthNet(Awaited)
  BY <1>1 DEF AuthNet, OnPage, Awaited, Forms
<1> QED  BY <1>1, <1>2, <1>3 DEF acForm, acKept, SignInInv, AcTypeOK, KeptInv, FormInv, NameInv

\* Logouts, which the form does not see.
LEMMA LogoutArrivesOK ==
  ASSUME SignInInv, NEW r \in acNet, LogoutArrives(r)
  PROVE  SignInInv'
<1> DEFINE a == [r EXCEPT !.kind = "loggedout"]
<1>1. a \in AuthRequests /\ a.kind = "loggedout" /\ r.kind = "logout"
  <2>1. r \in AuthRequests /\ "loggedout" \in AuthKinds /\ r.kind = "logout"
    BY DEF LogoutArrives, AuthNet, SignInInv, AcTypeOK, AuthKinds
  <2> QED  BY <2>1, KindType
<1>2. acNet' = (acNet \ {r}) \cup {a}
  BY DEF LogoutArrives
<1> HIDE DEF a
<1>3. /\ AuthNet(OnPage)' = AuthNet(OnPage) /\ AuthNet(Awaited)' = AuthNet(Awaited)
      /\ AuthNet({"answer"})' = AuthNet({"answer"}) /\ Checks' = Checks
  BY <1>1, <1>2 DEF AuthNet, OnPage, Awaited, Forms, Checks
<1>4. UNCHANGED <<acAt, acForm, acUsers, acKept, acSubmits, acThrown>>
      /\ acCookie' \in {None, acCookie}
  BY DEF LogoutArrives
<1>5. AcTypeOK' /\ KeptInv'
  BY <1>1, <1>2, <1>3, <1>4 DEF SignInInv, AcTypeOK, KeptInv, acForm, acKept
<1>6. FormInv' /\ NameInv'
  BY <1>3, <1>4 DEF SignInInv, FormInv, NameInv, Verdict, Welcome, acForm
<1> QED  BY <1>5, <1>6 DEF SignInInv

LEMMA LoggedOutOK ==
  ASSUME SignInInv, NEW r \in acNet, LoggedOut(r)
  PROVE  SignInInv'
<1>1. /\ acNet' = acNet \ {r} /\ acThread' = None /\ acCached' = {} /\ acThrown' = FALSE
      /\ acAt' = "auth" /\ UNCHANGED <<acUsers, acCookie, acSubmits>> /\ r.kind = "loggedout"
  BY DEF LoggedOut, Forget, AuthNet
<1>2. CASE acAt = "auth"
  <2>1. UNCHANGED <<acAt, acForm>>
    BY <1>2 DEF LoggedOut
  <2>2. /\ AuthNet(Awaited)' = AuthNet(Awaited)
        /\ AuthNet({"answer"})' = AuthNet({"answer"}) /\ Checks' = Checks
    BY <1>1 DEF AuthNet, Awaited, Forms, Checks
  <2>3. AcTypeOK' /\ KeptInv'
    BY <1>1, <2>1 DEF SignInInv, AcTypeOK, KeptInv, acForm
  <2>4. FormInv' /\ NameInv'
    BY <1>1, <2>1, <2>2 DEF SignInInv, FormInv, NameInv, Verdict, Welcome, acForm
  <2> QED  BY <2>3, <2>4 DEF SignInInv
<1>3. CASE acAt # "auth"
  <2>1. Mounted
    BY <1>3 DEF LoggedOut
  <2> QED  BY <1>1, <1>3, <2>1, MountedOK DEF SignInInv, AcTypeOK, KeptInv
<1> QED  BY <1>2, <1>3

-----------------------------------------------------------------------------
(* Requests of AuthPage, and their answers *)

\* Whatever is on its way to the page or the server, the page is AuthPage.
LEMMA OnAuthPage == ASSUME SignInInv, NEW r \in acNet, r.kind \in OnPage PROVE acAt = "auth"
  BY DEF SignInInv, KeptInv, AuthNet

LEMMA CheckArrivesOK ==
  ASSUME SignInInv, NEW r \in acNet, CheckArrives(r)
  PROVE  SignInInv'
<1> DEFINE ok == r.name \in acUsers
           a == [r EXCEPT !.kind = "checked", !.ok = ok]
<1>1. r.kind = "check" /\ r \in AuthRequests /\ acNet' = (acNet \ {r}) \cup {a} /\ ok \in BOOLEAN
  BY DEF CheckArrives, AuthNet, SignInInv, AcTypeOK
<1>2. ok = (r.name \in acUsers)
  OBVIOUS
<1> HIDE DEF ok
<1>3. a \in AuthRequests /\ a.kind = "checked" /\ a.ok = ok /\ a.name = r.name
  <2>1. "checked" \in AuthKinds
    BY DEF AuthKinds
  <2>2. a = [r EXCEPT !.kind = "checked", !.ok = ok]
    OBVIOUS
  <2> QED  BY <1>1, <2>1, <2>2 DEF AuthRequests
<1> HIDE DEF a
<1>4. /\ AuthNet(Awaited)' = AuthNet(Awaited) /\ AuthNet({"answer"})' = AuthNet({"answer"})
      /\ Checks' = (Checks \ {r}) \cup {a} /\ r \in Checks
  BY <1>1, <1>3 DEF AuthNet, Awaited, Forms, Checks
<1>5. UNCHANGED <<acAt, acForm, acUsers, acCookie, acKept, acSubmits, acThrown>>
  BY DEF CheckArrives
<1>6. acAt = "auth"
  BY <1>1, OnAuthPage DEF OnPage
<1>7. AcTypeOK' /\ KeptInv'
  BY <1>1, <1>3, <1>5, <1>6 DEF SignInInv, AcTypeOK, KeptInv, acForm, acKept
<1>8. FormInv'
  BY <1>4, <1>5 DEF SignInInv, FormInv, acForm
<1>9. NameInv'
  <2> SUFFICES ASSUME acMode = "signup", ~ acDoubt PROVE NameInv'
    BY <1>5 DEF NameInv, acForm
  <2>1. Checks = {r} /\ r.name = acName /\ acName # Short /\ acTimer = None
    BY <1>4, <1>6 DEF SignInInv, NameInv
  <2>2. Checks' = {a} /\ a.ok = (acName' \in acUsers') /\ acName' = acName /\ acTimer' = None
    BY <1>2, <1>3, <1>4, <1>5, <2>1 DEF acForm
  <2>3. Welcome' \/ a.ok = (acName' \in acUsers')
    BY <2>2
  <2> QED  BY <1>3, <2>1, <2>2, <2>3 DEF NameInv, Verdict
<1> QED  BY <1>7, <1>8, <1>9 DEF SignInInv

LEMMA CheckFailsOK ==
  ASSUME SignInInv, NEW r \in acNet, CheckFails(r)
  PROVE  SignInInv'
<1> DEFINE a == [r EXCEPT !.kind = "checked"]
<1>1. r.kind = "check" /\ r \in AuthRequests
  BY DEF CheckFails, AuthNet, SignInInv, AcTypeOK
<1>2. a \in AuthRequests /\ a.kind = "checked"
  <2>1. "checked" \in AuthKinds
    BY DEF AuthKinds
  <2> QED  BY <1>1, <2>1, KindType
<1>3. acNet' \in {acNet \ {r}, (acNet \ {r}) \cup {a}}
  BY DEF CheckFails
<1> HIDE DEF a
<1>4. AuthNet(Awaited)' = AuthNet(Awaited) /\ acNet' \subseteq acNet \cup {a}
  BY <1>1, <1>2, <1>3 DEF AuthNet, Awaited, Forms
<1>5. acAt = "auth"
  BY <1>1, OnAuthPage DEF OnPage
<1>6. AcTypeOK' /\ KeptInv'
  BY <1>2, <1>4, <1>5 DEF CheckFails, SignInInv, AcTypeOK, KeptInv, acKept
<1>7. FormInv' /\ NameInv'
  BY <1>4 DEF CheckFails, SignInInv, FormInv, NameInv
<1> QED  BY <1>6, <1>7 DEF SignInInv

LEMMA CheckedOK ==
  ASSUME SignInInv, NEW r \in acNet, Checked(r)
  PROVE  SignInInv'
<1>1. r.kind = "checked" /\ acNet' = acNet \ {r} /\ r \in AuthRequests
  BY DEF Checked, AuthNet, SignInInv, AcTypeOK
<1>2. acAt = "auth"
  BY <1>1, OnAuthPage DEF OnPage
<1>3. /\ UNCHANGED <<acAt, acMode, acName, acBusy, acTimer, acUsers, acCookie, acKept, acSubmits,
                      acTyped, acDoubt, acThrown>>
      /\ acTaken' = r.ok /\ r.ok \in BOOLEAN
  BY <1>1, <1>2 DEF Checked, AuthRequests
<1>4. /\ AuthNet(Awaited)' = AuthNet(Awaited) /\ AuthNet({"answer"})' = AuthNet({"answer"})
      /\ Checks' = Checks \ {r} /\ r \in Checks
  BY <1>1 DEF AuthNet, Awaited, Forms, Checks
<1>5. AcTypeOK' /\ KeptInv'
  BY <1>1, <1>2, <1>3 DEF SignInInv, AcTypeOK, KeptInv, acKept
<1>6. FormInv'
  BY <1>3, <1>4 DEF SignInInv, FormInv
<1>7. NameInv'
  <2> SUFFICES ASSUME acMode = "signup", ~ acDoubt PROVE NameInv'
    BY <1>3 DEF NameInv
  <2>1. Checks = {r} /\ r.name = acName /\ acName # Short /\ acTimer = None /\ Verdict(r.ok)
    BY <1>1, <1>2, <1>4 DEF SignInInv, NameInv
  <2>2. Checks' = {} /\ Verdict(acTaken)'
    BY <1>3, <1>4, <2>1 DEF Verdict, Welcome
  <2> QED  BY <1>3, <2>1, <2>2 DEF NameInv
<1> QED  BY <1>5, <1>6, <1>7 DEF SignInInv

\* A form is judged: only an accepted signup that is heard of makes a verdict old.
LEMMA FormArrivesOK ==
  ASSUME SignInInv, NEW r \in acNet, FormArrives(r)
  PROVE  SignInInv'
<1>1. r.kind \in Forms /\ r \in AuthRequests
  BY DEF FormArrives, AuthNet, SignInInv, AcTypeOK
<1>2. acAt = "auth"
  BY <1>1, OnAuthPage DEF OnPage, Awaited
<1>3. UNCHANGED <<acAt, acMode, acName, acBusy, acTaken, acTimer, acTyped, acKept, acSubmits, acThrown>>
  BY DEF FormArrives
<1>4. PICK a \in AuthRequests :
        /\ a.kind \in {"answer", "code"} /\ acNet' = (acNet \ {r}) \cup {a}
        /\ acUsers' \subseteq Names /\ acDoubt' \in BOOLEAN
        /\ ~ acDoubt' => ~ acDoubt /\ (acUsers' = acUsers \/ (a.kind = "answer" /\ a.ok))
  <2>1. CASE r.kind = "forgot"
    <3>1. acNet' = (acNet \ {r}) \cup {[r EXCEPT !.kind = "code"]} /\ UNCHANGED <<acUsers, acDoubt>>
      BY <2>1 DEF FormArrives
    <3> DEFINE c == [r EXCEPT !.kind = "code"]
    <3>2. c \in AuthRequests /\ c.kind = "code"
      <4>1. "code" \in AuthKinds
        BY DEF AuthKinds
      <4> QED  BY <1>1, <4>1, KindType
    <3>3. acNet' = (acNet \ {r}) \cup {c} /\ acUsers' = acUsers /\ acUsers \subseteq Names
          /\ acDoubt' = acDoubt /\ acDoubt \in BOOLEAN
      BY <3>1 DEF SignInInv, AcTypeOK
    <3> HIDE DEF c
    <3> QED  BY <3>2, <3>3
  <2>2. CASE r.kind # "forgot"
    <3>1. PICK ok \in BOOLEAN, heard \in BOOLEAN, who \in Names \cup {Short, None} :
            /\ Signs(r, who, ok, heard) /\ (ok => who \in Names)
            /\ r.kind # "signup" => (ok => who \in acUsers)
      <4>1. PICK ok \in BOOLEAN, heard \in BOOLEAN :
              CASE r.kind = "login" -> (ok => r.name \in acUsers) /\ Signs(r, r.name, ok, heard)
                [] r.kind = "signup" -> /\ ok => r.name \in Names \ acUsers
                                        /\ Signs(r, r.name, ok, heard)
                [] r.kind = "reset" -> \E who \in acUsers : Signs(r, who, ok, heard)
        BY <1>1, <2>2 DEF FormArrives, Forms
      <4> QED  BY <1>1, <2>2, <4>1 DEF Forms, SignInInv, AcTypeOK, AuthRequests
    <3> DEFINE a == [r EXCEPT !.kind = "answer", !.ok = ok /\ heard]
    <3>2. a \in AuthRequests /\ a.kind = "answer" /\ a.ok = (ok /\ heard)
      <4> DEFINE good == ok /\ heard
      <4>1. good \in BOOLEAN
        OBVIOUS
      <4> HIDE DEF good
      <4>2. "answer" \in AuthKinds
        BY DEF AuthKinds
      <4>3. a = [r EXCEPT !.kind = "answer", !.ok = good]
        BY DEF good
      <4>4. a \in AuthRequests /\ a.kind = "answer" /\ a.ok = good
        BY <1>1, <4>1, <4>2, <4>3 DEF AuthRequests
      <4> QED  BY <4>4 DEF good
    <3>3. /\ acNet' = (acNet \ {r}) \cup {a} /\ acUsers' = (IF ok THEN acUsers \cup {who} ELSE acUsers)
          /\ acDoubt' = (acDoubt \/ (r.kind = "signup" /\ ok /\ ~ heard))
      BY <3>1 DEF Signs
    <3> HIDE DEF a
    <3>4. acUsers' \subseteq Names /\ acDoubt' \in BOOLEAN
      BY <3>1, <3>3 DEF SignInInv, AcTypeOK
    <3>5. ~ acDoubt' => ~ acDoubt /\ (acUsers' = acUsers \/ (a.kind = "answer" /\ a.ok))
      BY <3>1, <3>2, <3>3
    <3> QED  BY <3>2, <3>3, <3>4, <3>5
  <2> QED  BY <2>1, <2>2
<1>5. /\ AuthNet(Awaited)' = (AuthNet(Awaited) \ {r}) \cup {a} /\ r \in AuthNet(Awaited)
      /\ Checks' = Checks
      /\ AuthNet({"answer"})' = AuthNet({"answer"}) \cup (IF a.kind = "answer" THEN {a} ELSE {})
  BY <1>1, <1>4 DEF AuthNet, Awaited, Forms, Checks
<1>6. AcTypeOK' /\ KeptInv'
  BY <1>2, <1>3, <1>4 DEF SignInInv, AcTypeOK, KeptInv, acKept
<1>7. FormInv'
  BY <1>3, <1>5 DEF SignInInv, FormInv
<1>8. NameInv'
  <2> SUFFICES ASSUME acMode = "signup", ~ acDoubt' PROVE NameInv'
    BY <1>3 DEF NameInv
  <2>1. ~ acDoubt /\ (Welcome' \/ (acUsers' = acUsers /\ Welcome' = Welcome))
    <3>1. CASE a.kind = "answer" /\ a.ok
      BY <1>4, <1>5, <3>1 DEF Welcome
    <3>2. CASE ~ (a.kind = "answer" /\ a.ok)
      BY <1>4, <1>5, <3>2 DEF Welcome
    <3> QED  BY <1>4, <3>1, <3>2
  <2>2. \A ok : Verdict(ok) => Verdict(ok)'
    BY <1>3, <2>1 DEF Verdict
  <2>3. NameInv
    BY DEF SignInInv
  <2> QED  BY <1>2, <1>3, <1>5, <2>1, <2>2, <2>3 DEF NameInv
<1> QED  BY <1>6, <1>7, <1>8 DEF SignInInv

LEMMA CodeSentOK ==
  ASSUME SignInInv, NEW r \in acNet, CodeSent(r)
  PROVE  SignInInv'
<1>1. r.kind = "code" /\ acNet' = acNet \ {r}
  BY DEF CodeSent, AuthNet
<1>2. acAt = "auth"
  BY <1>1, OnAuthPage DEF OnPage, Awaited
<1>3. AuthNet(Awaited)' = AuthNet(Awaited) \ {r} /\ r \in AuthNet(Awaited)
  BY <1>1 DEF AuthNet, Awaited
<1>4. AcTypeOK' /\ KeptInv'
  BY <1>1, <1>2 DEF CodeSent, CheckName, SignInInv, AcTypeOK, KeptInv, Modes, acKept
<1>5. FormInv' /\ NameInv'
  BY <1>3 DEF CodeSent, SignInInv, FormInv, NameInv
<1> QED  BY <1>4, <1>5 DEF SignInInv

LEMMA AnswerOK ==
  ASSUME SignInInv, NEW r \in acNet, Answer(r)
  PROVE  SignInInv'
<1>1. r.kind = "answer" /\ acBusy' = FALSE
      /\ UNCHANGED <<acMode, acName, acTaken, acTimer, acUsers, acCookie, acKept, acSubmits,
                     acTyped, acDoubt, acThrown>>
  BY DEF Answer, AuthNet
<1>2. acAt = "auth"
  BY <1>1, OnAuthPage DEF OnPage, Awaited
<1>3. AuthNet(Awaited) = {r} /\ acNet' \subseteq acNet
  BY <1>1 DEF Answer, SignInInv, FormInv, AuthNet, Awaited
<1>4. CASE r.ok
  <2>1. acNet' = AuthNet({"logout", "loggedout"}) /\ acAt' = "guard"
    BY <1>4 DEF Answer
  <2>2. AuthNet(OnPage)' = {} /\ AuthNet(Awaited)' = {}
    BY <2>1 DEF AuthNet, OnPage, Awaited, Forms
  <2>3. AcTypeOK' /\ KeptInv'
    BY <1>1, <1>2, <1>3, <2>1, <2>2 DEF SignInInv, AcTypeOK, KeptInv, acKept
  <2>4. FormInv' /\ NameInv'
    BY <2>1, <2>2 DEF FormInv, NameInv
  <2> QED  BY <2>3, <2>4 DEF SignInInv
<1>5. CASE ~ r.ok
  <2>1. acNet' = acNet \ {r} /\ acAt' = "auth"
    BY <1>2, <1>5 DEF Answer
  <2>2. AuthNet(Awaited)' = {} /\ Checks' = Checks
    BY <1>1, <1>3, <2>1 DEF AuthNet, Checks
  <2>3. AcTypeOK' /\ KeptInv'
    BY <1>1, <1>2, <1>3, <2>1 DEF SignInInv, AcTypeOK, KeptInv, acKept
  <2>4. FormInv'
    BY <2>2 DEF FormInv
  <2>5. ~ Welcome
    BY <1>3, <1>5 DEF Welcome, AuthNet, Awaited
  <2>6. NameInv'
    BY <1>1, <1>2, <2>1, <2>2, <2>5 DEF SignInInv, NameInv, Verdict
  <2> QED  BY <2>3, <2>4, <2>6 DEF SignInInv
<1> QED  BY <1>4, <1>5

LEMMA SignInStepOK == SignInInv /\ [NextSignIn]_acVars => SignInInv'
<1> SUFFICES ASSUME SignInInv, [NextSignIn]_acVars PROVE SignInInv'
  OBVIOUS
<1>1. CASE SwitchMode \/ TypeName \/ CheckDue \/ SubmitForm
  BY <1>1, FormOK
<1>2. CASE SessionEnds \/ Guard \/ Query \/ Logout
  BY <1>2, SessionEndsOK, GuardOK, QueryOK, LogoutOK
<1>3. CASE \E r \in acNet : CheckArrives(r) \/ CheckFails(r) \/ FormArrives(r) \/ Checked(r)
                            \/ Answer(r) \/ CodeSent(r) \/ LogoutArrives(r) \/ LoggedOut(r)
  BY <1>3, CheckArrivesOK, CheckFailsOK, FormArrivesOK, CheckedOK, AnswerOK, CodeSentOK,
     LogoutArrivesOK, LoggedOutOK
<1>4. CASE UNCHANGED acVars
  <2>1. \A kinds : AuthNet(kinds)' = AuthNet(kinds)
    BY <1>4 DEF acVars, AuthNet
  <2>2. AcTypeOK' /\ KeptInv' /\ FormInv'
    BY <1>4, <2>1 DEF acVars, SignInInv, AcTypeOK, KeptInv, FormInv
  <2>3. NameInv'
    BY <1>4, <2>1 DEF acVars, SignInInv, NameInv, Verdict, Welcome, Checks
  <2> QED  BY <2>2, <2>3 DEF SignInInv
<1> QED  BY <1>1, <1>2, <1>3, <1>4 DEF NextSignIn

\* Whoever is signed in finds no data and no thread of the user before, unless the
\* page had left the app otherwise than by logging out: for any names, double
\* logouts, logouts that never arrive and answers that come late (onLogout,
\* RequireAuth).
THEOREM NothingIsLeft == SpecSignIn => []NothingOfOthers
<1>1. SignInInv => NothingOfOthers
  BY DEF SignInInv, KeptInv, NothingOfOthers
<1> QED  BY <1>1, SignInInitOK, SignInStepOK, PTL DEF SpecSignIn

\* Once its check came, a name is called taken exactly when it is: for any names, edits,
\* changes of the mode and orders of the answers, unless an answer may have come for
\* another name, a check failed, or a signup was not heard of (AuthPage).
THEOREM TakenMeansTaken == SpecSignIn => []TakenIsTrue
<1>1. SignInInv => TakenIsTrue
  <2> SUFFICES ASSUME SignInInv, acAt = "auth", acMode = "signup", ~ acBusy, acTimer = None,
                      Checks = {}, ~ acDoubt
               PROVE  acTaken = (acName \in acUsers)
    BY DEF TakenIsTrue
  <2>1. ~ Welcome
    BY DEF SignInInv, FormInv, Welcome, AuthNet, Awaited
  <2>2. Short \notin acUsers /\ None \notin Names \cup {Short} /\ acName \in Names \cup {Short}
    BY NamesAssumption DEF SignInInv, AcTypeOK, Short, None
  <2> QED  BY <2>1, <2>2 DEF SignInInv, AcTypeOK, NameInv, Verdict
<1> QED  BY <1>1, SignInInitOK, SignInStepOK, PTL DEF SpecSignIn

-----------------------------------------------------------------------------
(* SessionList *)

Words == {"none", "first", "second", "", "on", "off"}
ChatRows == [auto : BOOLEAN, pinned : BOOLEAN, title : Words]
Lists == [Chats -> ChatRows]
SessionAsked == {"auto", "pin", "rename", "delete", "import", "imported", "done", "post"}
Requests == [kind : SessionAsked, chat : Chats \cup {"none"}, value : Words, n : Nat]
Fetches == [kind : {"list"}, n : Nat]
ListAnswers == [kind : {"listed"}, n : Nat, list : Lists]
Messages == Requests \cup Fetches \cup ListAnswers

\* The types of what the page and the server hold, and of what is in flight.
SlTypeOK ==
  /\ slChat \in Chats /\ slUsed \subseteq Chats
  /\ slAuto \in BOOLEAN /\ slDefault \in BOOLEAN
  /\ slRows \in Lists /\ slCache \in Lists
  /\ slFetches \in Nat /\ slClicks \in Nat
  /\ slNet \subseteq Messages
  /\ slEditing \in [chat : Chats \cup {"none"}, draft : Words]

\* Where auto-approve is on it was granted: in a list, and in a request or an
\* answer under way, however old.
OnlyGranted(list, granted) == \A c \in Chats : list[c].auto => c \in granted
MessageSound(r, granted) ==
  /\ r.kind \in {"auto", "pin", "rename", "delete", "imported", "post"} => r.chat \in Chats
  /\ r.kind \in {"auto", "post"} /\ r.value = "on" => r.chat \in granted
  /\ r.kind = "listed" => OnlyGranted(r.list, granted)
GrantInv ==
  /\ OnlyGranted(slRows, slGranted) /\ OnlyGranted(slCache, slGranted)
  /\ \A r \in slNet : MessageSound(r, slGranted)
  /\ NoBorrowedApproval

-----------------------------------------------------------------------------
(* The parts of a step *)

USE DEF Words, SessionAsked

\* Grants are never taken back, and what was in flight stays sound.
LEMMA GrantsGrow ==
  ASSUME GrantInv, slGranted \subseteq slGranted'
  PROVE  /\ slRows' = slRows => OnlyGranted(slRows', slGranted')
         /\ slCache' = slCache => OnlyGranted(slCache', slGranted')
         /\ \A r \in slNet : MessageSound(r, slGranted')
  BY DEF GrantInv, OnlyGranted, MessageSound

\* A step that leaves the lists alone and sends only sound messages.
LEMMA SendsOnly ==
  ASSUME GrantInv, slGranted \subseteq slGranted', UNCHANGED <<slRows, slCache>>,
         \A r \in slNet' : r \in slNet \/ MessageSound(r, slGranted'), NoBorrowedApproval'
  PROVE  GrantInv'
  BY GrantsGrow DEF GrantInv

\* The switch set from a sound list is on in a chat that has it granted.
LEMMA HydrateGrants ==
  ASSUME NEW c \in Chats, NEW list \in Lists, OnlyGranted(list, slGranted), NEW default \in BOOLEAN
  PROVE  /\ Hydrate(c, list, default) \in BOOLEAN
         /\ Hydrate(c, list, default) => c \in Granted(c, list, default)
         /\ slGranted \subseteq Granted(c, list, default)
<1>1. list[c] \in ChatRows
  BY DEF Lists
<1> QED  BY <1>1 DEF Hydrate, Granted, OnlyGranted, ChatRows

\* The fetch that replaces another.
LEMMA ListFetched ==
  ASSUME NEW net, net \subseteq Messages, slFetches \in Nat, Invalidate(net)
  PROVE  /\ slFetches' \in Nat /\ slNet' \subseteq Messages
         /\ \A r \in slNet' : r \in net \/ r.kind = "list"
<1>1. slFetches' \in Nat /\ slNet' = net \cup {GetList(slFetches')}
  BY DEF Invalidate
<1>2. GetList(slFetches') \in Fetches /\ GetList(slFetches').kind = "list"
  BY <1>1 DEF GetList, Fetches
<1> QED  BY <1>1, <1>2 DEF Messages

LEMMA FetchSound == ASSUME NEW r, r.kind = "list" PROVE MessageSound(r, slGranted')
  BY DEF MessageSound

\* A request made by hand.
LEMMA ReqSound ==
  ASSUME SlTypeOK, NEW kind \in SessionAsked, NEW c \in Chats \cup {"none"}, NEW value \in Words,
         c \in Chats \/ kind = "import",
         kind \in {"auto", "post"} /\ value = "on" => c \in slGranted'
  PROVE  Req(kind, c, value) \in Messages /\ MessageSound(Req(kind, c, value), slGranted')
<1>1. slClicks \in Nat
  BY DEF SlTypeOK
<1>2. Req(kind, c, value) \in Requests
  BY <1>1 DEF Req, Requests
<1>3. MessageSound(Req(kind, c, value), slGranted')
  BY DEF Req, MessageSound
<1> QED  BY <1>2, <1>3 DEF Messages

LEMMA ClickType == ASSUME slClicks \in Nat, Click PROVE slClicks' \in Nat
  BY DEF Click

\* Opening a chat.
LEMMA ChatOpened ==
  ASSUME SlTypeOK, GrantInv, NEW c \in Chats, NEW net, net \subseteq Messages,
         \A r \in net : r \in slNet \/ MessageSound(r, slGranted'), Open(c, net),
         UNCHANGED <<slDefault, slRows, slCache>>
  PROVE  /\ slChat' \in Chats /\ slAuto' \in BOOLEAN
         /\ slFetches' \in Nat /\ slNet' \subseteq Messages
         /\ GrantInv' /\ slGranted \subseteq slGranted'
<1>1. /\ slChat' = c /\ slAuto' = Hydrate(c, slCache, slDefault)
      /\ slGranted' = Granted(c, slCache, slDefault)
  BY DEF Open
<1>2. /\ slAuto' \in BOOLEAN /\ slGranted \subseteq slGranted' /\ NoBorrowedApproval'
  BY <1>1, HydrateGrants DEF SlTypeOK, GrantInv, NoBorrowedApproval
<1>3. /\ slFetches' \in Nat /\ slNet' \subseteq Messages
      /\ \A r \in slNet' : r \in net \/ r.kind = "list"
  <2>1. CASE Invalidate(net)
    BY <2>1, ListFetched DEF SlTypeOK
  <2>2. CASE slNet' = net /\ slFetches' = slFetches
    BY <2>2 DEF SlTypeOK
  <2> QED  BY <2>1, <2>2 DEF Open
<1>4. \A r \in slNet' : r \in slNet \/ MessageSound(r, slGranted')
  BY <1>3, FetchSound
<1>5. GrantInv'
  BY <1>2, <1>4, SendsOnly
<1> QED  BY <1>1, <1>2, <1>3, <1>5

-----------------------------------------------------------------------------
(* The actions *)

LEMMA SessionsInitOK == InitSessionList => SlTypeOK /\ GrantInv
<1> SUFFICES ASSUME InitSessionList PROVE SlTypeOK /\ GrantInv
  OBVIOUS
<1> USE FirstChatAssumption DEF InitSessionList
<1>1. NoRow \in ChatRows /\ Row(FirstAuto) \in ChatRows /\ ~ NoRow.auto
      /\ Row(FirstAuto).auto = FirstAuto
  BY DEF NoRow, Row, ChatRows
<1>2. slRows \in Lists /\ slCache \in Lists
  BY <1>1 DEF Lists, NoRows
<1>3. OnlyGranted(slRows, slGranted) /\ OnlyGranted(slCache, slGranted)
  BY <1>1 DEF OnlyGranted, NoRows
<1>4. GetList(1) \in Messages /\ MessageSound(GetList(1), slGranted)
  BY DEF GetList, Messages, Fetches, MessageSound
<1>5. SlTypeOK
  BY <1>2, <1>4 DEF SlTypeOK, NotEditing
<1>6. GrantInv
  BY <1>3, <1>4 DEF GrantInv, NoBorrowedApproval
<1> QED  BY <1>5, <1>6

LEMMA ToggleAutoOK == SlTypeOK /\ GrantInv /\ ToggleAuto => SlTypeOK' /\ GrantInv'
<1> SUFFICES ASSUME SlTypeOK, GrantInv, ToggleAuto PROVE SlTypeOK' /\ GrantInv'
  OBVIOUS
<1> DEFINE r == Req("auto", slChat, OnOff(slAuto'))
<1>1. slAuto' \in BOOLEAN /\ slChat \in Chats /\ slChat' = slChat
  BY DEF SlTypeOK, ToggleAuto
<1>2. slGranted \subseteq slGranted' /\ (slAuto' => slChat \in slGranted')
  BY DEF ToggleAuto
<1>3. OnOff(slAuto') \in Words /\ (OnOff(slAuto') = "on" => slAuto')
  BY DEF OnOff
<1>4. r \in Messages /\ MessageSound(r, slGranted')
  BY <1>1, <1>2, <1>3, ReqSound
<1>5. slNet' = slNet \cup {r}
  BY DEF ToggleAuto
<1> HIDE DEF r
<1>6. GrantInv'
  BY <1>1, <1>2, <1>4, <1>5, SendsOnly DEF ToggleAuto, NoBorrowedApproval
<1>7. SlTypeOK'
  BY <1>1, <1>4, <1>5, ClickType DEF SlTypeOK, ToggleAuto
<1> QED  BY <1>6, <1>7

LEMMA ToggleDefaultOK == SlTypeOK /\ GrantInv /\ ToggleDefault => SlTypeOK' /\ GrantInv'
<1> SUFFICES ASSUME SlTypeOK, GrantInv, ToggleDefault PROVE SlTypeOK' /\ GrantInv'
  OBVIOUS
<1>1. slDefault' \in BOOLEAN /\ OnlyGranted(slCache, slGranted) /\ slCache \in Lists
      /\ slChat \in Chats
  BY DEF SlTypeOK, GrantInv, ToggleDefault
<1>2. /\ slAuto' \in BOOLEAN /\ slGranted \subseteq slGranted' /\ NoBorrowedApproval'
  BY <1>1, HydrateGrants DEF ToggleDefault, NoBorrowedApproval
<1>3. GrantInv'
  BY <1>2, SendsOnly DEF ToggleDefault
<1>4. SlTypeOK'
  BY <1>1, <1>2, ClickType DEF SlTypeOK, ToggleDefault
<1> QED  BY <1>3, <1>4

LEMMA SelectChatOK ==
  ASSUME SlTypeOK, GrantInv, NEW c \in Chats, SelectChat(c)
  PROVE  SlTypeOK' /\ GrantInv'
<1>1. Open(c, slNet) /\ UNCHANGED <<slDefault, slRows, slCache>> /\ slNet \subseteq Messages
  BY DEF SelectChat, SlTypeOK
<1>2. /\ slChat' \in Chats /\ slAuto' \in BOOLEAN
      /\ slFetches' \in Nat /\ slNet' \subseteq Messages /\ GrantInv'
  BY <1>1, ChatOpened
<1> QED  BY <1>2, ClickType DEF SlTypeOK, SelectChat

\* A new chat takes the place of the open one, with sound requests.
LEMMA NewConversationOK ==
  ASSUME SlTypeOK, GrantInv, NEW net, net \subseteq Messages,
         \A r \in net : r \in slNet \/ MessageSound(r, slGranted'), Click, NewConversation(net),
         UNCHANGED <<slDefault, slRows, slCache, slEditing>>
  PROVE  SlTypeOK' /\ GrantInv'
<1>1. PICK c \in Chats \ slUsed : slUsed' = slUsed \cup {c} /\ Open(c, net)
  BY DEF NewConversation
<1>2. /\ slChat' \in Chats /\ slAuto' \in BOOLEAN
      /\ slFetches' \in Nat /\ slNet' \subseteq Messages /\ GrantInv'
  BY <1>1, ChatOpened
<1> QED  BY <1>1, <1>2, ClickType DEF SlTypeOK

LEMMA OpenNewChatOK == SlTypeOK /\ GrantInv /\ OpenNewChat => SlTypeOK' /\ GrantInv'
<1> SUFFICES ASSUME SlTypeOK, GrantInv, OpenNewChat PROVE SlTypeOK' /\ GrantInv'
  OBVIOUS
<1>1. slNet \subseteq Messages
  BY DEF SlTypeOK
<1> QED  BY <1>1, NewConversationOK DEF OpenNewChat

LEMMA RemoveOpenOK ==
  ASSUME SlTypeOK, GrantInv, RemoveOpen PROVE SlTypeOK' /\ GrantInv'
<1> DEFINE r == Req("delete", slChat, "")
<1>1. r \in Messages /\ MessageSound(r, slGranted')
  BY ReqSound DEF SlTypeOK
<1>2. Click /\ NewConversation(slNet \cup {r}) /\ slNet \subseteq Messages
      /\ UNCHANGED <<slDefault, slRows, slCache, slEditing>>
  BY DEF RemoveOpen, SlTypeOK
<1> HIDE DEF r
<1> QED  BY <1>1, <1>2, NewConversationOK

LEMMA SendRunOK == SlTypeOK /\ GrantInv /\ SendRun => SlTypeOK' /\ GrantInv'
<1> SUFFICES ASSUME SlTypeOK, GrantInv, SendRun PROVE SlTypeOK' /\ GrantInv'
  OBVIOUS
<1> DEFINE r == Req("post", slChat, OnOff(slAuto))
<1>1. OnOff(slAuto) \in Words /\ (OnOff(slAuto) = "on" => slAuto)
  BY DEF OnOff
<1>2. r \in Messages /\ MessageSound(r, slGranted')
  BY <1>1, ReqSound DEF SlTypeOK, SessionAsked, GrantInv, NoBorrowedApproval, SendRun
<1>3. slNet' = slNet \cup {r}
  BY DEF SendRun
<1> HIDE DEF r
<1>4. GrantInv'
  BY <1>2, <1>3, SendsOnly DEF SendRun, GrantInv, NoBorrowedApproval
<1> QED  BY <1>2, <1>3, <1>4, ClickType DEF SlTypeOK, SendRun

LEMMA RunEndedOK == SlTypeOK /\ GrantInv /\ RunEnded => SlTypeOK' /\ GrantInv'
<1> SUFFICES ASSUME SlTypeOK, GrantInv, RunEnded PROVE SlTypeOK' /\ GrantInv'
  OBVIOUS
<1>1. /\ slFetches' \in Nat /\ slNet' \subseteq Messages
      /\ \A r \in slNet' : r \in slNet \/ r.kind = "list"
  BY ListFetched DEF RunEnded, SlTypeOK
<1>2. GrantInv'
  BY <1>1, FetchSound, SendsOnly DEF RunEnded, GrantInv, NoBorrowedApproval
<1> QED  BY <1>1, <1>2 DEF SlTypeOK, RunEnded

\* A step of the sidebar that sends one request.
LEMMA AsksOK ==
  ASSUME SlTypeOK, GrantInv, NEW kind \in SessionAsked \ {"auto", "post"},
         NEW c \in Chats \cup {"none"}, c \in Chats \/ kind = "import",
         NEW value \in Words, Asks(Req(kind, c, value)),
         slEditing' \in [chat : Chats \cup {"none"}, draft : Words]
  PROVE  SlTypeOK' /\ GrantInv'
<1> DEFINE r == Req(kind, c, value)
<1>1. r \in Messages /\ MessageSound(r, slGranted')
  BY ReqSound
<1>2. Asks(r)
  OBVIOUS
<1> HIDE DEF r
<1>3. /\ slNet' = slNet \cup {r} /\ slGranted' = slGranted
      /\ UNCHANGED <<slChat, slAuto, slRows, slCache>>
  BY <1>2 DEF Asks, slPage
<1>4. NoBorrowedApproval'
  BY <1>3 DEF GrantInv, NoBorrowedApproval
<1>5. GrantInv'
  BY <1>1, <1>3, <1>4, SendsOnly
<1> QED  BY <1>1, <1>2, <1>3, <1>5, ClickType DEF SlTypeOK, Asks, slPage

\* A step of the title's editor that sends nothing.
LEMMA EditsOK ==
  ASSUME SlTypeOK, GrantInv,
         UNCHANGED <<slPage, slDefault, slRows, slCache, slNet, slClicks, slFetches>>,
         slEditing' \in [chat : Chats \cup {"none"}, draft : Words]
  PROVE  SlTypeOK' /\ GrantInv'
<1>1. GrantInv'
  BY SendsOnly DEF slPage, GrantInv, NoBorrowedApproval
<1> QED  BY <1>1 DEF SlTypeOK, slPage

LEMMA SidebarOK ==
  ASSUME SlTypeOK, GrantInv, NEW c \in Chats,
         TogglePin(c) \/ StartEdit(c) \/ DeleteChat(c)
  PROVE  SlTypeOK' /\ GrantInv'
<1> DEFINE Editing == [chat : Chats \cup {"none"}, draft : Words]
<1>1. slEditing \in Editing /\ slCache[c].title \in Words
  BY DEF SlTypeOK, Lists, ChatRows
<1>2. CASE TogglePin(c)
  <2>1. OnOff(~ slCache[c].pinned) \in Words
    BY DEF OnOff
  <2> QED  BY <1>1, <1>2, <2>1, AsksOK DEF TogglePin
<1>3. CASE StartEdit(c)
  BY <1>1, <1>3, EditsOK DEF StartEdit
<1>4. CASE DeleteChat(c)
  <2>1. CASE RemoveOpen
    BY <2>1, RemoveOpenOK
  <2>2. CASE Asks(Req("delete", c, "")) /\ UNCHANGED slEditing
    BY <1>1, <2>2, AsksOK
  <2> QED  BY <1>4, <2>1, <2>2 DEF DeleteChat
<1> QED  BY <1>2, <1>3, <1>4

LEMMA EditorOK ==
  ASSUME SlTypeOK, GrantInv, TypeTitle \/ CommitTitle \/ DropTitle \/ ImportFile
  PROVE  SlTypeOK' /\ GrantInv'
<1> DEFINE Editing == [chat : Chats \cup {"none"}, draft : Words]
<1>1. slEditing \in Editing /\ NotEditing \in Editing
  BY DEF SlTypeOK, NotEditing
<1>2. CASE TypeTitle
  <2>1. slEditing' \in Editing
    BY <1>1, <1>2 DEF TypeTitle
  <2> QED  BY <1>2, <2>1, EditsOK DEF TypeTitle
<1>3. CASE CommitTitle
  <2>1. slEditing.chat \in Chats /\ slEditing' \in Editing /\ slEditing.draft \in Words
    BY <1>1, <1>3 DEF CommitTitle, EditorOffered, Listed
  <2>2. CASE Asks(Req("rename", slEditing.chat, slEditing.draft))
    BY <2>1, <2>2, AsksOK
  <2>3. CASE UNCHANGED <<slPage, slDefault, slRows, slCache, slFetch, slNet, slClicks, slFetches,
                         slRefused>>
    BY <2>1, <2>3, EditsOK
  <2> QED  BY <1>3, <2>2, <2>3 DEF CommitTitle
<1>4. CASE DropTitle
  BY <1>1, <1>4, EditsOK DEF DropTitle
<1>5. CASE ImportFile
  BY <1>1, <1>5, AsksOK DEF ImportFile
<1> QED  BY <1>2, <1>3, <1>4, <1>5

-----------------------------------------------------------------------------
(* The server, and its answers *)

\* Messages are told apart by their kind.
LEMMA MessageKinds ==
  ASSUME SlTypeOK, NEW r \in slNet
  PROVE  /\ r.kind \in SessionAsked => r \in Requests
         /\ r.kind = "listed" => r \in ListAnswers
  BY DEF SlTypeOK, Messages, Requests, Fetches, ListAnswers

\* A request that only leaves, or is answered.
LEMMA AnswerSound ==
  ASSUME SlTypeOK, NEW r \in slNet, r.kind \in SessionAsked, NEW kind \in {"done", "imported"},
         NEW c \in Chats \cup {"none"}, c \in Chats \/ kind = "done"
  PROVE  LET a == [r EXCEPT !.kind = kind, !.chat = c]
         IN a \in Messages /\ MessageSound(a, slGranted')
<1>1. r \in Requests
  BY MessageKinds
<1> QED  BY <1>1 DEF Requests, Messages, MessageSound

LEMMA DoneSound ==
  ASSUME SlTypeOK, NEW r \in slNet, r.kind \in SessionAsked
  PROVE  \A a \in Done(r) : a \in Messages /\ MessageSound(a, slGranted')
<1>1. r \in Requests
  BY MessageKinds
<1> QED  BY <1>1 DEF Done, Requests, Messages, MessageSound

\* A row of the server is replaced, or a request dropped.
LEMMA RowsChange ==
  ASSUME SlTypeOK, GrantInv, UNCHANGED <<slPage, slDefault, slCache, slFetch, slEditing,
                                          slClicks, slFetches>>,
         NEW c \in Chats, NEW row \in ChatRows, row.auto => c \in slGranted,
         slRows' = slRows \/ slRows' = [slRows EXCEPT ![c] = row],
         \A r \in slNet' : r \in slNet \/ (r \in Messages /\ MessageSound(r, slGranted'))
  PROVE  SlTypeOK' /\ GrantInv'
<1>1. slRows' \in Lists /\ \A d \in Chats : slRows'[d].auto => d \in slGranted
  BY DEF SlTypeOK, Lists, GrantInv, OnlyGranted
<1>2. slGranted' = slGranted
  BY DEF slPage
<1>3. OnlyGranted(slRows', slGranted')
  BY <1>1, <1>2 DEF OnlyGranted
<1>4. GrantInv'
  BY <1>2, <1>3, GrantsGrow DEF GrantInv, NoBorrowedApproval, slPage
<1> QED  BY <1>1, <1>4 DEF SlTypeOK, slPage

LEMMA EmptyRow == NoRow \in ChatRows /\ Row(FALSE) \in ChatRows /\ ~ NoRow.auto /\ ~ Row(FALSE).auto
  BY DEF NoRow, Row, ChatRows

LEMMA UpdateArrivesOK ==
  ASSUME SlTypeOK, GrantInv, NEW r \in slNet, UpdateArrives(r)
  PROVE  SlTypeOK' /\ GrantInv'
<1>1. r.kind \in {"auto", "pin", "rename", "delete"} /\ r.kind \in SessionAsked
  BY DEF UpdateArrives, Kind
<1>2. r \in Requests /\ r.chat \in Chats
  BY <1>1, MessageKinds DEF GrantInv, MessageSound
<1>3. \A m \in slNet' : m \in slNet \/ (m \in Messages /\ MessageSound(m, slGranted'))
  BY <1>1, DoneSound DEF UpdateArrives
<1>4. PICK row \in ChatRows : /\ row.auto => r.chat \in slGranted
                              /\ slRows' = slRows \/ slRows' = [slRows EXCEPT ![r.chat] = row]
  <2>0. slRows[r.chat] \in ChatRows /\ (slRows[r.chat].auto => r.chat \in slGranted)
    BY <1>2 DEF SlTypeOK, Lists, GrantInv, OnlyGranted
  <2>1. CASE r.kind = "auto"
    <3> DEFINE row == [slRows[r.chat] EXCEPT !.auto = (r.value = "on")]
    <3>1. row \in ChatRows /\ row.auto = (r.value = "on")
      BY <2>0 DEF ChatRows
    <3>2. r.value = "on" => r.chat \in slGranted
      BY <2>1 DEF GrantInv, MessageSound
    <3>3. Changed(r.chat, row)
      BY <2>1 DEF UpdateArrives
    <3> HIDE DEF row
    <3> QED  BY <3>1, <3>2, <3>3 DEF Changed
  <2>2. CASE r.kind = "pin"
    <3> DEFINE row == [slRows[r.chat] EXCEPT !.pinned = (r.value = "on")]
    <3>1. row \in ChatRows /\ row.auto = slRows[r.chat].auto
      BY <2>0 DEF ChatRows
    <3>2. Changed(r.chat, row)
      BY <2>2 DEF UpdateArrives
    <3> HIDE DEF row
    <3> QED  BY <2>0, <3>1, <3>2 DEF Changed
  <2>3. CASE r.kind = "rename"
    <3> DEFINE row == [slRows[r.chat] EXCEPT !.title = r.value]
    <3>1. row \in ChatRows /\ row.auto = slRows[r.chat].auto
      BY <1>2, <2>0 DEF ChatRows, Requests
    <3>2. Changed(r.chat, row)
      BY <2>3 DEF UpdateArrives
    <3> HIDE DEF row
    <3> QED  BY <2>0, <3>1, <3>2 DEF Changed
  <2>4. CASE r.kind = "delete"
    <3>1. slRows' = [slRows EXCEPT ![r.chat] = NoRow]
      BY <2>4 DEF UpdateArrives
    <3> QED  BY <3>1, EmptyRow
  <2> QED  BY <1>1, <2>1, <2>2, <2>3, <2>4
<1> QED  BY <1>2, <1>3, <1>4, RowsChange DEF UpdateArrives

LEMMA UpdateFailsOK ==
  ASSUME SlTypeOK, GrantInv, NEW r \in slNet, UpdateFails(r)
  PROVE  SlTypeOK' /\ GrantInv'
<1>1. slRows' = slRows /\ slChat \in Chats /\ r.kind \in SessionAsked
  BY DEF UpdateFails, SlTypeOK, Kind
<1>2. slNet' \subseteq slNet \cup Done(r)
  BY DEF UpdateFails
<1>3. \A m \in slNet' : m \in slNet \/ (m \in Messages /\ MessageSound(m, slGranted'))
  BY <1>1, <1>2, DoneSound
<1> QED  BY <1>1, <1>3, EmptyRow, RowsChange DEF UpdateFails

LEMMA RunArrivesOK ==
  ASSUME SlTypeOK, GrantInv, NEW r \in slNet, RunArrives(r)
  PROVE  SlTypeOK' /\ GrantInv'
<1> DEFINE on == (r.value = "on")
           old == slRows[r.chat]
           row == IF old = NoRow THEN Row(on) ELSE [old EXCEPT !.auto = on]
<1>1. r.kind = "post" /\ r.chat \in Chats /\ (on => r.chat \in slGranted)
  BY DEF RunArrives, Kind, GrantInv, MessageSound
<1>2. old \in ChatRows
  BY <1>1 DEF SlTypeOK, Lists
<1>3. row \in ChatRows /\ row.auto = on
  BY <1>2 DEF ChatRows, Row, NoRow
<1>4. slRows' = [slRows EXCEPT ![r.chat] = row] /\ slNet' \subseteq slNet
  BY <1>1 DEF RunArrives, SlTypeOK, Lists
<1> HIDE DEF row
<1> QED  BY <1>1, <1>3, <1>4, RowsChange DEF RunArrives

LEMMA ImportArrivesOK ==
  ASSUME SlTypeOK, GrantInv, NEW r \in slNet, ImportArrives(r)
  PROVE  SlTypeOK' /\ GrantInv'
<1>1. PICK c \in Chats \ slUsed :
        /\ slRows' = [slRows EXCEPT ![c] = Row(FALSE)]
        /\ slUsed' = slUsed \cup {c}
        /\ slNet' = (slNet \ {r}) \cup {[r EXCEPT !.kind = "imported", !.chat = c]}
  BY DEF ImportArrives
<1> DEFINE a == [r EXCEPT !.kind = "imported", !.chat = c]
<1>2. a \in Messages /\ MessageSound(a, slGranted')
  BY AnswerSound DEF ImportArrives, Kind
<1> HIDE DEF a
<1>3. slRows' \in Lists /\ \A d \in Chats : slRows'[d].auto => d \in slGranted
  BY <1>1, EmptyRow DEF SlTypeOK, Lists, GrantInv, OnlyGranted
<1>4. UNCHANGED <<slChat, slAuto, slGranted, slDefault, slCache, slEditing, slClicks, slFetches>>
  BY DEF ImportArrives
<1>5. slNet' = (slNet \ {r}) \cup {a}
  BY <1>1 DEF a
<1>6. GrantInv'
  BY <1>2, <1>3, <1>4, <1>5 DEF GrantInv, OnlyGranted, NoBorrowedApproval
<1> QED  BY <1>1, <1>2, <1>3, <1>4, <1>5, <1>6 DEF SlTypeOK

LEMMA MutationDoneOK ==
  ASSUME SlTypeOK, GrantInv, NEW r \in slNet, MutationDone(r)
  PROVE  SlTypeOK' /\ GrantInv'
<1>1. Invalidate(slNet \ {r}) /\ slNet \ {r} \subseteq Messages
  BY DEF MutationDone, SlTypeOK
<1> DEFINE net == slNet \ {r}
<1>2. slFetches \in Nat /\ net \subseteq slNet /\ net \subseteq Messages /\ Invalidate(net)
  BY <1>1 DEF SlTypeOK
<1> HIDE DEF net
<1>3. /\ slFetches' \in Nat /\ slNet' \subseteq Messages
      /\ \A m \in slNet' : m \in slNet \/ m.kind = "list"
  BY <1>2, ListFetched
<1>4. GrantInv'
  BY <1>3, FetchSound, SendsOnly DEF MutationDone, slPage, GrantInv, NoBorrowedApproval
<1> QED  BY <1>3, <1>4 DEF SlTypeOK, MutationDone, slPage

LEMMA ImportDoneOK ==
  ASSUME SlTypeOK, GrantInv, NEW r \in slNet, ImportDone(r)
  PROVE  SlTypeOK' /\ GrantInv'
<1>1. Invalidate(slNet \ {r}) /\ slNet \ {r} \subseteq Messages
  BY DEF ImportDone, SlTypeOK
<1> DEFINE net == slNet \ {r}
<1>2. slFetches \in Nat /\ net \subseteq slNet /\ net \subseteq Messages /\ Invalidate(net)
  BY <1>1 DEF SlTypeOK
<1> HIDE DEF net
<1>3. /\ slFetches' \in Nat /\ slNet' \subseteq Messages
      /\ \A m \in slNet' : m \in slNet \/ m.kind = "list"
  BY <1>2, ListFetched
<1>4. /\ r.chat \in Chats /\ slChat' = r.chat
      /\ slAuto' = Hydrate(r.chat, slCache, slDefault)
      /\ slGranted' = Granted(r.chat, slCache, slDefault)
  BY DEF ImportDone, Kind, GrantInv, MessageSound
<1>5. slAuto' \in BOOLEAN /\ slGranted \subseteq slGranted' /\ NoBorrowedApproval'
  BY <1>4, HydrateGrants DEF SlTypeOK, GrantInv, NoBorrowedApproval
<1>6. GrantInv'
  BY <1>3, <1>5, FetchSound, SendsOnly DEF ImportDone
<1> QED  BY <1>3, <1>4, <1>5, <1>6 DEF SlTypeOK, ImportDone

\* The server's rows, or none when it fails.
LEMMA ListArrivesOK ==
  ASSUME SlTypeOK, GrantInv, NEW r \in slNet, ListArrives(r)
  PROVE  SlTypeOK' /\ GrantInv'
<1>1. PICK list \in {NoRows, slRows} : slNet' = (slNet \ {r}) \cup {GotList(r.n, list)}
  BY DEF ListArrives
<1>2. r.n \in Nat
  BY DEF SlTypeOK, Messages, Requests, Fetches, ListAnswers
<1>3. list \in Lists /\ OnlyGranted(list, slGranted)
  BY EmptyRow DEF NoRows, Lists, OnlyGranted, SlTypeOK, GrantInv
<1>4. GotList(r.n, list) \in ListAnswers
  BY <1>2, <1>3 DEF GotList, ListAnswers
<1>5. MessageSound(GotList(r.n, list), slGranted')
  BY <1>3 DEF GotList, MessageSound, OnlyGranted, ListArrives
<1>6. GrantInv'
  BY <1>1, <1>5, SendsOnly DEF ListArrives, GrantInv, NoBorrowedApproval
<1> QED  BY <1>1, <1>4, <1>6 DEF SlTypeOK, ListArrives, Messages

LEMMA AnswerLostOK ==
  ASSUME SlTypeOK, GrantInv, NEW r \in slNet, AnswerLost(r)
  PROVE  SlTypeOK' /\ GrantInv'
<1>1. slNet' \subseteq slNet
  BY DEF AnswerLost
<1>2. GrantInv'
  BY <1>1, SendsOnly DEF AnswerLost, GrantInv, NoBorrowedApproval
<1> QED  BY <1>1, <1>2 DEF SlTypeOK, AnswerLost

LEMMA GotListArrivesOK ==
  ASSUME SlTypeOK, GrantInv, NEW r \in slNet, GotListArrives(r)
  PROVE  SlTypeOK' /\ GrantInv'
<1>1. r.kind = "listed" /\ slNet' = slNet \ {r}
  BY DEF GotListArrives, Kind
<1>2. r.list \in Lists /\ OnlyGranted(r.list, slGranted)
  BY <1>1, MessageKinds DEF ListAnswers, GrantInv, MessageSound
<1>3. slCache' \in Lists /\ OnlyGranted(slCache', slGranted)
  BY <1>2 DEF GotListArrives, SlTypeOK, GrantInv
<1>4. /\ slAuto' \in BOOLEAN /\ slGranted \subseteq slGranted'
      /\ NoBorrowedApproval'
  <2>1. CASE /\ slAuto' = Hydrate(slChat, r.list, slDefault)
             /\ slGranted' = Granted(slChat, r.list, slDefault)
    BY <1>2, <2>1, HydrateGrants DEF SlTypeOK, NoBorrowedApproval, GotListArrives
  <2>2. CASE UNCHANGED <<slAuto, slGranted>>
    BY <2>2 DEF SlTypeOK, GrantInv, NoBorrowedApproval, GotListArrives
  <2> QED  BY <2>1, <2>2 DEF GotListArrives
<1>5. OnlyGranted(slCache', slGranted')
  BY <1>3, <1>4 DEF OnlyGranted
<1>6. GrantInv'
  BY <1>1, <1>4, <1>5, GrantsGrow DEF GrantInv, GotListArrives
<1> QED  BY <1>1, <1>3, <1>4, <1>6 DEF SlTypeOK, GotListArrives

-----------------------------------------------------------------------------
LEMMA SessionsStepOK == SlTypeOK /\ GrantInv /\ [NextSessionList]_slVars => SlTypeOK' /\ GrantInv'
<1> SUFFICES ASSUME SlTypeOK, GrantInv, [NextSessionList]_slVars PROVE SlTypeOK' /\ GrantInv'
  OBVIOUS
<1>1. CASE ToggleAuto \/ ToggleDefault \/ OpenNewChat \/ SendRun \/ RunEnded
  BY <1>1, ToggleAutoOK, ToggleDefaultOK, OpenNewChatOK, SendRunOK, RunEndedOK
<1>2. CASE TypeTitle \/ CommitTitle \/ DropTitle \/ ImportFile
  BY <1>2, EditorOK
<1>3. CASE ClearChat
  BY <1>3, RemoveOpenOK DEF ClearChat
<1>4. CASE \E c \in Chats : SelectChat(c) \/ TogglePin(c) \/ StartEdit(c) \/ DeleteChat(c)
  BY <1>4, SelectChatOK, SidebarOK
<1>5. CASE \E r \in slNet : UpdateArrives(r) \/ UpdateFails(r) \/ RunArrives(r)
                            \/ ImportArrives(r)
  BY <1>5, UpdateArrivesOK, UpdateFailsOK, RunArrivesOK, ImportArrivesOK
<1>6. CASE \E r \in slNet : MutationDone(r) \/ ImportDone(r) \/ ListArrives(r)
                            \/ GotListArrives(r) \/ AnswerLost(r)
  BY <1>6, MutationDoneOK, ImportDoneOK, ListArrivesOK, GotListArrivesOK, AnswerLostOK
<1>7. CASE UNCHANGED slVars
  BY <1>7 DEF slVars, SlTypeOK, GrantInv, OnlyGranted, MessageSound, NoBorrowedApproval
<1> QED  BY <1>1, <1>2, <1>3, <1>4, <1>5, <1>6, <1>7 DEF NextSessionList

\* The page approves by itself only in a chat where the user has switched it on, or
\* that had no row while the account's default was on: for any chats, clicks, lost
\* requests and late answers (PrefsSync, setAutoApprove).
THEOREM ApprovalIsNotBorrowed == SpecSessionList => []NoBorrowedApproval
<1>1. SlTypeOK /\ GrantInv => NoBorrowedApproval
  BY DEF GrantInv
<1> QED  BY <1>1, SessionsInitOK, SessionsStepOK, PTL DEF SpecSessionList

-----------------------------------------------------------------------------
(* The list tells the rows *)

\* What the list shows of a row, and two lists that show the same.
Bare(row) == [row EXCEPT !.auto = FALSE]
Same(list, rows) == \A c \in Chats : Bare(list[c]) = Bare(rows[c])

\* A fetch is still to come, or the last one answers with what the server holds.
Due == slUnseen \/ slRunning \/ Kind({"done", "imported"}) # {}
FetchOK ==
  \/ \E r \in Kind({"list"}) : r.n = slFetch
  \/ \E r \in Kind({"listed"}) : r.n = slFetch /\ Same(r.list, slRows)
  \/ slFetch = 0 /\ Same(slCache, slRows)

\* Fetches are numbered, and no two under way are alike.
Numbered ==
  /\ slFetches \in Nat /\ slFetch \in 0..slFetches
  /\ \A r \in Kind({"list", "listed"}) : r.n \in 1..slFetches
  /\ \A q, r \in Kind({"list", "listed"}) : q.n = r.n => q = r

RowsInv ==
  /\ Numbered
  /\ \A r \in Kind({"post"}) : slUnseen \/ (slRunning /\ r.chat = slChat)
  /\ Due \/ FetchOK

\* A step that leaves the cached list and its fetches alone.
LEMMA FetchKept ==
  ASSUME RowsInv, UNCHANGED <<slCache, slFetch, slFetches>>,
         slUnseen => slUnseen', slRunning => slRunning', slChat' = slChat,
         Kind({"list", "listed"}) \subseteq slNet',
         \A r \in slNet' \ slNet : /\ r.kind \notin {"list", "listed"}
                                   /\ r.kind = "post" => slRunning' /\ r.chat = slChat',
         Due' \/ (~ Due /\ Same(slRows', slRows))
  PROVE  RowsInv'
<1>1. Kind({"list", "listed"})' = Kind({"list", "listed"})
  BY DEF Kind
<1>2. Numbered'
  BY <1>1 DEF RowsInv, Numbered
<1>3. \A r \in Kind({"post"})' : slUnseen' \/ (slRunning' /\ r.chat = slChat')
  BY DEF RowsInv, Kind
<1>4. ASSUME ~ Due, Same(slRows', slRows) PROVE FetchOK'
  <2>1. FetchOK /\ \A list : Same(list, slRows) => Same(list, slRows')
    BY <1>4 DEF RowsInv, Same
  <2>2. Kind({"list"})' = Kind({"list"}) /\ Kind({"listed"})' = Kind({"listed"})
    BY <1>1 DEF Kind
  <2> QED  BY <2>1, <2>2 DEF FetchOK
<1> QED  BY <1>2, <1>3, <1>4 DEF RowsInv

\* What keeps a fetch due.
LEMMA DueStays ==
  ASSUME slUnseen => slUnseen', slRunning => slRunning',
         Kind({"done", "imported"}) \subseteq slNet'
  PROVE  Due => Due'
  BY DEF Due, Kind

\* The list is fetched anew.
LEMMA Refetched ==
  ASSUME RowsInv, NEW net, Invalidate(net),
         \A r \in net \ slNet : r.kind \notin {"list", "listed"}
  PROVE  Numbered' /\ FetchOK'
<1> DEFINE f == GetList(slFetches')
<1>1. /\ slFetches \in Nat /\ slFetches' = slFetches + 1 /\ slFetch' = slFetches'
      /\ slNet' = net \cup {f}
  BY DEF Invalidate, RowsInv, Numbered
<1>2. f.kind = "list" /\ f.n = slFetches'
  BY DEF GetList
<1> HIDE DEF f
<1>3. \A r \in Kind({"list", "listed"})' : r \in Kind({"list", "listed"}) \/ r = f
  BY <1>1 DEF Kind
<1>4. \A r \in Kind({"list", "listed"}) : r.n \in 1..slFetches
  BY DEF RowsInv, Numbered
<1>5. \A r \in Kind({"list", "listed"})' : r.n \in 1..slFetches'
  BY <1>1, <1>2, <1>3, <1>4
<1>6. \A q, r \in Kind({"list", "listed"})' : q.n = r.n => q = r
  <2> SUFFICES ASSUME NEW q \in Kind({"list", "listed"})', NEW r \in Kind({"list", "listed"})',
                      q.n = r.n
               PROVE  q = r
    OBVIOUS
  <2>1. CASE q = f \/ r = f
    BY <1>1, <1>2, <1>3, <1>4, <2>1
  <2>2. CASE q \in Kind({"list", "listed"}) /\ r \in Kind({"list", "listed"})
    BY <2>2 DEF RowsInv, Numbered
  <2> QED  BY <1>3, <2>1, <2>2
<1>7. Numbered'
  BY <1>1, <1>5, <1>6 DEF Numbered
<1>8. FetchOK'
  BY <1>1, <1>2 DEF FetchOK, Kind
<1> QED  BY <1>7, <1>8

\* Another chat is opened.
LEMMA ListOpened ==
  ASSUME RowsInv, NEW c, NEW net, Open(c, net), UNCHANGED <<slRows, slCache>>,
         slNet \subseteq net, \A r \in net \ slNet : r.kind \notin {"list", "listed", "post"}
  PROVE  RowsInv'
<1>1. slRunning' = FALSE /\ slUnseen' = (slUnseen \/ Posting)
  BY DEF Open
<1>2. \A r \in slNet' \ slNet : r.kind # "post"
  BY DEF Open, Invalidate, GetList
<1>3. \A r \in Kind({"post"})' : slUnseen' \/ (slRunning' /\ r.chat = slChat')
  BY <1>1, <1>2 DEF RowsInv, Kind, Posting
<1>4. CASE slRunning
  <2>1. Invalidate(net)
    BY <1>4 DEF Open
  <2>2. Numbered' /\ FetchOK'
    BY <2>1, Refetched
  <2> QED  BY <1>3, <2>2 DEF RowsInv
<1>5. CASE ~ slRunning
  <2>1. slNet' = net /\ UNCHANGED <<slFetch, slFetches>>
    BY <1>5 DEF Open
  <2>2. Kind({"list", "listed"})' = Kind({"list", "listed"}) /\ Kind({"list"})' = Kind({"list"})
        /\ Kind({"listed"})' = Kind({"listed"})
    BY <2>1 DEF Kind
  <2>3. Numbered'
    BY <2>1, <2>2 DEF RowsInv, Numbered
  <2>4. Due => Due'
    BY <1>1, <1>5, <2>1 DEF Due, Kind
  <2>5. FetchOK => FetchOK'
    BY <2>1, <2>2 DEF FetchOK
  <2> QED  BY <1>3, <2>3, <2>4, <2>5 DEF RowsInv
<1> QED  BY <1>4, <1>5

LEMMA ListInitOK == InitSessionList => RowsInv
<1> SUFFICES ASSUME InitSessionList PROVE RowsInv
  OBVIOUS
<1>1. slNet = {GetList(1)} /\ slFetch = 1 /\ slFetches = 1 /\ GetList(1).kind = "list"
      /\ GetList(1).n = 1
  BY DEF InitSessionList, GetList
<1> QED  BY <1>1 DEF RowsInv, Numbered, Kind, FetchOK

-----------------------------------------------------------------------------
\* A step that sends requests and touches neither the rows nor the list.
LEMMA RowsAlone ==
  ASSUME RowsInv, UNCHANGED <<slRows, slCache, slFetch, slFetches, slChat, slUnseen>>,
         slRunning => slRunning', slNet \subseteq slNet',
         \A r \in slNet' \ slNet : /\ r.kind \notin {"list", "listed"}
                                   /\ r.kind = "post" => slRunning' /\ r.chat = slChat'
  PROVE  RowsInv'
<1>1. Due => Due'
  BY DueStays DEF Kind
<1>2. Same(slRows', slRows) /\ Kind({"list", "listed"}) \subseteq slNet'
  BY DEF Same, Kind
<1> QED  BY <1>1, <1>2, FetchKept

LEMMA SwitchList ==
  ASSUME RowsInv, ToggleAuto \/ ToggleDefault \/ SendRun
  PROVE  RowsInv'
<1>1. \A r \in slNet' \ slNet : /\ r.kind \notin {"list", "listed"}
                                /\ r.kind = "post" => slRunning' /\ r.chat = slChat'
  BY DEF ToggleAuto, ToggleDefault, SendRun, Req
<1>2. UNCHANGED <<slRows, slCache, slFetch, slFetches, slChat, slUnseen>> /\ slNet \subseteq slNet'
      /\ (slRunning => slRunning')
  BY DEF ToggleAuto, ToggleDefault, SendRun
<1> QED  BY <1>1, <1>2, RowsAlone

LEMMA AsksList ==
  ASSUME RowsInv, NEW r, Asks(r), r.kind \notin {"list", "listed", "post"}
  PROVE  RowsInv'
  BY RowsAlone DEF Asks, slPage

LEMMA QuietList ==
  ASSUME RowsInv, UNCHANGED <<slPage, slRows, slCache, slFetch, slNet, slFetches>>
  PROVE  RowsInv'
  BY RowsAlone DEF slPage

LEMMA RemoveOpenList == ASSUME RowsInv, RemoveOpen PROVE RowsInv'
<1> DEFINE r == Req("delete", slChat, "")
           net == slNet \cup {r}
<1>1. r.kind = "delete"
  BY DEF Req
<1>2. NewConversation(net) /\ UNCHANGED <<slRows, slCache>>
  BY DEF RemoveOpen
<1>3. PICK c \in Chats : Open(c, net)
  BY <1>2 DEF NewConversation
<1>4. slNet \subseteq net /\ \A q \in net \ slNet : q.kind \notin {"list", "listed", "post"}
  BY <1>1
<1> HIDE DEF net
<1> QED  BY <1>2, <1>3, <1>4, ListOpened

LEMMA ChatsList ==
  ASSUME RowsInv, OpenNewChat \/ \E c \in Chats : SelectChat(c) PROVE RowsInv'
<1>1. PICK c \in Chats : Open(c, slNet)
  BY DEF OpenNewChat, NewConversation, SelectChat
<1>2. UNCHANGED <<slRows, slCache>>
  BY DEF OpenNewChat, SelectChat
<1> QED  BY <1>1, <1>2, ListOpened

LEMMA SidebarList ==
  ASSUME RowsInv, NEW c \in Chats, TogglePin(c) \/ StartEdit(c) \/ DeleteChat(c) PROVE RowsInv'
<1>1. CASE TogglePin(c)
  BY <1>1, AsksList DEF TogglePin, Req
<1>2. CASE StartEdit(c)
  BY <1>2, QuietList DEF StartEdit
<1>3. CASE DeleteChat(c)
  BY <1>3, AsksList, RemoveOpenList DEF DeleteChat, Req
<1> QED  BY <1>1, <1>2, <1>3

LEMMA EditorList ==
  ASSUME RowsInv, TypeTitle \/ CommitTitle \/ DropTitle \/ ImportFile PROVE RowsInv'
<1>1. CASE TypeTitle \/ DropTitle
  BY <1>1, QuietList DEF TypeTitle, DropTitle
<1>2. CASE CommitTitle
  BY <1>2, QuietList, AsksList DEF CommitTitle, Req
<1>3. CASE ImportFile
  BY <1>3, AsksList DEF ImportFile, Req
<1> QED  BY <1>1, <1>2, <1>3

\* The run ends: a post still under way belongs to a chat that was left.
LEMMA RunEndedList == ASSUME RowsInv, RunEnded PROVE RowsInv'
<1>1. Numbered' /\ FetchOK'
  BY Refetched DEF RunEnded
<1>2. \A r \in slNet' \ slNet : r.kind = "list"
  BY DEF RunEnded, Invalidate, GetList
<1>3. \A r \in Kind({"post"})' : slUnseen'
  BY <1>2 DEF RunEnded, Posting, RowsInv, Kind
<1> QED  BY <1>1, <1>3 DEF RowsInv

LEMMA DoneKind == ASSUME NEW r, \E q \in Requests : r = q PROVE \A a \in Done(r) : a.kind = "done"
  BY DEF Done, Requests

\* A row changes: the answer is a fetch to come, or only the switch changed.
LEMMA UpdateList ==
  ASSUME SlTypeOK, RowsInv, NEW r \in slNet, UpdateArrives(r) PROVE RowsInv'
<1>1. r.kind \in {"auto", "pin", "rename", "delete"} /\ r \in Requests
  BY MessageKinds DEF UpdateArrives, Kind
<1>2. slNet' = (slNet \ {r}) \cup Done(r) /\ \A a \in Done(r) : a.kind = "done"
  BY <1>1, DoneKind DEF UpdateArrives
<1>3. /\ UNCHANGED <<slCache, slFetch, slFetches, slUnseen, slRunning, slChat>>
      /\ Kind({"list", "listed", "done", "imported"}) \subseteq slNet'
  BY <1>1, <1>2 DEF UpdateArrives, slPage, Kind
<1>4. Due => Due'
  BY <1>3, DueStays DEF Kind
<1>5. Due' \/ Same(slRows', slRows)
  <2>1. CASE r.kind = "auto"
    <3>1. \/ slRows' = slRows
          \/ slRows' = [slRows EXCEPT ![r.chat] = [slRows[r.chat] EXCEPT !.auto = (r.value = "on")]]
      BY <2>1 DEF UpdateArrives, Changed
    <3>2. \A c \in Chats : slRows[c] \in ChatRows
      BY DEF SlTypeOK, Lists
    <3>3. slRows \in Lists
      BY DEF SlTypeOK
    <3>4. \A c \in Chats : \/ slRows'[c] = slRows[c]
                            \/ slRows'[c] = [slRows[c] EXCEPT !.auto = (r.value = "on")]
      BY <3>1, <3>3 DEF Lists
    <3>5. \A row \in ChatRows : Bare([row EXCEPT !.auto = (r.value = "on")]) = Bare(row)
      BY DEF ChatRows, Bare
    <3> QED  BY <3>2, <3>4, <3>5 DEF Same
  <2>2. CASE r.kind # "auto"
    <3>1. Done(r) # {}
      BY <2>2 DEF Done
    <3> QED  BY <1>2, <3>1 DEF Due, Kind
  <2> QED  BY <2>1, <2>2
<1>6. Kind({"list", "listed"}) \subseteq slNet'
  BY <1>3 DEF Kind
<1>7. \A q \in slNet' \ slNet : q.kind \notin {"list", "listed", "post"}
  BY <1>2
<1> QED  BY <1>3, <1>4, <1>5, <1>6, <1>7, FetchKept

LEMMA FailsList ==
  ASSUME SlTypeOK, RowsInv, NEW r \in slNet, UpdateFails(r) PROVE RowsInv'
<1>1. r.kind \in {"auto", "pin", "rename", "delete", "import", "post"} /\ r \in Requests
  BY MessageKinds DEF UpdateFails, Kind
<1>2. slNet \ {r} \subseteq slNet' /\ \A q \in slNet' \ slNet : q.kind = "done"
  BY <1>1, DoneKind DEF UpdateFails
<1>3. /\ UNCHANGED <<slRows, slCache, slFetch, slFetches, slUnseen, slRunning, slChat>>
      /\ Kind({"list", "listed"}) \subseteq slNet' /\ Kind({"done", "imported"}) \subseteq slNet'
  BY <1>1, <1>2 DEF UpdateFails, slPage, Kind
<1>4. Due => Due'
  BY <1>3, DueStays
<1>5. Same(slRows', slRows)
  BY <1>3 DEF Same
<1> QED  BY <1>2, <1>3, <1>4, <1>5, FetchKept

\* The run's row: its chat is open and running, or was left.
LEMMA RunArrivesList ==
  ASSUME RowsInv, NEW r \in slNet, RunArrives(r) PROVE RowsInv'
<1>1. r \in Kind({"post"}) /\ slNet' = slNet \ {r}
  BY DEF RunArrives
<1>2. UNCHANGED <<slCache, slFetch, slFetches, slUnseen, slRunning, slChat>>
  BY DEF RunArrives, slPage
<1>3. Due'
  BY <1>1, <1>2 DEF RowsInv, Due
<1>4. Kind({"list", "listed"}) \subseteq slNet'
  BY <1>1 DEF Kind
<1> QED  BY <1>1, <1>2, <1>3, <1>4, FetchKept

LEMMA ImportArrivesList ==
  ASSUME SlTypeOK, RowsInv, NEW r \in slNet, ImportArrives(r) PROVE RowsInv'
<1>1. PICK c \in Chats :
        slNet' = (slNet \ {r}) \cup {[r EXCEPT !.kind = "imported", !.chat = c]}
  BY DEF ImportArrives
<1> DEFINE a == [r EXCEPT !.kind = "imported", !.chat = c]
<1>2. r.kind = "import" /\ r \in Requests
  BY MessageKinds DEF ImportArrives, Kind
<1>3. a.kind = "imported"
  BY <1>2 DEF Requests
<1>4. slNet' = (slNet \ {r}) \cup {a}
  BY <1>1
<1> HIDE DEF a
<1>5. UNCHANGED <<slCache, slFetch, slFetches, slUnseen, slRunning, slChat>>
  BY DEF ImportArrives
<1>6. Due'
  BY <1>3, <1>4 DEF Due, Kind
<1>7. Kind({"list", "listed"}) \subseteq slNet'
  BY <1>2, <1>4 DEF Kind
<1> QED  BY <1>3, <1>4, <1>5, <1>6, <1>7, FetchKept

-----------------------------------------------------------------------------
LEMMA DoneList == ASSUME RowsInv, NEW r \in slNet, MutationDone(r) PROVE RowsInv'
<1> DEFINE net == slNet \ {r}
<1>1. Invalidate(net) /\ \A q \in net \ slNet : q.kind \notin {"list", "listed"}
  BY DEF MutationDone
<1>2. \A q \in slNet' \ slNet : q.kind = "list"
  BY DEF MutationDone, Invalidate, GetList
<1> HIDE DEF net
<1>3. Numbered' /\ FetchOK'
  BY <1>1, Refetched
<1>4. \A q \in Kind({"post"})' : slUnseen' \/ (slRunning' /\ q.chat = slChat')
  BY <1>2 DEF MutationDone, slPage, RowsInv, Kind
<1> QED  BY <1>3, <1>4 DEF RowsInv

LEMMA ImportDoneList == ASSUME RowsInv, NEW r \in slNet, ImportDone(r) PROVE RowsInv'
<1> DEFINE net == slNet \ {r}
<1>1. Invalidate(net) /\ \A q \in net \ slNet : q.kind \notin {"list", "listed"}
  BY DEF ImportDone
<1>2. \A q \in slNet' \ slNet : q.kind = "list"
  BY DEF ImportDone, Invalidate, GetList
<1> HIDE DEF net
<1>3. Numbered' /\ FetchOK'
  BY <1>1, Refetched
<1>4. \A q \in Kind({"post"})' : slUnseen'
  BY <1>2 DEF ImportDone, RowsInv, Kind, Posting
<1> QED  BY <1>3, <1>4 DEF RowsInv

\* The server answers a fetch with its rows.
LEMMA ListArrivesList ==
  ASSUME RowsInv, NEW r \in slNet, ListArrives(r) PROVE RowsInv'
<1>1. PICK failed \in BOOLEAN :
        /\ slNet' = (slNet \ {r}) \cup {GotList(r.n, IF failed THEN NoRows ELSE slRows)}
        /\ slUnseen' = (slUnseen \/ failed)
  BY DEF ListArrives
<1> DEFINE a == GotList(r.n, IF failed THEN NoRows ELSE slRows)
<1>2. r.kind = "list" /\ a.kind = "listed" /\ a.n = r.n /\ (~ failed => a.list = slRows)
  BY DEF ListArrives, Kind, GotList
<1>3. slNet' = (slNet \ {r}) \cup {a}
  BY <1>1
<1> HIDE DEF a
<1>4. UNCHANGED <<slRows, slCache, slFetch, slFetches, slRunning, slChat>>
  BY DEF ListArrives
<1>5. /\ r \in Kind({"list", "listed"})
      /\ \A q \in Kind({"list", "listed"})' : q = a \/ (q \in Kind({"list", "listed"}) /\ q # r)
  BY <1>2, <1>3 DEF Kind
<1>6. Numbered'
  BY <1>2, <1>4, <1>5 DEF RowsInv, Numbered
<1>7. \A q \in Kind({"post"})' : slUnseen' \/ (slRunning' /\ q.chat = slChat')
  BY <1>1, <1>2, <1>3, <1>4 DEF RowsInv, Kind
<1>8. CASE failed
  <2>1. Due'
    BY <1>1, <1>8 DEF Due
  <2> QED  BY <1>6, <1>7, <2>1 DEF RowsInv
<1>9. CASE ~ failed
  <2>1. Kind({"done", "imported"})' = Kind({"done", "imported"}) /\ (slUnseen => slUnseen')
    <3>1. r \notin Kind({"done", "imported"}) /\ a \notin Kind({"done", "imported"})'
      BY <1>2 DEF Kind
    <3>2. slUnseen => slUnseen'
      BY <1>1
    <3> QED  BY <1>3, <3>1, <3>2 DEF Kind
  <2>2. Due => Due'
    BY <1>4, <2>1 DEF Due
  <2>3. Same(a.list, slRows')
    BY <1>2, <1>4, <1>9 DEF Same
  <2>4. a \in Kind({"listed"})' /\ \A q \in Kind({"list"}) : q \in Kind({"list"})' \/ q = r
    BY <1>2, <1>3 DEF Kind
  <2>5. \A q \in Kind({"listed"}) : q \in Kind({"listed"})'
    BY <1>2, <1>3 DEF Kind
  <2>6. FetchOK => FetchOK'
    BY <1>2, <1>4, <2>3, <2>4, <2>5 DEF FetchOK
  <2> QED  BY <1>6, <1>7, <2>2, <2>6 DEF RowsInv
<1> QED  BY <1>8, <1>9

\* The fetch the page waits for, or one that was replaced.
LEMMA GotListList ==
  ASSUME RowsInv, NEW r \in slNet, GotListArrives(r) PROVE RowsInv'
<1>1. /\ r \in Kind({"listed"}) /\ r \in Kind({"list", "listed"}) /\ r.kind = "listed"
      /\ slNet' = slNet \ {r}
  BY DEF GotListArrives, Kind
<1>2. UNCHANGED <<slRows, slFetches, slRunning, slChat, slUnseen>>
  BY DEF GotListArrives
<1>3. \/ r.n = slFetch /\ slCache' = r.list /\ slFetch' = 0
      \/ r.n # slFetch /\ UNCHANGED <<slCache, slFetch>>
  BY DEF GotListArrives
<1>4. \A q \in Kind({"list", "listed"})' : q \in Kind({"list", "listed"})
  BY <1>1 DEF Kind
<1>5. Numbered'
  BY <1>2, <1>3, <1>4 DEF RowsInv, Numbered
<1>6. \A q \in Kind({"post"})' : slUnseen' \/ (slRunning' /\ q.chat = slChat')
  BY <1>1, <1>2 DEF RowsInv, Kind
<1>7. Due => Due'
  BY <1>1, <1>2, DueStays DEF Kind
<1>8. ASSUME FetchOK PROVE FetchOK'
  <2>1. \A q \in Kind({"list", "listed"}) : q.n = r.n => q = r
    BY <1>1 DEF RowsInv, Numbered
  <2>2. r.n # 0
    BY <1>1 DEF RowsInv, Numbered
  <2>3. Kind({"list"}) \subseteq Kind({"list"})'
        /\ \A q \in Kind({"listed"}) : q = r \/ q \in Kind({"listed"})'
    BY <1>1 DEF Kind
  <2>4. \A q \in Kind({"list"}) : q \in Kind({"list", "listed"}) /\ q # r
    BY <1>1 DEF Kind
  <2>5. \A q \in Kind({"listed"}) : q \in Kind({"list", "listed"})
    BY DEF Kind
  <2>6. CASE r.n = slFetch /\ slCache' = r.list /\ slFetch' = 0
    <3>1. Same(r.list, slRows)
      BY <1>8, <2>1, <2>2, <2>4, <2>5, <2>6 DEF FetchOK
    <3> QED  BY <1>2, <2>6, <3>1 DEF FetchOK
  <2>7. CASE r.n # slFetch /\ UNCHANGED <<slCache, slFetch>>
    BY <1>2, <1>8, <2>3, <2>7 DEF FetchOK
  <2> QED  BY <1>3, <2>6, <2>7
<1> QED  BY <1>5, <1>6, <1>7, <1>8 DEF RowsInv

LEMMA LostList == ASSUME RowsInv, NEW r \in slNet, AnswerLost(r) PROVE RowsInv'
<1>1. slNet' = slNet \ {r} /\ slUnseen' /\ slFetch' \in {0, slFetch} /\ slFetches' = slFetches
  BY DEF AnswerLost
<1>2. Kind({"list", "listed"})' \subseteq Kind({"list", "listed"}) /\ Due'
  BY <1>1 DEF Kind, Due
<1>3. Numbered'
  BY <1>1, <1>2 DEF RowsInv, Numbered
<1> QED  BY <1>1, <1>2, <1>3 DEF RowsInv

-----------------------------------------------------------------------------
LEMMA ListStepOK == SlTypeOK /\ RowsInv /\ [NextSessionList]_slVars => RowsInv'
<1> SUFFICES ASSUME SlTypeOK, RowsInv, [NextSessionList]_slVars PROVE RowsInv'
  OBVIOUS
<1>1. CASE ToggleAuto \/ ToggleDefault \/ SendRun
  BY <1>1, SwitchList
<1>2. CASE OpenNewChat \/ \E c \in Chats : SelectChat(c)
  BY <1>2, ChatsList
<1>3. CASE RunEnded \/ ClearChat
  BY <1>3, RunEndedList, RemoveOpenList DEF ClearChat
<1>4. CASE TypeTitle \/ CommitTitle \/ DropTitle \/ ImportFile
  BY <1>4, EditorList
<1>5. CASE \E c \in Chats : TogglePin(c) \/ StartEdit(c) \/ DeleteChat(c)
  BY <1>5, SidebarList
<1>6. CASE \E r \in slNet : UpdateArrives(r) \/ UpdateFails(r) \/ RunArrives(r)
                            \/ ImportArrives(r) \/ AnswerLost(r)
  BY <1>6, UpdateList, FailsList, RunArrivesList, ImportArrivesList, LostList
<1>7. CASE \E r \in slNet : MutationDone(r) \/ ImportDone(r) \/ ListArrives(r)
                            \/ GotListArrives(r)
  BY <1>7, DoneList, ImportDoneList, ListArrivesList, GotListList
<1>8. CASE UNCHANGED slVars
  BY <1>8, QuietList DEF slVars, slPage
<1> QED  BY <1>1, <1>2, <1>3, <1>4, <1>5, <1>6, <1>7, <1>8 DEF NextSessionList

\* When nothing is under way the cached list shows which chats there are, their titles
\* and their pins as the server holds them, in whatever order mutations, runs, fetches
\* and their answers came.
THEOREM ListTellsTheRows == SpecSessionList => []ListAgrees
<1>1. RowsInv => ListAgrees
  <2> SUFFICES ASSUME RowsInv, slNet = {}, ~ slRunning, ~ slUnseen PROVE Same(slCache, slRows)
    BY DEF ListAgrees, Same, Bare
  <2>1. ~ Due /\ Kind({"list"}) = {} /\ Kind({"listed"}) = {}
    BY DEF Due, Kind
  <2> QED  BY <2>1 DEF RowsInv, FetchOK
<1> QED  BY <1>1, ListInitOK, ListStepOK, SessionsInitOK, SessionsStepOK, PTL DEF SpecSessionList

-----------------------------------------------------------------------------
(* MemoryFiles *)

StoredDocs == [there : BOOLEAN, content : Nat, enabled : BOOLEAN]
MemoryEditors ==
  [editing : BOOLEAN, draft : Nat, dirty : BOOLEAN, saving : Nat, removing : Nat]
MemoryRequests ==
  [kind : {"save", "toggle", "delete"}, n : Nat \ {0}, doc : Docs, content : Nat, enabled : BOOLEAN,
   at : {"sent", "read", "done"}, ok : BOOLEAN]

MmTypeOK ==
  /\ mmDoc \in [Docs -> StoredDocs] /\ mmSel \in Docs \cup {NewForm} /\ mmEditor \in MemoryEditors
  /\ mmCache \in [Docs -> Nat \cup {NotLoaded}] /\ mmList \in [Files -> StoredDocs]
  /\ mmFetch \in [Docs -> Nat \cup {Idle, Asked}] /\ mmListFetch \in {Idle, Asked}
  /\ mmStale \subseteq Docs /\ mmNet \subseteq MemoryRequests /\ mmTexts \in Nat \ {0} /\ mmSent \in Nat
  /\ mmTyped \in [1 .. MaxMemoryTexts -> Docs \cup {NewForm}] /\ mmOdd \in BOOLEAN

\* A text that can be saved was typed for the document in view, what is being saved
\* for the document it goes to or in the form.
TypedFor(text, doc) == text \in 1 .. mmTexts /\ text \in 1 .. MaxMemoryTexts /\ mmTyped[text] = doc
MemoryTextInv ==
  /\ mmEditor.dirty => TypedFor(mmEditor.draft, mmSel)
  /\ mmSel = NewForm /\ ~ mmEditor.dirty => mmEditor.draft = 0
  /\ \A r \in mmNet : r.kind = "save" /\ r.content # 0 =>
       TypedFor(r.content, r.doc) \/ TypedFor(r.content, NewForm)

\* As long as nothing odd happened there is one mutation at most, which writes what it
\* was sent with or what it read.
MemoryCallInv ==
  /\ \A a, b \in mmNet : a = b
  /\ \A r \in mmNet : /\ r.n <= mmSent
                      /\ r.kind = "save" /\ r.at = "done" => mmDoc[r.doc].content = r.content
                      /\ r.kind = "toggle" /\ r.at = "read" => mmDoc[r.doc].content = r.content
                      /\ r.kind # "save" => r.doc \in Files
                      /\ r.kind = "delete" => r.at # "read"

\* A mutation of d was done whose answer has not come yet.
Unfetched(d) == \E r \in mmNet : r.at = "done" /\ d \in Invalidates(r)

\* A cached answer is what the server would answer, or will be fetched again.
DocFresh(d) ==
  \/ Unfetched(d) \/ d \in mmStale \/ mmFetch[d] \in {Asked, mmDoc[d].content}
  \/ mmFetch[d] = Idle /\ mmCache[d] \in {NotLoaded, mmDoc[d].content}
MemoryCacheInv ==
  /\ \A d \in Docs : DocFresh(d)
  /\ mmListFetch = Idle /\ (\A r \in mmNet : r.doc \in Files => r.at # "done") => mmList = Flags

\* An editor that does not edit shows the cached text, or its own that was saved until
\* that is fetched, if the document is not deleted from under it.
SavedText ==
  /\ \A r \in mmNet : r.doc = mmSel =>
       r.kind = "toggle" \/ (r.kind = "delete" /\ r.n = mmEditor.removing)
  /\ \/ \E r \in mmNet : r.kind = "delete" /\ r.doc = mmSel /\ r.at = "done"
     \/ /\ mmEditor.draft = mmDoc[mmSel].content
        /\ mmFetch[mmSel] \in {Asked, mmDoc[mmSel].content}
MemoryDraftInv ==
  /\ mmSel \in Docs /\ ~ mmEditor.editing => mmEditor.draft = Loaded(mmSel) \/ SavedText
  /\ \A r \in mmNet : r.kind = "save" /\ mmEditor.saving = r.n /\ mmSel \in Docs =>
       r.doc = mmSel /\ (mmEditor.editing => mmEditor.draft \in {Loaded(mmSel), r.content})

\* What is in view is not stale, and its content was or is asked for.
MemoryViewInv ==
  /\ mmSel \notin mmStale
  /\ mmSel \in Docs => mmFetch[mmSel] # Idle \/ mmCache[mmSel] # NotLoaded
  /\ mmEditor.saving <= mmSent /\ mmEditor.removing <= mmSent

MmInv ==
  /\ MmTypeOK /\ MemoryTextInv /\ MemoryViewInv
  /\ ~ mmOdd => MemoryCallInv /\ MemoryCacheInv /\ MemoryDraftInv

-----------------------------------------------------------------------------
LEMMA DocNames == /\ Agents \in Docs /\ Agents \notin Files /\ NewForm \notin Docs /\ Files \subseteq Docs
                  /\ \A d \in Docs : d # Agents => d \in Files
<1>1. NewForm # Agents
  BY DEF NewForm, Agents
<1> QED  BY <1>1, FilesAssumption DEF Docs

LEMMA MemoryNumbers ==
  /\ NotLoaded \notin Nat /\ Idle \notin Nat /\ Asked \notin Nat /\ Idle # Asked
  BY DEF NotLoaded, Idle, Asked

LEMMA LoadedType == ASSUME MmTypeOK, NEW d \in Docs PROVE Loaded(d) \in Nat
  BY DEF MmTypeOK, Loaded

LEMMA ViewingType ==
  ASSUME NEW text \in Nat
  PROVE  /\ Viewing(text) \in MemoryEditors /\ ~ Viewing(text).editing /\ Viewing(text).draft = text
         /\ ~ Viewing(text).dirty /\ Viewing(text).saving = 0 /\ Viewing(text).removing = 0
  BY DEF Viewing, MemoryEditors

LEMMA ResetType ==
  ASSUME mmEditor \in MemoryEditors, NEW text \in Nat
  PROVE  /\ Reset(text) \in MemoryEditors /\ ~ Reset(text).editing /\ Reset(text).draft = text
         /\ ~ Reset(text).dirty /\ Reset(text).saving = mmEditor.saving
         /\ Reset(text).removing = mmEditor.removing
  BY DEF Reset, MemoryEditors

\* Whatever else happens, texts keep what they were typed for.
LEMMA TextsStay ==
  ASSUME MmTypeOK, UNCHANGED <<mmTexts, mmTyped>> \/
                   \E d \in Docs \cup {NewForm} : /\ mmTexts < MaxMemoryTexts /\ mmTexts' = mmTexts + 1
                                                  /\ mmTyped' = [mmTyped EXCEPT ![mmTexts'] = d]
  PROVE  /\ mmTexts' \in Nat \ {0} /\ mmTyped' \in [1 .. MaxMemoryTexts -> Docs \cup {NewForm}]
         /\ \A n, d : TypedFor(n, d) => TypedFor(n, d)'
<1>1. CASE UNCHANGED <<mmTexts, mmTyped>>
  BY <1>1 DEF TypedFor, MmTypeOK
<1>2. ASSUME NEW d \in Docs \cup {NewForm}, mmTexts < MaxMemoryTexts, mmTexts' = mmTexts + 1,
             mmTyped' = [mmTyped EXCEPT ![mmTexts'] = d]
      PROVE  /\ mmTexts' \in Nat \ {0} /\ mmTyped' \in [1 .. MaxMemoryTexts -> Docs \cup {NewForm}]
             /\ \A n, e : TypedFor(n, e) => TypedFor(n, e)'
  BY <1>2, MemoryBounds DEF TypedFor, MmTypeOK
<1> QED  BY <1>1, <1>2

LEMMA MemoryInitOK == InitMemory => MmInv
<1> SUFFICES ASSUME InitMemory PROVE MmInv
  OBVIOUS
<1> USE DEF InitMemory
<1>1. \A d \in Docs : mmDoc[d] \in StoredDocs /\ (d = Agents => mmDoc[d].content = 0)
  BY FilesAssumption DEF Doc, Gone, StoredDocs
<1>2. mmDoc \in [Docs -> StoredDocs] /\ mmList \in [Files -> StoredDocs]
  BY <1>1 DEF Gone, StoredDocs
<1>3. mmFetch \in [Docs -> Nat \cup {Idle, Asked}] /\ mmCache \in [Docs -> Nat \cup {NotLoaded}]
  OBVIOUS
<1>4. MmTypeOK
  <2>1. mmEditor \in MemoryEditors /\ mmSel \in Docs
    BY ViewingType, DocNames
  <2>2. /\ mmListFetch = Asked /\ mmStale = {} /\ mmNet = {} /\ mmTexts = 1 /\ mmSent = 0
        /\ mmOdd = FALSE
    OBVIOUS
  <2>3. mmTyped \in [1 .. MaxMemoryTexts -> Docs \cup {NewForm}]
    OBVIOUS
  <2> HIDE DEF InitMemory
  <2>4. mmNet \subseteq MemoryRequests /\ mmStale \subseteq Docs /\ mmOdd \in BOOLEAN
    BY <2>2
  <2>5. mmTexts \in Nat \ {0} /\ mmSent \in Nat /\ mmListFetch \in {Idle, Asked}
    BY <2>2
  <2>6. mmSel \in Docs \cup {NewForm}
    BY <2>1
  <2> QED  BY <1>2, <1>3, <2>1, <2>3, <2>4, <2>5, <2>6 DEF MmTypeOK
<1>5. MemoryTextInv /\ MemoryViewInv
  BY DocNames, ViewingType, MemoryNumbers DEF MemoryTextInv, MemoryViewInv
<1>6. MemoryCallInv /\ MemoryCacheInv
  BY MemoryNumbers DEF MemoryCallInv, MemoryCacheInv, DocFresh, Unfetched
<1>7. MemoryDraftInv
  BY DocNames, ViewingType DEF MemoryDraftInv, Loaded
<1> QED  BY <1>4, <1>5, <1>6, <1>7 DEF MmInv

-----------------------------------------------------------------------------
\* A document comes into view.
LEMMA ShowDocOK ==
  ASSUME MmInv, NEW d \in Docs, ShowDoc(d),
         UNCHANGED <<mmDoc, mmCache, mmList, mmListFetch, mmNet, mmTexts, mmSent, mmTyped, mmOdd>>
  PROVE  MmInv'
<1>1. /\ mmSel' = d /\ mmEditor' = Viewing(Loaded(d)) /\ mmStale' = mmStale \ {d}
      /\ mmFetch' = [mmFetch EXCEPT ![d] =
           IF mmCache[d] = NotLoaded \/ d \in mmStale THEN Asked ELSE @]
  BY DEF ShowDoc, Mount
<1>2. Loaded(d) \in Nat /\ Loaded(d)' = Loaded(d)
  BY LoadedType DEF MmInv, Loaded
<1>3. /\ mmEditor' \in MemoryEditors /\ ~ mmEditor'.editing /\ mmEditor'.draft = Loaded(d)
      /\ ~ mmEditor'.dirty /\ mmEditor'.saving = 0 /\ mmEditor'.removing = 0
  BY <1>1, <1>2, ViewingType
<1>4. MmTypeOK'
  BY <1>1, <1>3 DEF MmInv, MmTypeOK
<1>5. MemoryTextInv'
  BY <1>1, <1>3, DocNames DEF MmInv, MemoryTextInv, TypedFor
<1>6. MemoryViewInv'
  BY <1>1, <1>3, MemoryNumbers DEF MmInv, MmTypeOK, MemoryViewInv
<1>7. ASSUME ~ mmOdd PROVE MemoryCallInv' /\ MemoryCacheInv' /\ MemoryDraftInv'
  <2>1. MemoryCallInv'
    BY <1>7 DEF MmInv, MemoryCallInv
  <2>2. \A e \in Docs : Unfetched(e)' = Unfetched(e)
    BY DEF Unfetched, Invalidates
  <2>3. \A e \in Docs : DocFresh(e)'
    BY <1>1, <1>7, <2>2 DEF MmInv, MmTypeOK, MemoryCacheInv, DocFresh
  <2>4. Flags' = Flags
    BY DEF Flags
  <2>5. MemoryCacheInv'
    BY <1>7, <2>3, <2>4 DEF MmInv, MemoryCacheInv
  <2>6. MemoryDraftInv'
    BY <1>1, <1>2, <1>3 DEF MmInv, MmTypeOK, MemoryRequests, MemoryDraftInv
  <2> QED  BY <2>1, <2>5, <2>6
<1> QED  BY <1>4, <1>5, <1>6, <1>7 DEF MmInv

LEMMA MemorySelectOK ==
  ASSUME MmInv, (\E d \in Docs : Select(d)) \/ CancelForm \/ OpenForm
  PROVE  MmInv'
<1>1. CASE (\E d \in Docs : Select(d)) \/ CancelForm
  BY <1>1, ShowDocOK, DocNames DEF Select, CancelForm
<1>2. CASE OpenForm
  <2>1. /\ mmSel' = NewForm /\ mmEditor' = [Viewing(0) EXCEPT !.editing = TRUE]
        /\ UNCHANGED <<mmDoc, mmCache, mmList, mmFetch, mmListFetch, mmStale, mmNet, mmTexts,
                       mmSent, mmTyped, mmOdd>>
    BY <1>2 DEF OpenForm
  <2>2. /\ mmEditor' \in MemoryEditors /\ mmEditor'.draft = 0 /\ ~ mmEditor'.dirty
        /\ mmEditor'.saving = 0 /\ mmEditor'.removing = 0
    BY <2>1 DEF Viewing, MemoryEditors
  <2>3. MmTypeOK' /\ MemoryTextInv' /\ MemoryViewInv'
    BY <2>1, <2>2, DocNames DEF MmInv, MmTypeOK, MemoryTextInv, TypedFor, MemoryViewInv
  <2>4. Flags' = Flags /\ \A e \in Docs : Unfetched(e)' = Unfetched(e)
    BY <2>1 DEF Flags, Unfetched, Invalidates
  <2>5. ~ mmOdd => MemoryCallInv' /\ MemoryCacheInv'
    BY <2>1, <2>4 DEF MmInv, MemoryCallInv, MemoryCacheInv, DocFresh
  <2>6. MemoryDraftInv'
    BY <2>1, DocNames DEF MemoryDraftInv
  <2> QED  BY <2>1, <2>3, <2>5, <2>6 DEF MmInv
<1> QED  BY <1>1, <1>2
-----------------------------------------------------------------------------
\* A step in which the store, the queries and the requests rest keeps what is said of
\* them.
LEMMA MemoryRests ==
  ASSUME MmInv, ~ mmOdd, UNCHANGED <<mmDoc, mmCache, mmList, mmFetch, mmListFetch, mmStale, mmNet>>,
         mmSent' = mmSent
  PROVE  MemoryCallInv' /\ MemoryCacheInv'
<1>1. Flags' = Flags /\ \A e \in Docs : Unfetched(e)' = Unfetched(e)
  BY DEF Flags, Unfetched, Invalidates
<1> QED  BY <1>1 DEF MmInv, MemoryCallInv, MemoryCacheInv, DocFresh

LEMMA ControlsIn ==
  ASSUME MmTypeOK
  PROVE  /\ "edit" \in Controls \/ "cancel" \in Controls => mmSel \in Docs
         /\ "delete" \in Controls => mmSel \in Files
         /\ "type" \in Controls \/ "save" \in Controls => mmSel = NewForm \/ mmEditor.editing
         /\ "save" \in Controls => mmSel = NewForm \/ mmEditor.dirty
  BY DocNames DEF MmTypeOK, Controls, FormControls, AgentsControls, FileControls

LEMMA MemoryEditorOK ==
  ASSUME MmInv, StartEditing \/ CancelEditing \/ TypeText
  PROVE  MmInv'
<1>1. PICK editor :
        /\ Edits(editor)
        /\ \/ StartEditing /\ editor = [mmEditor EXCEPT !.editing = TRUE]
           \/ CancelEditing /\ editor = Reset(Loaded(mmSel))
           \/ TypeText /\ editor = [mmEditor EXCEPT !.draft = mmTexts', !.dirty = TRUE]
  BY DEF StartEditing, CancelEditing, TypeText
<1>2. /\ mmEditor' = editor
      /\ UNCHANGED <<mmDoc, mmSel, mmCache, mmList, mmFetch, mmListFetch, mmStale, mmNet, mmSent>>
  BY <1>1 DEF Edits
<1>3. CASE StartEditing /\ editor = [mmEditor EXCEPT !.editing = TRUE]
  <2>1. mmSel \in Docs /\ UNCHANGED <<mmTexts, mmTyped, mmOdd>>
    BY <1>3, ControlsIn DEF StartEditing, MmInv
  <2>2. /\ editor \in MemoryEditors /\ editor.editing /\ editor.draft = mmEditor.draft
        /\ editor.dirty = mmEditor.dirty /\ editor.saving = mmEditor.saving
        /\ editor.removing = mmEditor.removing
    BY <1>3 DEF MmInv, MmTypeOK, MemoryEditors
  <2>3. MmTypeOK' /\ MemoryTextInv' /\ MemoryViewInv'
    BY <1>2, <2>1, <2>2 DEF MmInv, MmTypeOK, MemoryTextInv, TypedFor, MemoryViewInv
  <2>4. ASSUME ~ mmOdd PROVE MemoryDraftInv'
    <3> SUFFICES ASSUME NEW r \in mmNet, r.kind = "save", mmEditor.saving = r.n
                 PROVE  r.doc = mmSel /\ mmEditor.draft \in {Loaded(mmSel), r.content}
      BY <1>2, <2>2 DEF MemoryDraftInv, Loaded
    <3>1. r.doc = mmSel /\ (mmEditor.editing => mmEditor.draft \in {Loaded(mmSel), r.content})
      BY <2>1, <2>4 DEF MmInv, MemoryDraftInv
    <3>2. ~ SavedText
      BY <3>1 DEF SavedText
    <3> QED  BY <2>1, <2>4, <3>1, <3>2 DEF MmInv, MemoryDraftInv
  <2> QED  BY <1>2, <2>1, <2>3, <2>4, MemoryRests DEF MmInv
<1>4. CASE CancelEditing /\ editor = Reset(Loaded(mmSel))
  <2>1. /\ mmSel \in Docs /\ UNCHANGED <<mmTexts, mmTyped>> /\ mmOdd' = (mmOdd \/ mmEditor.saving # 0)
    BY <1>4, ControlsIn DEF CancelEditing, MmInv
  <2>2. Loaded(mmSel) \in Nat
    BY <2>1, LoadedType DEF MmInv
  <2>3. /\ editor \in MemoryEditors /\ ~ editor.editing /\ editor.draft = Loaded(mmSel)
        /\ ~ editor.dirty /\ editor.saving = mmEditor.saving /\ editor.removing = mmEditor.removing
    BY <1>4, <2>2, ResetType DEF MmInv, MmTypeOK
  <2>4. MmTypeOK' /\ MemoryTextInv' /\ MemoryViewInv'
    BY <1>2, <2>1, <2>3, DocNames DEF MmInv, MmTypeOK, MemoryTextInv, TypedFor, MemoryViewInv
  <2>5. ~ mmOdd' => MemoryDraftInv'
    BY <1>2, <2>1, <2>3 DEF MmInv, MmTypeOK, MemoryDraftInv, Loaded
  <2> QED  BY <1>2, <2>1, <2>4, <2>5, MemoryRests DEF MmInv
<1>5. CASE TypeText /\ editor = [mmEditor EXCEPT !.draft = mmTexts', !.dirty = TRUE]
  <2>1. /\ mmSel = NewForm \/ mmEditor.editing
        /\ mmTexts < MaxMemoryTexts /\ mmTexts' = mmTexts + 1
        /\ mmTyped' = [mmTyped EXCEPT ![mmTexts'] = mmSel]
        /\ mmOdd' = (mmOdd \/ mmEditor.saving # 0)
    BY <1>5, ControlsIn DEF TypeText, MmInv
  <2>2. mmSel \in Docs \cup {NewForm} /\ MmTypeOK
    BY DEF MmInv, MmTypeOK
  <2>3. /\ mmTexts' \in Nat \ {0} /\ mmTyped' \in [1 .. MaxMemoryTexts -> Docs \cup {NewForm}]
        /\ \A n, d : TypedFor(n, d) => TypedFor(n, d)'
    BY <2>1, <2>2, TextsStay
  <2>4. TypedFor(mmTexts, mmSel)'
    <3>1. mmTexts + 1 \in 1 .. MaxMemoryTexts /\ mmTexts + 1 \in 1 .. (mmTexts + 1)
      BY <2>1, <2>2, MemoryBounds DEF MmTypeOK
    <3>2. mmTyped'[mmTexts'] = mmSel
      BY <2>1, <2>2, <3>1 DEF MmTypeOK
    <3> QED  BY <1>2, <2>1, <3>1, <3>2 DEF TypedFor
  <2>5. /\ editor \in MemoryEditors /\ editor.editing = mmEditor.editing /\ editor.draft = mmTexts'
        /\ editor.dirty /\ editor.saving = mmEditor.saving /\ editor.removing = mmEditor.removing
    BY <1>5, <2>3 DEF MmInv, MmTypeOK, MemoryEditors
  <2>6. MmTypeOK' /\ MemoryViewInv'
    BY <1>2, <2>1, <2>3, <2>5 DEF MmInv, MmTypeOK, MemoryViewInv
  <2>7. MemoryTextInv'
    BY <1>2, <2>3, <2>4, <2>5 DEF MmInv, MemoryTextInv
  <2>8. ~ mmOdd' => MemoryDraftInv'
    BY <1>2, <2>1, <2>5, DocNames DEF MmInv, MmTypeOK, MemoryRequests, MemoryDraftInv
  <2> QED  BY <1>2, <2>1, <2>6, <2>7, <2>8, MemoryRests DEF MmInv
<1> QED  BY <1>1, <1>3, <1>4, <1>5

\* A mutation is sent.
LEMMA MemoryCallOK ==
  ASSUME MmInv, NEW kind \in {"save", "toggle", "delete"}, NEW d \in Docs, NEW content \in Nat,
         NEW enabled \in BOOLEAN, MemoryCall(kind, d, content, enabled), kind # "save" => d \in Files,
         kind = "save" => /\ mmEditor' = [mmEditor EXCEPT !.saving = mmSent'] /\ content = mmEditor.draft
                          /\ mmSel = NewForm \/ (mmEditor.editing /\ mmEditor.dirty /\ d = mmSel),
         kind = "delete" => mmEditor' = [mmEditor EXCEPT !.removing = mmSent'],
         kind = "toggle" => mmEditor' = mmEditor
  PROVE  MmInv'
<1> DEFINE new == [kind |-> kind, n |-> mmSent', doc |-> d, content |-> content,
                   enabled |-> enabled, at |-> "sent", ok |-> TRUE]
<1>1. mmSent' = mmSent + 1 /\ mmSent' \in Nat \ {0}
  BY DEF MemoryCall, MmInv, MmTypeOK
<1>2. /\ new \in MemoryRequests /\ new.kind = kind /\ new.doc = d /\ new.content = content
      /\ new.n = mmSent' /\ new.at = "sent"
  BY <1>1 DEF MemoryRequests
<1>3. /\ mmNet' = mmNet \cup {new} /\ mmOdd' = (mmOdd \/ mmNet # {})
      /\ UNCHANGED <<mmDoc, mmSel, mmCache, mmList, mmFetch, mmListFetch, mmStale, mmTexts, mmTyped>>
  BY DEF MemoryCall
<1> HIDE DEF new
<1>4. /\ mmEditor' \in MemoryEditors /\ mmEditor'.editing = mmEditor.editing
      /\ mmEditor'.draft = mmEditor.draft /\ mmEditor'.dirty = mmEditor.dirty
      /\ mmEditor'.saving = IF kind = "save" THEN mmSent' ELSE mmEditor.saving
      /\ mmEditor'.removing = IF kind = "delete" THEN mmSent' ELSE mmEditor.removing
  BY <1>1 DEF MmInv, MmTypeOK, MemoryEditors
<1>5. MmTypeOK'
  BY <1>1, <1>2, <1>3, <1>4 DEF MmInv, MmTypeOK
<1>6. MemoryViewInv'
  <2>1. mmEditor.saving \in Nat /\ mmEditor.removing \in Nat /\ mmSent \in Nat
    BY DEF MmInv, MmTypeOK, MemoryEditors
  <2> QED  BY <1>1, <1>3, <1>4, <2>1 DEF MmInv, MemoryViewInv
<1>7. MemoryTextInv'
  BY <1>2, <1>3, <1>4 DEF MmInv, MmTypeOK, MemoryTextInv, TypedFor
<1>8. ASSUME ~ mmOdd' PROVE MemoryCallInv' /\ MemoryCacheInv' /\ MemoryDraftInv'
  <2>1. mmNet = {} /\ mmNet' = {new} /\ ~ mmOdd
    BY <1>3, <1>8
  <2>2. MemoryCallInv'
    BY <1>1, <1>2, <2>1 DEF MmInv, MmTypeOK, MemoryCallInv
  <2>3. Flags' = Flags /\ \A e \in Docs : ~ Unfetched(e)
    BY <1>3, <2>1 DEF Flags, Unfetched
  <2>4. MemoryCacheInv'
    BY <1>2, <1>3, <2>1, <2>3 DEF MmInv, MemoryCacheInv, DocFresh
  <2>5. ASSUME mmSel \in Docs, ~ mmEditor.editing
        PROVE  mmEditor.draft = Loaded(mmSel) \/ SavedText'
    <3>1. kind # "save"
      BY <2>5, DocNames
    <3>2. mmEditor.draft = Loaded(mmSel) \/ SavedText
      BY <2>1, <2>5 DEF MmInv, MemoryDraftInv
    <3>3. SavedText => SavedText'
      BY <1>2, <1>3, <1>4, <2>1, <3>1 DEF SavedText
    <3> QED  BY <3>2, <3>3
  <2>6. MemoryDraftInv'
    BY <1>2, <1>3, <1>4, <2>1, <2>5, DocNames DEF MemoryDraftInv, Loaded
  <2> QED  BY <2>2, <2>4, <2>6
<1> QED  BY <1>5, <1>6, <1>7, <1>8 DEF MmInv

LEMMA MemoryCallsOK ==
  ASSUME MmInv, SaveDoc \/ DeleteMemory \/ \E f \in Files : ToggleFile(f)
  PROVE  MmInv'
<1>1. mmEditor.draft \in Nat /\ mmSel \in Docs \cup {NewForm} /\ MmTypeOK
  BY DEF MmInv, MmTypeOK, MemoryEditors
<1>2. CASE SaveDoc
  <2>1. PICK d \in IF mmSel = NewForm THEN Files ELSE {mmSel} :
          MemoryCall("save", d, mmEditor.draft, TRUE)
    BY <1>2 DEF SaveDoc
  <2>2. mmSel = NewForm \/ (mmEditor.editing /\ mmEditor.dirty /\ d = mmSel)
    BY <1>1, <1>2, <2>1, ControlsIn DEF SaveDoc
  <2> QED  BY <1>1, <1>2, <2>1, <2>2, DocNames, MemoryCallOK DEF SaveDoc
<1>3. CASE DeleteMemory
  BY <1>1, <1>3, ControlsIn, DocNames, MemoryCallOK DEF DeleteMemory
<1>4. ASSUME NEW f \in Files, ToggleFile(f) PROVE MmInv'
  <2>1. mmList[f].enabled \in BOOLEAN
    BY <1>1 DEF MmTypeOK, StoredDocs
  <2> QED  BY <1>4, <2>1, DocNames, MemoryCallOK DEF ToggleFile
<1> QED  BY <1>2, <1>3, <1>4
-----------------------------------------------------------------------------
\* A request r becomes new, and what the store has of its document may change.
LEMMA RequestChangesOK ==
  ASSUME MmInv, NEW r \in mmNet, NEW new \in MemoryRequests, mmNet' = (mmNet \ {r}) \cup {new},
         new.kind = r.kind, new.n = r.n, new.doc = r.doc, r.kind = "save" => new.content = r.content,
         mmDoc' \in [Docs -> StoredDocs], \A d \in Docs : d # r.doc => mmDoc'[d] = mmDoc[d],
         mmOdd' \in BOOLEAN, mmOdd => mmOdd', r.at # "done",
         ~ mmOdd' =>
           /\ mmDoc' # mmDoc => new.at = "done"
           /\ new.kind = "save" /\ new.at = "done" => mmDoc'[r.doc].content = new.content
           /\ new.kind = "toggle" /\ new.at = "read" => mmDoc[r.doc].content = new.content
           /\ new.kind = "toggle" => mmDoc'[r.doc].content = mmDoc[r.doc].content
           /\ new.kind = "delete" => new.at = "done",
         UNCHANGED <<mmSel, mmEditor, mmCache, mmList, mmFetch, mmListFetch, mmStale, mmTexts,
                     mmSent, mmTyped>>
  PROVE  MmInv'
<1>1. MmTypeOK' /\ MemoryViewInv'
  BY DEF MmInv, MmTypeOK, MemoryViewInv
<1>2. MemoryTextInv'
  BY DEF MmInv, MemoryTextInv, TypedFor
<1>3. ASSUME ~ mmOdd' PROVE MemoryCallInv' /\ MemoryCacheInv' /\ MemoryDraftInv'
  <2>1. mmNet = {r} /\ mmNet' = {new} /\ r \in MemoryRequests /\ r.doc \in Docs
    BY <1>3 DEF MmInv, MmTypeOK, MemoryCallInv, MemoryRequests
  <2>2. MemoryCallInv'
    BY <1>3, <2>1 DEF MmInv, MemoryCallInv
  <2>3. \A d \in Docs : DocFresh(d)'
    <3> SUFFICES ASSUME NEW d \in Docs PROVE DocFresh(d)'
      OBVIOUS
    <3>1. DocFresh(d) /\ ~ Unfetched(d)
      BY <1>3, <2>1 DEF MmInv, MemoryCacheInv, Unfetched
    <3>2. CASE mmDoc'[d] = mmDoc[d]
      BY <3>1, <3>2 DEF DocFresh
    <3>3. CASE mmDoc'[d] # mmDoc[d]
      <4>1. d = r.doc /\ new.at = "done"
        BY <1>3, <3>3
      <4>2. d \in Invalidates(new)
        BY <4>1, DocNames DEF Invalidates
      <4>3. Unfetched(d)'
        <5>1. new \in mmNet' /\ Invalidates(new)' = Invalidates(new)
          BY <2>1 DEF Invalidates
        <5> QED  BY <4>1, <4>2, <5>1 DEF Unfetched, Invalidates
      <4> QED  BY <4>3 DEF DocFresh
    <3> QED  BY <3>2, <3>3
  <2>4. MemoryCacheInv'
    <3>1. ASSUME mmListFetch = Idle, r.doc \in Files => new.at # "done"
          PROVE  mmList = Flags'
      <4>1. mmList = Flags
        BY <1>3, <2>1, <3>1 DEF MmInv, MemoryCacheInv
      <4>2. \A f \in Files : mmDoc'[f] = mmDoc[f]
        BY <1>3, <2>1, <3>1, DocNames
      <4> QED  BY <4>1, <4>2 DEF Flags
    <3> QED  BY <2>1, <2>3, <3>1 DEF MemoryCacheInv
  <2>5. ASSUME mmSel \in Docs, SavedText PROVE SavedText'
    <3>1. r.doc = mmSel => r.kind = "toggle" \/ (r.kind = "delete" /\ r.n = mmEditor.removing)
      BY <2>1, <2>5 DEF SavedText
    <3>2. /\ mmEditor.draft = mmDoc[mmSel].content
          /\ mmFetch[mmSel] \in {Asked, mmDoc[mmSel].content}
      BY <2>1, <2>5 DEF SavedText
    <3>3. CASE r.doc = mmSel /\ r.kind = "delete"
      BY <1>3, <2>1, <3>1, <3>3 DEF SavedText
    <3>4. CASE r.doc # mmSel \/ r.kind = "toggle"
      <4>1. mmDoc'[mmSel].content = mmDoc[mmSel].content
        BY <1>3, <2>5, <3>4
      <4> QED  BY <2>1, <3>1, <3>2, <4>1 DEF SavedText
    <3> QED  BY <3>1, <3>3, <3>4
  <2>6. MemoryDraftInv'
    BY <1>3, <2>1, <2>5 DEF MmInv, MemoryDraftInv, Loaded
  <2> QED  BY <2>2, <2>4, <2>6
<1> QED  BY <1>1, <1>2, <1>3 DEF MmInv

LEMMA GoneType == Gone \in StoredDocs
  BY DEF Gone, StoredDocs

LEMMA ReadBackOK == ASSUME MmInv, NEW r \in mmNet, ReadBack(r) PROVE MmInv'
<1>1. r \in MemoryRequests /\ r.doc \in Docs /\ r.at = "sent" /\ mmDoc[r.doc] \in StoredDocs
  BY DEF ReadBack, MmInv, MmTypeOK, MemoryRequests
<1> DEFINE old == mmDoc[r.doc]
           new == CASE r.kind = "save" -> [r EXCEPT !.at = "read", !.enabled = old.enabled]
                    [] r.kind = "toggle" /\ old.there -> [r EXCEPT !.at = "read", !.content = old.content]
                    [] r.kind = "toggle" /\ ~ old.there -> [r EXCEPT !.at = "done", !.ok = FALSE]
                    [] r.kind = "delete" -> [r EXCEPT !.at = "done"]
<1>2. r.kind \in {"save", "toggle", "delete"} /\ old.enabled \in BOOLEAN /\ old.content \in Nat
  BY <1>1 DEF MemoryRequests, StoredDocs
<1>3. /\ new \in MemoryRequests /\ new.kind = r.kind /\ new.n = r.n /\ new.doc = r.doc
      /\ r.kind = "save" => new.content = r.content /\ new.at = "read"
      /\ new.kind = "toggle" /\ new.at = "read" => new.content = old.content
      /\ new.kind = "delete" => new.at = "done"
  <2>1. CASE r.kind = "save"
    BY <1>1, <1>2, <2>1 DEF MemoryRequests
  <2>2. CASE r.kind = "toggle"
    BY <1>1, <1>2, <2>2 DEF MemoryRequests
  <2>3. CASE r.kind = "delete"
    BY <1>1, <1>2, <2>3 DEF MemoryRequests
  <2> QED  BY <1>2, <2>1, <2>2, <2>3
<1>4. mmNet' = (mmNet \ {r}) \cup {new}
  BY DEF ReadBack
<1>5. /\ UNCHANGED <<mmSel, mmEditor, mmCache, mmList, mmFetch, mmListFetch, mmStale, mmTexts,
                     mmSent, mmTyped, mmOdd>>
      /\ mmDoc' = IF r.kind = "delete" THEN [mmDoc EXCEPT ![r.doc] = Gone] ELSE mmDoc
  BY DEF ReadBack, Store
<1> HIDE DEF new
<1>6. mmDoc \in [Docs -> StoredDocs] /\ mmOdd \in BOOLEAN
  BY DEF MmInv, MmTypeOK
<1>7. mmDoc' \in [Docs -> StoredDocs] /\ \A d \in Docs : d # r.doc => mmDoc'[d] = mmDoc[d]
  BY <1>5, <1>6, GoneType
<1> QED  BY <1>1, <1>3, <1>4, <1>5, <1>6, <1>7, RequestChangesOK

LEMMA WriteBackOK == ASSUME MmInv, NEW r \in mmNet, WriteBack(r) PROVE MmInv'
<1> DEFINE new == [r EXCEPT !.at = "done"]
<1>1. r \in MemoryRequests /\ r.doc \in Docs /\ r.at = "read" /\ r.content \in Nat
      /\ r.enabled \in BOOLEAN
  BY DEF WriteBack, MmInv, MmTypeOK, MemoryRequests
<1>2. /\ new \in MemoryRequests /\ new.kind = r.kind /\ new.n = r.n /\ new.doc = r.doc
      /\ new.content = r.content /\ new.at = "done"
  BY <1>1 DEF MemoryRequests
<1>3. /\ mmDoc' = [mmDoc EXCEPT ![r.doc] = Doc(r.content, r.enabled)]
      /\ mmNet' = (mmNet \ {r}) \cup {new}
      /\ UNCHANGED <<mmSel, mmEditor, mmCache, mmList, mmFetch, mmListFetch, mmStale, mmTexts,
                     mmSent, mmTyped, mmOdd>>
  BY DEF WriteBack, Store, At
<1> HIDE DEF new
<1>4. mmDoc \in [Docs -> StoredDocs] /\ mmOdd \in BOOLEAN
  BY DEF MmInv, MmTypeOK
<1>5. Doc(r.content, r.enabled) \in StoredDocs /\ Doc(r.content, r.enabled).content = r.content
  BY <1>1 DEF Doc, StoredDocs
<1>6. /\ mmDoc' \in [Docs -> StoredDocs] /\ \A d \in Docs : d # r.doc => mmDoc'[d] = mmDoc[d]
      /\ mmDoc'[r.doc].content = r.content
  BY <1>1, <1>3, <1>4, <1>5
<1>7. ~ mmOdd /\ r.kind = "toggle" => mmDoc[r.doc].content = r.content
  BY <1>1 DEF MmInv, MemoryCallInv
<1> QED  BY <1>1, <1>2, <1>3, <1>4, <1>6, <1>7, RequestChangesOK

LEMMA RefusedOK == ASSUME MmInv, NEW r \in mmNet, Refused(r) PROVE MmInv'
<1> DEFINE new == [r EXCEPT !.at = "done", !.ok = FALSE]
<1>1. r \in MemoryRequests /\ r.at = "sent" /\ mmDoc \in [Docs -> StoredDocs]
  BY DEF Refused, MmInv, MmTypeOK
<1>2. /\ new \in MemoryRequests /\ new.kind = r.kind /\ new.n = r.n /\ new.doc = r.doc
      /\ new.content = r.content
  BY <1>1 DEF MemoryRequests
<1>3. /\ mmNet' = (mmNet \ {r}) \cup {new} /\ mmOdd' = TRUE
      /\ UNCHANGED <<mmDoc, mmSel, mmEditor, mmCache, mmList, mmFetch, mmListFetch, mmStale, mmTexts,
                     mmSent, mmTyped>>
  BY DEF Refused
<1> HIDE DEF new
<1> QED  BY <1>1, <1>2, <1>3, RequestChangesOK

LEMMA AgentWritesOK == ASSUME MmInv, NEW d \in Docs, AgentWrites(d) PROVE MmInv'
<1>1. MmTypeOK /\ mmDoc[d].enabled \in BOOLEAN
  BY DEF MmInv, MmTypeOK, StoredDocs
<1>2. /\ mmTexts' \in Nat \ {0} /\ mmTyped' \in [1 .. MaxMemoryTexts -> Docs \cup {NewForm}]
      /\ \A n, e : TypedFor(n, e) => TypedFor(n, e)'
  BY <1>1, TextsStay DEF AgentWrites
<1>3. Doc(mmTexts', mmDoc[d].enabled) \in StoredDocs
  BY <1>1, <1>2 DEF Doc, StoredDocs
<1>4. /\ mmDoc' = [mmDoc EXCEPT ![d] = Doc(mmTexts', mmDoc[d].enabled)] /\ mmOdd' = TRUE
      /\ UNCHANGED <<mmSel, mmEditor, mmCache, mmList, mmFetch, mmListFetch, mmStale, mmNet, mmSent>>
  BY DEF AgentWrites, Store
<1>5. MmTypeOK'
  BY <1>1, <1>2, <1>3, <1>4 DEF MmTypeOK
<1>6. MemoryTextInv' /\ MemoryViewInv'
  BY <1>2, <1>4 DEF MmInv, MemoryTextInv, MemoryViewInv
<1> QED  BY <1>4, <1>5, <1>6 DEF MmInv

-----------------------------------------------------------------------------
LEMMA ReadDocOK == ASSUME MmInv, NEW d \in Docs, ReadDoc(d) PROVE MmInv'
<1>1. /\ mmFetch' = [mmFetch EXCEPT ![d] = mmDoc[d].content] /\ mmDoc[d].content \in Nat
      /\ UNCHANGED <<mmDoc, mmSel, mmEditor, mmCache, mmList, mmListFetch, mmStale, mmNet, mmTexts,
                     mmSent, mmTyped, mmOdd>>
  BY DEF ReadDoc, MmInv, MmTypeOK, StoredDocs
<1>2. MmTypeOK' /\ MemoryTextInv' /\ MemoryViewInv'
  BY <1>1, MemoryNumbers DEF MmInv, MmTypeOK, MemoryTextInv, TypedFor, MemoryViewInv
<1>3. ASSUME ~ mmOdd PROVE MemoryCallInv' /\ MemoryCacheInv' /\ MemoryDraftInv'
  <2>1. Flags' = Flags /\ \A e \in Docs : Unfetched(e)' = Unfetched(e)
    BY <1>1 DEF Flags, Unfetched, Invalidates
  <2>2. \A e \in Docs : DocFresh(e)'
    BY <1>1, <1>3, <2>1 DEF MmInv, MmTypeOK, MemoryCacheInv, DocFresh
  <2>3. MemoryCallInv' /\ MemoryCacheInv'
    BY <1>1, <1>3, <2>1, <2>2 DEF MmInv, MemoryCallInv, MemoryCacheInv
  <2>4. mmSel \in Docs /\ SavedText => SavedText'
    BY <1>1 DEF MmInv, MmTypeOK, SavedText
  <2>5. MemoryDraftInv'
    BY <1>1, <1>3, <2>4 DEF MmInv, MemoryDraftInv, Loaded
  <2> QED  BY <2>3, <2>5
<1> QED  BY <1>1, <1>2, <1>3 DEF MmInv

\* An answer resets the editor of its document, unless it says what was cached.
LEMMA ContentOK == ASSUME MmInv, NEW d \in Docs, Content(d) PROVE MmInv'
<1>1. /\ mmFetch[d] \in Nat /\ mmFetch' = [mmFetch EXCEPT ![d] = Idle]
      /\ mmCache' = [mmCache EXCEPT ![d] = mmFetch[d]]
      /\ mmEditor' = IF d = mmSel /\ mmCache[d] # mmFetch[d] THEN Reset(mmFetch[d]) ELSE mmEditor
      /\ UNCHANGED <<mmDoc, mmSel, mmList, mmListFetch, mmStale, mmNet, mmTexts, mmSent, mmTyped,
                     mmOdd>>
  BY DEF Content
<1>2. /\ Reset(mmFetch[d]) \in MemoryEditors /\ ~ Reset(mmFetch[d]).editing
      /\ Reset(mmFetch[d]).draft = mmFetch[d] /\ ~ Reset(mmFetch[d]).dirty
      /\ Reset(mmFetch[d]).saving = mmEditor.saving /\ Reset(mmFetch[d]).removing = mmEditor.removing
  BY <1>1, ResetType DEF MmInv, MmTypeOK
<1>3. MmTypeOK'
  BY <1>1, <1>2 DEF MmInv, MmTypeOK
<1>4. MemoryTextInv' /\ MemoryViewInv'
  BY <1>1, <1>2, DocNames, MemoryNumbers DEF MmInv, MmTypeOK, MemoryTextInv, TypedFor, MemoryViewInv
<1>5. ASSUME ~ mmOdd PROVE MemoryCallInv' /\ MemoryCacheInv' /\ MemoryDraftInv'
  <2>1. Flags' = Flags /\ \A e \in Docs : Unfetched(e)' = Unfetched(e)
    BY <1>1 DEF Flags, Unfetched, Invalidates
  <2>2. \A e \in Docs : DocFresh(e)'
    BY <1>1, <1>5, <2>1, MemoryNumbers DEF MmInv, MmTypeOK, MemoryCacheInv, DocFresh
  <2>3. MemoryCallInv' /\ MemoryCacheInv'
    BY <1>1, <1>5, <2>1, <2>2 DEF MmInv, MemoryCallInv, MemoryCacheInv
  <2>4. CASE d # mmSel
    <3>1. mmSel \in Docs => Loaded(mmSel)' = Loaded(mmSel) /\ mmFetch'[mmSel] = mmFetch[mmSel]
      BY <1>1, <2>4 DEF Loaded, MmInv, MmTypeOK
    <3>2. mmSel \in Docs /\ SavedText => SavedText'
      BY <1>1, <2>4, <3>1 DEF SavedText
    <3> QED  BY <1>1, <1>5, <2>3, <2>4, <3>1, <3>2 DEF MmInv, MemoryDraftInv
  <2>5. CASE d = mmSel
    <3>1. mmCache'[d] = mmFetch[d] /\ Loaded(d)' = mmFetch[d]
      BY <1>1, MemoryNumbers DEF Loaded, MmInv, MmTypeOK
    <3>2. CASE mmCache[d] # mmFetch[d]
      BY <1>1, <1>2, <1>5, <2>3, <2>5, <3>1, <3>2 DEF MmInv, MemoryDraftInv
    <3>3. CASE mmCache[d] = mmFetch[d]
      <4>1. mmEditor' = mmEditor /\ Loaded(d) = mmFetch[d]
        BY <1>1, <3>3, MemoryNumbers DEF Loaded
      <4>2. ASSUME SavedText PROVE mmEditor.draft = Loaded(d)' \/ SavedText'
        <5>1. CASE \E r \in mmNet : r.kind = "delete" /\ r.doc = mmSel /\ r.at = "done"
          BY <1>1, <4>1, <4>2, <5>1 DEF SavedText
        <5>2. CASE mmEditor.draft = mmDoc[d].content /\ mmFetch[d] \in {Asked, mmDoc[d].content}
          BY <1>1, <3>1, <5>2, MemoryNumbers
        <5> QED  BY <2>5, <4>2, <5>1, <5>2 DEF SavedText
      <4> QED  BY <1>1, <1>5, <2>3, <2>5, <3>1, <4>1, <4>2 DEF MmInv, MemoryDraftInv
    <3> QED  BY <3>2, <3>3
  <2> QED  BY <2>4, <2>5
<1> QED  BY <1>1, <1>3, <1>4, <1>5 DEF MmInv

LEMMA MemoryListOK == ASSUME MmInv, List PROVE MmInv'
<1>1. /\ mmListFetch' = Idle /\ mmList' = Flags
      /\ UNCHANGED <<mmDoc, mmSel, mmEditor, mmCache, mmFetch, mmStale, mmNet, mmTexts, mmSent,
                     mmTyped, mmOdd>>
  BY DEF List
<1>2. \A f \in Files : [mmDoc[f] EXCEPT !.content = 0] \in StoredDocs
  <2> SUFFICES ASSUME NEW f \in Files PROVE [mmDoc[f] EXCEPT !.content = 0] \in StoredDocs
    OBVIOUS
  <2>1. mmDoc[f] \in StoredDocs
    BY DocNames DEF MmInv, MmTypeOK
  <2> QED  BY <2>1 DEF StoredDocs
<1>3. MmTypeOK'
  BY <1>1, <1>2 DEF MmInv, MmTypeOK, Flags
<1>4. MemoryTextInv' /\ MemoryViewInv'
  BY <1>1 DEF MmInv, MemoryTextInv, TypedFor, MemoryViewInv
<1>5. Flags' = Flags /\ \A e \in Docs : Unfetched(e)' = Unfetched(e)
  BY <1>1 DEF Flags, Unfetched, Invalidates
<1>6. ~ mmOdd => MemoryCallInv' /\ MemoryCacheInv' /\ MemoryDraftInv'
  BY <1>1, <1>5 DEF MmInv, MemoryCallInv, MemoryCacheInv, DocFresh, MemoryDraftInv, SavedText, Loaded
<1> QED  BY <1>1, <1>3, <1>4, <1>6 DEF MmInv
\* A mutation is answered: what it changed is asked for or marked, and the view may
\* move to another document.
LEMMA MutatedOK == ASSUME MmInv, NEW r \in mmNet, Mutated(r) PROVE MmInv'
<1> DEFINE mine == r.kind = "save" /\ mmEditor.saving = r.n
           removed == r.kind = "delete" /\ mmEditor.removing = r.n
           next == IF removed THEN Agents
                   ELSE IF mine /\ mmSel = NewForm /\ r.ok THEN r.doc ELSE mmSel
           told == [mmEditor EXCEPT !.saving = 0, !.editing = (mmSel = NewForm)]
<1>1. /\ r \in MemoryRequests /\ r.doc \in Docs /\ r.at = "done" /\ MmTypeOK
      /\ mmSel \in Docs \cup {NewForm} /\ mmEditor \in MemoryEditors
  BY DEF Mutated, MmInv, MmTypeOK, MemoryRequests
<1>2. /\ mmNet' = mmNet \ {r} /\ mmSel' = next /\ Fetched(r, next)
      /\ mmListFetch' = IF r.doc = Agents THEN mmListFetch ELSE Asked
      /\ UNCHANGED <<mmDoc, mmCache, mmList, mmTexts, mmSent, mmTyped, mmOdd>>
      /\ next # mmSel => mmEditor' = Viewing(Loaded(next))
      /\ next = mmSel /\ mine => mmEditor' = told
      /\ next = mmSel /\ ~ mine => mmEditor' = mmEditor
  BY DEF Mutated
<1>3. next \in Docs \cup {NewForm} /\ (next # mmSel => next \in Docs)
  BY <1>1, DocNames
<1>4. /\ told \in MemoryEditors /\ told.editing = (mmSel = NewForm) /\ told.draft = mmEditor.draft
      /\ told.dirty = mmEditor.dirty /\ told.saving = 0 /\ told.removing = mmEditor.removing
  BY <1>1 DEF MemoryEditors
<1>5. next # mmSel =>
        /\ mmEditor' \in MemoryEditors /\ ~ mmEditor'.editing /\ mmEditor'.draft = Loaded(next)
        /\ ~ mmEditor'.dirty /\ mmEditor'.saving = 0 /\ mmEditor'.removing = 0
  BY <1>1, <1>2, <1>3, ViewingType, LoadedType
<1>6. /\ mmStale' = (mmStale \cup Invalidates(r)) \ {next}
      /\ mmFetch' = [e \in Docs |->
           IF e = next /\ (e \in Invalidates(r) \cup mmStale \/ mmCache[e] = NotLoaded)
           THEN Asked ELSE mmFetch[e]]
  BY <1>2 DEF Fetched
<1>7. Invalidates(r) \subseteq Docs /\ r.doc \in Invalidates(r)
  BY <1>1, DocNames DEF Invalidates
<1>8. next = mmSel => removed = FALSE \/ mmSel = Agents
  OBVIOUS
<1> HIDE DEF next, told
<1>9. mmEditor' \in MemoryEditors
  BY <1>1, <1>2, <1>4, <1>5
<1>10. MmTypeOK'
  <2>1. mmFetch' \in [Docs -> Nat \cup {Idle, Asked}] /\ mmStale' \subseteq Docs
    BY <1>1, <1>6, <1>7 DEF MmTypeOK
  <2>2. mmSel' \in Docs \cup {NewForm}
    BY <1>2, <1>3
  <2> QED  BY <1>1, <1>2, <1>9, <2>1, <2>2 DEF MmTypeOK
<1>11. MemoryTextInv'
  BY <1>1, <1>2, <1>3, <1>4, <1>5, DocNames DEF MmInv, MemoryTextInv, TypedFor
<1>12. MemoryViewInv'
  <2>1. mmEditor'.saving \in {0, mmEditor.saving} /\ mmEditor'.removing \in {0, mmEditor.removing}
    BY <1>2, <1>4, <1>5
  <2>2. next \in Docs => mmFetch'[next] # Idle \/ mmCache[next] # NotLoaded
    BY <1>6, MemoryNumbers
  <2> QED  BY <1>1, <1>2, <1>6, <2>1, <2>2 DEF MmInv, MmTypeOK, MemoryViewInv
<1>13. ASSUME ~ mmOdd PROVE MemoryCallInv' /\ MemoryCacheInv' /\ MemoryDraftInv'
  <2>1. mmNet = {r} /\ mmNet' = {} /\ MemoryCallInv /\ MemoryCacheInv /\ MemoryDraftInv
    BY <1>2, <1>13 DEF MmInv, MemoryCallInv
  <2>2. \A d \in Docs : DocFresh(d)'
    <3> SUFFICES ASSUME NEW d \in Docs PROVE DocFresh(d)'
      OBVIOUS
    <3>1. CASE d \in Invalidates(r) \cup mmStale
      <4>1. IF d = next THEN mmFetch'[d] = Asked ELSE d \in mmStale'
        BY <1>6, <3>1
      <4> QED  BY <4>1 DEF DocFresh
    <3>2. CASE d \notin Invalidates(r) \cup mmStale
      <4>1. DocFresh(d) /\ ~ Unfetched(d)
        BY <2>1, <3>2 DEF MemoryCacheInv, Unfetched
      <4>2. mmFetch'[d] \in {Asked, mmFetch[d]}
        BY <1>6
      <4> QED  BY <1>2, <3>2, <4>1, <4>2 DEF DocFresh
    <3> QED  BY <3>1, <3>2
  <2>3. MemoryCacheInv'
    <3>1. mmListFetch' = Idle => mmList = Flags
      BY <1>2, <2>1, DocNames, MemoryNumbers DEF MemoryCacheInv
    <3>2. Flags' = Flags
      BY <1>2 DEF Flags
    <3> QED  BY <1>2, <2>2, <3>1, <3>2 DEF MemoryCacheInv
  <2>4. ASSUME next \in Docs, ~ mmEditor'.editing
        PROVE  mmEditor'.draft = Loaded(next) \/ SavedText'
    <3>1. CASE next # mmSel
      BY <1>5, <3>1
    <3>2. CASE next = mmSel /\ mine
      <4>1. r.doc = mmSel /\ (mmEditor.editing => mmEditor.draft \in {Loaded(mmSel), r.content})
        BY <2>1, <2>4, <3>2 DEF MemoryDraftInv
      <4>2. ~ SavedText
        BY <3>2, <4>1 DEF SavedText
      <4>3. mmEditor.draft \in {Loaded(mmSel), r.content}
        BY <2>1, <2>4, <3>2, <4>1, <4>2 DEF MemoryDraftInv
      <4>4. mmDoc[mmSel].content = r.content /\ mmFetch'[mmSel] = Asked
        BY <1>1, <1>6, <1>7, <2>1, <2>4, <3>2, <4>1 DEF MemoryCallInv
      <4>5. mmEditor'.draft = mmEditor.draft
        BY <1>2, <1>4, <3>2
      <4> QED  BY <1>2, <2>1, <3>2, <4>3, <4>4, <4>5 DEF SavedText
    <3>3. CASE next = mmSel /\ ~ mine
      <4>1. mmEditor' = mmEditor /\ (mmEditor.draft = Loaded(mmSel) \/ SavedText)
        BY <1>2, <2>1, <2>4, <3>3 DEF MemoryDraftInv
      <4>2. ASSUME SavedText PROVE SavedText'
        <5>1. r.kind = "delete" /\ r.doc = mmSel => FALSE
          BY <1>8, <2>1, <3>3, <4>2, DocNames DEF SavedText, MemoryCallInv
        <5>2. /\ mmEditor.draft = mmDoc[mmSel].content
              /\ mmFetch[mmSel] \in {Asked, mmDoc[mmSel].content}
          BY <2>1, <4>2, <5>1 DEF SavedText
        <5>3. mmFetch'[mmSel] \in {Asked, mmFetch[mmSel]}
          BY <1>6, <2>4, <3>3
        <5> QED  BY <1>2, <2>1, <3>3, <4>1, <5>2, <5>3 DEF SavedText
      <4> QED  BY <3>3, <4>1, <4>2
    <3> QED  BY <3>1, <3>2, <3>3
  <2>5. MemoryDraftInv'
    BY <1>2, <2>1, <2>4 DEF MemoryDraftInv, Loaded
  <2> QED  BY <2>1, <2>3, <2>5 DEF MemoryCallInv
<1> QED  BY <1>2, <1>10, <1>11, <1>12, <1>13 DEF MmInv

LEMMA MemoryStepOK == MmInv /\ [NextMemory]_mmVars => MmInv'
<1> SUFFICES ASSUME MmInv, [NextMemory]_mmVars PROVE MmInv'
  OBVIOUS
<1>1. CASE (\E d \in Docs : Select(d)) \/ CancelForm \/ OpenForm
  BY <1>1, MemorySelectOK
<1>2. CASE StartEditing \/ CancelEditing \/ TypeText
  BY <1>2, MemoryEditorOK
<1>3. CASE SaveDoc \/ DeleteMemory \/ \E f \in Files : ToggleFile(f)
  BY <1>3, MemoryCallsOK
<1>4. CASE List \/ \E d \in Docs : AgentWrites(d) \/ ReadDoc(d) \/ Content(d)
  BY <1>4, MemoryListOK, AgentWritesOK, ReadDocOK, ContentOK
<1>5. CASE \E r \in mmNet : ReadBack(r) \/ WriteBack(r) \/ Refused(r) \/ Mutated(r)
  BY <1>5, ReadBackOK, WriteBackOK, RefusedOK, MutatedOK
<1>6. CASE UNCHANGED mmVars
  <2>1. Flags' = Flags /\ \A e \in Docs : Unfetched(e)' = Unfetched(e)
    BY <1>6 DEF mmVars, Flags, Unfetched, Invalidates
  <2> QED  BY <1>6, <2>1 DEF mmVars, MmInv, MmTypeOK, MemoryTextInv, TypedFor, MemoryViewInv, MemoryCallInv, MemoryCacheInv,
              DocFresh, MemoryDraftInv, SavedText, Loaded
<1> QED  BY <1>1, <1>2, <1>3, <1>4, <1>5, <1>6 DEF NextMemory

\* The text saved under the name of a file was typed for this file or in the form of a
\* new one, for any files, selections, late loads and writes of the agent (MemoryPanel).
THEOREM TextsStayWithFiles == SpecMemory => []SavesItsOwnText
<1>1. MmInv => SavesItsOwnText
  BY DEF MmInv, MemoryTextInv, TypedFor, SavesItsOwnText
<1> QED  BY <1>1, MemoryInitOK, MemoryStepOK, PTL DEF SpecMemory

\* With nothing under way the panel shows what is stored, for any files, saves, switches
\* and deletions, unless somebody interfered: see mmOdd (MemoryPanel, FileEditor).
THEOREM PanelIsTrue == SpecMemory => []PanelTellsTruth
<1>1. MmInv => PanelTellsTruth
  <2> SUFFICES ASSUME MmInv, ~ mmOdd, mmNet = {}, mmListFetch = Idle, \A d \in Docs : mmFetch[d] = Idle
               PROVE  /\ mmList = Flags
                      /\ mmSel \in Docs /\ ~ mmEditor.editing =>
                           mmEditor.draft = mmDoc[mmSel].content
    BY DEF PanelTellsTruth
  <2>1. mmList = Flags
    BY DEF MmInv, MemoryCacheInv
  <2>2. ASSUME mmSel \in Docs, ~ mmEditor.editing PROVE mmEditor.draft = mmDoc[mmSel].content
    <3>1. mmDoc[mmSel].content \in Nat
      BY <2>2 DEF MmInv, MmTypeOK, StoredDocs
    <3>2. mmCache[mmSel] = mmDoc[mmSel].content
      BY <2>2, <3>1, MemoryNumbers DEF MmInv, MemoryCacheInv, DocFresh, MemoryViewInv, Unfetched
    <3>3. ~ SavedText
      BY <2>2, <3>1, MemoryNumbers DEF SavedText
    <3> QED  BY <2>2, <3>1, <3>2, <3>3, MemoryNumbers DEF MmInv, MemoryDraftInv, Loaded
  <2> QED  BY <2>1, <2>2
<1> QED  BY <1>1, MemoryInitOK, MemoryStepOK, PTL DEF SpecMemory

-----------------------------------------------------------------------------
(* Preferences *)

Parts == UNION {[S -> Nat] : S \in SUBSET Settings}
PrefWrites == [kind : {"put", "ok", "failed"}, n : Nat, body : Parts, mutation : BOOLEAN,
          prev : Parts, had : BOOLEAN]
PrefFetches == [kind : {"get"}, n : Nat]
PrefAnswers == [kind : {"got"}, n : Nat, body : Parts]

UiTypeOK ==
  /\ uiRow \in [Settings -> Nat] /\ uiChosen \in [Settings -> Nat] /\ uiShown \in [Settings -> Nat]
  /\ uiCache \in Parts /\ uiCached \in BOOLEAN
  /\ uiChoices \in Nat /\ uiFetches \in Nat
  /\ uiNet \subseteq PrefWrites \cup PrefFetches \cup PrefAnswers

\* What is written or answered is what the user chose, but where a write was lost.
AsChosen(body, lost) == \A k \in DOMAIN body \ lost : body[k] = uiChosen[k]
Writes == InFlight({"put", "ok", "failed"})
WriteOK(r) ==
  /\ AsChosen(r.body, uiLost) /\ AsChosen(r.prev, uiLost \cup Subject(r))
  /\ r.kind = "failed" => Subject(r) \subseteq uiLost
KeptOrSent(k) ==
  uiRow[k] = uiChosen[k] \/ \E r \in InFlight({"put"}) : k \in Subject(r) /\ r.n = uiChosen[k]

\* While every write was calm there is at most one, no fetch races it, and what the
\* server holds is what was chosen or is about to be.
CalmInv ==
  /\ AsChosen(uiCache, uiLost)
  /\ \A r \in InFlight({"got"}) : r.n = uiFetch => AsChosen(r.body, uiLost)
  /\ \A r \in Writes : uiFetch = 0 /\ WriteOK(r)
  /\ \A q, r \in Writes : q = r
  /\ \A k \in Settings \ uiLost : KeptOrSent(k)

\* Fetches are numbered, and nothing was chosen before PrefsSync had applied the cache.
FetchesOK ==
  /\ uiFetch \in 0..uiFetches
  /\ \A r \in InFlight({"get", "got"}) : r.n \in 1..uiFetches
Unapplied == uiApplied \/ \A k \in Picked : uiChosen[k] = 1

PrefInv == UiTypeOK /\ FetchesOK /\ Unapplied /\ ChoiceShown /\ (uiCalm => CalmInv)

-----------------------------------------------------------------------------
LEMMA PartType ==
  ASSUME NEW f \in Parts
  PROVE  DOMAIN f \subseteq Settings /\ f \in [DOMAIN f -> Nat]
  BY DEF Parts

LEMMA NothingType == Nothing \in Parts /\ DOMAIN Nothing = {}
<1>1. Nothing \in [{} -> Nat] /\ DOMAIN Nothing = {}
  BY DEF Nothing
<1> QED  BY <1>1 DEF Parts

\* One value laid over the others.
LEMMA Overlay ==
  ASSUME NEW k \in Settings, NEW n \in Nat, NEW f \in Parts
  PROVE  LET g == Over(Only(k, n), f)
         IN g \in Parts /\ DOMAIN g = {k} \cup DOMAIN f /\ g[k] = n /\ \A j \in DOMAIN f \ {k} : g[j] = f[j]
<1> DEFINE D == {k} \cup DOMAIN f
           g == Over(Only(k, n), f)
<1>1. g = [x \in D |-> IF x = k THEN n ELSE f[x]]
  BY DEF Over, Only
<1>2. D \in SUBSET Settings /\ f \in [DOMAIN f -> Nat]
  BY PartType
<1>3. g \in [D -> Nat]
  BY <1>1, <1>2
<1> QED  BY <1>1, <1>2, <1>3 DEF Parts

\* Some values laid over all.
LEMMA OverlayAll ==
  ASSUME NEW f \in Parts, NEW row \in [Settings -> Nat]
  PROVE  Over(f, row) \in [Settings -> Nat] /\ \A k \in Settings : Over(f, row)[k] = IF k \in DOMAIN f THEN f[k] ELSE row[k]
<1>1. Over(f, row) = [x \in Settings |-> IF x \in DOMAIN f THEN f[x] ELSE row[x]]
  BY PartType DEF Over
<1> QED  BY <1>1, PartType

\* Messages are told apart by their kind.
LEMMA UiKinds ==
  ASSUME UiTypeOK, NEW r \in uiNet
  PROVE  /\ r.kind \in {"put", "ok", "failed"} => r \in PrefWrites
         /\ r.kind = "got" => r \in PrefAnswers
         /\ r.kind = "get" => r \in PrefFetches
         /\ r.n \in Nat
  BY DEF UiTypeOK, PrefWrites, PrefFetches, PrefAnswers

LEMMA UiInitOK == InitPreferences => PrefInv
<1> SUFFICES ASSUME InitPreferences PROVE PrefInv
  OBVIOUS
<1>1. Get(1) \in PrefFetches /\ Get(1).kind = "get" /\ Get(1).n = 1
  BY DEF Get, PrefFetches
<1>2. UiTypeOK
  BY <1>1, NothingType DEF InitPreferences, UiTypeOK
<1>3. FetchesOK /\ Unapplied /\ ChoiceShown
  BY <1>1 DEF InitPreferences, FetchesOK, Unapplied, ChoiceShown, InFlight, Settings
<1>4. CalmInv
  BY <1>1, NothingType DEF InitPreferences, CalmInv, AsChosen, InFlight, Writes, KeptOrSent
<1> QED  BY <1>2, <1>3, <1>4 DEF PrefInv

-----------------------------------------------------------------------------
(* The parts of a step *)

\* A new cache is shown only when it is the first.
LEMMA CacheSet ==
  ASSUME PrefInv, NEW cache \in Parts, NEW shown \in [Settings -> Nat], SetCache(cache, shown)
  PROVE  /\ uiCache' = cache /\ uiCached' = TRUE /\ uiApplied' = TRUE
         /\ uiShown' \in [Settings -> Nat]
         /\ uiShown' = shown \/ \A k \in Picked : uiChosen[k] = 1
         /\ \A k \in Picked : k \notin DOMAIN cache \/ cache[k] = shown[k] => uiShown'[k] = shown[k]
  BY OverlayAll DEF SetCache, Hydrated, PrefInv, Unapplied, Settings

\* Choices stay shown when nothing is chosen.
LEMMA ShownKept ==
  ASSUME PrefInv, uiChosen' = uiChosen,
         UNCHANGED <<uiShown, uiApplied>> \/ \E cache \in Parts : SetCache(cache, uiShown)
  PROVE  ChoiceShown' /\ Unapplied' /\ uiShown' \in [Settings -> Nat]
<1>1. CASE UNCHANGED <<uiShown, uiApplied>>
  BY <1>1 DEF PrefInv, UiTypeOK, ChoiceShown, Unapplied
<1>2. CASE \E cache \in Parts : SetCache(cache, uiShown)
  <2>1. uiApplied' = TRUE /\ uiShown' \in [Settings -> Nat]
        /\ (uiShown' = uiShown \/ \A k \in Picked : uiChosen[k] = 1)
    BY <1>2, CacheSet DEF PrefInv, UiTypeOK
  <2> QED  BY <2>1 DEF PrefInv, ChoiceShown, Unapplied
<1> QED  BY <1>1, <1>2

\* A choice is sent over the whole cache.
LEMMA ChoiceSent ==
  ASSUME PrefInv, NEW k \in Settings, NEW n \in 2 .. MaxChoices, Chosen(k, n),
         NEW next, next = Over(Only(k, n), uiCache), uiCache' = next, uiCached' = TRUE,
         NEW mutation \in BOOLEAN, NEW prev \in {Nothing, uiCache}, NEW had \in BOOLEAN,
         uiNet' = uiNet \cup {Put(n, next, mutation, prev, had)},
         uiFetch' \in {0, uiFetch}, UNCHANGED <<uiRow, uiFetches>>,
         uiCalm' => uiCalm /\ uiFetch' = 0 /\ Writes = {},
         uiShown' \in [Settings -> Nat]
  PROVE  UiTypeOK' /\ FetchesOK' /\ (uiCalm' => CalmInv')
<1> DEFINE w == Put(n, next, mutation, prev, had)
<1>1. n \in Nat /\ n = uiChoices' /\ uiChosen' = [uiChosen EXCEPT ![k] = n]
      /\ uiLost' = uiLost \ {k}
  BY PrefBounds DEF Chosen
<1>2. /\ next \in Parts /\ DOMAIN next = {k} \cup DOMAIN uiCache /\ next[k] = n
      /\ \A j \in DOMAIN uiCache \ {k} : next[j] = uiCache[j]
  <2>1. uiCache \in Parts
    BY DEF PrefInv, UiTypeOK
  <2> QED  BY <1>1, <2>1, Overlay
<1>3. prev \in Parts
  BY NothingType DEF PrefInv, UiTypeOK
<1>4. w \in PrefWrites /\ w.kind = "put" /\ w.n = n /\ w.body = next /\ w.prev = prev
  BY <1>1, <1>2, <1>3 DEF Put, PrefWrites
<1>5. uiNet' = uiNet \cup {w}
  OBVIOUS
<1> HIDE DEF w
<1>6. UiTypeOK'
  BY <1>1, <1>2, <1>4, <1>5 DEF PrefInv, UiTypeOK
<1>7. FetchesOK'
  <2>1. InFlight({"get", "got"})' = InFlight({"get", "got"})
    BY <1>4, <1>5 DEF InFlight
  <2>2. uiFetches \in Nat
    BY DEF PrefInv, UiTypeOK
  <2> QED  BY <2>1, <2>2 DEF PrefInv, FetchesOK
<1>8. ASSUME uiCalm' PROVE CalmInv'
  <2>1. CalmInv /\ Writes = {} /\ uiFetch' = 0
    BY <1>8 DEF PrefInv
  <2>2. uiChosen'[k] = n /\ \A j \in Settings \ {k} : uiChosen'[j] = uiChosen[j]
    BY <1>1 DEF PrefInv, UiTypeOK
  <2>3. DOMAIN uiCache \subseteq Settings
    BY PartType DEF PrefInv, UiTypeOK
  <2>4. AsChosen(next, uiLost)'
    BY <1>1, <1>2, <2>1, <2>2, <2>3 DEF CalmInv, AsChosen
  <2>5. k \in Subject(w)
    BY <1>2, <1>4 DEF Subject
  <2>6. AsChosen(prev, uiLost \cup Subject(w))'
    BY <1>1, <2>1, <2>2, <2>3, <2>5, NothingType DEF CalmInv, AsChosen
  <2>7. Writes' = {w} /\ w \in InFlight({"put"})'
    BY <1>4, <1>5, <2>1 DEF Writes, InFlight
  <2>8. WriteOK(w)'
    BY <1>4, <2>4, <2>6 DEF WriteOK, Subject
  <2>9. \A r \in InFlight({"got"})' : r.n # uiFetch'
    BY <1>7, <2>1 DEF FetchesOK, InFlight
  <2>10. \A j \in Settings \ uiLost' : KeptOrSent(j)'
    <3> SUFFICES ASSUME NEW j \in Settings \ uiLost' PROVE KeptOrSent(j)'
      OBVIOUS
    <3>1. CASE j = k
      BY <1>4, <2>2, <2>5, <2>7, <3>1 DEF KeptOrSent, Subject
    <3>2. CASE j # k
      <4>1. KeptOrSent(j) /\ InFlight({"put"}) = {}
        BY <1>1, <2>1, <3>2 DEF CalmInv, Writes, InFlight
      <4> QED  BY <2>2, <3>2, <4>1 DEF KeptOrSent
    <3> QED  BY <3>1, <3>2
  <2>11. AsChosen(uiCache, uiLost)'
    BY <2>4
  <2> QED  BY <2>1, <2>7, <2>8, <2>9, <2>10, <2>11 DEF CalmInv
<1> QED  BY <1>6, <1>7, <1>8

\* The choices and their row stay, and so does what is under way, but for messages that
\* are not writes.
LEMMA CalmKept ==
  ASSUME PrefInv, UNCHANGED <<uiChosen, uiRow, uiLost>>, uiCalm' => uiCalm,
         uiCalm /\ CalmInv => AsChosen(uiCache', uiLost),
         \A r \in Writes' : r \in Writes, InFlight({"put"})' = InFlight({"put"}),
         uiCalm' /\ Writes' # {} => uiFetch' = 0,
         uiCalm' => \A r \in InFlight({"got"})' : r.n = uiFetch' => AsChosen(r.body, uiLost)
  PROVE  uiCalm' => CalmInv'
<1> SUFFICES ASSUME uiCalm' PROVE CalmInv'
  OBVIOUS
<1>1. CalmInv
  BY DEF PrefInv
<1>2. \A body, lost : AsChosen(body, lost) => AsChosen(body, lost)'
  BY DEF AsChosen
<1>3. AsChosen(uiCache, uiLost)'
  BY <1>1 DEF PrefInv, AsChosen
<1>4. \A r \in Writes' : uiFetch' = 0 /\ WriteOK(r)'
  BY <1>1 DEF CalmInv, WriteOK, AsChosen, Subject
<1>5. \A k \in Settings \ uiLost' : KeptOrSent(k)'
  BY <1>1 DEF CalmInv, KeptOrSent, Subject
<1>6. \A q, r \in Writes' : q = r
  BY <1>1 DEF CalmInv
<1>7. \A r \in InFlight({"got"})' : r.n = uiFetch' => AsChosen(r.body, uiLost)'
  BY DEF AsChosen
<1> QED  BY <1>3, <1>4, <1>5, <1>6, <1>7 DEF CalmInv

-----------------------------------------------------------------------------
(* The two writers *)

LEMMA SetPrefOK == ASSUME PrefInv, NEW k \in Picked, SetPref(k) PROVE PrefInv'
<1>1. PICK n \in 2 .. MaxChoices :
        /\ Chosen(k, n) /\ Persist(k, n)
        /\ uiCalm' = (uiCalm /\ uiFetch = 0 /\ InFlight({"put", "failed", "ok"}) = {})
        /\ UNCHANGED <<uiRow, uiFetch, uiFetches, uiFaults>>
  BY DEF SetPref
<1> DEFINE next == Over(Only(k, n), uiCache)
           shown == [uiShown EXCEPT ![k] = n]
<1>2. SetCache(next, shown) /\ uiNet' = uiNet \cup {Put(n, next, FALSE, Nothing, FALSE)}
  BY <1>1 DEF Persist
<1>3. k \in Settings /\ n \in Nat /\ uiChosen' = [uiChosen EXCEPT ![k] = n] /\ uiCache \in Parts
  BY <1>1, PrefBounds DEF Settings, Chosen, PrefInv, UiTypeOK
<1>4. next \in Parts /\ next[k] = n
  BY <1>3, Overlay
<1>5. shown \in [Settings -> Nat] /\ shown[k] = n /\ \A j \in Settings \ {k} : shown[j] = uiShown[j]
  BY <1>3 DEF PrefInv, UiTypeOK
<1> HIDE DEF next, shown
<1>6. /\ uiCache' = next /\ uiCached' = TRUE /\ uiApplied' = TRUE /\ uiShown' \in [Settings -> Nat]
      /\ uiShown' = shown \/ \A j \in Picked : uiChosen[j] = 1
      /\ uiShown'[k] = shown[k]
  BY <1>2, <1>4, <1>5, CacheSet
<1>7. ChoiceShown' /\ Unapplied'
  <2> SUFFICES ASSUME NEW j \in Picked, uiChosen'[j] > 1 PROVE uiShown'[j] = uiChosen'[j]
    BY <1>6 DEF ChoiceShown, Unapplied
  <2>1. uiChosen \in [Settings -> Nat] /\ j \in Settings
    BY DEF PrefInv, UiTypeOK, Settings
  <2> QED  BY <1>3, <1>5, <1>6, <2>1 DEF PrefInv, ChoiceShown
<1>8. Writes = InFlight({"put", "failed", "ok"})
  BY DEF Writes, InFlight
<1>9. UiTypeOK' /\ FetchesOK' /\ (uiCalm' => CalmInv')
  <2>1. next = Over(Only(k, n), uiCache)
    BY DEF next
  <2> QED  BY <1>1, <1>2, <1>3, <1>6, <1>8, <2>1, ChoiceSent
<1> QED  BY <1>7, <1>9 DEF PrefInv

LEMMA WriteSettingOK == ASSUME PrefInv, NEW k \in Written, WriteSetting(k) PROVE PrefInv'
<1> DEFINE next(n) == Over(Only(k, n), uiCache)
<1>1. PICK n \in 2 .. MaxChoices :
        /\ Chosen(k, n) /\ uiFetch' = 0 /\ SetCache(next(n), uiShown)
        /\ uiNet' = uiNet \cup {Put(n, next(n), TRUE, uiCache, uiCached)}
        /\ uiCalm' = (uiCalm /\ InFlight({"put", "failed", "ok"}) = {})
        /\ UNCHANGED <<uiRow, uiFetches, uiFaults>>
  BY DEF WriteSetting, Cancelled
<1>2. k \in Settings /\ n \in Nat /\ uiChosen' = [uiChosen EXCEPT ![k] = n] /\ uiCache \in Parts
      /\ uiCached \in BOOLEAN /\ uiShown \in [Settings -> Nat]
  BY <1>1, PrefBounds DEF Settings, Chosen, PrefInv, UiTypeOK
<1>3. next(n) \in Parts
  BY <1>2, Overlay
<1>4. /\ uiCache' = next(n) /\ uiCached' = TRUE /\ uiApplied' = TRUE /\ uiShown' \in [Settings -> Nat]
      /\ uiShown' = uiShown \/ \A j \in Picked : uiChosen[j] = 1
  <2> HIDE DEF next
  <2> QED  BY <1>1, <1>2, <1>3, CacheSet
<1>5. \A j \in Picked : uiChosen'[j] = uiChosen[j]
  BY <1>2, SettingsAssumption DEF PrefInv, UiTypeOK, Settings
<1>6. ChoiceShown' /\ Unapplied'
  BY <1>4, <1>5 DEF PrefInv, ChoiceShown, Unapplied
<1>7. Writes = InFlight({"put", "failed", "ok"})
  BY DEF Writes, InFlight
<1>8. UiTypeOK' /\ FetchesOK' /\ (uiCalm' => CalmInv')
  BY <1>1, <1>2, <1>4, <1>7, ChoiceSent
<1> QED  BY <1>6, <1>8 DEF PrefInv

\* A write is done, or rolled back, and the settings are fetched.
LEMMA WriteSettledOK == ASSUME PrefInv, NEW r \in uiNet, WriteSettled(r) PROVE PrefInv'
<1> DEFINE g == Get(uiFetch')
<1>1. /\ r.kind \in {"ok", "failed"} /\ r \in PrefWrites /\ r \in Writes
      /\ uiFetches' = uiFetches + 1 /\ uiFetch' = uiFetches + 1 /\ uiNet' = (uiNet \ {r}) \cup {g}
      /\ UNCHANGED <<uiRow, uiChoices, uiChosen, uiLost, uiCalm>>
  BY UiKinds DEF WriteSettled, FetchPrefs, InFlight, PrefInv, Writes
<1>2. uiFetches \in Nat
  BY DEF PrefInv, UiTypeOK
<1>3. g \in PrefFetches /\ g.kind = "get" /\ g.n = uiFetches'
  BY <1>1, <1>2 DEF Get, PrefFetches
<1> HIDE DEF g
<1>4. \/ UNCHANGED <<uiCache, uiCached, uiShown, uiApplied>>
      \/ r.kind = "failed" /\ SetCache(r.prev, uiShown) /\ r.prev \in Parts
  BY <1>1 DEF WriteSettled, PrefWrites
<1>5. ChoiceShown' /\ Unapplied' /\ uiShown' \in [Settings -> Nat]
  BY <1>1, <1>4, ShownKept
<1>6. uiCache' \in Parts /\ uiCached' \in BOOLEAN
  BY <1>4 DEF SetCache, PrefInv, UiTypeOK
<1>7. UiTypeOK'
  BY <1>1, <1>2, <1>3, <1>5, <1>6 DEF PrefInv, UiTypeOK
<1>8. FetchesOK'
  BY <1>1, <1>2, <1>3 DEF PrefInv, FetchesOK, InFlight
<1>9. uiCalm' => CalmInv'
  <2>1. ASSUME uiCalm PROVE Writes' = {}
    BY <1>1, <1>3, <2>1 DEF PrefInv, CalmInv, Writes, InFlight
  <2>2. InFlight({"put"})' = InFlight({"put"}) /\ \A q \in Writes' : q \in Writes
    BY <1>1, <1>3 DEF InFlight, Writes
  <2>3. \A q \in InFlight({"got"})' : q.n # uiFetch'
    BY <1>1, <1>2, <1>3 DEF PrefInv, FetchesOK, InFlight
  <2>4. CalmInv => AsChosen(uiCache', uiLost)
    BY <1>1, <1>4 DEF CalmInv, WriteOK, AsChosen, SetCache
  <2> QED  BY <1>1, <2>1, <2>2, <2>3, <2>4, CalmKept
<1> QED  BY <1>5, <1>7, <1>8, <1>9 DEF PrefInv

-----------------------------------------------------------------------------
(* The server *)

LEMMA ReplyType ==
  ASSUME NEW r \in PrefWrites, NEW ok \in BOOLEAN
  PROVE  \A a \in Reply(r, ok) : /\ a \in PrefWrites /\ a.kind \in {"ok", "failed"} /\ (a.kind = "failed" => ~ ok)
                                 /\ a.n = r.n /\ a.body = r.body /\ a.prev = r.prev /\ Reply(r, ok) = {a}
<1>1. Reply(r, ok) = {} \/ Reply(r, ok) = {Answered(r, ok)}
  BY DEF Reply
<1>2. CASE ok
  BY <1>1, <1>2 DEF Answered, PrefWrites
<1>3. CASE ~ ok
  BY <1>1, <1>3 DEF Answered, PrefWrites
<1> QED  BY <1>2, <1>3

\* A write is stored or not, answered well or not, and counted as lost unless it was
\* stored.
LEMMA WriteServed ==
  ASSUME PrefInv, NEW r \in uiNet, r.kind = "put", NEW stored \in BOOLEAN, NEW ok \in BOOLEAN,
         uiRow' = IF stored THEN Stored(r.body, uiRow) ELSE uiRow,
         uiNet' = (uiNet \ {r}) \cup Reply(r, ok),
         uiLost' = uiLost \/ uiLost' = uiLost \cup Subject(r),
         (stored /\ ok) \/ uiLost' = uiLost \cup Subject(r),
         UNCHANGED <<uiCache, uiCached, uiShown, uiApplied, uiFetch, uiFetches, uiChoices,
                     uiChosen, uiCalm>>
  PROVE  PrefInv'
<1>1. r \in PrefWrites /\ r \in Writes /\ r.body \in Parts
  BY UiKinds DEF PrefInv, Writes, InFlight, PrefWrites
<1>2. \A a \in Reply(r, ok) : /\ a \in PrefWrites /\ a.kind \in {"ok", "failed"} /\ (a.kind = "failed" => ~ ok)
                              /\ a.n = r.n /\ a.body = r.body /\ a.prev = r.prev /\ Reply(r, ok) = {a}
  BY <1>1, ReplyType
<1>3. uiRow' \in [Settings -> Nat]
      /\ \A k \in Settings : uiRow'[k] = IF stored /\ k \in DOMAIN r.body THEN r.body[k] ELSE uiRow[k]
  BY <1>1, OverlayAll DEF Stored, PrefInv, UiTypeOK
<1>4. ChoiceShown' /\ Unapplied' /\ uiShown' \in [Settings -> Nat]
  BY ShownKept
<1>5. UiTypeOK'
  BY <1>2, <1>3 DEF PrefInv, UiTypeOK
<1>6. FetchesOK'
  BY <1>2 DEF PrefInv, FetchesOK, InFlight
<1>7. ASSUME uiCalm PROVE CalmInv'
  <2>1. CalmInv /\ uiFetch = 0 /\ WriteOK(r) /\ uiLost \subseteq uiLost'
    BY <1>1, <1>7 DEF PrefInv, CalmInv
  <2>2. \A q \in Writes : q = r
    BY <1>1, <2>1 DEF CalmInv
  <2>3. Writes' = Reply(r, ok) /\ InFlight({"put"})' = {}
    BY <1>2, <2>2 DEF Writes, InFlight
  <2>4. AsChosen(uiCache, uiLost)'
    BY <2>1 DEF CalmInv, AsChosen
  <2>5. \A q \in InFlight({"got"})' : q.n # uiFetch'
    BY <1>6, <2>1 DEF FetchesOK, InFlight
  <2>6. \A a \in Writes' : uiFetch' = 0 /\ WriteOK(a)'
    <3> SUFFICES ASSUME NEW a \in Writes' PROVE WriteOK(a)'
      BY <2>1
    <3>1. a.body = r.body /\ a.n = r.n /\ a.prev = r.prev /\ (a.kind = "failed" => ~ ok)
      BY <1>2, <2>3
    <3>2. Subject(a) = Subject(r)
      BY <3>1 DEF Subject
    <3>3. a.kind = "failed" => Subject(a) \subseteq uiLost'
      BY <3>1, <3>2
    <3>4. AsChosen(a.body, uiLost)' /\ AsChosen(a.prev, uiLost \cup Subject(a))'
      BY <2>1, <3>1, <3>2 DEF WriteOK, AsChosen, Subject
    <3> QED  BY <3>3, <3>4 DEF WriteOK, Subject
  <2>7. \A p, q \in Writes' : p = q
    BY <1>2, <2>3
  <2>8. \A k \in Settings \ uiLost' : KeptOrSent(k)'
    <3> SUFFICES ASSUME NEW k \in Settings \ uiLost' PROVE uiRow'[k] = uiChosen[k]
      BY DEF KeptOrSent
    <3>1. KeptOrSent(k)
      BY <2>1 DEF CalmInv
    <3>2. k \in DOMAIN r.body => r.body[k] = uiChosen[k]
      BY <2>1 DEF WriteOK, AsChosen
    <3>3. CASE uiRow[k] = uiChosen[k]
      BY <1>3, <3>2, <3>3
    <3>4. CASE uiRow[k] # uiChosen[k]
      <4>1. k \in Subject(r)
        BY <2>2, <3>1, <3>4 DEF KeptOrSent, Writes, InFlight
      <4>2. stored /\ k \in DOMAIN r.body
        BY <4>1 DEF Subject
      <4> QED  BY <1>3, <3>2, <4>2
    <3> QED  BY <3>3, <3>4
  <2> QED  BY <2>4, <2>5, <2>6, <2>7, <2>8 DEF CalmInv
<1> QED  BY <1>4, <1>5, <1>6, <1>7 DEF PrefInv

LEMMA PutsOK == ASSUME PrefInv, NEW r \in uiNet, PutArrives(r) \/ PutFails(r) PROVE PrefInv'
<1>1. CASE PutArrives(r)
  BY <1>1, WriteServed DEF PutArrives, InFlight
<1>2. CASE PutFails(r)
  <2>1. PICK stored, ok \in BOOLEAN :
          /\ uiRow' = IF stored THEN Stored(r.body, uiRow) ELSE uiRow
          /\ uiNet' = (uiNet \ {r}) \cup Reply(r, ok)
    BY <1>2 DEF PutFails
  <2> QED  BY <1>2, <2>1, WriteServed DEF PutFails, InFlight
<1> QED  BY <1>1, <1>2

LEMMA RefetchOK == ASSUME PrefInv, Refetch PROVE PrefInv'
<1> DEFINE g == Get(uiFetch')
<1>1. /\ uiFetches' = uiFetches + 1 /\ uiFetch' = uiFetches + 1 /\ uiNet' = uiNet \cup {g}
      /\ uiCalm' = (uiCalm /\ InFlight({"put", "failed", "ok"}) = {})
      /\ UNCHANGED <<uiRow, uiCache, uiCached, uiShown, uiApplied, uiChoices, uiChosen, uiLost>>
  BY DEF Refetch, FetchPrefs
<1>2. uiFetches \in Nat
  BY DEF PrefInv, UiTypeOK
<1>3. g \in PrefFetches /\ g.kind = "get" /\ g.n = uiFetches'
  BY <1>1, <1>2 DEF Get, PrefFetches
<1> HIDE DEF g
<1>4. ChoiceShown' /\ Unapplied' /\ uiShown' \in [Settings -> Nat]
  BY <1>1, ShownKept
<1>5. UiTypeOK' /\ FetchesOK'
  BY <1>1, <1>2, <1>3, <1>4 DEF PrefInv, UiTypeOK, FetchesOK, InFlight
<1>6. Writes' = Writes /\ InFlight({"put"})' = InFlight({"put"}) /\ (uiCalm' => Writes = {})
  BY <1>1, <1>3 DEF Writes, InFlight
<1>7. \A q \in InFlight({"got"})' : q.n # uiFetch'
  BY <1>1, <1>2, <1>3 DEF PrefInv, FetchesOK, InFlight
<1>8. CalmInv => AsChosen(uiCache', uiLost)
  BY <1>1 DEF CalmInv
<1>9. uiCalm' => CalmInv'
  BY <1>1, <1>6, <1>7, <1>8, CalmKept
<1> QED  BY <1>4, <1>5, <1>9 DEF PrefInv

\* What is read is what was chosen: while it is awaited no write is under way.
LEMMA GetArrivesOK == ASSUME PrefInv, NEW r \in uiNet, GetArrives(r) PROVE PrefInv'
<1>1. PICK body \in {uiRow, Nothing} : uiNet' = (uiNet \ {r}) \cup {Got(r.n, body)}
  BY DEF GetArrives
<1> DEFINE a == Got(r.n, body)
<1>2. r.kind = "get" /\ r.n \in 1..uiFetches
  BY DEF GetArrives, InFlight, PrefInv, FetchesOK
<1>3. body \in Parts
  <2>1. uiRow \in [Settings -> Nat] /\ Settings \in SUBSET Settings
    BY DEF PrefInv, UiTypeOK
  <2>2. uiRow \in Parts
    BY <2>1 DEF Parts
  <2> QED  BY <2>2, NothingType
<1>4. a \in PrefAnswers /\ a.kind = "got" /\ a.n = r.n /\ a.body = body
  BY <1>2, <1>3 DEF Got, PrefAnswers, PrefInv, UiTypeOK
<1>5. uiNet' = (uiNet \ {r}) \cup {a}
  BY <1>1
<1> HIDE DEF a
<1>6. UNCHANGED <<uiRow, uiCache, uiCached, uiShown, uiApplied, uiFetch, uiFetches, uiChoices,
                  uiChosen, uiLost, uiCalm>>
  BY DEF GetArrives
<1>7. ChoiceShown' /\ Unapplied' /\ uiShown' \in [Settings -> Nat]
  BY <1>6, ShownKept
<1>8. UiTypeOK' /\ FetchesOK'
  BY <1>2, <1>4, <1>5, <1>6 DEF PrefInv, UiTypeOK, FetchesOK, InFlight
<1>9. Writes' = Writes /\ InFlight({"put"})' = InFlight({"put"})
  BY <1>2, <1>4, <1>5 DEF Writes, InFlight
<1>10. CalmInv => /\ AsChosen(uiCache', uiLost)
                  /\ Writes # {} => uiFetch = 0
  BY <1>6 DEF CalmInv
<1>11. ASSUME uiCalm, NEW q \in InFlight({"got"})', q.n = uiFetch' PROVE AsChosen(q.body, uiLost)
  <2>1. CalmInv
    BY <1>11 DEF PrefInv
  <2>2. CASE q = a
    <3>1. Writes = {}
      BY <1>2, <1>4, <1>6, <1>11, <2>1, <2>2 DEF CalmInv
    <3>2. InFlight({"put"}) = {}
      BY <3>1 DEF Writes, InFlight
    <3>3. \A k \in Settings \ uiLost : uiRow[k] = uiChosen[k]
      BY <2>1, <3>2 DEF CalmInv, KeptOrSent
    <3>4. DOMAIN body \subseteq Settings
      BY <1>3, PartType
    <3> QED  BY <1>4, <2>2, <3>3, <3>4, NothingType DEF AsChosen
  <2>3. CASE q # a
    BY <1>5, <1>6, <1>11, <2>1, <2>3 DEF CalmInv, InFlight
  <2> QED  BY <2>2, <2>3
<1>12. uiCalm' => CalmInv'
  <2>1. uiCalm' /\ Writes' # {} => uiFetch' = 0
    BY <1>6, <1>9, <1>10 DEF PrefInv
  <2>2. uiCalm' => \A q \in InFlight({"got"})' : q.n = uiFetch' => AsChosen(q.body, uiLost)
    BY <1>6, <1>11
  <2>3. uiCalm /\ CalmInv => AsChosen(uiCache', uiLost)
    BY <1>10
  <2> QED  BY <1>6, <1>9, <2>1, <2>2, <2>3, CalmKept
<1> QED  BY <1>7, <1>8, <1>12 DEF PrefInv

LEMMA GotArrivesOK == ASSUME PrefInv, NEW r \in uiNet, GotArrives(r) PROVE PrefInv'
<1>1. r.kind = "got" /\ r \in InFlight({"got"}) /\ uiNet' = uiNet \ {r} /\ r \in PrefAnswers
      /\ UNCHANGED <<uiRow, uiFetches, uiChoices, uiChosen, uiLost, uiCalm>>
  BY UiKinds DEF GotArrives, InFlight, PrefInv
<1>2. \/ r.n = uiFetch /\ SetCache(r.body, uiShown) /\ uiFetch' = 0 /\ r.body \in Parts
      \/ UNCHANGED <<uiCache, uiCached, uiShown, uiApplied, uiFetch>>
  BY <1>1 DEF GotArrives, PrefAnswers
<1>3. ChoiceShown' /\ Unapplied' /\ uiShown' \in [Settings -> Nat]
  BY <1>1, <1>2, ShownKept
<1>4. uiCache' \in Parts /\ uiCached' \in BOOLEAN
  BY <1>2 DEF SetCache, PrefInv, UiTypeOK
<1>5. uiFetch' \in {0, uiFetch}
  BY <1>2
<1>6. UiTypeOK' /\ FetchesOK'
  BY <1>1, <1>3, <1>4, <1>5 DEF PrefInv, UiTypeOK, FetchesOK, InFlight
<1>7. Writes' = Writes /\ InFlight({"put"})' = InFlight({"put"})
  BY <1>1 DEF Writes, InFlight
<1>8. CalmInv => AsChosen(uiCache', uiLost) /\ (Writes # {} => uiFetch = 0)
  BY <1>1, <1>2 DEF CalmInv, SetCache
<1>9. \A q \in InFlight({"got"})' : q \in InFlight({"got"}) /\ q.n # 0
  BY <1>1 DEF InFlight, PrefInv, FetchesOK
<1>10. uiCalm' => CalmInv'
  <2>1. uiCalm' /\ Writes' # {} => uiFetch' = 0
    BY <1>1, <1>5, <1>7, <1>8 DEF PrefInv
  <2>2. uiCalm' => \A q \in InFlight({"got"})' : q.n = uiFetch' => AsChosen(q.body, uiLost)
    BY <1>1, <1>5, <1>9 DEF PrefInv, CalmInv
  <2>3. uiCalm /\ CalmInv => AsChosen(uiCache', uiLost)
    BY <1>8
  <2> QED  BY <1>1, <1>7, <2>1, <2>2, <2>3, CalmKept
<1> QED  BY <1>3, <1>6, <1>10 DEF PrefInv

LEMMA GetFailsOK == ASSUME PrefInv, NEW r \in uiNet, GetFails(r) PROVE PrefInv'
<1>1. r.kind = "get" /\ uiNet' = uiNet \ {r} /\ uiFetch' \in {0, uiFetch}
      /\ UNCHANGED <<uiRow, uiCache, uiCached, uiShown, uiApplied, uiFetches, uiChoices, uiChosen, uiLost, uiCalm>>
  BY DEF GetFails, InFlight
<1>3. ChoiceShown' /\ Unapplied' /\ uiShown' \in [Settings -> Nat]
  BY <1>1, ShownKept
<1>6. UiTypeOK' /\ FetchesOK'
  BY <1>1, <1>3 DEF PrefInv, UiTypeOK, FetchesOK, InFlight
<1>7. Writes' = Writes /\ InFlight({"put"})' = InFlight({"put"})
  BY <1>1 DEF Writes, InFlight
<1>9. \A q \in InFlight({"got"})' : q \in InFlight({"got"}) /\ q.n # 0
  BY <1>1 DEF InFlight, PrefInv, FetchesOK
<1>10. uiCalm' => CalmInv'
  <2>1. uiCalm' /\ Writes' # {} => uiFetch' = 0
    BY <1>1, <1>7 DEF PrefInv, CalmInv
  <2>2. uiCalm' => \A q \in InFlight({"got"})' : q.n = uiFetch' => AsChosen(q.body, uiLost)
    BY <1>1, <1>9 DEF PrefInv, CalmInv
  <2>3. uiCalm /\ CalmInv => AsChosen(uiCache', uiLost)
    BY <1>1 DEF CalmInv
  <2> QED  BY <1>1, <1>7, <2>1, <2>2, <2>3, CalmKept
<1> QED  BY <1>3, <1>6, <1>10 DEF PrefInv

-----------------------------------------------------------------------------
LEMMA PrefStepOK == PrefInv /\ [NextPreferences]_uiVars => PrefInv'
<1> SUFFICES ASSUME PrefInv, [NextPreferences]_uiVars PROVE PrefInv'
  OBVIOUS
<1>1. CASE \E k \in Picked : SetPref(k)
  BY <1>1, SetPrefOK
<1>2. CASE \E k \in Written : WriteSetting(k)
  BY <1>2, WriteSettingOK
<1>3. CASE \E r \in uiNet : WriteSettled(r) \/ PutArrives(r) \/ PutFails(r)
  BY <1>3, WriteSettledOK, PutsOK
<1>4. CASE \E r \in uiNet : GetArrives(r) \/ GotArrives(r) \/ GetFails(r)
  BY <1>4, GetArrivesOK, GotArrivesOK, GetFailsOK
<1>5. CASE Refetch
  BY <1>5, RefetchOK
<1>6. CASE UNCHANGED uiVars
  BY <1>6 DEF uiVars, PrefInv, UiTypeOK, FetchesOK, Unapplied, ChoiceShown, CalmInv, AsChosen,
              Writes, WriteOK, Subject, KeptOrSent, InFlight
<1> QED  BY <1>1, <1>2, <1>3, <1>4, <1>5, <1>6 DEF NextPreferences

\* What the user picked stays applied, whatever the server answers and when, and
\* whichever write is rolled back (persistPref, PrefsSync).
THEOREM ChoicesStayShown == SpecPreferences => []ChoiceShown
<1>1. PrefInv => ChoiceShown
  BY DEF PrefInv
<1> QED  BY <1>1, UiInitOK, PrefStepOK, PTL DEF SpecPreferences

\* A write that no earlier request can undo is stored, and leaves alone what other
\* writers chose, for any settings, choices, fetches and faults (persistPref,
\* useUpdateUiSettings, write_ui).
THEOREM CalmWritesAreStored == SpecPreferences => []CalmWritesStored
<1>1. PrefInv => CalmWritesStored
  BY DEF PrefInv, CalmInv, CalmWritesStored, KeptOrSent, InFlight
<1> QED  BY <1>1, UiInitOK, PrefStepOK, PTL DEF SpecPreferences

-----------------------------------------------------------------------------
(* SkillFiles *)

Spots == Skills \cup {NoSkill, Form}
Queries == Spots \X Paths
Editors == [draft : Int, dirty : BOOLEAN]
Cached == [got : {"nothing", "answer"}, text : Int, linked : SUBSET Helpers]
SkillKinds == {"save", "add", "delete", "remove", "create", "import"}
Mutations == [kind : SkillKinds, n : Nat, doc : SkillDocs, text : Int, by : Spots,
              live : BOOLEAN, was : Paths, at : {"sent", "done"}, ok : BOOLEAN]

SkTypeOK ==
  /\ skStore \in [SkillDocs -> Int] /\ skCache \in [SkillDocs -> Cached]
  /\ skSel \in Spots /\ skFile \in Paths /\ skEdit \in Editors
  /\ skList \subseteq Skills /\ skFetch \subseteq Queries /\ skStale \subseteq Queries
  /\ skNet \subseteq Mutations
  /\ skSent \in Nat /\ skTexts \in 1 .. MaxSkillTexts
  /\ skTyped \in [1 .. MaxSkillTexts -> SkillDocs \cup {Form}]

\* A text belongs to the skill it was typed for, in the editor and in a save under way.
DraftsOK ==
  /\ skEdit.dirty /\ skSel # Form =>
       WorkspaceUp /\ skEdit.draft \in 1 .. skTexts /\ skTyped[skEdit.draft][1] = skSel
  /\ \A r \in skNet : r.kind = "save" =>
       r.text \in 1 .. skTexts /\ skTyped[r.text][1] = r.doc[1]

\* The file shown was asked for; what was read is what is stored unless it will be read
\* again; and a clean editor shows what was read last, or other than what will be read.
Asking == WorkspaceUp => ShownFile \notin skStale /\ (skCache[ShownFile] # Unknown \/ ShownFile \in skFetch)
AsRead(d) ==
  \/ skCache[d] = Unknown \/ d \in skStale \cup skFetch \/ skNet # {}
  \/ skCache[d].text = skStore[d]
DraftAsRead ==
  WorkspaceUp /\ ~ skEdit.dirty =>
    \/ skEdit.draft = Draft(skCache[ShownFile].text)
    \/ ShownFile \in skFetch /\ skStore[ShownFile] # skCache[ShownFile].text
\* A save that will clear dirty is one of the text in the editor, for the file shown; once
\* it is made, the text read last is stored no more.
SavesShown ==
  WorkspaceUp /\ skEdit.dirty =>
    \A r \in skNet : r.live /\ r.kind = "save" =>
      /\ r.doc = ShownFile /\ r.text = skEdit.draft
      /\ r.at = "done" /\ r.ok => \/ r.text = Draft(skCache[ShownFile].text)
                                  \/ skStore[ShownFile] # skCache[ShownFile].text

SkillInv ==
  /\ SkTypeOK /\ DraftsOK /\ Asking
  /\ skOdd \/ ((\A d \in SkillDocs : AsRead(d)) /\ DraftAsRead /\ SavesShown)

-----------------------------------------------------------------------------
LEMMA DocParts == \A d \in SkillDocs : d[1] \in Skills /\ d[2] \in Paths /\ d = <<d[1], d[2]>>
  BY DEF SkillDocs

LEMMA SpotsApart == Form \notin Skills /\ NoSkill \notin Skills
  BY SkillsAssumption

LEMMA FreshType ==
  ASSUME SkTypeOK, NEW d \in SkillDocs
  PROVE  Fresh(d) \in Editors /\ ~ Fresh(d).dirty /\ Fresh(d).draft = Draft(skCache[d].text)
<1>1. skCache[d].text \in Int
  BY DEF SkTypeOK, Cached
<1>2. Draft(skCache[d].text) \in Int
  BY <1>1 DEF Draft
<1> QED  BY <1>2 DEF Fresh, Editors

\* A mutation keeps what it is when only its callback is lost.
LEMMA LiveOnly ==
  ASSUME NEW r \in Mutations, NEW b \in BOOLEAN
  PROVE  LET q == [r EXCEPT !.live = b]
         IN /\ q \in Mutations /\ q.kind = r.kind /\ q.doc = r.doc /\ q.text = r.text
            /\ q.at = r.at /\ q.ok = r.ok /\ q.live = b
  BY DEF Mutations

Outlived(news, olds) ==
  \A q \in news : q \in Mutations /\ \E r \in olds : q.kind = r.kind /\ q.doc = r.doc /\ q.text = r.text
\* What lives on lived, and was as far.
LivesOn(news, olds) ==
  \A q \in news : q.live => \E r \in olds : /\ r.live /\ q.kind = r.kind /\ q.doc = r.doc
                                          /\ q.text = r.text /\ q.at = r.at /\ q.ok = r.ok

\* What the panel shows next.
LEMMA SpotOK ==
  ASSUME SkTypeOK, NEW s \in Spots, NEW p \in Paths, NEW list \in SUBSET Skills,
         NEW stale \in SUBSET Queries, NEW net \in SUBSET Mutations, View(s, p, list, stale, net)
  PROVE  /\ skSel' = s /\ skFile' \in Paths /\ skEdit' \in Editors
         /\ skFetch' \subseteq Queries /\ skStale' \subseteq Queries
         /\ Outlived(skNet', net) /\ LivesOn(skNet', net) /\ (skNet' = {} => net = {})
         /\ skEdit'.dirty => skEdit' = skEdit /\ s = skSel /\ (s = Form \/ Kept(s, list))
         /\ s \in list => /\ <<s, skFile'>> \notin skStale'
                          /\ skCache[<<s, skFile'>>] # Unknown \/ <<s, skFile'>> \in skFetch'
         /\ stale \cup skFetch \subseteq skStale' \cup skFetch'
         /\ skFetch \subseteq skFetch'
         /\ s \in list /\ ~ skEdit'.dirty =>
              \/ skEdit' = Fresh(<<s, skFile'>>)
              \/ skEdit' = skEdit /\ Kept(s, list) /\ skCache[<<s, skFile'>>].text = skCache[ShownFile].text
         /\ Kept(s, list) => skFile' = p
<1> DEFINE file == IF Kept(s, list) THEN p ELSE Manifest
           inView == IF s \in list THEN {<<s, Manifest>>, <<s, file>>} ELSE {}
<1>1. /\ skSel' = s /\ skFile' = file
      /\ skFetch' = skFetch \cup {d \in inView : d \in stale \/ skCache[d] = Unknown}
      /\ skStale' = stale \ inView
  BY DEF View
<1>2. file \in Paths /\ inView \subseteq Queries /\ (s \in list => <<s, file>> \in inView /\ <<s, file>> \in SkillDocs)
  BY DEF Paths, SkillDocs, Queries
<1>3. skEdit' = CASE s = Form /\ skSel = Form -> skEdit
                  [] s \notin list -> [draft |-> 0, dirty |-> FALSE]
                  [] Kept(s, list) /\ skCache[<<s, file>>].text = skCache[ShownFile].text -> skEdit
                  [] OTHER -> Fresh(<<s, file>>)
  BY DEF View
<1>4. Outlived(skNet', net) /\ LivesOn(skNet', net)
  <2> SUFFICES ASSUME NEW q \in skNet'
               PROVE  \E r \in net : /\ q \in Mutations /\ q.kind = r.kind /\ q.doc = r.doc
                                     /\ q.text = r.text /\ q.at = r.at /\ q.ok = r.ok
                                     /\ q.live => r.live
    BY DEF Outlived, LivesOn
  <2>1. PICK r \in net : q = [r EXCEPT !.live = r.live /\ s = skSel /\ (s = Form \/ Kept(s, list))]
    BY DEF View
  <2> DEFINE b == r.live /\ s = skSel /\ (s = Form \/ Kept(s, list))
  <2>2. b \in BOOLEAN /\ r \in Mutations /\ q = [r EXCEPT !.live = b]
    BY <2>1
  <2>3. b => r.live
    OBVIOUS
  <2> HIDE DEF b
  <2>4. /\ q \in Mutations /\ q.kind = r.kind /\ q.doc = r.doc /\ q.text = r.text
        /\ q.at = r.at /\ q.ok = r.ok /\ q.live = b
    BY <2>2, LiveOnly
  <2> QED  BY <2>3, <2>4
<1>5. stale \cup skFetch \subseteq skStale' \cup skFetch' /\ (skNet' = {} => net = {})
  BY <1>1 DEF View
<1>6. Form \notin list
  BY SpotsApart
<1> HIDE DEF file, inView
<1>7. CASE s \in list
  <2>1. Fresh(<<s, file>>) \in Editors /\ ~ Fresh(<<s, file>>).dirty
    BY <1>2, <1>7, FreshType
  <2>2. \/ skEdit' = skEdit /\ Kept(s, list) /\ skCache[<<s, file>>].text = skCache[ShownFile].text
        \/ skEdit' = Fresh(<<s, file>>)
    BY <1>3, <1>6, <1>7
  <2>3. Kept(s, list) => s = skSel
    BY DEF Kept
  <2>4. <<s, file>> \notin skStale' /\ (skCache[<<s, file>>] # Unknown \/ <<s, file>> \in skFetch')
    BY <1>1, <1>2, <1>7
  <2>5. Kept(s, list) => file = p
    BY DEF file
  <2> QED  BY <1>1, <1>2, <1>4, <1>5, <1>7, <2>1, <2>2, <2>3, <2>4, <2>5 DEF SkTypeOK
<1>8. CASE s \notin list
  <2>1. ~ Kept(s, list)
    BY <1>8 DEF Kept
  <2>2. (skEdit' = skEdit /\ s = Form /\ skSel = Form) \/ skEdit' = [draft |-> 0, dirty |-> FALSE]
    <3>1. CASE s = Form /\ skSel = Form
      BY <1>3, <3>1
    <3>2. CASE ~ (s = Form /\ skSel = Form)
      BY <1>3, <1>8, <2>1, <3>2
    <3> QED  BY <3>1, <3>2
  <2>3. [draft |-> 0, dirty |-> FALSE] \in Editors /\ ~ [draft |-> 0, dirty |-> FALSE].dirty
    BY DEF Editors
  <2> QED  BY <1>1, <1>2, <1>4, <1>5, <1>8, <2>1, <2>2, <2>3 DEF SkTypeOK
<1> QED  BY <1>7, <1>8

\* A step that only changes what is shown.
LEMMA SpotInv ==
  ASSUME SkillInv, NEW s \in Spots, NEW p \in Paths, NEW list \in SUBSET Skills,
         NEW stale \in SUBSET Queries, NEW net \in SUBSET skNet, View(s, p, list, stale, net),
         skList' = list, UNCHANGED <<skStore, skCache, skTexts, skTyped, skSent>>,
         skStale \subseteq stale, skOdd' \/ (~ skOdd /\ ~ (Kept(s, list) /\ DraftCarried)),
         \/ net # {} \/ skNet = {}
         \/ \A d \in SkillDocs : skCache[d] = Unknown \/ d \in stale \cup skFetch
  PROVE  SkillInv'
<1> SkTypeOK /\ net \in SUBSET Mutations
  BY DEF SkillInv, SkTypeOK
<1> DEFINE shown == <<s, skFile'>>
<1>1. /\ skSel' = s /\ skFile' \in Paths /\ skEdit' \in Editors
      /\ skFetch' \subseteq Queries /\ skStale' \subseteq Queries
      /\ Outlived(skNet', net) /\ LivesOn(skNet', net) /\ (skNet' = {} => net = {})
      /\ stale \cup skFetch \subseteq skStale' \cup skFetch' /\ skFetch \subseteq skFetch'
      /\ Kept(s, list) => skFile' = p
  BY SpotOK
<1>2. skEdit'.dirty => skEdit' = skEdit /\ s = skSel /\ (s = Form \/ Kept(s, list))
  BY SpotOK
<1>3. s \in list => shown \notin skStale' /\ (skCache[shown] # Unknown \/ shown \in skFetch')
  BY SpotOK
<1>4. s \in list /\ ~ skEdit'.dirty =>
        \/ skEdit' = Fresh(shown)
        \/ skEdit' = skEdit /\ Kept(s, list) /\ skCache[shown].text = skCache[ShownFile].text
  BY SpotOK
<1>5. (WorkspaceUp' <=> s \in list) /\ ShownFile' = shown
  BY <1>1 DEF WorkspaceUp, ShownFile
<1> HIDE DEF shown
<1>6. SkTypeOK'
  BY <1>1 DEF SkTypeOK, Outlived
<1>7. DraftsOK'
  <2>1. skEdit'.dirty /\ skSel' # Form =>
          WorkspaceUp' /\ skEdit'.draft \in 1 .. skTexts' /\ skTyped'[skEdit'.draft][1] = skSel'
    BY <1>1, <1>2, <1>5 DEF SkillInv, DraftsOK, Kept
  <2>2. \A r \in skNet' : r.kind = "save" => r.text \in 1 .. skTexts' /\ skTyped'[r.text][1] = r.doc[1]
    BY <1>1 DEF SkillInv, DraftsOK, Outlived
  <2> QED  BY <2>1, <2>2 DEF DraftsOK
<1>8. Asking'
  BY <1>3, <1>5 DEF Asking
<1>9. ASSUME ~ skOdd' PROVE (\A d \in SkillDocs : AsRead(d)') /\ DraftAsRead' /\ SavesShown'
  <2>1. /\ ~ skOdd /\ ~ (Kept(s, list) /\ DraftCarried)
        /\ (\A d \in SkillDocs : AsRead(d)) /\ DraftAsRead /\ SavesShown
    BY <1>9 DEF SkillInv
  <2>2. ASSUME NEW d \in SkillDocs PROVE AsRead(d)'
    BY <1>1, <2>1 DEF AsRead
  <2>3. DraftAsRead'
    <3> SUFFICES ASSUME s \in list, ~ skEdit'.dirty
                 PROVE  \/ skEdit'.draft = Draft(skCache[shown].text)
                        \/ shown \in skFetch' /\ skStore[shown] # skCache[shown].text
      BY <1>5 DEF DraftAsRead
    <3>1. shown \in SkillDocs
      BY <1>1 DEF shown, SkillDocs
    <3>2. CASE skEdit' = Fresh(shown)
      BY <3>1, <3>2, FreshType
    <3>3. CASE skEdit' = skEdit /\ Kept(s, list) /\ skCache[shown].text = skCache[ShownFile].text
      <4>1. WorkspaceUp /\ s = skSel
        BY <3>3 DEF Kept
      <4>2. \/ skEdit.draft = Draft(skCache[ShownFile].text)
            \/ ShownFile \in skFetch /\ skStore[ShownFile] # skCache[ShownFile].text
        BY <2>1, <3>3, <4>1 DEF DraftAsRead
      <4>3. CASE skFile' = skFile
        BY <1>1, <3>3, <4>1, <4>2, <4>3 DEF shown, ShownFile
      <4>4. CASE skFile' # skFile
        BY <1>1, <2>1, <3>1, <3>3, <4>1, <4>4, FreshType DEF DraftCarried, shown
      <4> QED  BY <4>3, <4>4
    <3> QED  BY <1>4, <3>2, <3>3
  <2>4. SavesShown'
    <3> SUFFICES ASSUME WorkspaceUp', skEdit'.dirty, NEW q \in skNet', q.live, q.kind = "save"
                 PROVE  /\ q.doc = ShownFile' /\ q.text = skEdit'.draft
                        /\ q.at = "done" /\ q.ok => \/ q.text = Draft(skCache[ShownFile'].text)
                                                    \/ skStore[ShownFile'] # skCache[ShownFile'].text
      BY DEF SavesShown
    <3>1. skEdit' = skEdit /\ s = skSel /\ Kept(s, list) /\ WorkspaceUp
      BY <1>2, <1>5, SpotsApart DEF Kept
    <3>2. shown \in SkillDocs
      BY <1>1, <1>5 DEF shown, SkillDocs
    <3>3. skFile' = skFile
      BY <1>1, <2>1, <3>1, <3>2, FreshType DEF DraftCarried, shown
    <3>4. ShownFile' = ShownFile
      BY <1>1, <3>1, <3>3 DEF ShownFile
    <3>5. PICK r \in skNet : /\ r.live /\ q.kind = r.kind /\ q.doc = r.doc
                             /\ q.text = r.text /\ q.at = r.at /\ q.ok = r.ok
      BY <1>1 DEF LivesOn
    <3> QED  BY <2>1, <3>1, <3>4, <3>5 DEF SavesShown
  <2> QED  BY <2>2, <2>3, <2>4
<1> QED  BY <1>6, <1>7, <1>8, <1>9 DEF SkillInv

LEMMA SkillsInitOK == InitSkills => SkillInv
<1> SUFFICES ASSUME InitSkills PROVE SkillInv
  OBVIOUS
<1>1. NoSkill \in Spots /\ ~ WorkspaceUp /\ Manifest \in Paths /\ NoText \in Int
  BY DEF InitSkills, Spots, WorkspaceUp, Paths, NoText
<1>2. Unknown \in Cached /\ [draft |-> 0, dirty |-> FALSE] \in Editors
  BY <1>1 DEF Unknown, Cached, Editors
<1>3. skStore \in [SkillDocs -> Int] /\ skCache \in [SkillDocs -> Cached]
  BY <1>1, <1>2 DEF InitSkills
<1>4. skTexts \in 1 .. MaxSkillTexts /\ skTyped \in [1 .. MaxSkillTexts -> SkillDocs \cup {Form}]
  BY SkillBounds DEF InitSkills
<1>5. SkTypeOK
  BY <1>1, <1>2, <1>3, <1>4 DEF SkTypeOK, InitSkills
<1>6. DraftsOK /\ Asking
  BY <1>1, <1>2 DEF DraftsOK, Asking, InitSkills
<1>7. DraftAsRead /\ SavesShown /\ \A d \in SkillDocs : AsRead(d)
  BY <1>1 DEF DraftAsRead, SavesShown, AsRead, InitSkills
<1> QED  BY <1>5, <1>6, <1>7 DEF SkillInv

-----------------------------------------------------------------------------
(* What the user does *)

LEMMA PickOK == ASSUME SkillInv, NEW s \in Skills \cup {Form, NoSkill}, Pick(s) PROVE SkillInv'
<1>1. s \in Spots /\ s # skSel /\ Manifest \in Paths /\ skList \in SUBSET Skills
      /\ skStale \in SUBSET Queries
  BY DEF Pick, Spots, Paths, SkillInv, SkTypeOK
<1>2. View(s, Manifest, skList, skStale, skNet)
  BY DEF Pick
<1>3. UNCHANGED <<skStore, skList, skCache, skTexts, skTyped, skSent, skOdd>>
  BY DEF Pick, skData
<1>4. skSel' = s
  BY <1>2 DEF View
<1>5. skOdd' \/ (~ skOdd /\ ~ DraftCarried)
  BY <1>1, <1>3, <1>4 DEF DraftCarried
<1>6. skNet # {} \/ skNet = {}
  OBVIOUS
<1> QED  BY <1>1, <1>2, <1>3, <1>5, <1>6, SpotInv

LEMMA TreePaths ==
  ASSUME SkillInv, "tree" \in MainPane
  PROVE  TreeItems \subseteq Paths /\ skSel \in Skills
<1>1. WorkspaceUp
  BY DEF MainPane, NewSkillControls
<1>2. skSel \in Skills /\ <<skSel, Manifest>> \in SkillDocs
  BY <1>1 DEF WorkspaceUp, SkillInv, SkTypeOK, SkillDocs, Paths
<1>3. skCache[<<skSel, Manifest>>].linked \subseteq Helpers
  BY <1>2 DEF SkillInv, SkTypeOK, Cached
<1> QED  BY <1>2, <1>3 DEF TreeItems, Paths

LEMMA SelectFileOK == ASSUME SkillInv, NEW p \in Paths, SelectFile(p) PROVE SkillInv'
<1>1. skSel \in Spots /\ skList \in SUBSET Skills /\ skStale \in SUBSET Queries
  BY DEF SkillInv, SkTypeOK
<1>2. View(skSel, p, skList, skStale, skNet)
  BY DEF SelectFile
<1>3. UNCHANGED <<skStore, skList, skCache, skTexts, skTyped, skSent>>
  BY DEF SelectFile, skData
<1>4. skOdd' \/ (~ skOdd /\ ~ DraftCarried)
  BY DEF SelectFile
<1>5. skNet # {} \/ skNet = {}
  OBVIOUS
<1> QED  BY <1>1, <1>2, <1>3, <1>4, <1>5, SpotInv

LEMMA TypeIntoOK == ASSUME SkillInv, TypeInto PROVE SkillInv'
<1>1. "type" \in MainPane /\ skTexts < MaxSkillTexts /\ skTexts' = skTexts + 1
      /\ skTyped' = [skTyped EXCEPT ![skTexts'] = IF WorkspaceUp THEN ShownFile ELSE Form]
      /\ skEdit' = [draft |-> skTexts', dirty |-> TRUE]
      /\ UNCHANGED <<skStore, skSel, skFile, skList, skCache, skFetch, skStale, skNet, skSent>>
      /\ skOdd' = (skOdd \/ skNet # {})
  BY DEF TypeInto
<1>2. skTexts \in 1 .. MaxSkillTexts /\ MaxSkillTexts \in Nat
      /\ skTyped \in [1 .. MaxSkillTexts -> SkillDocs \cup {Form}]
  BY SkillBounds DEF SkillInv, SkTypeOK
<1>3. skTexts' \in 1 .. MaxSkillTexts /\ skTexts' \in Int
  BY <1>1, <1>2
<1>4. WorkspaceUp => ShownFile \in SkillDocs /\ ShownFile[1] = skSel
  BY DEF WorkspaceUp, ShownFile, SkillDocs, SkillInv, SkTypeOK
<1>5. skTyped' \in [1 .. MaxSkillTexts -> SkillDocs \cup {Form}]
  BY <1>1, <1>2, <1>4
<1>6. /\ skTyped'[skTexts'] = IF WorkspaceUp THEN ShownFile ELSE Form
      /\ \A n \in 1 .. skTexts : skTyped'[n] = skTyped[n]
  BY <1>1, <1>2, <1>3
<1>7. skEdit' \in Editors /\ skEdit'.draft = skTexts' /\ skEdit'.dirty
  BY <1>1, <1>3 DEF Editors
<1>8. SkTypeOK'
  BY <1>1, <1>3, <1>5, <1>7 DEF SkillInv, SkTypeOK
<1>9. WorkspaceUp' = WorkspaceUp /\ ShownFile' = ShownFile /\ (skSel = Form \/ WorkspaceUp)
  BY <1>1 DEF WorkspaceUp, ShownFile, MainPane
<1>10. DraftsOK'
  <2>1. skSel' # Form => WorkspaceUp' /\ skEdit'.draft \in 1 .. skTexts' /\ skTyped'[skEdit'.draft][1] = skSel'
    BY <1>1, <1>2, <1>4, <1>6, <1>7, <1>9
  <2>2. \A r \in skNet' : r.kind = "save" => r.text \in 1 .. skTexts' /\ skTyped'[r.text][1] = r.doc[1]
    BY <1>1, <1>2, <1>6 DEF SkillInv, DraftsOK
  <2> QED  BY <2>1, <2>2 DEF DraftsOK
<1>11. Asking'
  BY <1>1, <1>9 DEF SkillInv, Asking
<1>12. skOdd' \/ ((\A d \in SkillDocs : AsRead(d)') /\ DraftAsRead' /\ SavesShown')
  BY <1>1, <1>7 DEF SkillInv, AsRead, DraftAsRead, SavesShown
<1> QED  BY <1>8, <1>10, <1>11, <1>12 DEF SkillInv

-----------------------------------------------------------------------------
(* Mutations *)

\* A mutation is sent, with its text typed for its skill if it is a save.
LEMMA SentInv ==
  ASSUME SkillInv, NEW kind \in SkillKinds, NEW d \in SkillDocs, NEW text \in Int,
         SkillCall(kind, d, text), skOdd' = skOdd,
         skTexts' \in 1 .. MaxSkillTexts, skTexts' >= skTexts,
         skTyped' \in [1 .. MaxSkillTexts -> SkillDocs \cup {Form}],
         \A n \in 1 .. skTexts : skTyped'[n] = skTyped[n],
         kind = "save" => /\ text \in 1 .. skTexts /\ skTyped[text][1] = d[1]
                          /\ d = ShownFile /\ text = skEdit.draft
  PROVE  SkillInv'
<1> DEFINE m == [kind |-> kind, n |-> skSent', doc |-> d, text |-> text, by |-> skSel,
                 live |-> TRUE, was |-> skFile, at |-> "sent", ok |-> TRUE]
           old == {[r EXCEPT !.live = @ /\ ~ (r.by = skSel /\ r.kind \in Hook(kind))] : r \in skNet}
<1>1. /\ skSent' \in Nat /\ skNet' = old \cup {m}
      /\ UNCHANGED <<skStore, skSel, skFile, skEdit, skList, skCache, skFetch, skStale>>
  BY DEF SkillCall, SkillInv, SkTypeOK
<1>2. m \in Mutations
  BY <1>1 DEF Mutations, SkillInv, SkTypeOK
<1>3. Outlived(old, skNet) /\ LivesOn(old, skNet)
  <2> SUFFICES ASSUME NEW q \in old
               PROVE  \E r \in skNet : /\ q \in Mutations /\ q.kind = r.kind /\ q.doc = r.doc
                                       /\ q.text = r.text /\ q.at = r.at /\ q.ok = r.ok
                                       /\ q.live => r.live
    BY DEF Outlived, LivesOn
  <2>1. PICK r \in skNet : q = [r EXCEPT !.live = r.live /\ ~ (r.by = skSel /\ r.kind \in Hook(kind))]
    OBVIOUS
  <2> DEFINE b == r.live /\ ~ (r.by = skSel /\ r.kind \in Hook(kind))
  <2>2. b \in BOOLEAN /\ r \in Mutations /\ q = [r EXCEPT !.live = b]
    BY <2>1 DEF SkillInv, SkTypeOK
  <2>3. b => r.live
    OBVIOUS
  <2> HIDE DEF b
  <2>4. /\ q \in Mutations /\ q.kind = r.kind /\ q.doc = r.doc /\ q.text = r.text
        /\ q.at = r.at /\ q.ok = r.ok /\ q.live = b
    BY <2>2, LiveOnly
  <2> QED  BY <2>3, <2>4
<1>4. m.kind = kind /\ m.doc = d /\ m.text = text /\ m.at = "sent"
  OBVIOUS
<1> HIDE DEF m, old
<1>5. SkTypeOK'
  BY <1>1, <1>2, <1>3 DEF SkillInv, SkTypeOK, Outlived
<1>6. WorkspaceUp' = WorkspaceUp /\ ShownFile' = ShownFile
  BY <1>1 DEF WorkspaceUp, ShownFile
<1>7. skTexts \in Int /\ skTexts' \in Int
  BY DEF SkillInv, SkTypeOK
<1>8. DraftsOK'
  <2>1. skEdit'.dirty /\ skSel' # Form =>
          WorkspaceUp' /\ skEdit'.draft \in 1 .. skTexts' /\ skTyped'[skEdit'.draft][1] = skSel'
    BY <1>1, <1>6, <1>7 DEF SkillInv, DraftsOK
  <2>2. \A r \in skNet' : r.kind = "save" => r.text \in 1 .. skTexts' /\ skTyped'[r.text][1] = r.doc[1]
    <3> SUFFICES ASSUME NEW r \in skNet', r.kind = "save"
                 PROVE  r.text \in 1 .. skTexts' /\ skTyped'[r.text][1] = r.doc[1]
      OBVIOUS
    <3>1. CASE r = m
      BY <1>4, <1>7, <3>1
    <3>2. CASE r \in old
      <4>1. PICK q \in skNet : r.kind = q.kind /\ r.doc = q.doc /\ r.text = q.text
        BY <1>3, <3>2 DEF Outlived
      <4> QED  BY <1>7, <4>1 DEF SkillInv, DraftsOK
    <3> QED  BY <1>1, <3>1, <3>2
  <2> QED  BY <2>1, <2>2 DEF DraftsOK
<1>9. Asking'
  BY <1>1, <1>6 DEF SkillInv, Asking
<1>10. skNet' # {}
  BY <1>1
<1>11. skOdd' \/ ((\A d2 \in SkillDocs : AsRead(d2)') /\ DraftAsRead')
  BY <1>1, <1>6, <1>10 DEF SkillInv, AsRead, DraftAsRead
<1>12. skOdd' \/ SavesShown'
  <2> SUFFICES ASSUME SavesShown, WorkspaceUp, skEdit.dirty, NEW q \in skNet', q.live, q.kind = "save"
               PROVE  /\ q.doc = ShownFile /\ q.text = skEdit.draft
                      /\ q.at = "done" /\ q.ok => \/ q.text = Draft(skCache[ShownFile].text)
                                                  \/ skStore[ShownFile] # skCache[ShownFile].text
    BY <1>1, <1>6 DEF SkillInv, SavesShown
  <2>1. CASE q = m
    BY <1>4, <2>1
  <2>2. CASE q \in old
    <3>1. PICK r \in skNet : /\ r.live /\ q.kind = r.kind /\ q.doc = r.doc
                             /\ q.text = r.text /\ q.at = r.at /\ q.ok = r.ok
      BY <1>3, <2>2 DEF LivesOn
    <3> QED  BY <3>1 DEF SavesShown
  <2> QED  BY <1>1, <2>1, <2>2
<1> QED  BY <1>5, <1>8, <1>9, <1>11, <1>12 DEF SkillInv

LEMMA TypedOnly ==
  ASSUME SkillInv, Untyped
  PROVE  /\ skTexts' \in 1 .. MaxSkillTexts /\ skTexts' >= skTexts /\ skOdd' = skOdd
         /\ skTyped' \in [1 .. MaxSkillTexts -> SkillDocs \cup {Form}]
         /\ \A n \in 1 .. skTexts : skTyped'[n] = skTyped[n]
<1>1. skTexts \in 1 .. MaxSkillTexts
  BY DEF SkillInv, SkTypeOK
<1> QED  BY <1>1 DEF SkillInv, SkTypeOK, Untyped

\* What is offered in a workspace, in the form.
LEMMA PaneUp ==
  ASSUME SkillInv, \E c \in {"save", "add", "tree", "remove", "import"} : c \in MainPane
  PROVE  /\ WorkspaceUp /\ skSel \in Skills /\ skSel # Form /\ ShownFile \in SkillDocs /\ ShownFile[1] = skSel
         /\ <<skSel, Manifest>> \in SkillDocs /\ \A p \in Paths : <<skSel, p>> \in SkillDocs
<1>1. WorkspaceUp
  BY DEF MainPane, NewSkillControls
<1>2. skSel \in Skills /\ skFile \in Paths /\ Manifest \in Paths
  BY <1>1 DEF WorkspaceUp, SkillInv, SkTypeOK, Paths
<1> QED  BY <1>1, <1>2, SpotsApart DEF ShownFile, SkillDocs

LEMMA SaveFileOK == ASSUME SkillInv, SaveFile PROVE SkillInv'
<1>1. /\ WorkspaceUp /\ skSel \in Skills /\ skSel # Form /\ ShownFile \in SkillDocs /\ ShownFile[1] = skSel
  BY PaneUp DEF SaveFile
<1>2. skEdit.dirty
  BY <1>1 DEF SaveFile, MainPane, HeaderControls, TextControls
<1>3. skEdit.draft \in Int /\ skEdit.draft \in 1 .. skTexts
      /\ skTyped[skEdit.draft][1] = ShownFile[1]
  BY <1>1, <1>2 DEF SkillInv, DraftsOK, SkTypeOK, Editors
<1>4. SkillCall("save", ShownFile, skEdit.draft) /\ Untyped
  BY DEF SaveFile
<1> QED  BY <1>1, <1>3, <1>4, TypedOnly, SentInv DEF SkillKinds

LEMMA SkillCallsOK ==
  ASSUME SkillInv, NEW p \in Paths, AddFile(p) \/ DeleteHelper(p) \/ RemoveSkill
  PROVE  SkillInv'
<1>1. <<skSel, Manifest>> \in SkillDocs /\ <<skSel, p>> \in SkillDocs
  BY PaneUp DEF AddFile, DeleteHelper, RemoveSkill
<1>2. Untyped
  BY DEF AddFile, DeleteHelper, RemoveSkill
<1>3. NoText \in Int /\ {"add", "delete", "remove"} \subseteq SkillKinds
  BY DEF NoText, SkillKinds
<1>4. CASE AddFile(p)
  BY <1>1, <1>2, <1>3, <1>4, TypedOnly, SentInv DEF AddFile
<1>5. CASE DeleteHelper(p)
  BY <1>1, <1>2, <1>3, <1>5, TypedOnly, SentInv DEF DeleteHelper
<1>6. CASE RemoveSkill
  BY <1>1, <1>2, <1>3, <1>6, TypedOnly, SentInv DEF RemoveSkill
<1> QED  BY <1>4, <1>5, <1>6

LEMMA CreateSkillOK == ASSUME SkillInv, NEW s \in Skills, CreateSkill(s) PROVE SkillInv'
<1>1. <<s, Manifest>> \in SkillDocs /\ skEdit.draft \in Int /\ "create" \in SkillKinds
  BY DEF SkillDocs, Paths, SkillInv, SkTypeOK, Editors, SkillKinds
<1> QED  BY <1>1, TypedOnly, SentInv DEF CreateSkill

LEMMA ReimportOK == ASSUME SkillInv, Reimport PROVE SkillInv'
<1>1. <<skSel, Manifest>> \in SkillDocs
  BY PaneUp DEF Reimport
<1>2. /\ skTexts < MaxSkillTexts /\ skTexts' = skTexts + 1
      /\ skTyped' = [skTyped EXCEPT ![skTexts'] = <<skSel, Manifest>>]
      /\ SkillCall("import", <<skSel, Manifest>>, skTexts') /\ skOdd' = skOdd
  BY DEF Reimport
<1>3. skTexts \in 1 .. MaxSkillTexts /\ MaxSkillTexts \in Nat
      /\ skTyped \in [1 .. MaxSkillTexts -> SkillDocs \cup {Form}]
  BY SkillBounds DEF SkillInv, SkTypeOK
<1>4. skTexts' \in 1 .. MaxSkillTexts /\ skTexts' \in Int /\ skTexts' >= skTexts
  BY <1>2, <1>3
<1>5. skTyped' \in [1 .. MaxSkillTexts -> SkillDocs \cup {Form}]
      /\ \A n \in 1 .. skTexts : skTyped'[n] = skTyped[n]
  BY <1>1, <1>2, <1>3, <1>4
<1> QED  BY <1>1, <1>2, <1>4, <1>5, SentInv DEF SkillKinds

-----------------------------------------------------------------------------
(* The server *)

LEMMA AnsweredNet ==
  ASSUME SkillInv, NEW r \in skNet, NEW ok \in BOOLEAN, Answers(r, ok)
  PROVE  Outlived(skNet', skNet) /\ skNet' # {}
<1> DEFINE a == [r EXCEPT !.at = "done", !.ok = ok]
<1>1. skNet' = (skNet \ {r}) \cup {a}
  BY DEF Answers
<1>2. a \in Mutations /\ a.kind = r.kind /\ a.doc = r.doc /\ a.text = r.text
  BY DEF SkillInv, SkTypeOK, Mutations
<1> HIDE DEF a
<1> QED  BY <1>1, <1>2 DEF Outlived, SkillInv, SkTypeOK

\* The rows may change, and what is under way is answered.
LEMMA AnsweredInv ==
  ASSUME SkillInv, skStore' \in [SkillDocs -> Int], Outlived(skNet', skNet), skNet' # {},
         skOdd' \/ ~ skOdd,
         WorkspaceUp /\ skStore[ShownFile] # skCache[ShownFile].text
           => skOdd' \/ skStore'[ShownFile] # skCache[ShownFile].text,
         skOdd' \/ SavesShown',
         UNCHANGED <<skSel, skFile, skEdit, skList, skCache, skFetch, skListFetch, skStale, skTexts,
                     skSent, skTyped>>
  PROVE  SkillInv'
<1>1. SkTypeOK'
  BY DEF SkillInv, SkTypeOK, Outlived
<1>2. WorkspaceUp' = WorkspaceUp /\ ShownFile' = ShownFile
  BY DEF WorkspaceUp, ShownFile
<1>3. DraftsOK'
  <2>1. \A r \in skNet' : r.kind = "save" => r.text \in 1 .. skTexts' /\ skTyped'[r.text][1] = r.doc[1]
    BY DEF SkillInv, DraftsOK, Outlived
  <2> QED  BY <1>2, <2>1 DEF SkillInv, DraftsOK
<1>4. Asking' /\ \A d \in SkillDocs : AsRead(d)'
  BY <1>2 DEF SkillInv, Asking, AsRead
<1>5. skOdd' \/ DraftAsRead'
  BY <1>2 DEF SkillInv, DraftAsRead
<1> QED  BY <1>1, <1>3, <1>4, <1>5 DEF SkillInv

\* A save that is made stores its text; what was stored else stays other than what was
\* read, or the history is one excepted.
LEMMA ServedSaves ==
  ASSUME SkillInv, NEW r \in skNet, NEW ok \in BOOLEAN, Answers(r, ok), ~ skOdd', skOdd' \/ ~ skOdd,
         ok => skStore'[r.doc] = r.text,
         WorkspaceUp /\ skStore[ShownFile] # skCache[ShownFile].text
           => skStore'[ShownFile] # skCache[ShownFile].text,
         UNCHANGED <<skSel, skFile, skEdit, skList, skCache, skFetch, skListFetch, skStale, skTexts,
                     skSent, skTyped>>
  PROVE  SavesShown'
<1>1. WorkspaceUp' = WorkspaceUp /\ ShownFile' = ShownFile /\ SavesShown
  BY DEF WorkspaceUp, ShownFile, SkillInv
<1> SUFFICES ASSUME WorkspaceUp, skEdit.dirty, NEW q \in skNet', q.live, q.kind = "save"
             PROVE  /\ q.doc = ShownFile /\ q.text = skEdit.draft
                    /\ q.at = "done" /\ q.ok => \/ q.text = Draft(skCache[ShownFile].text)
                                                \/ skStore'[ShownFile] # skCache[ShownFile].text
  BY <1>1 DEF SavesShown
<1> DEFINE a == [r EXCEPT !.at = "done", !.ok = ok]
<1>2. skNet' = (skNet \ {r}) \cup {a}
  BY DEF Answers
<1>3. /\ a.kind = r.kind /\ a.doc = r.doc /\ a.text = r.text /\ a.live = r.live /\ a.ok = ok
      /\ r.kind = "save" => r.text \in 1 .. skTexts
  BY DEF SkillInv, SkTypeOK, Mutations, DraftsOK
<1> HIDE DEF a
<1>4. CASE q = a
  <2>1. r.doc = ShownFile /\ r.text = skEdit.draft /\ r.text \in 1 .. skTexts
    BY <1>1, <1>3, <1>4 DEF SavesShown
  <2>2. ASSUME ok PROVE r.text = Draft(skCache[ShownFile].text) \/ skStore'[ShownFile] # skCache[ShownFile].text
    <3>1. r.text # NoText
      BY <2>1 DEF NoText, SkillInv, SkTypeOK
    <3> QED  BY <2>1, <2>2, <3>1 DEF Draft
  <2> QED  BY <1>3, <1>4, <2>1, <2>2
<1>5. CASE q \in skNet
  BY <1>1, <1>5 DEF SavesShown
<1> QED  BY <1>2, <1>4, <1>5

LEMMA ServedSkillOK == ASSUME SkillInv, NEW r \in skNet, Serve(r) \/ Refuse(r) PROVE SkillInv'
<1>1. PICK ok \in BOOLEAN : Answers(r, ok) /\ (ok => Serve(r))
  BY DEF Serve, Refuse
<1>2. Rows(r) \in [SkillDocs -> Int] /\ Rows(r)[r.doc] = r.text
  <2>1. /\ r.text \in Int /\ r.doc \in SkillDocs /\ NoText \in Int
        /\ \A d \in SkillDocs : skStore[d] \in Int
    BY DEF SkillInv, SkTypeOK, Mutations, NoText
  <2>2. \A d \in SkillDocs : Draft(skStore[d]) \in Int
    BY <2>1 DEF Draft
  <2> QED  BY <2>1, <2>2 DEF Rows
<1>3. skStore' \in [SkillDocs -> Int] /\ (ok => skStore'[r.doc] = r.text)
  BY <1>1, <1>2 DEF Serve, Refuse, SkillInv, SkTypeOK
<1>4. UNCHANGED <<skSel, skFile, skEdit, skList, skCache, skFetch, skListFetch, skStale, skTexts,
                  skSent, skTyped>>
  BY DEF Serve, Refuse
<1>5. /\ skOdd' \/ ~ skOdd
      /\ WorkspaceUp /\ skStore[ShownFile] # skCache[ShownFile].text
           => skOdd' \/ skStore'[ShownFile] # skCache[ShownFile].text
  <2>1. CASE Serve(r)
    <3>1. skOdd' = (skOdd \/ Undone)
      BY <2>1 DEF Serve
    <3> QED  BY <3>1 DEF Undone
  <2>2. CASE Refuse(r)
    BY <2>2 DEF Refuse
  <2> QED  BY <2>1, <2>2
<1>6. skOdd' \/ SavesShown'
  BY <1>1, <1>3, <1>4, <1>5, ServedSaves
<1> QED  BY <1>1, <1>3, <1>4, <1>5, <1>6, AnsweredNet, AnsweredInv

-----------------------------------------------------------------------------
(* Answers *)

\* A file is read: the editor is set to it, unless its text is the one read before.
LEMMA FileArrivesOK == ASSUME SkillInv, NEW d \in SkillDocs, FileArrives(d) PROVE SkillInv'
<1>1. /\ skFetch' = skFetch \ {d} /\ skCache' = [skCache EXCEPT ![d] = FileAnswer(d)]
      /\ UNCHANGED <<skStore, skList, skTexts, skTyped, skSel, skFile, skStale, skNet, skSent>>
  BY DEF FileArrives, skData
<1>2. skStore[d] \in Int /\ Draft(skStore[d]) \in Int
  BY DEF SkillInv, SkTypeOK, Draft
<1>3. FileAnswer(d) \in Cached /\ FileAnswer(d) # Unknown /\ FileAnswer(d).text = skStore[d]
  BY <1>2 DEF FileAnswer, Cached, Unknown
<1>4. /\ skCache' \in [SkillDocs -> Cached] /\ skCache'[d] = FileAnswer(d)
      /\ \A e \in SkillDocs \ {d} : skCache'[e] = skCache[e]
  BY <1>1, <1>3 DEF SkillInv, SkTypeOK
<1> DEFINE new == [draft |-> Draft(skStore[d]), dirty |-> FALSE]
<1>5. new \in Editors /\ ~ new.dirty /\ new.draft = Draft(skStore[d])
  BY <1>2 DEF Editors
<1>6. \/ skEdit' = new
      \/ skEdit' = skEdit /\ (WorkspaceUp /\ d = ShownFile => skCache[d].text = skStore[d])
  BY DEF FileArrives
<1>8. d # ShownFile => skEdit' = skEdit
  BY DEF FileArrives
<1>9. skOdd => skOdd'
  BY DEF FileArrives
<1> HIDE DEF new
<1>10. SkTypeOK'
  BY <1>1, <1>4, <1>5, <1>6 DEF SkillInv, SkTypeOK
<1>11. WorkspaceUp' = WorkspaceUp /\ ShownFile' = ShownFile
  BY <1>1 DEF WorkspaceUp, ShownFile
<1>12. WorkspaceUp => ShownFile \in SkillDocs
  BY DEF WorkspaceUp, ShownFile, SkillDocs, SkillInv, SkTypeOK
<1>13. DraftsOK'
  BY <1>1, <1>5, <1>6, <1>11 DEF SkillInv, DraftsOK
<1>14. Asking'
  BY <1>1, <1>3, <1>4, <1>11, <1>12 DEF SkillInv, Asking
<1>15. ASSUME ~ skOdd' PROVE (\A e \in SkillDocs : AsRead(e)') /\ DraftAsRead' /\ SavesShown'
  <2>1. ~ skOdd /\ (\A e \in SkillDocs : AsRead(e)) /\ DraftAsRead /\ SavesShown
    BY <1>9, <1>15 DEF SkillInv
  <2>2. \A e \in SkillDocs : AsRead(e)'
    BY <1>1, <1>3, <1>4, <2>1 DEF AsRead
  <2>3. CASE WorkspaceUp /\ d = ShownFile
    <3>1. CASE skEdit' = new
      BY <1>3, <1>4, <1>5, <1>11, <2>2, <2>3, <3>1 DEF DraftAsRead, SavesShown
    <3>2. CASE skEdit' = skEdit /\ skCache[d].text = skStore[d]
      <4>1. DraftAsRead'
        BY <1>3, <1>4, <1>11, <2>1, <2>3, <3>2 DEF DraftAsRead
      <4>2. SavesShown'
        BY <1>1, <1>3, <1>4, <1>11, <2>1, <2>3, <3>2 DEF SavesShown
      <4> QED  BY <2>2, <4>1, <4>2
    <3> QED  BY <1>6, <2>3, <3>1, <3>2
  <2>4. CASE d # ShownFile
    <3>1. DraftAsRead'
      BY <1>1, <1>4, <1>8, <1>11, <1>12, <2>1, <2>4 DEF DraftAsRead
    <3>2. SavesShown'
      BY <1>1, <1>4, <1>8, <1>11, <1>12, <2>1, <2>4 DEF SavesShown
    <3> QED  BY <2>2, <3>1, <3>2
  <2>5. CASE ~ WorkspaceUp
    BY <1>11, <2>2, <2>5 DEF DraftAsRead, SavesShown
  <2> QED  BY <2>2, <2>3, <2>4, <2>5
<1> QED  BY <1>10, <1>13, <1>14, <1>15 DEF SkillInv

LEMMA SkillsArriveOK == ASSUME SkillInv, SkillsArrive PROVE SkillInv'
<1> DEFINE list == {s \in Skills : HasSkill(s)}
<1>1. View(skSel, skFile, list, skStale, skNet) /\ skList' = list /\ list \in SUBSET Skills
  BY DEF SkillsArrive
<1>2. skSel \in Spots /\ skFile \in Paths /\ skStale \in SUBSET Queries
  BY DEF SkillInv, SkTypeOK
<1>3. UNCHANGED <<skStore, skCache, skTexts, skSent, skTyped, skOdd>>
  BY DEF SkillsArrive
<1> HIDE DEF list
<1>4. Kept(skSel, list) => skFile' = skFile
  BY <1>1 DEF View
<1>5. skOdd' \/ (~ skOdd /\ ~ (Kept(skSel, list) /\ DraftCarried))
  BY <1>3, <1>4 DEF DraftCarried
<1>6. skNet # {} \/ skNet = {}
  OBVIOUS
<1> QED  BY <1>1, <1>2, <1>3, <1>5, <1>6, SpotInv

LEMMA TargetType ==
  ASSUME SkillInv, NEW r \in skNet
  PROVE  Target(r)[1] \in Spots /\ Target(r)[2] \in Paths
<1>1. r.doc[1] \in Spots /\ r.doc[2] \in Paths /\ Manifest \in Paths /\ NoSkill \in Spots
  BY DocParts DEF SkillInv, SkTypeOK, Mutations, Spots, Paths
<1>2. skSel \in Spots /\ skFile \in Paths
  BY DEF SkillInv, SkTypeOK
<1> QED  BY <1>1, <1>2 DEF Target, ShownFile

\* An answer: all that was read goes stale, and what is shown is asked for again.
LEMMA ArriveOK == ASSUME SkillInv, NEW r \in skNet, Arrive(r) PROVE SkillInv'
<1> DEFINE cached == {d \in SkillDocs : skCache[d] # Unknown \/ d \in skFetch}
           to == IF r.live THEN Target(r) ELSE ShownFile
<1>1. UNCHANGED <<skStore, skList, skCache, skTexts, skSent, skTyped>>
      /\ skOdd' = (skOdd \/ DraftCarried)
  BY DEF Arrive
<1>2. cached \in SUBSET Queries /\ skStale \in SUBSET Queries /\ skFetch \in SUBSET Queries
  BY DocParts DEF SkillInv, SkTypeOK, Queries, SkillDocs, Spots
<1>3. skSel \in Spots /\ skFile \in Paths /\ Manifest \in Paths
  BY DEF SkillInv, SkTypeOK, Paths
<1>4. CASE Clean(r)
  <2>1. /\ skEdit' = [skEdit EXCEPT !.dirty = FALSE]
        /\ skFetch' = skFetch \cup {ShownFile, <<skSel, Manifest>>}
        /\ skStale' = (skStale \cup cached) \ {ShownFile, <<skSel, Manifest>>}
        /\ skNet' = skNet \ {r} /\ UNCHANGED <<skSel, skFile>>
    BY <1>4 DEF Arrive
  <2>2. skEdit' \in Editors /\ ~ skEdit'.dirty
    BY <2>1 DEF SkillInv, SkTypeOK, Editors
  <2>3. {ShownFile, <<skSel, Manifest>>} \subseteq Queries
    BY <1>3 DEF ShownFile, Queries
  <2>4. SkTypeOK'
    BY <1>1, <1>2, <2>1, <2>2, <2>3 DEF SkillInv, SkTypeOK
  <2>5. /\ ShownFile' = ShownFile /\ WorkspaceUp' = WorkspaceUp /\ skEdit'.draft = skEdit.draft
        /\ DraftsOK' /\ Asking' /\ SavesShown'
    BY <1>1, <2>1, <2>2 DEF ShownFile, WorkspaceUp, SkillInv, SkTypeOK, Editors, DraftsOK, Asking, SavesShown
  <2>8. skOdd' \/ DraftAsRead'
    <3> SUFFICES ASSUME ~ skOdd, WorkspaceUp PROVE DraftAsRead'
      BY <1>1, <2>5 DEF DraftAsRead
    <3>1. DraftAsRead /\ SavesShown /\ ShownFile \in skFetch'
      BY <2>1 DEF SkillInv
    <3>2. r.live /\ r.kind = "save" /\ r.at = "done" /\ r.ok
      BY <1>4 DEF Clean, Arrive
    <3>3. \/ skEdit.draft = Draft(skCache[ShownFile].text)
          \/ skStore[ShownFile] # skCache[ShownFile].text
      BY <3>1, <3>2 DEF DraftAsRead, SavesShown
    <3> QED  BY <1>1, <2>5, <3>1, <3>3 DEF DraftAsRead
  <2>6. \A d \in SkillDocs : skCache[d] = Unknown \/ d \in skStale' \cup skFetch'
    BY <2>1
  <2>7. \A d \in SkillDocs : AsRead(d)'
    BY <1>1, <2>6 DEF AsRead
  <2> QED  BY <2>4, <2>5, <2>7, <2>8 DEF SkillInv
<1>5. CASE ~ Clean(r)
  <2>1. View(to[1], to[2], skList, skStale \cup cached, skNet \ {r})
    BY <1>5 DEF Arrive
  <2>2. to[1] \in Spots /\ to[2] \in Paths
    BY <1>3, TargetType DEF ShownFile
  <2>3. skList \in SUBSET Skills /\ skStale \cup cached \in SUBSET Queries
        /\ skNet \ {r} \in SUBSET skNet
    BY <1>2 DEF SkillInv, SkTypeOK
  <2>4. \A d \in SkillDocs : skCache[d] = Unknown \/ d \in (skStale \cup cached) \cup skFetch
    OBVIOUS
  <2> HIDE DEF cached, to
  <2>5. skOdd' \/ (~ skOdd /\ ~ (Kept(to[1], skList) /\ DraftCarried))
    BY <1>1
  <2> QED  BY <1>1, <2>1, <2>2, <2>3, <2>4, <2>5, SpotInv
<1> QED  BY <1>4, <1>5

LEMMA LoseOK == ASSUME SkillInv, NEW r \in skNet, Lose(r) PROVE SkillInv'
<1>1. /\ skNet' = skNet \ {r} /\ skOdd'
      /\ UNCHANGED <<skStore, skList, skTexts, skTyped, skSel, skFile, skEdit, skCache, skFetch, skStale, skSent>>
  BY DEF Lose, skData
<1>2. SkTypeOK'
  BY <1>1 DEF SkillInv, SkTypeOK
<1>3. WorkspaceUp' = WorkspaceUp /\ ShownFile' = ShownFile
  BY <1>1 DEF WorkspaceUp, ShownFile
<1> QED  BY <1>1, <1>2, <1>3 DEF SkillInv, DraftsOK, Asking

-----------------------------------------------------------------------------
LEMMA SkillsStepOK == SkillInv /\ [NextSkills]_skVars => SkillInv'
<1> SUFFICES ASSUME SkillInv, [NextSkills]_skVars PROVE SkillInv'
  OBVIOUS
<1>1. CASE \E s \in Skills \cup {Form, NoSkill} : Pick(s)
  BY <1>1, PickOK
<1>2. CASE \E p \in Paths : SelectFile(p) \/ AddFile(p) \/ DeleteHelper(p)
  BY <1>2, SelectFileOK, SkillCallsOK
<1>3. CASE \E s \in Skills : CreateSkill(s)
  BY <1>3, CreateSkillOK
<1>4. CASE TypeInto \/ SaveFile \/ Reimport \/ SkillsArrive
  BY <1>4, TypeIntoOK, SaveFileOK, ReimportOK, SkillsArriveOK
<1>5. CASE RemoveSkill
  <2>1. Manifest \in Paths
    BY DEF Paths
  <2> QED  BY <1>5, <2>1, SkillCallsOK
<1>6. CASE \E r \in skNet : Serve(r) \/ Refuse(r) \/ Arrive(r) \/ Lose(r)
  BY <1>6, ServedSkillOK, ArriveOK, LoseOK
<1>7. CASE \E d \in SkillDocs : FileArrives(d)
  BY <1>7, FileArrivesOK
<1>8. CASE UNCHANGED skVars
  <2>1. WorkspaceUp' = WorkspaceUp /\ ShownFile' = ShownFile
    BY <1>8 DEF skVars, WorkspaceUp, ShownFile
  <2> QED  BY <1>8, <2>1 DEF skVars, SkillInv, SkTypeOK, DraftsOK, Asking, AsRead, DraftAsRead,
                            SavesShown
<1> QED  BY <1>1, <1>2, <1>3, <1>4, <1>5, <1>6, <1>7, <1>8 DEF NextSkills

\* A text typed in one skill is never saved under another, for any skills, files, texts
\* and number of mutations, whichever skill was picked and whatever was refused or lost
\* meanwhile (SkillWorkspace's key).
THEOREM SkillTextsStay == SpecSkills => []SkillKeepsItsText
<1>1. SkillInv => SkillKeepsItsText
  BY DEF SkillInv, DraftsOK, SkillKeepsItsText
<1> QED  BY <1>1, SkillsInitOK, SkillsStepOK, PTL DEF SpecSkills

\* A clean editor shows what is stored once all is answered, for any skills, files,
\* texts and number of mutations, but in the histories CleanMeansSaved excepts
\* (SkillWorkspace, useSkillMutations).
THEOREM CleanIsSaved == SpecSkills => []CleanMeansSaved
<1>1. SkillInv => CleanMeansSaved
  <2> SUFFICES ASSUME SkillInv, WorkspaceUp, ~ skEdit.dirty, ~ skOdd, skNet = {}, skFetch = {}
               PROVE  skEdit.draft = Draft(skStore[ShownFile])
    BY DEF CleanMeansSaved
  <2>1. ShownFile \in SkillDocs
    BY DEF WorkspaceUp, ShownFile, SkillDocs, SkillInv, SkTypeOK
  <2> QED  BY <2>1 DEF SkillInv, Asking, AsRead, DraftAsRead
<1> QED  BY <1>1, SkillsInitOK, SkillsStepOK, PTL DEF SpecSkills

-----------------------------------------------------------------------------
(* Transcript *)

PartKinds == {"text", "reasoning", "media"}
Turns == [live : BOOLEAN, parts : Seq(Calls \cup PartKinds), batch : SUBSET Calls,
          asked : SUBSET Calls, done : SUBSET Calls]
FoldStates == [open : BOOLEAN, was : BOOLEAN]

CallsOnce(parts) ==
  \A i, j \in DOMAIN parts : parts[i] \in Calls /\ parts[i] = parts[j] => i = j

\* The calls of the batch are the last of the answer.
PartsOK(t) ==
  /\ t \in Turns /\ CallsOnce(t.parts)
  /\ \A c \in t.batch \cup t.asked \cup t.done : \E i \in DOMAIN t.parts : t.parts[i] = c
  /\ \A i, j \in DOMAIN t.parts :
       i < j /\ t.parts[i] \in t.batch /\ t.parts[j] \in Calls => t.parts[j] \in t.batch

\* What waits was asked for in the batch, of which nothing is done until all is answered.
AskedOK(t, w) ==
  /\ w \in [cards : SUBSET Calls, left : BOOLEAN]
  /\ w.cards \subseteq t.batch \cap t.asked \cap Gated
  /\ t.batch \cap t.done # {} => w.cards = {} /\ t.batch \cap Gated \subseteq t.asked

\* Groups and cards are those of the answer, and know whether something waits in them.
Unfolded(t, groups) == UNION {Members(t.parts, g) : g \in {h \in DOMAIN groups : groups[h].open}}
GroupsOK ==
  /\ trGroups \in [FirstCalls(trTurn.parts) -> FoldStates]
  /\ \A g \in DOMAIN trGroups : trGroups[g].was = ForceOpen(trTurn, trWaiting, g)
CardsOK ==
  /\ trCards \in [Unfolded(trTurn, trGroups) -> FoldStates]
  /\ \A c \in DOMAIN trCards : trCards[c].was = (c \in trWaiting.cards)

AnswerInv ==
  /\ PartsOK(trTurn) /\ AskedOK(trTurn, trWaiting) /\ GroupsOK /\ CardsOK
  /\ ~ trTurn.live => trTurn.parts = <<>>
  /\ trStream \in BOOLEAN

-----------------------------------------------------------------------------
\* The least and the greatest of numbers.
LEMMA LeastIn == ASSUME NEW T, T \subseteq Nat, T # {} PROVE \E x \in T : \A y \in T : x <= y
<1> DEFINE F == {0 .. x : x \in T}
           R == StrictSubsetOrdering(Nat)
<1>1. F \subseteq FiniteSubsetsOf(Nat)
  <2> SUFFICES ASSUME NEW x \in T PROVE 0 .. x \in FiniteSubsetsOf(Nat)
    OBVIOUS
  <2>1. IsFiniteSet(0 .. x)
    BY FS_Interval
  <2> QED  BY <2>1 DEF FiniteSubsetsOf
<1>2. F # {} /\ IsWellFoundedOn(R, FiniteSubsetsOf(Nat))
  BY FS_StrictSubsetOrderingWellFounded
<1>3. PICK X \in F : \A Y \in F : ~ (<<Y, X>> \in R)
  <2> HIDE DEF F, R
  <2> QED  BY <1>1, <1>2, WFMin
<1>4. PICK x \in T : X = 0 .. x
  OBVIOUS
<1>5. ASSUME NEW y \in T PROVE x <= y
  <2> SUFFICES ASSUME y < x PROVE FALSE
    OBVIOUS
  <2>1. 0 .. y \subseteq 0 .. x /\ 0 .. y # 0 .. x /\ 0 .. x \subseteq Nat /\ 0 .. y \subseteq Nat
    <3>1. x \in 0 .. x /\ x \notin 0 .. y
      OBVIOUS
    <3> QED  BY <3>1
  <2>2. <<0 .. y, 0 .. x>> \in R
    BY <2>1 DEF StrictSubsetOrdering
  <2>3. 0 .. y \in F
    OBVIOUS
  <2> QED  BY <1>3, <1>4, <2>2, <2>3
<1> QED  BY <1>5

LEMMA GreatestIn ==
  ASSUME NEW n \in Nat, NEW T, T \subseteq 1 .. n, T # {}
  PROVE  \E x \in T : \A y \in T : y <= x
<1> DEFINE D == {n - x : x \in T}
<1>1. D \subseteq Nat /\ D # {}
  <2>1. \A x \in T : n - x \in Nat
    OBVIOUS
  <2> QED  BY <2>1
<1>2. PICK d \in D : \A e \in D : d <= e
  <2> HIDE DEF D
  <2> QED  BY <1>1, LeastIn
<1>3. PICK x \in T : d = n - x
  OBVIOUS
<1>4. ASSUME NEW y \in T PROVE y <= x
  <2>1. n - y \in D
    OBVIOUS
  <2>2. n - x <= n - y
    BY <1>2, <1>3, <2>1
  <2>3. x \in Nat /\ y \in Nat
    OBVIOUS
  <2> QED  BY <2>2, <2>3
<1> QED  BY <1>4

-----------------------------------------------------------------------------
(* The groups of an answer *)

LEMMA PlaceIs ==
  ASSUME NEW parts, CallsOnce(parts), NEW i \in DOMAIN parts, parts[i] \in Calls
  PROVE  PlaceOf(parts, parts[i]) = i
  BY DEF PlaceOf, CallsOnce

LEMMA FirstIs ==
  ASSUME NEW parts, CallsOnce(parts), NEW g \in FirstCalls(parts)
  PROVE  \E i \in DOMAIN parts : /\ g = parts[i] /\ PlaceOf(parts, g) = i /\ Foldable(g)
                                 /\ i = 1 \/ ~ Foldable(parts[i - 1])
  BY PlaceIs DEF FirstCalls, Foldable

\* A call of the transcript is in a group, and in one only.
LEMMA GroupOfCall ==
  ASSUME NEW parts \in Seq(Calls \cup PartKinds), CallsOnce(parts),
         NEW i \in DOMAIN parts, Foldable(parts[i])
  PROVE  \E g \in FirstCalls(parts) : i \in GroupOf(parts, g)
<1> DEFINE T == {k \in 1 .. i : \A m \in k .. i : Foldable(parts[m])}
<1>1. i \in 1 .. Len(parts) /\ DOMAIN parts = 1 .. Len(parts)
  OBVIOUS
<1>2. i \in T /\ T \subseteq Nat
  BY <1>1
<1>3. PICK k \in T : \A m \in T : k <= m
  <2> HIDE DEF T
  <2> QED  BY <1>2, LeastIn
<1>4. k \in DOMAIN parts /\ Foldable(parts[k])
  BY <1>1
<1>5. k = 1 \/ ~ Foldable(parts[k - 1])
  <2> SUFFICES ASSUME k # 1, Foldable(parts[k - 1]) PROVE FALSE
    OBVIOUS
  <2>1. k - 1 \in T
    BY <1>1
  <2> QED  BY <1>1, <1>3, <2>1
<1>6. parts[k] \in FirstCalls(parts)
  BY <1>4, <1>5 DEF FirstCalls
<1>7. PlaceOf(parts, parts[k]) = k
  BY <1>4, PlaceIs DEF Foldable
<1>8. i \in GroupOf(parts, parts[k])
  BY <1>1, <1>7 DEF GroupOf
<1> QED  BY <1>6, <1>8

LEMMA OneGroup ==
  ASSUME NEW parts \in Seq(Calls \cup PartKinds), CallsOnce(parts),
         NEW g \in FirstCalls(parts), NEW h \in FirstCalls(parts), NEW c \in Calls,
         c \in Members(parts, g), c \in Members(parts, h)
  PROVE  g = h
<1>1. PICK a \in DOMAIN parts : /\ g = parts[a] /\ PlaceOf(parts, g) = a
                                /\ a = 1 \/ ~ Foldable(parts[a - 1])
  BY FirstIs
<1>2. PICK b \in DOMAIN parts : /\ h = parts[b] /\ PlaceOf(parts, h) = b
                                /\ b = 1 \/ ~ Foldable(parts[b - 1])
  BY FirstIs
<1>3. PICK i \in GroupOf(parts, g) : parts[i] = c
  BY DEF Members
<1>4. PICK j \in GroupOf(parts, h) : parts[j] = c
  BY DEF Members
<1>5. i \in DOMAIN parts /\ i = j
  BY <1>3, <1>4 DEF CallsOnce, GroupOf
<1>6. a <= i /\ b <= i /\ (\A k \in a .. i : Foldable(parts[k])) /\ (\A k \in b .. i : Foldable(parts[k]))
  BY <1>1, <1>2, <1>3, <1>4, <1>5 DEF GroupOf
<1>7. ~ (a < b) /\ ~ (b < a)
  BY <1>1, <1>2, <1>5, <1>6
<1> QED  BY <1>1, <1>2, <1>7

\* A group with a call of the batch runs while nothing of the batch is done.
LEMMA BatchRuns ==
  ASSUME NEW t, PartsOK(t), t.batch \cap t.done = {}, NEW g \in FirstCalls(t.parts),
         NEW c \in t.batch, c \in Members(t.parts, g)
  PROVE  Running(t, g)
<1> DEFINE places == GroupOf(t.parts, g)
           last == CHOOSE i \in places : \A j \in places : j <= i
<1>1. PICK i \in places : t.parts[i] = c
  BY DEF Members
<1>2. places \subseteq 1 .. Len(t.parts) /\ Len(t.parts) \in Nat /\ t.parts \in Seq(Calls \cup PartKinds)
  BY DEF GroupOf, PartsOK, Turns
<1>3. \E k \in places : \A j \in places : j <= k
  <2> HIDE DEF places
  <2> QED  BY <1>1, <1>2, GreatestIn
<1>4. last \in places /\ i <= last
  BY <1>1, <1>3
<1>5. Foldable(t.parts[last])
  <2>1. PlaceOf(t.parts, g) \in Nat /\ PlaceOf(t.parts, g) >= 1
    BY <1>2, FirstIs DEF PartsOK
  <2>2. /\ last \in 1 .. Len(t.parts) /\ last \notin 1 .. PlaceOf(t.parts, g) - 1
        /\ \A k \in PlaceOf(t.parts, g) .. last : Foldable(t.parts[k])
    <3> HIDE DEF last
    <3> QED  BY <1>2, <1>4 DEF GroupOf
  <2> HIDE DEF last, places
  <2> QED  BY <1>2, <2>1, <2>2
<1>6. t.parts[last] \in t.batch
  <2> HIDE DEF last
  <2>1. CASE i = last
    BY <1>1, <2>1
  <2>2. CASE i # last
    <3>1. i \in DOMAIN t.parts /\ last \in DOMAIN t.parts /\ i < last
      BY <1>1, <1>2, <1>4, <2>2
    <3> QED  BY <1>1, <1>5, <3>1 DEF PartsOK, Foldable
  <2> QED  BY <2>1, <2>2
<1> QED  BY <1>6 DEF Running

-----------------------------------------------------------------------------
(* What is shown anew *)

LEMMA Rerendered ==
  ASSUME NEW pane \in FoldStates, NEW now \in BOOLEAN
  PROVE  Rerender(pane, now) \in FoldStates /\ Rerender(pane, now).was = now
  BY DEF Rerender, FoldStates

LEMMA StaysFolded ==
  ASSUME NEW pane \in FoldStates, ~ Rerender(pane, TRUE).open
  PROVE  pane.was = TRUE /\ ~ pane.open
<1>1. pane.was \in {TRUE, FALSE}
  BY DEF FoldStates
<1>2. CASE pane.was = FALSE
  <2>1. Rerender(pane, TRUE) = [open |-> TRUE \/ pane.open, was |-> TRUE]
    BY <1>2 DEF Rerender
  <2>2. (TRUE \/ pane.open) = TRUE
    OBVIOUS
  <2>3. Rerender(pane, TRUE) = [open |-> TRUE, was |-> TRUE]
    BY <2>1, <2>2, Zenon
  <2>4. [open |-> TRUE, was |-> TRUE].open = TRUE
    OBVIOUS
  <2> QED  BY <2>3, <2>4, Zenon
<1>3. CASE pane.was = TRUE
  BY <1>3 DEF Rerender
<1> QED  BY <1>1, <1>2, <1>3

LEMMA FreshCards ==
  ASSUME CardsOK, NEW w, NEW cards, cards \subseteq DOMAIN trCards, NEW c,
         NEW pane, pane = IF c \in cards THEN Rerender(trCards[c], c \in w.cards)
                          ELSE [open |-> c \in w.cards, was |-> c \in w.cards]
  PROVE  pane \in FoldStates /\ pane.was = (c \in w.cards)
<1>0. (c \in w.cards) \in BOOLEAN
  OBVIOUS
<1>1. CASE c \in cards
  <2>1. trCards[c] \in FoldStates
    BY <1>1 DEF CardsOK
  <2> QED  BY <1>0, <1>1, <2>1, Rerendered
<1>2. CASE c \notin cards
  <2>1. pane = [open |-> c \in w.cards, was |-> c \in w.cards]
    BY <1>2
  <2>2. \A b \in BOOLEAN : [open |-> b, was |-> b] \in FoldStates /\ [open |-> b, was |-> b].was = b
    BY DEF FoldStates
  <2> QED  BY <1>0, <2>1, <2>2, Zenon
<1> QED  BY <1>1, <1>2

LEMMA RenderOK ==
  ASSUME AnswerInv, NEW t, NEW w, NEW groups, groups \subseteq DOMAIN trGroups,
         NEW cards, cards \subseteq DOMAIN trCards, Render(t, w, groups, cards)
  PROVE  GroupsOK' /\ CardsOK'
<1>1. trTurn' = t /\ trWaiting' = w
  BY DEF Render
<1>2. trGroups' = [g \in FirstCalls(t.parts) |->
        IF g \in groups THEN Rerender(trGroups[g], ForceOpen(t, w, g))
        ELSE [open |-> trStream \/ ForceOpen(t, w, g), was |-> ForceOpen(t, w, g)]]
  BY DEF Render, GroupsShown
<1>3. \A g : ForceOpen(t, w, g) \in BOOLEAN
  BY DEF ForceOpen, HasPending, Running
<1>4. \A g \in FirstCalls(t.parts) :
        trGroups'[g] \in FoldStates /\ trGroups'[g].was = ForceOpen(t, w, g)
  <2> SUFFICES ASSUME NEW g \in FirstCalls(t.parts)
               PROVE  trGroups'[g] \in FoldStates /\ trGroups'[g].was = ForceOpen(t, w, g)
    OBVIOUS
  <2>1. CASE g \in groups
    <3>1. trGroups[g] \in FoldStates
      BY <2>1 DEF AnswerInv, GroupsOK
    <3> QED  BY <1>2, <1>3, <2>1, <3>1, Rerendered
  <2>2. CASE g \notin groups
    <3>1. trGroups'[g] = [open |-> trStream \/ ForceOpen(t, w, g), was |-> ForceOpen(t, w, g)]
      BY <1>2, <2>2
    <3>2. (trStream \/ ForceOpen(t, w, g)) \in BOOLEAN
      BY <1>3
    <3> QED  BY <1>3, <3>1, <3>2 DEF FoldStates
  <2> QED  BY <2>1, <2>2
<1>5. GroupsOK'
  <2>1. trGroups' \in [FirstCalls(t.parts) -> FoldStates]
    BY <1>2, <1>4
  <2> QED  BY <1>1, <1>4, <2>1 DEF GroupsOK
<1>6. trCards' = [c \in Unfolded(t, trGroups') |->
        IF c \in cards THEN Rerender(trCards[c], c \in w.cards)
        ELSE [open |-> c \in w.cards, was |-> c \in w.cards]]
  BY DEF Render, CardsShown, Unfolded
<1>7. \A c \in Unfolded(t, trGroups') :
        trCards'[c] \in FoldStates /\ trCards'[c].was = (c \in w.cards)
  <2> SUFFICES ASSUME NEW c \in Unfolded(t, trGroups')
               PROVE  trCards'[c] \in FoldStates /\ trCards'[c].was = (c \in w.cards)
    OBVIOUS
  <2>1. trCards'[c] = IF c \in cards THEN Rerender(trCards[c], c \in w.cards)
                      ELSE [open |-> c \in w.cards, was |-> c \in w.cards]
    BY <1>6
  <2> QED  BY <2>1, FreshCards DEF AnswerInv
<1>8. CardsOK'
  <2>1. trCards' \in [Unfolded(t, trGroups') -> FoldStates]
    BY <1>6, <1>7
  <2> QED  BY <1>1, <1>6, <1>7, <2>1 DEF CardsOK
<1> QED  BY <1>5, <1>8

\* A call that waits in a transcript shown anew is in reach, or was kept away.
LEMMA ReachOK ==
  ASSUME AnswerInv, NEW t, NEW w, PartsOK(t), AskedOK(t, w), t.parts = trTurn.parts,
         Shows(t, w), NEW c \in w.cards
  PROVE  InReach(c)' \/ KeptAway(c)
<1>1. c \in Calls /\ c \in t.batch /\ t.batch \cap t.done = {} /\ Foldable(c)
  BY TranscriptBounds DEF AskedOK, Foldable
<1>2. t.parts \in Seq(Calls \cup PartKinds) /\ CallsOnce(t.parts)
  BY DEF PartsOK, Turns
<1>3. PICK i \in DOMAIN t.parts : t.parts[i] = c
  BY <1>1 DEF PartsOK
<1>4. PICK g \in FirstCalls(t.parts) : i \in GroupOf(t.parts, g)
  BY <1>1, <1>2, <1>3, GroupOfCall
<1>5. c \in Members(t.parts, g)
  BY <1>3, <1>4 DEF Members
<1>6. ForceOpen(t, w, g) = TRUE
  BY <1>1, <1>5, BatchRuns DEF ForceOpen, HasPending
<1>7. g \in DOMAIN trGroups /\ trGroups[g] \in FoldStates
  BY DEF AnswerInv, GroupsOK
<1>8. /\ trGroups' = GroupsShown(t, w, DOMAIN trGroups)
      /\ trCards' = CardsShown(t, w, trGroups', DOMAIN trCards)
  BY DEF Shows, Render
<1>9. DOMAIN trGroups' = FirstCalls(t.parts) /\ trGroups'[g] = Rerender(trGroups[g], TRUE)
  BY <1>6, <1>7, <1>8 DEF GroupsShown
<1>10. CASE trGroups'[g].open
  <2>1. c \in DOMAIN trCards'
    BY <1>5, <1>8, <1>9, <1>10 DEF CardsShown
  <2>2. trCards'[c] = IF c \in DOMAIN trCards THEN Rerender(trCards[c], TRUE)
                      ELSE [open |-> TRUE, was |-> TRUE]
    BY <1>8, <2>1 DEF CardsShown
  <2>3. CASE trCards'[c].open
    BY <2>1, <2>3 DEF InReach
  <2>4. CASE ~ trCards'[c].open
    <3>1. c \in DOMAIN trCards /\ trCards[c].was = (c \in trWaiting.cards)
      <4>1. c \in DOMAIN trCards
        <5> SUFFICES ASSUME c \notin DOMAIN trCards PROVE FALSE
          OBVIOUS
        <5>1. trCards'[c] = [open |-> TRUE, was |-> TRUE]
          BY <2>2
        <5>2. trCards'[c].open = TRUE
          BY <5>1
        <5> QED  BY <2>4, <5>2
      <4> QED  BY <4>1 DEF AnswerInv, CardsOK
    <3>2. trCards[c] \in FoldStates
      BY <3>1 DEF AnswerInv, CardsOK
    <3>3. c \in trWaiting.cards /\ ~ trCards[c].open
      <4>1. ~ Rerender(trCards[c], TRUE).open
        BY <2>2, <2>4, <3>1
      <4>2. trCards[c].was = TRUE /\ ~ trCards[c].open
        BY <3>2, <4>1, StaysFolded
      <4> QED  BY <3>1, <4>2
    <3> QED  BY <3>3 DEF KeptAway, InReach, HasPending
  <2> QED  BY <2>3, <2>4
<1>11. CASE ~ trGroups'[g].open
  <2>1. trGroups[g].was /\ ~ trGroups[g].open
    <3>1. ~ Rerender(trGroups[g], TRUE).open
      BY <1>9, <1>11
    <3> QED  BY <1>7, <3>1, StaysFolded
  <2>2. HasPending(trWaiting)
    BY <1>7, <2>1 DEF AnswerInv, GroupsOK, ForceOpen
  <2>3. c \notin DOMAIN trCards
    <3> SUFFICES ASSUME c \in DOMAIN trCards PROVE FALSE
      OBVIOUS
    <3>1. c \in Unfolded(trTurn, trGroups)
      BY DEF AnswerInv, CardsOK
    <3>2. PICK h \in DOMAIN trGroups : trGroups[h].open /\ c \in Members(t.parts, h)
      BY <3>1 DEF Unfolded
    <3>3. h \in FirstCalls(t.parts)
      BY DEF AnswerInv, GroupsOK
    <3> QED  BY <1>1, <1>2, <1>5, <2>1, <3>2, <3>3, OneGroup
  <2> QED  BY <1>5, <1>7, <2>1, <2>2, <2>3 DEF KeptAway, InReach
<1> QED  BY <1>10, <1>11

-----------------------------------------------------------------------------
(* The parts of an answer *)

\* What is put between the parts and is no call changes nothing in what is known of
\* the calls.
LEMMA PartsPut ==
  ASSUME NEW t, PartsOK(t), NEW q \in Seq(Calls \cup PartKinds),
         NEW e \in [DOMAIN t.parts -> DOMAIN q],
         \A i, j \in DOMAIN t.parts : i < j => e[i] < e[j],
         \A i \in DOMAIN t.parts : q[e[i]] = t.parts[i],
         \A k \in DOMAIN q : q[k] \in Calls => \E i \in DOMAIN t.parts : k = e[i]
  PROVE  PartsOK([t EXCEPT !.parts = q])
<1> DEFINE u == [t EXCEPT !.parts = q]
<1>1. /\ u \in Turns /\ u.parts = q /\ u.batch = t.batch /\ u.asked = t.asked /\ u.done = t.done
      /\ t.batch \in SUBSET Calls /\ t.parts \in Seq(Calls \cup PartKinds)
  BY DEF PartsOK, Turns
<1> HIDE DEF u
<1>2. DOMAIN t.parts \subseteq Nat /\ DOMAIN q \subseteq Nat
  BY <1>1
<1>3. CallsOnce(q)
  <2> SUFFICES ASSUME NEW k \in DOMAIN q, NEW l \in DOMAIN q, q[k] \in Calls, q[k] = q[l] PROVE k = l
    BY DEF CallsOnce
  <2>1. PICK i \in DOMAIN t.parts : k = e[i]
    OBVIOUS
  <2>2. PICK j \in DOMAIN t.parts : l = e[j]
    OBVIOUS
  <2>3. t.parts[i] = t.parts[j] /\ t.parts[i] \in Calls
    BY <2>1, <2>2
  <2> QED  BY <2>1, <2>2, <2>3 DEF PartsOK, CallsOnce
<1>4. \A c \in t.batch \cup t.asked \cup t.done : \E k \in DOMAIN q : q[k] = c
  BY DEF PartsOK
<1>5. ASSUME NEW k \in DOMAIN q, NEW l \in DOMAIN q, k < l, q[k] \in t.batch, q[l] \in Calls
      PROVE  q[l] \in t.batch
  <2>1. PICK i \in DOMAIN t.parts : k = e[i]
    BY <1>1, <1>5
  <2>2. PICK j \in DOMAIN t.parts : l = e[j]
    BY <1>5
  <2>3. i < j
    BY <1>2, <1>5, <2>1, <2>2
  <2> QED  BY <1>5, <2>1, <2>2, <2>3 DEF PartsOK
<1>6. PartsOK(u)
  BY <1>1, <1>3, <1>4, <1>5 DEF PartsOK
<1> QED  BY <1>6 DEF u

LEMMA Joined ==
  ASSUME NEW S, NEW a \in Seq(S), NEW b \in Seq(S)
  PROVE  /\ a \o b \in Seq(S) /\ Len(a \o b) = Len(a) + Len(b)
         /\ \A i \in 1 .. Len(a) : (a \o b)[i] = a[i]
         /\ \A i \in Len(a) + 1 .. Len(a) + Len(b) : (a \o b)[i] = b[i - Len(a)]
  OBVIOUS

\* A part that is no call is put at the end, at the beginning, or after a call.
LEMMA PartAdded ==
  ASSUME NEW t, PartsOK(t), NEW kind \in PartKinds
  PROVE  /\ PartsOK([t EXCEPT !.parts = Append(t.parts, kind)])
         /\ PartsOK([t EXCEPT !.parts = <<kind>> \o t.parts])
         /\ \A c \in t.done \cup t.batch : PartsOK([t EXCEPT !.parts = SubSeq(t.parts, 1, PlaceOf(t.parts, c))
                                                   \o <<kind>>
                                                   \o SubSeq(t.parts, PlaceOf(t.parts, c) + 1, Len(t.parts))])
<1>1. /\ t.parts \in Seq(Calls \cup PartKinds) /\ Len(t.parts) \in Nat
      /\ DOMAIN t.parts = 1 .. Len(t.parts)
  BY DEF PartsOK, Turns
<1>2. kind \notin Calls
  BY PartsAssumption DEF PartKinds
<1>3. PartsOK([t EXCEPT !.parts = Append(t.parts, kind)])
  <2> DEFINE q == Append(t.parts, kind)
             e == [i \in DOMAIN t.parts |-> i]
  <2>1. /\ q \in Seq(Calls \cup PartKinds) /\ DOMAIN q = 1 .. Len(t.parts) + 1
        /\ \A i \in DOMAIN t.parts : q[i] = t.parts[i]
        /\ q[Len(t.parts) + 1] = kind
    BY <1>1
  <2>2. /\ e \in [DOMAIN t.parts -> DOMAIN q]
        /\ \A i, j \in DOMAIN t.parts : i < j => e[i] < e[j]
        /\ \A i \in DOMAIN t.parts : q[e[i]] = t.parts[i]
    BY <1>1, <2>1
  <2>3. \A k \in DOMAIN q : q[k] \in Calls => \E i \in DOMAIN t.parts : k = e[i]
    <3> SUFFICES ASSUME NEW k \in DOMAIN q, q[k] \in Calls PROVE k \in DOMAIN t.parts
      OBVIOUS
    <3> QED  BY <1>1, <1>2, <2>1
  <2> HIDE DEF q, e
  <2>4. PartsOK([t EXCEPT !.parts = q])
    BY <2>1, <2>2, <2>3, PartsPut
  <2> QED  BY <2>4 DEF q
<1>4. PartsOK([t EXCEPT !.parts = <<kind>> \o t.parts])
  <2> DEFINE q == <<kind>> \o t.parts
             e == [i \in DOMAIN t.parts |-> i + 1]
  <2>1. /\ q \in Seq(Calls \cup PartKinds) /\ DOMAIN q = 1 .. Len(t.parts) + 1
        /\ \A i \in DOMAIN t.parts : q[i + 1] = t.parts[i]
        /\ q[1] = kind
    BY <1>1
  <2>2. /\ e \in [DOMAIN t.parts -> DOMAIN q]
        /\ \A i, j \in DOMAIN t.parts : i < j => e[i] < e[j]
        /\ \A i \in DOMAIN t.parts : q[e[i]] = t.parts[i]
    BY <1>1, <2>1
  <2>3. \A k \in DOMAIN q : q[k] \in Calls => \E i \in DOMAIN t.parts : k = e[i]
    <3> SUFFICES ASSUME NEW k \in DOMAIN q, q[k] \in Calls PROVE \E i \in DOMAIN t.parts : k = e[i]
      OBVIOUS
    <3>1. k # 1
      BY <1>2, <2>1
    <3>2. k - 1 \in DOMAIN t.parts
      BY <1>1, <2>1, <3>1
    <3> QED  BY <1>1, <2>1, <3>2
  <2> HIDE DEF q, e
  <2>4. PartsOK([t EXCEPT !.parts = q])
    BY <2>1, <2>2, <2>3, PartsPut
  <2> QED  BY <2>4 DEF q
<1>5. ASSUME NEW c \in t.done \cup t.batch
      PROVE  PartsOK([t EXCEPT !.parts = SubSeq(t.parts, 1, PlaceOf(t.parts, c)) \o <<kind>>
                                           \o SubSeq(t.parts, PlaceOf(t.parts, c) + 1, Len(t.parts))])
  <2> DEFINE p == PlaceOf(t.parts, c)
             n == Len(t.parts)
             before == SubSeq(t.parts, 1, p)
             after == SubSeq(t.parts, p + 1, n)
             q == before \o <<kind>> \o after
             e == [i \in DOMAIN t.parts |-> IF i <= p THEN i ELSE i + 1]
  <2>1. p \in 1 .. n
    <3>1. PICK i \in DOMAIN t.parts : t.parts[i] = c
      BY DEF PartsOK
    <3>2. c \in Calls
      BY DEF PartsOK, Turns
    <3> QED  BY <1>1, <3>1, <3>2, PlaceIs DEF PartsOK
  <2> HIDE DEF p
  <2>2. /\ before \in Seq(Calls \cup PartKinds) /\ Len(before) = p
        /\ \A i \in 1 .. p : before[i] = t.parts[i]
    BY <1>1, <2>1
  <2>3. /\ after \in Seq(Calls \cup PartKinds) /\ Len(after) = n - p
        /\ \A i \in 1 .. n - p : after[i] = t.parts[i + p]
    BY <1>1, <2>1
  <2> HIDE DEF before, after
  <2>4. /\ q \in Seq(Calls \cup PartKinds) /\ DOMAIN q = 1 .. n + 1
        /\ \A i \in 1 .. p : q[i] = before[i]
        /\ q[p + 1] = kind
        /\ \A i \in p + 2 .. n + 1 : q[i] = after[i - p - 1]
    <3> DEFINE mid == before \o <<kind>>
    <3>1. /\ mid \in Seq(Calls \cup PartKinds) /\ Len(mid) = p + 1
          /\ \A i \in 1 .. p : mid[i] = before[i]
          /\ mid[p + 1] = kind
      BY <1>1, <2>1, <2>2
    <3> HIDE DEF mid
    <3>2. /\ mid \o after \in Seq(Calls \cup PartKinds) /\ DOMAIN (mid \o after) = 1 .. n + 1
          /\ \A i \in 1 .. p + 1 : (mid \o after)[i] = mid[i]
          /\ \A i \in p + 2 .. n + 1 : (mid \o after)[i] = after[i - p - 1]
      <4>1. /\ p + 1 \in Nat /\ n - p \in Nat /\ p + 1 + (n - p) = n + 1 /\ Len(mid) = p + 1
            /\ Len(after) = n - p
        <5>1. Len(mid) = p + 1 /\ Len(after) = n - p
          BY <2>3, <3>1
        <5>2. p \in Nat /\ n \in Nat /\ p <= n
          BY <1>1, <2>1
        <5> HIDE DEF n
        <5> QED  BY <5>1, <5>2
      <4>2. /\ mid \o after \in Seq(Calls \cup PartKinds) /\ Len(mid \o after) = Len(mid) + Len(after)
            /\ \A i \in 1 .. Len(mid) : (mid \o after)[i] = mid[i]
            /\ \A i \in Len(mid) + 1 .. Len(mid) + Len(after) :
                  (mid \o after)[i] = after[i - Len(mid)]
        BY <2>3, <3>1, Joined
      <4>3. DOMAIN (mid \o after) = 1 .. n + 1
        <5>1. DOMAIN (mid \o after) = 1 .. Len(mid \o after)
          BY <4>2
        <5> QED  BY <4>1, <4>2, <5>1
      <4>4. ASSUME NEW i \in p + 2 .. n + 1 PROVE (mid \o after)[i] = after[i - p - 1]
        <5>1. i \in Len(mid) + 1 .. Len(mid) + Len(after) /\ i - Len(mid) = i - p - 1
          <6>1. p \in Nat /\ n \in Nat /\ p <= n
            BY <1>1, <2>1
          <6> HIDE DEF n
          <6> QED  BY <4>1, <6>1
        <5> QED  BY <4>2, <5>1
      <4> QED  BY <4>1, <4>2, <4>3, <4>4
    <3>3. q = mid \o after
      BY DEF mid
    <3> HIDE DEF q
    <3>4. 1 .. p \subseteq 1 .. p + 1 /\ p + 1 \in 1 .. p + 1
      BY <1>1, <2>1
    <3> QED  BY <3>1, <3>2, <3>3, <3>4
  <2>5. \A i \in p + 1 .. n : q[i + 1] = t.parts[i]
    <3> SUFFICES ASSUME NEW i \in p + 1 .. n PROVE q[i + 1] = t.parts[i]
      OBVIOUS
    <3>1. i + 1 \in p + 2 .. n + 1 /\ i - p \in 1 .. n - p /\ (i + 1) - p - 1 = i - p /\ (i - p) + p = i
      BY <1>1, <2>1
    <3>2. q[i + 1] = after[i - p]
      BY <2>4, <3>1
    <3> QED  BY <2>3, <3>1, <3>2
  <2> HIDE DEF q
  <2>6. /\ e \in [DOMAIN t.parts -> DOMAIN q]
        /\ \A i, j \in DOMAIN t.parts : i < j => e[i] < e[j]
        /\ \A i \in DOMAIN t.parts : q[e[i]] = t.parts[i]
    BY <1>1, <2>1, <2>2, <2>4, <2>5
  <2>7. \A k \in DOMAIN q : q[k] \in Calls => \E i \in DOMAIN t.parts : k = e[i]
    <3> SUFFICES ASSUME NEW k \in DOMAIN q, q[k] \in Calls PROVE \E i \in DOMAIN t.parts : k = e[i]
      OBVIOUS
    <3>1. k # p + 1
      BY <1>2, <2>4
    <3>2. CASE k <= p
      <4>1. k \in DOMAIN t.parts /\ e[k] = k
        BY <1>1, <2>1, <2>4, <3>2
      <4> QED  BY <4>1
    <3>3. CASE k > p + 1
      <4>1. k - 1 \in DOMAIN t.parts /\ ~ (k - 1 <= p) /\ (k - 1) + 1 = k
        BY <1>1, <2>1, <2>4, <3>3
      <4>2. e[k - 1] = k
        BY <4>1
      <4> QED  BY <4>1, <4>2
    <3>4. k \in Nat /\ p \in Nat
      BY <1>1, <2>1, <2>4
    <3>5. k <= p \/ k > p + 1
      BY <3>1, <3>4
    <3> QED  BY <3>2, <3>3, <3>5
  <2> HIDE DEF e
  <2>8. PartsOK([t EXCEPT !.parts = q])
    BY <2>4, <2>6, <2>7, PartsPut
  <2> QED  BY <2>8 DEF q, before, after, p, n
<1> QED  BY <1>3, <1>4, <1>5

\* A new call of a batch of which nothing was asked for or done is the last part.
LEMMA CallAdded ==
  ASSUME NEW t, PartsOK(t), NEW c \in Calls, \A i \in DOMAIN t.parts : t.parts[i] # c
  PROVE  PartsOK([t EXCEPT !.parts = Append(t.parts, c), !.batch = t.batch \cup {c}])
<1> DEFINE q == Append(t.parts, c)
           u == [t EXCEPT !.parts = q, !.batch = t.batch \cup {c}]
           n == Len(t.parts)
<1>1. /\ t.parts \in Seq(Calls \cup PartKinds) /\ n \in Nat /\ DOMAIN t.parts = 1 .. n
      /\ t.batch \in SUBSET Calls
  BY DEF PartsOK, Turns
<1>2. /\ q \in Seq(Calls \cup PartKinds) /\ DOMAIN q = 1 .. n + 1
      /\ \A i \in 1 .. n : q[i] = t.parts[i]
      /\ q[n + 1] = c
  BY <1>1
<1> HIDE DEF q
<1>3. /\ u \in Turns /\ u.parts = q /\ u.batch = t.batch \cup {c} /\ u.asked = t.asked
      /\ u.done = t.done
  BY <1>1, <1>2 DEF PartsOK, Turns
<1> HIDE DEF u, n
<1>4. \A k \in DOMAIN q : k \in 1 .. n \/ k = n + 1
  BY <1>1, <1>2
<1>5. CallsOnce(q)
  <2> SUFFICES ASSUME NEW k \in DOMAIN q, NEW l \in DOMAIN q, q[k] \in Calls, q[k] = q[l] PROVE k = l
    BY DEF CallsOnce
  <2>1. CASE k \in 1 .. n /\ l \in 1 .. n
    BY <1>1, <1>2, <2>1 DEF PartsOK, CallsOnce
  <2>2. CASE ~ (k \in 1 .. n /\ l \in 1 .. n)
    BY <1>1, <1>2, <1>4, <2>2
  <2> QED  BY <2>1, <2>2
<1>6. \A d \in t.batch \cup {c} \cup t.asked \cup t.done : \E k \in DOMAIN q : q[k] = d
  <2> SUFFICES ASSUME NEW d \in t.batch \cup {c} \cup t.asked \cup t.done
               PROVE  \E k \in DOMAIN q : q[k] = d
    OBVIOUS
  <2>1. CASE d = c
    BY <1>1, <1>2, <2>1
  <2>2. CASE d # c
    <3>1. PICK i \in DOMAIN t.parts : t.parts[i] = d
      BY <2>2 DEF PartsOK
    <3>2. i \in DOMAIN q
      BY <1>1, <1>2
    <3> QED  BY <1>1, <1>2, <3>1, <3>2
  <2> QED  BY <2>1, <2>2
<1>7. ASSUME NEW k \in DOMAIN q, NEW l \in DOMAIN q, k < l, q[k] \in t.batch \cup {c}, q[l] \in Calls
      PROVE  q[l] \in t.batch \cup {c}
  <2>1. CASE l = n + 1
    BY <1>2, <2>1
  <2>2. CASE l \in 1 .. n
    <3>1. k \in 1 .. n
      BY <1>1, <1>2, <1>7, <2>2
    <3>2. q[k] \in t.batch
      BY <1>1, <1>2, <1>7, <3>1
    <3> QED  BY <1>1, <1>2, <1>7, <2>2, <3>1, <3>2 DEF PartsOK
  <2> QED  BY <1>4, <2>1, <2>2
<1>8. PartsOK(u)
  BY <1>2, <1>3, <1>5, <1>6, <1>7 DEF PartsOK
<1> QED  BY <1>8 DEF u, q

-----------------------------------------------------------------------------
(* The steps *)

\* What waits after a step is in reach, or was kept away, or waited already.
Reached ==
  \A c \in trWaiting'.cards :
    InReach(c)' \/ KeptAway(c) \/ UNCHANGED <<trTurn, trWaiting>>

LEMMA ShownInv ==
  ASSUME AnswerInv, NEW t, NEW w, PartsOK(t), AskedOK(t, w), ~ t.live => t.parts = <<>>,
         NEW groups, groups \subseteq DOMAIN trGroups, NEW cards, cards \subseteq DOMAIN trCards,
         Render(t, w, groups, cards), UNCHANGED trStream
  PROVE  AnswerInv'
<1>1. trTurn' = t /\ trWaiting' = w
  BY DEF Render
<1> QED  BY <1>1, RenderOK DEF AnswerInv

LEMMA SameParts ==
  ASSUME NEW t, NEW u \in Turns, PartsOK(t), u.parts = t.parts,
         u.batch \in {t.batch, {}}, \A c \in u.asked \cup u.done : \E i \in DOMAIN t.parts : t.parts[i] = c
  PROVE  PartsOK(u)
  BY DEF PartsOK

LEMMA NothingAsked ==
  ASSUME AnswerInv, trTurn.batch = {} \/ trTurn.batch \cap (trTurn.asked \cup trTurn.done) = {}
  PROVE  trWaiting.cards = {}
  BY DEF AnswerInv, AskedOK

LEMMA EmptyAnswer ==
  ASSUME AnswerInv, trTurn.parts = <<>>
  PROVE  /\ trTurn.batch = {} /\ trTurn.asked = {} /\ trTurn.done = {} /\ trWaiting.cards = {}
         /\ trGroups \in [{} -> FoldStates] /\ trCards \in [{} -> FoldStates]
<1>1. trTurn.batch = {} /\ trTurn.asked = {} /\ trTurn.done = {}
  BY DEF AnswerInv, PartsOK
<1>2. FirstCalls(trTurn.parts) = {}
  BY DEF FirstCalls
<1>3. trGroups \in [{} -> FoldStates]
  BY <1>2 DEF AnswerInv, GroupsOK
<1>4. Unfolded(trTurn, trGroups) = {}
  BY <1>3 DEF Unfolded
<1> QED  BY <1>1, <1>3, <1>4 DEF AnswerInv, AskedOK, CardsOK

LEMMA EmptyShown ==
  ASSUME trTurn' \in Turns, trTurn'.parts = <<>>, trTurn'.batch = {}, trTurn'.asked = {}, trTurn'.done = {},
         trWaiting' \in [cards : {{}}, left : BOOLEAN], trStream' \in BOOLEAN,
         trGroups' \in [{} -> FoldStates], trCards' \in [{} -> FoldStates]
  PROVE  AnswerInv' /\ Reached
<1>1. FirstCalls(trTurn'.parts) = {}
  BY DEF FirstCalls
<1>2. Unfolded(trTurn', trGroups') = {}
  BY DEF Unfolded
<1>3. PartsOK(trTurn') /\ AskedOK(trTurn', trWaiting')
  BY DEF PartsOK, CallsOnce, AskedOK
<1>4. GroupsOK' /\ CardsOK'
  BY <1>1, <1>2 DEF GroupsOK, CardsOK
<1> QED  BY <1>3, <1>4 DEF AnswerInv, Reached

LEMMA TranscriptInit == InitTranscript => AnswerInv
<1> SUFFICES ASSUME InitTranscript PROVE AnswerInv
  OBVIOUS
<1>1. trTurn \in Turns /\ trTurn.parts = <<>> /\ trTurn.batch = {} /\ trTurn.asked = {} /\ trTurn.done = {}
  BY DEF InitTranscript, NoAnswer, Turns
<1>2. trWaiting.cards = {} /\ trWaiting \in [cards : SUBSET Calls, left : BOOLEAN]
  BY DEF InitTranscript, NothingWaits
<1>3. trGroups \in [{} -> FoldStates] /\ trCards \in [{} -> FoldStates]
  BY DEF InitTranscript, NoViews
<1>4. FirstCalls(trTurn.parts) = {}
  BY <1>1 DEF FirstCalls
<1>5. Unfolded(trTurn, trGroups) = {}
  BY <1>3 DEF Unfolded
<1>6. PartsOK(trTurn) /\ AskedOK(trTurn, trWaiting)
  BY <1>1, <1>2 DEF PartsOK, CallsOnce, AskedOK
<1>7. GroupsOK /\ CardsOK
  BY <1>2, <1>3, <1>4, <1>5 DEF GroupsOK, CardsOK
<1> QED  BY <1>1, <1>6, <1>7 DEF AnswerInv, InitTranscript

LEMMA StartAnswerOK == ASSUME AnswerInv, StartAnswer PROVE AnswerInv' /\ Reached
<1>1. trTurn.parts = <<>> /\ ~ trTurn.live
  BY DEF StartAnswer, AnswerInv
<1>2. /\ trTurn' \in Turns /\ trTurn'.parts = <<>> /\ trTurn'.batch = {} /\ trTurn'.asked = {}
      /\ trTurn'.done = {}
  <2>1. trTurn' = [live |-> TRUE, parts |-> <<>>, batch |-> {}, asked |-> {}, done |-> {}]
    BY DEF StartAnswer, NoAnswer
  <2> QED  BY <2>1 DEF Turns
<1>3. trWaiting' \in [cards : {{}}, left : BOOLEAN]
  BY <1>1, EmptyAnswer DEF StartAnswer, AnswerInv, AskedOK
<1> QED  BY <1>1, <1>2, <1>3, EmptyAnswer, EmptyShown DEF StartAnswer, AnswerInv

LEMMA EndAnswerOK == ASSUME AnswerInv, EndAnswer PROVE AnswerInv' /\ Reached
<1>2. /\ trTurn' \in Turns /\ trTurn'.parts = <<>> /\ trTurn'.batch = {} /\ trTurn'.asked = {}
      /\ trTurn'.done = {}
  BY DEF EndAnswer, NoAnswer, Turns
<1>3. HasPending(trWaiting) \in BOOLEAN
  BY DEF HasPending, AnswerInv, AskedOK
<1>4. trWaiting' \in [cards : {{}}, left : BOOLEAN]
  BY <1>3 DEF EndAnswer
<1>5. trGroups' \in [{} -> FoldStates] /\ trCards' \in [{} -> FoldStates]
  BY DEF EndAnswer, NoViews
<1> QED  BY <1>2, <1>4, <1>5, EmptyShown DEF EndAnswer, AnswerInv

LEMMA OtherThreadOK == ASSUME AnswerInv, OtherThread PROVE AnswerInv' /\ Reached
<1>1. trTurn.parts = <<>>
  BY DEF OtherThread, AnswerInv
<1>2. /\ trTurn' \in Turns /\ trTurn'.parts = <<>> /\ trTurn'.batch = {} /\ trTurn'.asked = {}
      /\ trTurn'.done = {}
  BY <1>1, EmptyAnswer DEF OtherThread, AnswerInv, PartsOK
<1>3. trWaiting' \in [cards : {{}}, left : BOOLEAN]
  BY DEF OtherThread, NothingWaits
<1> QED  BY <1>1, <1>2, <1>3, EmptyAnswer, EmptyShown DEF OtherThread, AnswerInv

LEMMA AskedSame ==
  ASSUME NEW t, NEW u, NEW w, AskedOK(t, w), u.batch = t.batch, u.asked = t.asked, u.done = t.done
  PROVE  AskedOK(u, w)
  BY DEF AskedOK

\* Between batches nothing waits.
LEMMA NothingReached ==
  ASSUME NEW t, NEW w, NEW groups, NEW cards, Render(t, w, groups, cards), w.cards = {}
  PROVE  Reached
  BY DEF Render, Reached

LEMMA PartOK ==
  ASSUME AnswerInv, trTurn.live, trWaiting.cards = {}, NEW q, UNCHANGED trStream,
         NEW groups, groups \subseteq DOMAIN trGroups, NEW cards, cards \subseteq DOMAIN trCards,
         PartsOK([trTurn EXCEPT !.parts = q]),
         Render([trTurn EXCEPT !.parts = q], trWaiting, groups, cards)
  PROVE  AnswerInv' /\ Reached
<1> DEFINE t == [trTurn EXCEPT !.parts = q]
<1>1. t.live = trTurn.live /\ t.batch = trTurn.batch /\ t.asked = trTurn.asked /\ t.done = trTurn.done
  BY DEF AnswerInv, PartsOK, Turns
<1>2. PartsOK(t) /\ Render(t, trWaiting, groups, cards)
  OBVIOUS
<1> HIDE DEF t
<1>3. AskedOK(t, trWaiting)
  BY <1>1, AskedSame DEF AnswerInv
<1>4. ~ t.live => t.parts = <<>>
  BY <1>1
<1> QED  BY <1>2, <1>3, <1>4, ShownInv, NothingReached

LEMMA DeltasOK == ASSUME AnswerInv, TextDelta \/ ReasoningDelta PROVE AnswerInv' /\ Reached
<1>1. trTurn.live /\ trTurn.batch = {} /\ trWaiting.cards = {} /\ UNCHANGED trStream
  BY NothingAsked DEF TextDelta, ReasoningDelta
<1>2. PartsOK(trTurn)
  BY DEF AnswerInv
<1>3. CASE TextDelta
  <2> DEFINE q == Append(trTurn.parts, "text")
  <2>1. Render([trTurn EXCEPT !.parts = q], trWaiting, DOMAIN trGroups, DOMAIN trCards)
    BY <1>3 DEF TextDelta, Shows
  <2>2. PartsOK([trTurn EXCEPT !.parts = q])
    BY <1>2, PartAdded DEF PartKinds
  <2> HIDE DEF q
  <2> QED  BY <1>1, <2>1, <2>2, PartOK
<1>4. CASE ReasoningDelta
  <2> DEFINE q == <<"reasoning">> \o trTurn.parts
  <2>1. PICK kept \in BOOLEAN :
          Render([trTurn EXCEPT !.parts = q], trWaiting, IF kept THEN DOMAIN trGroups ELSE {},
                 IF kept THEN DOMAIN trCards ELSE {})
    BY <1>4 DEF ReasoningDelta
  <2>2. PartsOK([trTurn EXCEPT !.parts = q])
    BY <1>2, PartAdded DEF PartKinds
  <2>3. /\ (IF kept THEN DOMAIN trGroups ELSE {}) \subseteq DOMAIN trGroups
        /\ (IF kept THEN DOMAIN trCards ELSE {}) \subseteq DOMAIN trCards
    OBVIOUS
  <2> HIDE DEF q
  <2> QED  BY <1>1, <2>1, <2>2, <2>3, PartOK
<1> QED  BY <1>3, <1>4

LEMMA StartToolOK == ASSUME AnswerInv, NEW c \in Calls, StartTool(c) PROVE AnswerInv' /\ Reached
<1>1. /\ trTurn.live /\ trWaiting.cards = {} /\ UNCHANGED trStream
      /\ \A i \in DOMAIN trTurn.parts : trTurn.parts[i] # c
      /\ trTurn.batch \cap (trTurn.asked \cup trTurn.done) = {}
  BY NothingAsked DEF StartTool
<1>2. PICK added \in {<<c>>, <<c, "media">>} :
        Shows([trTurn EXCEPT !.parts = @ \o added, !.batch = @ \cup {c}], trWaiting)
  BY DEF StartTool
<1> DEFINE t == [trTurn EXCEPT !.parts = Append(trTurn.parts, c), !.batch = trTurn.batch \cup {c}]
           m == [t EXCEPT !.parts = Append(t.parts, "media")]
           u == [trTurn EXCEPT !.parts = @ \o added, !.batch = @ \cup {c}]
<1>3. PartsOK(t)
  BY <1>1, CallAdded DEF AnswerInv
<1>4. PartsOK(m)
  <2> HIDE DEF t
  <2> QED  BY <1>3, PartAdded DEF PartKinds
<1>5. trTurn \in Turns
  BY DEF AnswerInv, PartsOK
<1>6. u \in {t, m}
  <2>1. CASE added = <<c>>
    <3>1. trTurn.parts \o added = Append(trTurn.parts, c)
      BY <1>5, <2>1 DEF Turns
    <3>2. u = t
      BY <3>1
    <3> QED  BY <3>2
  <2>2. CASE added = <<c, "media">>
    <3>1. trTurn.parts \o added = Append(Append(trTurn.parts, c), "media")
      BY <1>5, <2>2 DEF Turns
    <3>2. t.parts = Append(trTurn.parts, c)
      BY <1>5 DEF Turns
    <3>3. m = [t EXCEPT !.parts = trTurn.parts \o added]
      BY <3>1, <3>2
    <3>4. u = m
      BY <1>5, <3>3 DEF Turns
    <3> QED  BY <3>4
  <2> QED  BY <2>1, <2>2
<1>7. /\ u.live = trTurn.live /\ u.batch = trTurn.batch \cup {c} /\ u.asked = trTurn.asked
      /\ u.done = trTurn.done
  BY <1>5 DEF Turns
<1>8. PartsOK(u)
  <2> HIDE DEF u, t, m
  <2> QED  BY <1>3, <1>4, <1>6
<1>9. Render(u, trWaiting, DOMAIN trGroups, DOMAIN trCards)
  BY <1>2 DEF Shows
<1> HIDE DEF u
<1>10. c \notin trTurn.done
  BY <1>1 DEF AnswerInv, PartsOK
<1>11. AskedOK(u, trWaiting)
  BY <1>1, <1>7, <1>10 DEF AnswerInv, AskedOK
<1> QED  BY <1>1, <1>7, <1>8, <1>9, <1>11, ShownInv, NothingReached

\* The transcript is shown anew with the same parts.
LEMMA SamePartsShown ==
  ASSUME AnswerInv, NEW t, NEW w, PartsOK(t), AskedOK(t, w), t.parts = trTurn.parts,
         t.live = trTurn.live, Shows(t, w), UNCHANGED trStream
  PROVE  AnswerInv' /\ Reached
<1>1. ~ t.live => t.parts = <<>>
  BY DEF AnswerInv
<1>2. Render(t, w, DOMAIN trGroups, DOMAIN trCards) /\ trWaiting' = w
  BY DEF Shows, Render
<1>3. AnswerInv'
  BY <1>1, <1>2, ShownInv
<1>4. \A c \in w.cards : InReach(c)' \/ KeptAway(c)
  BY ReachOK
<1> QED  BY <1>2, <1>3, <1>4 DEF Reached

LEMMA RequestApprovalOK ==
  ASSUME AnswerInv, NEW c \in Calls, RequestApproval(c) PROVE AnswerInv' /\ Reached
<1> DEFINE t == [trTurn EXCEPT !.asked = @ \cup {c}]
           w == IF trAuto THEN trWaiting ELSE [trWaiting EXCEPT !.cards = @ \cup {c}]
<1>1. /\ c \in (trTurn.batch \cap Gated) \ trTurn.asked /\ Shows(t, w) /\ UNCHANGED trStream
  BY DEF RequestApproval
<1>2. trTurn \in Turns /\ trWaiting \in [cards : SUBSET Calls, left : BOOLEAN] /\ PartsOK(trTurn)
  BY DEF AnswerInv, AskedOK, PartsOK
<1>3. /\ t \in Turns /\ t.live = trTurn.live /\ t.parts = trTurn.parts /\ t.batch = trTurn.batch
      /\ t.asked = trTurn.asked \cup {c} /\ t.done = trTurn.done
  BY <1>2 DEF Turns
<1>4. w \in [cards : SUBSET Calls, left : BOOLEAN] /\ w.cards \in {trWaiting.cards, trWaiting.cards \cup {c}}
  BY <1>2
<1> HIDE DEF t, w
<1>5. PartsOK(t)
  <2>1. \A d \in t.asked \cup t.done : \E i \in DOMAIN trTurn.parts : trTurn.parts[i] = d
    BY <1>1, <1>2, <1>3 DEF PartsOK
  <2> QED  BY <1>2, <1>3, <2>1, SameParts
<1>6. trTurn.batch \cap trTurn.done = {}
  BY <1>1 DEF AnswerInv, AskedOK
<1>7. w.cards \subseteq t.batch \cap t.asked \cap Gated
  BY <1>1, <1>3, <1>4 DEF AnswerInv, AskedOK
<1>8. AskedOK(t, w)
  BY <1>3, <1>4, <1>6, <1>7 DEF AskedOK
<1> QED  BY <1>1, <1>3, <1>5, <1>8, SamePartsShown

LEMMA CompleteToolOK ==
  ASSUME AnswerInv, NEW c \in Calls, CompleteTool(c) PROVE AnswerInv' /\ Reached
<1> DEFINE done == trTurn.done \cup {c}
           t == [trTurn EXCEPT !.done = done, !.batch = IF @ \subseteq done THEN {} ELSE @]
           w == [trWaiting EXCEPT !.cards = @ \ {c}]
           m == [t EXCEPT !.parts = WithMedia(@, c)]
<1>1. /\ trTurn.live /\ c \in trTurn.batch \ trTurn.done /\ trTurn.batch \cap Gated \subseteq trTurn.asked
      /\ trTurn.asked \cap trWaiting.cards = {} /\ UNCHANGED trStream
  BY DEF CompleteTool
<1>2. \/ Shows(t, w)
      \/ \E kept \in BOOLEAN : Render(m, w, IF kept THEN DOMAIN trGroups ELSE {},
                                     IF kept THEN DOMAIN trCards ELSE {})
  BY DEF CompleteTool
<1>3. trTurn \in Turns /\ trWaiting \in [cards : SUBSET Calls, left : BOOLEAN] /\ PartsOK(trTurn)
  BY DEF AnswerInv, AskedOK, PartsOK
<1>4. trWaiting.cards = {}
  BY <1>1 DEF AnswerInv, AskedOK
<1>5. w \in [cards : SUBSET Calls, left : BOOLEAN] /\ w.cards = {}
  BY <1>3, <1>4
<1>6. /\ t \in Turns /\ t.live = trTurn.live /\ t.parts = trTurn.parts
      /\ t.batch \in {trTurn.batch, {}} /\ t.asked = trTurn.asked /\ t.done = trTurn.done \cup {c}
  BY <1>1, <1>3 DEF Turns
<1>7. PartsOK(t)
  <2> HIDE DEF t, w
  <2>1. \A d \in t.asked \cup t.done : \E i \in DOMAIN trTurn.parts : trTurn.parts[i] = d
    BY <1>1, <1>3, <1>6 DEF PartsOK
  <2> QED  BY <1>3, <1>6, <2>1, SameParts
<1>8. AskedOK(t, w)
  <2> HIDE DEF t, w
  <2> QED  BY <1>1, <1>5, <1>6 DEF AskedOK
<1>9. /\ m.live = t.live /\ m.batch = t.batch /\ m.asked = t.asked /\ m.done = t.done
      /\ m = [t EXCEPT !.parts = WithMedia(t.parts, c)]
  BY <1>6 DEF Turns
<1> HIDE DEF t, w, m
<1>10. PartsOK(m)
  <2>1. c \in t.done \cup t.batch
    BY <1>6
  <2>2. PartsOK([t EXCEPT !.parts = SubSeq(t.parts, 1, PlaceOf(t.parts, c)) \o <<"media">>
                                      \o SubSeq(t.parts, PlaceOf(t.parts, c) + 1, Len(t.parts))])
    BY <1>7, <2>1, PartAdded DEF PartKinds
  <2> QED  BY <1>9, <2>2 DEF WithMedia
<1>11. AskedOK(m, w)
  BY <1>8, <1>9, AskedSame
<1>12. CASE Shows(t, w)
  <2>1. Render(t, w, DOMAIN trGroups, DOMAIN trCards)
    BY <1>12 DEF Shows
  <2> QED  BY <1>1, <1>5, <1>6, <1>7, <1>8, <2>1, ShownInv, NothingReached
<1>13. CASE \E kept \in BOOLEAN : Render(m, w, IF kept THEN DOMAIN trGroups ELSE {},
                                        IF kept THEN DOMAIN trCards ELSE {})
  <2>1. PICK kept \in BOOLEAN : Render(m, w, IF kept THEN DOMAIN trGroups ELSE {},
                                     IF kept THEN DOMAIN trCards ELSE {})
    BY <1>13
  <2>2. /\ (IF kept THEN DOMAIN trGroups ELSE {}) \subseteq DOMAIN trGroups
        /\ (IF kept THEN DOMAIN trCards ELSE {}) \subseteq DOMAIN trCards
    OBVIOUS
  <2>3. m.live
    BY <1>1, <1>6, <1>9
  <2> QED  BY <1>1, <1>5, <1>10, <1>11, <2>1, <2>2, <2>3, ShownInv, NothingReached
<1> QED  BY <1>2, <1>12, <1>13

LEMMA AnsweredOK ==
  ASSUME AnswerInv, NEW w, w.cards \subseteq trWaiting.cards, w \in [cards : SUBSET Calls, left : BOOLEAN],
         Shows(trTurn, w), UNCHANGED trStream
  PROVE  AnswerInv' /\ Reached
<1>1. PartsOK(trTurn) /\ AskedOK(trTurn, w)
  BY DEF AnswerInv, AskedOK
<1> QED  BY <1>1, SamePartsShown

LEMMA RespondOK ==
  ASSUME AnswerInv, (\E c \in Calls : Respond(c)) \/ RespondLeft \/ ApproveAll
  PROVE  AnswerInv' /\ Reached
<1>0. trWaiting \in [cards : SUBSET Calls, left : BOOLEAN]
  BY DEF AnswerInv, AskedOK
<1>1. ASSUME NEW c \in Calls, Respond(c) PROVE AnswerInv' /\ Reached
  <2> DEFINE w == [trWaiting EXCEPT !.cards = @ \ {c}]
  <2>1. w \in [cards : SUBSET Calls, left : BOOLEAN] /\ w.cards \subseteq trWaiting.cards
    BY <1>0
  <2>2. Shows(trTurn, w) /\ UNCHANGED trStream
    BY <1>1 DEF Respond
  <2> HIDE DEF w
  <2> QED  BY <2>1, <2>2, AnsweredOK
<1>2. CASE RespondLeft
  <2> DEFINE w == [trWaiting EXCEPT !.left = FALSE]
  <2>1. w \in [cards : SUBSET Calls, left : BOOLEAN] /\ w.cards \subseteq trWaiting.cards
    BY <1>0
  <2>2. Shows(trTurn, w) /\ UNCHANGED trStream
    BY <1>2 DEF RespondLeft
  <2> HIDE DEF w
  <2> QED  BY <2>1, <2>2, AnsweredOK
<1>3. CASE ApproveAll
  <2>1. NothingWaits \in [cards : SUBSET Calls, left : BOOLEAN] /\ NothingWaits.cards \subseteq trWaiting.cards
    BY DEF NothingWaits
  <2>2. Shows(trTurn, NothingWaits) /\ UNCHANGED trStream
    BY <1>3 DEF ApproveAll
  <2> QED  BY <2>1, <2>2, AnsweredOK
<1> QED  BY <1>1, <1>2, <1>3

\* What the user folds or unfolds leaves the answer and what waits as they are.
LEMMA FoldGroupOK == ASSUME AnswerInv, NEW g, FoldGroup(g) PROVE AnswerInv' /\ Reached
<1>1. /\ g \in DOMAIN trGroups /\ trGroups' = [trGroups EXCEPT ![g].open = ~ @]
      /\ trCards' = CardsShown(trTurn, trWaiting, trGroups', DOMAIN trCards)
      /\ UNCHANGED <<trTurn, trWaiting, trStream>>
  BY DEF FoldGroup
<1>2. trGroups[g] \in FoldStates
  BY <1>1 DEF AnswerInv, GroupsOK
<1>3. /\ [trGroups[g] EXCEPT !.open = ~ @] \in FoldStates
      /\ [trGroups[g] EXCEPT !.open = ~ @].was = trGroups[g].was
  BY <1>2 DEF FoldStates
<1>4. GroupsOK'
  <2>1. trGroups' \in [FirstCalls(trTurn.parts) -> FoldStates]
    BY <1>1, <1>3 DEF AnswerInv, GroupsOK
  <2>2. \A h \in DOMAIN trGroups : trGroups'[h].was = trGroups[h].was
    BY <1>1, <1>3 DEF AnswerInv, GroupsOK
  <2> QED  BY <1>1, <2>1, <2>2 DEF AnswerInv, GroupsOK
<1>5. trCards' = [c \in Unfolded(trTurn, trGroups') |->
        IF c \in DOMAIN trCards THEN Rerender(trCards[c], c \in trWaiting.cards)
        ELSE [open |-> c \in trWaiting.cards, was |-> c \in trWaiting.cards]]
  BY <1>1 DEF CardsShown, Unfolded
<1>6. \A c \in Unfolded(trTurn, trGroups') :
        trCards'[c] \in FoldStates /\ trCards'[c].was = (c \in trWaiting.cards)
  <2> SUFFICES ASSUME NEW c \in Unfolded(trTurn, trGroups')
               PROVE  trCards'[c] \in FoldStates /\ trCards'[c].was = (c \in trWaiting.cards)
    OBVIOUS
  <2>1. trCards'[c] = IF c \in DOMAIN trCards THEN Rerender(trCards[c], c \in trWaiting.cards)
                      ELSE [open |-> c \in trWaiting.cards, was |-> c \in trWaiting.cards]
    BY <1>5
  <2>2. (c \in trWaiting.cards) \in BOOLEAN
    OBVIOUS
  <2>3. CASE c \in DOMAIN trCards
    <3>1. trCards[c] \in FoldStates
      BY <2>3 DEF AnswerInv, CardsOK
    <3> QED  BY <2>1, <2>2, <2>3, <3>1, Rerendered
  <2>4. CASE c \notin DOMAIN trCards
    <3>1. trCards'[c] = [open |-> c \in trWaiting.cards, was |-> c \in trWaiting.cards]
      BY <2>1, <2>4
    <3>2. \A b \in BOOLEAN : [open |-> b, was |-> b] \in FoldStates /\ [open |-> b, was |-> b].was = b
      BY DEF FoldStates
    <3> QED  BY <2>2, <3>1, <3>2, Zenon
  <2> QED  BY <2>3, <2>4
<1>7. CardsOK'
  <2>1. trCards' \in [Unfolded(trTurn, trGroups') -> FoldStates]
    BY <1>5, <1>6
  <2> QED  BY <1>1, <1>5, <1>6, <2>1 DEF CardsOK
<1> QED  BY <1>1, <1>4, <1>7 DEF AnswerInv, Reached

LEMMA FoldsOK ==
  ASSUME AnswerInv, (\E c \in Calls : FoldCard(c)) \/ FoldThinking \/ UNCHANGED trVars
  PROVE  AnswerInv' /\ Reached
<1>1. ASSUME NEW c \in Calls, FoldCard(c) PROVE AnswerInv' /\ Reached
  <2>1. /\ c \in DOMAIN trCards /\ trCards' = [trCards EXCEPT ![c].open = ~ @]
        /\ UNCHANGED <<trTurn, trWaiting, trStream, trGroups>>
    BY <1>1 DEF FoldCard
  <2>2. trCards[c] \in FoldStates
    BY <2>1 DEF AnswerInv, CardsOK
  <2>3. /\ [trCards[c] EXCEPT !.open = ~ @] \in FoldStates
        /\ [trCards[c] EXCEPT !.open = ~ @].was = trCards[c].was
    BY <2>2 DEF FoldStates
  <2>4. trCards' \in [Unfolded(trTurn, trGroups) -> FoldStates]
    BY <2>1, <2>3 DEF AnswerInv, CardsOK
  <2>5. \A d \in DOMAIN trCards : trCards'[d].was = trCards[d].was
    BY <2>1, <2>3 DEF AnswerInv, CardsOK
  <2>6. CardsOK'
    BY <2>1, <2>4, <2>5 DEF AnswerInv, CardsOK
  <2>7. GroupsOK'
    BY <2>1 DEF AnswerInv, GroupsOK
  <2> QED  BY <2>1, <2>6, <2>7 DEF AnswerInv, Reached
<1>2. CASE FoldThinking \/ UNCHANGED trVars
  <2>1. UNCHANGED <<trTurn, trWaiting, trStream, trGroups, trCards>>
    BY <1>2 DEF FoldThinking, trVars
  <2> QED  BY <2>1 DEF AnswerInv, Reached, GroupsOK, CardsOK
<1> QED  BY <1>1, <1>2

LEMMA SwitchAutoOK == ASSUME AnswerInv, SwitchAuto PROVE AnswerInv' /\ Reached
<1>1. CASE trAuto
  <2>1. UNCHANGED <<trTurn, trWaiting, trStream, trGroups, trCards>>
    BY <1>1 DEF SwitchAuto
  <2> QED  BY <2>1 DEF AnswerInv, Reached, GroupsOK, CardsOK
<1>2. CASE ~ trAuto
  BY <1>2, RespondOK DEF SwitchAuto
<1> QED  BY <1>1, <1>2

LEMMA TranscriptStep == AnswerInv /\ [NextTranscript]_trVars => AnswerInv' /\ Reached
<1> SUFFICES ASSUME AnswerInv, [NextTranscript]_trVars PROVE AnswerInv' /\ Reached
  OBVIOUS
<1>1. CASE StartAnswer \/ EndAnswer \/ OtherThread
  BY <1>1, StartAnswerOK, EndAnswerOK, OtherThreadOK
<1>2. CASE TextDelta \/ ReasoningDelta
  BY <1>2, DeltasOK
<1>3. CASE \E c \in Calls : StartTool(c) \/ RequestApproval(c) \/ CompleteTool(c)
  BY <1>3, StartToolOK, RequestApprovalOK, CompleteToolOK
<1>4. CASE \E c \in Calls : FoldGroup(c)
  BY <1>4, FoldGroupOK
<1>5. CASE FoldThinking \/ UNCHANGED trVars \/ \E c \in Calls : FoldCard(c)
  BY <1>5, FoldsOK
<1>6. CASE RespondLeft \/ \E c \in Calls : Respond(c) \/ AllowSession(c)
  BY <1>6, RespondOK DEF AllowSession
<1>7. CASE SwitchAuto
  BY <1>7, SwitchAutoOK
<1> QED  BY <1>1, <1>2, <1>3, <1>4, <1>5, <1>6, <1>7 DEF NextTranscript

\* An approval that is asked is in reach, and nothing the run does takes it away, for
\* any calls, parts, turns and foldings (ApprovalAwareToolGroup, ToolGroupRoot).
THEOREM ApprovalsStayInReach == SpecTranscript => ApprovalsInReach
<1> DEFINE Shown == \A c \in trWaiting'.cards :
                      InReach(c)' \/ KeptAway(c) \/ UNCHANGED <<trTurn, trWaiting>>
<1>1. AnswerInv /\ [NextTranscript]_trVars => [Shown]_trVars
  BY TranscriptStep DEF Reached
<1>2. SpecTranscript => [][Shown]_trVars
  BY <1>1, TranscriptInit, TranscriptStep, PTL DEF SpecTranscript
<1> QED  BY <1>2 DEF ApprovalsInReach, Shown
=============================================================================
