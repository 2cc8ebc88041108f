-------------------------------- MODULE SignIn --------------------------------
(***************************************************************************)
(* Signing in and out of one browser: the modes of AuthPage and its check  *)
(* of the name while one signs up, the session cookie, the guard of        *)
(* RequireAuth, and what the page keeps of a user until onLogout.          *)
(*                                                                         *)
(* Passwords, codes and emails are left to the server's verdict; messages  *)
(* are left out.                                                           *)
(***************************************************************************)
EXTENDS Integers, FiniteSets

CONSTANTS
  Accounts,   \* names with an account at first
  NewNames,   \* valid names without one
  MaxSubmits, \* bound: forms submitted
  MaxTyped    \* bound: changes of the name or the mode

ASSUME SignInBounds == MaxSubmits \in Nat /\ MaxTyped \in Nat

Names == Accounts \cup NewNames
Short == "short"       \* a name of less than three characters
None == "none"

ASSUME NamesAssumption == Accounts \cap NewNames = {} /\ {Short, None} \cap Names = {}

VARIABLES
  acAt,       \* "auth" on AuthPage, "guard" while RequireAuth asks, "app" behind it
  acMode, acName, acBusy,   \* state of AuthPage
  acTaken,    \* usernameTaken
  acTimer,    \* the name the debounced check will ask for
  acNet,      \* requests and answers in flight
  acUsers,    \* accounts on the server
  acCookie,   \* whom the session cookie names
  acCached,   \* users whose data the query cache holds
  acThread,   \* whose thread id the store holds, None for a fresh one
  acSubmits, acTyped,   \* how many there were
  acDoubt,    \* a check was outstanding when its name or the mode changed, or failed,
              \* or the page did not hear that it made an account
  acThrown    \* the page left the app otherwise than by onLogout, which has not run since

acVars == <<acAt, acMode, acName, acBusy, acTaken, acTimer, acNet, acUsers, acCookie,
            acCached, acThread, acSubmits, acTyped, acDoubt, acThrown>>
acForm == <<acMode, acName, acBusy, acTaken, acTimer, acTyped, acDoubt>>
acKept == <<acCached, acThread>>

Ask(kind, name) == [kind |-> kind, name |-> name, ok |-> FALSE, n |-> acSubmits]
AuthNet(kinds) == {r \in acNet : r.kind \in kinds}
Checks == AuthNet({"check", "checked"})
Forms == {"login", "signup", "forgot", "reset"}

\* AuthPage is mounted: its state is fresh, and nothing answers its old requests.
Mounted ==
  /\ acMode' = "signin" /\ acName' = Short /\ acBusy' = FALSE
  /\ acTaken' = FALSE /\ acTimer' = None /\ acDoubt' = FALSE

InitSignIn ==
  /\ acAt = "auth" /\ acMode = "signin" /\ acName = Short /\ acBusy = FALSE
  /\ acTaken = FALSE /\ acTimer = None /\ acNet = {}
  /\ acUsers = Accounts /\ acCookie = None /\ acCached = {} /\ acThread = None
  /\ acSubmits = 0 /\ acTyped = 0 /\ acDoubt = FALSE /\ acThrown = FALSE

-----------------------------------------------------------------------------
(* AuthPage *)

\* Mutant: a short name is not asked for, and the last verdict stays.
MutantCheckName(mode, name) ==
  /\ acTaken' = acTaken
  /\ acTimer' = IF mode = "signup" /\ name # Short THEN name ELSE None
\* The effect of [username, mode]: its cleanup stops the timer set before.
CheckName(mode, name) ==
  /\ acTaken' = (acTaken /\ (mode = "signup" => name # Short))
  /\ acTimer' = IF mode = "signup" /\ name # Short THEN name ELSE None

Edited(mode, name) ==
  /\ acTyped < MaxTyped /\ acTyped' = acTyped + 1
  /\ acMode' = mode /\ acName' = name
  /\ CheckName(mode, name)
  /\ acDoubt' = (acDoubt \/ Checks # {})

\* The links below the form, which also answer while a submit is under way.
Links(mode) == CASE mode = "signin" -> {"forgot", "signup"}
                 [] mode = "reset" -> {"signin", "forgot"}
                 [] OTHER -> {"signin"}
SwitchMode ==
  /\ acAt = "auth"
  /\ \E m \in Links(acMode) : Edited(m, acName)
  /\ UNCHANGED <<acAt, acBusy, acNet, acUsers, acCookie, acKept, acSubmits, acThrown>>

\* The inputs of each mode; of these only the name is followed.
Fields(mode) == CASE mode = "signin" -> {"name", "password"}
                  [] mode = "signup" -> {"name", "email", "password", "confirm"}
                  [] mode = "forgot" -> {"email"}
                  [] mode = "reset" -> {"otp", "password", "confirm"}
TypeName ==
  /\ acAt = "auth" /\ "name" \in Fields(acMode)
  /\ \E name \in (Names \cup {Short}) \ {acName} : Edited(acMode, name)
  /\ UNCHANGED <<acAt, acBusy, acNet, acUsers, acCookie, acKept, acSubmits, acThrown>>

CheckDue ==
  /\ acAt = "auth" /\ acTimer # None
  /\ acTimer' = None /\ acNet' = acNet \cup {Ask("check", acTimer)}
  /\ UNCHANGED <<acAt, acMode, acName, acBusy, acTaken, acUsers, acCookie, acKept, acSubmits,
                 acTyped, acDoubt, acThrown>>

SubmitOffered == acAt = "auth" /\ ~ acBusy

\* onSubmit.  A password the page itself refuses sends nothing.
SubmitForm ==
  /\ SubmitOffered /\ acSubmits < MaxSubmits
  /\ acSubmits' = acSubmits + 1 /\ acBusy' = TRUE
  /\ acNet' = acNet \cup {Ask(CASE acMode = "signin" -> "login" [] OTHER -> acMode, acName)}
  /\ UNCHANGED <<acAt, acMode, acName, acTaken, acTimer, acUsers, acCookie, acKept, acTyped,
                 acDoubt, acThrown>>

-----------------------------------------------------------------------------
(* The server *)

\* username_taken.
CheckArrives(r) ==
  /\ r \in AuthNet({"check"})
  /\ acNet' = (acNet \ {r}) \cup {[r EXCEPT !.kind = "checked", !.ok = r.name \in acUsers]}
  /\ UNCHANGED <<acAt, acForm, acUsers, acCookie, acKept, acSubmits, acThrown>>

\* The request fails: fetch throws and the verdict stays, or it is an empty one.
CheckFails(r) ==
  /\ r \in AuthNet({"check"})
  /\ acNet' \in {acNet \ {r}, (acNet \ {r}) \cup {[r EXCEPT !.kind = "checked"]}}
  /\ acDoubt' = TRUE
  /\ UNCHANGED <<acAt, acMode, acName, acBusy, acTaken, acTimer, acUsers, acCookie, acKept,
                 acSubmits, acTyped, acThrown>>

\* Its verdict, and the cookie that goes with a good one.  post takes an answer that
\* is lost for a bad one.
Signs(r, who, ok, heard) ==
  /\ acUsers' = IF ok THEN acUsers \cup {who} ELSE acUsers
  /\ acCookie' = IF ok /\ heard THEN who ELSE acCookie
  /\ acNet' = (acNet \ {r}) \cup {[r EXCEPT !.kind = "answer", !.ok = ok /\ heard]}
  /\ acDoubt' = (acDoubt \/ (r.kind = "signup" /\ ok /\ ~ heard))

FormArrives(r) ==
  /\ r \in AuthNet(Forms)
  /\ \E ok, heard \in BOOLEAN :
       CASE r.kind = "login" -> (ok => r.name \in acUsers) /\ Signs(r, r.name, ok, heard)
         [] r.kind = "signup" -> (ok => r.name \in Names \ acUsers) /\ Signs(r, r.name, ok, heard)
         [] r.kind = "reset" -> \E who \in acUsers : Signs(r, who, ok, heard)
         [] r.kind = "forgot" -> /\ acNet' = (acNet \ {r}) \cup {[r EXCEPT !.kind = "code"]}
                                 /\ UNCHANGED <<acUsers, acCookie, acDoubt>>
  /\ UNCHANGED <<acAt, acMode, acName, acBusy, acTaken, acTimer, acTyped, acKept, acSubmits,
                 acThrown>>

\* The cookie runs out.
SessionEnds ==
  /\ acAt = "app" /\ acCookie # None
  /\ acCookie' = None
  /\ UNCHANGED <<acAt, acForm, acNet, acUsers, acKept, acSubmits, acThrown>>

-----------------------------------------------------------------------------
(* Answers, and the way in and out *)

\* The answer comes however often the name has changed meanwhile.
Checked(r) ==
  /\ r \in AuthNet({"checked"})
  /\ acNet' = acNet \ {r}
  /\ acTaken' = IF acAt = "auth" THEN r.ok ELSE acTaken
  /\ UNCHANGED <<acAt, acMode, acName, acBusy, acTimer, acUsers, acCookie, acKept, acSubmits,
                 acTyped, acDoubt, acThrown>>

\* finishAuthed, or an error and the form again.  Of a page that is left no answer
\* counts, but onLogout goes on wherever the page is.
Answer(r) ==
  /\ r \in AuthNet({"answer"})
  /\ acNet' = IF r.ok THEN AuthNet({"logout", "loggedout"}) ELSE acNet \ {r}
  /\ acBusy' = FALSE
  /\ acAt' = IF r.ok THEN "guard" ELSE acAt
  /\ UNCHANGED <<acMode, acName, acTaken, acTimer, acUsers, acCookie, acKept, acSubmits,
                 acTyped, acDoubt, acThrown>>

\* After forgot the page asks for the code, whatever mode it is in by then.
CodeSent(r) ==
  /\ r \in AuthNet({"code"})
  /\ acNet' = acNet \ {r} /\ acBusy' = FALSE
  /\ acMode' = "reset" /\ CheckName("reset", acName)
  /\ UNCHANGED <<acAt, acName, acUsers, acCookie, acKept, acSubmits, acTyped, acDoubt,
                 acThrown>>

\* RequireAuth: me answers, or the page goes to /signin.
Guard ==
  /\ acAt = "guard"
  /\ IF acCookie = None
     THEN acAt' = "auth" /\ Mounted /\ UNCHANGED <<acThread, acTyped>>
     ELSE /\ acAt' = "app" /\ UNCHANGED acForm
          /\ acThread' = IF acThread = None THEN acCookie ELSE acThread
  /\ UNCHANGED <<acNet, acUsers, acCookie, acCached, acSubmits, acThrown>>

\* A query of the app; without a session it fails, and when it is me, RequireAuth
\* leaves for /signin.
Query ==
  /\ acAt = "app"
  /\ IF acCookie # None
     THEN acCached' = acCached \cup {acCookie} /\ UNCHANGED <<acAt, acForm, acThrown>>
     ELSE acAt' = "auth" /\ Mounted /\ acThrown' = TRUE /\ UNCHANGED <<acCached, acTyped>>
  /\ UNCHANGED <<acNet, acUsers, acCookie, acThread, acSubmits>>

Logout ==
  /\ acAt = "app" /\ acSubmits < MaxSubmits
  /\ acSubmits' = acSubmits + 1
  /\ acNet' = acNet \cup {Ask("logout", None)}
  /\ UNCHANGED <<acAt, acForm, acUsers, acCookie, acKept, acThrown>>

\* The cookie is dropped, or the request is lost, which post takes for an answer.
LogoutArrives(r) ==
  /\ r \in AuthNet({"logout"})
  /\ acCookie' \in {None, acCookie}
  /\ acNet' = (acNet \ {r}) \cup {[r EXCEPT !.kind = "loggedout"]}
  /\ UNCHANGED <<acAt, acForm, acUsers, acKept, acSubmits, acThrown>>

\* Mutant: the cached queries stay.
MutantForget == acThread' = None /\ acCached' = acCached
\* newChat, whose id is nobody's yet, and qc.clear.
Forget == acThread' = None /\ acCached' = {}

\* onLogout after its await; on /signin already, AuthPage is not mounted again.
LoggedOut(r) ==
  /\ r \in AuthNet({"loggedout"})
  /\ acNet' = acNet \ {r}
  /\ Forget /\ acThrown' = FALSE
  /\ IF acAt = "auth" THEN UNCHANGED <<acAt, acForm>>
     ELSE acAt' = "auth" /\ Mounted /\ UNCHANGED acTyped
  /\ UNCHANGED <<acUsers, acCookie, acSubmits>>

NextSignIn ==
  \/ SwitchMode \/ TypeName \/ CheckDue \/ SubmitForm \/ SessionEnds \/ Guard \/ Query \/ Logout
  \/ \E r \in acNet : CheckArrives(r) \/ CheckFails(r) \/ FormArrives(r) \/ Checked(r)
                      \/ Answer(r) \/ CodeSent(r) \/ LogoutArrives(r) \/ LoggedOut(r)

SpecSignIn == InitSignIn /\ [][NextSignIn]_acVars

-----------------------------------------------------------------------------
(* Properties *)

\* Whoever is signed in finds nothing of the user before: no cached data and no
\* thread (ProfilePane.tsx:78-80), also when the logout never reached the server.
\* A page that RequireAuth sends to /signin, because the session ran out or while
\* the answer to a logout is still on its way, has not cleared anything yet.
NothingOfOthers ==
  acAt = "app" /\ acCookie # None /\ ~ acThrown =>
    acCached \subseteq {acCookie} /\ acThread = acCookie

\* When no check is outstanding the page calls a name taken exactly when it is, unless
\* an answer may have come for another name: answers are not tied to the name they
\* were asked for (AuthPage.tsx:56-60).  Excepted is also a check that failed, and an
\* account made by a signup whose answer was lost.
TakenIsTrue ==
  acAt = "auth" /\ acMode = "signup" /\ ~ acBusy /\ acTimer = None /\ Checks = {} /\ ~ acDoubt =>
    acTaken = (acName \in acUsers)
=============================================================================
