------------------------------ MODULE SessionList ------------------------------
(***************************************************************************)
(* The registry of conversations as the page sees it: the sidebar and the  *)
(* conversation settings read one cached list of rows, mutations change    *)
(* the rows on the server and fetch the list again, and the auto-approve   *)
(* switch of the open conversation follows the cached row (the second      *)
(* effect of PrefsSync) but is saved by a request of its own.              *)
(***************************************************************************)
EXTENDS Integers, FiniteSets

CONSTANTS
  Chats,      \* conversation ids
  FirstChat,  \* the one open when the page loads
  FirstAuto,  \* whether auto-approve is on in it
  MaxClicks   \* bound: what the user does that sends a request

ASSUME FirstChatAssumption == FirstChat \in Chats /\ FirstAuto \in BOOLEAN
ASSUME ClicksAssumption == MaxClicks \in Nat

VARIABLES
  slChat,      \* threadId
  slUsed,      \* ids minted
  slAuto,      \* autoApprove, what the next run is sent with
  slDefault,   \* autoApproveDefault
  slRows,      \* the server's rows
  slCache,     \* the cached list
  slFetch,     \* the fetch the cache waits for, 0 for none
  slNet,       \* requests and answers in flight
  slRunning,   \* the open chat has a run
  slEditing,   \* the chat whose title is edited, with the draft
  slClicks, slFetches,  \* how many there were
  slGranted,   \* chats in which the user switched auto-approve on or had it by default
  slRefused,   \* chats in which the user switched it off last
  slUnseen     \* a chat was left before the server had its run, an answer was lost,
               \* or the server could not read the list

slVars == <<slChat, slUsed, slAuto, slDefault, slRows, slCache, slFetch, slNet, slRunning,
            slEditing, slClicks, slFetches, slGranted, slRefused, slUnseen>>
slPage == <<slChat, slUsed, slAuto, slGranted, slUnseen, slRunning>>

NoRow == [auto |-> FALSE, pinned |-> FALSE, title |-> "none"]
NoRows == [c \in Chats |-> NoRow]
Row(auto) == [NoRow EXCEPT !.auto = auto, !.title = "first"]
Listed(list) == {c \in Chats : list[c] # NoRow}
NotEditing == [chat |-> "none", draft |-> ""]

OnOff(b) == IF b THEN "on" ELSE "off"
\* n tells requests apart that are alike.
Req(kind, c, value) == [kind |-> kind, chat |-> c, value |-> value, n |-> slClicks]
GetList(n) == [kind |-> "list", n |-> n]
GotList(n, list) == [kind |-> "listed", n |-> n, list |-> list]
Kind(kinds) == {r \in slNet : r.kind \in kinds}
Click == slClicks < MaxClicks /\ slClicks' = slClicks + 1

InitSessionList ==
  /\ slChat = FirstChat /\ slUsed = {FirstChat}
  /\ slAuto = FALSE /\ slDefault = FALSE
  /\ slRows = [c \in Chats |-> IF c = FirstChat THEN Row(FirstAuto) ELSE NoRow]
  /\ slGranted = IF FirstAuto THEN {FirstChat} ELSE {}
  /\ slCache = NoRows
  /\ slFetch = 1 /\ slFetches = 1 /\ slNet = {GetList(1)}
  /\ slRunning = FALSE /\ slEditing = NotEditing
  /\ slClicks = 0 /\ slRefused = {} /\ slUnseen = FALSE

-----------------------------------------------------------------------------
(* Auto-approve of the open chat *)

\* Mutant: without a row the switch stays as the last chat had it.
MutantHydrate(c, list, default) == IF list[c] # NoRow THEN list[c].auto ELSE slAuto
Hydrate(c, list, default) == IF list[c] # NoRow THEN list[c].auto ELSE default

Granted(c, list, default) == slGranted \cup IF default /\ list[c] = NoRow THEN {c} ELSE {}

\* setAutoApprove: shown at once, saved by a PATCH nothing waits for.
ToggleAuto ==
  /\ Click
  /\ slAuto' = ~ slAuto
  /\ slNet' = slNet \cup {Req("auto", slChat, OnOff(slAuto'))}
  /\ slGranted' = IF slAuto' THEN slGranted \cup {slChat} ELSE slGranted
  /\ slRefused' = IF slAuto' THEN slRefused \ {slChat} ELSE slRefused \cup {slChat}
  /\ UNCHANGED <<slChat, slUsed, slDefault, slRows, slCache, slFetch, slRunning, slEditing,
                 slFetches, slUnseen>>

ToggleDefault ==
  /\ Click
  /\ slDefault' = ~ slDefault
  /\ slAuto' = Hydrate(slChat, slCache, slDefault')
  /\ slGranted' = Granted(slChat, slCache, slDefault')
  /\ UNCHANGED <<slChat, slUsed, slRows, slCache, slFetch, slNet, slRunning, slEditing,
                 slFetches, slRefused, slUnseen>>

-----------------------------------------------------------------------------
(* Moving between chats, and the run of the open one *)

\* invalidateQueries: a fetch under way is replaced, its answer dropped.
Invalidate(net) ==
  /\ slFetches' = slFetches + 1 /\ slFetch' = slFetches'
  /\ slNet' = net \cup {GetList(slFetches')}

Posting == \E r \in Kind({"post"}) : r.chat = slChat

\* The effects of threadId: the run of the chat left is torn down, whose
\* finish fetches the list, and the switch is set for the chat opened.
Open(c, net) ==
  /\ slChat' = c
  /\ slAuto' = Hydrate(c, slCache, slDefault)
  /\ slGranted' = Granted(c, slCache, slDefault)
  /\ slRunning' = FALSE
  /\ IF slRunning THEN Invalidate(net)
                  ELSE slNet' = net /\ UNCHANGED <<slFetch, slFetches>>
  /\ slUnseen' = (slUnseen \/ Posting)

\* A listed chat is a row with its buttons, or the editor of its title.
RowOffered(c) == c \in Listed(slCache) /\ slEditing.chat # c
EditorOffered == slEditing.chat \in Listed(slCache)

SelectChat(c) ==
  /\ RowOffered(c) /\ c # slChat
  /\ Click /\ Open(c, slNet)
  /\ UNCHANGED <<slUsed, slDefault, slRows, slCache, slEditing, slRefused>>

NewConversation(net) ==
  \E c \in Chats \ slUsed : slUsed' = slUsed \cup {c} /\ Open(c, net)

OpenNewChat ==
  /\ Click /\ NewConversation(slNet)
  /\ UNCHANGED <<slDefault, slRows, slCache, slEditing, slRefused>>

SendRun ==
  /\ ~ slRunning /\ Click
  /\ slRunning' = TRUE
  /\ slNet' = slNet \cup {Req("post", slChat, OnOff(slAuto))}
  /\ UNCHANGED <<slChat, slUsed, slAuto, slDefault, slRows, slCache, slFetch, slEditing,
                 slFetches, slGranted, slRefused, slUnseen>>

\* finish: the stream closed, or the POST failed.
RunEnded ==
  /\ slRunning /\ ~ Posting
  /\ slRunning' = FALSE /\ Invalidate(slNet)
  /\ UNCHANGED <<slChat, slUsed, slAuto, slDefault, slRows, slCache, slEditing, slClicks,
                 slGranted, slRefused, slUnseen>>

-----------------------------------------------------------------------------
(* The sidebar and the conversation settings *)

Asks(r) ==
  /\ Click
  /\ slNet' = slNet \cup {r}
  /\ UNCHANGED <<slPage, slDefault, slRows, slCache, slFetch, slFetches, slRefused>>

TogglePin(c) ==
  /\ RowOffered(c)
  /\ Asks(Req("pin", c, OnOff(~ slCache[c].pinned))) /\ UNCHANGED slEditing

StartEdit(c) ==
  /\ RowOffered(c)
  /\ slEditing' = [chat |-> c, draft |-> slCache[c].title]
  /\ UNCHANGED <<slPage, slDefault, slRows, slCache, slFetch, slNet, slClicks, slFetches,
                 slRefused>>

TypeTitle ==
  /\ EditorOffered
  /\ \E draft \in {"", "second"} \ {slEditing.draft} :
       slEditing' = [slEditing EXCEPT !.draft = draft]
  /\ UNCHANGED <<slPage, slDefault, slRows, slCache, slFetch, slNet, slClicks, slFetches,
                 slRefused>>

CommitTitle ==
  /\ EditorOffered
  /\ slEditing' = NotEditing
  /\ IF slEditing.draft # ""
     THEN Asks(Req("rename", slEditing.chat, slEditing.draft))
     ELSE UNCHANGED <<slPage, slDefault, slRows, slCache, slFetch, slNet, slClicks, slFetches,
                      slRefused>>

DropTitle ==
  /\ EditorOffered
  /\ slEditing' = NotEditing
  /\ UNCHANGED <<slPage, slDefault, slRows, slCache, slFetch, slNet, slClicks, slFetches,
                 slRefused>>

\* The open chat is replaced by a new one.
RemoveOpen ==
  /\ Click /\ NewConversation(slNet \cup {Req("delete", slChat, "")})
  /\ UNCHANGED <<slDefault, slRows, slCache, slRefused, slEditing>>

\* onDelete.
DeleteChat(c) ==
  /\ RowOffered(c)
  /\ IF c = slChat THEN RemoveOpen
     ELSE Asks(Req("delete", c, "")) /\ UNCHANGED slEditing

\* onClear of the conversation settings, whether or not the chat is listed.
ClearChat == RemoveOpen

\* The buttons of the conversation settings, while no import is read or sent.
PaneOffered == Kind({"import", "imported"}) = {}

\* onImportFile; the id of the new chat is the server's.
ImportFile ==
  /\ PaneOffered
  /\ Asks(Req("import", "none", "")) /\ UNCHANGED slEditing

-----------------------------------------------------------------------------
(* The server, and its answers *)

Changed(c, row) == slRows' = IF slRows[c] = NoRow THEN slRows ELSE [slRows EXCEPT ![c] = row]

\* Mutant: the answer to a rename fetches nothing.
MutantDone(r) == IF r.kind \in {"auto", "rename"} THEN {} ELSE {[r EXCEPT !.kind = "done"]}
\* The answers the page acts on: a mutation's fetches the list, a PATCH of
\* auto-approve is sent by hand and its answer ignored.
Done(r) == IF r.kind = "auto" THEN {} ELSE {[r EXCEPT !.kind = "done"]}

\* update_session and delete_session.
UpdateArrives(r) ==
  /\ r \in Kind({"auto", "pin", "rename", "delete"})
  /\ CASE r.kind = "auto" -> Changed(r.chat, [slRows[r.chat] EXCEPT !.auto = (r.value = "on")])
       [] r.kind = "pin" -> Changed(r.chat, [slRows[r.chat] EXCEPT !.pinned = (r.value = "on")])
       [] r.kind = "rename" -> Changed(r.chat, [slRows[r.chat] EXCEPT !.title = r.value])
       [] r.kind = "delete" -> slRows' = [slRows EXCEPT ![r.chat] = NoRow]
  /\ slNet' = (slNet \ {r}) \cup Done(r)
  /\ UNCHANGED <<slPage, slDefault, slCache, slFetch, slEditing, slClicks, slFetches, slRefused>>

\* The request fails and changes nothing; the list is not fetched again, but after
\* a delete, which answers ok whatever happened.
UpdateFails(r) ==
  /\ r \in Kind({"auto", "pin", "rename", "delete", "import", "post"})
  /\ slNet' \in {slNet \ {r}} \cup {(slNet \ {q}) \cup Done(q) : q \in {r} \cap Kind({"delete"})}
  /\ UNCHANGED <<slPage, slDefault, slRows, slCache, slFetch, slEditing, slClicks, slFetches,
                 slRefused>>

\* create_run, as far as record_session goes.
RunArrives(r) ==
  /\ r \in Kind({"post"})
  /\ slRows' = [slRows EXCEPT ![r.chat] =
       IF @ = NoRow THEN Row(r.value = "on") ELSE [@ EXCEPT !.auto = (r.value = "on")]]
  /\ slNet' = slNet \ {r}
  /\ UNCHANGED <<slPage, slDefault, slCache, slFetch, slEditing, slClicks, slFetches, slRefused>>

ImportArrives(r) ==
  /\ r \in Kind({"import"})
  /\ \E c \in Chats \ slUsed :
       /\ slRows' = [slRows EXCEPT ![c] = Row(FALSE)]
       /\ slUsed' = slUsed \cup {c}
       /\ slNet' = (slNet \ {r}) \cup {[r EXCEPT !.kind = "imported", !.chat = c]}
  /\ UNCHANGED <<slChat, slAuto, slGranted, slUnseen, slRunning, slDefault, slCache, slFetch,
                 slEditing, slClicks, slFetches, slRefused>>

\* An answer does not come, or a fetch of the list fails.
AnswerLost(r) ==
  /\ r \in Kind({"done", "imported", "list"})
  /\ slNet' = slNet \ {r}
  /\ slFetch' = IF r.kind = "list" /\ r.n = slFetch THEN 0 ELSE slFetch
  /\ slUnseen' = TRUE
  /\ UNCHANGED <<slChat, slUsed, slAuto, slDefault, slRows, slCache, slRunning, slEditing,
                 slClicks, slFetches, slGranted, slRefused>>

\* onSuccess of a mutation.
MutationDone(r) ==
  /\ r \in Kind({"done"})
  /\ Invalidate(slNet \ {r})
  /\ UNCHANGED <<slPage, slDefault, slRows, slCache, slEditing, slClicks, slRefused>>

\* The imported chat is selected; the teardown's fetch is the import's.
ImportDone(r) ==
  /\ r \in Kind({"imported"})
  /\ Invalidate(slNet \ {r})
  /\ slChat' = r.chat /\ slRunning' = FALSE
  /\ slAuto' = Hydrate(r.chat, slCache, slDefault)
  /\ slGranted' = Granted(r.chat, slCache, slDefault)
  /\ slUnseen' = (slUnseen \/ Posting)
  /\ UNCHANGED <<slUsed, slDefault, slRows, slCache, slEditing, slClicks, slRefused>>

\* list_sessions; it answers an empty list when the database fails.
ListArrives(r) ==
  /\ r \in Kind({"list"})
  /\ \E failed \in BOOLEAN :
       /\ slNet' = (slNet \ {r}) \cup {GotList(r.n, IF failed THEN NoRows ELSE slRows)}
       /\ slUnseen' = (slUnseen \/ failed)
  /\ UNCHANGED <<slChat, slUsed, slAuto, slDefault, slRows, slCache, slFetch, slRunning,
                 slEditing, slClicks, slFetches, slGranted, slRefused>>

\* A new list sets the switch of the open chat from its row again.  One that is
\* equal in what is modelled may be equal altogether, and then nothing happens.
GotListArrives(r) ==
  /\ r \in Kind({"listed"})
  /\ slNet' = slNet \ {r}
  /\ IF r.n = slFetch
     THEN /\ slCache' = r.list /\ slFetch' = 0
          /\ \/ /\ slAuto' = Hydrate(slChat, r.list, slDefault)
                /\ slGranted' = Granted(slChat, r.list, slDefault)
             \/ r.list = slCache /\ UNCHANGED <<slAuto, slGranted>>
     ELSE UNCHANGED <<slCache, slFetch, slAuto, slGranted>>
  /\ UNCHANGED <<slChat, slUsed, slDefault, slRows, slRunning, slEditing, slClicks, slFetches,
                 slRefused, slUnseen>>

NextSessionList ==
  \/ ToggleAuto \/ ToggleDefault \/ OpenNewChat \/ SendRun \/ RunEnded
  \/ TypeTitle \/ CommitTitle \/ DropTitle \/ ClearChat \/ ImportFile
  \/ \E c \in Chats : SelectChat(c) \/ TogglePin(c) \/ StartEdit(c) \/ DeleteChat(c)
  \/ \E r \in slNet : UpdateArrives(r) \/ UpdateFails(r) \/ RunArrives(r) \/ ImportArrives(r)
                      \/ AnswerLost(r) \/ MutationDone(r) \/ ImportDone(r) \/ ListArrives(r)
                      \/ GotListArrives(r)

SpecSessionList == InitSessionList /\ [][NextSessionList]_slVars

-----------------------------------------------------------------------------
(* Properties *)

\* Auto-approve of one chat never reaches another: the page approves by itself
\* only in a chat where the user switched it on, or that had no row while the
\* account's default was on (PrefsSync.tsx:53-60, store/chat.ts:207-218).
NoBorrowedApproval == slAuto => slChat \in slGranted

\* When no request is under way and no run, the list shows which chats there
\* are, their titles and pins as the server holds them, however renames, pins,
\* deletions, imports, runs and the fetches after them overtook each other.
\* Excepted is a chat left before its run reached the server: the list is
\* fetched when the chat is left and not when the row is made.  So is an answer
\* that was lost, after which the list is not fetched, and a list the server could
\* not read.
ListAgrees ==
  slNet = {} /\ ~ slRunning /\ ~ slUnseen =>
    \A c \in Chats : [slCache[c] EXCEPT !.auto = FALSE] = [slRows[c] EXCEPT !.auto = FALSE]

\* "Persist on the active session so reopening the chat remembers it"
\* (store/chat.ts:184): once auto-approve was switched off in a chat, the next
\* run there is not sent with it, until it is switched on again.  Does not
\* hold: a list asked for before the switch, or a change of the default, sets the
\* open chat back to what the cached row says.
RefusalRemembered == [][SendRun => ~ (slAuto /\ slChat \in slRefused)]_slVars
=============================================================================
