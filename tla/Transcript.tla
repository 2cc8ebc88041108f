------------------------------ MODULE Transcript ------------------------------
(***************************************************************************)
(* One answer of the agent as the page shows it: its parts, the groups     *)
(* that adjacent tool calls are folded into, the card of each call, and    *)
(* the buttons of a call that waits for an approval, which are inside the  *)
(* card and so inside the group.  Groups and cards open by themselves when *)
(* an approval is asked; the user folds and unfolds them at any time.      *)
(*                                                                         *)
(* The server asks for the gated calls of a batch once it has announced    *)
(* the batch, and runs the batch when all are answered (RunDriver).        *)
(***************************************************************************)
EXTENDS Integers, Sequences

CONSTANTS
  Calls,       \* tool calls of a turn
  Gated,       \* the calls that need an approval
  Standalone,  \* the calls of STANDALONE_UI_TOOLS, which are not grouped
  MaxParts,    \* bound: parts of the answer
  MaxAnswers   \* bound: turns

ASSUME TranscriptBounds == /\ Gated \subseteq Calls /\ Standalone \subseteq Calls \ Gated
                           /\ MaxParts \in Nat \ {0} /\ MaxAnswers \in Nat \ {0}
\* The type of a part tells a call from the others.
ASSUME PartsAssumption == Calls \cap {"text", "reasoning", "media"} = {}

VARIABLES
  trTurn,     \* the answer: parts, batch of calls under way, those asked for and done
  trWaiting,  \* pending: the cards of this answer; one left from an answer before it
  trAuto,     \* autoApprove
  trStream,   \* the setting activityDisplay is "stream"
  trGroups,   \* the state of the groups, named by their first call
  trCards,    \* the state of the cards on the page
  trThink,    \* userOpen of the reasoning
  trCount

trVars == <<trTurn, trWaiting, trAuto, trStream, trGroups, trCards, trThink, trCount>>

NoAnswer == [live |-> FALSE, parts |-> <<>>, batch |-> {}, asked |-> {}, done |-> {}]
NothingWaits == [cards |-> {}, left |-> FALSE]
NoViews == [c \in {} |-> TRUE]

InitTranscript ==
  /\ trTurn = NoAnswer /\ trWaiting = NothingWaits
  /\ trAuto \in BOOLEAN /\ trStream \in BOOLEAN
  /\ trGroups = NoViews /\ trCards = NoViews /\ trThink = "auto" /\ trCount = 0

-----------------------------------------------------------------------------
(* What is shown of an answer *)

\* partsGroupBy.
Foldable(part) == part \in Calls \ Standalone

FirstCalls(parts) ==
  {parts[i] : i \in {k \in DOMAIN parts : /\ Foldable(parts[k])
                                          /\ k = 1 \/ ~ Foldable(parts[k - 1])}}
PlaceOf(parts, c) == CHOOSE i \in DOMAIN parts : parts[i] = c
GroupOf(parts, first) ==
  {j \in DOMAIN parts : \A k \in PlaceOf(parts, first) .. j : Foldable(parts[k])}
    \ (1 .. PlaceOf(parts, first) - 1)
Members(parts, first) == {parts[i] : i \in GroupOf(parts, first)}

\* The status of a group is its last part's; a call without a result is running.
Running(t, first) ==
  LET places == GroupOf(t.parts, first) IN
  t.parts[CHOOSE i \in places : \A j \in places : j <= i] \notin t.done

\* hasPending.
HasPending(w) == w.cards # {} \/ w.left
ForceOpen(t, w, first) == HasPending(w) /\ Running(t, first)

\* Mutant: the previous value is kept when it falls.
MutantRerender(view, now) ==
  IF now /\ ~ view.was THEN [open |-> TRUE, was |-> TRUE] ELSE view
\* A rise of the condition opens, its fall is only noted.
Rerender(view, now) ==
  IF now # view.was THEN [open |-> now \/ view.open, was |-> now] ELSE view

\* ApprovalAwareToolGroup; defaultOpen counts when it mounts.
GroupsShown(t, w, kept) ==
  [g \in FirstCalls(t.parts) |->
     LET now == ForceOpen(t, w, g) IN
     IF g \in kept THEN Rerender(trGroups[g], now) ELSE [open |-> trStream \/ now, was |-> now]]

\* The cards of a folded group are not mounted (ToolFallback, ToolShell).
CardsShown(t, w, groups, kept) ==
  [c \in UNION {Members(t.parts, g) : g \in {h \in DOMAIN groups : groups[h].open}} |->
     IF c \in kept THEN Rerender(trCards[c], c \in w.cards)
     ELSE [open |-> c \in w.cards, was |-> c \in w.cards]]

Render(t, w, groups, cards) ==
  /\ trTurn' = t /\ trWaiting' = w
  /\ trGroups' = GroupsShown(t, w, groups)
  /\ trCards' = CardsShown(t, w, trGroups', cards)

Shows(t, w) == Render(t, w, DOMAIN trGroups, DOMAIN trCards)

\* The buttons of a call are in its card, under its arguments.
InReach(c) == c \in DOMAIN trCards /\ trCards[c].open

-----------------------------------------------------------------------------
(* Events of the run *)

LastIs(kind) == trTurn.parts # <<>> /\ trTurn.parts[Len(trTurn.parts)] = kind
Room == Len(trTurn.parts) < MaxParts

\* runTurn adds an empty answer.  A teardown leaves the approvals on the page.
StartAnswer ==
  /\ ~ trTurn.live /\ trCount < MaxAnswers /\ trCount' = trCount + 1
  /\ trTurn' = [NoAnswer EXCEPT !.live = TRUE]
  /\ trThink' = "auto"
  /\ UNCHANGED <<trWaiting, trAuto, trStream, trGroups, trCards>>

\* appendText: between two batches the model speaks.
TextDelta ==
  /\ trTurn.live /\ trTurn.batch = {} /\ Room /\ ~ LastIs("text")
  /\ Shows([trTurn EXCEPT !.parts = Append(@, "text")], trWaiting)
  /\ UNCHANGED <<trAuto, trStream, trThink, trCount>>

\* appendReasoning: there is one part of it, before all others.  Whether the parts
\* that move keep their state is the library's.
ReasoningDelta ==
  /\ trTurn.live /\ trTurn.batch = {} /\ Room
  /\ \A i \in DOMAIN trTurn.parts : trTurn.parts[i] # "reasoning"
  /\ \E kept \in BOOLEAN :
       Render([trTurn EXCEPT !.parts = <<"reasoning">> \o @], trWaiting,
              IF kept THEN DOMAIN trGroups ELSE {}, IF kept THEN DOMAIN trCards ELSE {})
  /\ trThink' = "auto"
  /\ UNCHANGED <<trAuto, trStream, trCount>>

\* startTool: the calls of one message of the model are announced together.  A call
\* that writes a media file has the file shown after it from the start.
StartTool(c) ==
  /\ trTurn.live /\ Room
  /\ \A i \in DOMAIN trTurn.parts : trTurn.parts[i] # c
  /\ trTurn.batch \cap (trTurn.asked \cup trTurn.done) = {}
  /\ \E added \in {<<c>>, <<c, "media">>} :
       /\ Len(trTurn.parts) + Len(added) <= MaxParts
       /\ Shows([trTurn EXCEPT !.parts = @ \o added, !.batch = @ \cup {c}], trWaiting)
  /\ UNCHANGED <<trAuto, trStream, trThink, trCount>>

\* requestApproval: with auto-approve it is answered without a card.
RequestApproval(c) ==
  /\ trTurn.live /\ c \in (trTurn.batch \cap Gated) \ trTurn.asked
  /\ Shows([trTurn EXCEPT !.asked = @ \cup {c}],
           IF trAuto THEN trWaiting ELSE [trWaiting EXCEPT !.cards = @ \cup {c}])
  /\ UNCHANGED <<trAuto, trStream, trThink, trCount>>

\* convertMessage: the media a call returned is a part after it.
WithMedia(parts, c) ==
  SubSeq(parts, 1, PlaceOf(parts, c)) \o <<"media">>
    \o SubSeq(parts, PlaceOf(parts, c) + 1, Len(parts))

\* completeTool.
CompleteTool(c) ==
  /\ trTurn.live /\ c \in trTurn.batch \ trTurn.done
  /\ trTurn.batch \cap Gated \subseteq trTurn.asked
  /\ trTurn.asked \cap trWaiting.cards = {}
  /\ LET done == trTurn.done \cup {c}
         t == [trTurn EXCEPT !.done = done, !.batch = IF @ \subseteq done THEN {} ELSE @]
         w == [trWaiting EXCEPT !.cards = @ \ {c}]
     IN \/ Shows(t, w)
        \/ /\ Room
           /\ \E kept \in BOOLEAN :
                Render([t EXCEPT !.parts = WithMedia(@, c)], w,
                       IF kept THEN DOMAIN trGroups ELSE {}, IF kept THEN DOMAIN trCards ELSE {})
  /\ UNCHANGED <<trAuto, trStream, trThink, trCount>>

\* finish, at any time: the run ends or fails, or the user stops it.  Its cards stay.
EndAnswer ==
  /\ trTurn.live
  /\ trTurn' = NoAnswer
  /\ trWaiting' = [cards |-> {}, left |-> HasPending(trWaiting)]
  /\ trGroups' = NoViews /\ trCards' = NoViews
  /\ UNCHANGED <<trAuto, trStream, trThink, trCount>>

\* loadThread forgets what waits.
OtherThread ==
  /\ ~ trTurn.live
  /\ trWaiting' = NothingWaits
  /\ UNCHANGED <<trTurn, trAuto, trStream, trGroups, trCards, trThink, trCount>>

-----------------------------------------------------------------------------
(* The user *)

FoldGroup(g) ==
  /\ g \in DOMAIN trGroups
  /\ trGroups' = [trGroups EXCEPT ![g].open = ~ @]
  /\ trCards' = CardsShown(trTurn, trWaiting, trGroups', DOMAIN trCards)
  /\ UNCHANGED <<trTurn, trWaiting, trAuto, trStream, trThink, trCount>>

FoldCard(c) ==
  /\ c \in DOMAIN trCards
  /\ trCards' = [trCards EXCEPT ![c].open = ~ @]
  /\ UNCHANGED <<trTurn, trWaiting, trAuto, trStream, trGroups, trThink, trCount>>

\* ReasoningRoot streams while reasoning is all there is.
Thinking == IF trThink = "auto" THEN (IF LastIs("reasoning") THEN "open" ELSE "closed") ELSE trThink
FoldThinking ==
  /\ trTurn.parts # <<>> /\ trTurn.parts[1] = "reasoning"
  /\ trThink' = IF Thinking = "open" THEN "closed" ELSE "open"
  /\ UNCHANGED <<trTurn, trWaiting, trAuto, trStream, trGroups, trCards, trCount>>

\* JoyApprovalBar: allow once, deny.
Respond(c) ==
  /\ c \in trWaiting.cards /\ InReach(c)
  /\ Shows(trTurn, [trWaiting EXCEPT !.cards = @ \ {c}])
  /\ UNCHANGED <<trAuto, trStream, trThink, trCount>>

\* The buttons of an answer before this one, which did not end well.
RespondLeft ==
  /\ trWaiting.left
  /\ Shows(trTurn, [trWaiting EXCEPT !.left = FALSE])
  /\ UNCHANGED <<trAuto, trStream, trThink, trCount>>

\* The effect on autoApprove answers all that waits.
ApproveAll ==
  /\ trAuto' = TRUE
  /\ Shows(trTurn, NothingWaits)
  /\ UNCHANGED <<trStream, trThink, trCount>>

\* JoyApprovalBar: allow for the session.
AllowSession(c) == c \in trWaiting.cards /\ InReach(c) /\ ApproveAll

\* The switch of the composer.
SwitchAuto ==
  IF trAuto THEN /\ trAuto' = FALSE
                 /\ UNCHANGED <<trTurn, trWaiting, trStream, trGroups, trCards, trThink, trCount>>
  ELSE ApproveAll

NextTranscript ==
  \/ StartAnswer \/ TextDelta \/ ReasoningDelta \/ EndAnswer \/ OtherThread
  \/ \E c \in Calls : \/ StartTool(c) \/ RequestApproval(c) \/ CompleteTool(c)
                      \/ FoldGroup(c) \/ FoldCard(c) \/ Respond(c) \/ AllowSession(c)
  \/ FoldThinking \/ RespondLeft \/ SwitchAuto

SpecTranscript == InitTranscript /\ [][NextTranscript]_trVars

-----------------------------------------------------------------------------
(* Properties *)

\* The buttons were out of reach before, or their call is in a group that the user
\* keeps folded while another approval waits.
KeptAway(c) ==
  /\ ~ InReach(c) /\ HasPending(trWaiting)
  /\ \/ c \in trWaiting.cards
     \/ \E g \in DOMAIN trGroups : c \in Members(trTurn.parts, g) /\ ~ trGroups[g].open

\* An approval that is asked is in reach (thread.tsx, ApprovalAwareToolGroup: the
\* buttons "are visible without a manual expand"), and nothing the run does takes
\* it away: only the user folds it, and then keeps folded what is asked meanwhile.
ApprovalsInReach ==
  [][\A c \in trWaiting'.cards : InReach(c)' \/ KeptAway(c) \/ UNCHANGED <<trTurn, trWaiting>>]_trVars
=============================================================================
