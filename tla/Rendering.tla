------------------------------ MODULE Rendering ------------------------------
(***************************************************************************)
(* What the page makes of data it is given, as functions of that data: the *)
(* line diff of an edit, the text of an answer with its MEDIA lines lifted *)
(* out while it streams, and the card of a tool call, in which the view of *)
(* the tool or the generic renderer shows the result.  The inputs grow by  *)
(* steps; one of the three is used in a behaviour.                         *)
(*                                                                         *)
(* A line is known by what the code tells apart: equal or not in a diff,   *)
(* blank, text, the first letters of a marker or a marker in an answer.    *)
(***************************************************************************)
EXTENDS Integers, Sequences, FiniteSets

LOCAL INSTANCE SequencesExt

CONSTANTS
  DiffLines,     \* lines of the texts compared
  MaxDiffLines,  \* bound: lines of each text
  MaxTextLines   \* bound: lines of an answer

ASSUME RenderingBounds == MaxDiffLines \in Nat /\ MaxTextLines \in Nat

VARIABLES
  rdUse,   \* what is rendered
  rdOld, rdNew,
  rdText,
  rdCall

rdVars == <<rdUse, rdOld, rdNew, rdText, rdCall>>

NoCall == [tool |-> "none", result |-> "none"]

InitRendering ==
  /\ rdUse \in {"diff", "text", "call"}
  /\ rdOld = <<>> /\ rdNew = <<>> /\ rdText = <<>> /\ rdCall = NoCall

-----------------------------------------------------------------------------
(* computeLineDiff *)

\* dp[i, j] is the length of a longest common subsequence of a from i and b from j.
Common(a, b) ==
  LET dp[i \in 1 .. Len(a) + 1, j \in 1 .. Len(b) + 1] ==
        IF i > Len(a) \/ j > Len(b) THEN 0
        ELSE IF a[i] = b[j] THEN dp[i + 1, j + 1] + 1
        ELSE LET del == dp[i + 1, j]
                 add == dp[i, j + 1] IN IF del > add THEN del ELSE add
  IN dp

\* Mutant: of two lines that differ the old one always goes first.
MutantOldGoes(dp, i, j) == TRUE
OldGoes(dp, i, j) == dp[i + 1, j] >= dp[i, j + 1]

Context(i, j) == [type |-> "ctx", oldNo |-> i, newNo |-> j]
Deleted(i) == [type |-> "del", oldNo |-> i, newNo |-> 0]
Added(j) == [type |-> "add", oldNo |-> 0, newNo |-> j]

LineDiff(a, b) ==
  LET dp == Common(a, b)
      rows[i \in 1 .. Len(a) + 1, j \in 1 .. Len(b) + 1] ==
        IF i > Len(a) THEN [k \in 1 .. Len(b) - j + 1 |-> Added(j + k - 1)]
        ELSE IF j > Len(b) THEN [k \in 1 .. Len(a) - i + 1 |-> Deleted(i + k - 1)]
        ELSE IF a[i] = b[j] THEN <<Context(i, j)>> \o rows[i + 1, j + 1]
        ELSE IF OldGoes(dp, i, j) THEN <<Deleted(i)>> \o rows[i + 1, j]
        ELSE <<Added(j)>> \o rows[i, j + 1]
  IN rows[1, 1]

\* diffStats.
Stats(rows) ==
  [added |-> Cardinality({k \in DOMAIN rows : rows[k].type = "add"}),
   removed |-> Cardinality({k \in DOMAIN rows : rows[k].type = "del"})]

-----------------------------------------------------------------------------
(* splitMediaMarkers *)

Marks == {"marker", "longer marker"}  \* as a marker streams in, its path grows
Mentions == Marks \cup {"mention"}    \* lines with "MEDIA:" in them
LineKinds == {"blank", "text", "start of marker"} \cup Mentions

\* What a line may become while it is the last one of the text that streams.
Growth == [l \in LineKinds |->
             CASE l = "blank" -> {"text", "start of marker"}
               [] l = "start of marker" -> {"marker", "text"}
               [] l = "marker" -> {"longer marker"}
               [] l = "text" -> {"mention"}
               [] OTHER -> {}]

TextSegment(lines) == [kind |-> "text", lines |-> lines]
MediaSegment(line) == [kind |-> "media", lines |-> <<line>>]

IsBlank(lines) == \A i \in DOMAIN lines : lines[i] = "blank"
Flushed(acc) == IF IsBlank(acc.buf) THEN acc.segs ELSE Append(acc.segs, TextSegment(acc.buf))

\* Mutant: the text so far stays in the buffer.
MutantOnLine(acc, line) ==
  IF line \in Marks THEN [segs |-> Append(Flushed(acc), MediaSegment(line)), buf |-> acc.buf]
  ELSE [acc EXCEPT !.buf = Append(@, line)]
OnLine(acc, line) ==
  IF line \in Marks THEN [segs |-> Append(Flushed(acc), MediaSegment(line)), buf |-> <<>>]
  ELSE [acc EXCEPT !.buf = Append(@, line)]

Segments(lines) ==
  IF \A i \in DOMAIN lines : lines[i] \notin Mentions
  THEN IF lines \in {<<>>, <<"blank">>} THEN <<>> ELSE <<TextSegment(lines)>>
  ELSE Flushed(FoldLeft(OnLine, [segs |-> <<>>, buf |-> <<>>], lines))

-----------------------------------------------------------------------------
(* The card of a tool call *)

\* Results as the run reports them, which are text; "none" while the call runs.
Results == {"empty", "text", "list", "no files", "no matches", "json"}

\* resultToText is not "".
HasText(result) == result \notin {"none", "empty"}

\* parsePyList is not null: the text starts with "[", or says that there are none.
IsList(result) == result \in {"list", "no files"}

\* TOOL_UIS.
Inline == {"render_ui", "render_html"}
Tools == Inline \cup {"write_todos", "task", "fetch_content", "execute", "write_file",
                      "edit_file", "read_file", "ls", "glob", "grep", "other"}

\* The views that show the result: as a terminal, a listing, a text, a page, a list.
TerminalShows(call) == call.tool = "execute" /\ HasText(call.result)
ListingShows(call) == call.tool = "read_file" /\ HasText(call.result)
ReportShows(call) == call.tool = "task" /\ HasText(call.result)
PageShows(call) == call.tool = "fetch_content" /\ HasText(call.result)
EntriesShow(call) == call.tool \in {"ls", "glob"} /\ IsList(call.result)
MatchesShow(call) == call.tool = "grep" /\ call.result # "none"

BodyShows(call) ==
  \/ TerminalShows(call) \/ ListingShows(call) \/ ReportShows(call)
  \/ PageShows(call) \/ EntriesShow(call) \/ MatchesShow(call)

\* Mutant: what is not a list is hidden as well.
MutantHidesResult(call) == call.tool \in {"ls", "glob"} \/ BodyShows(call)
\* The todos are in the arguments.
ShowsArguments(call) == call.tool = "write_todos"
\* hideResult; no card, no result, for what is rendered inline.
HidesResult(call) ==
  \/ call.tool \in {"execute"} \cup Inline
  \/ ShowsArguments(call) \/ BodyShows(call)

\* ToolFallbackResult.
CardShows(call) == call.result # "none" /\ ~ HidesResult(call)

-----------------------------------------------------------------------------
(* The inputs *)

AddOldLine(l) ==
  /\ rdUse = "diff" /\ rdOld' = Append(rdOld, l) /\ Len(rdOld) < MaxDiffLines
  /\ UNCHANGED <<rdUse, rdNew, rdText, rdCall>>
AddNewLine(l) ==
  /\ rdUse = "diff" /\ rdNew' = Append(rdNew, l) /\ Len(rdNew) < MaxDiffLines
  /\ UNCHANGED <<rdUse, rdOld, rdText, rdCall>>

\* A delta of the text ends its last line, or is more of it.
StreamLine ==
  /\ rdUse = "text" /\ Len(rdText) < MaxTextLines
  /\ rdText' = Append(rdText, "blank")
  /\ UNCHANGED <<rdUse, rdOld, rdNew, rdCall>>
StreamWord ==
  /\ rdUse = "text" /\ rdText # <<>>
  /\ \E l \in Growth[rdText[Len(rdText)]] : rdText' = [rdText EXCEPT ![Len(rdText)] = l]
  /\ UNCHANGED <<rdUse, rdOld, rdNew, rdCall>>

ShowCall(tool) ==
  /\ rdUse = "call" /\ rdCall = NoCall
  /\ rdCall' = [rdCall EXCEPT !.tool = tool]
  /\ UNCHANGED <<rdUse, rdOld, rdNew, rdText>>
ShowResult(result) ==
  /\ rdCall.tool # "none" /\ rdCall.result = "none"
  /\ rdCall' = [rdCall EXCEPT !.result = result]
  /\ UNCHANGED <<rdUse, rdOld, rdNew, rdText>>

NextRendering ==
  \/ \E l \in DiffLines : AddOldLine(l) \/ AddNewLine(l)
  \/ StreamLine \/ StreamWord
  \/ \E tool \in Tools : ShowCall(tool)
  \/ \E result \in Results : ShowResult(result)

-----------------------------------------------------------------------------
(* Properties *)

NumbersOf(rows, side) == SelectSeq([k \in DOMAIN rows |-> rows[k][side]], LAMBDA n : n # 0)
UpTo(n) == [k \in 1 .. n |-> k]
\* The lines of a text that an increasing set of places names.
LinesAt(text, places) ==
  LET order == SetToSortSeq(places, <) IN [k \in DOMAIN order |-> text[order[k]]]

\* The diff shows each line of both texts once and in order, under its number, calls
\* unchanged only what is equal, and no choice of unchanged lines is larger (diff.ts:
\* "a minimal edit script is produced").
DiffIsMinimal ==
  LET rows == LineDiff(rdOld, rdNew)
      kept == {k \in DOMAIN rows : rows[k].type = "ctx"}
  IN /\ NumbersOf(rows, "oldNo") = UpTo(Len(rdOld))
     /\ NumbersOf(rows, "newNo") = UpTo(Len(rdNew))
     /\ \A k \in kept : rdOld[rows[k].oldNo] = rdNew[rows[k].newNo]
     /\ \A S \in SUBSET DOMAIN rdOld, T \in SUBSET DOMAIN rdNew :
          LinesAt(rdOld, S) = LinesAt(rdNew, T) => Cardinality(S) <= Cardinality(kept)
     /\ Stats(rows).removed = Len(rdOld) - Cardinality(kept)
     /\ Stats(rows).added = Len(rdNew) - Cardinality(kept)

\* No line of an answer is lost or doubled by lifting the markers out of it but blank
\* ones, and a marker is never left in a text.
LinesKept ==
  LET segments == Segments(rdText)
      shown == FoldLeft(LAMBDA acc, s : acc \o s.lines, <<>>, segments)
      Said(lines) == SelectSeq(lines, LAMBDA l : l # "blank")
  IN /\ Said(shown) = Said(rdText)
     /\ \A i \in DOMAIN segments :
          segments[i].kind = "text" => \A j \in DOMAIN segments[i].lines : segments[i].lines[j] \notin Marks

\* As an answer streams only its last segment changes: a view already shown before it
\* stays that of the same file (convertMessage splits the whole text anew each time).
SegmentsSettle ==
  [][LET now == Segments(rdText)
         next == Segments(rdText')
     IN \A i \in 1 .. Len(now) - 1 : i \in DOMAIN next /\ next[i] = now[i]]_rdVars

\* The result of a call that ended is shown, and shown once: a view hides the generic
\* one only for what it renders itself (tool-uis.tsx).  Todos show their arguments.
ResultShownOnce ==
  HasText(rdCall.result) /\ rdCall.tool \notin Inline \cup {"write_todos"} =>
    BodyShows(rdCall) # CardShows(rdCall)
=============================================================================
