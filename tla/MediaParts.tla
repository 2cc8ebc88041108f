------------------------------ MODULE MediaParts ------------------------------
(***************************************************************************)
(* A file the agent shows in its answer.  While its marker streams in, the *)
(* link grows ("report.doc", "report.docx") and the same view follows it.  *)
(* A link into the sandbox is not fetched before the workspace tree lists  *)
(* the file: the tree is a cached query, asked again after each tool, and  *)
(* what it answers may be older than what the tools wrote since.           *)
(*                                                                         *)
(* A link is the number of characters of it there are.  Inline data and    *)
(* the files without a view (FileChip) are never fetched.                  *)
(***************************************************************************)
EXTENDS Integers

CONSTANTS
  MaxGrowth,     \* bound: the links a marker grows through
  MaxTools,      \* bound: tools that run
  MaxMediaFaults \* bound: requests that fail

ASSUME MediaBounds == MaxGrowth \in Nat \ {0} /\ MaxTools \in Nat /\ MaxMediaFaults \in Nat

MediaLinks == 1 .. MaxGrowth
NoLink == 0

VARIABLES
  mdLink,    \* the link as it streamed in so far
  mdMounted, \* the thread of the answer is open
  mdGate,    \* capabilities: "unknown" while they load, sandbox "on" or "off"
  mdDisk,    \* the links whose file exists
  mdTool,    \* a tool is running
  mdTree,    \* the query of the tree
  mdTold,    \* a request for the tree followed the last change of the disk
  mdView,    \* the view of the link
  mdCounts

mdVars == <<mdLink, mdMounted, mdGate, mdDisk, mdTool, mdTree, mdTold, mdView, mdCounts>>

NoTree == [known |-> FALSE, listed |-> {}, ask |-> "no", seen |-> {}, stale |-> FALSE]

\* kind: the views of useMediaSrc, or OfficeView and TextFileView; failed: an error was
\* set since the last effect, ever: since the view is there.
FreshView(kind) == [kind |-> kind, state |-> "loading", src |-> NoLink, fetch |-> NoLink,
                 deps |-> <<NoLink, "pending">>, failed |-> FALSE, ever |-> FALSE]

InitMedia ==
  /\ mdLink = NoLink /\ mdMounted = TRUE /\ mdGate = "unknown"
  /\ mdDisk = {} /\ mdTool = FALSE /\ mdTree = NoTree /\ mdTold = TRUE
  /\ \E kind \in {"blob", "document"} : mdView = FreshView(kind)
  /\ mdCounts = [tools |-> 0, faults |-> 0]

-----------------------------------------------------------------------------
(* Readiness and the effect of a view *)

\* useMediaReady.
Ready(link, gate, tree) ==
  CASE gate = "off" -> "na"
    [] gate # "off" /\ link \in tree.listed -> "ready"
    [] gate # "off" /\ link \notin tree.listed ->
         IF tree.ask # "no" \/ ~ tree.known THEN "pending" ELSE "absent"

\* Mutant: the readiness is not among the dependencies.
MutantDeps(link, ready) == <<link, "pending">>
Deps(link, ready) == <<link, ready>>

\* useMediaSrc: each run of the effect forgets what there was.
Probe(view, link, ready) ==
  [view EXCEPT !.src = NoLink,
               !.state = IF ready = "absent" THEN "error" ELSE "loading",
               !.fetch = IF ready \in {"na", "ready"} THEN link ELSE NoLink,
               !.failed = FALSE]

\* OfficeView, TextFileView: neither the failure nor the text is taken back.
ProbeDocument(view, link, ready) ==
  [view EXCEPT !.state = IF ready = "absent" THEN "error" ELSE @,
               !.fetch = IF ready \in {"na", "ready"} THEN link ELSE NoLink,
               !.ever = @ \/ ready = "absent"]

\* The effect runs when its dependencies changed.  A fetch it replaces is cancelled.
Effect(view, link, ready) ==
  LET deps == Deps(link, ready)
      now == [view EXCEPT !.deps = deps]
  IN IF link = NoLink \/ deps = view.deps THEN view
     ELSE IF view.kind = "blob" THEN Probe(now, link, ready) ELSE ProbeDocument(now, link, ready)

Follow(link, gate, tree) ==
  /\ mdLink' = link /\ mdGate' = gate /\ mdTree' = tree
  /\ mdView' = IF mdMounted THEN Effect(mdView, link, Ready(link, gate, tree)) ELSE mdView

\* invalidateQueries: the tree is asked for again, now if a view uses it.  The first
\* request for it is not made anew, nor one that no view waits for: the query joins it.
Observed == mdMounted /\ mdLink # NoLink
AsksAnew(tree) == tree.ask = "no" \/ (Observed /\ tree.known)
Refreshed(tree) ==
  IF ~ AsksAnew(tree) THEN tree
  ELSE IF Observed THEN [tree EXCEPT !.ask = "asked", !.stale = FALSE]
  ELSE [tree EXCEPT !.stale = TRUE]

-----------------------------------------------------------------------------
(* The answer and its tools *)

\* The first characters of a marker, or more of them (splitMediaMarkers).
LinkGrows ==
  /\ mdMounted /\ mdLink < MaxGrowth
  /\ LET asks == mdLink = NoLink /\ (mdTree.stale \/ ~ mdTree.known) /\ mdTree.ask = "no" IN
     Follow(mdLink + 1, mdGate,
            IF asks THEN [mdTree EXCEPT !.ask = "asked", !.stale = FALSE] ELSE mdTree)
  /\ UNCHANGED <<mdMounted, mdDisk, mdTool, mdTold, mdCounts>>

StartWriter ==
  /\ ~ mdTool /\ mdCounts.tools < MaxTools
  /\ mdTool' = TRUE /\ mdCounts' = [mdCounts EXCEPT !.tools = @ + 1]
  /\ UNCHANGED <<mdLink, mdMounted, mdGate, mdDisk, mdTree, mdTold, mdView>>

\* write_file, or a command that writes or removes files.
ToolWrites(link) ==
  /\ mdTool
  /\ mdDisk' \in {mdDisk \cup {link}, mdDisk \ {link}}
  /\ UNCHANGED <<mdLink, mdMounted, mdGate, mdTool, mdTree, mdTold, mdView, mdCounts>>

\* completeTool.
ToolSeen ==
  /\ mdTool /\ mdTool' = FALSE /\ mdTold' = AsksAnew(mdTree)
  /\ Follow(mdLink, mdGate, Refreshed(mdTree))
  /\ UNCHANGED <<mdMounted, mdDisk, mdCounts>>

\* The page closed the stream before the tool ended.
ToolUnseen ==
  /\ mdTool /\ mdTool' = FALSE /\ mdTold' = FALSE
  /\ UNCHANGED <<mdLink, mdMounted, mdGate, mdDisk, mdTree, mdView, mdCounts>>

-----------------------------------------------------------------------------
(* Requests *)

CapabilitiesLoaded(gate) ==
  /\ mdGate = "unknown" /\ gate \in {"on", "off"}
  /\ Follow(mdLink, gate, mdTree)
  /\ UNCHANGED <<mdMounted, mdDisk, mdTool, mdTold, mdCounts>>

TreeRead ==
  /\ mdTree.ask = "asked"
  /\ Follow(mdLink, mdGate, [mdTree EXCEPT !.ask = "read", !.seen = mdDisk])
  /\ UNCHANGED <<mdMounted, mdDisk, mdTool, mdTold, mdCounts>>

TreeLoaded ==
  /\ mdTree.ask = "read"
  /\ Follow(mdLink, mdGate, [mdTree EXCEPT !.known = TRUE, !.listed = mdTree.seen, !.ask = "no"])
  /\ UNCHANGED <<mdMounted, mdDisk, mdTool, mdTold, mdCounts>>

Faulty == mdCounts.faults < MaxMediaFaults /\ mdCounts' = [mdCounts EXCEPT !.faults = @ + 1]

\* What was listed before stays.
TreeFails ==
  /\ mdTree.ask # "no" /\ Faulty /\ mdTold' = FALSE
  /\ Follow(mdLink, mdGate, [mdTree EXCEPT !.ask = "no"])
  /\ UNCHANGED <<mdMounted, mdDisk, mdTool>>

FileShown ==
  /\ mdView.fetch \in mdDisk
  /\ mdView' = [mdView EXCEPT !.src = mdView.fetch, !.fetch = NoLink,
                              !.state = IF mdView.ever THEN "error" ELSE "ok"]
  /\ UNCHANGED <<mdLink, mdMounted, mdGate, mdDisk, mdTool, mdTree, mdTold, mdCounts>>

\* There is no such file, or the request is lost.
FileFails ==
  /\ mdView.fetch # NoLink
  /\ \/ mdView.fetch \notin mdDisk /\ UNCHANGED mdCounts
     \/ Faulty
  /\ mdView' = [mdView EXCEPT !.fetch = NoLink, !.state = "error", !.failed = TRUE,
                              !.ever = mdView.kind = "document"]
  /\ UNCHANGED <<mdLink, mdMounted, mdGate, mdDisk, mdTool, mdTree, mdTold>>

-----------------------------------------------------------------------------
(* The thread *)

LeaveAnswer ==
  /\ mdMounted /\ mdMounted' = FALSE
  /\ mdView' = FreshView(mdView.kind)
  /\ UNCHANGED <<mdLink, mdGate, mdDisk, mdTool, mdTree, mdTold, mdCounts>>

\* The tree is asked for again if it is stale, or older than half a minute.
ReturnToAnswer ==
  /\ ~ mdMounted /\ mdMounted' = TRUE
  /\ \E old \in {TRUE, mdTree.stale \/ ~ mdTree.known} :
       LET asks == mdLink # NoLink /\ old /\ mdTree.ask = "no"
           tree == IF asks THEN [mdTree EXCEPT !.ask = "asked", !.stale = FALSE] ELSE mdTree
       IN /\ mdTree' = tree
          /\ mdView' = Effect(FreshView(mdView.kind), mdLink, Ready(mdLink, mdGate, tree))
  /\ UNCHANGED <<mdLink, mdGate, mdDisk, mdTool, mdTold, mdCounts>>

NextMedia ==
  \/ LinkGrows \/ StartWriter \/ ToolSeen \/ ToolUnseen
  \/ \E link \in MediaLinks : ToolWrites(link)
  \/ \E gate \in {"on", "off"} : CapabilitiesLoaded(gate)
  \/ TreeRead \/ TreeLoaded \/ TreeFails \/ FileShown \/ FileFails
  \/ LeaveAnswer \/ ReturnToAnswer

SpecMedia == InitMedia /\ [][NextMedia]_mdVars

-----------------------------------------------------------------------------
(* Properties *)

MediaAtRest == Observed /\ ~ mdTool /\ mdTree.ask = "no" /\ mdTree.known /\ mdView.fetch = NoLink

\* A preview comes "reactively once the file appears" (workspace.ts, useMediaReady):
\* when nothing is under way, a file that exists is shown, unless its fetch failed
\* after the tree listed it or the view keeps an older failure.  An image, a PDF, a
\* sound or a film shown is always that of the link as it now stands.
MediaShown ==
  /\ mdView.kind = "blob" => mdView.src \in {NoLink, mdLink}
  /\ MediaAtRest /\ mdTold /\ mdLink \in mdDisk /\ mdView.state # "ok" => mdView.failed \/ mdView.ever
=============================================================================
