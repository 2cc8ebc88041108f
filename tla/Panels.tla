--------------------------------- MODULE Panels ---------------------------------
(***************************************************************************)
(* The panels of servers, providers, models and workspace files, the       *)
(* composer and the media of answers on one page.  They share no state:    *)
(* what one of them does leaves the others as they were, so a behaviour    *)
(* uses one of them.                                                       *)
(***************************************************************************)
EXTENDS McpServers, ProviderSetup, ModelList, WorkspaceDock, Composer, MediaParts

CONSTANT PanelsUsed  \* the panels a behaviour may use

VARIABLE panel  \* the one in use

panelsVars == <<panel, mcVars, setupVars, mlVars, wdVars, cpVars, mdVars>>

InitPanels ==
  /\ panel \in PanelsUsed
  /\ InitMcp /\ InitSetup /\ InitModels /\ InitDock /\ InitComposer
  /\ InitMedia
  \* A panel that is not in use is in one of its initial states.
  /\ panel # "media" => mdView.kind = "blob"

InMcp ==
  panel = "mcp" /\ NextMcp
  /\ UNCHANGED <<panel, setupVars, mlVars, wdVars, cpVars, mdVars>>
InProviders ==
  panel = "providers" /\ NextSetup
  /\ UNCHANGED <<panel, mcVars, mlVars, wdVars, cpVars, mdVars>>
InModels ==
  panel = "models" /\ NextModels
  /\ UNCHANGED <<panel, mcVars, setupVars, wdVars, cpVars, mdVars>>
InDock ==
  panel = "dock" /\ NextDock
  /\ UNCHANGED <<panel, mcVars, setupVars, mlVars, cpVars, mdVars>>
InComposer ==
  panel = "composer" /\ NextComposer
  /\ UNCHANGED <<panel, mcVars, setupVars, mlVars, wdVars, mdVars>>
InMedia ==
  panel = "media" /\ NextMedia
  /\ UNCHANGED <<panel, mcVars, setupVars, mlVars, wdVars, cpVars>>

NextPanels ==
  \/ InMcp \/ InProviders \/ InModels \/ InDock \/ InComposer
  \/ InMedia

SpecPanels == InitPanels /\ [][NextPanels]_panelsVars

-----------------------------------------------------------------------------
(* What the panels promise together *)

\* A model is added with the provider its list was fetched from, and a workspace file
\* is saved with what was typed for it, in its own thread (ProvidersPanel, WorkspaceDock).
PanelsSaveTheirOwn == DockSavesItsOwn /\ AddedAsFetched

\* Whatever a panel shows belongs to the thing it shows: the file of the dock, the model
\* that is being tested, the effort of the run, the usage of the thread (WorkspaceDock,
\* ProvidersPanel, ModelPicker, turn-info.tsx).
PanelsShowTrue == DockShowsDisk /\ TestingIsAwaited /\ EffortAsShown /\ BadgeOfThread
=============================================================================
