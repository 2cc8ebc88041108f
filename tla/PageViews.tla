------------------------------- MODULE PageViews -------------------------------
(***************************************************************************)
(* The views of the page: a behaviour takes place in one of them, and the  *)
(* state of the others stays initial.  They share no state but what each   *)
(* models of the server, so that running two of them together would show   *)
(* nothing more.                                                           *)
(***************************************************************************)
EXTENDS Preferences, SessionList, SignIn, MemoryFiles, SkillFiles, Transcript, Rendering

CONSTANT Views  \* the views of a run

VARIABLE view  \* the one in use

InitPage ==
  /\ view \in Views
  /\ InitPreferences /\ InitSessionList /\ InitSignIn /\ InitMemory /\ InitSkills
  /\ InitTranscript /\ InitRendering
  \* A view that is not in use is in one of its initial states.
  /\ view # "transcript" => ~ trAuto /\ ~ trStream
  /\ view # "render" => rdUse = "text"

InSettings ==
  view = "settings" /\ NextPreferences
  /\ UNCHANGED <<view, slVars, acVars, mmVars, skVars, trVars, rdVars>>
InSessions ==
  view = "sessions" /\ NextSessionList
  /\ UNCHANGED <<view, uiVars, acVars, mmVars, skVars, trVars, rdVars>>
InSignIn ==
  view = "signin" /\ NextSignIn
  /\ UNCHANGED <<view, uiVars, slVars, mmVars, skVars, trVars, rdVars>>
InMemory ==
  view = "memory" /\ NextMemory
  /\ UNCHANGED <<view, uiVars, slVars, acVars, skVars, trVars, rdVars>>
InSkills ==
  view = "skills" /\ NextSkills
  /\ UNCHANGED <<view, uiVars, slVars, acVars, mmVars, trVars, rdVars>>
InTranscript ==
  view = "transcript" /\ NextTranscript
  /\ UNCHANGED <<view, uiVars, slVars, acVars, mmVars, skVars, rdVars>>
InRendering ==
  view = "render" /\ NextRendering
  /\ UNCHANGED <<view, uiVars, slVars, acVars, mmVars, skVars, trVars>>

NextPage ==
  \/ InSettings \/ InSessions \/ InSignIn \/ InMemory \/ InSkills
  \/ InTranscript \/ InRendering

pageVars == <<view, uiVars, slVars, acVars, mmVars, skVars, trVars, rdVars>>

SpecPage == InitPage /\ [][NextPage]_pageVars

-----------------------------------------------------------------------------
(* What the views promise together *)

\* Whatever an editor saves is what was typed for the document it is saved under, in
\* memory and in skills (FileEditor, SkillsPanel), and a preference chosen while no
\* other request runs is the one the server keeps (prefs.ts).
SavesItsOwn == SavesItsOwnText /\ SkillKeepsItsText /\ CalmWritesStored

\* Whatever a view shows when nothing is under way is what the server holds:
\* preferences, conversations, files; and a name is called taken, a file saved, only
\* when it is (PrefsSync, sidebar, AuthPage, MemoryPanel, SkillsPanel).
ShownIsTrue == ChoiceShown /\ ListAgrees /\ PanelTellsTruth /\ CleanMeansSaved /\ TakenIsTrue

\* What the page computes from an answer loses and invents nothing (diff.ts, media.ts,
\* tool-uis.tsx).
RenderedWhole == DiffIsMinimal /\ LinesKept /\ ResultShownOnce
=============================================================================
