--------------------------------- MODULE MCPage ---------------------------------
(***************************************************************************)
(* The views of the page, each checked on its own instance.                *)
(***************************************************************************)
EXTENDS PageViews, TLC

CONSTANTS skillA, skillB, helper

FirstSkillDocs == {<<skillA, Manifest>>, <<skillA, helper>>, <<skillB, Manifest>>}

\* The gated calls, and the conversations opened later, are interchangeable.
Alike == Permutations(Gated) \cup Permutations(Chats \ {FirstChat})
=============================================================================
