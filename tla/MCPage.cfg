CONSTANTS
  Views = {"settings", "sessions", "signin", "memory", "skills", "transcript", "render"}
  Picked = {skin}
  Written = {order}
  MaxChoices = 3
  MaxFetches = 3
  MaxFaults = 1
  Chats = {a, b, c}
  FirstChat = a
  FirstAuto = TRUE
  MaxClicks = 2
  Accounts = {ann, bob}
  NewNames = {eve}
  MaxSubmits = 3
  MaxTyped = 3
  Files = {f, g}
  FirstFiles = {f}
  MaxMemoryTexts = 2
  MaxMemoryCalls = 1
  skillA = skillA
  skillB = skillB
  helper = helper
  Skills = {skillA, skillB}
  Helpers = {helper}
  FirstDocs <- FirstSkillDocs
  MaxSkillTexts = 2
  MaxSkillCalls = 1
  Calls = {c1, c2, c3}
  Gated = {c1, c2}
  Standalone = {c3}
  MaxParts = 4
  MaxAnswers = 2
  DiffLines = {l1, l2}
  MaxDiffLines = 4
  MaxTextLines = 3
SPECIFICATION SpecPage
SYMMETRY Alike
INVARIANTS
  SavesItsOwn  RenderedWhole NoBorrowedApproval NothingOfOthers
PROPERTIES ApprovalsInReach SegmentsSettle
CHECK_DEADLOCK FALSE
