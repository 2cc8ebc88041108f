CONSTANTS
  Users = {"u1"}
  Confs = {low, high, off}
  Tasks = {t1, t2}
  Editors = {e1}
  AgentMax = 2
  BlobMax = 2
  MaxEdits = 1
SPECIFICATION Spec
SYMMETRY Alike
INVARIANT CachesOK
PROPERTIES QuietEditsTakeEffect HotAgentStays
CHECK_DEADLOCK FALSE
