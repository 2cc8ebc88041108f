CONSTANTS
  Threads = {t1, t2}
  First = t1
  Stored = 1
  MaxTurns = 4
  MaxActs = 3
SPECIFICATION Spec
INVARIANT EditsReachTheThread

CHECK_DEADLOCK FALSE
