CONSTANTS
  Threads = {t1, t2}
  First = t1
  Stored = 1
  MaxTurns = 4
  MaxActs = 3
SPECIFICATION Spec
INVARIANTS RunningIsActive PageShowsItsThread 
PROPERTY LoadsEnd
CHECK_DEADLOCK FALSE
