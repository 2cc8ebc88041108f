CONSTANTS
  Models = {m1, m2}
  Tasks = {t1}
  MaxRefreshes = 1
  MaxFaults = 0
SPECIFICATION Spec
PROPERTY NoDeadRefresh
