CONSTANTS
  Models = {m1}
  Tasks = {t1, t2}
  MaxRefreshes = 3
  MaxFaults = 1
SPECIFICATION Spec
INVARIANT RefreshStored
PROPERTIES RotationGuarded CallsEnd
