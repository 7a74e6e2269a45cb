SPECIFICATION FairSpec
CONSTANTS
  Inventories = {i1, i2}
  Tasks = {t1, t2, t3, t4}
  None = None
  MaxChanges = 3
  MaxRequests = 3
INVARIANTS
  ChecksOwned
  PendingServed
PROPERTIES
  ReloadSurvives
  Converges
CHECK_DEADLOCK FALSE
