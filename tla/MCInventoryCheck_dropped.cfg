SPECIFICATION FairSpec
CONSTANTS
  Inventories = {i1, i2}
  Tasks = {t1, t2, t3, t4}
  None = None
  MaxChanges = 3
  MaxRequests = 3
PROPERTIES
  FinalChangeNotDropped
CHECK_DEADLOCK FALSE
