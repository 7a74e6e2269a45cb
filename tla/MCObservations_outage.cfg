SPECIFICATION Spec
CONSTANTS
  None = None
  Keys <- StateKeys
  States <- LaundryStates
  DayLength = 2
  Retention = 1
  MaxDay = 1
  MaxCount = 2
INVARIANTS
  OutagesExcluded
CHECK_DEADLOCK FALSE
