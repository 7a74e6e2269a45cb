SPECIFICATION FairSpec
CONSTANTS
  Commands = {c1, c2}
  Values = {on, off}
  None = None
  MaxPresses = 1
  MaxFetches = 1
  MaxRestarts = 1
INVARIANTS
  OutcomePending
PROPERTIES
  EventsInOrder
  Settles
CHECK_DEADLOCK FALSE
