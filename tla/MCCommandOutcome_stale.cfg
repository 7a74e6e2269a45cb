SPECIFICATION Spec
CONSTANTS
  Commands = {c1, c2}
  Values = {on, off}
  None = None
  MaxPresses = 1
  MaxFetches = 1
  MaxRestarts = 1
PROPERTIES
  ConfirmedSubsequently
CHECK_DEADLOCK FALSE
