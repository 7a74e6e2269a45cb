SPECIFICATION Spec
CONSTANTS
  Commands = {c1, c2}
  None = None
  Empty = Empty
  Gap = 2
PROPERTIES
  StaleFlagNeverSent
