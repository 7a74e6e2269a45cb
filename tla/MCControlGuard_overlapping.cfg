SPECIFICATION FairSpec
CONSTANTS
  Commands = {c1, c2}
  None = None
  Empty = Empty
  Gap = 2
INVARIANTS
  DecisionRecent
PROPERTIES
  PostsSpaced
  SentOnlyIfAllowed
  PermissionNotShared
  CallsEnd
