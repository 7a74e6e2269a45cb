SPECIFICATION LinkSpec
CONSTANTS
  None = None
  Keys <- StateKeys
  States <- LaundryStates
  DayLength = 2
  Retention = 1
  MaxDay = 1
  MaxCount = 2
  Requests = {r1, r2, r3, r4}
  RetryAfters <- Headers
  DefaultCooldown = 1
  MaxCooldown = 3
  LastSecond = 5
  Pahos = {p1, p2, p3}
  NoClient = NoClient
  AllowOverlap = FALSE
  MaxDrops = 2
  MaxRefreshes = 2
  Locations = {main, mini}
  Fields = {run, remote}
  Missing = Missing
  Empty = Empty
  MaxChanges = 2
  MaxGets = 3
INVARIANTS
  TypeOK
  AccrualExact
  BoundedHistory
  CooldownBounded
  OneSession
  ConnectionShown
  TornDown
  DeviceCurrent
  CacheCurrent
PROPERTIES
  CompletionFollowsActive
  NoDurationBridges
  ClosedByAnswer
  Breaks
  WokenBySubscription
  ViewsAgree
CHECK_DEADLOCK FALSE
