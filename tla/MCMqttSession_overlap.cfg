SPECIFICATION SessionSpec
CONSTANTS
  Pahos = {p1, p2}
  NoClient = NoClient
  AllowOverlap = TRUE
  MaxDrops = 1
  MaxRefreshes = 1
INVARIANTS
  TornDown
CHECK_DEADLOCK FALSE
