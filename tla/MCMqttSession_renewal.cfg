SPECIFICATION SessionSpec
CONSTANTS
  Pahos = {p1, p2, p3}
  NoClient = NoClient
  AllowOverlap = FALSE
  MaxDrops = 0
  MaxRefreshes = 2
PROPERTIES
  RetriedAtNextRenewal
CHECK_DEADLOCK FALSE
