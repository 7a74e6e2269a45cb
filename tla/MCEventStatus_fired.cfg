SPECIFICATION Spec
CONSTANTS
  None = None
  Errors = {"door_open_error", "need_water_drain"}
  Messages = {"washing_is_complete", "drying_failed"}
  Alarming = {"door_open_error", "drying_failed"}
  Horizon = 3
  MaxErrors = 3
PROPERTIES
  ErrorFiredWhenTold
CHECK_DEADLOCK FALSE
