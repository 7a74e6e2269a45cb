SPECIFICATION EntitiesSpec
CONSTANTS
  None = None
  Generations = {1, 2, 3}
  MaxCount = 2
  Cases <- MCCases
  Lower <- MCLower
  Upper <- MCUpper
  Asked <- MCAsked
  RunStates = {"initial", "running", "end"}
  Length = 12
  Horizon = 12
  Calls = {c1, c2}
  ClimateRequests <- MCRequests
  Modes = {"cool", "heat", "auto"}
  Alone = "c"
  AllRequests <- MCAllRequests
  AllModes = {"cool", "heat", "auto", "energy_saving", "fan"}
  Temps = {1, 2}
  Limits <- MCLimits
  MaxReports = 2
  MaxChanges = 1
  Kinds = {"fan", "hood", "humidifier", "heater", "boiler", "vacuum"}
  Speeds = {"low", "mid", "high", "auto"}
  FanPresets = {"auto"}
  Percents = {0, 1, 20, 33, 50, 67, 100}
  Levels <- MCLevels
  Errors = {"door_open_error", "need_water_drain"}
  Messages = {"washing_is_complete", "drying_failed"}
  Alarming = {"door_open_error", "drying_failed"}
  MaxEventTime = 3
  MaxErrors = 3
  OvenStates = {"preheating", "cooking_in_progress", "done"}
  DayLength = 3
  Retention = 1
  MaxDay = 0
  MaxObserved = 1
SYMMETRY Symmetry
INVARIANTS
  EntitiesTypeOK
  ProfileKept
  ControlsHaveSetters
  ShownTruth
  SpeedRoundTrip
  GivenIsCounted
  NothingLeft
  CountsKept
PROPERTIES
  MomentTells
  AskedIsReached
  AskedIsDone
  FiredWasSaid
  DurationsWatched
CHECK_DEADLOCK FALSE
