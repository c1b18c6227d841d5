CONSTANTS
  None = None
  Loggers = {"chat"}
  Rotators = {"rotate"}
  keep_days = 1
  MaxEvents = 2
  MaxClock = 2
SPECIFICATION FairSpec
INVARIANTS TrailHasNoHoles StoppedMeansWritten TailIsLatest
PROPERTIES LoggedIsWritten StopEnds
CHECK_DEADLOCK FALSE
