CONSTANTS
  None = None
  RATE_LIMIT_WINDOW_S = 2
  RATE_LIMIT_MAX_REQUESTS = 2
  max_history_messages = 4
  max_tool_calls_per_turn = 2
  MaxTurns = 3
SPECIFICATION FairSpec
INVARIANTS RequestIsPairSafe TurnIsBounded WithinRateLimit
PROPERTIES OneSleepIsEnough TurnConcludes
