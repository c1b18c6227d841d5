CONSTANTS
  None = None
  GrantTemplates <- MCTemplates
  GrantIds = {1}
  MaxClock = 0
  MaxLag = 1
  DOUBLE_CTRLC_WINDOW_S = 1
  MaxQueued = 1
  Commands <- MCCommands
  auto_approve_medium = TRUE
  MAX_TX_SECONDS = 3
  MAX_CAPTURE_SECONDS = 90
  MaxOverhead = 1
  MaxTurns = 1
  max_tool_calls_per_turn = 2
  max_commands_per_turn = 6
  MCUnknown = MCUnknown
  UnknownAction = MCUnknown
  Plans <- MCPlans
  MAX_STEPS = 3
SPECIFICATION FairSequenceSpec
INVARIANTS ResultsAreTrue
PROPERTIES NoBatchingBypass SequenceConcludes
