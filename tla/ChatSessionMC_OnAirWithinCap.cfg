CONSTANTS
  None = None
  GrantTemplates <- MCTemplates
  GrantIds = {1}
  MaxClock = 2
  MaxLag = 1
  DOUBLE_CTRLC_WINDOW_S = 1
  MaxQueued = 1
  Commands <- MCKeyfobOnly
  auto_approve_medium = FALSE
  MAX_TX_SECONDS = 2
  MAX_CAPTURE_SECONDS = 90
  MaxOverhead = 1
  MaxTurns = 2
  max_commands_per_turn = 2
SPECIFICATION Spec
INVARIANT OnAirWithinCap
