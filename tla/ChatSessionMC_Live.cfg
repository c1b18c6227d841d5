CONSTANTS
  None = None
  GrantTemplates <- MCTemplates
  GrantIds = {}
  MaxClock = 1
  MaxLag = 1
  DOUBLE_CTRLC_WINDOW_S = 1
  MaxQueued = 2
  Commands <- MCMixedCommands
  auto_approve_medium = TRUE
  MAX_TX_SECONDS = None
  MAX_CAPTURE_SECONDS = 90
  MaxOverhead = 1
  MaxTurns = 2
  max_commands_per_turn = 2
SPECIFICATION FairSpec
INVARIANT SessionBudgetsHold
PROPERTIES KilledTurnIsSilent CommandConcludes TransmitPromise
