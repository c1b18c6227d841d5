CONSTANTS
  None = None
  GrantTemplates <- MCTemplates
  GrantIds = {}
  MaxClock = 0
  MaxLag = 1
  DOUBLE_CTRLC_WINDOW_S = 1
  MaxQueued = 1
  Commands <- MCMcpCommands
  auto_approve_medium = FALSE
  MAX_TX_SECONDS = 3
  MAX_CAPTURE_SECONDS = 90
  MaxOverhead = 0
  MaxCalls = 3
SPECIFICATION FairSpec
INVARIANTS LockGuardsFunnel
PROPERTIES HostSpec LockGuardsAir SignalSilences FirstInFirstOut CallsAreServed
