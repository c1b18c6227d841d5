CONSTANTS
  None = None
  GrantTemplates <- MCTemplates
  GrantIds = {1, 2, 3}
  MaxClock = 4
  MaxLag = 1
SPECIFICATION TableSpec
INVARIANTS SweptMeansNothingActive
PROPERTIES NothingRevives
CHECK_DEADLOCK FALSE
