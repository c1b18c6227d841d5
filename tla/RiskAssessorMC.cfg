CONSTANTS
  None = None
  Freqs <- MCFreqs
  Gains <- MCGains
  Dwells <- MCDwells
  RangeLists <- MCRangeLists
  Grants <- MCGrants
  MaxClock = 2
SPECIFICATION Spec
INVARIANTS BulkIsNeverLaxer
PROPERTIES LouderIsNeverSafer LessAuthorityIsNeverSafer
