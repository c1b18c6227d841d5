CONSTANTS
  MaxSymbols = 9
  MaxGlitches = 0
  MaxPulses = 0
  Codes = {31, 27, 1}
  MaxTyped = 3
  MaxNoise = 0
  StopHalves = {2, 3, 4}
SPECIFICATION Spec
INVARIANT AnyStopBitReads
CHECK_DEADLOCK FALSE
