CONSTANTS
  MaxSymbols = 9
  MaxGlitches = 2
  MaxPulses = 3
  Codes = {31, 27, 1}
  MaxTyped = 3
  MaxNoise = 3
  StopHalves = {2, 4}
SPECIFICATION Spec
INVARIANTS LevelCodesRead PulseCodesRead RttyCatchesUp
CHECK_DEADLOCK FALSE
