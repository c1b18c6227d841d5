CONSTANTS
  BatchWords = 4
  Pages <- MCPages
  Frames <- MCFrames
  Latitudes <- MCLatitudes
  Longitudes <- MCLongitudes
  Comments <- MCComments
  Squitters <- MCSquitters
  MaxPages = 3
  MaxFrames = 2
  MaxSquitters = 3
  MaxDamagedWords = 1
  MaxBursts = 1
  Flips <- MCFlips
  Bursts = {1}
  SquitterBursts = {1, 2, 24}
  Silences = {120, 2600}
  MaxSamplesHit = 800
  HitBits <- MCHitBits
  max_frames = 2
SPECIFICATION Spec
INVARIANTS PagesArrive FramesArrive SquittersArrive NothingIsForged
CHECK_DEADLOCK FALSE
