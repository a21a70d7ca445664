SPECIFICATION FairSpec
CONSTANTS
  Word = 32
  CLOCK_PER_BLOCKS = 4
  BASE_CLOCK = 19
  FDC_CLOCK_MUL = 3
  FDCScale = 4
  FDCRate = 7
  TimeMul = 3
  TimeScale = 2
  Second = 28
  SlowestBlock = 8
  LatestWake = 1
INVARIANTS
  TypeOK
  NeverTooFast
  FDCInStep
PROPERTIES
  FDCKeepsRunning
CHECK_DEADLOCK FALSE
