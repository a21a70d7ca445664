SPECIFICATION ServiceSpec
CONSTANTS
  Bytes0 <- Commands0
  Bytes1 <- Commands1
  Sources <- TwoLines
  Vectors <- Software
  MaxFrames = 3
  MaxLost = 1
INVARIANTS
  FullyNested
CHECK_DEADLOCK FALSE
