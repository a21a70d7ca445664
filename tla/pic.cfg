SPECIFICATION Spec
CONSTANTS
  Bytes0 <- Commands0
  Bytes1 <- Commands1
  Sources <- ThreeLines
INVARIANTS
  TypeOK
  InitializedIsConfigured
PROPERTIES
  NoPriorityInversion
  RetiresOne
CHECK_DEADLOCK FALSE
