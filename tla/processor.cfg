SPECIFICATION Spec
CONSTANTS
  Texts <- SmallTexts
  RAMs <- SmallRAMs
  Vectors = {6}
  MaxRequests = 2
  Drops = {0, 2}
INVARIANTS
  TypeOK
  Disciplined
  ProgramComputes
PROPERTIES
  ProgramHalts
  ImplementsCallStack
CHECK_DEADLOCK FALSE
