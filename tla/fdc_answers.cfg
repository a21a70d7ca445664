SPECIFICATION Spec
CONSTANTS
  Bytes <- AnswerBytes
  DORBytes <- TwoDrives
  Garbage = {0}
  Loadable = {0, 1}
  Cylinders = 2
  StepClocks = 1
  ReadIDClocks = 1
  MaxSteps = 1
INVARIANTS
  ReadFindsAnswer
  StatusTellsPhase
  OneDriveSelected
PROPERTIES
  AnswerIsDelivered
CHECK_DEADLOCK FALSE
