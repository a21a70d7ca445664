SPECIFICATION Spec
CONSTANTS
  Bytes = {4, 1}
  DORBytes = {16}
  Garbage = {0}
  Loadable = {0}
  Cylinders = 3
  StepClocks = 1
  ReadIDClocks = 1
  MaxSteps = 2
PROPERTIES
  SensesNamedDrive
CHECK_DEADLOCK FALSE
