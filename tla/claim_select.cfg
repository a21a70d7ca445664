SPECIFICATION Spec
CONSTANTS
  Bytes = {8}
  DORBytes = {16}
  Garbage = {0}
  Loadable = {0}
  Cylinders = 3
  StepClocks = 1
  ReadIDClocks = 1
  MaxSteps = 2
PROPERTIES
  NamedDriveIsSelected
CHECK_DEADLOCK FALSE
