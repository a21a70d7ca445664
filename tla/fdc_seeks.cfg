SPECIFICATION Spec
CONSTANTS
  Bytes <- SeekBytes
  DORBytes <- OneDrive
  Garbage = {0}
  Loadable = {0}
  Cylinders = 4
  StepClocks = 0
  ReadIDClocks = 1
  MaxSteps = 1
INVARIANTS
  TypeOK
  Coherent
  BusyIsSeek
PROPERTIES
  InterruptIsSeekEnd
