SPECIFICATION FairHostSpec
CONSTANTS
  CommandBytes <- CommandBytesOfAllKinds
  ParameterBytes <- SomeParameterBytes
  Bytes <- AllBytes
  DORBytes = {16}
  Garbage = {0}
  Loadable = {0}
  Cylinders = 3
  StepClocks = 1
  ReadIDClocks = 1
  MaxSteps = 3
INVARIANTS
  StatusReadStaysTrue
  SeekMarkIsRight
  HostInStep
  ReadDataIsFinal
PROPERTIES
  SeekEndIsTruthful
  RecalibrateFindsTrack0
  ImplementsProtocol
CHECK_DEADLOCK FALSE
