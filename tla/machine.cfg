SPECIFICATION FairMachineSpec
CONSTANTS
  SeekTargets <- Cylinders0And2And150
  CommandBytes <- ProgramCommands
  ParameterBytes <- ProgramParameters
  Bytes <- ProgramBytes
  DORBytes = {16}
  Garbage = {0}
  Loadable = {0}
  Cylinders = 3
  StepClocks = 1
  ReadIDClocks = 1
  MaxSteps = 3
INVARIANTS
  OutputsWhatItLoaded
  AnswerIsOfSeek
PROPERTIES
  ImplementsHost
  ImplementsService
  ProgramComesToRest
CHECK_DEADLOCK FALSE
