SPECIFICATION Spec
CONSTANTS
  OutPorts <- AllPorts
  InPorts <- CounterPorts
  ControlWords <- SixControlWords
  Counts <- OneCount
  Leftovers <- TwoLeftovers
INVARIANTS
  PairsStayWhole
  PairOfOneValue
