SPECIFICATION OperatorFairSpec
CONSTANTS
  Scripts = {p1}
  Sockets = {d1}
  None = None
  StderrIsFinal = FALSE
  Runs = {pairingTool}
INVARIANTS
  ReportsAreTrue
PROPERTIES
  RunsEnd
  ConsoleCatchesUp
  WorkflowEnds
