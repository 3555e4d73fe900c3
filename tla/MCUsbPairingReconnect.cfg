SPECIFICATION Spec
CONSTANTS
  Scripts = {p1}
  Sockets = {d1}
  None = None
  StderrIsFinal = FALSE
INVARIANTS
  WaitingAcceptsFrames
