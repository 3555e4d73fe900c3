SPECIFICATION Spec
CONSTANTS
  Scripts = {p1, p2}
  Sockets = {d1, d2}
  None = None
  StderrIsFinal = FALSE
SYMMETRY Symmetry
INVARIANTS
  BusyEndsSomehow
  ReadyIsConnected
PROPERTIES
  PairingIsKept
