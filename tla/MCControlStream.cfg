SPECIFICATION Spec
CONSTANTS
  Pages = {a, b}
  Console = Console
  a = a
  b = b
  Sockets <- MCSockets
  Scenarios <- MCScenarios
  StreamOf <- MCStreamOf
  Streams = {"main"}
  MaxControls = 2
  MaxInFlight = 2
CHECK_DEADLOCK FALSE
INVARIANTS
  ListenersAreCurrent
PROPERTY
  HeardInOrder
