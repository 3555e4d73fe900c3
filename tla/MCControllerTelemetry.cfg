SPECIFICATION TelemetrySpec
CONSTANTS
  Word = 12
  OrientationInterval = 2
  HeartbeatInterval = 5
  MirrorInterval = 4
  Quiet = 3
  MaxStep = 3
  AgeCap = 9
INVARIANTS
  FramesKeepComing
  QuietAfterCommand
PROPERTIES
  EdgesMatchChanges
