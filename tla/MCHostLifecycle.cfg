SPECIFICATION FairSpec
CONSTANTS
  Null = Null
  p1 = p1
  p2 = p2
  Processes = {p1, p2}
  Controllers = {m5}
  Browsers = {quest}
  HostPort = port5183
  DevicePort = port5184
  freePort = port49152
  Ports = {port5183, port5184, port49152}
  EphemeralPorts = {port49152}
  ForeignPorts = {port5184, port49152}
  ConfiguredTokens = {"configured"}
  Scenarios <- MCScenarios
INVARIANTS
  FailedStartsHoldNothing
  PairingSurvivesRestart
  HandedOutAddressIsOwn
PROPERTY
  StoppedHostEnds
