SPECIFICATION FairSpec
CONSTANTS
  Configs = {c1, c2}
  None = None
  Word = 9
  WifiInterval = 5
  WsInterval = 3
  JoinTime = 3
  MaxStep = 2
INVARIANTS
  SendsToConfiguredHost
PROPERTIES
  GetsConnected
