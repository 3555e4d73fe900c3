SPECIFICATION FairSpec
CONSTANTS
  Texts <- MCTexts
  Empty = ""
  Slugs = {"dflt", "city"}
  HttpsUrls = {"https"}
  Null = Null
  Pages = {a, b}
  Console = Console
  a = a
  b = b
  Sockets <- MCSockets
  MaxInFlight = 2
  Options <- MCOptions
  Scenarios <- MCScenarios
  DefaultExperience = "dflt"
  HeartbeatEvery = 1
  StaleAfter = 2
  CheckEvery = 1
INVARIANTS
  BeatingPagesAreOnline
  OnlyEarlyRestartsLeak
  ConsoleShowsLaunchTarget
  OthersLeave
PROPERTY
  ConnectedPagesRegister
