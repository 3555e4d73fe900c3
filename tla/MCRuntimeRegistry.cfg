SPECIFICATION FairSpec
CONSTANTS
  Sockets = {s1, s2}
  Clients = {c1, c2}
  Experiences = {dflt, other}
  DefaultExperience = dflt
  None = None
  StaleAfter = 1
  CheckEvery = 2
INVARIANTS
  SelectionMatchesRegistry
  RegisteredSocketIsListed
  OpenSocketsUpToDate
PROPERTIES
  SilentSelectionEnds
  SoleDefaultIsSelected
  ImplementsLaunchSelection
