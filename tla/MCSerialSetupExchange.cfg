SPECIFICATION FairSpec
CONSTANTS
  Configs = {c1, c2, badUrl, tooLong}
  Bad = {badUrl, tooLong}
  Long = {tooLong}
  None = None
  RebootAfterConfigure = FALSE
  Resets = FALSE
  Lossy = FALSE
  MaxSends = 3
  MaxInput = 4
  MaxOutput = 1
INVARIANTS
  AcceptedIsNotLost
PROPERTIES
  ScriptEnds
  AcceptedBecomesStored
