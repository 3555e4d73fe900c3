SPECIFICATION Spec
CONSTANTS
  Configs = {c1, c2, badUrl, tooLong}
  Bad = {badUrl, tooLong}
  Long = {tooLong}
  None = None
  RebootAfterConfigure = TRUE
  Resets = TRUE
  Lossy = TRUE
  MaxSends = 3
  MaxInput = 3
  MaxOutput = 1
SYMMETRY Symmetry
INVARIANTS
  RunningIsSaved
  AcceptedIsUsable
