SPECIFICATION Spec
CONSTANTS
  Unit = 10
  ExtremeResume = 9
  ExtremeStep = 9
  RestPitch = 0
  RestRoll <- MCRestRoll
  Tolerance = 0
  StableFor = 4
  MaxFrameGap = 1
  StaleAfter = 1
  CheckEvery = 1
  Frames <- MCFrames
  Scenarios <- MCScenarios
  None = None
INVARIANTS
  NeutralWithoutFrames
  LiveIsFresh
  ButtonIsCurrent
PROPERTIES
  FrameStepsAreCalm
  CalibrationLevels
  SettingsSurvive
