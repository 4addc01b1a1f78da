CONSTANTS
  NumChans = 1
  Limit = 4
  Half = 4
  FullLen = 2
  PageSize = 2
  Window = 4
  SweepEvery = 2
  Highs = {0}
  Lows = {0, 2}
  Lens = {0, 1}
  MaxSteps = 2
  Ramp = 1
  Wrap = 2
  MaxEvictions = 0
SPECIFICATION Spec
INVARIANT TypeOK
PROPERTIES FramesAreTransactions SweepsCoverTheWindow
