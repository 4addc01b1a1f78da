CONSTANTS
  NumChans = 2
  Limit = 2
  Half = 4
  FullLen = 2
  PageSize = 2
  Window = 2
  SweepEvery = 1
  Highs = {}
  Lows = {}
  Lens = {1}
  MaxSteps = 1
  Ramp = 1
  Wrap = 1
  MaxEvictions = 1
SPECIFICATION Spec
PROPERTIES FramesAreTransactions
