CONSTANTS
  NumChans = 1
  Limit = 4
  Half = 4
  FullLen = 2
  PageSize = 2
  Window = 2
  SweepEvery = 2
  Highs = {}
  Lows = {0, 2}
  Lens = {1}
  MaxSteps = 1
  Ramp = 2
  Wrap = 1
  MaxEvictions = 1
SPECIFICATION FairSpec
PROPERTY OutputComesBack
