SPECIFICATION Spec
CONSTANTS
  Freq = 13
  Rate = 5
  Latency = 4
  MaxLag = 7
  MaxCapture = 3
  Width = 7
  MaxNow = 40
  Half = 2
  Sizes = {1, 2}
  Wide = {2}
  Values = {1, 2}
  Crossing = FALSE
  Swaps = {0, 1, 2, 3}
  Addresses = {a1, a2}
  Nowhere = nowhere
  Sets = {{a1, a2, a3}}
  NWays = 2
  Units = {w1, w2}
  Versions = {old, new}
  MaxEpoch = 1
  Radix = 4
  Free = {0, 1, 2, 3}
  Clocks <- ClockRates
  Rates <- SampleRates
  MaxN = 14
  MaxM = 9
  Instructions <- Known
  Content <- MemoryBytes
  RegisterFiles <- XValues
  FloatFiles <- VValues
  a1 = a1
  a2 = a2
  a3 = a3
  u1 = u1
  u2 = u2
  u3 = u3
  only = only
  idle = idle
INVARIANTS
  TypesOK MemoryIsWhole DrivesAreExchanged RomIsInstalled RatioIsNearest
PROPERTIES
  ClockIsExact TranslationsAreCurrent ActsLikeTheCpu
SYMMETRY Symmetry
CHECK_DEADLOCK FALSE
