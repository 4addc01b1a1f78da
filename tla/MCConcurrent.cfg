SPECIFICATION FairSpec
CONSTANTS
  g1 = g1
  Guis = {g1, g2}
  Limit = 1
  PokedLevels = {0, 2}
  Clicks = {}
  MaxEvents = 3
  Widths = {2}
  Lines = {0, 4}
  MaxErrors = 1
  MaxWrites = 3
  NCores = 3
  Steps = 5
  Seconds = 10
  Boards <- FourBoards
  FastPage0 = FALSE
  MaxResets = 2
  MaxPulls = 2
  PocLines = 2
  Rounds = 1
  Timeout = 1
  MaxFull = 1
  MaxPosts = 2
  Space = 16
  Ram = {0, 1, 2, 3, 4, 5, 6, 7}
  PageSize = 4
  Audio = {8, 9, 10, 11}
  Blitter = {12, 13, 14, 15}
  BlitStart = 12
  BlitWait = TRUE
  Addresses = {0, 1, 3, 6, 7, 8, 9, 10, 11, 12, 13, 15, 17}
  Sizes = {1, 2, 4, 8, 16}
  Other = other
  MaxAccesses = 2
INVARIANTS
  TypesOK SoleWindowKeepsOthers InterruptsAreExact CopiesFollowTheBus PanelIsWhole BootIsOrdered
  ResetsAreHandled
PROPERTIES
  AcksAreHonest MixerSettles InterruptsAreServed AccessesAreWhole NoCoreIsHeldUp
CHECK_DEADLOCK FALSE
