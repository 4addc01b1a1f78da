SPECIFICATION FairSpec
CONSTANTS
  Cells = {vol, dat}
  Words = {{vol}, {dat}}
  Restorable = {vol}
  Capacity = 3
  Batch = 1
  MaxWrites = 4
PROPERTIES
  NeverSilentForEver
  MirrorCatchesUp
