SPECIFICATION Spec
CONSTANTS
  Cells = {vol}
  Words = {{vol}}
  Restorable = {vol}
  Capacity = 4
  Batch = 1
  MaxWrites = 2
INVARIANTS
  RecoveryReconstructs
