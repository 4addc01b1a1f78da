SPECIFICATION Spec
CONSTANTS
  NumPages = 3
  PageSize = 1
  MaxWrites = 2
  ConcurrentWriter = FALSE
  Miss = Miss
  NoRead = NoRead
INVARIANTS
  SerialNeverDiscards
