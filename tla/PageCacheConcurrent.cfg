SPECIFICATION Spec
CONSTANTS
  NumPages = 2
  PageSize = 2
  MaxWrites = 2
  ConcurrentWriter = TRUE
  Miss = Miss
  NoRead = NoRead
INVARIANTS
  TypeOK
  RequestRingBounded
  RequestsMatchStates
  ReadyAccounting
  ReadyIsFresh
PROPERTIES
  ReadsAreRegular
