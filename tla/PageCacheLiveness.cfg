SPECIFICATION FairSpec
CONSTANTS
  NumPages = 2
  PageSize = 1
  MaxWrites = 2
  ConcurrentWriter = TRUE
  Miss = Miss
  NoRead = NoRead
PROPERTIES
  RequestsAreAnswered
  CursorIsServed
