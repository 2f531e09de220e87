SPECIFICATION AudFairSpec
CONSTANTS
  Stocks <- MCAudStocks
  AudLists = 2
  DupThreads = 8
  OriginThreads = 2
  MaxLevel = 3
  MaxLength = 4
  MaxInserts = 2
  InsertLevels = {1, 2}
  Creations = {TRUE}
INVARIANTS DuplicatesFound
CHECK_DEADLOCK FALSE
