SPECIFICATION MCFairSpec
CONSTANTS
  Cap = 5
  PacketBytes = 2
  TierBytes = 1
  HotMax = 1
  SegRecords = 2
  DiskFactor = 1
  Threads = {1, 2}
  Nodes <- MCNodes
  Children <- MCChildren
  Proved <- MCProved
  Level <- MCLevel
  Target = 3
  Settings <- MCSettings
  MaxLevels = 3
  MaxBatch = 2
  BlockRecords = 1
  PrefetchLow = 2
  Retries = 1
  ReliefMax = 2
  Stocks <- MCAudStocks
  AudLists = 2
  DupThreads = 2
  OriginThreads = 2
  MaxLevel = 3
  MaxLength = 4
  MaxInserts = 2
  InsertLevels = {1, 2}
  Creations = {TRUE, FALSE}
  Backups <- MCBackups
  ImpSettings <- MCImpSettings
  OldStock <- MCOld
  MaxWorkers = 2
  Depth = 1
  NbLists = 2
  ImpTarget = 2
  ImpCap = 8
  ListCost = 3
  u1 = u1
  u2 = u2
  Ring = 2
  Unpacker = {u1, u2}
  Inputs <- MCInputs
  Recs <- MCRecs
  NbFiles = 2
  FramesPer = 2
  MaxSeq = 3
  Budgets <- MCBudgets
  Lists <- MCLists
  Races = {}
INVARIANTS EachBoardOnce LevelByLevel OriginsRight SortRemembered
  ImportRight MemoryBounded InputRight DiskTrue
PROPERTIES SnapshotStays RefusedWhenFull CommandsEnd
CHECK_DEADLOCK FALSE
