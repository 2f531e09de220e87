SPECIFICATION MCFairSpec
CONSTANTS
  NF = 2
  Board = {b1, b2}
  Root = {b1}
  Kinds = {"auto", "complete"}
  None = None
  MaxBackups = 1
  SortJobs <- MCSortJobs
  SortThreads = 2
  RefCap = 3
  SliceMin = 1
  SamplesPer = 2
  BlockRecs = 2
  RangesPer = 2
INVARIANTS StockTypeOK PublishedIsInstant InstantIsWhole SortRight SortLeavesNoTrace
PROPERTIES BackupEnds
