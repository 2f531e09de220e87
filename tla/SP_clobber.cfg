CONSTANTS
  Recs <- MCRecs
  NbFiles = 2
  FramesPer = 2
  MaxSeq = 3
  Budgets <- MCTwoSnapshots
  Lists <- MCLists
  Races = {"clobber"}
SPECIFICATION SegSpec
INVARIANT StockInOnePlace
CHECK_DEADLOCK FALSE
