SPECIFICATION FeedSpec
CONSTANTS
  Board = {b1, b2}
  Batch = 2
  Unreliable = FALSE
  Regulated = FALSE
  Administered = FALSE
  MaxSignals = 1
INVARIANTS ResultBeforeAck
CHECK_DEADLOCK FALSE
