SPECIFICATION MCFairSpec
CONSTANTS
  Board = {b1, b2}
  Batch = 2
  Unreliable = TRUE
  Regulated = TRUE
  Administered = TRUE
  MaxSignals = 1
  N = 2
  AutoStart = TRUE
  OrchRegulated = TRUE
  MaxCommands = 3
INVARIANTS WorkerTypeOK ResultBeforeAckWhileRunning OneBatch
  NoForkWhileWaiting NoForkLost ParentOutlivesStop
PROPERTIES WaitsEnd
CHECK_DEADLOCK FALSE
