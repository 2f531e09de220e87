SPECIFICATION Spec
CONSTANTS
  N = 1
  AutoStart = TRUE
  OrchRegulated = FALSE
  MaxCommands = 2
INVARIANTS NoForkOutsideRunning
CHECK_DEADLOCK FALSE
