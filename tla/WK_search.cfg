SPECIFICATION MCFairSpec
CONSTANTS
  Size = 3
  MaxFace = 2
  Faces <- MCFaces
  ForwardK = 3
  Roots <- MCRoots
  Options <- MCOptions
  MaxStock = 2
  Hungers = {0, 3}
  WeightMax = 3
  WdegShift = 2
  MaxChecks = 2
  ChunkOf <- MCChunkOf
  Participant = {console, control, checker}
  Blocker = {console, control}
  Typist = {console}
  Lock = {output, orch}
  LogLock = output
  MaxQuiesce = 2
INVARIANTS EngineStateExact PruningSound SharedWorkIsDisjoint QuietWindow InheritsOnlyFromTypist
PROPERTIES ImplementsExploration ThreadsProceed
CHECK_DEADLOCK FALSE
