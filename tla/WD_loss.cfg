SPECIFICATION Spec
CONSTANTS
  Poss <- Tree2Poss
  Leaf = {1, 2}
  Leaves <- Tree2Leaves
  Kids <- Tree2Kids
  Origin <- Tree2Origin
  Root = "r"
  Client = {w1, w2}
  Worker = {w1, w2}
  ClientOf <- OwnClient
  Slot = {s1, s2}
  None = None
  Faults = {"idle", "loss", "refusal", "suspicion", "crash", "forkCrash", "unrecorded", "unreachable"}
  MaxFaults = 2
  Batch = 1
  MaxHandOut = 2
SYMMETRY Symmetry
INVARIANTS TypeOK LossExplained RootsAccounted LateAcksAccounted
CHECK_DEADLOCK FALSE
