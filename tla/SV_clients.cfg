SPECIFICATION MCFairSpec
CONSTANTS
  Poss <- Tree2Poss
  Leaf = {1, 2}
  Leaves <- Tree2Leaves
  Kids <- Tree2Kids
  Origin <- Tree2Origin
  Root = "r"
  Client = {w1, w2}
  Worker = {w1, w2}
  ClientOf <- OwnClient
  Slot = {s1, s2}
  None = None
  Faults = {"crash", "busy"}
  MaxFaults = 2
  Batch = 1
  MaxHandOut = 2
  c1 = c1
  c2 = c2
  m1 = m1
  m2 = m2
  CtlClient = {c1, c2}
  Machine = {m1, m2}
  Mode <- MCMode
  Label <- MCLabel
  CtlSettings <- MCSettings
  MaxSlot = 2
  QueueCap = 3
  MaxKnown = 1
  MaxSessions = 2
  MaxDosage = 1
  Forks = 2
  MaxLinks = 3
INVARIANTS LossExplained CommandsReachAddressee RegisterExact DesiredStateReached
PROPERTIES GoneIsReleased
CHECK_DEADLOCK FALSE
