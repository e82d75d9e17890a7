SPECIFICATION SumSpec
CONSTANTS
  Job = {j1, j2, j3}  Server = {"s", "t"}  Lock = {"site"}  Kinds <- SiteJobs  SubKinds <- NoKinds
  ParentsWait = TRUE  MaxPerServer = 2  Grace = TRUE  MaxOrders = 1  Saving = TRUE
  None = None
  a1 = a1  a2 = a2  g1 = g1  g2 = g2  k1 = k1  k2 = k2  b1 = b1  b2 = b2
  j1 = j1  j2 = j2  j3 = j3  j4 = j4
  Parts = {"queue", "monitor", "alerts", "traffic", "usage", "events", "update", "software", "timing"}
SYMMETRY JobsAlike
CHECK_DEADLOCK FALSE
INVARIANTS
   EachEventOnce  DurationsFit
PROPERTIES
   JobsAreSound
