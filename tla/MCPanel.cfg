SPECIFICATION SumSpec
CONSTANTS
  Job = {k1, k2, j1}  Server = {"s", "t"}  Lock = {"site"}  Kinds <- Contended  SubKinds <- SameSite
  ParentsWait = TRUE  MaxPerServer = 2  Grace = FALSE  MaxOrders = 1  Saving = FALSE
  None = None
  a1 = a1  a2 = a2  g1 = g1  g2 = g2  k1 = k1  k2 = k2  b1 = b1  b2 = b2
  j1 = j1  j2 = j2  j3 = j3  j4 = j4
  Parts = {"queue", "sign-in", "front door", "tunnels", "connectors", "databases", "database server", "phpMyAdmin", "panel nodes", "archives"}
SYMMETRY Alike
CHECK_DEADLOCK FALSE
INVARIANTS
  DatabasesAreSpared PanelNodesStay
PROPERTIES
  JobsAreSound SignInIsSafe FrontDoorIsInStep  ReplicasAreSound
  FailedLeavesAsItWas 
