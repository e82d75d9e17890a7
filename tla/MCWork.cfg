SPECIFICATION SumSpec
CONSTANTS
  Server = {"a", "b"}  Placements <- OneOrTwo  Envs = {"env", "other"}  FirstEnv = "env"
  Keep = 1  MaxReleases = 3  MaxOps = 3  MaxFaults = 1
  None = None  START = START  END = END
  a1 = a1  a2 = a2  g1 = g1  g2 = g2  k1 = k1  k2 = k2
  Parts = {"website", "deploy", "host", "tests", "staging", "variables", "copies"}
CHECK_DEADLOCK FALSE
INVARIANTS
  KeptForRollback HostObeys
PROPERTIES
   DeploysArrive 
   
