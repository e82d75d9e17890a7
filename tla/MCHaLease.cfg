SPECIFICATION Spec
CONSTANTS
  None = None
  Node = {m1, m2}
  Voter = {v1, v2, v3}
  Lease = {3}
  Margin <- MarginOfOne
  LegacyVoter = {}
  LegacyLease = 3
  EvalEvery = 1
  RequestLife = 1
  GrantLife = 1
  ConfigArmed = {TRUE}
  FirstLeader = m1
  MaxTerm = 2
  MaxInFlight = 1
SYMMETRY VotersSymmetric
INVARIANTS
  AtMostOneLeader
  OfficeRestsOnLiveLeases
  

  
