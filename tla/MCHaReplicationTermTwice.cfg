\* Any node may stand for election, and a term may be led twice.
CONSTANTS
  None = None
  Small = {}
  Node = {n1, n2, n3}
  Voter = {v1, v2, v3}
  First = n1
  MayStand = {n1, n2, n3}
  TermsLedOnce = FALSE
  MaxTerm = 2
  MaxWrites = 1
SPECIFICATION Spec
SYMMETRY VotersAlike
CHECK_DEADLOCK FALSE
INVARIANT SyncedMeansEqual
