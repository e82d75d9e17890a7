\* Three panel nodes, of which one may stand for election, and three voters.
CONSTANTS
  None = None
  Small = {"config.json"}
  Node = {n1, n2, n3}
  Voter = {v1, v2, v3}
  First = n1
  MayStand = {n2}
  TermsLedOnce = TRUE
  MaxTerm = 2
  MaxWrites = 1
SPECIFICATION Spec
SYMMETRY VotersAlike
CHECK_DEADLOCK FALSE
INVARIANTS SyncedMeansEqual WhatAllVotersKnowSurvives
PROPERTY NeverRollsBack
