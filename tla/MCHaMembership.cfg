\* Four servers, two of them panel nodes, and one change at a time.
CONSTANTS
  None = None
  Server = {main, edge, s1, s2}
  Panel = {main, edge}
  Main = main
  Enabled0 = {main, edge, s1, s2}
  MinServers = 3
  OneAtATime = TRUE
  MaxTerm = 2
  MaxSeq = 1
SPECIFICATION Spec
CHECK_DEADLOCK FALSE
INVARIANT AtMostOneLeader
