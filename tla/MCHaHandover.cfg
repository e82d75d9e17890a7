\* Two calls, one after the other, and two standbys.
CONSTANTS
  None = None
  Request = {r1, r2}
  Standby = {s1, s2}
  OneAtATime = TRUE
  MaxChanges = 2
SPECIFICATION FairSpec
CHECK_DEADLOCK FALSE
 
PROPERTY FreezeEnds
