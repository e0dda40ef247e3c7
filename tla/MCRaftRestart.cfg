SPECIFICATION Spec
CONSTANTS
  Server = {s1, s2}
  Command = {c1, c2}
  Nobody = Nobody
  MaxTerm = 2
  MaxInFlight = 1
  MaxRestarts = 1
  MaxRaftState = 1
INVARIANTS RestoredAfterRestart
CHECK_DEADLOCK FALSE
