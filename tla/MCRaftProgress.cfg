SPECIFICATION RecoveredLiveSpec
CONSTANTS
  Server = {s1, s2, s3}
  Command = {c1, c2, c3}
  Nobody = Nobody
  MaxTerm = 3
  MaxInFlight = 1
  MaxRestarts = 0
  MaxRaftState = 2
PROPERTIES StableLeaderDelivers
CHECK_DEADLOCK FALSE
