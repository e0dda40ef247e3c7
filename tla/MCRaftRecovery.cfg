SPECIFICATION RecoveredSpec
CONSTANTS
  Server = {s1, s2, s3}
  Command = {c1, c2, c3}
  Nobody = Nobody
  MaxTerm = 4
  MaxInFlight = 1
  MaxRestarts = 1
  MaxRaftState <- Never
INVARIANTS ElectionSafety LeaderCompleteness ChosenDurable
PROPERTIES VoteIsFinal ImplementsReplicatedLog
CHECK_DEADLOCK FALSE
