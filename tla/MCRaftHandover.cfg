SPECIFICATION LedSpec
CONSTANTS
  Server = {s1, s2, s3}
  Command = {c1, c2, c3}
  Nobody = Nobody
  MaxTerm = 4
  MaxInFlight = 2
  MaxRestarts = 0
  MaxRaftState <- Never
INVARIANTS TypeOK NextIndexInBounds LogMatching CommittedAgree
PROPERTIES LeaderAppendOnly
CHECK_DEADLOCK FALSE
