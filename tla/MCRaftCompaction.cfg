SPECIFICATION LedServiceSpec
CONSTANTS
  Server = {s1, s2, s3}
  Command = {c1, c2, c3}
  Nobody = Nobody
  MaxTerm = 4
  MaxInFlight = 1
  MaxRestarts = 0
  MaxRaftState = 1
INVARIANTS VotesGenuine StateMachineSafety SnapshotsFaithful NothingLostInDelivery
PROPERTIES NoRegress
CHECK_DEADLOCK FALSE
