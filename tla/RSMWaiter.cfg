SPECIFICATION LiveSpec
CONSTANTS
  Caller = {c1, c2}
  Other = other
  ChannelSize = 1
  MaxTerm = 3
  MaxLog = 2
PROPERTY BlocksUntilApplied
CHECK_DEADLOCK FALSE
