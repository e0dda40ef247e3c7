CONSTANTS
  Controller = {c1, c2}
  Client = {k1}
  Group = {g1, g2}
  NoGroup = NoGroup
  Nobody = Nobody
  NShards = 1
  MaxNum = 1
  MaxWrites = 1
  MaxLate = 1
SPECIFICATION LiveSpec
PROPERTIES CallsReturn ControllersReturn
CHECK_DEADLOCK FALSE
