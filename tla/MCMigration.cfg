CONSTANTS
  Controller = {c1, c2}
  Client = {k1}
  Group = {g1, g2}
  NoGroup = NoGroup
  Nobody = Nobody
  NShards = 1
  MaxNum = 2
  MaxWrites = 2
  MaxLate = 1
SYMMETRY Symmetry
SPECIFICATION OnceSpec
INVARIANTS TypeOK OneOwner Settled ErrorMeansPublished
PROPERTY ImplementsShardStore
CHECK_DEADLOCK FALSE
