SPECIFICATION FairSpec
CONSTANTS
  Clients = {c1, c2, c3}
  Conns = {d1, d2, d3, d4}
  MinConn = 1
  MaxConn = 4
  MaxIdle = 1
  MaxClock = 2
INVARIANTS Inv OneOwner WithinBounds
PROPERTIES EmptyIsRefilled
