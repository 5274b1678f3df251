SPECIFICATION Spec
CONSTANTS
  Clients = {c1}
  Conns = {d1, d2}
  MinConn = 1
  MaxConn = 2
  MaxIdle = 1
  MaxClock = 1
INVARIANT SleepsOnlyWhenFull
