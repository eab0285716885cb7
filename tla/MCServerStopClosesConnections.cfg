CONSTANTS
  Conns = {c1, c2, c3}
  MaxConns = 2
  MinIdle = 1
SPECIFICATION SafeSpec
INVARIANT StopClosesConnections
