CONSTANTS
  Conns = {c1, c2}
  MaxConns = 1
  MinIdle = 0
SPECIFICATION Spec
INVARIANTS TypeOK PoolBound GaugeExact PooledIsWatched DisconnectAfterRemoval
PROPERTIES ClosedIsReported StopEnds ConnectionsLive PooledAreClosed
