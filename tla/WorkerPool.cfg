\* Two connections at a time for at most two workers, whose channels hold one connection or none.
SPECIFICATION MCSpec
CONSTANTS
  w1 = w1  w2 = w2
  c1 = c1  c2 = c2
  Workers = {w1, w2}
  Conns = {c1, c2}
  MaxWorkersCount = 2
  Cap = 1
  MaxIdle = 0
  MaxTime = 1
  NoWorker = NoWorker  NoConn = NoConn  Nil = Nil
INVARIANTS OneToken ConnOwned
PROPERTIES ConnServed StopEnds
