\* Two HTTP/1 connections and one HTTP/2 connection, two of which may be open.
CONSTANTS
  Conns = {c1, c2, c3}
  H2Conns = {c2}
  MaxConnections = 2
  MaxWorkers = 1
  SlotsPerWorker = 1
SPECIFICATION FairSpec
INVARIANTS DrainOrderly
PROPERTIES DrainSettles
