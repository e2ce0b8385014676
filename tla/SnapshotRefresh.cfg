CONSTANTS
  Conns = {c1, c2}
  Timers = {t1, t2}
  Runs = {r1, r2}
  None = None
  MaxEvents = 2
  Capacity = 2
  MaxLags = 1
SPECIFICATION FairSpec
INVARIANTS
  SnapshotIsOwed
  CurrentSnapshotWasSent
PROPERTIES
  BoardsCatchUp
CHECK_DEADLOCK FALSE
