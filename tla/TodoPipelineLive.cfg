CONSTANTS
  u1 = u1  u2 = u2  g1 = g1  g2 = g2  t1 = t1  t2 = t2
  Users = {u1}
  Groups = {g1}
  Todos = {t1}
  Handlers = {h1}
  Engines = {e1, e2}
  Sinks = {s1}
  Requests <- MixedRequests
  NoRow = NoRow
  MaxCommands = 2
  MaxFaults = 1
  MaxForeign = 1
SPECIFICATION FairSpec
PROPERTIES
  EveryCommandApplied
  QueuesDrain
CHECK_DEADLOCK FALSE
