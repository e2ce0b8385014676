CONSTANTS
  Clients = {c1, c2}
  Sinks = {s1, s2}
  NoRow = NoRow
  Limit = 2
  MaxEvents = 3
  MaxFaults = 1
  Conns = {x1, x2, x3}
  Streams = {z1, z2, z3}
  Subs = {n1, n2, n3, n4}
  None = None
  MaxFailures = 2
SPECIFICATION MCSpec
SYMMETRY Symmetry
INVARIANTS
  ReadYourWrites
  BoardMissesOnlyOpenEvents
  ServedHasFanout
  NoLostSubscription
  NothingLeftAtRest
