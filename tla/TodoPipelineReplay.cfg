CONSTANTS
  u1 = u1  u2 = u2  g1 = g1  g2 = g2  t1 = t1  t2 = t2
  Users = {u1}
  Groups = {g1}
  Todos = {t1}
  Handlers = {h1}
  Engines = {e1}
  Sinks = {s1}
  Requests <- MemberRequests
  NoRow = NoRow
  MaxCommands = 3
  MaxFaults = 1
  MaxForeign = 0
SPECIFICATION Spec
SYMMETRY Symmetry
INVARIANTS
  LastUpdateWins
CHECK_DEADLOCK FALSE
