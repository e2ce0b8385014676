CONSTANTS
  u1 = u1  u2 = u2  g1 = g1  g2 = g2  t1 = t1  t2 = t2
  Users = {u1, u2}
  Groups = {g1, g2}
  Todos = {t1}
  Handlers = {h1, h2}
  Engines = {e1}
  Sinks = {s1, s2}
  Requests <- MemberRequests
  NoRow = NoRow
  MaxCommands = 3
  MaxFaults = 0
  MaxForeign = 0
SPECIFICATION Spec
SYMMETRY Symmetry
INVARIANTS
  ChangeIsPermitted
PROPERTIES
  ImplementsReadModel
CHECK_DEADLOCK FALSE
