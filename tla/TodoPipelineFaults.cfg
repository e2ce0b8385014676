CONSTANTS
  u1 = u1  u2 = u2  g1 = g1  g2 = g2  t1 = t1  t2 = t2
  Users = {u1, u2}
  Groups = {g1}
  Todos = {t1}
  Handlers = {h1}
  Engines = {e1, e2}
  Sinks = {s1, s2}
  Requests <- AllRequests
  NoRow = NoRow
  MaxCommands = 2
  MaxFaults = 1
  MaxForeign = 1
SPECIFICATION Spec
SYMMETRY Symmetry
INVARIANTS
  TypeOK
  NoLostCommand
  NoLostEvent
  AppliedIsProjected
  RowHasOrigin
  OffsetIsLastApplied
PROPERTIES
  DeletedStaysDeleted
CHECK_DEADLOCK FALSE
