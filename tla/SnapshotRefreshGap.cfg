CONSTANTS
  Conns = {c1}
  Timers = {t1, t2}
  Runs = {r1, r2}
  None = None
  MaxEvents = 1
  Capacity = 3
  MaxLags = 0
SPECIFICATION Spec
INVARIANTS
  SettledBoardIsCurrent
CHECK_DEADLOCK FALSE
