CONSTANTS
  Users = {u1, u2}
  Conns = {c1, c2, c3}
  Disconnects = {d1, d2}
  None = None
  Scrapers = {s1}
  Goroutines = {w1, w2}
  Streams = {g1, g2}
SPECIFICATION MCSpec
INVARIANTS
  ActiveIsLeased
  LeaseIsKept
PROPERTIES
  ReplacedEnds
  EveryScrapeEnds
CHECK_DEADLOCK FALSE
