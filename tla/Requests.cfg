CONSTANTS
  Clients = {c1, c2}
  Handlers = {h1, h2}
  Limit = 2
  Window = 2
  MaxClients = 1
  MaxLag = 2
  MaxClock = 7
  NoWindow = NoWindow
  Users = {u1, u2}
  Groups = {g1, g2}
  NoUser = NoUser
  Requests = {r1}
  Todos = {t1}
  NoTodo = NoTodo
  MaxPublished = 1
SPECIFICATION MCSpec
SYMMETRY Symmetry
INVARIANTS
  EvictionIsInvisible
  BurstIsBounded
  ChangesWereAllowed
  ReadersWereMembers
  ButtonsWork
