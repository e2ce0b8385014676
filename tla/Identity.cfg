CONSTANTS
  Users = {u1, u2, u3}
  Groups = {g1, g2}
  Handlers = {h1, h2}
  Tokens = {t1, t2, t3}
  NoUser = NoUser
  NoToken = NoToken
SPECIFICATION MCSpec
SYMMETRY Symmetry
INVARIANTS
  OnlyCreatorOwns
  PredecessorIsRevoked
PROPERTIES
  AdminsComeFromCreator
  GoneStaysGone
  ImplementsMemberships
CHECK_DEADLOCK FALSE
