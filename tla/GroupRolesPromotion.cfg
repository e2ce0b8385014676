CONSTANTS
  Users = {u1, u2, u3}
  Groups = {g1}
  Handlers = {h1}
  NoUser = NoUser
SPECIFICATION Spec
SYMMETRY Symmetry
PROPERTIES
  OnlyOwnerChangesRoles
CHECK_DEADLOCK FALSE
