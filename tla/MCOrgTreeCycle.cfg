CONSTANTS
  Handler = {h1, h2}
  Updater = {h1, h2}
  User = {u1}
  NoUser = NoUser
  Name = {everyone, a, b}
  Everyone = everyone
  NoName = NoName
  MaxDepts = 3
  MaxGrants = 1
  MaxLed = 1
SPECIFICATION Spec
SYMMETRY Symmetry
CHECK_DEADLOCK FALSE
INVARIANTS Acyclic
