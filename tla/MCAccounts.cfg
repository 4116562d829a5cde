CONSTANTS
  Proc = {p1, p2}
  Name = {boot, ann}
  NoName = NoName
  Boot = boot
  Directory = {ann}
  MaxUsers = 3
  Password = {x, y}
  NoPw = NoPw
SPECIFICATION Spec
SYMMETRY Symmetry
CHECK_DEADLOCK FALSE
INVARIANTS CredentialsHaveOwners ExternalNeverAdoptsLocal AnAdminWhenSerial
PROPERTIES DeletesLeaveAnAdmin ChangesRevoke
