SPECIFICATION FairSpec
CONSTANTS
  Scripts = {s1, s2}
  Ports = {1, 2}
  Names = {n1, n2}
  UserNames = {n1}
  MayHang = {s2}
  MaxEvents = 2
  MaxLines = 2
INVARIANTS
  GdbTypeOK
  GuestReleased
  GdbOnOwnGuest
PROPERTIES
  OwnInstanceOnly
  GuestGoesOn
  ScriptEnds
CHECK_DEADLOCK FALSE
