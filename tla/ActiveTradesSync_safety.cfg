SPECIFICATION Spec
CONSTANTS
  Users = {u1, u2}
  NoUser = NoUser
  Settings = {c1, c2}
  MaxGeneration = 7
SYMMETRY IdentitySymmetry
CHECK_DEADLOCK FALSE
INVARIANTS
  SyncUnderWay
  FenceIsHonest
  RefreshIsComing
PROPERTIES
  AcceptedIsCurrent
