SPECIFICATION Spec
CONSTANTS
  Users = {u1}
  NoUser = NoUser
  Settings = {c1, c2}
  MaxGeneration = 6
SYMMETRY IdentitySymmetry
CHECK_DEADLOCK FALSE
PROPERTIES
  RejectedIsRetried
