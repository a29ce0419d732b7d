\* A profile save that started before a suspension or a password change.
SPECIFICATION Spec
CONSTANTS
  User = {alice}
  Staff = {}
  Invited = {}
  NoUser = NoUser
  Browser = {b1}
  Request = {r1, r2}
  Ops = {"login", "profile", "password"}
  MaxKey = 3
  MaxRow = 2
  MaxHash = 2
SYMMETRY Symmetry
PROPERTY ProfileEditIsAncillary
CHECK_DEADLOCK FALSE
