\* A password change moves the session to a key no row names.
SPECIFICATION Spec
CONSTANTS
  User = {alice}
  Staff = {}
  Invited = {}
  NoUser = NoUser
  Browser = {b1}
  Request = {r1}
  Ops = {"login", "password", "logout"}
  MaxKey = 3
  MaxRow = 2
  MaxHash = 2
SYMMETRY Symmetry
PROPERTY LogoutStampsRow
CHECK_DEADLOCK FALSE
