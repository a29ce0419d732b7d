\* One request at a time, two accounts, two browsers.
SPECIFICATION Spec
CONSTANTS
  User = {alice, bob}
  Staff = {}
  Invited = {}
  NoUser = NoUser
  Browser = {b1, b2}
  Request = {r1}
  Ops = {"login", "profile", "password", "logout", "visit"}
  MaxKey = 3
  MaxRow = 3
  MaxHash = 2
SYMMETRY Symmetry
PROPERTIES PasswordChangeSticks ChangerStaysSignedIn
CHECK_DEADLOCK FALSE
