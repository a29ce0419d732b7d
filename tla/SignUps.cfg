\* One invitation, an admin who may type somebody's address as a username,
\* two requests in flight.
SPECIFICATION Spec
CONSTANTS
  Invite = {i1}
  Request = {r1, r2}
  Email = {"bob@x", "bob@y"}
  Phone = {"5550100"}
  TypedName = {"bob@y"}
  TypedPhone = {}
  NoPhone = ""
  NoInvite = NoInvite
  Fold <- LowerCase
  LocalPart <- BeforeAt
  Numbered <- WithNumber
  Ops = {"accept", "profile", "edit_invitation", "edit_user", "add_user"}
SYMMETRY Symmetry
INVARIANTS TypeOK IdentifiersDistinct AcceptedHasAccount AddressReachesItsHolder OneAccountPerInvitation
CHECK_DEADLOCK FALSE
