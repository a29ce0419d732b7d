\* Two valid links with one local part; whoever holds them keeps trying.
SPECIFICATION FairSpec
CONSTANTS
  Invite = {i1, i2}
  Request = {r1, r2}
  Email = {"bob@x", "bob@y"}
  Phone = {}
  TypedName = {}
  TypedPhone = {}
  NoPhone = ""
  NoInvite = NoInvite
  Fold <- LowerCase
  LocalPart <- BeforeAt
  Numbered <- WithNumber
  Ops = {"accept", "profile"}
INVARIANT IdentifiersDistinct
PROPERTY InvitationsSettle
CHECK_DEADLOCK FALSE
