\* Two POSTs, an admin page, two logins; suspensions with and without an end.
SPECIFICATION FairSpec
CONSTANTS
  Request = {r1, r2}
  Page = {p1}
  Attempt = {a1, a2}
  AccessAge = 1
  RefreshAge = 2
  MaxSpan = 1
  None = None
INVARIANTS TypeOK BackendsAgree TokensRunDown
PROPERTY TokensDieOut
