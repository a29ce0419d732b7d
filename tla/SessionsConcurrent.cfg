\* Two requests in flight from one browser, two accounts; two keys, so that a
\* login and a key change or a second login fit (a visit with a stale session
\* needs three: sessions_sequential has it).
SPECIFICATION Spec
CONSTANTS
  User = {alice, bob}
  Staff = {alice}
  Invited = {bob}
  NoUser = NoUser
  Browser = {b1}
  Request = {r1, r2}
  Ops = {"login", "admin_login", "signup", "password", "logout"}
  MaxKey = 2
  MaxRow = 2
  MaxHash = 2
SYMMETRY Symmetry
INVARIANTS TypeOK RowMatchesSession ClosedRowHasNoSession OneRowPerSession
PROPERTY AuditSpec
CHECK_DEADLOCK FALSE
