SPECIFICATION Spec
CONSTANTS
  Request = {r1}
  Page = {p1}
  Attempt = {a1}
  AccessAge = 1
  RefreshAge = 2
  MaxSpan = 1
  None = None
PROPERTY SuspendedAreDenied
