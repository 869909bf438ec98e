\* Two tabs with up to two calls; the access token expires once, one message is lost.
CONSTANTS
  t1 = t1
  t2 = t2
  c1 = c1
  c2 = c2
  Me = Me
  Nobody = Nobody
  User = {Me}
  Tab = {t1, t2}
  Call = {c1, c2}
  MaxCall = 2
  MaxExpiry = 1
  MaxLogout = 1
  MaxSession = 2
SYMMETRY MCSymmetry
SPECIFICATION Spec
INVARIANTS
  StaysSignedIn
  LogoutIsFinal
CHECK_DEADLOCK FALSE
