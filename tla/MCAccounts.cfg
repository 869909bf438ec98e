\* Two requests at once, on a fresh installation and on one in use.
CONSTANTS
  r1 = r1
  r2 = r2
  a1 = a1
  a2 = a2
  Boot = Boot
  Nobody = Nobody
  User = {Boot, a1, a2}
  Request = {r1, r2}
  MaxAttempts = 1
SYMMETRY MCSymmetry
SPECIFICATION Spec
INVARIANTS
  CanBeAdministered
  SetUpOnce
  SessionsFollowThePassword
PROPERTIES
  ImplementsSessionLife
CHECK_DEADLOCK FALSE
