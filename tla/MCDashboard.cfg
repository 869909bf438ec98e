\* Four drawings; two changes, three lists, one lost request or answer.
CONSTANTS
  Me = Me
  Other = Other
  User = {Me, Other}
  c1 = c1
  Collection = {c1}
  PageSize = 2
  MaxFail = 1
  MaxRequest = 3
SPECIFICATION Spec
INVARIANTS
  CachedListsAreCurrent
  QuietPageShowsTheView
CHECK_DEADLOCK FALSE
