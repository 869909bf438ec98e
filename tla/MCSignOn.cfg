\* Two tabs of one browser, in which a user does two things.
CONSTANTS
  t1 = t1
  t2 = t2
  Tabs = {t1, t2}
  Write = {w1}
  Person = {admin, guest}
  Admin = admin
  NoOne = NoOne
  MaxActs = 2
  MaxFailures = 1
SYMMETRY MCSymmetry
SPECIFICATION MCSpec
INVARIANTS
  LastFlowSucceeds
  PagesShowTheSession
  WritesGetThrough
CHECK_DEADLOCK FALSE
