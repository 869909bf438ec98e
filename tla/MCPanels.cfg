CONSTANTS
  p1 = p1
  t1 = t1
  t2 = t2
  f1 = f1
  f2 = f2
  l1 = l1
  l2 = l2
  k1 = k1
  k2 = k2
  s1 = s1
  s2 = s2
  c1 = c1
  c2 = c2
  q1 = q1
  q2 = q2
  a1 = a1
  a2 = a2
  x1 = x1
  x2 = x2
  w1 = w1
  w2 = w2
  v1 = v1
  v2 = v2
  v3 = v3
  u1 = u1
  u2 = u2
  d1 = d1
  b1 = b1
  e1 = e1
  e2 = e2
  g1 = g1
  g2 = g2
  n1 = n1
  n2 = n2
  Person = {p1}
  ShareTask = {t1, t2}
  MaxShares = 3
  MaxLosses = 1
  File = {f1, f2}
  ListCall = {l1, l2}
  MaxSteps = 5
  MaxMisses = 1
  Key = {k1, k2}
  Scope = {s1, s2}
  KeyCall = {c1, c2}
  MaxPresses = 4
  MaxRefusals = 1
  Version <- MCVersion
  Running <- MCRunning
  Check = {q1, q2}
  TTL = 2
  Interval = 1
  MaxTime = 3
  MaxClicks = 4
  MaxTroubles = 1
  Account = {a1, a2}
  UserCall = {x1, x2}
  Switch = {w1, w2}
  Limit = {v1, v2, v3}
  Unset = Unset
  MaxDoings = 3
  MaxLost = 1
  Holder = {u1, u2}
  Exporter = u1
  Drawing = {d1}
  OldFolder = {b1}
  Scene = {e1, e2}
  NoFolder = NoFolder
  Nobody = Nobody
  MaxChanges = 2
  Upload = {g1, g2}
  Shapes <- MCShapes
  FolderName = {Unfiled, n1, n2}
  Unfiled = Unfiled
  MaxMishaps = 1
  Schedule <- MCSchedule
  Calendar <- MCCalendar
  Retention = 3
  MaxClock = 8
  MaxFaults = 2
SPECIFICATION MCSpec
SYMMETRY MCSymmetry
INVARIANTS
  QuietDialogShowsTheAccess
  DeletionsAreConfirmed
  CardTellsWhatWorks
  UpdatesAreTrue
  QuietAdminPageIsTrue
  ImportsKeepTheirWord
PROPERTIES
  ImportRestores
  BackupsAreReplacedFirst
\* Every panel may be used up: the bounds stop it.
CHECK_DEADLOCK FALSE
