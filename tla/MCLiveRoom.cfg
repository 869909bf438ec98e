\* Three connections that come and go, or one whose rights change under way.
CONSTANTS
  Nobody = Nobody
  Null = Null
  User = {owner, guest}
  Owner = owner
  Bootstrap = owner
  Device = {device}
  Socket = {s1, s2, s3}
  Update = {u1, u2}
  LinkRequest = {l1}
  MaxChanges = 2
  TTL = 2
  MaxTime = 2
SPECIFICATION MCSpec
INVARIANTS
  PresenceIsTrue
  PagesShowTheList
  EntitledAreHeard
PROPERTIES
  WithdrawnEditsStop
SYMMETRY MCSymmetry
CHECK_DEADLOCK FALSE
