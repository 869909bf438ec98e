\* One page: autosaves, the shortcut and Back against a trim and a bad network; or two on which nothing goes wrong.
CONSTANTS
  p1 = p1
  p2 = p2
  e1 = e1
  Page = {p1}
  Mark = {m1}
  Storage = Storage
  Null = Null
  MaxEdits = 2
  MaxSaves = 1
  MaxTrims = 1
  MaxLate = 1
SPECIFICATION MCFairSpec
INVARIANTS
  SavesApplyInOrder
  QuietMeansSaved
PROPERTIES
  BackLeavesOnlySaved
  NothingWaitsForEver
  EveryChangeArrives
CHECK_DEADLOCK FALSE
