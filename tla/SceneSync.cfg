\* Two editors; pages come late, connections break, updates overtake each other.
CONSTANTS
  Page = {p1, p2}
  Editor = {p1, p2}
  Element = {e1}
  Null = Null
  MaxEdits = 2
  MaxWait = 2
  Mishap = {"late", "reconnect", "reorder"}
  Saving = TRUE
SPECIFICATION Spec
INVARIANTS
  QuietMeansConverged
PROPERTIES
  NothingGoesBack
CHECK_DEADLOCK FALSE
