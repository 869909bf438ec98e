\* One page, two elements, a second opening of the same or another drawing.
CONSTANTS
  Drawings = {d1, d2}
  Mark = {m1, m2}
  None = None
  MaxOpens = 2
  MaxActs = 3
  MaxQueue = 2
SPECIFICATION MCSpec
INVARIANTS
  QuietMeansMine
PROPERTIES
  EmptiedOnPurpose
SYMMETRY MCSymmetry
CHECK_DEADLOCK FALSE
