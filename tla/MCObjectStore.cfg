\* One drawing with one of two images, and one more drawing; three requests.
CONSTANTS
  a1 = a1
  b1 = b1
  a2 = a2
  b2 = b2
  f1 = f1
  f2 = f2
  Element = {a1, b1, a2, b2}
  FileId = {f1, f2}
  AppState = {plain}
  Deleted = {b1, b2}
  ImageFile <- MCImageFile
  Drawing = {d1, d2}
  First = d1
  Handler = {r1, r2, r3}
  MaxFail = 1
SPECIFICATION StoreSpec
INVARIANTS
  ShownImagesAreServed
PROPERTIES
  NothingIsLeftBehind
SYMMETRY Symmetry
CHECK_DEADLOCK FALSE
