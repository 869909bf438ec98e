\* Three concurrent requests on one drawing.
CONSTANTS
  live = live
  gone = gone
  f1 = f1
  f2 = f2
  a1 = a1
  a2 = a2
  Null = Null
  Request = {r1, r2, r3}
  PayloadVersion = {1, 2}
  Element <- MCElement
  FileId <- MCFileId
  AppState <- MCAppState
  Deleted <- MCDeleted
  ImageFile <- MCImageFile
  Payload <- MCPayload
SPECIFICATION Spec
INVARIANTS
  VersionNamesOneScene
PROPERTIES
  CheckedSaveKeepsReplacedScene
  OnlyStaleOverwriteLosesScene
  ImplementsVersionLog
CHECK_DEADLOCK FALSE
