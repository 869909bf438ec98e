\* Two clients of a panel that is mounted twice.
CONSTANTS
  NoClient = NoClient
  MaxStarts = 2
  MaxMounts = 2
  MaxActs = 2
SPECIFICATION FairSpec
INVARIANTS
  PanelControlsItsClient
PROPERTIES
  EverySessionEnds
CHECK_DEADLOCK FALSE
