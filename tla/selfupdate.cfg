CONSTANTS
  MaxVersion = 3
  Bad <- TwoBad
  UiVersions <- AllUis
  Pieces = 2
  Battery = TRUE
  AutoUpdate = TRUE
  MaxUploads = 1
  MaxChanges = 2
  FaultKinds <- AllFaults
  MaxFaults = 2
SPECIFICATION FairSpec
CHECK_DEADLOCK FALSE
INVARIANTS FallbackKept TrialKeepsUi
PROPERTIES TrialSpec BadIsLeftUnlessDozed UiFollows
