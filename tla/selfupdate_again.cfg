CONSTANTS
  MaxVersion = 3
  Bad <- AllBad
  UiVersions <- AllUis
  Pieces = 2
  Battery = FALSE
  AutoUpdate = TRUE
  MaxUploads = 0
  MaxChanges = 3
  FaultKinds <- NoFaults
  MaxFaults = 0
SPECIFICATION Spec
CHECK_DEADLOCK FALSE
PROPERTY NeverInstalledAgain
