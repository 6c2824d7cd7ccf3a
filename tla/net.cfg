CONSTANTS
  Rules <- TwoRules
  Sleeper = FALSE
  Kinds <- AllKinds
  MaxEvents = 2
SPECIFICATION FairSpec
CHECK_DEADLOCK FALSE
PROPERTIES Reconnects ScanAnswered ApCloses WatchdogReboots
