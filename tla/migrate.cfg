CONSTANTS
  MAX_ATTEMPTS = 3
  MaxCuts = 4
  MaxUpdates = 1
  MaxFaults = 2
SPECIFICATION FairSpec
CHECK_DEADLOCK FALSE
INVARIANTS BootsThis NoteUntilClean
PROPERTIES TableLast Migrates
