CONSTANTS
  MaxEvents = 1
  Capacity = 2
  MaxPayloads = 3
SPECIFICATION FairSpec
CHECK_DEADLOCK FALSE
INVARIANTS StatusBeforeData LatestKept
PROPERTIES Registers
