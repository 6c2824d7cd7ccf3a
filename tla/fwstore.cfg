CONSTANTS
  i1 = i1
  i2 = i2
  i3 = i3
  i4 = i4
  Images = {i1, i2, i3, i4}
  SectorsOf <- MCSectorsOf
  Flash = 3
  Region <- MCRegion
  MaxUses = 4
  FaultKinds <- AllFaults
  MaxFaults = 2
SPECIFICATION FairSpec
CHECK_DEADLOCK FALSE
INVARIANTS HeaderMeansData ServedIsWanted NoRoomOnlyIfTooBig
PROPERTIES EvictsTheOldest CacheSpec RequestEnds
