CONSTANTS
  Senders = {s1, s2, s3}
  Contents = {c1}
  Names = {n1}
  Forwarded = {c1}
  OpenPackets = 2
  Sources = 2
  Events = 3
  CopyWindow = 2
  LateCopy = 3
  MaxTime = 5
  MaxFrames = 4
  MaxRequests = 1
  NONE = NONE
SYMMETRY Interchangeable
SPECIFICATION Spec
CHECK_DEADLOCK FALSE
INVARIANTS CopiesAreMatched ListsAgree ListedOnce
