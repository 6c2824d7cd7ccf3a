SPECIFICATION FairSpec
CONSTANTS
  n1 = n1
  n2 = n2
  n3 = n3
  Nonces = {n1, n2, n3}
  ProtoOf <- MCProtoOf
  Total = 2
  MaxAttempts = 3
  StatAbort = 15
  SeqMod = 65536
  MaxResends = 1
  FaultKinds <- ChunkLosses
  MaxFaults = 1
PROPERTIES LossTolerated AttemptEnds
CHECK_DEADLOCK FALSE
