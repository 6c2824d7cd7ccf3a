SPECIFICATION Spec
CONSTANTS
  n1 = n1
  n2 = n2
  n3 = n3
  Nonces = {n1, n2}
  ProtoOf <- MCProtoOf
  Total = 2
  MaxAttempts = 2
  StatAbort = 2
  SeqMod = 3
  MaxResends = 1
  FaultKinds <- AllFaults
  MaxFaults = 2
SYMMETRY SensorSymmetry
INVARIANTS AckedIsStored SuccessIsInstalled RadioHome EveryOfferReported
PROPERTIES LinkSpec
CHECK_DEADLOCK FALSE
