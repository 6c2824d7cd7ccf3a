CONSTANTS
  Second = 5
  LowBegin = 2
  HighBegin = 4
  WindowEnd = 6
  AdslChannel = 2
  BlindLora = 4
  Periods <- MCPeriods
  Unbounded = 100
  IdleWait = 3
  CopyWindows = {1, 2}
  Choices <- SomeSettings
  Changed <- BothProtocols
  Near <- Parked
  Configs = 2
  MaxRounds = 2
  Kinds <- Events
  MaxEvents = 1
SPECIFICATION FairSpec
CHECK_DEADLOCK FALSE
INVARIANTS NoLostWakeup NeverOversleeps WindowHeard ConfirmedIsApplied
PROPERTIES ConfigDelivered
