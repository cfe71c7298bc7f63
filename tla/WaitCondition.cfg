SPECIFICATION FairWaitSpec
CONSTANTS
  Byte = 4
  HalfShort = 4
  HalfInt = 8
  HalfLong = 16
  Types <- MCTypes
  Samples <- MCSamples
  Values <- MCValues
  FinalValues <- MCFinalValues
  NoValue <- MCNoValue
  Failed = Failed
  Never = Never
  MaxRetry = 3
  TimeoutSec = 4
  MaxReadTime = 2
INVARIANTS
  TrueMeansFinalRead
  EndsInTime
  NotMissed
PROPERTIES
  WaitEnds
