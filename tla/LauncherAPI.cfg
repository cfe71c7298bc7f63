SPECIFICATION FairAPISpec
CONSTANTS
  Values <- MCValues
  FinalValues <- MCFinalValues
  NoValue = NoValue
  Failed = Failed
  MaxConnectRetry = 2
  MaxRetry = 2
  TimeoutSec = 1
  SleepSec = 1
  MaxReadTime = 1
  PromptStart = TRUE
  LeftOver = 1
  MaxAsked = 2
INVARIANTS
  FlagExact
  NoRepeatedLaunch
  WaitsOnlyForLaunched
  SuccessMeansEnded
  GivesUpAfterAll
PROPERTIES
  KeepsPromise
  MethodsShorten
  MethodsReturn
