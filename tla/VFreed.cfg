SPECIFICATION MainSpec
CONSTANTS
  Values <- MCValues
  FinalValues <- MCFinalValues
  NoValue = NoValue
  Failed = Failed
  MaxConnectRetry = 2
  MaxRetry = 3
  TimeoutSec = 4
  SleepSec = 2
  MaxReadTime = 2
  PromptStart = TRUE
  LeftOver = 1
INVARIANTS
  EndsByExit
