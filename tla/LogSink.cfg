SPECIFICATION FairLogSpec
CONSTANTS
  Mutexes <- MCMutexes
  MaxFiles = 2
  MaxSize = 3
  Sizes <- MCSizes
  MaxMessages = 4
  MaxRuns = 2
INVARIANTS
  WritesOpen
  LockedFlushIsSafe
  WithinSize
  Retention
PROPERTIES
  Flushed
  ExitEnds
