SPECIFICATION LogSpec
CONSTANTS
  Mutexes <- MCSt
  MaxFiles = 2
  MaxSize = 3
  Sizes <- MCSizes
  MaxMessages = 3
  MaxRuns = 1
INVARIANTS
  FlushesOnlyOpen
