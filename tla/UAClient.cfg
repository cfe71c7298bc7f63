SPECIFICATION FairClientSpec
INVARIANTS
  NothingHalfOpen
  LossReportedOnce
  ErrorMeansDown
PROPERTIES
  KeepsContract
  CallsShorten
  CallsReturn
  LossDiscovered
