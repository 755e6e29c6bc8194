CONSTANTS
  Members = {m1, m2}
  ReapMayTimeOut = TRUE
  PidsAreReused = TRUE
SPECIFICATION FairSpec
INVARIANTS
  NothingLeft
  CancellationKept
PROPERTIES
  CallEnds
