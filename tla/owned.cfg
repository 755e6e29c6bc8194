CONSTANTS
  Callers = {a, b}
  ReapMayTimeOut = TRUE
SPECIFICATION FairSpec
INVARIANTS
  CloseReleases
  ReturnsAfterCleanup
  NoBeatAfterEof
  LateSpawnNotAdopted
PROPERTIES
  WaitOnlyObserves
  KeepsLifecycle
  CallsReturn
  WaitsReturn
