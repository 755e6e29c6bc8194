CONSTANTS
  Callers = {a, b}
  ReapMayTimeOut = TRUE
  RemoveMayFail = TRUE
SPECIFICATION FairSpec
INVARIANTS
  TypeOK
  CloseReleases
  ReturnsAfterCleanup
PROPERTIES
  AuthenticatesOnce
  LostOnlyFromReady
  CloseCompletes
  CallsReturn
