CONSTANTS
  Callers = {a, b}
  ReapMayTimeOut = FALSE
  RemoveMayFail = FALSE
SPECIFICATION FairSpec
INVARIANTS
  NoLateAuthentication
PROPERTIES
  KeepsLifecycle
