CONSTANTS
  Callers = {a, b}
  ReapMayTimeOut = TRUE
  RemoveMayFail = FALSE
SPECIFICATION Spec
INVARIANTS
  NoLateAuthentication
