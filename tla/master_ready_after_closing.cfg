CONSTANTS
  Callers = {a, b}
  ReapMayTimeOut = FALSE
  RemoveMayFail = FALSE
SPECIFICATION FairSpec
PROPERTIES
  ClosingIsNotUndone
