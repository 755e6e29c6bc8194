CONSTANTS
  Members = {m1, m2}
  ReapMayTimeOut = FALSE
  PidsAreReused = TRUE
SPECIFICATION Spec
INVARIANT OnlyOwnGroup
