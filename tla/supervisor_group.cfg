CONSTANTS
  Members = {m1, m2}
  Lease = 3
  Grace = 2
  MaxStall = 2
  Newline = "n"
  Bytes <- ShortBytes
  Frame <- ShortFrame
  MaxBytes = 2
SPECIFICATION MCFairSpec
INVARIANTS
  GroupStopped
  LeaseEnforced
  ExitSeenPromptly
PROPERTIES
  OwnerLossStops
