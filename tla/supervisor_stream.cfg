CONSTANTS
  Members = {}
  Lease = 2
  Grace = 1
  MaxStall = 1
  Newline = "n"
  Bytes <- MCBytes
  Frame <- MCFrame
  MaxBytes = 5
SPECIFICATION MCSpec
INVARIANTS
  VerdictMatchesStream
