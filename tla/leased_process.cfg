CONSTANTS
  Members = {m}
  Lease = 6
  Grace = 1
  MaxStall = 2
  Interval = 1
  Jitter = 1
  Delay = 1
  LocalStop = 14
  Newline = "n"
  Bytes <- OneByte
  Frame <- OneByteFrame
SPECIFICATION LeaseSpec
INVARIANTS
  NoSpuriousExpiry
  NoSpuriousMalformed
  OrphansStopped
  CloseOutlastsGroup
