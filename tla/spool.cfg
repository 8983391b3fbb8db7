SPECIFICATION FairSpec
CONSTANTS
  Entries = {a, b, c}
  Gross = {c}
  Bytes <- MCBytes
  MaxBytes = 10
  CountTrigger = 2
  Flusher = {f1, f2}
  Closer = {c1}
INVARIANTS OnePlace
PROPERTIES FlushBarrier NobodyStuck
CHECK_DEADLOCK FALSE
