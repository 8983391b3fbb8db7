SPECIFICATION FairSpec
CONSTANTS
  Items = {a, b, c}
  Drainer = {d1}
  Closer = {c1, c2}
  PartSize = 2
  Nichts = Nichts
INVARIANTS EachOnce CloseBarrier
PROPERTIES DrainBarrier NobodyStuck
CHECK_DEADLOCK FALSE
