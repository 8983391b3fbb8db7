SPECIFICATION RingFairSpec
CONSTANTS
  Puts = {p1, p2, p3}
  Gets = {g1, g2}
  Requested = {0, 2, 3, 4}
  Living = {p1, g1}
  Nichts = Nichts
INVARIANTS RingTypeOK CellExclusive NurEinmal
PROPERTIES IsFifo LivingEnds
CHECK_DEADLOCK FALSE
