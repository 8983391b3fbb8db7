SPECIFICATION FairSpec
CONSTANTS
  Reader = {r1}
  Writer = {w1, w2}
  Frei = Frei
  MaxNest = 2
  MaxVersion = 3
  MaxEpoch = 3
INVARIANTS TypeOK NoUseAfterFree DeletedOnce GracePeriod
PROPERTIES FlushEnds
