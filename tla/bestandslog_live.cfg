SPECIFICATION FairSpec
CONSTANTS
  Machines = {m1, m2}
  Neuere = {m2}
  NoOwner = NoOwner
  Ids = {r1}
  Cells = {}
  Jobs <- MCOneJob
  Ttl = 2
  Budget = 1
  MaxCycle = 1
  MaxRev = 3
  MaxUtc = 1
  Faults = {}
PROPERTIES DeadMachineNeverBlocks
