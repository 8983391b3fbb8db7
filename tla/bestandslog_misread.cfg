SPECIFICATION Spec
CONSTANTS
  Machines = {m1}
  Neuere = {}
  NoOwner = NoOwner
  Ids = {r1}
  Cells = {c1}
  Jobs <- MCTwoJobs
  Ttl = 1
  Budget = 1
  MaxCycle = 2
  MaxRev = 2
  MaxUtc = 1
  Faults = {"fetch"}
PROPERTY NeverBlindReplace
