SPECIFICATION Spec
CONSTANTS
  Machines = {m1, m2}
  Neuere = {m2}
  NoOwner = NoOwner
  Ids = {r1}
  Cells = {c1}
  Jobs <- MCTwoJobs
  Ttl = 1
  Budget = 1
  MaxCycle = 1
  MaxRev = 2
  MaxUtc = 1
  Faults = {"fetch", "store", "remove"}
INVARIANTS TypeOK SectionExclusive AckedRecordsSurvive StaleLockIsAbandoned
PROPERTIES DocumentOnlyGrows ForeignDocumentUntouched ImplementsUnionStore
