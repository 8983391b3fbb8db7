SPECIFICATION PoolFairSpec
CONSTANTS
  Ohne = Ohne
  Halb = Halb
  K = 3
  Workers = {w1, w2}
  Fingerprint <- MCFingerprint
  Gesperrt = {0}
  MaxVersuche = 2
  RamBudget = 2
  RamReserve = 1
  RamWerte = {2, 5}
  MaxPoolLaeufe = 2
  PoolFaults = {"bau", "sidecar", "absturz"}
INVARIANTS EachOnce AdmissionCap
PROPERTIES SkipIstAktuell PoolEndet
CHECK_DEADLOCK FALSE
