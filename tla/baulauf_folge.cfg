SPECIFICATION Spec
CONSTANTS
  N = 2
  Korn = 1
  MaxLaeufe = 2
  Faults = {"push"}
INVARIANTS ZaehlerHatArtefakt
CHECK_DEADLOCK FALSE
