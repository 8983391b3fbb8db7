SPECIFICATION FairSpec
CONSTANTS
  N = 3
  Korn = 2
  MaxLaeufe = 3
  Faults = {"laden", "bau", "push", "zaehler", "flush"}
INVARIANTS BestandHatArtefakt ZaehlerHatBau ErstlaufTreu
PROPERTIES ZaehlerFaelltNicht LaufEndet
CHECK_DEADLOCK FALSE
