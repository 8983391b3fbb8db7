SPECIFICATION Spec
CONSTANTS
  l1 = l1
  l2 = l2
  p1 = p1
  Laeufe = {l1, l2}
  Planer = {p1}
  Fach <- MCFach
  Ids <- MCIds
  Cells = {1, 2, 3}
  MaxUtc = 1
  Resume = {0, 1}
  ProForma = 1
  Worker = 1
  EtaWerte = {1}
  MaxZeit = 2
  MaxFehler = 1
INVARIANTS WerEnteignetStehtEin BuchTreu
PROPERTIES UebernahmeBelegt
CHECK_DEADLOCK FALSE
