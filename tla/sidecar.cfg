SPECIFICATION Spec
CONSTANTS
  Leser = {r1}
  Schluss = {m1, m2}
  Nobody = Nobody
  Ids = {o1, o2}
  Cells = {}
  MaxUtc = 0
  MaxRev = 2
  MaxFehler = 2
SYMMETRY Symmetry
INVARIANTS RecordsNieVerloren UngestoerteLesung
PROPERTIES HauptWaechst
CHECK_DEADLOCK FALSE
