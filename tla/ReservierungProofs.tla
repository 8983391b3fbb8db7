------------------------ MODULE ReservierungProofs -------------------------
(***************************************************************************)
(* Proofs about Reservierung for any number of runs and planners, every    *)
(* division of the selections into windows and any number of failures.     *)
(*                                                                         *)
(* None of the properties is inductive.  What they lack is which claims    *)
(* may be open at all (ZuInv), what a sweep carries from its verdict to    *)
(* its release (LokalInv, GenommenInv), that an open claim stands for a    *)
(* window (AnspruchInv), and how far a run has come through its selection  *)
(* (FortschrittInv).                                                       *)
(***************************************************************************)
EXTENDS Reservierung, BestandMergeProofs, FiniteSetTheorems

\* The work behind the claim i belongs to the selection of the run l.
Deckt(l, i) == i \in TierIds /\ FachVon(i) \subseteq Auswahl(l)

\* What a sweep writes are releases of claims that its run covers.
LokalInv ==
  \A l \in Laeufe, i \in Ids :
    lokal[l][i] # Keine => lokal[l][i].status = "released" /\ Deckt(l, i)

GenommenInv == \A l \in Laeufe : \A i \in genommen[l] : Deckt(l, i)

\* The owner of the claim has ended, or has not come to it yet.
Zu(i) ==
  \/ pc[i[1]] \in {"ende", "abbruch"}
  \/ i \in TierIds /\ i[2] > fach[i[1]]
  \/ i \in TierIds /\ i[2] = fach[i[1]] /\ pc[i[1]] \notin {"bau", "tot"}

ZuInv == \A i \in Ids \ verfehlt : Zu(i) => inhalt.res[i].status # "offen"

GebuchtInv == \A i \in Gebucht : inhalt.res[i].status = "done"

\* A run that resumes has more ids than windows: those it claims have one.
AnspruchInv ==
  \A i \in TierIds :
    inhalt.res[i].status = "offen" => FachNr(i) \in DOMAIN Fach[i[1]]

Hat(l) == lager[l] \cup erledigt[l] \cup Gezaehlt(l)

\* The windows behind a run are done or counted, of the current one what is
\* not open.
FortschrittVon(l) ==
  /\ pc[l] \in {"aus", "urteil", "freigabe", "beleg"} => fach[l] = 1
  /\ pc[l] \in {"fenster", "bau", "ende"} =>
       \A k \in DOMAIN Fach[l] : k < Nr(l) => Fach[l][k] \subseteq Hat(l)
  /\ pc[l] = "bau" => /\ Nr(l) \in DOMAIN Fach[l]
                      /\ Fach[l][Nr(l)] \ offen[l] \subseteq Hat(l)
  /\ pc[l] = "ende" => Nr(l) \notin DOMAIN Fach[l]

FortschrittInv == \A l \in Laeufe : FortschrittVon(l)

\* The inductive invariant.
IInv == /\ TypeOK
        /\ LokalInv
        /\ GenommenInv
        /\ ZuInv
        /\ GebuchtInv
        /\ AnspruchInv
        /\ FortschrittInv

-----------------------------------------------------------------------------
(***************************************************************************)
(* Windows and the scope of a sweep                                        *)
(***************************************************************************)
LEMMA WindowTypes ==
  ASSUME NEW l \in Laeufe, NEW k \in DOMAIN Fach[l]
  PROVE  k \in Nat \ {0} /\ k <= Len(Fach[l]) /\ Fach[l][k] \subseteq Nat
                         /\ Fach[l][k] \subseteq Cells
<1>1. Fach[l] \in Seq(SUBSET Cells) /\ Cells \subseteq Nat
  BY ReservierungConstantsOK
<1>2. k \in 1 .. Len(Fach[l]) /\ Len(Fach[l]) \in Nat
  BY <1>1
<1>3. Fach[l][k] \in SUBSET Cells
  BY <1>1, <1>2
<1>4. Fach[l][k] \subseteq Nat /\ Fach[l][k] \subseteq Cells
  BY <1>1, <1>3
<1>5. k \in Nat \ {0} /\ k <= Len(Fach[l])
  BY <1>2
<1> QED
  BY <1>4, <1>5

\* The bounds of a window contain it.
LEMMA WindowBounds ==
  ASSUME NEW f \in Faecher, f \subseteq Nat
  PROVE  LET b == slice_window_bounds(f)
         IN  /\ b.begin \in Nat /\ b.count \in Nat \ {0}
             /\ \A x \in f : b.begin <= x /\ x < b.begin + b.count
<1> DEFINE min == CHOOSE x \in f : \A y \in f : x <= y
           max == CHOOSE x \in f : \A y \in f : x >= y
<1>1. PICK a \in f, c \in f : \A x \in f : a <= x /\ x <= c
  BY ReservierungConstantsOK
<1>2. min \in f /\ \A y \in f : min <= y
  BY <1>1
<1>3. max \in f /\ \A y \in f : max >= y
  <2>1. \E x \in f : \A y \in f : x >= y
    BY <1>1
  <2> QED
    BY <2>1
<1>4. slice_window_bounds(f) = [begin |-> min, count |-> max - min + 1]
  BY DEF slice_window_bounds
<1> HIDE DEF min, max
<1> QED
  BY <1>2, <1>3, <1>4

\* A sweep takes a claim only if the selection of its run contains the window.
LEMMA ScopeCovers ==
  ASSUME NEW l \in Laeufe, NEW f \in Faecher, f \subseteq Nat,
         scope_covers_slice(l, slice_window_bounds(f))
  PROVE  f \subseteq Auswahl(l)
<1> DEFINE b == slice_window_bounds(f)
           I == b.begin .. b.begin + b.count - 1
           S == {c \in Auswahl(l) : b.begin <= c /\ c < b.begin + b.count}
<1>1. /\ b.begin \in Nat /\ b.count \in Nat \ {0}
      /\ \A x \in f : b.begin <= x /\ x < b.begin + b.count
  BY WindowBounds
<1>2. Cardinality(S) = b.count
  BY DEF scope_covers_slice
<1> HIDE DEF b
<1>3. S \subseteq I
  <2>1. Auswahl(l) \subseteq Nat
    BY WindowTypes DEF Auswahl
  <2> QED
    BY <1>1, <2>1
<1>4. IsFiniteSet(I) /\ Cardinality(I) = b.count
  <2>1. b.begin \in Int /\ b.begin + b.count - 1 \in Int
    BY <1>1
  <2>2. Cardinality(I) = IF b.begin > b.begin + b.count - 1 THEN 0
                         ELSE (b.begin + b.count - 1) - b.begin + 1
    BY <2>1, FS_Interval
  <2>3. IsFiniteSet(I)
    BY <2>1, FS_Interval
  <2> QED
    BY <1>1, <2>2, <2>3
<1>5. S = I
  BY <1>2, <1>3, <1>4, FS_Subset
<1>6. f \subseteq I
  BY <1>1
<1> QED
  BY <1>5, <1>6

\* The claims of runs and planners differ.
LEMMA Ansprueche ==
  /\ \A l \in Laeufe : \A k : <<l, k>> \in TierIds <=> k \in DOMAIN Fach[l]
  /\ \A i \in TierIds : /\ i[1] \in Laeufe /\ i[2] \in DOMAIN Fach[i[1]]
                        /\ i = <<i[1], i[2]>> /\ i[2] \in Nat
  /\ \A i \in Ids : i \in TierIds \/ \E p \in Planer : i = <<p, 0>>
  /\ \A p \in Planer : <<p, 0>> \in Ids /\ <<p, 0>> \notin TierIds /\ p \notin Laeufe
  /\ TierIds \subseteq Ids
<1>1. \A l \in Laeufe : \A k : <<l, k>> \in TierIds <=> k \in DOMAIN Fach[l]
  BY DEF TierIds
<1>3. \A i \in TierIds : i[1] \in Laeufe /\ i[2] \in DOMAIN Fach[i[1]] /\ i = <<i[1], i[2]>>
  BY DEF TierIds
<1>4. \A l \in Laeufe : \A k \in DOMAIN Fach[l] : k \in Nat
  BY WindowTypes
<1>5. \A i \in Ids : i \in TierIds \/ \E p \in Planer : i = <<p, 0>>
  BY ReservierungConstantsOK DEF BlockIds
<1>6. \A p \in Planer : <<p, 0>> \in Ids /\ p \notin Laeufe
  BY ReservierungConstantsOK DEF BlockIds
<1>7. \A p \in Planer : <<p, 0>> \notin TierIds
  BY <1>3, <1>6
<1> QED
  BY <1>1, <1>3, <1>4, <1>5, <1>6, <1>7, ReservierungConstantsOK

\* Every claim is one of a process.
LEMMA Inhaber == \A i \in Ids : i[1] \in Prozesse
<1> SUFFICES ASSUME NEW i \in Ids PROVE i[1] \in Prozesse
  OBVIOUS
<1>1. CASE i \in TierIds
  BY <1>1, Ansprueche DEF Prozesse
<1>2. CASE \E p \in Planer : i = <<p, 0>>
  BY <1>2 DEF Prozesse
<1> QED
  BY <1>1, <1>2, Ansprueche

-----------------------------------------------------------------------------
(***************************************************************************)
(* Records                                                                 *)
(***************************************************************************)
LEMMA RecordTypes ==
  /\ Offen \in Reservierung /\ Kalibriert \in Reservierung
  /\ Done \in Reservierung /\ [Done EXCEPT !.eta = FALSE] \in Reservierung
  /\ Released \in Reservierung /\ Keine \in Reservierung
BY DEF Offen, Kalibriert, Done, Released, Keine, Reservierung, Status

LEMMA ReleaseType ==
  ASSUME NEW r \in Reservierung
  PROVE  /\ [r EXCEPT !.status = "released"] \in Reservierung
         /\ [r EXCEPT !.status = "released"].status = "released"
BY DEF Reservierung, Status

\* Merging a record that is not open leaves none open that was not; one that
\* is missing changes nothing; a closed one stays closed.
LEMMA PickFacts ==
  ASSUME NEW a \in Reservierung, NEW b \in Reservierung
  PROVE  /\ a.status # "offen" /\ b.status # "offen" =>
              pick_reservierung(a, b).status # "offen"
         /\ b.status \in {"released", "done"} => pick_reservierung(a, b).status # "offen"
         /\ a.status = "done" \/ b.status = "done" => pick_reservierung(a, b).status = "done"
         /\ pick_reservierung(a, Keine) = a
BY DEF pick_reservierung, status_rank, Reservierung, Status, Keine

LEMMA DocTypes ==
  /\ OhneRes \in [Ids -> Reservierung]
  /\ \A i, r : r \in Reservierung => Eines(i, r) \in Content
  /\ \A s : Bestand(s) \in Content
  /\ \A z \in [Ids -> Reservierung] : [Bestand({}) EXCEPT !.res = z] \in Content
<1>1. OhneRes \in [Ids -> Reservierung]
  BY RecordTypes DEF OhneRes
<1>2. \A i, r : r \in Reservierung => [OhneRes EXCEPT ![i] = r] \in [Ids -> Reservierung]
  BY <1>1
<1>3. 0 \in 0 .. MaxUtc /\ 1 \in 0 .. MaxUtc
  BY ReservierungConstantsOK
<1>4. \A s : [c \in Cells |-> IF c \in s THEN 1 ELSE 0] \in [Cells -> 0 .. MaxUtc]
  BY <1>3
<1>5. [c \in Cells |-> 0] \in [Cells -> 0 .. MaxUtc]
  BY <1>3
<1>6. \A i, r : r \in Reservierung => Eines(i, r) \in Content
  BY <1>2, <1>5 DEF Eines, Content
<1>7. \A s : Bestand(s) \in Content
  BY <1>1, <1>4 DEF Bestand, Content
<1>8. \A z \in [Ids -> Reservierung] : [Bestand({}) EXCEPT !.res = z] \in Content
  <2> SUFFICES ASSUME NEW z \in [Ids -> Reservierung]
               PROVE  [Bestand({}) EXCEPT !.res = z] \in Content
    OBVIOUS
  <2>1. [Bestand({}) EXCEPT !.res = z] =
          [res |-> z, bestand |-> [c \in Cells |-> IF c \in {} THEN 1 ELSE 0]]
    BY DEF Bestand
  <2> QED
    BY <1>4, <2>1 DEF Content
<1> QED
  BY <1>1, <1>6, <1>7, <1>8

\* A write of the document j, reported or not.
LEMMA Schreiben ==
  ASSUME TypeOK, NEW j \in Content, Schreibt(j) \/ Schreibfehler(j)
  PROVE  /\ inhalt' \in Content /\ fehler' \in 0 .. MaxFehler
         /\ \A i \in Ids : \/ inhalt'.res[i] = inhalt.res[i]
                           \/ inhalt'.res[i] = pick_reservierung(inhalt.res[i], j.res[i])
         /\ \A i \in Ids : inhalt.res[i].status = "done" => inhalt'.res[i].status = "done"
         /\ Schreibt(j) => \A i \in Ids :
              inhalt'.res[i] = pick_reservierung(inhalt.res[i], j.res[i])
<1>1. inhalt' = inhalt \/ inhalt' = merge_documents(inhalt, j)
  BY DEF Schreibt, Schreibfehler
<1>2. inhalt' \in Content
  BY <1>1, MergeType DEF TypeOK
<1>3. fehler' \in 0 .. MaxFehler
  BY ReservierungConstantsOK DEF TypeOK, Schreibt, Schreibfehler, Fehler
<1>4. \A i \in Ids : merge_documents(inhalt, j).res[i] = pick_reservierung(inhalt.res[i], j.res[i])
  BY DEF merge_documents
<1>5. \A i \in Ids : inhalt.res[i] \in Reservierung /\ j.res[i] \in Reservierung
  BY DEF TypeOK, Content
<1>6. \A i \in Ids : inhalt.res[i].status = "done" => inhalt'.res[i].status = "done"
  BY <1>1, <1>4, <1>5, PickFacts
<1>7. Schreibt(j) => inhalt' = merge_documents(inhalt, j)
  BY DEF Schreibt
<1> QED
  BY <1>1, <1>2, <1>3, <1>4, <1>6, <1>7

\* A write of the single record r changes no other one.
LEMMA EinesSchreiben ==
  ASSUME TypeOK, NEW x \in Ids, NEW r \in Reservierung,
         Schreibt(Eines(x, r)) \/ Schreibfehler(Eines(x, r))
  PROVE  /\ inhalt' \in Content /\ fehler' \in 0 .. MaxFehler
         /\ \A i \in Ids : i # x => inhalt'.res[i] = inhalt.res[i]
         /\ \A i \in Ids : inhalt.res[i].status = "done" => inhalt'.res[i].status = "done"
         /\ Schreibt(Eines(x, r)) => inhalt'.res[x] = pick_reservierung(inhalt.res[x], r)
<1> DEFINE j == Eines(x, r)
<1>1. j \in Content
  BY DocTypes
<1>2. \A i \in Ids : j.res[i] = IF i = x THEN r ELSE Keine
  BY DEF Eines, OhneRes
<1>3. \A i \in Ids : inhalt.res[i] \in Reservierung
  BY DEF TypeOK, Content
<1> HIDE DEF j
<1>4. /\ inhalt' \in Content /\ fehler' \in 0 .. MaxFehler
      /\ \A i \in Ids : \/ inhalt'.res[i] = inhalt.res[i]
                        \/ inhalt'.res[i] = pick_reservierung(inhalt.res[i], j.res[i])
      /\ \A i \in Ids : inhalt.res[i].status = "done" => inhalt'.res[i].status = "done"
      /\ Schreibt(j) => \A i \in Ids :
           inhalt'.res[i] = pick_reservierung(inhalt.res[i], j.res[i])
  BY <1>1, Schreiben DEF j
<1>5. \A i \in Ids : i # x => inhalt'.res[i] = inhalt.res[i]
  BY <1>2, <1>3, <1>4, PickFacts, RecordTypes
<1> QED
  BY <1>2, <1>4, <1>5 DEF j

\* A closing record: either it is in the document, or its failure is known.
LEMMA Schliessen ==
  ASSUME TypeOK, NEW x \in Ids, NEW r \in Reservierung, r.status \in {"released", "done"},
         Schliesst(x, r)
  PROVE  /\ inhalt' \in Content /\ fehler' \in 0 .. MaxFehler
         /\ verfehlt' \subseteq Ids /\ verfehlt \subseteq verfehlt'
         /\ verfehlt' \subseteq verfehlt \cup {x}
         /\ \A i \in Ids : i # x => inhalt'.res[i] = inhalt.res[i]
         /\ \A i \in Ids : inhalt.res[i].status = "done" => inhalt'.res[i].status = "done"
         /\ x \in verfehlt' \/ inhalt'.res[x].status # "offen"
         /\ r.status = "done" => x \in verfehlt' \/ inhalt'.res[x].status = "done"
<1>1. /\ inhalt' \in Content /\ fehler' \in 0 .. MaxFehler
      /\ \A i \in Ids : i # x => inhalt'.res[i] = inhalt.res[i]
      /\ \A i \in Ids : inhalt.res[i].status = "done" => inhalt'.res[i].status = "done"
      /\ Schreibt(Eines(x, r)) => inhalt'.res[x] = pick_reservierung(inhalt.res[x], r)
  BY EinesSchreiben DEF Schliesst
<1>2. \/ Schreibt(Eines(x, r)) /\ verfehlt' = verfehlt
      \/ verfehlt' = verfehlt \cup {x}
  BY DEF Schliesst
<1>3. inhalt.res[x] \in Reservierung
  BY DEF TypeOK, Content
<1> QED
  BY <1>1, <1>2, <1>3, PickFacts DEF TypeOK

-----------------------------------------------------------------------------
(***************************************************************************)
(* Types                                                                   *)
(***************************************************************************)
LEMMA InitInv == Init => IInv
<1> SUFFICES ASSUME Init PROVE IInv
  OBVIOUS
<1> USE DEF Init
<1>1. TypeOK
  BY ReservierungConstantsOK, LeerType, DocTypes
  DEF TypeOK, Zeiten, Schritte
<1>2. \A l \in Laeufe, i \in Ids : lokal[l][i] = Keine
  BY DEF OhneRes
<1>3. LokalInv /\ GenommenInv
  BY <1>2 DEF LokalInv, GenommenInv
<1>4. \A i \in Ids : inhalt.res[i].status = "fehlt"
  BY DEF LeererInhalt, Keine
<1>5. ZuInv
  BY <1>4 DEF ZuInv
<1>6. \A i \in TierIds : i[2] # 0
  <2>1. \A i \in TierIds : i[1] \in Laeufe /\ i[2] \in DOMAIN Fach[i[1]]
    BY Ansprueche
  <2> QED
    BY <2>1, WindowTypes
<1>7. GebuchtInv
  <2>1. \A i \in TierIds : i[1] \in Laeufe /\ i[2] \in Nat
    BY Ansprueche
  <2>2. \A i \in TierIds : ~(i[2] < fach[i[1]])
    <3> SUFFICES ASSUME NEW i \in TierIds PROVE ~(i[2] < fach[i[1]])
      OBVIOUS
    <3>1. i[1] \in Laeufe /\ i[2] \in Nat /\ i[2] # 0
      BY <1>6, <2>1
    <3>2. fach[i[1]] = 1
      BY <3>1
    <3> QED
      BY <3>1, <3>2
  <2> QED
    BY <2>2 DEF GebuchtInv, Gebucht
<1>8. AnspruchInv
  BY <1>4, Ansprueche DEF AnspruchInv
<1>9. FortschrittInv
  <2>1. \A l \in Laeufe : fach[l] = 1 /\ pc[l] = "aus"
    BY DEF Prozesse
  <2> QED
    BY <2>1 DEF FortschrittInv, FortschrittVon
<1> QED
  BY <1>1, <1>3, <1>5, <1>7, <1>8, <1>9 DEF IInv

\* The part of TypeOK that is not about the document.
OrtOK ==
  /\ pc \in [Prozesse -> Schritte]
  /\ lager \in [Laeufe -> SUBSET Cells]
  /\ lokal \in [Laeufe -> [Ids -> Reservierung]]
  /\ ab \in [Laeufe -> Nat]
  /\ fach \in [Laeufe -> Nat \ {0}]
  /\ offen \in [Laeufe -> SUBSET Cells]
  /\ punkte \in [Laeufe -> 0 .. Worker]
  /\ meldung \in [Laeufe -> {"keine", "unterwegs", "fertig"}]
  /\ erledigt \in [Laeufe -> SUBSET Cells]
  /\ genommen \in [Laeufe -> SUBSET Ids]
  /\ gemeldet \in [Laeufe -> SUBSET Ids]

DokOK ==
  /\ inhalt \in Content
  /\ von \in [Ids -> Zeiten] /\ eta \in [Ids -> {0} \cup EtaWerte]
  /\ zeit \in Zeiten /\ fehler \in 0 .. MaxFehler
  /\ verfehlt \subseteq Ids

LEMMA TypeParts == TypeOK <=> OrtOK /\ DokOK
BY DEF TypeOK, OrtOK, DokOK

\* What the counter of a run covers is settled before it starts.
LEMMA AbStep == [Next]_vars => ab' = ab
<1> SUFFICES ASSUME Next PROVE ab' = ab
  BY DEF vars
<1>1. ASSUME NEW l \in Laeufe, Sweep(l) PROVE ab' = ab
  BY <1>1 DEF Sweep, LaufStart, SweepUrteil, SweepFreigabe, SweepBeleg
<1>2. ASSUME NEW l \in Laeufe, Fenster(l) PROVE ab' = ab
  BY <1>2 DEF Fenster, FensterBeginn, EtaSchrieb, FensterDone, FensterAbbruch, LaufEnde,
     AtomUebersprungen, AtomKompiliert
<1>3. ASSUME \/ \E p \in Planer : BlockBeginn(p) \/ BlockEnde(p)
             \/ \E p \in Prozesse : Absturz(p)
             \/ Tick
      PROVE  ab' = ab
  BY <1>3 DEF BlockBeginn, BlockEnde, Absturz, Tick
<1> QED
  BY <1>1, <1>2, <1>3 DEF Next

LEMMA OrtStep == TypeOK /\ [Next]_vars => OrtOK'
<1> SUFFICES ASSUME TypeOK, [Next]_vars PROVE OrtOK'
  OBVIOUS
<1>0. OrtOK /\ inhalt \in Content
  BY DEF TypeOK, OrtOK
<1> USE <1>0 DEF OrtOK, Goto, Schritte, Prozesse, dokument, sweep, bau
<1>1. ASSUME NEW l \in Laeufe, LaufStart(l) PROVE OrtOK'
  <2>1. Im(inhalt) \subseteq Cells
    BY DEF Im
  <2> QED
    BY <1>1, <2>1 DEF LaufStart
<1>2. ASSUME NEW l \in Laeufe, SweepUrteil(l) PROVE OrtOK'
  <2>1. lokal' \in [Laeufe -> [Ids -> Reservierung]]
    <3>1. \A i \in Ids : [inhalt.res[i] EXCEPT !.status = "released"] \in Reservierung
      <4>1. \A i \in Ids : inhalt.res[i] \in Reservierung
        BY DEF Content
      <4> QED
        BY <4>1, ReleaseType
    <3> DEFINE z == [i \in Ids |-> IF i \in collect_takeable_reservations(l)
                                   THEN [inhalt.res[i] EXCEPT !.status = "released"]
                                   ELSE Keine]
    <3>2. z \in [Ids -> Reservierung]
      BY <3>1, RecordTypes
    <3>3. lokal' = lokal \/ lokal' = [lokal EXCEPT ![l] = z]
      BY <1>2 DEF SweepUrteil
    <3> QED
      BY <3>2, <3>3
  <2> QED
    BY <1>2, <2>1 DEF SweepUrteil
<1>3. ASSUME NEW l \in Laeufe, SweepFreigabe(l) PROVE OrtOK'
  <2>1. OhneRes \in [Ids -> Reservierung]
    BY DocTypes
  <2>2. Kandidaten(l) \subseteq Ids
    BY DEF Kandidaten
  <2>3. lokal' = lokal \/ lokal' = [lokal EXCEPT ![l] = OhneRes]
    BY <1>3 DEF SweepFreigabe
  <2>4. pc' = [pc EXCEPT ![l] = "beleg"] \/ pc' = [pc EXCEPT ![l] = "fenster"]
    BY <1>3 DEF SweepFreigabe
  <2>5. pc' \in [Prozesse -> Schritte]
    BY <2>4
  <2>7. lokal' \in [Laeufe -> [Ids -> Reservierung]]
    BY <2>1, <2>3
  <2>6. genommen' \in [Laeufe -> SUBSET Ids]
    BY <1>3, <2>2 DEF SweepFreigabe
  <2> QED
    BY <1>3, <2>5, <2>6, <2>7 DEF SweepFreigabe
<1>4. ASSUME NEW l \in Laeufe, SweepBeleg(l) PROVE OrtOK'
  <2>1. OhneRes \in [Ids -> Reservierung]
    BY DocTypes
  <2>2. Kandidaten(l) \subseteq Ids
    BY DEF Kandidaten
  <2> QED
    BY <1>4, <2>1, <2>2 DEF SweepBeleg
<1>5. ASSUME NEW l \in Laeufe, FensterBeginn(l) PROVE OrtOK'
  <2>1. Fach[l][Nr(l)] \subseteq Cells
    BY <1>5, WindowTypes DEF FensterBeginn
  <2> QED
    BY <1>5, <2>1 DEF FensterBeginn
<1>6. ASSUME NEW l \in Laeufe, EtaSchrieb(l) PROVE OrtOK'
  BY <1>6 DEF EtaSchrieb
<1>7. ASSUME NEW l \in Laeufe, FensterDone(l) PROVE OrtOK'
  <2>1. fach' \in [Laeufe -> Nat \ {0}]
    BY <1>7 DEF FensterDone
  <2>2. punkte' \in [Laeufe -> 0 .. Worker]
    BY <1>7, ReservierungConstantsOK DEF FensterDone, Kanalende
  <2>3. offen' \in [Laeufe -> SUBSET Cells]
    BY <1>7 DEF FensterDone, Kanalende
  <2>4. meldung' \in [Laeufe -> {"keine", "unterwegs", "fertig"}]
    BY <1>7 DEF FensterDone, Kanalende
  <2> QED
    BY <1>7, <2>1, <2>2, <2>3, <2>4 DEF FensterDone
<1>8. ASSUME NEW p, Vergisst(p)
      PROVE  /\ lager' \in [Laeufe -> SUBSET Cells]
             /\ lokal' \in [Laeufe -> [Ids -> Reservierung]]
             /\ offen' \in [Laeufe -> SUBSET Cells]
             /\ punkte' \in [Laeufe -> 0 .. Worker]
             /\ meldung' \in [Laeufe -> {"keine", "unterwegs", "fertig"}]
             /\ erledigt' \in [Laeufe -> SUBSET Cells]
             /\ genommen' \in [Laeufe -> SUBSET Ids]
             /\ gemeldet' \in [Laeufe -> SUBSET Ids]
  <2>1. lokal' \in [Laeufe -> [Ids -> Reservierung]]
    BY <1>8, DocTypes DEF Vergisst
  <2>2. punkte' \in [Laeufe -> 0 .. Worker]
    BY <1>8, ReservierungConstantsOK DEF Vergisst
  <2>3. /\ lager' \in [Laeufe -> SUBSET Cells]
        /\ offen' \in [Laeufe -> SUBSET Cells]
        /\ erledigt' \in [Laeufe -> SUBSET Cells]
    BY <1>8 DEF Vergisst
  <2>4. meldung' \in [Laeufe -> {"keine", "unterwegs", "fertig"}]
    BY <1>8 DEF Vergisst
  <2>5. genommen' \in [Laeufe -> SUBSET Ids] /\ gemeldet' \in [Laeufe -> SUBSET Ids]
    BY <1>8 DEF Vergisst
  <2> QED
    BY <2>1, <2>2, <2>3, <2>4, <2>5
<1>9. ASSUME NEW l \in Laeufe, FensterAbbruch(l) PROVE OrtOK'
  BY <1>8, <1>9 DEF FensterAbbruch
<1>10. ASSUME NEW l \in Laeufe, LaufEnde(l) PROVE OrtOK'
  BY <1>10 DEF LaufEnde
<1>11. ASSUME NEW l \in Laeufe, NEW a \in Cells, AtomUebersprungen(l, a) PROVE OrtOK'
  BY <1>11 DEF AtomUebersprungen, AtomFertig
<1>12. ASSUME NEW l \in Laeufe, NEW a \in Cells, AtomKompiliert(l, a) PROVE OrtOK'
  <2>1. punkte' \in [Laeufe -> 0 .. Worker]
    BY <1>12, ReservierungConstantsOK DEF AtomKompiliert
  <2>2. meldung' \in [Laeufe -> {"keine", "unterwegs", "fertig"}]
    BY <1>12 DEF AtomKompiliert
  <2>3. offen' \in [Laeufe -> SUBSET Cells] /\ erledigt' \in [Laeufe -> SUBSET Cells]
    BY <1>12 DEF AtomKompiliert, AtomFertig
  <2> QED
    BY <1>12, <2>1, <2>2, <2>3 DEF AtomKompiliert
<1>13. ASSUME NEW p \in Planer, BlockBeginn(p) \/ BlockEnde(p) PROVE OrtOK'
  <2>1. \E x \in {"bau", "ende", "abbruch"} : pc' = [pc EXCEPT ![p] = x]
    BY <1>13 DEF BlockBeginn, BlockEnde
  <2>2. UNCHANGED <<lager, sweep, ab, fach, bau>>
    BY <1>13 DEF BlockBeginn, BlockEnde
  <2> QED
    BY <2>1, <2>2
<1>14. ASSUME NEW p \in Prozesse, Absturz(p) PROVE OrtOK'
  BY <1>8, <1>14 DEF Absturz
<1>15. ASSUME Tick \/ UNCHANGED vars PROVE OrtOK'
  BY <1>15 DEF Tick, vars
<1> QED
  BY <1>1, <1>2, <1>3, <1>4, <1>5, <1>6, <1>7, <1>9, <1>10, <1>11, <1>12, <1>13, <1>14,
     <1>15 DEF Next, Sweep, Fenster

\* The claim of the window a run works on.
LEMMA IdTyp ==
  ASSUME TypeOK, NEW l \in Laeufe, Nr(l) \in DOMAIN Fach[l]
  PROVE  Id(l) \in TierIds /\ Id(l) \in Ids /\ FachNr(Id(l)) = Nr(l)
<1>1. ab[l] \in Nat /\ fach[l] \in Nat \ {0}
  BY DEF TypeOK
<1>2. Fach[l] \in Seq(SUBSET Cells)
  BY ReservierungConstantsOK
<1>3. fach[l] \in DOMAIN Fach[l]
  BY <1>1, <1>2 DEF Nr
<1> QED
  BY <1>3, Ansprueche DEF Id, Nr, FachNr

LEMMA DokStep == IInv /\ [Next]_vars => DokOK'
<1> SUFFICES ASSUME IInv, [Next]_vars PROVE DokOK'
  OBVIOUS
<1>0. DokOK /\ TypeOK
  BY TypeParts DEF IInv
<1> USE <1>0, ReservierungConstantsOK DEF DokOK, dokument, sweep, bau
<1>1. ASSUME NEW l \in Laeufe, LaufStart(l) \/ SweepUrteil(l) \/ SweepBeleg(l)
      PROVE  DokOK'
  <2>1. fehler' \in 0 .. MaxFehler
    BY <1>1 DEF LaufStart, SweepUrteil, SweepBeleg, Fehler
  <2> QED
    BY <1>1, <2>1 DEF LaufStart, SweepUrteil, SweepBeleg
<1>2. ASSUME NEW l \in Laeufe, SweepFreigabe(l) PROVE DokOK'
  <2>1. [Bestand({}) EXCEPT !.res = lokal[l]] \in Content
    BY DocTypes DEF TypeOK
  <2>2. inhalt' \in Content /\ fehler' \in 0 .. MaxFehler
    BY <1>2, <2>1, Schreiben DEF SweepFreigabe
  <2> QED
    BY <1>2, <2>2 DEF SweepFreigabe
<1>3. ASSUME NEW l \in Laeufe, FensterBeginn(l) PROVE DokOK'
  <2>1. inhalt' \in Content /\ fehler' \in 0 .. MaxFehler
    BY <1>3, IdTyp, EinesSchreiben, RecordTypes DEF FensterBeginn
  <2> QED
    BY <1>3, <2>1 DEF FensterBeginn
<1>4. ASSUME NEW l \in Laeufe, EtaSchrieb(l) PROVE DokOK'
  <2>1. inhalt' \in Content /\ fehler' \in 0 .. MaxFehler
    BY <1>4, IdTyp, EinesSchreiben, RecordTypes
    DEF EtaSchrieb, IInv, FortschrittInv, FortschrittVon
  <2> QED
    BY <1>4, <2>1 DEF EtaSchrieb
<1>5. ASSUME NEW l \in Laeufe, FensterDone(l) \/ FensterAbbruch(l) PROVE DokOK'
  <2>1. Id(l) \in Ids
    BY <1>5, IdTyp DEF FensterDone, FensterAbbruch, IInv, FortschrittInv, FortschrittVon
  <2>2. Done.status = "done" /\ Released.status = "released"
    BY DEF Done, Released
  <2>3. inhalt' \in Content /\ fehler' \in 0 .. MaxFehler /\ verfehlt' \subseteq Ids
    BY <1>5, <2>1, <2>2, Schliessen, RecordTypes DEF FensterDone, FensterAbbruch
  <2> QED
    BY <1>5, <2>3 DEF FensterDone, FensterAbbruch
<1>6. ASSUME NEW l \in Laeufe, LaufEnde(l) PROVE DokOK'
  <2>1. inhalt' \in Content /\ fehler' \in 0 .. MaxFehler
    BY <1>6, DocTypes, Schreiben DEF LaufEnde
  <2> QED
    BY <1>6, <2>1 DEF LaufEnde
<1>7. ASSUME NEW l \in Laeufe, NEW a \in Cells, AtomUebersprungen(l, a) PROVE DokOK'
  BY <1>7 DEF AtomUebersprungen
<1>8. ASSUME NEW l \in Laeufe, NEW a \in Cells, AtomKompiliert(l, a) PROVE DokOK'
  BY <1>8 DEF AtomKompiliert
<1>9. ASSUME NEW p \in Planer, BlockBeginn(p) PROVE DokOK'
  <2>1. inhalt' \in Content /\ fehler' \in 0 .. MaxFehler
    BY <1>9, Ansprueche, EinesSchreiben, RecordTypes DEF BlockBeginn
  <2> QED
    BY <1>9, <2>1 DEF BlockBeginn
<1>10. ASSUME NEW p \in Planer, BlockEnde(p) PROVE DokOK'
  <2>1. [Done EXCEPT !.eta = FALSE].status = "done" /\ Released.status = "released"
    BY DEF Done, Released
  <2>2. inhalt' \in Content /\ fehler' \in 0 .. MaxFehler /\ verfehlt' \subseteq Ids
    BY <1>10, <2>1, Ansprueche, Schliessen, RecordTypes DEF BlockEnde
  <2> QED
    BY <1>10, <2>2 DEF BlockEnde
<1>11. ASSUME NEW p \in Prozesse, Absturz(p) PROVE DokOK'
  BY <1>11 DEF Absturz
<1>12. ASSUME Tick PROVE DokOK'
  BY <1>12 DEF Tick, Zeiten
<1>13. ASSUME UNCHANGED vars PROVE DokOK'
  BY <1>13 DEF vars
<1> QED
  BY <1>1, <1>2, <1>3, <1>4, <1>5, <1>6, <1>7, <1>8, <1>9, <1>10, <1>11, <1>12, <1>13
  DEF Next, Sweep, Fenster

-----------------------------------------------------------------------------
(***************************************************************************)
(* What a sweep carries                                                    *)
(***************************************************************************)
\* A claim that can be taken is the run's own work.
LEMMA TakeableDeckt ==
  ASSUME AnspruchInv, NEW l \in Laeufe, NEW i \in collect_takeable_reservations(l)
  PROVE  Deckt(l, i)
<1>1. /\ i \in TierIds /\ inhalt.res[i].status = "offen"
      /\ scope_covers_slice(l, slice_window_bounds(FachVon(i)))
  BY DEF collect_takeable_reservations, is_reservation_takeable
<1>2. i[1] \in Laeufe /\ FachNr(i) \in DOMAIN Fach[i[1]]
  BY <1>1, Ansprueche DEF AnspruchInv
<1>3. FachVon(i) \in Faecher /\ FachVon(i) \subseteq Nat
  BY <1>2, WindowTypes DEF Faecher, FachVon
<1> QED
  BY <1>1, <1>3, ScopeCovers DEF Deckt

LEMMA LokalStep == IInv /\ [Next]_vars => LokalInv'
<1> SUFFICES ASSUME IInv, [Next]_vars, NEW l \in Laeufe, NEW i \in Ids,
                    lokal'[l][i] # Keine
             PROVE  lokal'[l][i].status = "released" /\ Deckt(l, i)
  BY AbStep DEF LokalInv, Deckt, Auswahl, FachVon, FachNr
<1>0. lokal \in [Laeufe -> [Ids -> Reservierung]] /\ inhalt \in Content
  BY DEF IInv, TypeOK
<1>1. CASE lokal'[l][i] = lokal[l][i]
  BY <1>1 DEF IInv, LokalInv
<1>2. CASE \E m \in Laeufe : SweepUrteil(m)
  <2>1. PICK m \in Laeufe : SweepUrteil(m)
    BY <1>2
  <2>2. CASE lokal' = lokal
    BY <1>1, <2>2
  <2>3. CASE lokal' # lokal
    <3> DEFINE z == [j \in Ids |-> IF j \in collect_takeable_reservations(m)
                                   THEN [inhalt.res[j] EXCEPT !.status = "released"]
                                   ELSE Keine]
    <3>1. lokal' = [lokal EXCEPT ![m] = z]
      BY <2>1, <2>3 DEF SweepUrteil
    <3>2. CASE m # l
      BY <1>0, <1>1, <3>1, <3>2
    <3>3. CASE m = l
      <4>1. lokal'[l][i] = z[i]
        BY <1>0, <3>1, <3>3
      <4>2. i \in collect_takeable_reservations(l)
        BY <3>3, <4>1
      <4>3. z[i] = [inhalt.res[i] EXCEPT !.status = "released"]
        BY <3>3, <4>2
      <4>4. inhalt.res[i] \in Reservierung
        BY <1>0 DEF Content
      <4>5. z[i].status = "released"
        BY <4>3, <4>4, ReleaseType
      <4> QED
        BY <4>1, <4>2, <4>5, TakeableDeckt DEF IInv
    <3> QED
      BY <3>2, <3>3
  <2> QED
    BY <2>2, <2>3
<1>3. CASE lokal' # lokal /\ ~\E m \in Laeufe : SweepUrteil(m)
  <2>1. \/ \E m \in Laeufe : SweepFreigabe(m) \/ SweepBeleg(m)
        \/ \E m \in Prozesse : Vergisst(m)
    BY <1>3 DEF Next, Sweep, Fenster, LaufStart, FensterBeginn, Prozesse,
       EtaSchrieb, FensterDone, FensterAbbruch, LaufEnde, AtomUebersprungen, AtomKompiliert,
       BlockBeginn, BlockEnde, Absturz, Tick, vars, sweep
  <2>2. lokal'[l][i] = lokal[l][i] \/ lokal'[l][i] = OhneRes[i]
    BY <1>0, <2>1 DEF SweepFreigabe, SweepBeleg, Vergisst
  <2> QED
    BY <1>1, <2>2 DEF OhneRes
<1> QED
  BY <1>1, <1>2, <1>3

LEMMA GenommenStep == IInv /\ [Next]_vars => GenommenInv'
<1> SUFFICES ASSUME IInv, [Next]_vars, NEW l \in Laeufe, NEW i \in genommen'[l]
             PROVE  Deckt(l, i)
  BY AbStep DEF GenommenInv, Deckt, Auswahl, FachVon, FachNr
<1>0. genommen \in [Laeufe -> SUBSET Ids]
  BY DEF IInv, TypeOK
<1>1. CASE genommen'[l] \subseteq genommen[l]
  BY <1>1 DEF IInv, GenommenInv
<1>2. CASE \E m \in Laeufe : SweepFreigabe(m)
  <2>1. PICK m \in Laeufe : genommen' = [genommen EXCEPT ![m] = Kandidaten(m)]
    BY <1>2 DEF SweepFreigabe
  <2>2. CASE i \in Kandidaten(l)
    BY <2>2 DEF Kandidaten, IInv, LokalInv
  <2> QED
    BY <1>0, <1>1, <2>1, <2>2
<1>3. CASE ~\E m \in Laeufe : SweepFreigabe(m)
  <2>1. genommen' = genommen \/ \E m \in Prozesse : Vergisst(m)
    BY <1>3 DEF Next, Sweep, Fenster, LaufStart, SweepUrteil, SweepBeleg, FensterBeginn,
       EtaSchrieb, FensterDone, FensterAbbruch, LaufEnde, AtomUebersprungen, AtomKompiliert,
       BlockBeginn, BlockEnde, Absturz, Tick, vars, sweep, Prozesse
  <2> QED
    BY <1>1, <2>1 DEF Vergisst
<1> QED
  BY <1>2, <1>3

-----------------------------------------------------------------------------
(***************************************************************************)
(* Open claims and booked windows                                          *)
(***************************************************************************)
\* A step that writes no record, ends no process and no window.
Still ==
  /\ UNCHANGED <<inhalt, fach, verfehlt>>
  /\ \/ pc' = pc
     \/ \E p \in Prozesse, x \in Schritte \ {"ende", "abbruch"} :
          /\ pc' = [pc EXCEPT ![p] = x]
          /\ pc[p] \in {"bau", "tot"} => x = "tot"

LEMMA StillSteps ==
  ASSUME TypeOK, [Next]_vars
  PROVE  \/ Still
         \/ \E l \in Laeufe : \/ SweepFreigabe(l) \/ FensterBeginn(l) \/ EtaSchrieb(l)
                              \/ FensterDone(l) \/ FensterAbbruch(l) \/ LaufEnde(l)
         \/ \E p \in Planer : BlockBeginn(p) \/ BlockEnde(p)
<1> USE DEF dokument, sweep, bau, Goto, Schritte
<1>1. ASSUME NEW l \in Laeufe, LaufStart(l) \/ SweepUrteil(l) \/ SweepBeleg(l) PROVE Still
  <2>1. /\ UNCHANGED <<inhalt, fach, verfehlt>> /\ pc[l] \notin {"bau", "tot"}
        /\ l \in Prozesse
        /\ \E x \in {"urteil", "freigabe", "fenster"} : pc' = [pc EXCEPT ![l] = x]
    BY <1>1 DEF LaufStart, SweepUrteil, SweepBeleg, Prozesse
  <2> QED
    BY <2>1 DEF Still
<1>2. ASSUME NEW p \in Prozesse, Absturz(p) PROVE Still
  BY <1>2 DEF Absturz, Still
<1>3. ASSUME UNCHANGED <<inhalt, fach, verfehlt, pc>> PROVE Still
  BY <1>3 DEF Still
<1>4. ASSUME NEW l \in Laeufe, NEW a \in Cells, AtomUebersprungen(l, a) \/ AtomKompiliert(l, a)
      PROVE Still
  BY <1>3, <1>4 DEF AtomUebersprungen, AtomKompiliert
<1>5. ASSUME Tick \/ UNCHANGED vars PROVE Still
  BY <1>3, <1>5 DEF Tick, vars
<1> QED
  BY <1>1, <1>2, <1>4, <1>5 DEF Next, Sweep, Fenster

\* Of the claims that may not be open, only the closed one is new after a
\* closing write, and none after another.
LEMMA StillInv ==
  ASSUME IInv, Still
  PROVE  ZuInv' /\ GebuchtInv'
<1>1. \A i \in Ids : i[1] \in Prozesse
  BY Inhaber
<1>2. pc \in [Prozesse -> Schritte]
  BY DEF IInv, TypeOK
<1>3. \A i \in Ids : Zu(i)' => Zu(i)
  <2>1. CASE pc' = pc
    BY <2>1 DEF Zu, Still
  <2>2. CASE pc' # pc
    <3>1. PICK p \in Prozesse, x \in Schritte \ {"ende", "abbruch"} :
             /\ pc' = [pc EXCEPT ![p] = x]
             /\ pc[p] \in {"bau", "tot"} => x = "tot"
      BY <2>2 DEF Still
    <3>2. \A q \in Prozesse : pc'[q] = IF q = p THEN x ELSE pc[q]
      BY <1>2, <3>1
    <3> QED
      BY <1>1, <3>1, <3>2 DEF Zu, Still
  <2> QED
    BY <2>1, <2>2
<1>4. Gebucht' = Gebucht
  BY DEF Gebucht, Still
<1> QED
  BY <1>3, <1>4 DEF IInv, ZuInv, GebuchtInv, Still

\* A sweep opens no claim.
LEMMA SweepSchreibt ==
  ASSUME IInv, NEW l \in Laeufe, SweepFreigabe(l)
  PROVE  \A i \in Ids :
           /\ inhalt.res[i].status = "done" => inhalt'.res[i].status = "done"
           /\ inhalt.res[i].status # "offen" => inhalt'.res[i].status # "offen"
<1> DEFINE j == [Bestand({}) EXCEPT !.res = lokal[l]]
<1>1. TypeOK /\ lokal[l] \in [Ids -> Reservierung]
  BY DEF IInv, TypeOK
<1>2. j \in Content /\ j.res = lokal[l]
  BY <1>1, DocTypes DEF Bestand
<1>3. \A i \in Ids : j.res[i].status # "offen"
  BY <1>2 DEF IInv, LokalInv, Keine
<1> HIDE DEF j
<1>4. \A i \in Ids : inhalt.res[i] \in Reservierung /\ j.res[i] \in Reservierung
  BY <1>1, <1>2 DEF TypeOK, Content
<1>5. /\ \A i \in Ids : \/ inhalt'.res[i] = inhalt.res[i]
                        \/ inhalt'.res[i] = pick_reservierung(inhalt.res[i], j.res[i])
      /\ \A i \in Ids : inhalt.res[i].status = "done" => inhalt'.res[i].status = "done"
  <2>1. Schreibt(j) \/ Schreibfehler(j)
    BY DEF SweepFreigabe, j
  <2> QED
    BY <1>1, <1>2, <2>1, Schreiben
<1> QED
  BY <1>3, <1>4, <1>5, PickFacts

\* Every other step writes at most the claim x of its process or closed ones.
LEMMA SweepWrite ==
  ASSUME IInv, NEW l \in Laeufe, SweepFreigabe(l)
  PROVE  ZuInv' /\ GebuchtInv'
<1>1. TypeOK
  BY DEF IInv
<1>2. \A i \in Ids : inhalt.res[i].status = "done" => inhalt'.res[i].status = "done"
  BY SweepSchreibt
<1>3. \A i \in Ids : inhalt.res[i].status # "offen" => inhalt'.res[i].status # "offen"
  BY SweepSchreibt
<1>4. UNCHANGED <<fach, verfehlt>> /\ l \in Prozesse
      /\ pc[l] = "freigabe" /\ \E x \in {"beleg", "fenster"} : pc' = [pc EXCEPT ![l] = x]
  BY DEF SweepFreigabe, Goto, Prozesse
<1>5. \A i \in Ids : i[1] \in Prozesse
  BY Inhaber
<1>6. \A i \in Ids : Zu(i)' => Zu(i)
  BY <1>1, <1>4, <1>5 DEF Zu, TypeOK
<1>7. Gebucht' = Gebucht /\ Gebucht \subseteq Ids
  BY <1>4, Ansprueche DEF Gebucht
<1> QED
  BY <1>2, <1>3, <1>4, <1>6, <1>7 DEF IInv, ZuInv, GebuchtInv

\* A process writes the open claim x, which it is working on.
LEMMA OffenWrite ==
  ASSUME IInv, NEW x \in Ids, NEW r \in Reservierung,
         Schreibt(Eines(x, r)) \/ Schreibfehler(Eines(x, r)),
         pc' = [pc EXCEPT ![x[1]] = "bau"], UNCHANGED <<fach, verfehlt>>,
         x \in TierIds => x[2] = fach[x[1]],
         pc[x[1]] # "tot"
  PROVE  ZuInv' /\ GebuchtInv'
<1>1. TypeOK /\ \A i \in Ids : i[1] \in Prozesse
  BY Inhaber DEF IInv
<1>2. /\ \A i \in Ids : i # x => inhalt'.res[i] = inhalt.res[i]
      /\ \A i \in Ids : inhalt.res[i].status = "done" => inhalt'.res[i].status = "done"
  BY <1>1, EinesSchreiben
<1>3. \A q \in Prozesse : pc'[q] = IF q = x[1] THEN "bau" ELSE pc[q]
  BY <1>1 DEF TypeOK
<1>4. ~Zu(x)'
  BY <1>1, <1>3, Ansprueche DEF Zu, IInv, TypeOK
<1>5. \A i \in Ids : Zu(i)' => Zu(i)
  BY <1>1, <1>3 DEF Zu
<1>6. Gebucht' = Gebucht /\ Gebucht \subseteq Ids
  BY Ansprueche DEF Gebucht
<1> QED
  BY <1>2, <1>4, <1>5, <1>6 DEF IInv, ZuInv, GebuchtInv

\* A window ends: its claim is closed, or that this failed is known.
LEMMA DoneWrite ==
  ASSUME IInv, NEW l \in Laeufe, FensterDone(l)
  PROVE  ZuInv' /\ GebuchtInv'
<1>1. TypeOK /\ Nr(l) \in DOMAIN Fach[l] /\ pc[l] = "bau" /\ fach[l] \in Nat \ {0}
  BY DEF FensterDone, IInv, FortschrittInv, FortschrittVon, TypeOK
<1>2. Id(l) \in Ids /\ Id(l) \in TierIds /\ l \in Prozesse /\ Done.status = "done"
  BY <1>1, IdTyp DEF Prozesse, Done
<1>3. /\ verfehlt \subseteq verfehlt'
      /\ \A i \in Ids : i # Id(l) => inhalt'.res[i] = inhalt.res[i]
      /\ \A i \in Ids : inhalt.res[i].status = "done" => inhalt'.res[i].status = "done"
      /\ Id(l) \in verfehlt' \/ inhalt'.res[Id(l)].status = "done"
  BY <1>1, <1>2, Schliessen, RecordTypes DEF FensterDone
<1>4. /\ fach' = [fach EXCEPT ![l] = fach[l] + 1] /\ pc' = [pc EXCEPT ![l] = "fenster"]
      /\ fach \in [Laeufe -> Nat \ {0}] /\ pc \in [Prozesse -> Schritte]
  BY DEF FensterDone, Goto, IInv, TypeOK
<1>5. ASSUME NEW i \in Ids, Zu(i)' PROVE Zu(i)
  <2>1. i[1] \in Prozesse
    BY Inhaber
  <2>2. CASE i[1] = l
    <3>1. pc'[i[1]] = "fenster" /\ fach'[i[1]] = fach[l] + 1
      BY <1>2, <1>4, <2>2
    <3>2. i \in TierIds /\ i[2] \in Nat /\ i[2] >= fach[l] + 1
      BY <1>1, <1>5, <3>1, Ansprueche DEF Zu
    <3> QED
      BY <1>1, <2>2, <3>2 DEF Zu
  <2>3. CASE i[1] # l
    <3>1. pc'[i[1]] = pc[i[1]]
      BY <1>4, <2>1, <2>3
    <3>2. i \in TierIds => fach'[i[1]] = fach[i[1]]
      BY <1>4, <2>3, Ansprueche
    <3> QED
      BY <1>5, <3>1, <3>2 DEF Zu
  <2> QED
    BY <2>2, <2>3
<1>6. \A i \in Ids : Zu(i)' => i # Id(l)
  <2>1. fach'[l] = fach[l] + 1 /\ pc'[l] = "fenster"
    BY <1>2, <1>4
  <2>2. SUFFICES ASSUME NEW i \in Ids, i = <<l, fach[l]>>, Zu(i)' PROVE FALSE
    BY DEF Id
  <2>3. i[1] = l /\ i[2] = fach[l]
    BY <2>2
  <2> QED
    BY <1>1, <2>1, <2>2, <2>3 DEF Zu
<1>7. \A i \in Gebucht' : i \in Gebucht \/ i = Id(l)
  <2> SUFFICES ASSUME NEW i \in TierIds, i[2] < fach'[i[1]], i \notin verfehlt'
               PROVE  i \in Gebucht \/ i = Id(l)
    BY DEF Gebucht
  <2>1. i[1] \in Laeufe /\ i[2] \in Nat /\ i = <<i[1], i[2]>>
    BY Ansprueche
  <2>2. CASE i[1] = l
    <3>1. fach'[i[1]] = fach[l] + 1
      BY <1>4, <2>2
    <3>2. i[2] < fach[i[1]] \/ i[2] = fach[l]
      BY <1>1, <2>1, <2>2, <3>1
    <3> QED
      BY <1>3, <2>1, <2>2, <3>2 DEF Gebucht, Id
  <2>3. CASE i[1] # l
    BY <1>3, <1>4, <2>1, <2>3 DEF Gebucht
  <2> QED
    BY <2>2, <2>3
<1>8. Gebucht \subseteq Ids /\ Gebucht' \cap verfehlt' = {}
  BY Ansprueche DEF Gebucht
<1> QED
  BY <1>3, <1>5, <1>6, <1>7, <1>8, <1>2 DEF IInv, ZuInv, GebuchtInv

\* The registration writes no claim.
LEMMA EndeSchreibt ==
  ASSUME TypeOK, NEW l \in Laeufe, LaufEnde(l)
  PROVE  \A i \in Ids : inhalt'.res[i] = inhalt.res[i]
<1>1. PICK s : Schreibt(Bestand(s)) \/ Schreibfehler(Bestand(s))
  BY DEF LaufEnde
<1>2. Bestand(s) \in Content /\ \A i \in Ids : Bestand(s).res[i] = Keine
  BY DocTypes DEF Bestand, OhneRes
<1>3. \A i \in Ids : inhalt.res[i] \in Reservierung
  BY DEF TypeOK, Content
<1>4. \A i \in Ids : \/ inhalt'.res[i] = inhalt.res[i]
                     \/ inhalt'.res[i] = pick_reservierung(inhalt.res[i], Bestand(s).res[i])
  BY <1>1, <1>2, Schreiben
<1> QED
  BY <1>2, <1>3, <1>4, PickFacts

\* A process ends: the claims behind it are booked, the current one is closed,
\* later ones were never made.
LEMMA EndWrite ==
  ASSUME IInv, NEW l \in Laeufe, FensterAbbruch(l) \/ LaufEnde(l)
  PROVE  ZuInv' /\ GebuchtInv'
<1>1. TypeOK /\ fach \in [Laeufe -> Nat \ {0}] /\ pc \in [Prozesse -> Schritte]
      /\ UNCHANGED fach /\ l \in Prozesse
  BY DEF FensterAbbruch, LaufEnde, IInv, TypeOK, Prozesse
<1>2. \A q \in Prozesse : q # l => pc'[q] = pc[q]
  BY <1>1 DEF FensterAbbruch, LaufEnde, Goto
<1>3. ASSUME NEW i \in Ids, i[1] # l, Zu(i)' PROVE Zu(i)
  BY <1>1, <1>2, <1>3, Inhaber DEF Zu
<1>4. /\ verfehlt \subseteq verfehlt'
      /\ \A i \in Ids : i[1] # l \/ LaufEnde(l) => inhalt'.res[i] = inhalt.res[i]
      /\ \A i \in Ids : inhalt.res[i].status = "done" => inhalt'.res[i].status = "done"
  <2>1. CASE FensterAbbruch(l)
    <3>1. Id(l) \in Ids /\ Released.status = "released" /\ Id(l)[1] = l /\ ~LaufEnde(l)
      BY <2>1, IdTyp DEF FensterAbbruch, LaufEnde, IInv, FortschrittInv,
         FortschrittVon, Released, Id
    <3> QED
      BY <1>1, <2>1, <3>1, Schliessen, RecordTypes DEF FensterAbbruch
  <2>2. CASE LaufEnde(l)
    BY <2>2, EndeSchreibt DEF LaufEnde, IInv
  <2> QED
    BY <2>1, <2>2
<1>5. ASSUME NEW i \in Ids \ verfehlt', i[1] = l PROVE inhalt'.res[i].status # "offen"
  <2>1. i \in TierIds
    BY <1>5, Ansprueche
  <2>2. i[2] \in Nat /\ i = <<l, i[2]>> /\ i[2] \in DOMAIN Fach[l]
    BY <1>5, <2>1, Ansprueche
  <2>3. CASE i[2] < fach[l]
    BY <1>4, <1>5, <2>1, <2>3 DEF IInv, GebuchtInv, Gebucht
  <2>4. CASE LaufEnde(l) /\ i[2] >= fach[l]
    <3>1. Zu(i) /\ inhalt'.res[i] = inhalt.res[i] /\ i \notin verfehlt
      BY <1>1, <1>4, <1>5, <2>1, <2>2, <2>4 DEF Zu, LaufEnde
    <3> QED
      BY <1>5, <3>1 DEF IInv, ZuInv
  <2>5. CASE FensterAbbruch(l) /\ i[2] >= fach[l]
    <3>1. Id(l) \in Ids /\ Released.status = "released"
      BY <2>5, IdTyp DEF FensterAbbruch, IInv, FortschrittInv, FortschrittVon, Released
    <3>2. /\ Id(l) \in verfehlt' \/ inhalt'.res[Id(l)].status # "offen"
          /\ \A j \in Ids : j # Id(l) => inhalt'.res[j] = inhalt.res[j]
      BY <1>1, <2>5, <3>1, Schliessen, RecordTypes DEF FensterAbbruch
    <3>3. CASE i[2] = fach[l]
      BY <1>5, <2>2, <3>2, <3>3 DEF Id
    <3>4. CASE i[2] > fach[l]
      <4>1. i # Id(l) /\ Zu(i)
        BY <1>1, <1>5, <2>1, <2>2, <3>4 DEF Id, Zu
      <4> QED
        BY <1>4, <1>5, <3>2, <4>1 DEF IInv, ZuInv
    <3> QED
      BY <1>1, <2>2, <2>5, <3>3, <3>4
  <2> QED
    BY <1>1, <2>2, <2>3, <2>4, <2>5
<1>6. Gebucht' \subseteq Gebucht /\ Gebucht \subseteq Ids
  BY <1>1, <1>4, Ansprueche DEF Gebucht
<1>7. ZuInv'
  <2> SUFFICES ASSUME NEW i \in Ids \ verfehlt', Zu(i)' PROVE inhalt'.res[i].status # "offen"
    BY DEF ZuInv
  <2> QED
    BY <1>3, <1>4, <1>5 DEF IInv, ZuInv
<1> QED
  BY <1>4, <1>6, <1>7 DEF IInv, GebuchtInv

LEMMA BlockWrite ==
  ASSUME IInv, NEW p \in Planer, BlockEnde(p)
  PROVE  ZuInv' /\ GebuchtInv'
<1> DEFINE x == <<p, 0>>
<1>1. TypeOK /\ pc \in [Prozesse -> Schritte] /\ UNCHANGED fach /\ p \in Prozesse
  BY DEF BlockEnde, IInv, TypeOK, Prozesse
<1>2. x \in Ids /\ x \notin TierIds
  BY Ansprueche
<1>3. PICK r \in Reservierung : r.status \in {"released", "done"} /\ Schliesst(x, r)
  <2>1. [Done EXCEPT !.eta = FALSE].status = "done" /\ Released.status = "released"
    BY DEF Done, Released
  <2> QED
    BY <2>1, RecordTypes DEF BlockEnde
<1>4. /\ verfehlt \subseteq verfehlt'
      /\ \A i \in Ids : i # x => inhalt'.res[i] = inhalt.res[i]
      /\ \A i \in Ids : inhalt.res[i].status = "done" => inhalt'.res[i].status = "done"
      /\ x \in verfehlt' \/ inhalt'.res[x].status # "offen"
  BY <1>1, <1>2, <1>3, Schliessen
<1>5. ASSUME NEW i \in Ids, i # x, Zu(i)' PROVE Zu(i)
  <2>1. i[1] # p /\ i[1] \in Prozesse
    BY <1>2, <1>5, Ansprueche, Inhaber
  <2>2. pc'[i[1]] = pc[i[1]]
    BY <1>1, <2>1 DEF BlockEnde, Goto
  <2> QED
    BY <1>1, <1>5, <2>2 DEF Zu
<1>6. Gebucht' \subseteq Gebucht /\ Gebucht \subseteq Ids
  BY <1>1, <1>4, Ansprueche DEF Gebucht
<1> QED
  BY <1>4, <1>5, <1>6 DEF IInv, ZuInv, GebuchtInv

LEMMA BuchStep == IInv /\ [Next]_vars => ZuInv' /\ GebuchtInv'
<1> SUFFICES ASSUME IInv, [Next]_vars PROVE ZuInv' /\ GebuchtInv'
  OBVIOUS
<1>0. TypeOK
  BY DEF IInv
<1>1. ASSUME NEW l \in Laeufe, FensterBeginn(l) \/ EtaSchrieb(l)
      PROVE  ZuInv' /\ GebuchtInv'
  <2>1. /\ Nr(l) \in DOMAIN Fach[l] /\ pc[l] # "tot" /\ UNCHANGED <<fach, verfehlt>>
        /\ pc' = [pc EXCEPT ![l] = "bau"]
    BY <1>0, <1>1 DEF FensterBeginn, EtaSchrieb, Goto, IInv, TypeOK, FortschrittInv,
       FortschrittVon
  <2>2. Id(l) \in Ids /\ Id(l)[1] = l /\ Id(l)[2] = fach[l]
    BY <1>0, <2>1, IdTyp DEF Id
  <2> QED
    BY <1>1, <2>1, <2>2, OffenWrite, RecordTypes DEF FensterBeginn, EtaSchrieb
<1>2. ASSUME NEW p \in Planer, BlockBeginn(p) PROVE ZuInv' /\ GebuchtInv'
  <2>1. <<p, 0>> \in Ids /\ <<p, 0>> \notin TierIds /\ <<p, 0>>[1] = p
    BY Ansprueche
  <2>2. /\ pc[p] # "tot" /\ UNCHANGED <<fach, verfehlt>> /\ pc' = [pc EXCEPT ![p] = "bau"]
    BY <1>2 DEF BlockBeginn, Goto
  <2> QED
    BY <1>2, <2>1, <2>2, OffenWrite, RecordTypes DEF BlockBeginn
<1> QED
  BY <1>0, <1>1, <1>2, StillSteps, StillInv, SweepWrite, DoneWrite, EndWrite, BlockWrite

\* Only a window that is there is claimed.
LEMMA AnspruchStep == IInv /\ [Next]_vars => AnspruchInv'
<1> SUFFICES ASSUME IInv, [Next]_vars, NEW i \in TierIds, inhalt'.res[i].status = "offen"
             PROVE  FachNr(i) \in DOMAIN Fach[i[1]]
  BY AbStep DEF AnspruchInv, FachNr
<1>0. /\ TypeOK /\ i \in Ids
      /\ inhalt.res[i].status = "offen" => FachNr(i) \in DOMAIN Fach[i[1]]
  BY Ansprueche DEF IInv, AnspruchInv
<1>1. CASE Still
  BY <1>0, <1>1 DEF Still
<1>2. ASSUME NEW l \in Laeufe, SweepFreigabe(l) PROVE FachNr(i) \in DOMAIN Fach[i[1]]
  BY <1>0, <1>2, SweepSchreibt
<1>3. ASSUME NEW l \in Laeufe,
             \/ FensterBeginn(l) \/ EtaSchrieb(l) \/ FensterDone(l) \/ FensterAbbruch(l)
      PROVE  FachNr(i) \in DOMAIN Fach[i[1]]
  <2>1. Nr(l) \in DOMAIN Fach[l]
    BY <1>3 DEF FensterBeginn, EtaSchrieb, FensterDone, FensterAbbruch, IInv,
       FortschrittInv, FortschrittVon
  <2>2. Id(l) \in Ids /\ Id(l)[1] = l /\ FachNr(Id(l)) = Nr(l)
    BY <1>0, <2>1, IdTyp DEF Id
  <2>3. PICK r \in Reservierung : Schreibt(Eines(Id(l), r)) \/ Schreibfehler(Eines(Id(l), r))
    <3>1. \E r \in {Offen, Kalibriert, Done, Released} :
            Schreibt(Eines(Id(l), r)) \/ Schreibfehler(Eines(Id(l), r))
      BY <1>3 DEF FensterBeginn, EtaSchrieb, FensterDone, FensterAbbruch, Schliesst
    <3> QED
      BY <3>1, RecordTypes
  <2>4. i # Id(l) => inhalt'.res[i] = inhalt.res[i]
    BY <1>0, <2>2, <2>3, EinesSchreiben
  <2> QED
    BY <1>0, <2>1, <2>2, <2>4
<1>4. ASSUME NEW l \in Laeufe, LaufEnde(l) PROVE FachNr(i) \in DOMAIN Fach[i[1]]
  BY <1>0, <1>4, EndeSchreibt
<1>5. ASSUME NEW p \in Planer, BlockBeginn(p) \/ BlockEnde(p)
      PROVE  FachNr(i) \in DOMAIN Fach[i[1]]
  <2>1. <<p, 0>> \in Ids /\ i # <<p, 0>>
    BY Ansprueche
  <2>2. PICK r \in Reservierung :
          Schreibt(Eines(<<p, 0>>, r)) \/ Schreibfehler(Eines(<<p, 0>>, r))
    BY <1>5, RecordTypes DEF BlockBeginn, BlockEnde, Schliesst
  <2>3. inhalt'.res[i] = inhalt.res[i]
    BY <1>0, <2>1, <2>2, EinesSchreiben
  <2> QED
    BY <1>0, <2>3
<1> QED
  BY <1>0, <1>1, <1>2, <1>3, <1>4, <1>5, StillSteps

-----------------------------------------------------------------------------
(***************************************************************************)
(* Progress through the selection                                          *)
(***************************************************************************)
\* What the others do is no concern of a run.
LEMMA FortschrittFremd ==
  ASSUME NEW l \in Laeufe,
         FortschrittVon(l),
         pc'[l] = pc[l], ab' = ab, fach'[l] = fach[l], offen'[l] = offen[l],
         lager'[l] = lager[l], erledigt'[l] = erledigt[l]
  PROVE  FortschrittVon(l)'
BY DEF FortschrittVon, Hat, Nr, Gezaehlt

LEMMA FortschrittStep == IInv /\ [Next]_vars => FortschrittInv'
<1> SUFFICES ASSUME IInv, [Next]_vars, NEW l \in Laeufe PROVE FortschrittVon(l)'
  BY DEF FortschrittInv
<1>0. /\ pc \in [Prozesse -> Schritte] /\ l \in Prozesse /\ FortschrittVon(l)
      /\ lager \in [Laeufe -> SUBSET Cells] /\ offen \in [Laeufe -> SUBSET Cells]
      /\ fach \in [Laeufe -> Nat \ {0}] /\ erledigt \in [Laeufe -> SUBSET Cells]
      /\ ab \in [Laeufe -> Nat] /\ ab' = ab
  BY AbStep DEF IInv, TypeOK, FortschrittInv, Prozesse
<1>13. Nr(l) \in Nat \ {0} /\ Gezaehlt(l)' = Gezaehlt(l)
  BY <1>0 DEF Nr, Gezaehlt
<1> USE DEF Goto
<1>1. ASSUME NEW m \in Laeufe, LaufStart(m) PROVE FortschrittVon(l)'
  <2>1. CASE m = l
    <3>1. pc[l] = "aus" /\ pc'[l] = "urteil" /\ fach' = fach
      BY <1>0, <1>1, <2>1 DEF LaufStart
    <3> QED
      BY <1>0, <3>1 DEF FortschrittVon
  <2>2. CASE m # l
    <3>1. /\ pc'[l] = pc[l] /\ lager'[l] = lager[l] /\ UNCHANGED <<fach, offen, erledigt>>
      BY <1>0, <1>1, <2>2 DEF LaufStart, bau
    <3> QED
      BY <1>0, <3>1, FortschrittFremd
  <2> QED
    BY <2>1, <2>2
<1>2. ASSUME NEW m \in Laeufe, SweepUrteil(m) \/ SweepFreigabe(m) \/ SweepBeleg(m)
      PROVE  FortschrittVon(l)'
  <2>1. /\ UNCHANGED <<fach, lager, offen, erledigt>>
        /\ pc[m] \in {"urteil", "freigabe", "beleg"}
        /\ \E x \in {"freigabe", "beleg", "fenster"} : pc' = [pc EXCEPT ![m] = x]
    BY <1>2 DEF SweepUrteil, SweepFreigabe, SweepBeleg, bau
  <2>2. CASE m = l
    <3>1. fach[l] = 1 /\ pc'[l] \in {"freigabe", "beleg", "fenster"}
      BY <1>0, <2>1, <2>2 DEF FortschrittVon
    <3>2. \A k \in DOMAIN Fach[l] : k < Nr(l)' => Fach[l][k] \subseteq Gezaehlt(l)'
      <4> SUFFICES ASSUME NEW k \in DOMAIN Fach[l], k < ab[l] + 1
                   PROVE  k <= ab[l]
        BY <1>0, <2>1, <3>1 DEF Nr, Gezaehlt
      <4> QED
        BY <1>0, WindowTypes
    <3> QED
      BY <2>1, <3>1, <3>2 DEF FortschrittVon, Hat
  <2>3. CASE m # l
    <3>1. pc'[l] = pc[l]
      BY <1>0, <2>1, <2>3
    <3> QED
      BY <1>0, <2>1, <3>1, FortschrittFremd
  <2> QED
    BY <2>2, <2>3
<1>3. ASSUME NEW m \in Laeufe, FensterBeginn(m) PROVE FortschrittVon(l)'
  <2>1. CASE m = l
    <3>1. /\ pc[l] = "fenster" /\ pc'[l] = "bau" /\ UNCHANGED <<fach, lager, erledigt>>
          /\ Nr(l) \in DOMAIN Fach[l] /\ offen'[l] = Fach[l][Nr(l)] \ lager[l]
      BY <1>0, <1>3, <2>1 DEF FensterBeginn
    <3>2. Nr(l)' = Nr(l) /\ Hat(l)' = Hat(l)
      BY <1>0, <1>13, <3>1 DEF Nr, Hat
    <3> QED
      BY <1>0, <3>1, <3>2 DEF FortschrittVon, Hat
  <2>2. CASE m # l
    <3>1. /\ pc'[l] = pc[l] /\ offen'[l] = offen[l] /\ UNCHANGED <<fach, lager, erledigt>>
      BY <1>0, <1>3, <2>2 DEF FensterBeginn
    <3> QED
      BY <1>0, <3>1, FortschrittFremd
  <2> QED
    BY <2>1, <2>2
<1>4. ASSUME NEW m \in Laeufe, NEW a \in Cells,
             AtomUebersprungen(m, a) \/ AtomKompiliert(m, a)
      PROVE  FortschrittVon(l)'
  <2>1. /\ UNCHANGED <<pc, fach, lager>>
        /\ offen' = [offen EXCEPT ![m] = @ \ {a}]
        /\ erledigt' = [erledigt EXCEPT ![m] = @ \cup {a}]
    BY <1>4 DEF AtomUebersprungen, AtomKompiliert, AtomFertig
  <2>2. CASE m = l
    <3>1. offen'[l] = offen[l] \ {a} /\ erledigt'[l] = erledigt[l] \cup {a}
      BY <1>0, <2>1, <2>2
    <3>2. Nr(l)' = Nr(l) /\ Hat(l)' = Hat(l) \cup {a}
      BY <1>0, <1>13, <2>1, <3>1 DEF Nr, Hat
    <3> QED
      BY <1>0, <2>1, <3>1, <3>2 DEF FortschrittVon
  <2>3. CASE m # l
    <3>1. offen'[l] = offen[l] /\ erledigt'[l] = erledigt[l]
      BY <1>0, <2>1, <2>3
    <3> QED
      BY <1>0, <2>1, <3>1, FortschrittFremd
  <2> QED
    BY <2>2, <2>3
<1>5. ASSUME NEW m \in Laeufe, EtaSchrieb(m) PROVE FortschrittVon(l)'
  BY <1>0, <1>5, FortschrittFremd DEF EtaSchrieb
<1>6. ASSUME NEW m \in Laeufe, FensterDone(m) PROVE FortschrittVon(l)'
  <2>1. CASE m = l
    <3>1. /\ pc[l] = "bau" /\ pc'[l] = "fenster" /\ fach'[l] = fach[l] + 1
          /\ offen[l] = {} /\ UNCHANGED <<lager, erledigt>>
      BY <1>0, <1>6, <2>1 DEF FensterDone
    <3>2. \A k \in DOMAIN Fach[l] : k < Nr(l) + 1 => Fach[l][k] \subseteq Hat(l)
      <4> SUFFICES ASSUME NEW k \in DOMAIN Fach[l], k < Nr(l) + 1
                   PROVE  Fach[l][k] \subseteq Hat(l)
        OBVIOUS
      <4>1. k < Nr(l) \/ k = Nr(l)
        BY <1>13, WindowTypes
      <4> QED
        BY <1>0, <3>1, <4>1 DEF FortschrittVon
    <3>3. Nr(l)' = Nr(l) + 1 /\ Hat(l)' = Hat(l)
      BY <1>0, <1>13, <3>1 DEF Nr, Hat
    <3> QED
      BY <3>1, <3>2, <3>3 DEF FortschrittVon
  <2>2. CASE m # l
    <3>1. /\ pc'[l] = pc[l] /\ offen'[l] = offen[l] /\ fach'[l] = fach[l]
          /\ UNCHANGED <<lager, erledigt>>
      BY <1>0, <1>6, <2>2 DEF FensterDone, Kanalende
    <3> QED
      BY <1>0, <3>1, FortschrittFremd
  <2> QED
    BY <2>1, <2>2
<1>7. ASSUME NEW m \in Laeufe, LaufEnde(m) PROVE FortschrittVon(l)'
  <2>1. UNCHANGED <<fach, lager, offen, erledigt>>
    BY <1>7 DEF LaufEnde
  <2>2. CASE m = l
    <3>1. pc[l] = "fenster" /\ pc'[l] = "ende" /\ Nr(l) \notin DOMAIN Fach[l]
      BY <1>0, <1>7, <2>2 DEF LaufEnde
    <3>2. Nr(l)' = Nr(l) /\ Hat(l)' = Hat(l)
      BY <1>0, <1>13, <2>1 DEF Nr, Hat
    <3> QED
      BY <1>0, <3>1, <3>2 DEF FortschrittVon
  <2>3. CASE m # l
    <3>1. pc'[l] = pc[l]
      BY <1>0, <1>7, <2>3 DEF LaufEnde
    <3> QED
      BY <1>0, <2>1, <3>1, FortschrittFremd
  <2> QED
    BY <2>2, <2>3
<1>8. ASSUME NEW p \in Prozesse, Vergisst(p), NEW x \in {"abbruch", "tot"},
             pc' = [pc EXCEPT ![p] = x], UNCHANGED fach
      PROVE  FortschrittVon(l)'
  <2>1. CASE p = l
    <3>1. pc'[l] = x
      BY <1>0, <1>8, <2>1
    <3> QED
      BY <3>1 DEF FortschrittVon
  <2>2. CASE p # l
    <3>1. pc'[l] = pc[l] /\ lager'[l] = lager[l] /\ offen'[l] = offen[l]
          /\ erledigt'[l] = erledigt[l]
      BY <1>0, <1>8, <2>2 DEF Vergisst
    <3> QED
      BY <1>0, <1>8, <3>1, FortschrittFremd
  <2> QED
    BY <2>1, <2>2
<1>9. ASSUME NEW m \in Laeufe, FensterAbbruch(m) PROVE FortschrittVon(l)'
  BY <1>8, <1>9 DEF FensterAbbruch, Prozesse
<1>10. ASSUME NEW p \in Prozesse, Absturz(p) PROVE FortschrittVon(l)'
  BY <1>8, <1>10 DEF Absturz
<1>11. ASSUME NEW p \in Planer, BlockBeginn(p) \/ BlockEnde(p) PROVE FortschrittVon(l)'
  <2>1. pc'[l] = pc[l] /\ UNCHANGED <<fach, lager, offen, erledigt>>
    BY <1>0, <1>11, Ansprueche DEF BlockBeginn, BlockEnde, bau
  <2> QED
    BY <1>0, <2>1, FortschrittFremd
<1>12. ASSUME Tick \/ UNCHANGED vars PROVE FortschrittVon(l)'
  BY <1>0, <1>12, FortschrittFremd DEF Tick, vars, bau
<1> QED
  BY <1>1, <1>2, <1>3, <1>4, <1>5, <1>6, <1>7, <1>9, <1>10, <1>11, <1>12
  DEF Next, Sweep, Fenster

-----------------------------------------------------------------------------
(***************************************************************************)
(* Results                                                                 *)
(***************************************************************************)
\* The inductive invariant holds in every reachable state.
THEOREM Invariance == Spec => []IInv
<1>1. IInv /\ [Next]_vars => IInv'
  <2>1. IInv /\ [Next]_vars => TypeOK'
    <3>1. IInv /\ [Next]_vars => OrtOK' /\ DokOK'
      BY OrtStep, DokStep DEF IInv
    <3>2. OrtOK' /\ DokOK' => TypeOK'
      BY DEF TypeOK, OrtOK, DokOK
    <3> QED
      BY <3>1, <3>2
  <2> QED
    BY <2>1, LokalStep, GenommenStep, BuchStep, AnspruchStep, FortschrittStep DEF IInv
<1> QED
  BY <1>1, InitInv, PTL DEF Spec

\* An owner's closing word stands: done stays done, and who has ended leaves no
\* open claim, unless the closing write itself failed.
THEOREM ClosingWordStands == Spec => []BuchTreu
<1>1. IInv => BuchTreu
  <2>1. SUFFICES ASSUME IInv, NEW i \in Ids \ verfehlt, pc[i[1]] \in {"ende", "abbruch"}
                 PROVE  inhalt.res[i].status # "offen"
    BY DEF BuchTreu, IInv, GebuchtInv
  <2> QED
    BY <2>1 DEF IInv, ZuInv, Zu
<1> QED
  BY <1>1, Invariance, PTL

\* Whoever ends a foreign claim answers for its whole window when it comes to
\* its end: the Bestand it loaded has it, its own build pool or its counter.
THEOREM TakersAnswer == Spec => []WerEnteignetStehtEin
<1>1. IInv => WerEnteignetStehtEin
  <2>1. SUFFICES ASSUME IInv, NEW l \in Laeufe, pc[l] = "ende", NEW i \in genommen[l]
                 PROVE  i \in TierIds /\ FachVon(i) \subseteq Hat(l)
    BY DEF WerEnteignetStehtEin, Hat
  <2>2. Deckt(l, i)
    BY <2>1 DEF IInv, GenommenInv
  <2>3. FortschrittVon(l)
    BY <2>1 DEF IInv, FortschrittInv
  <2>4. \A k \in DOMAIN Fach[l] : k < Nr(l)
    <3> SUFFICES ASSUME NEW k \in DOMAIN Fach[l] PROVE k < Nr(l)
      OBVIOUS
    <3>1. Nr(l) \notin DOMAIN Fach[l] /\ Nr(l) \in Nat \ {0}
      BY <2>1, <2>3 DEF FortschrittVon, IInv, TypeOK, Nr
    <3>2. DOMAIN Fach[l] = 1 .. Len(Fach[l]) /\ Len(Fach[l]) \in Nat
      BY ReservierungConstantsOK
    <3> QED
      BY <3>1, <3>2
  <2>5. Auswahl(l) \subseteq Hat(l)
    BY <2>1, <2>3, <2>4 DEF FortschrittVon, Auswahl
  <2> QED
    BY <2>2, <2>5 DEF Deckt
<1> QED
  BY <1>1, Invariance, PTL

\* A takeover is never reported for a window that its owner had booked.
THEOREM TakeoversAreReal == Spec => UebernahmeBelegt
<1> DEFINE Neu == \A l \in Laeufe : (gemeldet'[l] \ gemeldet[l]) \cap Gebucht = {}
<1>1. IInv /\ [Next]_vars => [Neu]_vars
  <2>1. SUFFICES ASSUME IInv, [Next]_vars, NEW l \in Laeufe,
                        NEW i \in gemeldet'[l] \ gemeldet[l], i \in Gebucht
                 PROVE  FALSE
    OBVIOUS
  <2>2. inhalt.res[i].status = "done" /\ gemeldet \in [Laeufe -> SUBSET Ids]
    BY <2>1 DEF IInv, GebuchtInv, TypeOK
  <2>3. CASE \E m \in Laeufe : SweepBeleg(m)
    BY <2>1, <2>2, <2>3 DEF SweepBeleg
  <2>4. CASE ~\E m \in Laeufe : SweepBeleg(m)
    <3>1. gemeldet' = gemeldet \/ \E m \in Prozesse : Vergisst(m)
      BY <2>1, <2>4 DEF Next, Sweep, Fenster, LaufStart, SweepUrteil, SweepFreigabe,
         FensterBeginn, EtaSchrieb, FensterDone, FensterAbbruch, LaufEnde,
         AtomUebersprungen, AtomKompiliert, BlockBeginn, BlockEnde, Absturz, Tick, vars,
         sweep, Prozesse
    <3> QED
      BY <2>1, <3>1 DEF Vergisst
  <2> QED
    BY <2>3, <2>4
<1> QED
  BY <1>1, Invariance, PTL DEF Spec, UebernahmeBelegt
=============================================================================
