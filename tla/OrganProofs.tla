---------------------------- MODULE OrganProofs ----------------------------
(***************************************************************************)
(* Proofs about the two lock-free organs: the ring queue (MpmcRing) for    *)
(* any number of puts and gets, any capacities and any resets, and, below, *)
(* comdare::rcu (Rcu).                                                     *)
(*                                                                         *)
(* The ring.  What no single variable says is what has become of a         *)
(* position: it is open until its put has released it, filled until its    *)
(* get has, and then the next position of the same cell is open.  The      *)
(* sequence number of the cell tells the three apart: it is at most the    *)
(* position while that is open (OffenInv), one more while it is filled     *)
(* (FuellInv).  A call that read the number before its exchange may rely   *)
(* on it, for the numbers of a cell only grow (PutInv, GetInv).            *)
(***************************************************************************)
EXTENDS Rcu, MpmcRing, SequenceTheorems, TLAPS

\* A ring of one cell is left out: its cell, once filled, looks free to the put of
\* the next round, for both are sequence position + 1.
RingOK == 1 \notin Requested

\* A position is open until its put has released it, then filled until its get has.
Offen(x) == x >= enqueue_pos \/ \E p \in Puts : InZelle(p) /\ pos[p] = x

Gefuellt(x) ==
  ~Offen(x) /\ (x >= dequeue_pos \/ \E g \in Gets : InZelle(g) /\ pos[g] = x)

PosInv == capacity >= 2 /\ dequeue_pos <= enqueue_pos /\ Len(vergeben) = enqueue_pos

OffenInv == \A x \in Nat : Offen(x) => sequence[Cell(x)] <= x

FuellInv == \A x \in Nat : Gefuellt(x) =>
  sequence[Cell(x)] = x + 1 /\ data[Cell(x)] = vergeben[x + 1]

PutInv == \A p \in Puts :
  /\ InZelle(p) =>
       pos[p] < enqueue_pos /\ sequence[Cell(pos[p])] = pos[p] /\ vergeben[pos[p] + 1] = p
  /\ pc[p] = "freigabe" => data[Cell(pos[p])] = p
  /\ pc[p] = "tauscht" => sequence[Cell(pos[p])] >= pos[p]

GetInv == \A g \in Gets :
  /\ InZelle(g) =>
       pos[g] < dequeue_pos /\ Gefuellt(pos[g]) /\ anspruch[g] = vergeben[pos[g] + 1]
  /\ pc[g] \in {"freigabe", "fertig"} => wert[g] = anspruch[g]
  /\ pc[g] = "tauscht" => sequence[Cell(pos[g])] > pos[g]
  /\ anspruch[g] = Nichts <=> pc[g] \notin {"daten", "freigabe", "fertig"}

GetEindeutig == \A g, h \in Gets :
  InZelle(g) /\ InZelle(h) /\ pos[g] = pos[h] => g = h

RingInv == RingTypeOK /\ PosInv /\ OffenInv /\ FuellInv /\ PutInv /\ GetInv /\ GetEindeutig

-----------------------------------------------------------------------------
LEMMA Teilen ==
  ASSUME NEW n \in Nat \ {0}, NEW p \in Nat
  PROVE  p % n \in 0 .. n - 1 /\ p \div n \in Nat /\ p = n * (p \div n) + (p % n)
<1>1. p % n \in 0 .. n - 1
  OBVIOUS
<1>2. p \div n \in Nat
  OBVIOUS
<1>3. p = n * (p \div n) + (p % n)
  BY SMTT(30)
<1> QED
  BY <1>1, <1>2, <1>3

LEMMA RundenRechnung ==
  ASSUME NEW n \in Nat \ {0}, NEW a \in Int, NEW b \in Int, NEW r \in Int,
         n * a + r < n * b + r
  PROVE  n * a + r + n <= n * b + r
<1>1. n * a \in Int /\ n * b \in Int
  OBVIOUS
<1>2. a < b
  <2> SUFFICES ASSUME b <= a PROVE FALSE
    OBVIOUS
  <2>1. n * b <= n * a
    OBVIOUS
  <2> QED
    BY <1>1, <2>1
<1>3. n * (b - a) >= n
  BY <1>2
<1>4. n * (b - a) = n * b - n * a
  OBVIOUS
<1> QED
  BY <1>1, <1>3, <1>4

\* Two positions of the same cell are at least a round apart.
LEMMA RundeFern ==
  ASSUME NEW n \in Nat \ {0}, NEW p \in Nat, NEW q \in Nat, p < q, p % n = q % n
  PROVE  p + n <= q
<1>1. PICK r \in Nat : r = p % n
  BY Teilen
<1>2. PICK a \in Nat : p = n * a + r
  BY <1>1, Teilen
<1>3. PICK b \in Nat : q = n * b + r
  BY <1>1, Teilen
<1> QED
  BY <1>2, <1>3, RundenRechnung

LEMMA ZelleKlein == ASSUME NEW n \in Nat \ {0}, NEW p \in Nat PROVE p % n <= p
<1>1. p < n => p % n = p
  BY SMTT(30)
<1> QED
  BY <1>1, Teilen

LEMMA Rest ==
  ASSUME NEW n \in Nat, n > 0, NEW p \in Nat, NEW q \in Nat, NEW r \in Nat,
         p = n * q + r, r < n
  PROVE  p % n = r
  BY SMTT(30)

\* One round on is the same cell.
LEMMA RundeGleich ==
  ASSUME NEW n \in Nat \ {0}, NEW p \in Nat, NEW q \in Nat, q = p + n
  PROVE  p % n = q % n
<1>1. PICK a \in Nat : p = n * a + (p % n)
  BY Teilen
<1>2. q = n * (a + 1) + (p % n)
  <2>1. p % n \in Int /\ n * a \in Int
    BY Teilen
  <2>2. n * (a + 1) = n * a + n
    OBVIOUS
  <2> QED
    BY <1>1, <2>1, <2>2
<1>3. PICK r \in Nat : r = p % n /\ r < n
  BY Teilen
<1>4. a + 1 \in Nat /\ n > 0 /\ q = n * (a + 1) + r
  BY <1>2, <1>3
<1>5. q % n = r
  BY <1>3, <1>4, Rest
<1> QED
  BY <1>3, <1>5

LEMMA ZelleTyp ==
  ASSUME RingTypeOK, NEW x \in Nat
  PROVE  Cell(x) \in 0 .. capacity - 1 /\ sequence[Cell(x)] \in Nat
  BY Teilen DEF RingTypeOK, Cell

LEMMA CellFern ==
  ASSUME RingTypeOK, PosInv, NEW x \in Nat, NEW y \in Nat, Cell(x) = Cell(y), x < y
  PROVE  x + capacity <= y
  BY RundeFern DEF RingTypeOK, Cell

-----------------------------------------------------------------------------
\* The parts of the invariant after a step that keeps the capacity.
LEMMA OffenZiel ==
  ASSUME capacity' = capacity, \A x \in Nat : Offen(x)' => sequence'[Cell(x)] <= x
  PROVE  OffenInv'
  BY DEF OffenInv, Cell

LEMMA FuellZiel ==
  ASSUME capacity' = capacity,
         \A x \in Nat : Gefuellt(x)' =>
           sequence'[Cell(x)] = x + 1 /\ data'[Cell(x)] = vergeben'[x + 1]
  PROVE  FuellInv'
  BY DEF FuellInv, Cell

LEMMA PutZiel ==
  ASSUME capacity' = capacity,
         \A p \in Puts :
           /\ pc'[p] \in {"daten", "freigabe"} =>
                /\ pos'[p] < enqueue_pos' /\ sequence'[Cell(pos'[p])] = pos'[p]
                /\ vergeben'[pos'[p] + 1] = p
           /\ pc'[p] = "freigabe" => data'[Cell(pos'[p])] = p
           /\ pc'[p] = "tauscht" => sequence'[Cell(pos'[p])] >= pos'[p]
  PROVE  PutInv'
  BY DEF PutInv, Cell, InZelle

LEMMA GetZiel ==
  ASSUME capacity' = capacity,
         \A g \in Gets :
           /\ pc'[g] \in {"daten", "freigabe"} =>
                /\ pos'[g] < dequeue_pos' /\ Gefuellt(pos[g])'
                /\ anspruch'[g] = vergeben'[pos'[g] + 1]
           /\ pc'[g] \in {"freigabe", "fertig"} => wert'[g] = anspruch'[g]
           /\ pc'[g] = "tauscht" => sequence'[Cell(pos'[g])] > pos'[g]
           /\ anspruch'[g] = Nichts <=> pc'[g] \notin {"daten", "freigabe", "fertig"}
  PROVE  GetInv'
  BY DEF GetInv, Cell, InZelle

-----------------------------------------------------------------------------
\* A put and a get are never in the same cell, nor are two puts or two gets.
LEMMA ZelleEinzeln ==
  ASSUME RingInv, NEW c \in Calls, NEW d \in Calls, c # d,
         InZelle(c), InZelle(d)
  PROVE  Cell(pos[c]) # Cell(pos[d])
<1> SUFFICES ASSUME Cell(pos[c]) = Cell(pos[d]) PROVE FALSE
  OBVIOUS
<1>0. RingTypeOK /\ PosInv /\ PutInv /\ GetInv /\ FuellInv /\ GetEindeutig
  BY DEF RingInv
<1>1. pos[c] \in Nat /\ pos[d] \in Nat /\ capacity \in Nat /\ capacity >= 2
  BY <1>0 DEF RingTypeOK, PosInv
<1>2. \A p \in Puts : InZelle(p) =>
        sequence[Cell(pos[p])] = pos[p] /\ vergeben[pos[p] + 1] = p
  BY <1>0 DEF PutInv
<1>3. \A g \in Gets : InZelle(g) => sequence[Cell(pos[g])] = pos[g] + 1
  BY <1>0 DEF GetInv, FuellInv, RingTypeOK, Calls
<1>4. CASE c \in Puts /\ d \in Puts
  BY <1>2, <1>4
<1>5. CASE c \in Gets /\ d \in Gets
  <2>1. pos[c] = pos[d]
    BY <1>1, <1>3, <1>5
  <2> QED
    BY <1>0, <1>5, <2>1 DEF GetEindeutig
<1>6. ASSUME NEW p \in Puts, NEW g \in Gets, InZelle(p), InZelle(g),
             Cell(pos[p]) = Cell(pos[g]),
             pos[p] \in Nat, pos[g] \in Nat
      PROVE  FALSE
  <2>1. pos[p] = pos[g] + 1
    BY <1>2, <1>3, <1>6
  <2> QED
    BY <1>0, <1>1, <1>6, <2>1, CellFern
<1> QED
  BY <1>1, <1>4, <1>5, <1>6 DEF Calls

\* The exchange of put succeeds only at a position whose cell is free, and less
\* than a round before the gets.
LEMMA PutAnspruch ==
  ASSUME RingInv, NEW p \in Puts, put_claim(p)
  PROVE  /\ sequence[Cell(enqueue_pos)] = enqueue_pos
         /\ enqueue_pos < dequeue_pos + capacity
<1>0. RingTypeOK /\ PosInv /\ OffenInv /\ FuellInv /\ PutInv
  BY DEF RingInv
<1>1. /\ enqueue_pos \in Nat /\ dequeue_pos \in Nat /\ capacity \in Nat /\ capacity >= 2
      /\ sequence[Cell(enqueue_pos)] \in Nat
  BY <1>0, ZelleTyp DEF RingTypeOK, PosInv
<1>2. Offen(enqueue_pos)
  BY <1>1 DEF Offen
<1>3. sequence[Cell(enqueue_pos)] = enqueue_pos
  <2>1. sequence[Cell(enqueue_pos)] <= enqueue_pos
    BY <1>0, <1>1, <1>2 DEF OffenInv
  <2>2. sequence[Cell(enqueue_pos)] >= enqueue_pos
    BY <1>0 DEF put_claim, Geht, PutInv
  <2> QED
    BY <1>1, <2>1, <2>2
<1>4. ASSUME enqueue_pos >= dequeue_pos + capacity PROVE FALSE
  <2>1. PICK x \in Nat : x + capacity = enqueue_pos
    <3>1. enqueue_pos - capacity \in Nat
      BY <1>1, <1>4
    <3> QED
      BY <1>1, <3>1
  <2>2. x >= dequeue_pos /\ x + 1 < enqueue_pos
    BY <1>1, <1>4, <2>1
  <2>3. Cell(x) = Cell(enqueue_pos)
    <3>1. capacity \in Nat \ {0} /\ enqueue_pos = x + capacity
      BY <1>1, <2>1
    <3> QED
      BY <1>1, <3>1, RundeGleich DEF Cell
  <2>4. CASE Offen(x)
    <3>1. sequence[Cell(x)] <= x
      BY <1>0, <2>4 DEF OffenInv
    <3> QED
      BY <1>1, <1>3, <2>2, <2>3, <3>1
  <2>5. CASE ~Offen(x)
    <3>1. sequence[Cell(x)] = x + 1
      BY <1>0, <2>2, <2>5 DEF FuellInv, Gefuellt
    <3> QED
      BY <1>1, <1>3, <2>2, <2>3, <3>1
  <2> QED
    BY <2>4, <2>5
<1> QED
  BY <1>1, <1>3, <1>4

\* The exchange of get succeeds only at a position that is filled.
LEMMA GetAnspruch ==
  ASSUME RingInv, NEW g \in Gets, get_claim(g)
  PROVE  dequeue_pos < enqueue_pos /\ Gefuellt(dequeue_pos)
<1>0. RingTypeOK /\ PosInv /\ OffenInv /\ GetInv
  BY DEF RingInv
<1>1. /\ enqueue_pos \in Nat /\ dequeue_pos \in Nat
      /\ sequence[Cell(dequeue_pos)] \in Nat
  BY <1>0, ZelleTyp DEF RingTypeOK
<1>2. sequence[Cell(dequeue_pos)] > dequeue_pos
  BY <1>0 DEF get_claim, Geht, GetInv
<1>3. ~Offen(dequeue_pos)
  BY <1>0, <1>1, <1>2 DEF OffenInv
<1> QED
  BY <1>1, <1>3 DEF Gefuellt, Offen

-----------------------------------------------------------------------------
LEMMA CallFacts ==
  /\ Puts \subseteq Calls /\ Gets \subseteq Calls
  /\ \A p \in Puts : p \notin Gets /\ p # Nichts
  BY RingConstantsOK DEF Calls

LEMMA RingTypeStep ==
  ASSUME RingOK, RingInv, [RingNext]_ringVars
  PROVE  RingTypeOK'
<1> USE DEF RingTypeOK, cells, history, Geht
<1>0. RingTypeOK /\ PosInv /\ Puts \subseteq Calls /\ Gets \subseteq Calls
  BY CallFacts DEF RingInv
<1>1. ASSUME NEW p \in Puts, Putting(p) PROVE RingTypeOK'
  <2>1. CASE put_load(p)
    BY <1>0, <2>1 DEF put_load
  <2>2. CASE put_check(p) \/ put_claim_fails(p)
    BY <1>0, <2>2 DEF put_check, put_claim_fails
  <2>3. CASE put_claim(p)
    <3>1. vergeben' \in Seq(Puts)
      BY <1>0, <2>3 DEF put_claim
    <3>2. enqueue_pos' \in Nat
      BY <1>0, <2>3 DEF put_claim
    <3>3. pc' \in [Calls -> {"neu", "prueft", "tauscht", "laedt", "daten",
                       "freigabe", "fertig", "erfolglos"}]
      BY <1>0, <2>3 DEF put_claim
    <3>4. UNCHANGED <<capacity, sequence, data, dequeue_pos, pos, wert, anspruch>>
      BY <2>3 DEF put_claim
    <3> HIDE DEF Geht
    <3> QED
      BY <1>0, <3>1, <3>2, <3>3, <3>4
  <2>4. CASE put_data(p)
    <3>1. data' = [data EXCEPT ![Cell(pos[p])] = p]
      BY <2>4 DEF put_data
    <3>2. data' \in [0 .. capacity - 1 -> Puts \cup {Nichts}]
      BY <1>0, <3>1
    <3> QED
      BY <1>0, <2>4, <3>2 DEF put_data
  <2>5. CASE put_release(p)
    <3>1. sequence' = [sequence EXCEPT ![Cell(pos[p])] = pos[p] + 1] /\ pos[p] + 1 \in Nat
      BY <1>0, <2>5 DEF put_release
    <3>2. sequence' \in [0 .. capacity - 1 -> Nat]
      BY <1>0, <3>1
    <3> QED
      BY <1>0, <2>5, <3>2 DEF put_release
  <2> QED
    BY <1>1, <2>1, <2>2, <2>3, <2>4, <2>5 DEF Putting
<1>2. ASSUME NEW g \in Gets, Getting(g) PROVE RingTypeOK'
  <2>1. CASE get_load(g)
    BY <1>0, <2>1 DEF get_load
  <2>2. CASE get_check(g) \/ get_claim_fails(g)
    BY <1>0, <2>2 DEF get_check, get_claim_fails
  <2>3. CASE get_claim(g)
    <3>1. dequeue_pos + 1 \in 1 .. Len(vergeben) /\ pos[g] = dequeue_pos
      <4>1. dequeue_pos < enqueue_pos
        BY <2>3, GetAnspruch
      <4>2. pos[g] = dequeue_pos
        BY <2>3 DEF get_claim
      <4> QED
        BY <1>0, <4>1, <4>2 DEF PosInv
    <3>2. vergeben[pos[g] + 1] \in Puts
      BY <1>0, <3>1, ElementOfSeq
    <3>3. anspruch' \in [Gets -> Puts \cup {Nichts}] /\ dequeue_pos' \in Nat
      BY <1>0, <2>3, <3>2 DEF get_claim
    <3>4. pc' \in [Calls -> {"neu", "prueft", "tauscht", "laedt", "daten",
                       "freigabe", "fertig", "erfolglos"}]
      BY <1>0, <2>3 DEF get_claim
    <3>5. UNCHANGED <<capacity, sequence, data, enqueue_pos, pos, wert, vergeben>>
      BY <2>3 DEF get_claim
    <3> HIDE DEF Geht
    <3> QED
      BY <1>0, <3>3, <3>4, <3>5
  <2>4. CASE get_data(g)
    <3>1. data[Cell(pos[g])] \in Puts \cup {Nichts}
      BY <1>0, ZelleTyp
    <3> QED
      BY <1>0, <2>4, <3>1 DEF get_data
  <2>5. CASE get_release(g)
    <3>1. /\ sequence' = [sequence EXCEPT ![Cell(pos[g])] = pos[g] + capacity]
          /\ pos[g] + capacity \in Nat
      BY <1>0, <2>5 DEF get_release
    <3>2. sequence' \in [0 .. capacity - 1 -> Nat]
      BY <1>0, <3>1
    <3> QED
      BY <1>0, <2>5, <3>2 DEF get_release
  <2> QED
    BY <1>2, <2>1, <2>2, <2>3, <2>4, <2>5 DEF Getting
<1>3. ASSUME clear PROVE RingTypeOK'
  BY <1>0, <1>3 DEF clear, Folge
<1>4. ASSUME NEW c \in Requested, set_iterable_aspect(c) PROVE RingTypeOK'
  <2>1. c \in Nat \ {0}
    BY <1>4, RingConstantsOK DEF set_iterable_aspect, validate_capacity, RingOK
  <2> QED
    BY <1>0, <1>4, <2>1 DEF set_iterable_aspect, Folge, KeineDaten
<1>5. ASSUME UNCHANGED ringVars PROVE RingTypeOK'
  BY <1>0, <1>5 DEF ringVars
<1> QED
  BY <1>1, <1>2, <1>3, <1>4, <1>5 DEF RingNext

-----------------------------------------------------------------------------
Nachher == PosInv' /\ OffenInv' /\ FuellInv' /\ PutInv' /\ GetInv' /\ GetEindeutig'

\* A step of a call outside its cell that changes nothing but where the call is.
LEMMA Ortswechsel ==
  ASSUME RingOK, RingInv, NEW c \in Calls, NEW n \in Nat,
         NEW z \in {"prueft", "tauscht", "laedt", "erfolglos"},
         pc[c] \in {"neu", "laedt", "prueft", "tauscht"},
         pc' = [pc EXCEPT ![c] = z], pos' = [pos EXCEPT ![c] = n],
         UNCHANGED <<cells, enqueue_pos, dequeue_pos, wert, history>>,
         z = "tauscht" => /\ c \in Puts => sequence[Cell(n)] >= n
                          /\ c \in Gets => sequence[Cell(n)] > n
  PROVE  Nachher
<1>0. /\ RingTypeOK /\ PosInv /\ OffenInv /\ FuellInv /\ PutInv /\ GetInv /\ GetEindeutig
      /\ Puts \subseteq Calls /\ Gets \subseteq Calls
  BY CallFacts DEF RingInv
<1>1. UNCHANGED <<capacity, sequence, data, enqueue_pos, dequeue_pos, wert, vergeben, anspruch>>
  BY DEF cells, history
<1>2. /\ pc'[c] = z /\ pos'[c] = n
      /\ \A d \in Calls : d # c => pc'[d] = pc[d] /\ pos'[d] = pos[d]
  BY <1>0 DEF RingTypeOK
<1>3. \A d \in Calls : pc'[d] \in {"daten", "freigabe", "fertig"} => d # c
  BY <1>2
<1>4. \A d \in Calls : /\ InZelle(d)' <=> InZelle(d)
                       /\ InZelle(d) => pos'[d] = pos[d]
  BY <1>2 DEF InZelle
<1>5. ASSUME NEW x \in Nat PROVE (Offen(x)' <=> Offen(x)) /\ (Gefuellt(x)' <=> Gefuellt(x))
  BY <1>0, <1>1, <1>4 DEF Offen, Gefuellt
<1>6. PosInv'
  BY <1>0, <1>1 DEF PosInv
<1>7. OffenInv'
  BY <1>0, <1>1, <1>5, OffenZiel DEF OffenInv
<1>8. FuellInv'
  BY <1>0, <1>1, <1>5, FuellZiel DEF FuellInv
<1>9. PutInv'
  <2> SUFFICES ASSUME NEW p \in Puts
               PROVE  /\ pc'[p] \in {"daten", "freigabe"} =>
                           /\ pos'[p] < enqueue_pos' /\ sequence'[Cell(pos'[p])] = pos'[p]
                           /\ vergeben'[pos'[p] + 1] = p
                      /\ pc'[p] = "freigabe" => data'[Cell(pos'[p])] = p
                      /\ pc'[p] = "tauscht" => sequence'[Cell(pos'[p])] >= pos'[p]
    BY <1>1, PutZiel
  <2>1. CASE p = c
    BY <1>1, <1>2, <2>1
  <2>2. CASE p # c
    BY <1>0, <1>1, <1>2, <2>2 DEF PutInv, InZelle
  <2> QED
    BY <2>1, <2>2
<1>10. GetInv'
  <2> SUFFICES ASSUME NEW g \in Gets
               PROVE  /\ pc'[g] \in {"daten", "freigabe"} =>
                           /\ pos'[g] < dequeue_pos' /\ Gefuellt(pos[g])'
                           /\ anspruch'[g] = vergeben'[pos'[g] + 1]
                      /\ pc'[g] \in {"freigabe", "fertig"} => wert'[g] = anspruch'[g]
                      /\ pc'[g] = "tauscht" => sequence'[Cell(pos'[g])] > pos'[g]
                      /\ anspruch'[g] = Nichts <=> pc'[g] \notin {"daten", "freigabe", "fertig"}
    BY <1>1, GetZiel
  <2>1. CASE g = c
    BY <1>0, <1>1, <1>2, <2>1 DEF GetInv
  <2>2. CASE g # c
    <3>1. InZelle(g) => Gefuellt(pos[g])'
      <4>1. pos[g] \in Nat
        BY <1>0 DEF RingTypeOK
      <4> QED
        BY <1>0, <1>1, <1>4, <2>2 DEF GetInv, Gefuellt, Offen
    <3> QED
      BY <1>0, <1>1, <1>2, <2>2, <3>1 DEF GetInv, InZelle
  <2> QED
    BY <2>1, <2>2
<1>11. GetEindeutig'
  BY <1>0, <1>4 DEF GetEindeutig
<1> QED
  BY <1>6, <1>7, <1>8, <1>9, <1>10, <1>11 DEF Nachher

LEMMA SuchendStep ==
  ASSUME RingOK, RingInv, NEW c \in Calls,
         \/ c \in Puts /\ (put_load(c) \/ put_check(c) \/ put_claim_fails(c))
         \/ c \in Gets /\ (get_load(c) \/ get_check(c) \/ get_claim_fails(c))
  PROVE  Nachher
<1>0. RingTypeOK /\ \A p \in Puts : p \notin Gets
  BY CallFacts DEF RingInv
<1>1. enqueue_pos \in Nat /\ dequeue_pos \in Nat /\ pos[c] \in Nat /\ pos = [pos EXCEPT ![c] = pos[c]]
  BY <1>0 DEF RingTypeOK
<1>2. UNCHANGED <<cells, enqueue_pos, dequeue_pos, wert, history>>
  BY DEF put_load, put_check, put_claim_fails, get_load,
     get_check, get_claim_fails
<1>3. CASE put_load(c) \/ put_claim_fails(c)
  BY <1>1, <1>2, <1>3, Ortswechsel DEF put_load, put_claim_fails, Geht
<1>4. CASE get_load(c) \/ get_claim_fails(c)
  BY <1>1, <1>2, <1>4, Ortswechsel DEF get_load, get_claim_fails, Geht
<1>5. CASE c \in Puts /\ put_check(c)
  <2>1. pos' = [pos EXCEPT ![c] = pos[c]] /\ c \notin Gets
    BY <1>0, <1>1, <1>5 DEF put_check
  <2>2. PICK z \in {"tauscht", "erfolglos", "laedt"} :
          /\ pc[c] = "prueft" /\ pc' = [pc EXCEPT ![c] = z]
          /\ z = "tauscht" => sequence[Cell(pos[c])] = pos[c]
    BY <1>5 DEF put_check, Geht
  <2>3. z = "tauscht" => /\ c \in Puts => sequence[Cell(pos[c])] >= pos[c]
                         /\ c \in Gets => sequence[Cell(pos[c])] > pos[c]
    BY <1>1, <2>1, <2>2
  <2>4. pc[c] \in {"neu", "laedt", "prueft", "tauscht"} /\ z \in {"prueft", "tauscht", "laedt", "erfolglos"}
    BY <2>2
  <2> QED
    BY <1>1, <1>2, <2>1, <2>2, <2>3, <2>4, Ortswechsel
<1>6. CASE c \in Gets /\ get_check(c)
  <2>1. pos' = [pos EXCEPT ![c] = pos[c]] /\ c \notin Puts
    BY <1>0, <1>1, <1>6 DEF get_check
  <2>2. PICK z \in {"tauscht", "erfolglos", "laedt"} :
          /\ pc[c] = "prueft" /\ pc' = [pc EXCEPT ![c] = z]
          /\ z = "tauscht" => sequence[Cell(pos[c])] = pos[c] + 1
    BY <1>6 DEF get_check, Geht
  <2>3. z = "tauscht" => /\ c \in Puts => sequence[Cell(pos[c])] >= pos[c]
                         /\ c \in Gets => sequence[Cell(pos[c])] > pos[c]
    BY <1>1, <2>1, <2>2
  <2>4. pc[c] \in {"neu", "laedt", "prueft", "tauscht"} /\ z \in {"prueft", "tauscht", "laedt", "erfolglos"}
    BY <2>2
  <2> QED
    BY <1>1, <1>2, <2>1, <2>2, <2>3, <2>4, Ortswechsel
<1> QED
  BY <1>3, <1>4, <1>5, <1>6

LEMMA PutClaimStep ==
  ASSUME RingOK, RingInv, NEW p \in Puts, put_claim(p)
  PROVE  Nachher
<1>0. /\ RingTypeOK /\ PosInv /\ OffenInv /\ FuellInv /\ PutInv /\ GetInv /\ GetEindeutig
      /\ Puts \subseteq Calls /\ Gets \subseteq Calls /\ \A r \in Puts : r \notin Gets
  BY CallFacts DEF RingInv
<1>1. /\ UNCHANGED <<capacity, sequence, data, dequeue_pos, pos, wert, anspruch>>
      /\ enqueue_pos' = enqueue_pos + 1 /\ pos[p] = enqueue_pos /\ pc[p] = "tauscht"
      /\ vergeben' = Append(vergeben, p)
      /\ pc' = [pc EXCEPT ![p] = "daten"]
  BY DEF put_claim, Geht, cells
<1>2. /\ enqueue_pos \in Nat /\ dequeue_pos \in Nat /\ dequeue_pos <= enqueue_pos
      /\ Len(vergeben) = enqueue_pos /\ vergeben \in Seq(Puts)
      /\ \A c \in Calls : pos[c] \in Nat
  BY <1>0 DEF RingTypeOK, PosInv
<1>3. /\ pc'[p] = "daten"
      /\ \A d \in Calls : d # p => pc'[d] = pc[d]
  BY <1>0, <1>1 DEF RingTypeOK
<1>4. /\ Len(vergeben') = enqueue_pos' /\ vergeben'[enqueue_pos + 1] = p
      /\ \A x \in Nat : x < enqueue_pos => vergeben'[x + 1] = vergeben[x + 1]
  BY <1>1, <1>2, AppendProperties
<1>5. \A d \in Calls : d # p => (InZelle(d)' <=> InZelle(d))
  BY <1>3 DEF InZelle
<1>6. ASSUME NEW x \in Nat PROVE (Offen(x)' <=> Offen(x)) /\ (Gefuellt(x)' <=> Gefuellt(x))
  <2>1. Offen(x)' <=> Offen(x)
    <3>1. InZelle(p)' /\ ~InZelle(p)
      BY <1>1, <1>3 DEF InZelle
    <3>2. x >= enqueue_pos <=> x >= enqueue_pos' \/ x = pos[p]
      BY <1>1, <1>2
    <3> QED
      BY <1>0, <1>1, <1>5, <3>1, <3>2 DEF Offen
  <2> QED
    BY <1>0, <1>1, <1>5, <2>1 DEF Gefuellt
<1>7. PosInv'
  BY <1>0, <1>1, <1>2, <1>4 DEF PosInv
<1>8. OffenInv'
  BY <1>0, <1>1, <1>6, OffenZiel DEF OffenInv
<1>9. FuellInv'
  <2>1. ASSUME NEW x \in Nat, Gefuellt(x) PROVE x < enqueue_pos
    BY <1>2, <2>1 DEF Gefuellt, Offen
  <2> QED
    BY <1>0, <1>1, <1>4, <1>6, <2>1, FuellZiel DEF FuellInv
<1>10. PutInv'
  <2> SUFFICES ASSUME NEW r \in Puts
               PROVE  /\ pc'[r] \in {"daten", "freigabe"} =>
                           /\ pos'[r] < enqueue_pos' /\ sequence'[Cell(pos'[r])] = pos'[r]
                           /\ vergeben'[pos'[r] + 1] = r
                      /\ pc'[r] = "freigabe" => data'[Cell(pos'[r])] = r
                      /\ pc'[r] = "tauscht" => sequence'[Cell(pos'[r])] >= pos'[r]
    BY <1>1, PutZiel
  <2>1. CASE r = p
    <3>1. sequence[Cell(enqueue_pos)] = enqueue_pos
      BY PutAnspruch
    <3> QED
      BY <1>1, <1>2, <1>3, <1>4, <2>1, <3>1
  <2>2. CASE r # p
    <3>1. InZelle(r) => pos[r] < enqueue_pos /\ vergeben'[pos[r] + 1] = r
      BY <1>0, <1>2, <1>4 DEF PutInv
    <3> QED
      BY <1>0, <1>1, <1>2, <1>3, <2>2, <3>1 DEF PutInv, InZelle
  <2> QED
    BY <2>1, <2>2
<1>11. GetInv'
  <2> SUFFICES ASSUME NEW g \in Gets
               PROVE  /\ pc'[g] \in {"daten", "freigabe"} =>
                           /\ pos'[g] < dequeue_pos' /\ Gefuellt(pos[g])'
                           /\ anspruch'[g] = vergeben'[pos'[g] + 1]
                      /\ pc'[g] \in {"freigabe", "fertig"} => wert'[g] = anspruch'[g]
                      /\ pc'[g] = "tauscht" => sequence'[Cell(pos'[g])] > pos'[g]
                      /\ anspruch'[g] = Nichts <=> pc'[g] \notin {"daten", "freigabe", "fertig"}
    BY <1>1, GetZiel
  <2>1. pc'[g] = pc[g] /\ pos[g] \in Nat
    BY <1>0, <1>2, <1>3
  <2>2. InZelle(g) => Gefuellt(pos[g])' /\ vergeben'[pos[g] + 1] = vergeben[pos[g] + 1]
    <3>1. ASSUME NEW x \in Nat, x = pos[g], InZelle(g) PROVE Gefuellt(x)'
      BY <1>0, <1>6, <3>1 DEF GetInv
    <3>2. InZelle(g) => pos[g] < enqueue_pos
      BY <1>0, <1>2, <2>1 DEF GetInv
    <3>3. InZelle(g) => Gefuellt(pos[g])'
      BY <1>1, <2>1, <3>1 DEF Gefuellt, Offen
    <3> QED
      BY <1>4, <2>1, <3>2, <3>3
  <2> QED
    BY <1>0, <1>1, <2>1, <2>2 DEF GetInv, InZelle
<1>12. GetEindeutig'
  BY <1>0, <1>1, <1>5 DEF GetEindeutig
<1> QED
  BY <1>7, <1>8, <1>9, <1>10, <1>11, <1>12 DEF Nachher

\* A filled position is in no cell that a put is in.
LEMMA FremdeZelle ==
  ASSUME RingInv, NEW p \in Calls, p \in Puts, InZelle(p), NEW x \in Nat, Gefuellt(x)
  PROVE  Cell(x) # Cell(pos[p])
<1>0. RingTypeOK /\ PosInv /\ PutInv /\ FuellInv
  BY DEF RingInv
<1>1. pos[p] \in Nat /\ capacity \in Nat /\ capacity >= 2
  BY <1>0 DEF RingTypeOK, PosInv
<1>2. sequence[Cell(pos[p])] = pos[p] /\ sequence[Cell(x)] = x + 1
  BY <1>0 DEF PutInv, FuellInv
<1> QED
  BY <1>0, <1>1, <1>2, CellFern

LEMMA PutDataStep ==
  ASSUME RingOK, RingInv, NEW p \in Puts, put_data(p)
  PROVE  Nachher
<1>0. /\ RingTypeOK /\ PosInv /\ OffenInv /\ FuellInv /\ PutInv /\ GetInv /\ GetEindeutig
      /\ Puts \subseteq Calls /\ Gets \subseteq Calls /\ \A r \in Puts : r \notin Gets
  BY CallFacts DEF RingInv
<1>1. /\ UNCHANGED <<capacity, sequence, enqueue_pos, dequeue_pos, pos, wert, vergeben, anspruch>>
      /\ pc[p] = "daten" /\ pc' = [pc EXCEPT ![p] = "freigabe"]
      /\ data' = [data EXCEPT ![Cell(pos[p])] = p]
  BY DEF put_data, Geht, history
<1>2. /\ pc'[p] = "freigabe"
      /\ \A d \in Calls : d # p => pc'[d] = pc[d]
  BY <1>0, <1>1 DEF RingTypeOK
<1>3. \A d \in Calls : InZelle(d)' <=> InZelle(d)
  BY <1>1, <1>2 DEF InZelle
<1>4. /\ \A d \in Calls : pos[d] \in Nat
      /\ \A x \in Nat : Cell(x) \in 0 .. capacity - 1
      /\ InZelle(p)
  BY <1>0, <1>1, ZelleTyp DEF RingTypeOK, InZelle
<1>5. /\ data'[Cell(pos[p])] = p
      /\ \A x \in Nat : Cell(x) # Cell(pos[p]) => data'[Cell(x)] = data[Cell(x)]
  BY <1>0, <1>1, <1>4 DEF RingTypeOK
<1>6. \A x \in Nat : (Offen(x)' <=> Offen(x)) /\ (Gefuellt(x)' <=> Gefuellt(x))
  BY <1>0, <1>1, <1>3 DEF Offen, Gefuellt
<1>7. PosInv'
  BY <1>0, <1>1 DEF PosInv
<1>8. OffenInv'
  BY <1>0, <1>1, <1>6, OffenZiel DEF OffenInv
<1>9. FuellInv'
  <2>1. \A x \in Nat : Gefuellt(x) => data'[Cell(x)] = data[Cell(x)]
    BY <1>0, <1>4, <1>5, FremdeZelle
  <2> QED
    BY <1>0, <1>1, <1>6, <2>1, FuellZiel DEF FuellInv
<1>10. PutInv'
  <2> SUFFICES ASSUME NEW r \in Puts
               PROVE  /\ pc'[r] \in {"daten", "freigabe"} =>
                           /\ pos'[r] < enqueue_pos' /\ sequence'[Cell(pos'[r])] = pos'[r]
                           /\ vergeben'[pos'[r] + 1] = r
                      /\ pc'[r] = "freigabe" => data'[Cell(pos'[r])] = r
                      /\ pc'[r] = "tauscht" => sequence'[Cell(pos'[r])] >= pos'[r]
    BY <1>1, PutZiel
  <2>1. CASE r = p
    BY <1>0, <1>1, <1>2, <1>4, <1>5, <2>1 DEF PutInv
  <2>2. CASE r # p
    <3>1. InZelle(r) => data'[Cell(pos[r])] = data[Cell(pos[r])]
      BY <1>0, <1>4, <1>5, <2>2, ZelleEinzeln
    <3> QED
      BY <1>0, <1>1, <1>2, <2>2, <3>1 DEF PutInv, InZelle
  <2> QED
    BY <2>1, <2>2
<1>11. GetInv'
  <2> SUFFICES ASSUME NEW h \in Gets
               PROVE  /\ pc'[h] \in {"daten", "freigabe"} =>
                           /\ pos'[h] < dequeue_pos' /\ Gefuellt(pos[h])'
                           /\ anspruch'[h] = vergeben'[pos'[h] + 1]
                      /\ pc'[h] \in {"freigabe", "fertig"} => wert'[h] = anspruch'[h]
                      /\ pc'[h] = "tauscht" => sequence'[Cell(pos'[h])] > pos'[h]
                      /\ anspruch'[h] = Nichts <=> pc'[h] \notin {"daten", "freigabe", "fertig"}
    BY <1>1, GetZiel
  <2>1. InZelle(h) => Gefuellt(pos[h])'
    <3>1. InZelle(h) => Gefuellt(pos[h])
      BY <1>0 DEF GetInv
    <3> QED
      BY <1>0, <1>1, <1>3, <3>1 DEF Gefuellt, Offen
  <2> QED
    BY <1>0, <1>1, <1>2, <2>1 DEF GetInv, InZelle
<1>12. GetEindeutig'
  BY <1>0, <1>1, <1>3 DEF GetEindeutig
<1> QED
  BY <1>7, <1>8, <1>9, <1>10, <1>11, <1>12 DEF Nachher

LEMMA PutReleaseStep ==
  ASSUME RingOK, RingInv, NEW p \in Puts, put_release(p)
  PROVE  Nachher
<1>0. /\ RingTypeOK /\ PosInv /\ OffenInv /\ FuellInv /\ PutInv /\ GetInv /\ GetEindeutig
      /\ Puts \subseteq Calls /\ Gets \subseteq Calls /\ \A r \in Puts : r \notin Gets
  BY CallFacts DEF RingInv
<1>1. /\ UNCHANGED <<capacity, data, enqueue_pos, dequeue_pos, pos, wert, vergeben, anspruch>>
      /\ pc[p] = "freigabe" /\ pc' = [pc EXCEPT ![p] = "fertig"]
      /\ sequence' = [sequence EXCEPT ![Cell(pos[p])] = pos[p] + 1]
  BY DEF put_release, Geht, history
<1>2. /\ pc'[p] = "fertig"
      /\ \A d \in Calls : d # p => pc'[d] = pc[d]
  BY <1>0, <1>1 DEF RingTypeOK
<1>3. /\ \A d \in Calls : d # p => (InZelle(d)' <=> InZelle(d))
      /\ InZelle(p) /\ ~InZelle(p)'
  BY <1>1, <1>2 DEF InZelle
<1>4. /\ \A d \in Calls : pos[d] \in Nat
      /\ \A x \in Nat : Cell(x) \in 0 .. capacity - 1 /\ sequence[Cell(x)] \in Nat
      /\ capacity \in Nat /\ capacity >= 2 /\ enqueue_pos \in Nat
  BY <1>0, ZelleTyp DEF RingTypeOK, PosInv
<1>5. /\ sequence'[Cell(pos[p])] = pos[p] + 1
      /\ \A x \in Nat : Cell(x) # Cell(pos[p]) => sequence'[Cell(x)] = sequence[Cell(x)]
  BY <1>0, <1>1, <1>4 DEF RingTypeOK
<1>6. /\ pos[p] < enqueue_pos /\ sequence[Cell(pos[p])] = pos[p]
      /\ vergeben[pos[p] + 1] = p /\ data[Cell(pos[p])] = p
  BY <1>0, <1>1, <1>3 DEF PutInv
<1>13. \A x \in Nat : /\ Offen(x)' => Offen(x) /\ x # pos[p]
                      /\ Gefuellt(x)' => Gefuellt(x) \/ x = pos[p]
                      /\ Gefuellt(x) => Gefuellt(x)'
  <2> SUFFICES ASSUME NEW x \in Nat
               PROVE  /\ Offen(x)' => Offen(x) /\ x # pos[p]
                      /\ Gefuellt(x)' => Gefuellt(x) \/ x = pos[p]
                      /\ Gefuellt(x) => Gefuellt(x)'
    OBVIOUS
  <2>1. Offen(x)' => Offen(x)
    BY <1>0, <1>1, <1>3 DEF Offen
  <2>2. Offen(x)' => x # pos[p]
    <3>1. ASSUME NEW r \in Puts, r # p, InZelle(r), pos[r] = pos[p] PROVE FALSE
      BY <1>0, <1>3, <3>1, ZelleEinzeln
    <3>2. ~(pos[p] >= enqueue_pos)
      BY <1>0, <1>4, <1>6
    <3> QED
      BY <1>0, <1>1, <1>3, <3>1, <3>2 DEF Offen
  <2>3. Offen(x) => Offen(x)' \/ x = pos[p]
    BY <1>0, <1>1, <1>3 DEF Offen
  <2>4. (x >= dequeue_pos \/ \E g \in Gets : InZelle(g) /\ pos[g] = x)
          <=> (x >= dequeue_pos \/ \E g \in Gets : InZelle(g) /\ pos[g] = x)'
    BY <1>0, <1>1, <1>3
  <2> QED
    BY <2>1, <2>2, <2>3, <2>4 DEF Gefuellt
<1>7. PosInv'
  BY <1>0, <1>1 DEF PosInv
<1>8. OffenInv'
  <2> SUFFICES ASSUME NEW x \in Nat, Offen(x)' PROVE sequence'[Cell(x)] <= x
    BY <1>1, OffenZiel
  <2>1. sequence[Cell(x)] <= x /\ x # pos[p]
    BY <1>0, <1>13 DEF OffenInv
  <2>2. CASE Cell(x) = Cell(pos[p])
    BY <1>0, <1>4, <1>5, <1>6, <2>1, <2>2
  <2>3. CASE Cell(x) # Cell(pos[p])
    BY <1>5, <2>1, <2>3
  <2> QED
    BY <2>2, <2>3
<1>9. FuellInv'
  <2> SUFFICES ASSUME NEW x \in Nat, Gefuellt(x)'
               PROVE  sequence'[Cell(x)] = x + 1 /\ data'[Cell(x)] = vergeben'[x + 1]
    BY <1>1, FuellZiel
  <2>1. CASE x = pos[p]
    BY <1>1, <1>5, <1>6, <2>1
  <2>2. CASE Gefuellt(x)
    <3>1. Cell(x) # Cell(pos[p])
      BY <1>0, <1>3, <2>2, FremdeZelle
    <3> QED
      BY <1>0, <1>1, <1>5, <2>2, <3>1 DEF FuellInv
  <2> QED
    BY <1>13, <2>1, <2>2
<1>14. \A x \in Nat : sequence'[Cell(x)] \in Nat /\ sequence'[Cell(x)] >= sequence[Cell(x)]
  <2> SUFFICES ASSUME NEW x \in Nat
               PROVE  sequence'[Cell(x)] \in Nat /\ sequence'[Cell(x)] >= sequence[Cell(x)]
    OBVIOUS
  <2>1. CASE Cell(x) = Cell(pos[p])
    BY <1>0, <1>4, <1>5, <1>6, <2>1
  <2>2. CASE Cell(x) # Cell(pos[p])
    BY <1>4, <1>5, <2>2
  <2> QED
    BY <2>1, <2>2
<1>10. PutInv'
  <2> SUFFICES ASSUME NEW r \in Puts
               PROVE  /\ pc'[r] \in {"daten", "freigabe"} =>
                           /\ pos'[r] < enqueue_pos' /\ sequence'[Cell(pos'[r])] = pos'[r]
                           /\ vergeben'[pos'[r] + 1] = r
                      /\ pc'[r] = "freigabe" => data'[Cell(pos'[r])] = r
                      /\ pc'[r] = "tauscht" => sequence'[Cell(pos'[r])] >= pos'[r]
    BY <1>1, PutZiel
  <2>1. CASE r = p
    BY <1>2, <2>1
  <2>2. CASE r # p
    <3>1. pos'[r] = pos[r] /\ pos[r] \in Nat /\ pc'[r] = pc[r] /\ enqueue_pos' = enqueue_pos
      BY <1>0, <1>1, <1>2, <1>4, <2>2
    <3>2. InZelle(r) => sequence'[Cell(pos[r])] = sequence[Cell(pos[r])]
      BY <1>0, <1>3, <1>5, <2>2, <3>1, ZelleEinzeln
    <3>3. pc[r] = "tauscht" => sequence'[Cell(pos[r])] >= pos[r]
      BY <1>0, <1>4, <1>14, <3>1 DEF PutInv
    <3> QED
      BY <1>0, <1>1, <3>1, <3>2, <3>3 DEF PutInv, InZelle
  <2> QED
    BY <2>1, <2>2
<1>11. GetInv'
  <2> SUFFICES ASSUME NEW h \in Gets
               PROVE  /\ pc'[h] \in {"daten", "freigabe"} =>
                           /\ pos'[h] < dequeue_pos' /\ Gefuellt(pos[h])'
                           /\ anspruch'[h] = vergeben'[pos'[h] + 1]
                      /\ pc'[h] \in {"freigabe", "fertig"} => wert'[h] = anspruch'[h]
                      /\ pc'[h] = "tauscht" => sequence'[Cell(pos'[h])] > pos'[h]
                      /\ anspruch'[h] = Nichts <=> pc'[h] \notin {"daten", "freigabe", "fertig"}
    BY <1>1, GetZiel
  <2>1. pos'[h] = pos[h] /\ pos[h] \in Nat /\ pc'[h] = pc[h]
    BY <1>0, <1>1, <1>2, <1>4
  <2>2. InZelle(h) => Gefuellt(pos[h])'
    <3>1. ASSUME NEW x \in Nat, x = pos[h], InZelle(h) PROVE Gefuellt(x)'
      BY <1>0, <1>13, <3>1 DEF GetInv
    <3> QED
      BY <2>1, <3>1 DEF Gefuellt, Offen
  <2>3. pc[h] = "tauscht" => sequence'[Cell(pos[h])] > pos[h]
    BY <1>0, <1>4, <1>14, <2>1 DEF GetInv
  <2> QED
    BY <1>0, <1>1, <2>1, <2>2, <2>3 DEF GetInv, InZelle
<1>12. GetEindeutig'
  BY <1>0, <1>1, <1>3 DEF GetEindeutig
<1> QED
  BY <1>7, <1>8, <1>9, <1>10, <1>11, <1>12 DEF Nachher

LEMMA GetClaimStep ==
  ASSUME RingOK, RingInv, NEW g \in Gets, get_claim(g)
  PROVE  Nachher
<1>0. /\ RingTypeOK /\ PosInv /\ OffenInv /\ FuellInv /\ PutInv /\ GetInv /\ GetEindeutig
      /\ Puts \subseteq Calls /\ Gets \subseteq Calls
      /\ \A r \in Puts : r \notin Gets /\ r # Nichts
  BY CallFacts DEF RingInv
<1>1. /\ UNCHANGED <<capacity, sequence, data, enqueue_pos, pos, wert, vergeben>>
      /\ dequeue_pos' = dequeue_pos + 1 /\ pos[g] = dequeue_pos /\ pc[g] = "tauscht"
      /\ anspruch' = [anspruch EXCEPT ![g] = vergeben[dequeue_pos + 1]]
      /\ pc' = [pc EXCEPT ![g] = "daten"]
  BY DEF get_claim, Geht, cells
<1>2. /\ enqueue_pos \in Nat /\ dequeue_pos \in Nat /\ dequeue_pos < enqueue_pos
      /\ Len(vergeben) = enqueue_pos /\ vergeben \in Seq(Puts) /\ Gefuellt(dequeue_pos)
      /\ \A c \in Calls : pos[c] \in Nat
  BY <1>0, GetAnspruch DEF RingTypeOK, PosInv
<1>3. /\ pc'[g] = "daten"
      /\ \A d \in Calls : d # g => pc'[d] = pc[d]
  BY <1>0, <1>1 DEF RingTypeOK
<1>4. /\ anspruch'[g] = vergeben[dequeue_pos + 1]
      /\ \A h \in Gets : h # g => anspruch'[h] = anspruch[h]
      /\ anspruch'[g] # Nichts
  <2>1. dequeue_pos + 1 \in 1 .. Len(vergeben)
    BY <1>2
  <2>2. vergeben[dequeue_pos + 1] \in Puts
    BY <1>2, <2>1, ElementOfSeq
  <2> QED
    BY <1>0, <1>1, <2>2 DEF RingTypeOK
<1>5. /\ \A d \in Calls : d # g => (InZelle(d)' <=> InZelle(d))
      /\ InZelle(g)' /\ ~InZelle(g)
  BY <1>1, <1>3 DEF InZelle
<1>6. ASSUME NEW x \in Nat PROVE (Offen(x)' <=> Offen(x)) /\ (Gefuellt(x)' <=> Gefuellt(x))
  <2>1. Offen(x)' <=> Offen(x)
    BY <1>0, <1>1, <1>5 DEF Offen
  <2>2. (x >= dequeue_pos' \/ x = pos[g]) <=> x >= dequeue_pos
    BY <1>1, <1>2
  <2>3. (\E h \in Gets : InZelle(h) /\ pos[h] = x)'
          <=> (\E h \in Gets : InZelle(h) /\ pos[h] = x) \/ x = pos[g]
    BY <1>0, <1>1, <1>5
  <2> QED
    BY <2>1, <2>2, <2>3 DEF Gefuellt
<1>7. PosInv'
  BY <1>0, <1>1, <1>2 DEF PosInv
<1>8. OffenInv'
  BY <1>0, <1>1, <1>6, OffenZiel DEF OffenInv
<1>9. FuellInv'
  BY <1>0, <1>1, <1>6, FuellZiel DEF FuellInv
<1>10. PutInv'
  <2> SUFFICES ASSUME NEW r \in Puts
               PROVE  /\ pc'[r] \in {"daten", "freigabe"} =>
                           /\ pos'[r] < enqueue_pos' /\ sequence'[Cell(pos'[r])] = pos'[r]
                           /\ vergeben'[pos'[r] + 1] = r
                      /\ pc'[r] = "freigabe" => data'[Cell(pos'[r])] = r
                      /\ pc'[r] = "tauscht" => sequence'[Cell(pos'[r])] >= pos'[r]
    BY <1>1, PutZiel
  <2>1. r # g /\ pc'[r] = pc[r]
    BY <1>0, <1>3
  <2> QED
    BY <1>0, <1>1, <2>1 DEF PutInv, InZelle
<1>11. GetInv'
  <2> SUFFICES ASSUME NEW h \in Gets
               PROVE  /\ pc'[h] \in {"daten", "freigabe"} =>
                           /\ pos'[h] < dequeue_pos' /\ Gefuellt(pos[h])'
                           /\ anspruch'[h] = vergeben'[pos'[h] + 1]
                      /\ pc'[h] \in {"freigabe", "fertig"} => wert'[h] = anspruch'[h]
                      /\ pc'[h] = "tauscht" => sequence'[Cell(pos'[h])] > pos'[h]
                      /\ anspruch'[h] = Nichts <=> pc'[h] \notin {"daten", "freigabe", "fertig"}
    BY <1>1, GetZiel
  <2>1. CASE h = g
    <3>1. Gefuellt(pos[h])'
      <4>1. ASSUME NEW x \in Nat, x = dequeue_pos PROVE Gefuellt(x)'
        BY <1>2, <1>6, <4>1
      <4> QED
        BY <1>1, <1>2, <2>1, <4>1 DEF Gefuellt, Offen
    <3> QED
      BY <1>1, <1>2, <1>3, <1>4, <2>1, <3>1
  <2>2. CASE h # g
    <3>1. pos'[h] = pos[h] /\ pos[h] \in Nat /\ pc'[h] = pc[h] /\ anspruch'[h] = anspruch[h]
      BY <1>0, <1>1, <1>2, <1>3, <1>4, <2>2
    <3>2. InZelle(h) => Gefuellt(pos[h])'
      <4>1. ASSUME NEW x \in Nat, x = pos[h], InZelle(h) PROVE Gefuellt(x)'
        BY <1>0, <1>6, <4>1 DEF GetInv
      <4> QED
        BY <3>1, <4>1 DEF Gefuellt, Offen
    <3>3. InZelle(h) => pos[h] < dequeue_pos'
      BY <1>0, <1>1, <1>2, <3>1 DEF GetInv
    <3> QED
      BY <1>0, <1>1, <3>1, <3>2, <3>3 DEF GetInv, InZelle
  <2> QED
    BY <2>1, <2>2
<1>12. GetEindeutig'
  <2> SUFFICES ASSUME NEW h \in Gets, NEW i \in Gets, InZelle(h)', InZelle(i)', pos'[h] = pos'[i],
                      h # i
               PROVE  FALSE
    BY DEF GetEindeutig
  <2>1. ASSUME NEW k \in Gets, k # g, InZelle(k)', pos[k] = pos[g] PROVE FALSE
    BY <1>0, <1>1, <1>2, <1>5, <2>1 DEF GetInv
  <2> QED
    BY <1>0, <1>1, <1>5, <2>1 DEF GetEindeutig
<1> QED
  BY <1>7, <1>8, <1>9, <1>10, <1>11, <1>12 DEF Nachher

LEMMA GetDataStep ==
  ASSUME RingOK, RingInv, NEW g \in Gets, get_data(g)
  PROVE  Nachher
<1>0. /\ RingTypeOK /\ PosInv /\ OffenInv /\ FuellInv /\ PutInv /\ GetInv /\ GetEindeutig
      /\ Puts \subseteq Calls /\ Gets \subseteq Calls
      /\ \A r \in Puts : r \notin Gets /\ r # Nichts
  BY CallFacts DEF RingInv
<1>1. /\ UNCHANGED <<capacity, sequence, data, enqueue_pos, dequeue_pos, pos, vergeben, anspruch>>
      /\ pc[g] = "daten" /\ pc' = [pc EXCEPT ![g] = "freigabe"]
      /\ wert' = [wert EXCEPT ![g] = data[Cell(pos[g])]]
  BY DEF get_data, Geht, cells, history
<1>2. /\ pc'[g] = "freigabe"
      /\ \A d \in Calls : d # g => pc'[d] = pc[d]
      /\ \A d \in Calls : pos[d] \in Nat
  BY <1>0, <1>1 DEF RingTypeOK
<1>3. \A d \in Calls : InZelle(d)' <=> InZelle(d)
  BY <1>1, <1>2 DEF InZelle
<1>4. /\ wert'[g] = anspruch[g]
      /\ \A h \in Gets : h # g => wert'[h] = wert[h]
  <2>1. wert'[g] = data[Cell(pos[g])]
    BY <1>0, <1>1 DEF RingTypeOK
  <2>2. Gefuellt(pos[g]) /\ anspruch[g] = vergeben[pos[g] + 1]
    BY <1>0, <1>1 DEF GetInv, InZelle
  <2>3. data[Cell(pos[g])] = vergeben[pos[g] + 1]
    BY <1>0, <1>2, <2>2 DEF FuellInv
  <2> QED
    BY <1>0, <1>1, <2>1, <2>2, <2>3 DEF RingTypeOK
<1>6. \A x \in Nat : (Offen(x)' <=> Offen(x)) /\ (Gefuellt(x)' <=> Gefuellt(x))
  BY <1>0, <1>1, <1>3 DEF Offen, Gefuellt
<1>7. PosInv'
  BY <1>0, <1>1 DEF PosInv
<1>8. OffenInv'
  BY <1>0, <1>1, <1>6, OffenZiel DEF OffenInv
<1>9. FuellInv'
  BY <1>0, <1>1, <1>6, FuellZiel DEF FuellInv
<1>10. PutInv'
  <2> SUFFICES ASSUME NEW r \in Puts
               PROVE  /\ pc'[r] \in {"daten", "freigabe"} =>
                           /\ pos'[r] < enqueue_pos' /\ sequence'[Cell(pos'[r])] = pos'[r]
                           /\ vergeben'[pos'[r] + 1] = r
                      /\ pc'[r] = "freigabe" => data'[Cell(pos'[r])] = r
                      /\ pc'[r] = "tauscht" => sequence'[Cell(pos'[r])] >= pos'[r]
    BY <1>1, PutZiel
  <2>1. r # g /\ pc'[r] = pc[r]
    BY <1>0, <1>2
  <2> QED
    BY <1>0, <1>1, <2>1 DEF PutInv, InZelle
<1>11. GetInv'
  <2> SUFFICES ASSUME NEW h \in Gets
               PROVE  /\ pc'[h] \in {"daten", "freigabe"} =>
                           /\ pos'[h] < dequeue_pos' /\ Gefuellt(pos[h])'
                           /\ anspruch'[h] = vergeben'[pos'[h] + 1]
                      /\ pc'[h] \in {"freigabe", "fertig"} => wert'[h] = anspruch'[h]
                      /\ pc'[h] = "tauscht" => sequence'[Cell(pos'[h])] > pos'[h]
                      /\ anspruch'[h] = Nichts <=> pc'[h] \notin {"daten", "freigabe", "fertig"}
    BY <1>1, GetZiel
  <2>1. InZelle(h) => Gefuellt(pos[h])'
    <3>1. InZelle(h) => Gefuellt(pos[h])
      BY <1>0 DEF GetInv
    <3> QED
      BY <1>0, <1>1, <1>3, <3>1 DEF Gefuellt, Offen
  <2>2. CASE h = g
    BY <1>0, <1>1, <1>2, <1>4, <2>1, <2>2 DEF GetInv, InZelle
  <2>3. CASE h # g
    BY <1>0, <1>1, <1>2, <1>4, <2>1, <2>3 DEF GetInv, InZelle
  <2> QED
    BY <2>2, <2>3
<1>12. GetEindeutig'
  BY <1>0, <1>1, <1>3 DEF GetEindeutig
<1> QED
  BY <1>7, <1>8, <1>9, <1>10, <1>11, <1>12 DEF Nachher

LEMMA GetReleaseStep ==
  ASSUME RingOK, RingInv, NEW g \in Gets, get_release(g)
  PROVE  Nachher
<1>0. /\ RingTypeOK /\ PosInv /\ OffenInv /\ FuellInv /\ PutInv /\ GetInv /\ GetEindeutig
      /\ Puts \subseteq Calls /\ Gets \subseteq Calls
      /\ \A r \in Puts : r \notin Gets /\ r # Nichts
  BY CallFacts DEF RingInv
<1>1. /\ UNCHANGED <<capacity, data, enqueue_pos, dequeue_pos, pos, wert, vergeben, anspruch>>
      /\ pc[g] = "freigabe" /\ pc' = [pc EXCEPT ![g] = "fertig"]
      /\ sequence' = [sequence EXCEPT ![Cell(pos[g])] = pos[g] + capacity]
  BY DEF get_release, Geht, history
<1>2. /\ pc'[g] = "fertig"
      /\ \A d \in Calls : d # g => pc'[d] = pc[d]
  BY <1>0, <1>1 DEF RingTypeOK
<1>3. /\ \A d \in Calls : d # g => (InZelle(d)' <=> InZelle(d))
      /\ InZelle(g) /\ ~InZelle(g)'
  BY <1>1, <1>2 DEF InZelle
<1>4. /\ \A d \in Calls : pos[d] \in Nat
      /\ \A x \in Nat : Cell(x) \in 0 .. capacity - 1 /\ sequence[Cell(x)] \in Nat
      /\ capacity \in Nat /\ capacity >= 2 /\ dequeue_pos \in Nat
  BY <1>0, ZelleTyp DEF RingTypeOK, PosInv
<1>5. /\ sequence'[Cell(pos[g])] = pos[g] + capacity
      /\ \A x \in Nat : Cell(x) # Cell(pos[g]) => sequence'[Cell(x)] = sequence[Cell(x)]
  BY <1>0, <1>1, <1>4 DEF RingTypeOK
<1>6. /\ pos[g] < dequeue_pos /\ sequence[Cell(pos[g])] = pos[g] + 1 /\ Gefuellt(pos[g])
  BY <1>0, <1>3, <1>4 DEF GetInv, FuellInv
<1>13. \A x \in Nat : /\ Offen(x)' <=> Offen(x)
                      /\ Gefuellt(x)' => Gefuellt(x) /\ x # pos[g]
                      /\ Gefuellt(x) => Gefuellt(x)' \/ x = pos[g]
  <2> SUFFICES ASSUME NEW x \in Nat
               PROVE  /\ Offen(x)' <=> Offen(x)
                      /\ Gefuellt(x)' => Gefuellt(x) /\ x # pos[g]
                      /\ Gefuellt(x) => Gefuellt(x)' \/ x = pos[g]
    OBVIOUS
  <2>1. Offen(x)' <=> Offen(x)
    BY <1>0, <1>1, <1>3 DEF Offen
  <2>2. ~(pos[g] >= dequeue_pos)
    BY <1>0, <1>4, <1>6
  <2>3. ASSUME NEW h \in Gets, h # g, InZelle(h), pos[h] = pos[g] PROVE FALSE
    BY <1>0, <1>3, <2>3 DEF GetEindeutig
  <2>4. (\E h \in Gets : InZelle(h) /\ pos[h] = x)'
          <=> (\E h \in Gets : InZelle(h) /\ pos[h] = x) /\ x # pos[g]
    BY <1>0, <1>1, <1>3, <2>3
  <2> QED
    BY <1>1, <2>1, <2>2, <2>4 DEF Gefuellt
<1>7. PosInv'
  BY <1>0, <1>1 DEF PosInv
<1>8. OffenInv'
  <2> SUFFICES ASSUME NEW x \in Nat, Offen(x)' PROVE sequence'[Cell(x)] <= x
    BY <1>1, OffenZiel
  <2>1. sequence[Cell(x)] <= x
    BY <1>0, <1>13 DEF OffenInv
  <2>2. CASE Cell(x) = Cell(pos[g])
    <3>1. pos[g] \in Nat /\ pos[g] < x
      BY <1>0, <1>4, <1>6, <2>1, <2>2
    <3>2. pos[g] + capacity <= x
      BY <1>0, <2>2, <3>1, CellFern
    <3> QED
      BY <1>5, <2>2, <3>2
  <2>3. CASE Cell(x) # Cell(pos[g])
    BY <1>5, <2>1, <2>3
  <2> QED
    BY <2>2, <2>3
<1>9. FuellInv'
  <2> SUFFICES ASSUME NEW x \in Nat, Gefuellt(x)'
               PROVE  sequence'[Cell(x)] = x + 1 /\ data'[Cell(x)] = vergeben'[x + 1]
    BY <1>1, FuellZiel
  <2>1. sequence[Cell(x)] = x + 1 /\ data[Cell(x)] = vergeben[x + 1] /\ x # pos[g]
    BY <1>0, <1>13 DEF FuellInv
  <2>2. Cell(x) # Cell(pos[g])
    BY <1>0, <1>4, <1>6, <2>1
  <2> QED
    BY <1>1, <1>5, <2>1, <2>2
<1>14. \A x \in Nat : sequence'[Cell(x)] \in Nat /\ sequence'[Cell(x)] >= sequence[Cell(x)]
  <2> SUFFICES ASSUME NEW x \in Nat
               PROVE  sequence'[Cell(x)] \in Nat /\ sequence'[Cell(x)] >= sequence[Cell(x)]
    OBVIOUS
  <2>1. CASE Cell(x) = Cell(pos[g])
    BY <1>0, <1>4, <1>5, <1>6, <2>1
  <2>2. CASE Cell(x) # Cell(pos[g])
    BY <1>4, <1>5, <2>2
  <2> QED
    BY <2>1, <2>2
<1>10. PutInv'
  <2> SUFFICES ASSUME NEW r \in Puts
               PROVE  /\ pc'[r] \in {"daten", "freigabe"} =>
                           /\ pos'[r] < enqueue_pos' /\ sequence'[Cell(pos'[r])] = pos'[r]
                           /\ vergeben'[pos'[r] + 1] = r
                      /\ pc'[r] = "freigabe" => data'[Cell(pos'[r])] = r
                      /\ pc'[r] = "tauscht" => sequence'[Cell(pos'[r])] >= pos'[r]
    BY <1>1, PutZiel
  <2>1. pos'[r] = pos[r] /\ pos[r] \in Nat /\ pc'[r] = pc[r] /\ enqueue_pos' = enqueue_pos /\ r # g
    BY <1>0, <1>1, <1>2, <1>4
  <2>2. InZelle(r) => sequence'[Cell(pos[r])] = sequence[Cell(pos[r])]
    BY <1>0, <1>3, <1>5, <2>1, ZelleEinzeln
  <2>3. pc[r] = "tauscht" => sequence'[Cell(pos[r])] >= pos[r]
    BY <1>0, <1>4, <1>14, <2>1 DEF PutInv
  <2> QED
    BY <1>0, <1>1, <2>1, <2>2, <2>3 DEF PutInv, InZelle
<1>11. GetInv'
  <2> SUFFICES ASSUME NEW h \in Gets
               PROVE  /\ pc'[h] \in {"daten", "freigabe"} =>
                           /\ pos'[h] < dequeue_pos' /\ Gefuellt(pos[h])'
                           /\ anspruch'[h] = vergeben'[pos'[h] + 1]
                      /\ pc'[h] \in {"freigabe", "fertig"} => wert'[h] = anspruch'[h]
                      /\ pc'[h] = "tauscht" => sequence'[Cell(pos'[h])] > pos'[h]
                      /\ anspruch'[h] = Nichts <=> pc'[h] \notin {"daten", "freigabe", "fertig"}
    BY <1>1, GetZiel
  <2>1. CASE h = g
    BY <1>0, <1>1, <1>2, <2>1 DEF GetInv
  <2>2. CASE h # g
    <3>1. pos'[h] = pos[h] /\ pos[h] \in Nat /\ pc'[h] = pc[h]
      BY <1>0, <1>1, <1>2, <1>4, <2>2
    <3>2. InZelle(h) => Gefuellt(pos[h])'
      <4>1. InZelle(h) => pos[h] # pos[g]
        BY <1>0, <1>3, <2>2 DEF GetEindeutig
      <4>2. ASSUME NEW x \in Nat, x = pos[h], InZelle(h) PROVE Gefuellt(x)'
        BY <1>0, <1>13, <4>1, <4>2 DEF GetInv
      <4> QED
        BY <3>1, <4>2 DEF Gefuellt, Offen
    <3>3. pc[h] = "tauscht" => sequence'[Cell(pos[h])] > pos[h]
      BY <1>0, <1>4, <1>14, <3>1 DEF GetInv
    <3> QED
      BY <1>0, <1>1, <3>1, <3>2, <3>3 DEF GetInv, InZelle
  <2> QED
    BY <2>1, <2>2
<1>12. GetEindeutig'
  BY <1>0, <1>1, <1>3 DEF GetEindeutig
<1> QED
  BY <1>7, <1>8, <1>9, <1>10, <1>11, <1>12 DEF Nachher

-----------------------------------------------------------------------------
\* A ring without content, in which no call is under way.
Leer ==
  /\ RingTypeOK /\ capacity >= 2
  /\ sequence = Folge(capacity)
  /\ enqueue_pos = 0 /\ dequeue_pos = 0 /\ vergeben = <<>>
  /\ \A c \in Calls : Ruht(c)
  /\ \A g \in Gets : /\ pc[g] = "fertig" => wert[g] = anspruch[g]
                     /\ anspruch[g] = Nichts <=> pc[g] # "fertig"

LEMMA LeerGilt == RingOK /\ Leer => RingInv
<1> SUFFICES ASSUME RingOK, Leer PROVE RingInv
  OBVIOUS
<1>0. /\ RingTypeOK /\ capacity \in Nat \ {0} /\ capacity >= 2 /\ enqueue_pos = 0 /\ dequeue_pos = 0
      /\ Puts \subseteq Calls /\ Gets \subseteq Calls
  BY CallFacts DEF Leer, RingTypeOK
<1>1. \A c \in Calls : ~InZelle(c) /\ pc[c] # "tauscht"
  BY DEF Leer, Ruht, InZelle
<1>2. \A x \in Nat : Offen(x)
  BY <1>0 DEF Offen
<1>3. PosInv
  BY <1>0 DEF PosInv, Leer
<1>4. OffenInv
  <2> SUFFICES ASSUME NEW x \in Nat PROVE sequence[Cell(x)] <= x
    BY DEF OffenInv
  <2>1. Cell(x) \in 0 .. capacity - 1 /\ Cell(x) <= x
    BY <1>0, ZelleTyp, ZelleKlein DEF Cell
  <2> QED
    BY <2>1 DEF Leer, Folge
<1>5. FuellInv
  BY <1>2 DEF FuellInv, Gefuellt
<1>6. PutInv /\ GetEindeutig
  BY <1>0, <1>1 DEF PutInv, GetEindeutig, InZelle
<1>7. GetInv
  BY <1>0, <1>1 DEF GetInv, InZelle, Leer
<1> QED
  BY <1>0, <1>3, <1>4, <1>5, <1>6, <1>7 DEF RingInv

LEMMA RingInitInv == RingOK /\ RingInit => RingInv
<1> SUFFICES ASSUME RingOK, RingInit PROVE Leer
  BY LeerGilt
<1>1. capacity \in Nat \ {0} /\ capacity >= 2
  BY RingConstantsOK DEF RingInit, validate_capacity, RingOK
<1>2. RingTypeOK
  BY <1>1 DEF RingInit, RingTypeOK, Folge, KeineDaten
<1>3. \A c \in Calls : Ruht(c)
  BY DEF RingInit, Ruht
<1>4. \A g \in Gets : pc[g] = "neu" /\ anspruch[g] = Nichts
  BY DEF RingInit, Calls
<1> QED
  BY <1>1, <1>2, <1>3, <1>4 DEF RingInit, Leer

LEMMA LeerStep ==
  ASSUME RingOK, RingInv, [RingNext]_ringVars,
         clear \/ \E c \in Requested : set_iterable_aspect(c)
  PROVE  RingInv'
<1>1. Leer'
  <2>0. /\ RingTypeOK /\ PosInv /\ GetInv /\ Gets \subseteq Calls
    BY CallFacts DEF RingInv
  <2>1. RingTypeOK'
    BY RingTypeStep
  <2>2. /\ \A c \in Calls : Ruht(c)
        /\ UNCHANGED <<pc, pos, wert, anspruch>>
        /\ sequence' = Folge(capacity') /\ enqueue_pos' = 0 /\ dequeue_pos' = 0
        /\ vergeben' = <<>>
    BY DEF clear, set_iterable_aspect
  <2>3. capacity' >= 2
    <3>1. CASE clear
      BY <2>0, <3>1 DEF clear, PosInv
    <3>2. ASSUME NEW c \in Requested, set_iterable_aspect(c) PROVE capacity' >= 2
      BY <3>2, RingConstantsOK DEF set_iterable_aspect, validate_capacity, RingOK
    <3> QED
      BY <3>1, <3>2
  <2>4. \A g \in Gets : /\ pc[g] = "fertig" => wert[g] = anspruch[g]
                        /\ anspruch[g] = Nichts <=> pc[g] # "fertig"
    BY <2>0, <2>2 DEF GetInv, Ruht
  <2>5. \A c \in Calls : Ruht(c)'
    BY <2>2 DEF Ruht
  <2>6. sequence' = Folge(capacity)'
    BY <2>2 DEF Folge
  <2> QED
    BY <2>1, <2>2, <2>3, <2>4, <2>5, <2>6 DEF Leer
<1> QED
  BY <1>1, LeerGilt, PTL

LEMMA RingNextInv == RingOK /\ RingInv /\ [RingNext]_ringVars => RingInv'
<1> SUFFICES ASSUME RingOK, RingInv, [RingNext]_ringVars PROVE RingInv'
  OBVIOUS
<1>1. RingTypeOK'
  BY RingTypeStep
<1>2. ASSUME NEW p \in Puts, Putting(p) PROVE Nachher
  BY <1>2, SuchendStep, PutClaimStep, PutDataStep, PutReleaseStep,
     CallFacts DEF Putting
<1>3. ASSUME NEW g \in Gets, Getting(g) PROVE Nachher
  BY <1>3, SuchendStep, GetClaimStep, GetDataStep, GetReleaseStep,
     CallFacts DEF Getting
<1>4. ASSUME UNCHANGED ringVars PROVE RingInv'
  BY <1>4 DEF RingInv, ringVars, cells, history, RingTypeOK, PosInv,
     OffenInv, FuellInv, PutInv, GetInv,
              GetEindeutig, Offen, Gefuellt, Cell, InZelle
<1>5. Nachher => RingInv'
  BY <1>1 DEF Nachher, RingInv
<1> QED
  BY <1>2, <1>3, <1>4, <1>5, LeerStep DEF RingNext

\* The numbers of the cells tell what has become of every position, in every
\* interleaving of puts, gets and resets.
THEOREM RingInvariance == RingOK => (RingSpec => []RingInv)
<1> SUFFICES ASSUME RingOK PROVE RingSpec => []RingInv
  OBVIOUS
<1>1. RingInit => RingInv
  BY RingInitInv
<1>2. RingInv /\ [RingNext]_ringVars => RingInv'
  BY RingNextInv
<1> QED
  BY <1>1, <1>2, PTL DEF RingSpec

\* A ring always has a valid capacity and a cell for each of its numbers
\* (validate_capacity, axis_q1_queuing_lockfree_mpmc.hpp:284).
THEOREM RingTypeCorrect == RingOK => (RingSpec => []RingTypeOK)
<1>1. RingInv => RingTypeOK
  BY DEF RingInv
<1> QED
  BY <1>1, RingInvariance, PTL

\* The data of a cell, which is not atomic, is accessed by one call at a time: there
\* is no data race between any number of producers and consumers.
THEOREM NoDataRace == RingOK => (RingSpec => []CellExclusive)
<1>1. RingInv => CellExclusive
  BY ZelleEinzeln DEF CellExclusive
<1> QED
  BY <1>1, RingInvariance, PTL

-----------------------------------------------------------------------------
Inhalt == SubSeq(vergeben, dequeue_pos + 1, enqueue_pos)
Geliefert == [g \in Gets |-> IF pc[g] = "fertig" THEN wert[g] ELSE Nichts]

LEMMA InhaltFacts ==
  ASSUME NEW s \in Seq(Puts), NEW d \in Nat, NEW e \in Nat, d <= e, e = Len(s)
  PROVE  /\ SubSeq(s, d + 1, e) \in Seq(Puts) /\ Len(SubSeq(s, d + 1, e)) = e - d
         /\ \A i \in 1 .. e - d : SubSeq(s, d + 1, e)[i] = s[d + i]
<1>1. \A i \in d + 1 .. e : s[i] \in Puts
  BY ElementOfSeq
<1>2. d + 1 \in Int /\ e \in Int
  OBVIOUS
<1>3. /\ SubSeq(s, d + 1, e) \in Seq(Puts)
      /\ Len(SubSeq(s, d + 1, e)) = IF d + 1 <= e THEN e - (d + 1) + 1 ELSE 0
      /\ \A i \in 1 .. e - (d + 1) + 1 : SubSeq(s, d + 1, e)[i] = s[(d + 1) + i - 1]
  BY <1>1, <1>2, SubSeqProperties
<1> QED
  BY <1>3

\* An exchange of put appends to the content.
LEMMA InhaltAppend ==
  ASSUME NEW s \in Seq(Puts), NEW p \in Puts, NEW d \in Nat, NEW e \in Nat, d <= e, e = Len(s)
  PROVE  SubSeq(Append(s, p), d + 1, e + 1) = Append(SubSeq(s, d + 1, e), p)
<1> DEFINE t == Append(s, p)
           u == SubSeq(s, d + 1, e)
<1>1. /\ t \in Seq(Puts) /\ Len(t) = e + 1 /\ t[e + 1] = p
      /\ \A i \in 1 .. e : t[i] = s[i]
  BY AppendProperties
<1>2. /\ u \in Seq(Puts) /\ Len(u) = e - d
      /\ \A i \in 1 .. e - d : u[i] = s[d + i]
  BY InhaltFacts
<1> HIDE DEF t, u
<1>3. /\ SubSeq(t, d + 1, e + 1) \in Seq(Puts) /\ Len(SubSeq(t, d + 1, e + 1)) = (e + 1) - d
      /\ \A i \in 1 .. (e + 1) - d : SubSeq(t, d + 1, e + 1)[i] = t[d + i]
  BY <1>1, InhaltFacts
<1>4. /\ Append(u, p) \in Seq(Puts) /\ Len(Append(u, p)) = e - d + 1
      /\ \A i \in 1 .. e - d : Append(u, p)[i] = u[i]
      /\ Append(u, p)[e - d + 1] = p
  BY <1>2, AppendProperties
<1>5. ASSUME NEW i \in 1 .. (e + 1) - d PROVE SubSeq(t, d + 1, e + 1)[i] = Append(u, p)[i]
  <2>1. CASE i = e - d + 1
    BY <1>1, <1>3, <1>4, <2>1
  <2>2. CASE i \in 1 .. e - d
    <3>1. d + i \in 1 .. e
      BY <2>2
    <3> QED
      BY <1>1, <1>2, <1>3, <1>4, <2>2, <3>1
  <2>3. i = e - d + 1 \/ i \in 1 .. e - d
    OBVIOUS
  <2> QED
    BY <2>1, <2>2, <2>3, Zenon
<1>6. SubSeq(t, d + 1, e + 1) = Append(u, p)
  <2>1. (e + 1) - d = e - d + 1
    OBVIOUS
  <2>2. \A i \in 1 .. Len(SubSeq(t, d + 1, e + 1)) : SubSeq(t, d + 1, e + 1)[i] = Append(u, p)[i]
    BY <1>3, <1>5
  <2>3. Len(SubSeq(t, d + 1, e + 1)) = Len(Append(u, p))
    BY <1>3, <1>4, <2>1
  <2> QED
    BY <1>3, <1>4, <2>2, <2>3, SeqEqual
<1> QED
  BY <1>6 DEF t, u

\* An exchange of get takes the first value of the content.
LEMMA InhaltTail ==
  ASSUME NEW s \in Seq(Puts), NEW d \in Nat, NEW e \in Nat, d < e, e = Len(s)
  PROVE  /\ SubSeq(s, d + 1, e) # <<>>
         /\ Head(SubSeq(s, d + 1, e)) = s[d + 1]
         /\ Tail(SubSeq(s, d + 1, e)) = SubSeq(s, d + 2, e)
<1>1. d + 1 \in 1 .. Len(s) /\ e \in d + 1 .. Len(s)
  OBVIOUS
<1>2. Len(SubSeq(s, d + 1, e)) = e - d
  BY InhaltFacts
<1>3. SubSeq(s, d + 1, e) # <<>>
  BY <1>2, EmptySeq
<1> QED
  BY <1>1, <1>3, HeadTailOfSubSeq

\* Every step of the ring is one of the bounded queue, or none.
LEMMA FifoStep ==
  ASSUME RingOK, RingInv, RingInv', [RingNext]_ringVars
  PROVE  [Fifo!Next]_<<Inhalt, capacity, anspruch, Geliefert>>
<1> USE DEF Inhalt
<1>0. /\ RingTypeOK /\ PosInv /\ GetInv /\ RingTypeOK' /\ Gets \subseteq Calls /\ Puts \subseteq Calls
      /\ \A r \in Puts : r \notin Gets /\ r # Nichts
  BY CallFacts DEF RingInv
<1>1. /\ vergeben \in Seq(Puts) /\ dequeue_pos \in Nat /\ enqueue_pos \in Nat
      /\ dequeue_pos <= enqueue_pos /\ enqueue_pos = Len(vergeben)
  BY <1>0 DEF RingTypeOK, PosInv
<1>2. ASSUME NEW c \in Calls, pc'[c] # "fertig" \/ c \notin Gets, pc[c] # "fertig",
             \A d \in Calls : d # c => pc'[d] = pc[d],
             \A g \in Gets : g # c => wert'[g] = wert[g]
      PROVE  Geliefert' = Geliefert
  BY <1>0, <1>2 DEF Geliefert
<1>3. ASSUME NEW p \in Puts, put_claim(p)
      PROVE  Fifo!Put(p)
  <2>1. /\ UNCHANGED <<capacity, dequeue_pos, anspruch, wert>>
        /\ enqueue_pos' = enqueue_pos + 1 /\ vergeben' = Append(vergeben, p)
        /\ pc[p] = "tauscht" /\ pc' = [pc EXCEPT ![p] = "daten"]
    BY <1>3 DEF put_claim, cells, Geht
  <2>2. Inhalt' = Append(Inhalt, p)
    BY <1>1, <2>1, InhaltAppend
  <2>3. Len(Inhalt) < capacity
    <3>1. enqueue_pos < dequeue_pos + capacity
      BY <1>3, PutAnspruch
    <3>2. Len(Inhalt) = enqueue_pos - dequeue_pos
      BY <1>1, InhaltFacts
    <3> QED
      BY <1>0, <1>1, <3>1, <3>2 DEF RingTypeOK
  <2>4. Geliefert' = Geliefert
    BY <1>0, <1>2, <2>1 DEF RingTypeOK
  <2> QED
    BY <2>1, <2>2, <2>3, <2>4 DEF Fifo!Put, Geliefert
<1>4. ASSUME NEW g \in Gets, get_claim(g)
      PROVE  Fifo!Take(g)
  <2>1. /\ UNCHANGED <<capacity, enqueue_pos, vergeben, wert>>
        /\ dequeue_pos' = dequeue_pos + 1
        /\ anspruch' = [anspruch EXCEPT ![g] = vergeben[dequeue_pos + 1]]
        /\ pc[g] = "tauscht" /\ pc' = [pc EXCEPT ![g] = "daten"]
    BY <1>4 DEF get_claim, cells, Geht
  <2>2. dequeue_pos < enqueue_pos
    BY <1>4, GetAnspruch
  <2>3. /\ Inhalt # <<>> /\ Head(Inhalt) = vergeben[dequeue_pos + 1]
        /\ Tail(Inhalt) = Inhalt'
    <3>1. Tail(Inhalt) = SubSeq(vergeben, dequeue_pos + 2, enqueue_pos)
      BY <1>1, <2>2, InhaltTail
    <3>2. Inhalt' = SubSeq(vergeben, (dequeue_pos + 1) + 1, enqueue_pos)
      BY <2>1
    <3>3. (dequeue_pos + 1) + 1 = dequeue_pos + 2
      BY <1>1
    <3>4. Inhalt # <<>> /\ Head(Inhalt) = vergeben[dequeue_pos + 1]
      BY <1>1, <2>2, InhaltTail
    <3> QED
      BY <3>1, <3>2, <3>3, <3>4
  <2>4. Geliefert' = Geliefert
    BY <1>0, <1>2, <2>1 DEF RingTypeOK
  <2>5. anspruch[g] = Nichts
    BY <1>0, <2>1 DEF GetInv
  <2> QED
    BY <2>1, <2>3, <2>4, <2>5 DEF Fifo!Take, Geliefert
<1>5. ASSUME NEW g \in Gets, get_release(g)
      PROVE  Fifo!Return(g)
  <2>1. /\ UNCHANGED <<capacity, enqueue_pos, dequeue_pos, vergeben, wert, anspruch>>
        /\ pc[g] = "freigabe" /\ pc' = [pc EXCEPT ![g] = "fertig"]
    BY <1>5 DEF get_release, history, Geht
  <2>2. anspruch[g] # Nichts /\ wert[g] = anspruch[g]
    BY <1>0, <2>1 DEF GetInv
  <2>3. Geliefert[g] = Nichts
    BY <2>1 DEF Geliefert
  <2>4. Geliefert' = [Geliefert EXCEPT ![g] = anspruch[g]]
    BY <1>0, <2>1, <2>2 DEF Geliefert, RingTypeOK
  <2> QED
    BY <2>1, <2>2, <2>3, <2>4 DEF Fifo!Return, Geliefert
<1>6. ASSUME clear \/ \E c \in Requested : set_iterable_aspect(c)
      PROVE  Fifo!Reset
  <2>1. /\ UNCHANGED <<pc, wert, anspruch>>
        /\ enqueue_pos' = 0 /\ dequeue_pos' = 0 /\ vergeben' = <<>>
    BY <1>6 DEF clear, set_iterable_aspect
  <2>2. Inhalt' = <<>>
    BY <2>1, SubSeqEmpty
  <2>3. Geliefert' = Geliefert
    BY <2>1 DEF Geliefert
  <2>4. capacity' \in Nat
    BY <1>0 DEF RingTypeOK
  <2> QED
    BY <2>1, <2>2, <2>3, <2>4 DEF Fifo!Reset, Geliefert
<1>7. ASSUME NEW p \in Puts,
             \/ put_load(p) \/ put_check(p) \/ put_claim_fails(p)
             \/ put_data(p) \/ put_release(p)
      PROVE  UNCHANGED <<Inhalt, capacity, anspruch, Geliefert>>
  <2>1. UNCHANGED <<capacity, enqueue_pos, dequeue_pos, vergeben, wert, anspruch>>
    BY <1>7 DEF put_load, put_check, put_claim_fails, put_data,
       put_release, cells, history
  <2>2. \A d \in Calls : d # p => pc'[d] = pc[d]
    BY <1>0, <1>7 DEF put_load, put_check, put_claim_fails, put_data,
       put_release, Geht, RingTypeOK
  <2>3. Geliefert' = Geliefert
    BY <1>0, <2>1, <2>2 DEF Geliefert
  <2> QED
    BY <2>1, <2>3
<1>8. ASSUME NEW g \in Gets, get_load(g) \/ get_check(g) \/ get_claim_fails(g) \/ get_data(g)
      PROVE  UNCHANGED <<Inhalt, capacity, anspruch, Geliefert>>
  <2>1. UNCHANGED <<capacity, enqueue_pos, dequeue_pos, vergeben, anspruch>>
    BY <1>8 DEF get_load, get_check, get_claim_fails, get_data,
       cells, history
  <2>2. /\ \A d \in Calls : d # g => pc'[d] = pc[d]
        /\ pc[g] # "fertig" /\ pc'[g] # "fertig"
    BY <1>0, <1>8 DEF get_load, get_check, get_claim_fails, get_data,
       Geht, RingTypeOK
  <2>3. \A h \in Gets : h # g => wert'[h] = wert[h]
    BY <1>0, <1>8 DEF get_load, get_check, get_claim_fails, get_data,
       RingTypeOK
  <2>4. Geliefert' = Geliefert
    BY <1>0, <1>2, <2>2, <2>3
  <2> QED
    BY <2>1, <2>4
<1>9. CASE UNCHANGED ringVars
  BY <1>9 DEF ringVars, cells, history, Geliefert
<1> QED
  BY <1>3, <1>4, <1>5, <1>6, <1>7, <1>8, <1>9 DEF RingNext, Putting, Getting,
     Fifo!Next

\* The ring implements a bounded queue: a value goes in at the exchange of put, out
\* at the exchange of get, in order, and what get returns is what went in.
THEOREM RingIsFifo == RingOK => (RingSpec => IsFifo)
<1> SUFFICES ASSUME RingOK PROVE RingSpec => IsFifo
  OBVIOUS
<1>1. RingInit => Fifo!Init
  <2> SUFFICES ASSUME RingInit PROVE Fifo!Init
    OBVIOUS
  <2>1. RingInv
    BY RingInitInv
  <2>2. Inhalt = <<>>
    BY SubSeqEmpty DEF RingInit, Inhalt
  <2>3. Geliefert = [g \in Gets |-> Nichts]
    BY DEF Geliefert, RingInit, Calls
  <2> QED
    BY <2>1, <2>2, <2>3 DEF RingInit, RingInv, RingTypeOK, Fifo!Init, Inhalt,
       Geliefert
<1>2. RingInv /\ RingInv' /\ [RingNext]_ringVars =>
        [Fifo!Next]_<<Inhalt, capacity, anspruch, Geliefert>>
  BY FifoStep
<1>3. RingSpec => []RingInv
  BY RingInvariance
<1> QED
  BY <1>1, <1>2, <1>3, PTL DEF RingSpec, IsFifo, Fifo!Spec, Inhalt, Geliefert

-----------------------------------------------------------------------------
(***************************************************************************)
(* Every value is delivered at most once, and a dropped one never: each    *)
(* put puts its own name, so it is enough to follow the names.             *)
(***************************************************************************)
Angenommen(p) == pc[p] \in {"daten", "freigabe", "fertig"}

EinmalInv ==
  /\ \A i, j \in 1 .. Len(vergeben) : vergeben[i] = vergeben[j] => i = j
  /\ \A p \in Puts : ~Angenommen(p) => \A i \in 1 .. Len(vergeben) : vergeben[i] # p
  /\ \A g \in Gets : anspruch[g] # Nichts =>
       /\ pc[anspruch[g]] = "fertig"
       /\ \A i \in dequeue_pos + 1 .. Len(vergeben) : anspruch[g] # vergeben[i]
       /\ \A h \in Gets : anspruch[g] = anspruch[h] => g = h

\* A step that gives and takes no position, and turns no call that has succeeded back.
LEMMA EinmalBleibt ==
  ASSUME EinmalInv, UNCHANGED <<vergeben, anspruch, dequeue_pos>>,
         \A g \in Gets : anspruch[g] \in Puts \cup {Nichts},
         \A p \in Puts : /\ Angenommen(p) => Angenommen(p)'
                         /\ pc[p] = "fertig" => pc'[p] = "fertig"
  PROVE  EinmalInv'
  BY DEF EinmalInv

LEMMA EinmalPut ==
  ASSUME RingInv, EinmalInv, NEW p \in Puts, put_claim(p)
  PROVE  EinmalInv'
<1>0. RingTypeOK /\ PosInv /\ \A q \in Puts : q \in Calls /\ q # Nichts
  BY CallFacts DEF RingInv
<1>1. /\ vergeben \in Seq(Puts) /\ dequeue_pos \in Nat /\ Len(vergeben) \in Nat
      /\ dequeue_pos <= Len(vergeben)
  BY <1>0 DEF RingTypeOK, PosInv
<1>2. /\ Len(vergeben') = Len(vergeben) + 1
      /\ \A i \in 1 .. Len(vergeben) : vergeben'[i] = vergeben[i]
      /\ vergeben'[Len(vergeben) + 1] = p
  BY <1>1 DEF put_claim
<1>3. \A i \in 1 .. Len(vergeben') : i \in 1 .. Len(vergeben) \/ i = Len(vergeben) + 1
  BY <1>1, <1>2
<1>4. /\ pc[p] = "tauscht" /\ pc'[p] = "daten"
      /\ \A c \in Calls : c # p => pc'[c] = pc[c]
      /\ anspruch' = anspruch /\ dequeue_pos' = dequeue_pos
  BY <1>0 DEF put_claim, Geht, RingTypeOK
<1>5. ~Angenommen(p) /\ \A i \in 1 .. Len(vergeben) : vergeben[i] # p
  BY <1>4 DEF EinmalInv, Angenommen
<1>6. \A i, j \in 1 .. Len(vergeben') : vergeben'[i] = vergeben'[j] => i = j
  BY <1>2, <1>3, <1>5 DEF EinmalInv
<1>7. ASSUME NEW q \in Puts, ~Angenommen(q)'
      PROVE  \A i \in 1 .. Len(vergeben') : vergeben'[i] # q
  <2>1. q # p /\ ~Angenommen(q)
    BY <1>0, <1>4, <1>7 DEF Angenommen
  <2> QED
    BY <2>1, <1>2, <1>3 DEF EinmalInv
<1>8. ASSUME NEW g \in Gets, anspruch'[g] # Nichts
      PROVE  /\ pc'[anspruch'[g]] = "fertig"
             /\ \A i \in dequeue_pos' + 1 .. Len(vergeben') : anspruch'[g] # vergeben'[i]
             /\ \A h \in Gets : anspruch'[g] = anspruch'[h] => g = h
  <2>1. /\ anspruch[g] \in Puts /\ pc[anspruch[g]] = "fertig"
        /\ \A i \in dequeue_pos + 1 .. Len(vergeben) : anspruch[g] # vergeben[i]
        /\ \A h \in Gets : anspruch[g] = anspruch[h] => g = h
    BY <1>0, <1>4, <1>8 DEF EinmalInv, RingTypeOK
  <2>2. anspruch[g] # p /\ pc'[anspruch[g]] = "fertig"
    BY <1>0, <1>4, <2>1
  <2>3. \A i \in dequeue_pos + 1 .. Len(vergeben') :
          \/ i \in dequeue_pos + 1 .. Len(vergeben) /\ vergeben'[i] = vergeben[i]
          \/ i = Len(vergeben) + 1
    BY <1>1, <1>2
  <2> QED
    BY <1>2, <1>4, <2>1, <2>2, <2>3
<1> QED
  BY <1>6, <1>7, <1>8 DEF EinmalInv

\* The value that a get takes is in no other hands, and its put is done.
LEMMA EinmalGet ==
  ASSUME RingInv, EinmalInv, NEW g \in Gets, get_claim(g)
  PROVE  EinmalInv'
<1>0. /\ RingTypeOK /\ PosInv /\ PutInv
      /\ \A q \in Puts : q \in Calls /\ q \notin Gets /\ q # Nichts
  BY CallFacts DEF RingInv
<1>1. /\ vergeben \in Seq(Puts) /\ dequeue_pos \in Nat /\ Len(vergeben) \in Nat
      /\ dequeue_pos < Len(vergeben) /\ ~Offen(dequeue_pos)
  BY <1>0, GetAnspruch DEF RingTypeOK, PosInv, Gefuellt
<1> DEFINE v == vergeben[dequeue_pos + 1]
<1>2. /\ dequeue_pos + 1 \in 1 .. Len(vergeben) /\ v \in Puts
  BY <1>1
<1>3. /\ vergeben' = vergeben /\ dequeue_pos' = dequeue_pos + 1
      /\ anspruch' = [anspruch EXCEPT ![g] = v]
      /\ \A c \in Calls : c # g => pc'[c] = pc[c]
  BY <1>0 DEF get_claim, Geht, RingTypeOK
<1>4. pc[v] = "fertig"
  <2>1. Angenommen(v)
    BY <1>2 DEF EinmalInv
  <2>2. ASSUME InZelle(v) PROVE FALSE
    <3>1. pos[v] \in Nat /\ pos[v] < Len(vergeben) /\ vergeben[pos[v] + 1] = v
      BY <1>0, <1>2, <2>2 DEF PutInv, RingTypeOK, PosInv
    <3>2. pos[v] + 1 \in 1 .. Len(vergeben)
      BY <1>1, <3>1
    <3>3. pos[v] + 1 = dequeue_pos + 1
      BY <1>2, <3>1, <3>2 DEF EinmalInv
    <3> QED
      BY <1>1, <1>2, <2>2, <3>1, <3>3 DEF Offen
  <2> QED
    BY <2>1, <2>2 DEF Angenommen, InZelle
<1>5. ASSUME NEW h \in Gets, anspruch[h] # Nichts
      PROVE  /\ anspruch[h] \in Puts /\ anspruch[h] # v /\ pc'[anspruch[h]] = "fertig"
             /\ \A i \in dequeue_pos + 2 .. Len(vergeben) : anspruch[h] # vergeben[i]
             /\ \A k \in Gets : anspruch[h] = anspruch[k] => h = k
  <2>1. dequeue_pos + 1 \in dequeue_pos + 1 .. Len(vergeben)
    BY <1>1
  <2>2. anspruch[h] \in Puts /\ pc[anspruch[h]] = "fertig"
    BY <1>0, <1>5 DEF EinmalInv, RingTypeOK
  <2>3. \A i \in dequeue_pos + 2 .. Len(vergeben) : i \in dequeue_pos + 1 .. Len(vergeben)
    BY <1>1
  <2> QED
    BY <1>0, <1>3, <1>5, <2>1, <2>2, <2>3 DEF EinmalInv
<1>6. /\ pc'[v] = "fertig"
      /\ \A i \in dequeue_pos + 2 .. Len(vergeben) : v # vergeben[i]
  <2>1. pc'[v] = "fertig"
    BY <1>0, <1>2, <1>3, <1>4
  <2>2. \A i \in dequeue_pos + 2 .. Len(vergeben) :
          i \in 1 .. Len(vergeben) /\ i # dequeue_pos + 1
    BY <1>1
  <2> QED
    BY <1>2, <2>1, <2>2 DEF EinmalInv
<1>7. /\ anspruch'[g] = v /\ \A h \in Gets : h # g => anspruch'[h] = anspruch[h]
  BY <1>0, <1>3 DEF RingTypeOK
<1>8. ASSUME NEW h \in Gets, anspruch'[h] # Nichts
      PROVE  /\ pc'[anspruch'[h]] = "fertig"
             /\ \A i \in dequeue_pos' + 1 .. Len(vergeben') : anspruch'[h] # vergeben'[i]
             /\ \A k \in Gets : anspruch'[h] = anspruch'[k] => h = k
  <2>1. dequeue_pos' + 1 = dequeue_pos + 2
    BY <1>1, <1>3
  <2>2. CASE h = g
    BY <1>0, <1>2, <1>3, <1>5, <1>6, <1>7, <2>1, <2>2
  <2>3. CASE h # g
    BY <1>3, <1>5, <1>7, <1>8, <2>1, <2>3
  <2> QED
    BY <2>2, <2>3
<1>9. \A q \in Puts : Angenommen(q)' <=> Angenommen(q)
  BY <1>0, <1>3 DEF Angenommen
<1>10. /\ \A i, j \in 1 .. Len(vergeben') : vergeben'[i] = vergeben'[j] => i = j
       /\ \A p \in Puts : ~Angenommen(p)' => \A i \in 1 .. Len(vergeben') : vergeben'[i] # p
  BY <1>3, <1>9 DEF EinmalInv
<1> QED
  BY <1>8, <1>10 DEF EinmalInv

LEMMA EinmalSchritt ==
  ASSUME RingInv, EinmalInv, [RingNext]_ringVars
  PROVE  EinmalInv'
<1>0. /\ RingTypeOK /\ \A g \in Gets : anspruch[g] \in Puts \cup {Nichts}
      /\ \A q \in Puts : q \in Calls /\ q \notin Gets
  BY CallFacts DEF RingInv, RingTypeOK
<1>1. ASSUME NEW p \in Puts, Putting(p) PROVE EinmalInv'
  <2>1. CASE put_claim(p)
    BY <2>1, EinmalPut
  <2>2. CASE ~put_claim(p)
    <3>1. UNCHANGED <<vergeben, anspruch, dequeue_pos>>
      BY <1>1, <2>2 DEF Putting, put_load, put_check, put_claim_fails, put_data, put_release,
         history
    <3>2. \A q \in Puts : q # p => pc'[q] = pc[q]
      BY <1>0, <1>1 DEF RingTypeOK, Putting, put_load, put_check, put_claim, put_claim_fails,
         put_data, put_release, Geht
    <3>3. /\ Angenommen(p) => Angenommen(p)'
          /\ pc[p] = "fertig" => pc'[p] = "fertig"
      BY <1>0, <1>1, <2>2 DEF RingTypeOK, Putting, put_load, put_check, put_claim_fails,
         put_data, put_release, Geht, Angenommen
    <3> QED
      BY <1>0, <3>1, <3>2, <3>3, EinmalBleibt DEF Angenommen
  <2> QED
    BY <2>1, <2>2
<1>2. ASSUME NEW g \in Gets, Getting(g) PROVE EinmalInv'
  <2>1. CASE get_claim(g)
    BY <2>1, EinmalGet
  <2>2. CASE ~get_claim(g)
    <3>1. UNCHANGED <<vergeben, anspruch, dequeue_pos>>
      BY <1>2, <2>2 DEF Getting, get_load, get_check, get_claim_fails, get_data, get_release,
         history
    <3>2. \A q \in Puts : pc'[q] = pc[q]
      BY <1>0, <1>2 DEF RingTypeOK, Getting, get_load, get_check, get_claim, get_claim_fails,
         get_data, get_release, Geht
    <3> QED
      BY <1>0, <3>1, <3>2, EinmalBleibt DEF Angenommen
  <2> QED
    BY <2>1, <2>2
<1>3. ASSUME clear \/ \E c \in Requested : set_iterable_aspect(c) PROVE EinmalInv'
  <2>1. vergeben' = <<>> /\ dequeue_pos' = 0 /\ pc' = pc /\ anspruch' = anspruch
    BY <1>3 DEF clear, set_iterable_aspect
  <2>2. 1 .. Len(vergeben') = {} /\ dequeue_pos' + 1 .. Len(vergeben') = {}
    BY <2>1
  <2> QED
    BY <2>1, <2>2 DEF EinmalInv, Angenommen
<1>4. ASSUME UNCHANGED ringVars PROVE EinmalInv'
  BY <1>4 DEF EinmalInv, Angenommen, ringVars, history
<1> QED
  BY <1>1, <1>2, <1>3, <1>4 DEF RingNext

\* No value comes out twice, and none of a put that was dropped or is still under
\* way, through every interleaving, round and reset (put, get,
\* axis_q1_queuing_lockfree_mpmc.hpp:147-207).
THEOREM EachValueOnce == RingOK => (RingSpec => []NurEinmal)
<1>1. RingInit => EinmalInv
  <2> SUFFICES ASSUME RingInit PROVE EinmalInv
    OBVIOUS
  <2>1. vergeben = <<>> /\ \A g \in Gets : anspruch[g] = Nichts
    BY DEF RingInit
  <2>2. 1 .. Len(vergeben) = {}
    BY <2>1
  <2> QED
    BY <2>1, <2>2 DEF EinmalInv
<1>2. RingInv /\ EinmalInv /\ [RingNext]_ringVars => EinmalInv'
  BY EinmalSchritt
<1>3. RingInv /\ EinmalInv => NurEinmal
  <2> SUFFICES ASSUME RingInv, EinmalInv, NEW g \in Gets, pc[g] = "fertig"
               PROVE  /\ wert[g] \in Puts /\ pc[wert[g]] = "fertig"
                      /\ \A h \in Gets \ {g} : pc[h] = "fertig" => wert[h] # wert[g]
    BY DEF NurEinmal
  <2>1. \A h \in Gets : pc[h] = "fertig" =>
          wert[h] = anspruch[h] /\ anspruch[h] # Nichts /\ anspruch[h] \in Puts \cup {Nichts}
    BY DEF RingInv, GetInv, RingTypeOK
  <2> QED
    BY <2>1 DEF EinmalInv
<1>4. RingOK => (RingSpec => []RingInv)
  BY RingInvariance
<1> QED
  BY <1>1, <1>2, <1>3, <1>4, PTL DEF RingSpec

-----------------------------------------------------------------------------
(***************************************************************************)
(* Read-copy-update: safety for any number of readers and writers, any     *)
(* nesting and any number of versions and grace periods, on the memory of  *)
(* x86: the inductive invariant GracePeriod and what follows from it.      *)
(***************************************************************************)
USE RcuConstantsOK

\* The initial state has the types and satisfies the invariant.
LEMMA InitInv == Init => TypeOK /\ GracePeriod
<1> SUFFICES ASSUME Init PROVE TypeOK /\ GracePeriod
  OBVIOUS
<1>1. TypeOK
  BY DEF Init, TypeOK, Version, Epoch, Keine
<1>2. ReaderInv
  BY DEF Init, ReaderInv
<1>3. RetiredInv
  BY DEF Init, RetiredInv, Keine
<1>4. GraceInv
  BY DEF Init, GraceInv
<1> QED
  BY <1>1, <1>2, <1>3, <1>4 DEF GracePeriod

LEMMA Register_threadStep ==
  ASSUME TypeOK, GracePeriod, NEW r \in Reader, register_thread(r)
  PROVE  TypeOK' /\ GracePeriod'
<1> USE DEF register_thread, TypeOK, Version, Epoch, Keine, readerVars,
       writerVars, readerMem
<1>1. TypeOK'
  OBVIOUS
<1>2. ReaderInv'
  BY DEF GracePeriod, ReaderInv
<1>3. RetiredInv'
  BY DEF GracePeriod, ReaderInv, RetiredInv
<1>4. GraceInv'
  BY DEF GracePeriod, ReaderInv, RetiredInv, GraceInv
<1> QED
  BY <1>1, <1>2, <1>3, <1>4 DEF GracePeriod

LEMMA Read_lockStep ==
  ASSUME TypeOK, GracePeriod, NEW r \in Reader, read_lock(r)
  PROVE  TypeOK' /\ GracePeriod'
<1> USE DEF read_lock, TypeOK, Version, Epoch, Keine, readerVars,
       writerVars, readerMem
<1>1. TypeOK'
  OBVIOUS
<1>2. ReaderInv'
  BY DEF GracePeriod, ReaderInv
<1>3. RetiredInv'
  BY DEF GracePeriod, ReaderInv, RetiredInv
<1>4. GraceInv'
  BY DEF GracePeriod, ReaderInv, RetiredInv, GraceInv
<1> QED
  BY <1>1, <1>2, <1>3, <1>4 DEF GracePeriod

LEMMA PubliziereStep ==
  ASSUME TypeOK, GracePeriod, NEW r \in Reader, Publiziere(r)
  PROVE  TypeOK' /\ GracePeriod'
<1> USE DEF Publiziere, TypeOK, Version, Epoch, Keine, readerVars,
       writerVars, readerMem
<1>1. TypeOK'
  OBVIOUS
<1>2. ReaderInv'
  BY DEF GracePeriod, ReaderInv
<1>3. RetiredInv'
  BY DEF GracePeriod, ReaderInv, RetiredInv
<1>4. GraceInv'
  BY DEF GracePeriod, ReaderInv, RetiredInv, GraceInv
<1> QED
  BY <1>1, <1>2, <1>3, <1>4 DEF GracePeriod

LEMMA FenceStep ==
  ASSUME TypeOK, GracePeriod, NEW r \in Reader, Fence(r)
  PROVE  TypeOK' /\ GracePeriod'
<1> USE DEF Fence, TypeOK, Version, Epoch, Keine, readerVars,
       writerVars, readerMem
<1>1. TypeOK'
  OBVIOUS
<1>2. ReaderInv'
  BY DEF GracePeriod, ReaderInv
<1>3. RetiredInv'
  BY DEF GracePeriod, ReaderInv, RetiredInv
<1>4. GraceInv'
  BY DEF GracePeriod, ReaderInv, RetiredInv, GraceInv
<1> QED
  BY <1>1, <1>2, <1>3, <1>4 DEF GracePeriod

LEMMA LiesStep ==
  ASSUME TypeOK, GracePeriod, NEW r \in Reader, Lies(r)
  PROVE  TypeOK' /\ GracePeriod'
<1> USE DEF Lies, TypeOK, Version, Epoch, Keine, readerVars,
       writerVars, readerMem
<1>1. TypeOK'
  OBVIOUS
<1>2. ReaderInv'
  BY DEF GracePeriod, ReaderInv
<1>3. RetiredInv'
  BY DEF GracePeriod, ReaderInv, RetiredInv
<1>4. GraceInv'
  BY DEF GracePeriod, ReaderInv, RetiredInv, GraceInv
<1> QED
  BY <1>1, <1>2, <1>3, <1>4 DEF GracePeriod

LEMMA Read_lock_nestedStep ==
  ASSUME TypeOK, GracePeriod, NEW r \in Reader, read_lock_nested(r)
  PROVE  TypeOK' /\ GracePeriod'
<1> USE DEF read_lock_nested, TypeOK, Version, Epoch, Keine, readerVars,
       writerVars, readerMem
<1>1. TypeOK'
  OBVIOUS
<1>2. ReaderInv'
  BY DEF GracePeriod, ReaderInv
<1>3. RetiredInv'
  BY DEF GracePeriod, ReaderInv, RetiredInv
<1>4. GraceInv'
  BY DEF GracePeriod, ReaderInv, RetiredInv, GraceInv
<1> QED
  BY <1>1, <1>2, <1>3, <1>4 DEF GracePeriod

LEMMA Read_unlock_nestedStep ==
  ASSUME TypeOK, GracePeriod, NEW r \in Reader, read_unlock_nested(r)
  PROVE  TypeOK' /\ GracePeriod'
<1> USE DEF read_unlock_nested, TypeOK, Version, Epoch, Keine, readerVars,
       writerVars, readerMem
<1>1. TypeOK'
  OBVIOUS
<1>2. ReaderInv'
  BY DEF GracePeriod, ReaderInv
<1>3. RetiredInv'
  BY DEF GracePeriod, ReaderInv, RetiredInv
<1>4. GraceInv'
  BY DEF GracePeriod, ReaderInv, RetiredInv, GraceInv
<1> QED
  BY <1>1, <1>2, <1>3, <1>4 DEF GracePeriod

LEMMA Read_unlockStep ==
  ASSUME TypeOK, GracePeriod, NEW r \in Reader, read_unlock(r)
  PROVE  TypeOK' /\ GracePeriod'
<1> USE DEF read_unlock, TypeOK, Version, Epoch, Keine, readerVars,
       writerVars, readerMem
<1>1. TypeOK'
  OBVIOUS
<1>2. ReaderInv'
  BY DEF GracePeriod, ReaderInv
<1>3. RetiredInv'
  BY DEF GracePeriod, ReaderInv, RetiredInv
<1>4. GraceInv'
  BY DEF GracePeriod, ReaderInv, RetiredInv, GraceInv
<1> QED
  BY <1>1, <1>2, <1>3, <1>4 DEF GracePeriod

LEMMA CommitStep ==
  ASSUME TypeOK, GracePeriod, NEW r \in Reader, Commit(r)
  PROVE  TypeOK' /\ GracePeriod'
<1> DEFINE Off   == /\ "off" \in buf[r]
                    /\ active' = [active EXCEPT ![r] = FALSE]
                    /\ buf' = [buf EXCEPT ![r] = @ \ {"off"}]
                    /\ UNCHANGED local_epoch
           Ep    == /\ "off" \notin buf[r] /\ "epoch" \in buf[r]
                    /\ local_epoch' = [local_epoch EXCEPT ![r] = geladen[r]]
                    /\ buf' = [buf EXCEPT ![r] = @ \ {"epoch"}]
                    /\ UNCHANGED active
           On    == /\ buf[r] = {"on"}
                    /\ active' = [active EXCEPT ![r] = TRUE]
                    /\ buf' = [buf EXCEPT ![r] = {}]
                    /\ UNCHANGED local_epoch
           Still == UNCHANGED <<global_epoch, slot, freed, readers,
                      registry_mutex, pending, pcR, nesting, geladen, held,
                      writerVars>>
<1>1. Still /\ (Off \/ Ep \/ On)
  BY DEF Commit
<1> USE DEF TypeOK, Version, Epoch, Keine, readerVars,
       writerVars, readerMem
\* A reader inside its section has nothing buffered.
<1>2. pcR[r] # "drin" /\ held[r] = {}
  BY <1>1 DEF GracePeriod, ReaderInv
<1>3. TypeOK'
  <2>1. CASE Off
    BY <1>1, <2>1
  <2>2. CASE Ep
    BY <1>1, <2>2
  <2>3. CASE On
    BY <1>1, <2>3
  <2> QED
    BY <1>1, <2>1, <2>2, <2>3
<1>4. ReaderInv'
  <2>1. CASE Off
    BY <1>1, <1>2, <2>1 DEF GracePeriod, ReaderInv
  <2>2. CASE Ep
    BY <1>1, <1>2, <2>2 DEF GracePeriod, ReaderInv
  <2>3. CASE On
    BY <1>1, <1>2, <2>3 DEF GracePeriod, ReaderInv
  <2> QED
    BY <1>1, <2>1, <2>2, <2>3
<1>5. RetiredInv'
  BY <1>1 DEF GracePeriod, RetiredInv
<1>6. GraceInv'
  <2>1. \A q \in Reader : held'[q] # {} => local_epoch'[q] = local_epoch[q]
    BY <1>1, <1>2
  <2> QED
    BY <1>1, <2>1 DEF GracePeriod, GraceInv
<1> QED
  BY <1>3, <1>4, <1>5, <1>6 DEF GracePeriod

LEMMA Rcu_replaceStep ==
  ASSUME TypeOK, GracePeriod, NEW w \in Writer, rcu_replace(w)
  PROVE  TypeOK' /\ GracePeriod'
<1> USE DEF rcu_replace, TypeOK, Version, Epoch, Keine, readerVars,
       writerVars, readerMem
<1>1. TypeOK'
  OBVIOUS
<1>2. ReaderInv'
  BY DEF GracePeriod, ReaderInv
<1>3. RetiredInv'
  BY DEF GracePeriod, ReaderInv, RetiredInv
<1>4. GraceInv'
  BY DEF GracePeriod, ReaderInv, RetiredInv, GraceInv
<1> QED
  BY <1>1, <1>2, <1>3, <1>4 DEF GracePeriod

LEMMA DeferStep ==
  ASSUME TypeOK, GracePeriod, NEW w \in Writer, defer(w)
  PROVE  TypeOK' /\ GracePeriod'
<1> USE DEF defer, Version, Epoch, Keine, readerVars, writerVars, readerMem
<1>0. alt[w] \in Version
  BY DEF TypeOK, GracePeriod, RetiredInv
<1>1. TypeOK'
  BY <1>0 DEF TypeOK
<1> USE DEF TypeOK
<1>2. ReaderInv'
  BY DEF GracePeriod, ReaderInv
<1>3. RetiredInv'
  BY DEF GracePeriod, ReaderInv, RetiredInv
<1>4. GraceInv'
  BY DEF GracePeriod, ReaderInv, RetiredInv, GraceInv
<1> QED
  BY <1>1, <1>2, <1>3, <1>4 DEF GracePeriod

LEMMA FlushStep ==
  ASSUME TypeOK, GracePeriod, NEW w \in Writer, flush(w)
  PROVE  TypeOK' /\ GracePeriod'
<1> USE DEF flush, TypeOK, Version, Epoch, Keine, readerVars,
       writerVars, readerMem
<1>1. TypeOK'
  OBVIOUS
<1>2. ReaderInv'
  BY DEF GracePeriod, ReaderInv
<1>3. RetiredInv'
  BY DEF GracePeriod, ReaderInv, RetiredInv
<1>4. GraceInv'
  BY DEF GracePeriod, ReaderInv, RetiredInv, GraceInv
<1> QED
  BY <1>1, <1>2, <1>3, <1>4 DEF GracePeriod

LEMMA BumpStep ==
  ASSUME TypeOK, GracePeriod, NEW w \in Writer, Bump(w)
  PROVE  TypeOK' /\ GracePeriod'
<1> USE DEF Bump, TypeOK, Version, Epoch, Keine, readerVars,
       writerVars, readerMem
<1>1. TypeOK'
  OBVIOUS
<1>2. ReaderInv'
  BY DEF GracePeriod, ReaderInv
<1>3. RetiredInv'
  BY DEF GracePeriod, ReaderInv, RetiredInv
<1>4. GraceInv'
  BY DEF GracePeriod, ReaderInv, RetiredInv, GraceInv
<1> QED
  BY <1>1, <1>2, <1>3, <1>4 DEF GracePeriod

LEMMA SperreStep ==
  ASSUME TypeOK, GracePeriod, NEW w \in Writer, Sperre(w)
  PROVE  TypeOK' /\ GracePeriod'
<1> USE DEF Sperre, TypeOK, Version, Epoch, Keine, readerVars,
       writerVars, readerMem
<1>1. TypeOK'
  OBVIOUS
<1>2. ReaderInv'
  BY DEF GracePeriod, ReaderInv
<1>3. RetiredInv'
  BY DEF GracePeriod, ReaderInv, RetiredInv
<1>4. GraceInv'
  BY DEF GracePeriod, ReaderInv, RetiredInv, GraceInv
<1> QED
  BY <1>1, <1>2, <1>3, <1>4 DEF GracePeriod

LEMMA PruefeAktivStep ==
  ASSUME TypeOK, GracePeriod, NEW w \in Writer, NEW r \in Reader,
         PruefeAktiv(w, r)
  PROVE  TypeOK' /\ GracePeriod'
<1> USE DEF PruefeAktiv, TypeOK, Version, Epoch, Keine, readerVars,
       writerVars, readerMem
<1>1. TypeOK'
  OBVIOUS
<1>2. ReaderInv'
  BY DEF GracePeriod, ReaderInv
<1>3. RetiredInv'
  BY DEF GracePeriod, ReaderInv, RetiredInv
<1>4. GraceInv'
  BY DEF GracePeriod, ReaderInv, RetiredInv, GraceInv
<1> QED
  BY <1>1, <1>2, <1>3, <1>4 DEF GracePeriod

LEMMA PruefeEpocheStep ==
  ASSUME TypeOK, GracePeriod, NEW w \in Writer, PruefeEpoche(w)
  PROVE  TypeOK' /\ GracePeriod'
<1> USE DEF PruefeEpoche, TypeOK, Version, Epoch, Keine, readerVars,
       writerVars, readerMem
<1>1. TypeOK'
  OBVIOUS
<1>2. ReaderInv'
  BY DEF GracePeriod, ReaderInv
<1>3. RetiredInv'
  BY DEF GracePeriod, ReaderInv, RetiredInv
<1>4. GraceInv'
  BY DEF GracePeriod, ReaderInv, RetiredInv, GraceInv
<1> QED
  BY <1>1, <1>2, <1>3, <1>4 DEF GracePeriod

LEMMA EntsperreStep ==
  ASSUME TypeOK, GracePeriod, NEW w \in Writer, Entsperre(w)
  PROVE  TypeOK' /\ GracePeriod'
<1> USE DEF Entsperre, TypeOK, Version, Epoch, Keine, readerVars,
       writerVars, readerMem
<1>1. TypeOK'
  OBVIOUS
<1>2. ReaderInv'
  BY DEF GracePeriod, ReaderInv
<1>3. RetiredInv'
  BY DEF GracePeriod, ReaderInv, RetiredInv
<1>4. GraceInv'
  BY DEF GracePeriod, ReaderInv, RetiredInv, GraceInv
<1> QED
  BY <1>1, <1>2, <1>3, <1>4 DEF GracePeriod

LEMMA RufeStep ==
  ASSUME TypeOK, GracePeriod, NEW w \in Writer, Rufe(w)
  PROVE  TypeOK' /\ GracePeriod'
<1> USE DEF Rufe, TypeOK, Version, Epoch, Keine, readerVars,
       writerVars, readerMem
<1>1. TypeOK'
  OBVIOUS
<1>2. ReaderInv'
  BY DEF GracePeriod, ReaderInv
<1>3. RetiredInv'
  BY DEF GracePeriod, ReaderInv, RetiredInv
<1>4. GraceInv'
  BY DEF GracePeriod, ReaderInv, RetiredInv, GraceInv
<1> QED
  BY <1>1, <1>2, <1>3, <1>4 DEF GracePeriod

-----------------------------------------------------------------------------
\* Steps that change nothing, and every step.
LEMMA StutterStep ==
  ASSUME TypeOK, GracePeriod, UNCHANGED vars
  PROVE  TypeOK' /\ GracePeriod'
  BY DEF TypeOK, GracePeriod, ReaderInv, RetiredInv, GraceInv, vars, readerVars,
         writerVars, readerMem

LEMMA NextInv ==
  ASSUME TypeOK, GracePeriod, [Next]_vars
  PROVE  TypeOK' /\ GracePeriod'
<1>1. ASSUME NEW r \in Reader, ReaderStep(r)
      PROVE  TypeOK' /\ GracePeriod'
  BY <1>1, Register_threadStep, Read_lockStep, PubliziereStep, FenceStep,
     LiesStep, Read_lock_nestedStep, Read_unlock_nestedStep, Read_unlockStep
     DEF ReaderStep
<1>2. ASSUME NEW r \in Reader, Commit(r)
      PROVE  TypeOK' /\ GracePeriod'
  BY <1>2, CommitStep
<1>3. ASSUME NEW w \in Writer, WriterStep(w)
      PROVE  TypeOK' /\ GracePeriod'
  BY <1>3, Rcu_replaceStep, DeferStep, FlushStep, BumpStep, SperreStep,
     PruefeEpocheStep, EntsperreStep, RufeStep, PruefeAktivStep
     DEF WriterStep, Synchronize
<1>4. CASE UNCHANGED vars
  BY <1>4, StutterStep
<1> QED
  BY <1>1, <1>2, <1>3, <1>4 DEF Next

\* The types and the grace period: whoever holds a version that a flush is
\* about to delete entered before the flush and is still waited for.
THEOREM GracePeriodHolds == Spec => [](TypeOK /\ GracePeriod)
<1>1. Init => TypeOK /\ GracePeriod
  BY InitInv
<1>2. TypeOK /\ GracePeriod /\ [Next]_vars => (TypeOK /\ GracePeriod)'
  BY NextInv
<1> QED
  BY <1>1, <1>2, PTL DEF Spec

THEOREM TypeCorrect == Spec => []TypeOK
  BY GracePeriodHolds, PTL

\* No reader ever follows a pointer to a version that has been deleted.  The
\* deletion of a flush is safe because no reader holds what it deletes.
LEMMA NoUseStep ==
  ASSUME TypeOK, GracePeriod, NoUseAfterFree, [Next]_vars
  PROVE  NoUseAfterFree'
<1>1. ASSUME NEW w \in Writer, Rufe(w)
      PROVE  NoUseAfterFree'
  BY <1>1 DEF Rufe, GracePeriod, GraceInv, NoUseAfterFree, TypeOK, readerVars
<1>2. ASSUME NEW r \in Reader, Lies(r)
      PROVE  NoUseAfterFree'
  <2>1. slot \notin freed
    BY DEF GracePeriod, RetiredInv, TypeOK, Version
  <2> QED
    BY <1>2, <2>1 DEF Lies, NoUseAfterFree, TypeOK
<1>3. ASSUME NEW r \in Reader, ReaderStep(r) \/ Commit(r), ~Lies(r)
      PROVE  NoUseAfterFree'
  BY <1>3 DEF ReaderStep, register_thread, read_lock, Publiziere, Fence,
     read_lock_nested, read_unlock_nested, read_unlock, Commit, NoUseAfterFree,
     TypeOK
<1>4. ASSUME NEW w \in Writer, WriterStep(w), ~Rufe(w)
      PROVE  NoUseAfterFree'
  BY <1>4 DEF WriterStep, Synchronize, rcu_replace, defer, flush, Bump, Sperre,
     PruefeAktiv, PruefeEpoche, Entsperre, NoUseAfterFree, readerVars
<1>5. CASE UNCHANGED vars
  BY <1>5 DEF vars, readerVars, NoUseAfterFree
<1> QED
  BY <1>1, <1>2, <1>3, <1>4, <1>5 DEF Next

THEOREM ReadersAreSafe == Spec => []NoUseAfterFree
<1>1. Init => NoUseAfterFree
  BY DEF Init, NoUseAfterFree
<1> QED
  BY <1>1, NoUseStep, GracePeriodHolds, PTL DEF Spec

\* Every deferred deletion runs at most once, with any number of writers that
\* replace, defer and flush at the same time.
LEMMA DeletedOnceStep ==
  ASSUME TypeOK, GracePeriod, DeletedOnce, [Next]_vars
  PROVE  DeletedOnce'
<1>1. ASSUME NEW r \in Reader, ReaderStep(r) \/ Commit(r)
      PROVE  DeletedOnce'
  BY <1>1 DEF ReaderStep, register_thread, read_lock, Publiziere, Fence, Lies,
     read_lock_nested, read_unlock_nested, read_unlock, Commit, DeletedOnce,
     writerVars
<1>2. ASSUME NEW w \in Writer, defer(w)
      PROVE  DeletedOnce'
  BY <1>2 DEF defer, DeletedOnce, GracePeriod, RetiredInv, TypeOK
<1>3. ASSUME NEW w \in Writer, flush(w)
      PROVE  DeletedOnce'
  BY <1>3 DEF flush, DeletedOnce, TypeOK
<1>4. ASSUME NEW w \in Writer, Rufe(w)
      PROVE  DeletedOnce'
  BY <1>4 DEF Rufe, DeletedOnce, TypeOK
<1>5. ASSUME NEW w \in Writer, rcu_replace(w) \/ Synchronize(w)
      PROVE  DeletedOnce'
  BY <1>5 DEF Synchronize, rcu_replace, Bump, Sperre, PruefeAktiv, PruefeEpoche,
     Entsperre, DeletedOnce
<1>6. CASE UNCHANGED vars
  BY <1>6 DEF vars, writerVars, DeletedOnce
<1> QED
  BY <1>1, <1>2, <1>3, <1>4, <1>5, <1>6 DEF Next, WriterStep

THEOREM DeletionsRunOnce == Spec => []DeletedOnce
<1>1. Init => DeletedOnce
  BY DEF Init, DeletedOnce
<1> QED
  BY <1>1, DeletedOnceStep, GracePeriodHolds, PTL DEF Spec

=============================================================================
