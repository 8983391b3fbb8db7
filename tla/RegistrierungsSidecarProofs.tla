-------------------- MODULE RegistrierungsSidecarProofs --------------------
(***************************************************************************)
(* Proofs about RegistrierungsSidecar for any number of owners, readers    *)
(* and consolidators, any number of failures and crashes and without a     *)
(* bound on the revisions.                                                 *)
(*                                                                         *)
(* A record is safe between two objects only because of what the reading   *)
(* in between knows: a sidecar that is there holds what its owner last     *)
(* registered (SidecarInv), the union of a consolidator holds everything   *)
(* it is about to overwrite or remove (KonsInv), and the union of a reader *)
(* holds what it no longer has to visit (LeseInv).                         *)
(***************************************************************************)
EXTENDS RegistrierungsSidecar, BestandMergeProofs

SidecarInv == \A i \in Ids : sidecar[i] # Keine => ResLeq(gemeldet[i], sidecar[i])

ImHaupt(r, i)    == ResLeq(r, haupt.inhalt.res[i])
InBasis(m, r, i) == ResLeq(r, basis[m].inhalt.res[i])

\* What a consolidator that is not blind has in hand.
KonsVon(m) ==
  /\ pc[m] # "fertig"
  /\ pc[m] \in {"liste", "fetch", "store"} =>
       /\ haupt.lesbar /\ basis[m].lesbar
       /\ Contained(haupt.inhalt, basis[m].inhalt) /\ haupt.rev <= basis[m].rev
  /\ pc[m] = "fetch" => \A i \in Ids \ (verpasst \cup offen[m]) : InBasis(m, gemeldet[i], i)
  /\ pc[m] = "store" => \A i \in Ids \ verpasst : InBasis(m, gemeldet[i], i)
  /\ pc[m] = "liste2" => \A i \in Ids \ verpasst : ImHaupt(gemeldet[i], i)
  /\ pc[m] = "remove" => \A i \in offen[m] \ verpasst : ImHaupt(gemeldet[i], i)

KonsInv == \A m \in Schluss : pc[m] # "fertig" /\ (~blind => KonsVon(m))

\* What an undisturbed reader has, and where the rest is.
LeseVon(m) ==
  /\ pc[m] # "idle" => \A i \in Ids : ResLeq(anfangs[m][i], gemeldet[i])
  /\ pc[m] = "haupt" =>
       \A i \in Ids : ImHaupt(anfangs[m][i], i) \/ ResLeq(anfangs[m][i], sidecar[i])
  /\ pc[m] = "liste" =>
       \A i \in Ids : InBasis(m, anfangs[m][i], i) \/ ResLeq(anfangs[m][i], sidecar[i])
  /\ pc[m] = "fetch" =>
       \A i \in Ids : \/ InBasis(m, anfangs[m][i], i)
                      \/ i \in offen[m] /\ ResLeq(anfangs[m][i], sidecar[i])
  /\ pc[m] = "fertig" => \A i \in Ids : InBasis(m, anfangs[m][i], i)

LeseInv == ~blind => \A m \in Leser : ~gestoert[m] => LeseVon(m)

\* The inductive invariant.
IInv == /\ TypeOK
        /\ SidecarInv
        /\ RecordsNieVerloren
        /\ KonsInv
        /\ LeseInv

-----------------------------------------------------------------------------
(***************************************************************************)
(* Records                                                                 *)
(***************************************************************************)
LEMMA KeineLeast ==
  /\ Keine \in Reservierung
  /\ \A r \in Reservierung : ResLeq(Keine, r)
  /\ \A r \in Reservierung : ResLeq(r, Keine) => \A t \in Reservierung : ResLeq(r, t)
BY RankType DEF Keine, Reservierung, Status, ResLeq, status_rank

\* The document of one reservation, and its merge into another.
LEMMA EinzelnFacts ==
  ASSUME NEW a \in Content, NEW i \in Ids, NEW r \in Reservierung
  PROVE  /\ Einzeln(i, r) \in Content
         /\ merge_documents(a, Einzeln(i, r)) \in Content
         /\ Contained(a, merge_documents(a, Einzeln(i, r)))
         /\ ResLeq(r, merge_documents(a, Einzeln(i, r)).res[i])
<1> DEFINE e == Einzeln(i, r)
<1>1. LeererInhalt.res \in [Ids -> Reservierung] /\ LeererInhalt.bestand \in [Cells -> 0 .. MaxUtc]
  BY LeerType DEF Content
<1>2. e = [res |-> [LeererInhalt.res EXCEPT ![i] = r], bestand |-> LeererInhalt.bestand]
  BY LeerType DEF Einzeln, Content
<1>3. e \in Content /\ e.res[i] = r
  BY <1>1, <1>2 DEF Content
<1> HIDE DEF e
<1>4. merge_documents(a, e) \in Content /\ Contained(a, merge_documents(a, e))
      /\ Contained(e, merge_documents(a, e))
  BY <1>3, MergeType, MergeUpperBound
<1>5. ResLeq(r, merge_documents(a, e).res[i])
  BY <1>3, <1>4 DEF Contained
<1> QED
  BY <1>3, <1>4, <1>5 DEF e

\* Contained contents keep every record.
LEMMA ContainedRecord ==
  ASSUME NEW a \in Content, NEW b \in Content, Contained(a, b), NEW i \in Ids,
         NEW r \in Reservierung, ResLeq(r, a.res[i])
  PROVE  ResLeq(r, b.res[i])
<1>1. a.res[i] \in Reservierung /\ b.res[i] \in Reservierung /\ ResLeq(a.res[i], b.res[i])
  BY DEF Contained, Content
<1> QED
  BY <1>1, ResLeqTransitive

-----------------------------------------------------------------------------
(***************************************************************************)
(* Types                                                                   *)
(***************************************************************************)
LEMMA InitInv == Init => IInv
<1> SUFFICES ASSUME Init PROVE IInv
  OBVIOUS
<1> USE SidecarConstantsOK DEF Init
<1>1. Leer \in Dokument /\ [Leer EXCEPT !.lesbar = FALSE] \in Dokument
  BY LeerType DEF Leer, Dokument
<1>2. TypeOK
  <2>1. blind \in BOOLEAN
    BY Zenon
  <2>2. gestoert \in [Machines -> BOOLEAN]
    OBVIOUS
  <2>3. /\ sidecar \in [Ids -> Reservierung] /\ gemeldet \in [Ids -> Reservierung]
        /\ anfangs \in [Machines -> [Ids -> Reservierung]]
    BY KeineLeast
  <2>4. haupt \in Dokument /\ basis \in [Machines -> Dokument]
    BY <1>1
  <2> QED
    BY <2>1, <2>2, <2>3, <2>4 DEF TypeOK, Steps, Machines
<1>3. \A i \in Ids : gemeldet[i] = Keine /\ sidecar[i] = Keine
  OBVIOUS
<1>4. SidecarInv /\ RecordsNieVerloren
  BY <1>3, KeineLeast DEF SidecarInv, RecordsNieVerloren
<1>5. \A m \in Machines : pc[m] = "idle"
  OBVIOUS
<1>6. KonsInv /\ LeseInv
  BY <1>5 DEF KonsInv, KonsVon, LeseInv, LeseVon, Machines
<1> QED
  BY <1>2, <1>4, <1>6 DEF IInv

\* The return of a machine.
LEMMA ReturnType ==
  ASSUME TypeOK, NEW m \in Machines, Return(m)
  PROVE  /\ pc' \in [Machines -> Steps \cup {"idle"}] /\ basis' \in [Machines -> Dokument]
         /\ offen' \in [Machines -> SUBSET Ids]
         /\ anfangs' \in [Machines -> [Ids -> Reservierung]]
         /\ gestoert' \in [Machines -> BOOLEAN]
         /\ pc'[m] = "idle" /\ \A n \in Machines : n # m => pc'[n] = pc[n]
<1>1. Leer \in Dokument
  BY LeerType DEF Leer, Dokument
<1>2. basis' \in [Machines -> Dokument]
  BY <1>1 DEF TypeOK, Return
<1>3. anfangs' \in [Machines -> [Ids -> Reservierung]]
  BY KeineLeast DEF TypeOK, Return
<1>4. gestoert' \in [Machines -> BOOLEAN]
  BY DEF TypeOK, Return
<1> QED
  BY <1>2, <1>3, <1>4 DEF TypeOK, Return, Goto

\* One step of a machine moves its program counter only.
LEMMA GotoType ==
  ASSUME TypeOK, NEW m \in Machines, NEW x \in Steps, Goto(m, x)
  PROVE  /\ pc' \in [Machines -> Steps \cup {"idle"}]
         /\ pc'[m] = x /\ \A n \in Machines : n # m => pc'[n] = pc[n]
BY DEF TypeOK, Goto

LEMMA FailsType == TypeOK /\ Fails => fehler' \in 0 .. MaxFehler
BY SidecarConstantsOK DEF TypeOK, Fails

LEMMA DokumentFacts ==
  ASSUME NEW d \in Dokument
  PROVE  /\ d.lesbar \in BOOLEAN /\ d.rev \in Nat /\ d.inhalt \in Content
         /\ d.rev + 1 \in Nat
         /\ \A c : merge_documents(d.inhalt, c) \in Content => Vereint(d, c) \in Dokument
<1>1. d.lesbar \in BOOLEAN /\ d.rev \in Nat /\ d.inhalt \in Content
  BY DEF Dokument
<1>2. d.rev + 1 \in Nat
  BY <1>1
<1>3. \A c : merge_documents(d.inhalt, c) \in Content => Vereint(d, c) \in Dokument
  BY <1>1, <1>2 DEF Dokument, Vereint
<1> QED
  BY <1>1, <1>2, <1>3

\* The parts of TypeOK: the machines, the store, the lock.
LaufOK ==
  /\ pc \in [Machines -> Steps \cup {"idle"}]
  /\ basis \in [Machines -> Dokument]
  /\ offen \in [Machines -> SUBSET Ids]
  /\ anfangs \in [Machines -> [Ids -> Reservierung]]
  /\ gestoert \in [Machines -> BOOLEAN]
RestOK ==
  /\ haupt \in Dokument
  /\ sidecar \in [Ids -> Reservierung] /\ gemeldet \in [Ids -> Reservierung]
  /\ holder \in Schluss \cup {Nobody}
  /\ verpasst \subseteq Ids /\ blind \in BOOLEAN /\ fehler \in 0 .. MaxFehler
HoldOK == \A m \in Schluss : pc[m] # "idle" => holder = m

LEMMA TypeParts == TypeOK <=> LaufOK /\ RestOK /\ HoldOK
BY DEF TypeOK, LaufOK, RestOK, HoldOK

\* The documents and records in play have their types.
LEMMA Typen ==
  ASSUME TypeOK
  PROVE  /\ haupt \in Dokument /\ haupt.inhalt \in Content /\ haupt.rev \in Nat
         /\ \A m \in Machines : /\ basis[m] \in Dokument /\ basis[m].inhalt \in Content
                                /\ basis[m].rev \in Nat
         /\ \A i \in Ids : sidecar[i] \in Reservierung /\ gemeldet[i] \in Reservierung
         /\ \A m \in Machines, i \in Ids : anfangs[m][i] \in Reservierung
<1>1. haupt \in Dokument /\ \A m \in Machines : basis[m] \in Dokument
  BY DEF TypeOK
<1>2. /\ haupt.inhalt \in Content /\ haupt.rev \in Nat
      /\ \A m \in Machines : basis[m].inhalt \in Content /\ basis[m].rev \in Nat
  BY <1>1, DokumentFacts
<1> QED
  BY <1>1, <1>2 DEF TypeOK

\* What the reading of the sidecar of i leaves in the union of m.
Neu(m, i) == Vereint(basis[m], Einzeln(i, sidecar[i]))

LEMMA VereintFacts ==
  ASSUME NEW d \in Dokument, NEW i \in Ids, NEW r \in Reservierung
  PROVE  /\ Vereint(d, Einzeln(i, r)) \in Dokument
         /\ Vereint(d, Einzeln(i, r)).lesbar = d.lesbar
         /\ Vereint(d, Einzeln(i, r)).rev = d.rev + 1
         /\ Contained(d.inhalt, Vereint(d, Einzeln(i, r)).inhalt)
         /\ ResLeq(r, Vereint(d, Einzeln(i, r)).inhalt.res[i])
<1>1. d.inhalt \in Content
  BY DokumentFacts
<1>2. /\ merge_documents(d.inhalt, Einzeln(i, r)) \in Content
      /\ Contained(d.inhalt, merge_documents(d.inhalt, Einzeln(i, r)))
      /\ ResLeq(r, merge_documents(d.inhalt, Einzeln(i, r)).res[i])
  BY <1>1, EinzelnFacts
<1>3. Vereint(d, Einzeln(i, r)) \in Dokument
  BY <1>2, DokumentFacts
<1> QED
  BY <1>2, <1>3 DEF Vereint

LEMMA NeuFacts ==
  ASSUME TypeOK, NEW m \in Machines, NEW i \in Ids
  PROVE  /\ Neu(m, i) \in Dokument
         /\ Neu(m, i).lesbar = basis[m].lesbar /\ Neu(m, i).rev = basis[m].rev + 1
         /\ Contained(basis[m].inhalt, Neu(m, i).inhalt)
         /\ ResLeq(sidecar[i], Neu(m, i).inhalt.res[i])
BY Typen, VereintFacts DEF Neu

\* The three ways in which the reading of a sidecar ends.
LEMMA LiesSidecarFaelle ==
  ASSUME TypeOK, NEW m \in Machines, LiesSidecar(m)
  PROVE  \E i \in offen[m] :
           /\ i \in Ids /\ pc[m] = "fetch"
           /\ offen' = [offen EXCEPT ![m] = @ \ {i}]
           /\ UNCHANGED <<haupt, sidecar, holder, pc, anfangs, gemeldet, blind>>
           /\ \/ /\ sidecar[i] # Keine
                 /\ basis' = [basis EXCEPT ![m] = Neu(m, i)]
                 /\ verpasst' = IF m \in Schluss THEN verpasst \ {i} ELSE verpasst
                 /\ UNCHANGED <<gestoert, fehler>>
              \/ /\ Fails
                 /\ verpasst' = IF m \in Schluss THEN verpasst \cup {i} ELSE verpasst
                 /\ gestoert' = [gestoert EXCEPT ![m] = TRUE]
                 /\ UNCHANGED basis
              \/ /\ sidecar[i] = Keine
                 /\ UNCHANGED <<basis, verpasst, gestoert, fehler>>
<1>1. PICK i \in offen[m] :
        /\ offen' = [offen EXCEPT ![m] = @ \ {i}]
        /\ \/ /\ sidecar[i] # Keine
              /\ basis' = [basis EXCEPT ![m] = Neu(m, i)]
              /\ verpasst' = IF m \in Schluss THEN verpasst \ {i} ELSE verpasst
              /\ UNCHANGED <<gestoert, fehler>>
           \/ /\ Fails
              /\ verpasst' = IF m \in Schluss THEN verpasst \cup {i} ELSE verpasst
              /\ gestoert' = [gestoert EXCEPT ![m] = TRUE]
              /\ UNCHANGED basis
           \/ /\ (i \in Ids => sidecar[i] = Keine)
              /\ UNCHANGED <<basis, verpasst, gestoert, fehler>>
  BY DEF LiesSidecar, Present, Neu
<1>2. i \in Ids
  BY DEF TypeOK
<1>3. UNCHANGED <<haupt, sidecar, holder, pc, anfangs, gemeldet, blind>> /\ pc[m] = "fetch"
  BY DEF LiesSidecar
<1> QED
  BY <1>1, <1>2, <1>3, Zenon

LEMMA LaufStep == TypeOK /\ [Next]_vars => LaufOK'
<1> SUFFICES ASSUME TypeOK, [Next]_vars PROVE LaufOK'
  OBVIOUS
<1> USE DEF LaufOK, Machines, Steps, history
<1>0. LaufOK /\ Present \subseteq Ids
  BY DEF TypeOK, Present
<1>1. ASSUME UNCHANGED <<pc, basis, offen, anfangs, gestoert>> PROVE LaufOK'
  BY <1>0, <1>1
<1>2. ASSUME NEW m \in Machines, Return(m) PROVE LaufOK'
  BY <1>2, ReturnType
<1>3. ASSUME NEW m \in Machines, NEW x \in Steps, Goto(m, x),
             UNCHANGED <<basis, anfangs, gestoert>>,
             offen' = offen \/ offen' = [offen EXCEPT ![m] = Present]
      PROVE  LaufOK'
  <2>1. pc' \in [Machines -> Steps \cup {"idle"}]
    BY <1>3, GotoType
  <2>2. offen' \in [Machines -> SUBSET Ids]
    BY <1>0, <1>3
  <2> QED
    BY <1>0, <1>3, <2>1, <2>2
<1>4. ASSUME NEW i \in Ids, Registriere(i) \/ Uebernahme(i) PROVE LaufOK'
  BY <1>1, <1>4 DEF Registriere, Uebernahme
<1>5. ASSUME NEW m \in Leser, LiesBegin(m) PROVE LaufOK'
  <2>1. anfangs' \in [Machines -> [Ids -> Reservierung]]
    BY <1>0, <1>5, KeineLeast, Typen DEF LiesBegin
  <2>2. pc' \in [Machines -> Steps \cup {"idle"}]
    BY <1>5, GotoType DEF LiesBegin
  <2> QED
    BY <1>0, <1>5, <2>1, <2>2 DEF LiesBegin
<1>6. ASSUME NEW m \in Leser, Antwort(m) PROVE LaufOK'
  BY <1>2, <1>6 DEF Antwort
<1>7. ASSUME NEW m \in Schluss, KonsBegin(m) \/ KonsListe(m) PROVE LaufOK'
  BY <1>3, <1>7 DEF KonsBegin, KonsListe
<1>8. ASSUME NEW m \in Schluss, KonsStore(m) PROVE LaufOK'
  BY <1>2, <1>3, <1>8 DEF KonsStore
<1>9. ASSUME NEW m \in Schluss, KonsRemove(m) PROVE LaufOK'
  <2>1. offen' \in [Machines -> SUBSET Ids]
    BY <1>0, <1>9 DEF KonsRemove
  <2>2. gestoert' \in [Machines -> BOOLEAN]
    BY <1>0, <1>9 DEF KonsRemove
  <2> QED
    BY <1>0, <1>9, <2>1, <2>2 DEF KonsRemove
<1>10. ASSUME NEW m \in Schluss, KonsEnde(m) PROVE LaufOK'
  BY <1>2, <1>10 DEF KonsEnde
<1>11. ASSUME NEW m \in Machines, LiesHaupt(m) PROVE LaufOK'
  <2>1. CASE Return(m)
    BY <1>2, <2>1
  <2>2. CASE ~Return(m)
    <3>1. Leer \in Dokument /\ haupt \in Dokument
      BY LeerType, Typen DEF Leer, Dokument
    <3>2. basis' = [basis EXCEPT ![m] = haupt] \/ basis' = [basis EXCEPT ![m] = Leer]
      BY <1>11, <2>2 DEF LiesHaupt
    <3>3. basis' \in [Machines -> Dokument]
      BY <1>0, <3>1, <3>2
    <3>4. gestoert' = gestoert \/ gestoert' = [gestoert EXCEPT ![m] = TRUE]
      BY <1>11, <2>2 DEF LiesHaupt
    <3>5. gestoert' \in [Machines -> BOOLEAN]
      BY <1>0, <3>4
    <3>6. pc' \in [Machines -> Steps \cup {"idle"}]
      BY <1>11, <2>2, GotoType DEF LiesHaupt
    <3> QED
      BY <1>0, <1>11, <2>2, <3>3, <3>5, <3>6 DEF LiesHaupt
  <2> QED
    BY <2>1, <2>2
<1>12. ASSUME NEW m \in Machines, LiesListe(m) \/ LiesEnde(m) PROVE LaufOK'
  BY <1>3, <1>12 DEF LiesListe, LiesEnde
<1>13. ASSUME NEW m \in Machines, LiesSidecar(m) PROVE LaufOK'
  <2>1. PICK i \in Ids : /\ offen' = [offen EXCEPT ![m] = @ \ {i}]
                         /\ basis' = basis \/ basis' = [basis EXCEPT ![m] = Neu(m, i)]
                         /\ gestoert' = gestoert \/ gestoert' = [gestoert EXCEPT ![m] = TRUE]
                         /\ UNCHANGED <<pc, anfangs>>
    BY <1>13, LiesSidecarFaelle
  <2>2. basis' \in [Machines -> Dokument]
    BY <1>0, <2>1, NeuFacts
  <2>3. offen' \in [Machines -> SUBSET Ids]
    BY <1>0, <2>1
  <2>4. gestoert' \in [Machines -> BOOLEAN]
    BY <1>0, <2>1
  <2> QED
    BY <1>0, <2>1, <2>2, <2>3, <2>4
<1>14. ASSUME NEW m \in Machines, Crash(m) PROVE LaufOK'
  BY <1>2, <1>14 DEF Crash
<1>15. ASSUME LockBricht \/ UNCHANGED vars PROVE LaufOK'
  BY <1>1, <1>15 DEF LockBricht, vars
<1> QED
  BY <1>4, <1>5, <1>6, <1>7, <1>8, <1>9, <1>10, <1>11, <1>12, <1>13, <1>14, <1>15 DEF Next

\* What a registration does to the sidecar and the history.
LEMMA RegistriereWirkung ==
  ASSUME TypeOK, NEW i \in Ids, Registriere(i)
  PROVE  \E r \in Reservierung :
           /\ r # Keine /\ ResLeq(gemeldet[i], r) /\ ResLeq(r, r)
           /\ sidecar' = [sidecar EXCEPT ![i] = r]
           /\ gemeldet' = [gemeldet EXCEPT ![i] = r] \/ gemeldet' = gemeldet
           /\ fehler' = fehler \/ Fails
           /\ verpasst' = IF ReadPast(i) THEN verpasst \cup {i} ELSE verpasst \ {i}
           /\ UNCHANGED <<haupt, holder, pc, basis, offen, anfangs, gestoert, blind>>
<1>1. PICK s \in {"offen", "done"} :
        /\ status_rank(s) > status_rank(gemeldet[i].status)
        /\ sidecar' = [sidecar EXCEPT ![i] = [status |-> s, eta |-> s = "done"]]
        /\ \/ gemeldet' = [gemeldet EXCEPT ![i] = [status |-> s, eta |-> s = "done"]]
              /\ UNCHANGED fehler
           \/ Fails /\ UNCHANGED gemeldet
  BY DEF Registriere
<1> DEFINE r == [status |-> s, eta |-> s = "done"]
<1>2. r.status = s /\ r # Keine
  BY DEF Keine
<1>3. r \in Reservierung
  <2>1. (s = "done") \in BOOLEAN
    BY Zenon
  <2> QED
    BY <2>1 DEF Reservierung, Status
<1>4. ResLeq(gemeldet[i], r) /\ ResLeq(r, r)
  BY <1>1, <1>2, <1>3, RankType, ResLeqReflexive DEF ResLeq, TypeOK, Reservierung, Status
<1>5. /\ verpasst' = IF ReadPast(i) THEN verpasst \cup {i} ELSE verpasst \ {i}
      /\ UNCHANGED <<haupt, holder, pc, basis, offen, anfangs, gestoert, blind>>
  BY DEF Registriere
<1> QED
  BY <1>1, <1>2, <1>3, <1>4, <1>5

\* What a take-over does to the document.
LEMMA UebernahmeWirkung ==
  ASSUME TypeOK, NEW i \in Ids, Uebernahme(i)
  PROVE  /\ holder = Nobody /\ haupt.lesbar
         /\ haupt' \in Dokument /\ Contained(haupt.inhalt, haupt'.inhalt)
         /\ haupt'.rev = haupt.rev + 1
         /\ UNCHANGED <<sidecar, holder, pc, basis, offen, anfangs, gestoert, history, fehler>>
<1>1. haupt \in Dokument
  BY Typen
<1>2. [status |-> "released", eta |-> FALSE] \in Reservierung
  BY DEF Reservierung, Status
<1>3. haupt' = Vereint(haupt, Einzeln(i, [status |-> "released", eta |-> FALSE]))
  BY DEF Uebernahme
<1>4. /\ haupt' \in Dokument /\ Contained(haupt.inhalt, haupt'.inhalt)
      /\ haupt'.rev = haupt.rev + 1
  BY <1>1, <1>2, <1>3, VereintFacts
<1> QED
  BY <1>4 DEF Uebernahme

LEMMA RestStep == TypeOK /\ [Next]_vars => RestOK'
<1> SUFFICES ASSUME TypeOK, [Next]_vars PROVE RestOK'
  OBVIOUS
<1> USE DEF RestOK, Machines, history
<1>0. RestOK
  BY DEF TypeOK
<1>1. ASSUME UNCHANGED <<haupt, sidecar, gemeldet, holder, verpasst, blind, fehler>> PROVE RestOK'
  BY <1>0, <1>1
<1>2. ASSUME UNCHANGED <<haupt, sidecar, gemeldet, verpasst, blind>>,
             holder' \in Schluss \cup {Nobody}, fehler' = fehler \/ Fails
      PROVE  RestOK'
  BY <1>0, <1>2, FailsType
<1>3. ASSUME NEW i \in Ids, Registriere(i) PROVE RestOK'
  <2>1. PICK r \in Reservierung :
           /\ sidecar' = [sidecar EXCEPT ![i] = r]
           /\ gemeldet' = [gemeldet EXCEPT ![i] = r] \/ gemeldet' = gemeldet
           /\ fehler' = fehler \/ Fails
           /\ verpasst' = IF ReadPast(i) THEN verpasst \cup {i} ELSE verpasst \ {i}
           /\ UNCHANGED <<haupt, holder, blind>>
    BY <1>3, RegistriereWirkung
  <2>2. sidecar' \in [Ids -> Reservierung] /\ gemeldet' \in [Ids -> Reservierung]
    BY <1>0, <2>1
  <2>3. verpasst' \subseteq Ids
    BY <1>0, <2>1
  <2> QED
    BY <1>0, <2>1, <2>2, <2>3, FailsType
<1>4. ASSUME NEW i \in Ids, Uebernahme(i) PROVE RestOK'
  BY <1>0, <1>4, UebernahmeWirkung
<1>5. ASSUME NEW m \in Leser, LiesBegin(m) \/ Antwort(m) PROVE RestOK'
  BY <1>1, <1>5 DEF LiesBegin, Antwort
<1>6. ASSUME NEW m \in Schluss, KonsBegin(m) \/ KonsListe(m) \/ KonsEnde(m) PROVE RestOK'
  BY <1>0, <1>2, <1>6 DEF KonsBegin, KonsListe, KonsEnde
<1>7. ASSUME NEW m \in Schluss, KonsStore(m) PROVE RestOK'
  <2>1. haupt' \in Dokument
    BY <1>7, Typen DEF KonsStore
  <2>2. fehler' = fehler \/ Fails
    BY <1>7 DEF KonsStore
  <2>3. holder' \in Schluss \cup {Nobody} /\ UNCHANGED <<sidecar, gemeldet, verpasst, blind>>
    BY <1>0, <1>7 DEF KonsStore
  <2> QED
    BY <1>0, <2>1, <2>2, <2>3, FailsType
<1>8. ASSUME NEW m \in Schluss, KonsRemove(m) PROVE RestOK'
  <2>1. sidecar' = sidecar \/ \E i \in Ids : sidecar' = [sidecar EXCEPT ![i] = Keine]
    BY <1>8 DEF KonsRemove, TypeOK
  <2>2. sidecar' \in [Ids -> Reservierung]
    BY <1>0, <2>1, KeineLeast
  <2>3. fehler' = fehler \/ Fails
    BY <1>8 DEF KonsRemove
  <2>4. UNCHANGED <<haupt, gemeldet, holder, verpasst, blind>>
    BY <1>8 DEF KonsRemove
  <2> QED
    BY <1>0, <2>2, <2>3, <2>4, FailsType
<1>9. ASSUME NEW m \in Machines, LiesHaupt(m) PROVE RestOK'
  <2>1. blind' = blind \/ blind' = (blind \/ m \in Schluss)
    BY <1>9 DEF LiesHaupt
  <2>2. blind' \in BOOLEAN
    BY <1>0, <2>1, Zenon
  <2>3. fehler' = fehler \/ Fails
    BY <1>9 DEF LiesHaupt
  <2>4. holder' \in Schluss \cup {Nobody}
    BY <1>0, <1>9 DEF LiesHaupt
  <2>5. UNCHANGED <<haupt, sidecar, gemeldet, verpasst>>
    BY <1>9 DEF LiesHaupt
  <2> QED
    BY <1>0, <2>2, <2>3, <2>4, <2>5, FailsType
<1>10. ASSUME NEW m \in Machines, LiesListe(m) \/ LiesEnde(m) PROVE RestOK'
  BY <1>1, <1>10 DEF LiesListe, LiesEnde
<1>11. ASSUME NEW m \in Machines, LiesSidecar(m) PROVE RestOK'
  <2>1. PICK i \in Ids :
          /\ verpasst' \in {verpasst, verpasst \ {i}, verpasst \cup {i}}
          /\ fehler' = fehler \/ Fails
          /\ UNCHANGED <<haupt, sidecar, holder, gemeldet, blind>>
    BY <1>11, LiesSidecarFaelle
  <2>2. verpasst' \subseteq Ids
    BY <1>0, <2>1
  <2> QED
    BY <1>0, <2>1, <2>2, FailsType
<1>12. ASSUME NEW m \in Machines, Crash(m) PROVE RestOK'
  BY <1>0, <1>2, <1>12 DEF Crash
<1>13. ASSUME LockBricht PROVE RestOK'
  BY <1>2, <1>13 DEF LockBricht
<1>14. ASSUME UNCHANGED vars PROVE RestOK'
  BY <1>1, <1>14 DEF vars
<1> QED
  BY <1>3, <1>4, <1>5, <1>6, <1>7, <1>8, <1>9, <1>10, <1>11, <1>12, <1>13, <1>14 DEF Next

\* The lock is exclusive: who consolidates holds it.
LEMMA HoldStep == TypeOK /\ [Next]_vars => HoldOK'
<1> SUFFICES ASSUME TypeOK, [Next]_vars PROVE HoldOK'
  OBVIOUS
<1> USE SidecarConstantsOK DEF HoldOK, Machines, history
<1>0. HoldOK /\ pc \in [Machines -> Steps \cup {"idle"}]
  BY DEF TypeOK
<1>1. ASSUME UNCHANGED <<pc, holder>> PROVE HoldOK'
  BY <1>0, <1>1
<1>2. ASSUME NEW m \in Machines, NEW x, Goto(m, x), UNCHANGED holder, pc[m] # "idle" \/ m \in Leser
      PROVE  HoldOK'
  BY <1>0, <1>2 DEF Goto
<1>3. ASSUME NEW m \in Machines, Return(m), pc[m] # "idle",
             holder' = holder \/ (m \in Schluss /\ holder' = Nobody)
      PROVE  HoldOK'
  BY <1>0, <1>3 DEF Return, Goto
<1>4. ASSUME NEW i \in Ids, Registriere(i) \/ Uebernahme(i) PROVE HoldOK'
  BY <1>1, <1>4 DEF Registriere, Uebernahme
<1>5. ASSUME NEW m \in Leser, LiesBegin(m) PROVE HoldOK'
  BY <1>2, <1>5 DEF LiesBegin
<1>6. ASSUME NEW m \in Leser, Antwort(m) PROVE HoldOK'
  BY <1>3, <1>6 DEF Antwort
<1>7. ASSUME NEW m \in Schluss, KonsBegin(m) PROVE HoldOK'
  BY <1>0, <1>7 DEF KonsBegin, Goto
<1>8. ASSUME NEW m \in Schluss, KonsListe(m) PROVE HoldOK'
  BY <1>2, <1>8 DEF KonsListe
<1>9. ASSUME NEW m \in Schluss, KonsStore(m) \/ KonsEnde(m) PROVE HoldOK'
  BY <1>2, <1>3, <1>9 DEF KonsStore, KonsEnde
<1>10. ASSUME NEW m \in Schluss, KonsRemove(m) PROVE HoldOK'
  BY <1>1, <1>10 DEF KonsRemove
<1>11. ASSUME NEW m \in Machines, LiesHaupt(m) PROVE HoldOK'
  BY <1>2, <1>3, <1>11 DEF LiesHaupt
<1>12. ASSUME NEW m \in Machines, LiesListe(m) \/ LiesEnde(m) PROVE HoldOK'
  BY <1>2, <1>12 DEF LiesListe, LiesEnde
<1>13. ASSUME NEW m \in Machines, LiesSidecar(m) PROVE HoldOK'
  BY <1>1, <1>13 DEF LiesSidecar
<1>14. ASSUME NEW m \in Machines, Crash(m) PROVE HoldOK'
  BY <1>3, <1>14 DEF Crash
<1>15. ASSUME LockBricht PROVE HoldOK'
  BY <1>0, <1>15 DEF LockBricht
<1>16. ASSUME UNCHANGED vars PROVE HoldOK'
  BY <1>1, <1>16 DEF vars
<1> QED
  BY <1>4, <1>5, <1>6, <1>7, <1>8, <1>9, <1>10, <1>11, <1>12, <1>13, <1>14, <1>15, <1>16 DEF Next

LEMMA TypeStep == TypeOK /\ [Next]_vars => TypeOK'
<1> SUFFICES ASSUME TypeOK, [Next]_vars PROVE TypeOK'
  OBVIOUS
<1>1. LaufOK' /\ RestOK' /\ HoldOK'
  BY LaufStep, RestStep, HoldStep
<1> QED
  BY <1>1 DEF TypeOK, LaufOK, RestOK, HoldOK

-----------------------------------------------------------------------------
(***************************************************************************)
(* The history, the sidecars and the document move one way                 *)
(***************************************************************************)
LEMMA BlindBleibt == [Next]_vars => (blind => blind')
<1> SUFFICES ASSUME [Next]_vars, blind PROVE blind'
  OBVIOUS
<1> USE DEF history
<1>1. ASSUME NEW i \in Ids, Registriere(i) \/ Uebernahme(i) PROVE blind'
  BY <1>1 DEF Registriere, Uebernahme
<1>2. ASSUME NEW m \in Leser, LiesBegin(m) \/ Antwort(m) PROVE blind'
  BY <1>2 DEF LiesBegin, Antwort
<1>3. ASSUME NEW m \in Schluss,
             KonsBegin(m) \/ KonsStore(m) \/ KonsListe(m) \/ KonsRemove(m) \/ KonsEnde(m)
      PROVE  blind'
  BY <1>3 DEF KonsBegin, KonsStore, KonsListe, KonsRemove, KonsEnde
<1>4. ASSUME NEW m \in Machines,
             LiesHaupt(m) \/ LiesListe(m) \/ LiesSidecar(m) \/ LiesEnde(m) \/ Crash(m)
      PROVE  blind'
  BY <1>4 DEF LiesHaupt, LiesListe, LiesSidecar, LiesEnde, Crash
<1>5. ASSUME LockBricht \/ UNCHANGED vars PROVE blind'
  BY <1>5 DEF LockBricht, vars
<1> QED
  BY <1>1, <1>2, <1>3, <1>4, <1>5 DEF Next

\* What the other processes can rely on in a step that leaves a reading
\* undisturbed.  The three cases of the store: a registration, a write of the
\* document, a removal.
Wachstum ==
  /\ haupt' \in Dokument /\ Contained(haupt.inhalt, haupt'.inhalt) /\ haupt'.rev >= haupt.rev
  /\ ~haupt.lesbar => haupt' = haupt
  /\ \A i \in Ids : ResLeq(gemeldet[i], gemeldet'[i])

LEMMA Bleibt ==
  ASSUME TypeOK
  PROVE  /\ Contained(haupt.inhalt, haupt.inhalt) /\ haupt.rev >= haupt.rev
         /\ \A i \in Ids : ResLeq(gemeldet[i], gemeldet[i])
BY Typen, ContainedReflexive, ResLeqReflexive

LEMMA WachstumStep == IInv /\ [Next]_vars /\ ~blind' => Wachstum
<1> SUFFICES ASSUME IInv, [Next]_vars, ~blind' PROVE Wachstum
  OBVIOUS
<1> USE DEF Machines, history
<1>0. TypeOK /\ KonsInv /\ ~blind
  BY BlindBleibt DEF IInv
<1>1. ASSUME UNCHANGED <<haupt, gemeldet>> PROVE Wachstum
  BY <1>0, <1>1, Bleibt, Typen DEF Wachstum
<1>2. ASSUME NEW i \in Ids, Registriere(i) PROVE Wachstum
  <2>1. PICK r \in Reservierung :
          /\ ResLeq(gemeldet[i], r)
          /\ gemeldet' = [gemeldet EXCEPT ![i] = r] \/ gemeldet' = gemeldet
          /\ haupt' = haupt
    BY <1>0, <1>2, RegistriereWirkung
  <2>2. \A j \in Ids : ResLeq(gemeldet[j], gemeldet'[j])
    BY <1>0, <2>1, Bleibt DEF TypeOK
  <2> QED
    BY <1>0, <2>1, <2>2, Bleibt, Typen DEF Wachstum
<1>3. ASSUME NEW i \in Ids, Uebernahme(i) PROVE Wachstum
  <2>1. haupt.rev + 1 >= haupt.rev
    BY <1>0, Typen
  <2> QED
    BY <1>0, <1>3, <2>1, UebernahmeWirkung, Bleibt DEF Wachstum
<1>4. ASSUME NEW m \in Leser, LiesBegin(m) \/ Antwort(m) PROVE Wachstum
  BY <1>1, <1>4 DEF LiesBegin, Antwort
<1>5. ASSUME NEW m \in Schluss, KonsStore(m) PROVE Wachstum
  <2>1. haupt' = haupt \/ haupt' = basis[m]
    BY <1>5 DEF KonsStore
  <2>2. /\ haupt.lesbar /\ Contained(haupt.inhalt, basis[m].inhalt) /\ haupt.rev <= basis[m].rev
    BY <1>0, <1>5 DEF KonsInv, KonsVon, KonsStore
  <2>3. gemeldet' = gemeldet
    BY <1>5 DEF KonsStore
  <2> QED
    BY <1>0, <2>1, <2>2, <2>3, Bleibt, Typen DEF Wachstum
<1>6. ASSUME NEW m \in Schluss, KonsBegin(m) \/ KonsListe(m) \/ KonsRemove(m) \/ KonsEnde(m)
      PROVE  Wachstum
  BY <1>1, <1>6 DEF KonsBegin, KonsListe, KonsRemove, KonsEnde
<1>7. ASSUME NEW m \in Machines,
             LiesHaupt(m) \/ LiesListe(m) \/ LiesSidecar(m) \/ LiesEnde(m) \/ Crash(m)
      PROVE  Wachstum
  BY <1>1, <1>7 DEF LiesHaupt, LiesListe, LiesSidecar, LiesEnde, Crash
<1>8. ASSUME LockBricht \/ UNCHANGED vars PROVE Wachstum
  BY <1>1, <1>8 DEF LockBricht, vars
<1> QED
  BY <1>2, <1>3, <1>4, <1>5, <1>6, <1>7, <1>8 DEF Next

\* What can happen to a sidecar: it stays, or it takes what its owner reports,
\* or the consolidator that has its record in the document removes it.
LEMMA SidecarWirkung ==
  ASSUME TypeOK, [Next]_vars, NEW i \in Ids
  PROVE  \/ sidecar'[i] = sidecar[i] /\ gemeldet'[i] = gemeldet[i]
         \/ /\ Registriere(i)
            /\ sidecar'[i] \in Reservierung
            /\ ResLeq(gemeldet[i], sidecar'[i]) /\ ResLeq(gemeldet'[i], sidecar'[i])
         \/ /\ sidecar'[i] = Keine /\ gemeldet'[i] = gemeldet[i]
            /\ \E m \in Schluss : KonsRemove(m) /\ i \in offen[m] /\ pc[m] = "remove"
<1> DEFINE Ziel == \/ sidecar'[i] = sidecar[i] /\ gemeldet'[i] = gemeldet[i]
                   \/ /\ Registriere(i)
                      /\ sidecar'[i] \in Reservierung
                      /\ ResLeq(gemeldet[i], sidecar'[i]) /\ ResLeq(gemeldet'[i], sidecar'[i])
                   \/ /\ sidecar'[i] = Keine /\ gemeldet'[i] = gemeldet[i]
                      /\ \E m \in Schluss : KonsRemove(m) /\ i \in offen[m] /\ pc[m] = "remove"
<1> USE DEF history
<1>1. ASSUME UNCHANGED <<sidecar, gemeldet>> PROVE Ziel
  BY <1>1
<1>2. ASSUME NEW j \in Ids, Registriere(j) PROVE Ziel
  <2>1. PICK r \in Reservierung :
          /\ ResLeq(gemeldet[j], r) /\ ResLeq(r, r)
          /\ sidecar' = [sidecar EXCEPT ![j] = r]
          /\ gemeldet' = [gemeldet EXCEPT ![j] = r] \/ gemeldet' = gemeldet
    BY <1>2, RegistriereWirkung
  <2>2. CASE i = j
    <3>1. sidecar'[i] = r /\ (gemeldet'[i] = r \/ gemeldet'[i] = gemeldet[i])
      BY <2>1, <2>2 DEF TypeOK
    <3> QED
      BY <1>2, <2>1, <2>2, <3>1
  <2>3. CASE i # j
    BY <2>1, <2>3 DEF TypeOK
  <2> QED
    BY <2>2, <2>3
<1>3. ASSUME NEW j \in Ids, Uebernahme(j) PROVE Ziel
  BY <1>1, <1>3 DEF Uebernahme
<1>4. ASSUME NEW m \in Leser, LiesBegin(m) \/ Antwort(m) PROVE Ziel
  BY <1>1, <1>4 DEF LiesBegin, Antwort
<1>5. ASSUME NEW m \in Schluss, KonsBegin(m) \/ KonsStore(m) \/ KonsListe(m) \/ KonsEnde(m)
      PROVE  Ziel
  BY <1>1, <1>5 DEF KonsBegin, KonsStore, KonsListe, KonsEnde
<1>6. ASSUME NEW m \in Schluss, KonsRemove(m) PROVE Ziel
  <2>1. PICK j \in offen[m] : sidecar' = [sidecar EXCEPT ![j] = Keine] \/ sidecar' = sidecar
    BY <1>6 DEF KonsRemove
  <2>2. gemeldet' = gemeldet /\ pc[m] = "remove"
    BY <1>6 DEF KonsRemove
  <2> QED
    BY <1>6, <2>1, <2>2 DEF TypeOK
<1>7. ASSUME NEW m \in Machines,
             LiesHaupt(m) \/ LiesListe(m) \/ LiesSidecar(m) \/ LiesEnde(m) \/ Crash(m)
      PROVE  Ziel
  BY <1>1, <1>7 DEF LiesHaupt, LiesListe, LiesSidecar, LiesEnde, Crash
<1>8. ASSUME LockBricht \/ UNCHANGED vars PROVE Ziel
  BY <1>1, <1>8 DEF LockBricht, vars
<1> QED
  BY <1>2, <1>3, <1>4, <1>5, <1>6, <1>7, <1>8 DEF Next

LEMMA SidecarStep == IInv /\ [Next]_vars => SidecarInv'
<1> SUFFICES ASSUME IInv, [Next]_vars PROVE SidecarInv'
  OBVIOUS
<1> QED
  BY SidecarWirkung DEF IInv, SidecarInv

\* A key the history takes back from the missed ones is in a sidecar.
LEMMA VerpasstWirkung ==
  ASSUME TypeOK, [Next]_vars, NEW i \in Ids, i \notin verpasst', i \in verpasst
  PROVE  \/ Registriere(i)
         \/ sidecar[i] # Keine /\ UNCHANGED <<sidecar, gemeldet>>
<1> DEFINE Ziel == Registriere(i) \/ (sidecar[i] # Keine /\ UNCHANGED <<sidecar, gemeldet>>)
<1> USE DEF history
<1>1. ASSUME NEW j \in Ids, Registriere(j) PROVE Ziel
  BY <1>1 DEF Registriere
<1>2. ASSUME NEW m \in Machines, LiesSidecar(m) PROVE Ziel
  BY <1>2, LiesSidecarFaelle
<1>3. ASSUME UNCHANGED verpasst PROVE Ziel
  BY <1>3
<1>4. ASSUME NEW j \in Ids, Uebernahme(j) PROVE Ziel
  BY <1>3, <1>4 DEF Uebernahme
<1>5. ASSUME NEW m \in Leser, LiesBegin(m) \/ Antwort(m) PROVE Ziel
  BY <1>3, <1>5 DEF LiesBegin, Antwort
<1>6. ASSUME NEW m \in Schluss,
             KonsBegin(m) \/ KonsStore(m) \/ KonsListe(m) \/ KonsRemove(m) \/ KonsEnde(m)
      PROVE  Ziel
  BY <1>3, <1>6 DEF KonsBegin, KonsStore, KonsListe, KonsRemove, KonsEnde
<1>7. ASSUME NEW m \in Machines, LiesHaupt(m) \/ LiesListe(m) \/ LiesEnde(m) \/ Crash(m)
      PROVE  Ziel
  BY <1>3, <1>7 DEF LiesHaupt, LiesListe, LiesEnde, Crash
<1>8. ASSUME LockBricht \/ UNCHANGED vars PROVE Ziel
  BY <1>3, <1>8 DEF LockBricht, vars
<1> QED
  BY <1>1, <1>2, <1>4, <1>5, <1>6, <1>7, <1>8 DEF Next

LEMMA NieVerlorenStep == IInv /\ [Next]_vars => RecordsNieVerloren'
<1> SUFFICES ASSUME IInv, [Next]_vars, ~blind', NEW i \in Ids, i \notin verpasst'
             PROVE  ImHaupt(gemeldet[i], i)' \/ ResLeq(gemeldet'[i], sidecar'[i])
  BY DEF RecordsNieVerloren, ImHaupt
<1>0. TypeOK /\ TypeOK' /\ ~blind /\ Wachstum
  BY TypeStep, BlindBleibt, WachstumStep DEF IInv
<1>1. ASSUME ImHaupt(gemeldet[i], i), gemeldet'[i] = gemeldet[i] PROVE ImHaupt(gemeldet[i], i)'
  <2>1. haupt'.inhalt \in Content
    BY <1>0, DokumentFacts DEF Wachstum
  <2> QED
    BY <1>0, <1>1, <2>1, Typen, ContainedRecord DEF Wachstum, ImHaupt
<1>2. i \notin verpasst => ImHaupt(gemeldet[i], i) \/ ResLeq(gemeldet[i], sidecar[i])
  BY <1>0 DEF IInv, RecordsNieVerloren, ImHaupt
<1>3. CASE Registriere(i)
  BY <1>0, <1>3, SidecarWirkung, RegistriereWirkung DEF TypeOK
<1>4. CASE i \in verpasst /\ sidecar[i] # Keine /\ UNCHANGED <<sidecar, gemeldet>>
  BY <1>4 DEF IInv, SidecarInv
<1>5. CASE i \notin verpasst /\ ~Registriere(i)
  <2>1. CASE sidecar'[i] = sidecar[i] /\ gemeldet'[i] = gemeldet[i]
    BY <1>1, <1>2, <1>5, <2>1
  <2>2. CASE /\ sidecar'[i] = Keine /\ gemeldet'[i] = gemeldet[i]
             /\ \E m \in Schluss : KonsRemove(m) /\ i \in offen[m] /\ pc[m] = "remove"
    <3>1. ImHaupt(gemeldet[i], i)
      BY <1>0, <1>5, <2>2 DEF IInv, KonsInv, KonsVon
    <3> QED
      BY <1>1, <2>2, <3>1
  <2> QED
    BY <1>0, <1>5, <2>1, <2>2, SidecarWirkung
<1> QED
  BY <1>0, <1>3, <1>4, <1>5, VerpasstWirkung

-----------------------------------------------------------------------------
(***************************************************************************)
(* The consolidator                                                        *)
(***************************************************************************)
\* A consolidator that waits while the others move keeps what it has in hand.
LEMMA KonsRahmen ==
  ASSUME TypeOK, NEW k \in Schluss, KonsVon(k),
         haupt' = haupt, pc'[k] = pc[k], basis'[k] = basis[k], offen'[k] = offen[k],
         \A j \in Ids \ verpasst' :
           \/ j \notin verpasst /\ gemeldet'[j] = gemeldet[j]
           \/ pc[k] = "fetch" /\ j \in offen[k]
           \/ pc[k] = "remove" /\ j \notin offen[k]
           \/ pc[k] \notin {"fetch", "store", "liste2", "remove"}
  PROVE  KonsVon(k)'
<1> USE DEF ImHaupt, InBasis
<1>1. pc[k] # "fertig" /\ (pc[k] \in {"liste", "fetch", "store"} =>
        /\ haupt.lesbar /\ basis[k].lesbar
        /\ Contained(haupt.inhalt, basis[k].inhalt) /\ haupt.rev <= basis[k].rev)
  BY DEF KonsVon
<1>2. pc[k] = "fetch" =>
        \A j \in Ids \ (verpasst' \cup offen[k]) : ResLeq(gemeldet'[j], basis[k].inhalt.res[j])
  BY DEF KonsVon
<1>3. pc[k] = "store" =>
        \A j \in Ids \ verpasst' : ResLeq(gemeldet'[j], basis[k].inhalt.res[j])
  BY DEF KonsVon
<1>4. pc[k] = "liste2" =>
        \A j \in Ids \ verpasst' : ResLeq(gemeldet'[j], haupt.inhalt.res[j])
  BY DEF KonsVon
<1>5. pc[k] = "remove" =>
        \A j \in offen[k] \ verpasst' : ResLeq(gemeldet'[j], haupt.inhalt.res[j])
  <2>1. offen[k] \subseteq Ids
    BY DEF TypeOK, Machines
  <2> QED
    BY <2>1 DEF KonsVon
<1> QED
  BY <1>1, <1>2, <1>3, <1>4, <1>5 DEF KonsVon

\* One that is idle has nothing to keep.
LEMMA KonsRuht == ASSUME NEW k \in Schluss, pc'[k] \in {"idle", "haupt"} PROVE KonsVon(k)'
BY DEF KonsVon

\* Every step of a consolidator that is not blind.
LEMMA KonsSchritt ==
  ASSUME IInv, NEW m \in Schluss, ~blind', pc[m] # "idle",
         \/ KonsStore(m) \/ KonsListe(m) \/ KonsRemove(m) \/ KonsEnde(m)
         \/ LiesHaupt(m) \/ LiesListe(m) \/ LiesSidecar(m) \/ LiesEnde(m) \/ Crash(m)
  PROVE  KonsVon(m)'
<1> USE DEF Machines, Steps, history, ImHaupt, InBasis
<1>0. TypeOK /\ SidecarInv
  BY DEF IInv
<1>1. ~blind
  BY DEF KonsStore, KonsListe, KonsRemove, KonsEnde, LiesHaupt, LiesListe, LiesSidecar,
         LiesEnde, Crash
<1>2. KonsVon(m)
  BY <1>1 DEF IInv, KonsInv
<1>3. \A i \in Ids \ verpasst :
        ResLeq(gemeldet[i], haupt.inhalt.res[i]) \/ ResLeq(gemeldet[i], sidecar[i])
  BY <1>1 DEF IInv, RecordsNieVerloren
<1>4. \A i \in Ids \ verpasst : sidecar[i] = Keine /\ pc[m] \in {"liste", "fetch"} =>
        ResLeq(gemeldet[i], basis[m].inhalt.res[i])
  <2> SUFFICES ASSUME NEW i \in Ids \ verpasst, sidecar[i] = Keine, pc[m] \in {"liste", "fetch"}
               PROVE  ResLeq(gemeldet[i], basis[m].inhalt.res[i])
    OBVIOUS
  <2>1. /\ gemeldet[i] \in Reservierung /\ haupt.inhalt \in Content
        /\ basis[m].inhalt \in Content /\ Contained(haupt.inhalt, basis[m].inhalt)
    BY <1>0, <1>2, Typen DEF KonsVon
  <2>2. CASE ResLeq(gemeldet[i], haupt.inhalt.res[i])
    BY <2>1, <2>2, ContainedRecord
  <2>3. CASE ResLeq(gemeldet[i], Keine)
    BY <2>1, <2>3, KeineLeast DEF Content
  <2> QED
    BY <1>3, <2>2, <2>3
<1>5. ASSUME Return(m) PROVE KonsVon(m)'
  BY <1>0, <1>5, ReturnType, KonsRuht
<1>6. CASE KonsStore(m)
  <2>1. CASE Return(m)
    BY <1>5, <2>1
  <2>2. CASE ~Return(m)
    <3>1. haupt' = basis[m] /\ pc'[m] = "liste2" /\ UNCHANGED <<gemeldet, verpasst>>
          /\ pc[m] = "store"
      BY <1>0, <1>6, <2>2, GotoType DEF KonsStore
    <3> QED
      BY <1>2, <3>1 DEF KonsVon
  <2> QED
    BY <2>1, <2>2
<1>7. CASE KonsListe(m)
  <2>1. /\ UNCHANGED <<haupt, gemeldet, verpasst>> /\ pc[m] = "liste2" /\ pc'[m] = "remove"
        /\ offen'[m] \subseteq Ids
    BY <1>0, <1>7, GotoType DEF KonsListe, Present, TypeOK
  <2> QED
    BY <1>2, <2>1 DEF KonsVon
<1>8. CASE KonsRemove(m)
  <2>1. /\ UNCHANGED <<haupt, gemeldet, verpasst, pc>> /\ pc[m] = "remove"
        /\ offen'[m] \subseteq offen[m]
    BY <1>0, <1>8 DEF KonsRemove, TypeOK
  <2> QED
    BY <1>2, <2>1 DEF KonsVon
<1>9. CASE KonsEnde(m) \/ Crash(m)
  BY <1>5, <1>9 DEF KonsEnde, Crash
<1>10. CASE LiesHaupt(m)
  <2>1. CASE Return(m)
    BY <1>5, <2>1
  <2>2. CASE ~Return(m)
    <3>1. haupt.lesbar /\ basis' = [basis EXCEPT ![m] = haupt] /\ Goto(m, "liste")
          /\ UNCHANGED haupt
      BY <1>10, <2>2 DEF LiesHaupt
    <3>2. basis'[m] = haupt /\ pc'[m] = "liste"
      BY <1>0, <3>1, GotoType DEF TypeOK
    <3>3. Contained(haupt.inhalt, haupt.inhalt) /\ haupt.rev <= haupt.rev
      BY <1>0, Bleibt
    <3> QED
      BY <3>1, <3>2, <3>3 DEF KonsVon
  <2> QED
    BY <2>1, <2>2
<1>11. CASE LiesListe(m)
  <2>1. /\ UNCHANGED <<haupt, gemeldet, verpasst, basis>> /\ pc[m] = "liste" /\ pc'[m] = "fetch"
        /\ offen'[m] = Present
    BY <1>0, <1>11, GotoType DEF LiesListe, TypeOK
  <2>2. \A i \in Ids \ (verpasst \cup offen'[m]) : ResLeq(gemeldet[i], basis[m].inhalt.res[i])
    BY <1>4, <2>1 DEF Present
  <2> QED
    BY <1>2, <2>1, <2>2 DEF KonsVon
<1>12. CASE LiesSidecar(m)
  <2>1. PICK i \in offen[m] :
           /\ i \in Ids /\ pc[m] = "fetch"
           /\ offen' = [offen EXCEPT ![m] = @ \ {i}]
           /\ UNCHANGED <<haupt, sidecar, holder, pc, anfangs, gemeldet, blind>>
           /\ \/ /\ sidecar[i] # Keine
                 /\ basis' = [basis EXCEPT ![m] = Neu(m, i)]
                 /\ verpasst' = IF m \in Schluss THEN verpasst \ {i} ELSE verpasst
                 /\ UNCHANGED <<gestoert, fehler>>
              \/ /\ Fails
                 /\ verpasst' = IF m \in Schluss THEN verpasst \cup {i} ELSE verpasst
                 /\ gestoert' = [gestoert EXCEPT ![m] = TRUE]
                 /\ UNCHANGED basis
              \/ /\ sidecar[i] = Keine
                 /\ UNCHANGED <<basis, verpasst, gestoert, fehler>>
    BY <1>0, <1>12, LiesSidecarFaelle
  <2>2. offen'[m] = offen[m] \ {i} /\ pc'[m] = "fetch"
    BY <1>0, <2>1 DEF TypeOK
  <2>3. /\ haupt.lesbar /\ basis[m].lesbar
        /\ Contained(haupt.inhalt, basis[m].inhalt) /\ haupt.rev <= basis[m].rev
        /\ \A j \in Ids \ (verpasst \cup offen[m]) : ResLeq(gemeldet[j], basis[m].inhalt.res[j])
    BY <1>2, <2>1 DEF KonsVon
  <2>4. CASE sidecar[i] # Keine /\ basis' = [basis EXCEPT ![m] = Neu(m, i)]
             /\ verpasst' = verpasst \ {i}
    <3>1. basis'[m] = Neu(m, i)
      BY <1>0, <2>4 DEF TypeOK
    <3>2. /\ Neu(m, i).inhalt \in Content
          /\ Neu(m, i).lesbar = basis[m].lesbar /\ Neu(m, i).rev = basis[m].rev + 1
          /\ Contained(basis[m].inhalt, Neu(m, i).inhalt)
          /\ ResLeq(sidecar[i], Neu(m, i).inhalt.res[i])
      BY <1>0, <2>1, NeuFacts, DokumentFacts
    <3>3. Contained(haupt.inhalt, Neu(m, i).inhalt) /\ haupt.rev <= basis[m].rev + 1
      BY <1>0, <2>3, <3>2, Typen, ContainedTransitive
    <3>4. ResLeq(gemeldet[i], Neu(m, i).inhalt.res[i])
      <4>1. ResLeq(gemeldet[i], sidecar[i])
        BY <1>0, <2>1, <2>4 DEF SidecarInv
      <4>2. /\ gemeldet[i] \in Reservierung /\ sidecar[i] \in Reservierung
            /\ Neu(m, i).inhalt.res[i] \in Reservierung
        BY <1>0, <2>1, <3>2, Typen DEF Content
      <4> QED
        BY <3>2, <4>1, <4>2, ResLeqTransitive
    <3>5. \A j \in Ids \ (verpasst \cup offen[m]) : ResLeq(gemeldet[j], Neu(m, i).inhalt.res[j])
      BY <1>0, <2>3, <3>2, Typen, ContainedRecord
    <3> QED
      BY <2>1, <2>2, <2>3, <2>4, <3>1, <3>2, <3>3, <3>4, <3>5 DEF KonsVon
  <2>5. CASE UNCHANGED basis /\ verpasst' = verpasst \cup {i}
    BY <2>1, <2>2, <2>3, <2>5 DEF KonsVon
  <2>6. CASE sidecar[i] = Keine /\ UNCHANGED <<basis, verpasst>>
    <3>1. i \notin verpasst => ResLeq(gemeldet[i], basis[m].inhalt.res[i])
      BY <1>4, <2>1, <2>6
    <3> QED
      BY <2>1, <2>2, <2>3, <2>6, <3>1 DEF KonsVon
  <2> QED
    BY <2>1, <2>4, <2>5, <2>6
<1>13. CASE LiesEnde(m)
  <2>1. /\ UNCHANGED <<haupt, gemeldet, verpasst, basis>> /\ pc[m] = "fetch" /\ pc'[m] = "store"
        /\ offen[m] = {}
    BY <1>0, <1>13, GotoType DEF LiesEnde
  <2> QED
    BY <1>2, <2>1 DEF KonsVon
<1> QED
  BY <1>6, <1>7, <1>8, <1>9, <1>10, <1>11, <1>12, <1>13

\* The step of one machine leaves the locals of the others alone, except that
\* a removal marks their reading as disturbed.
LEMMA FremderSchritt ==
  ASSUME TypeOK, NEW n \in Machines, NEW k \in Machines, k # n,
         \/ LiesBegin(n) \/ Antwort(n)
         \/ KonsBegin(n) \/ KonsStore(n) \/ KonsListe(n) \/ KonsRemove(n) \/ KonsEnde(n)
         \/ LiesHaupt(n) \/ LiesListe(n) \/ LiesSidecar(n) \/ LiesEnde(n) \/ Crash(n)
  PROVE  /\ pc'[k] = pc[k] /\ basis'[k] = basis[k] /\ offen'[k] = offen[k]
         /\ anfangs'[k] = anfangs[k]
         /\ gestoert[k] => gestoert'[k]
<1> DEFINE Ziel == /\ pc'[k] = pc[k] /\ basis'[k] = basis[k] /\ offen'[k] = offen[k]
                   /\ anfangs'[k] = anfangs[k]
                   /\ gestoert[k] => gestoert'[k]
<1>0. LaufOK
  BY TypeParts
<1> USE <1>0 DEF LaufOK
<1>1. ASSUME Return(n) PROVE Ziel
  BY <1>1 DEF Return, Goto
<1>2. ASSUME NEW x, Goto(n, x), UNCHANGED <<basis, offen, anfangs, gestoert>> PROVE Ziel
  BY <1>2 DEF Goto
<1>3. CASE LiesBegin(n)
  BY <1>3 DEF LiesBegin, Goto
<1>4. CASE Antwort(n) \/ KonsEnde(n) \/ Crash(n)
  BY <1>1, <1>4 DEF Antwort, KonsEnde, Crash
<1>5. CASE KonsBegin(n) \/ LiesEnde(n)
  BY <1>2, <1>5 DEF KonsBegin, LiesEnde
<1>6. CASE KonsStore(n)
  BY <1>1, <1>2, <1>6 DEF KonsStore
<1>7. CASE KonsListe(n) \/ LiesListe(n)
  BY <1>7 DEF KonsListe, LiesListe, Goto
<1>8. CASE KonsRemove(n)
  <2>1. PICK i \in offen[n] :
          /\ offen' = [offen EXCEPT ![n] = @ \ {i}]
          /\ \/ gestoert' = [p \in Machines |-> gestoert[p] \/ (pc[p] # "idle" /\ p # n)]
             \/ gestoert' = gestoert
    BY <1>8 DEF KonsRemove
  <2>2. UNCHANGED <<pc, basis, anfangs>>
    BY <1>8 DEF KonsRemove
  <2>3. gestoert[k] => gestoert'[k]
    BY <2>1
  <2> QED
    BY <2>1, <2>2, <2>3
<1>9. CASE LiesHaupt(n)
  <2>1. CASE Return(n)
    BY <1>1, <2>1
  <2>2. CASE ~Return(n)
    BY <1>9, <2>2 DEF LiesHaupt, Goto
  <2> QED
    BY <2>1, <2>2
<1>10. CASE LiesSidecar(n)
  <2>1. PICK i \in offen[n] :
          /\ offen' = [offen EXCEPT ![n] = @ \ {i}]
          /\ UNCHANGED <<pc, anfangs>>
          /\ basis' = [basis EXCEPT ![n] = Neu(n, i)] \/ basis' = basis
          /\ gestoert' = [gestoert EXCEPT ![n] = TRUE] \/ gestoert' = gestoert
    BY <1>10, LiesSidecarFaelle
  <2> QED
    BY <2>1
<1> QED
  BY <1>3, <1>4, <1>5, <1>6, <1>7, <1>8, <1>9, <1>10

\* A consolidator never ends as a reader does.
LEMMA KonsNieFertig ==
  ASSUME IInv, [Next]_vars, NEW k \in Schluss PROVE pc'[k] # "fertig"
<1> USE SidecarConstantsOK DEF Machines
<1>0. TypeOK /\ pc[k] # "fertig"
  BY DEF IInv, KonsInv
<1>1. ASSUME UNCHANGED pc PROVE pc'[k] # "fertig"
  BY <1>0, <1>1
<1>2. ASSUME NEW m \in Machines, NEW x \in Steps, Goto(m, x), x # "fertig" \/ m \notin Schluss
      PROVE  pc'[k] # "fertig"
  BY <1>0, <1>2 DEF Goto, TypeOK
<1>3. ASSUME NEW m \in Machines, Return(m) PROVE pc'[k] # "fertig"
  BY <1>0, <1>3, ReturnType
<1>4. ASSUME NEW i \in Ids, Registriere(i) \/ Uebernahme(i) PROVE pc'[k] # "fertig"
  BY <1>1, <1>4 DEF Registriere, Uebernahme
<1>5. ASSUME NEW m \in Leser, LiesBegin(m) PROVE pc'[k] # "fertig"
  BY <1>2, <1>5 DEF LiesBegin, Steps
<1>6. ASSUME NEW m \in Leser, Antwort(m) PROVE pc'[k] # "fertig"
  BY <1>3, <1>6 DEF Antwort
<1>7. ASSUME NEW m \in Schluss, KonsBegin(m) \/ KonsListe(m) PROVE pc'[k] # "fertig"
  BY <1>2, <1>7 DEF KonsBegin, KonsListe, Steps
<1>8. ASSUME NEW m \in Schluss, KonsStore(m) PROVE pc'[k] # "fertig"
  BY <1>2, <1>3, <1>8 DEF KonsStore, Steps
<1>9. ASSUME NEW m \in Schluss, KonsRemove(m) PROVE pc'[k] # "fertig"
  BY <1>1, <1>9 DEF KonsRemove
<1>10. ASSUME NEW m \in Schluss, KonsEnde(m) PROVE pc'[k] # "fertig"
  BY <1>3, <1>10 DEF KonsEnde
<1>11. ASSUME NEW m \in Machines, LiesHaupt(m) PROVE pc'[k] # "fertig"
  BY <1>2, <1>3, <1>11 DEF LiesHaupt, Steps
<1>12. ASSUME NEW m \in Machines, LiesListe(m) \/ LiesEnde(m) PROVE pc'[k] # "fertig"
  BY <1>2, <1>12 DEF LiesListe, LiesEnde, Steps
<1>13. ASSUME NEW m \in Machines, LiesSidecar(m) PROVE pc'[k] # "fertig"
  BY <1>1, <1>13 DEF LiesSidecar
<1>14. ASSUME NEW m \in Machines, Crash(m) PROVE pc'[k] # "fertig"
  BY <1>3, <1>14 DEF Crash
<1>15. ASSUME LockBricht \/ UNCHANGED vars PROVE pc'[k] # "fertig"
  BY <1>1, <1>15 DEF LockBricht, vars
<1> QED
  BY <1>4, <1>5, <1>6, <1>7, <1>8, <1>9, <1>10, <1>11, <1>12, <1>13, <1>14, <1>15 DEF Next

LEMMA KonsStep == IInv /\ [Next]_vars => KonsInv'
<1> SUFFICES ASSUME IInv, [Next]_vars, ~blind', NEW k \in Schluss PROVE KonsVon(k)'
  BY KonsNieFertig DEF KonsInv
<1> USE SidecarConstantsOK DEF Machines, history
<1>0. TypeOK /\ ~blind /\ KonsVon(k)
  BY BlindBleibt DEF IInv, KonsInv
<1>1. ASSUME UNCHANGED <<haupt, pc, basis, offen, gemeldet, verpasst>> PROVE KonsVon(k)'
  BY <1>0, <1>1, KonsRahmen
<1>2. ASSUME holder = Nobody, pc'[k] \in {pc[k], "haupt"} PROVE KonsVon(k)'
  BY <1>0, <1>2, KonsRuht DEF TypeOK
<1>3. ASSUME NEW i \in Ids, Registriere(i) PROVE KonsVon(k)'
  <2>1. PICK r \in Reservierung :
           /\ gemeldet' = [gemeldet EXCEPT ![i] = r] \/ gemeldet' = gemeldet
           /\ verpasst' = IF ReadPast(i) THEN verpasst \cup {i} ELSE verpasst \ {i}
           /\ UNCHANGED <<haupt, pc, basis, offen>>
    BY <1>0, <1>3, RegistriereWirkung
  <2>2. ASSUME NEW j \in Ids \ verpasst', j # i
        PROVE  j \notin verpasst /\ gemeldet'[j] = gemeldet[j]
    BY <1>0, <2>1, <2>2 DEF TypeOK
  <2>3. i \notin verpasst' => \/ pc[k] = "fetch" /\ i \in offen[k]
                              \/ pc[k] = "remove" /\ i \notin offen[k]
                              \/ pc[k] \notin {"fetch", "store", "liste2", "remove"}
    BY <2>1 DEF ReadPast
  <2>4. haupt' = haupt /\ pc'[k] = pc[k] /\ basis'[k] = basis[k] /\ offen'[k] = offen[k]
    BY <2>1
  <2>5. \A j \in Ids \ verpasst' :
           \/ j \notin verpasst /\ gemeldet'[j] = gemeldet[j]
           \/ pc[k] = "fetch" /\ j \in offen[k]
           \/ pc[k] = "remove" /\ j \notin offen[k]
           \/ pc[k] \notin {"fetch", "store", "liste2", "remove"}
    BY <2>2, <2>3
  <2> QED
    BY <1>0, <2>4, <2>5, KonsRahmen
<1>4. ASSUME NEW i \in Ids, Uebernahme(i) PROVE KonsVon(k)'
  BY <1>2, <1>4 DEF Uebernahme
<1>5. ASSUME NEW m \in Leser,
             \/ LiesBegin(m) \/ Antwort(m) \/ LiesHaupt(m) \/ LiesListe(m)
             \/ LiesSidecar(m) \/ LiesEnde(m) \/ Crash(m)
      PROVE  KonsVon(k)'
  <2>1. m # k /\ m \notin Schluss
    OBVIOUS
  <2>2. pc'[k] = pc[k] /\ basis'[k] = basis[k] /\ offen'[k] = offen[k]
    BY <1>0, <1>5, <2>1, FremderSchritt
  <2>3. UNCHANGED <<haupt, gemeldet>>
    BY <1>5 DEF LiesBegin, Antwort, LiesHaupt, LiesListe, LiesSidecar, LiesEnde, Crash
  <2>4. verpasst \subseteq verpasst'
    <3>1. CASE LiesSidecar(m)
      BY <1>0, <2>1, <3>1, LiesSidecarFaelle
    <3>2. CASE ~LiesSidecar(m)
      BY <1>5, <3>2 DEF LiesBegin, Antwort, LiesHaupt, LiesListe, LiesEnde, Crash
    <3> QED
      BY <3>1, <3>2
  <2> QED
    BY <1>0, <2>2, <2>3, <2>4, KonsRahmen
<1>6. ASSUME NEW m \in Schluss, KonsBegin(m) PROVE KonsVon(k)'
  <2>1. pc'[k] \in {pc[k], "haupt"} /\ holder = Nobody
    BY <1>0, <1>6 DEF KonsBegin, Goto, TypeOK
  <2> QED
    BY <1>2, <2>1
<1>7. ASSUME NEW m \in Schluss,
             \/ KonsStore(m) \/ KonsListe(m) \/ KonsRemove(m) \/ KonsEnde(m)
             \/ LiesHaupt(m) \/ LiesListe(m) \/ LiesSidecar(m) \/ LiesEnde(m) \/ Crash(m)
      PROVE  KonsVon(k)'
  <2>1. pc[m] # "idle"
    BY <1>7 DEF KonsStore, KonsListe, KonsRemove, KonsEnde, LiesHaupt, LiesListe, LiesSidecar,
                LiesEnde, Crash
  <2>2. CASE k = m
    BY <1>7, <2>1, <2>2, KonsSchritt
  <2>3. CASE k # m
    <3>1. pc[k] = "idle"
      BY <1>0, <2>1, <2>3 DEF TypeOK
    <3>2. pc'[k] = pc[k]
      BY <1>0, <1>7, <2>3, FremderSchritt
    <3> QED
      BY <3>1, <3>2, KonsRuht
  <2> QED
    BY <2>2, <2>3
<1>8. ASSUME LockBricht \/ UNCHANGED vars PROVE KonsVon(k)'
  BY <1>1, <1>8 DEF LockBricht, vars
<1> QED
  BY <1>3, <1>4, <1>5, <1>6, <1>7, <1>8 DEF Next

-----------------------------------------------------------------------------
(***************************************************************************)
(* The reader                                                              *)
(***************************************************************************)
\* A removal marks every other reading as disturbed; one that is not marked is
\* not running.
LEMMA RemoveStoert ==
  ASSUME TypeOK, NEW n \in Schluss, KonsRemove(n), NEW m \in Leser, ~gestoert'[m], sidecar' # sidecar
  PROVE  pc[m] = "idle"
<1>1. gestoert' = [p \in Machines |-> gestoert[p] \/ (pc[p] # "idle" /\ p # n)]
  BY DEF KonsRemove
<1> QED
  BY <1>1, SidecarConstantsOK DEF Machines

\* What the reading began with is passed on, whoever moves: the document and
\* the reports only grow, and a sidecar follows what its owner reported.
LEMMA LeseGrund ==
  ASSUME IInv, [Next]_vars, ~blind', NEW m \in Leser, ~gestoert'[m], pc[m] # "idle",
         NEW i \in Ids, NEW r \in Reservierung, ResLeq(r, gemeldet[i])
  PROVE  /\ ResLeq(r, gemeldet'[i])
         /\ ResLeq(r, haupt.inhalt.res[i]) => ResLeq(r, haupt'.inhalt.res[i])
         /\ ResLeq(r, sidecar[i]) => ResLeq(r, sidecar'[i])
<1>0. TypeOK /\ TypeOK' /\ Wachstum
  BY TypeStep, WachstumStep DEF IInv
<1>1. /\ gemeldet[i] \in Reservierung /\ gemeldet'[i] \in Reservierung
      /\ ResLeq(gemeldet[i], gemeldet'[i])
  BY <1>0 DEF Wachstum, TypeOK
<1>2. ResLeq(r, gemeldet'[i])
  BY <1>1, ResLeqTransitive
<1>3. ResLeq(r, haupt.inhalt.res[i]) => ResLeq(r, haupt'.inhalt.res[i])
  <2>1. haupt.inhalt \in Content /\ haupt'.inhalt \in Content
    BY <1>0, Typen, DokumentFacts DEF Wachstum
  <2> QED
    BY <1>0, <2>1, ContainedRecord DEF Wachstum
<1>4. ResLeq(r, sidecar[i]) => ResLeq(r, sidecar'[i])
  <2>1. CASE sidecar'[i] = sidecar[i]
    BY <2>1
  <2>2. CASE sidecar'[i] \in Reservierung /\ ResLeq(gemeldet[i], sidecar'[i])
    BY <1>1, <2>2, ResLeqTransitive
  <2>3. ASSUME NEW n \in Schluss, KonsRemove(n), sidecar'[i] # sidecar[i] PROVE FALSE
    BY <1>0, <2>3, RemoveStoert
  <2> QED
    BY <1>0, <2>1, <2>2, <2>3, SidecarWirkung
<1> QED
  BY <1>2, <1>3, <1>4

\* A reader that waits while the others move keeps what it has.
LEMMA LeseRahmen ==
  ASSUME IInv, [Next]_vars, ~blind', NEW m \in Leser, ~gestoert'[m], LeseVon(m),
         pc'[m] = pc[m], basis'[m] = basis[m], offen'[m] = offen[m], anfangs'[m] = anfangs[m]
  PROVE  LeseVon(m)'
<1>1. CASE pc[m] = "idle"
  BY <1>1 DEF LeseVon
<1>2. CASE pc[m] # "idle"
  <2>1. \A i \in Ids :
          /\ ResLeq(anfangs[m][i], gemeldet'[i])
          /\ ResLeq(anfangs[m][i], haupt.inhalt.res[i]) => ResLeq(anfangs[m][i], haupt'.inhalt.res[i])
          /\ ResLeq(anfangs[m][i], sidecar[i]) => ResLeq(anfangs[m][i], sidecar'[i])
    <3>1. \A i \in Ids : anfangs[m][i] \in Reservierung /\ ResLeq(anfangs[m][i], gemeldet[i])
      BY <1>2, Typen DEF IInv, LeseVon, Machines
    <3> QED
      BY <1>2, <3>1, LeseGrund
  <2> QED
    BY <1>2, <2>1 DEF LeseVon, ImHaupt, InBasis
<1> QED
  BY <1>1, <1>2

\* Every step of a reader.
LEMMA LeseSchritt ==
  ASSUME IInv, NEW m \in Leser, ~blind', ~gestoert'[m],
         \/ LiesBegin(m) \/ Antwort(m) \/ LiesHaupt(m) \/ LiesListe(m)
         \/ LiesSidecar(m) \/ LiesEnde(m) \/ Crash(m)
  PROVE  LeseVon(m)'
<1> USE SidecarConstantsOK DEF Machines, Steps, history, ImHaupt, InBasis
<1>0. TypeOK /\ m \notin Schluss /\ m \in Machines
  BY DEF IInv
<1>1. ~blind
  <2>1. blind => blind'
    BY DEF LiesBegin, Antwort, LiesHaupt, LiesListe, LiesSidecar, LiesEnde, Crash
  <2> QED
    BY <2>1
<1>2. ~gestoert[m] => LeseVon(m)
  BY <1>1 DEF IInv, LeseInv
<1>3. \A i \in Ids : /\ gemeldet[i] \in Reservierung /\ anfangs[m][i] \in Reservierung
                     /\ haupt.inhalt.res[i] \in Reservierung
                     /\ basis[m].inhalt.res[i] \in Reservierung
  BY <1>0, Typen DEF Content
<1>4. ASSUME Return(m) PROVE LeseVon(m)'
  BY <1>0, <1>4, ReturnType DEF LeseVon
<1>5. CASE Antwort(m) \/ Crash(m)
  BY <1>4, <1>5 DEF Antwort, Crash
<1>6. CASE LiesBegin(m)
  <2>1. /\ pc'[m] = "haupt"
        /\ anfangs'[m] = [i \in Ids |-> IF i \in verpasst THEN Keine ELSE gemeldet[i]]
        /\ UNCHANGED <<haupt, sidecar, gemeldet>>
    BY <1>0, <1>6, GotoType DEF LiesBegin, TypeOK
  <2>2. ASSUME NEW i \in Ids
        PROVE  /\ ResLeq(anfangs'[m][i], gemeldet[i])
               /\ \/ ResLeq(anfangs'[m][i], haupt.inhalt.res[i])
                  \/ ResLeq(anfangs'[m][i], sidecar[i])
    <3>1. CASE i \in verpasst
      BY <1>3, <2>1, <3>1, KeineLeast
    <3>2. CASE i \notin verpasst
      BY <1>1, <1>3, <2>1, <3>2, ResLeqReflexive DEF IInv, RecordsNieVerloren
    <3> QED
      BY <3>1, <3>2
  <2> QED
    BY <2>1, <2>2 DEF LeseVon
<1>7. CASE LiesHaupt(m)
  <2>1. CASE Return(m)
    BY <1>4, <2>1
  <2>2. CASE ~Return(m)
    <3>1. gestoert' # [gestoert EXCEPT ![m] = TRUE]
      BY <1>0 DEF TypeOK
    <3>2. /\ basis' = [basis EXCEPT ![m] = haupt] /\ Goto(m, "liste") /\ pc[m] = "haupt"
          /\ UNCHANGED <<haupt, sidecar, gemeldet, anfangs, gestoert>>
      BY <1>7, <2>2, <3>1 DEF LiesHaupt
    <3>3. basis'[m] = haupt /\ pc'[m] = "liste"
      BY <1>0, <3>2, GotoType DEF TypeOK
    <3> QED
      BY <1>2, <3>2, <3>3 DEF LeseVon
  <2> QED
    BY <2>1, <2>2
<1>8. CASE LiesListe(m)
  <2>1. /\ pc[m] = "liste" /\ pc'[m] = "fetch" /\ offen'[m] = Present
        /\ UNCHANGED <<haupt, sidecar, gemeldet, basis, anfangs, gestoert>>
    BY <1>0, <1>8, GotoType DEF LiesListe, TypeOK
  <2>2. LeseVon(m)
    BY <1>2, <2>1
  <2>3. ASSUME NEW i \in Ids
        PROVE  \/ ResLeq(anfangs[m][i], basis[m].inhalt.res[i])
               \/ i \in Present /\ ResLeq(anfangs[m][i], sidecar[i])
    <3>1. \/ ResLeq(anfangs[m][i], basis[m].inhalt.res[i])
          \/ ResLeq(anfangs[m][i], sidecar[i])
      BY <2>1, <2>2 DEF LeseVon
    <3>2. CASE sidecar[i] = Keine
      BY <1>3, <3>1, <3>2, KeineLeast
    <3>3. CASE sidecar[i] # Keine
      BY <3>1, <3>3 DEF Present
    <3> QED
      BY <3>2, <3>3
  <2> QED
    BY <2>1, <2>2, <2>3 DEF LeseVon
<1>9. CASE LiesSidecar(m)
  <2>1. PICK i \in offen[m] :
           /\ i \in Ids /\ pc[m] = "fetch"
           /\ offen' = [offen EXCEPT ![m] = @ \ {i}]
           /\ UNCHANGED <<haupt, sidecar, holder, pc, anfangs, gemeldet, blind>>
           /\ \/ sidecar[i] # Keine /\ basis' = [basis EXCEPT ![m] = Neu(m, i)]
                 /\ UNCHANGED gestoert
              \/ gestoert' = [gestoert EXCEPT ![m] = TRUE]
              \/ sidecar[i] = Keine /\ UNCHANGED <<basis, gestoert>>
    BY <1>0, <1>9, LiesSidecarFaelle
  <2>2. gestoert' = gestoert
    BY <1>0, <2>1 DEF TypeOK
  <2>3. LeseVon(m) /\ offen'[m] = offen[m] \ {i}
    BY <1>0, <1>2, <2>1, <2>2 DEF TypeOK
  <2>4. CASE sidecar[i] # Keine /\ basis' = [basis EXCEPT ![m] = Neu(m, i)]
    <3>1. basis'[m] = Neu(m, i)
      BY <1>0, <2>4 DEF TypeOK
    <3>2. /\ Neu(m, i).inhalt \in Content /\ basis[m].inhalt \in Content
          /\ Contained(basis[m].inhalt, Neu(m, i).inhalt)
          /\ ResLeq(sidecar[i], Neu(m, i).inhalt.res[i])
      BY <1>0, <2>1, NeuFacts, DokumentFacts, Typen
    <3>3. \A j \in Ids : ResLeq(anfangs[m][j], basis[m].inhalt.res[j]) =>
                         ResLeq(anfangs[m][j], Neu(m, i).inhalt.res[j])
      BY <1>3, <3>2, ContainedRecord
    <3>4. ResLeq(anfangs[m][i], sidecar[i]) => ResLeq(anfangs[m][i], Neu(m, i).inhalt.res[i])
      <4>1. sidecar[i] \in Reservierung /\ Neu(m, i).inhalt.res[i] \in Reservierung
        BY <1>0, <2>1, <3>2, Typen DEF Content
      <4> QED
        BY <1>3, <2>1, <3>2, <4>1, ResLeqTransitive
    <3> QED
      BY <2>1, <2>3, <3>1, <3>3, <3>4 DEF LeseVon
  <2>5. CASE sidecar[i] = Keine /\ UNCHANGED basis
    <3>1. ResLeq(anfangs[m][i], sidecar[i]) => ResLeq(anfangs[m][i], basis[m].inhalt.res[i])
      BY <1>3, <2>1, <2>5, KeineLeast
    <3> QED
      BY <2>1, <2>3, <2>5, <3>1 DEF LeseVon
  <2>6. gestoert' # [gestoert EXCEPT ![m] = TRUE]
    BY <1>0 DEF TypeOK
  <2> QED
    BY <2>1, <2>4, <2>5, <2>6
<1>10. CASE LiesEnde(m)
  <2>1. /\ pc[m] = "fetch" /\ pc'[m] = "fertig" /\ offen[m] = {}
        /\ UNCHANGED <<haupt, sidecar, gemeldet, basis, anfangs, gestoert>>
    BY <1>0, <1>10, GotoType DEF LiesEnde
  <2> QED
    BY <1>2, <2>1 DEF LeseVon
<1> QED
  BY <1>5, <1>6, <1>7, <1>8, <1>9, <1>10

LEMMA LeseStep == IInv /\ [Next]_vars => LeseInv'
<1> SUFFICES ASSUME IInv, [Next]_vars, ~blind', NEW m \in Leser, ~gestoert'[m]
             PROVE  LeseVon(m)'
  BY DEF LeseInv
<1> USE SidecarConstantsOK DEF Machines, history
<1>0. TypeOK /\ ~blind /\ (~gestoert[m] => LeseVon(m))
  BY BlindBleibt DEF IInv, LeseInv
<1>1. ASSUME pc'[m] = pc[m], basis'[m] = basis[m], offen'[m] = offen[m],
             anfangs'[m] = anfangs[m], gestoert[m] => gestoert'[m]
      PROVE  LeseVon(m)'
  BY <1>0, <1>1, LeseRahmen
<1>2. ASSUME NEW i \in Ids, Registriere(i) \/ Uebernahme(i) PROVE LeseVon(m)'
  BY <1>1, <1>2 DEF Registriere, Uebernahme
<1>3. ASSUME NEW n \in Leser,
             \/ LiesBegin(n) \/ Antwort(n) \/ LiesHaupt(n) \/ LiesListe(n)
             \/ LiesSidecar(n) \/ LiesEnde(n) \/ Crash(n)
      PROVE  LeseVon(m)'
  <2>1. CASE n = m
    BY <1>3, <2>1, LeseSchritt
  <2>2. CASE n # m
    BY <1>0, <1>1, <1>3, <2>2, FremderSchritt
  <2> QED
    BY <2>1, <2>2
<1>4. ASSUME NEW n \in Schluss,
             \/ KonsBegin(n) \/ KonsStore(n) \/ KonsListe(n) \/ KonsRemove(n) \/ KonsEnde(n)
             \/ LiesHaupt(n) \/ LiesListe(n) \/ LiesSidecar(n) \/ LiesEnde(n) \/ Crash(n)
      PROVE  LeseVon(m)'
  <2>1. n # m
    OBVIOUS
  <2> QED
    BY <1>0, <1>1, <1>4, <2>1, FremderSchritt
<1>5. ASSUME LockBricht \/ UNCHANGED vars PROVE LeseVon(m)'
  BY <1>1, <1>5 DEF LockBricht, vars
<1> QED
  BY <1>2, <1>3, <1>4, <1>5 DEF Next

-----------------------------------------------------------------------------
\* The invariant holds in every reachable state.
THEOREM Invariance == Spec => []IInv
<1>1. Init => IInv
  BY InitInv
<1>2. IInv /\ [Next]_vars => IInv'
  BY TypeStep, SidecarStep, NieVerlorenStep, KonsStep, LeseStep DEF IInv
<1> QED
  BY <1>1, <1>2, PTL DEF Spec

\* "Records gehen nie verloren": a registration that returned ok is in the
\* document or in the sidecar of its owner, in every state of every number of
\* owners, readers and consolidators, outside the two exceptions the property
\* names (store_reservation_sidecar, konsolidiere).
THEOREM RecordsAreNeverLost == Spec => []RecordsNieVerloren
<1>1. IInv => RecordsNieVerloren
  BY DEF IInv
<1> QED
  BY <1>1, Invariance, PTL

\* The blind store at the end of konsolidiere takes nothing out of the
\* document, and nobody replaces one that was fetched and cannot be read.
THEOREM MainDocumentGrows == Spec => HauptWaechst
<1>1. IInv /\ [Next]_vars =>
        [~blind' => /\ ~haupt.lesbar => haupt' = haupt
                    /\ Contained(haupt.inhalt, haupt'.inhalt)
                    /\ haupt'.rev >= haupt.rev]_vars
  BY WachstumStep DEF Wachstum
<1> QED
  BY <1>1, Invariance, PTL DEF Spec, HauptWaechst

\* lade_mit_sidecars has what was registered before it started, unless a
\* sidecar was removed or skipped while it read.
THEOREM UndisturbedReading == Spec => []UngestoerteLesung
<1>1. IInv => UngestoerteLesung
  <2> SUFFICES ASSUME IInv, NEW m \in Machines, pc[m] = "fertig", ~gestoert[m], ~blind,
                      NEW i \in Ids
               PROVE  ResLeq(anfangs[m][i], basis[m].inhalt.res[i])
    BY DEF UngestoerteLesung
  <2>1. m \in Leser
    BY DEF IInv, KonsInv, Machines
  <2>2. LeseVon(m)
    BY <2>1 DEF IInv, LeseInv
  <2> QED
    BY <2>2 DEF LeseVon, InBasis
<1> QED
  BY <1>1, Invariance, PTL
=============================================================================
