----------------------- MODULE RegistrierungsSidecar -----------------------
(***************************************************************************)
(* Registration by sidecars (registrierungs_sidecar.hpp): an owner writes  *)
(* its reservations into a small object of its own, without a lock and     *)
(* without reading the document.  A reader unites the document with all    *)
(* sidecars; at the end of a build a consolidator, under the document      *)
(* lock, stores that union and removes the sidecars.                       *)
(*                                                                         *)
(* Each call on the object store is a step.  Every owner brings one        *)
(* reservation, so that an id also stands for its owner.  The lock is      *)
(* taken as exclusive here, which is what Bestandslog shows of it.         *)
(***************************************************************************)
EXTENDS BestandMerge

CONSTANTS
  Leser,     \* the processes that read the union
  Schluss,   \* the processes that consolidate
  Nobody,    \* holder of a free lock
  MaxRev,    \* bound: no consolidation or write starts at this revision
  MaxFehler  \* bound: calls that fail and processes that die

ASSUME SidecarConstantsOK ==
  /\ Nobody \notin Schluss
  /\ Leser \cap Schluss = {}
  /\ MaxRev \in Nat
  /\ MaxFehler \in Nat

Machines == Leser \cup Schluss

\* The main document: lesbar is FALSE for one that does not parse or has a
\* newer syntax.  A missing one is an empty one, as for its readers.
Dokument == [lesbar : BOOLEAN, rev : Nat, inhalt : Content]
Leer     == [lesbar |-> TRUE, rev |-> 0, inhalt |-> LeererInhalt]

VARIABLES
  haupt,     \* the main document
  sidecar,   \* per owner: the reservation in its sidecar, Keine: no object
  holder,    \* the holder of the document lock
  pc,        \* per machine: its next step
  basis,     \* per machine: the union it has built so far
  offen,     \* per machine: the sidecar keys of its listing still to visit
  gemeldet,  \* history: per owner the reservation whose registration was ok
  anfangs,   \* history: per machine what was registered when its reading began
  gestoert,  \* history: per machine whether a sidecar went or was skipped
             \* while it read
  verpasst,  \* history: the owners whose sidecar changed, or was skipped,
             \* behind the back of a consolidation
  blind,     \* history: a consolidation took the document for a missing one
  fehler     \* the failures so far

history == <<gemeldet, verpasst, blind>>
vars == <<haupt, sidecar, holder, pc, basis, offen, anfangs, gestoert, history, fehler>>

Steps == {"haupt", "liste", "fetch", "store", "liste2", "remove", "fertig"}
Present == {i \in Ids : sidecar[i] # Keine}

\* The type invariant; a process that consolidates holds the lock.
TypeOK ==
  /\ haupt \in Dokument
  /\ sidecar \in [Ids -> Reservierung]
  /\ holder \in Schluss \cup {Nobody}
  /\ pc \in [Machines -> Steps \cup {"idle"}]
  /\ basis \in [Machines -> Dokument]
  /\ offen \in [Machines -> SUBSET Ids]
  /\ gemeldet \in [Ids -> Reservierung]
  /\ anfangs \in [Machines -> [Ids -> Reservierung]]
  /\ gestoert \in [Machines -> BOOLEAN]
  /\ verpasst \subseteq Ids /\ blind \in BOOLEAN /\ fehler \in 0 .. MaxFehler
  /\ \A m \in Schluss : pc[m] # "idle" => holder = m

Init ==
  /\ haupt \in {Leer, [Leer EXCEPT !.lesbar = FALSE]}
  /\ sidecar = [i \in Ids |-> Keine]
  /\ holder = Nobody
  /\ pc = [m \in Machines |-> "idle"]
  /\ basis = [m \in Machines |-> Leer]
  /\ offen = [m \in Machines |-> {}]
  /\ gemeldet = [i \in Ids |-> Keine]
  /\ anfangs = [m \in Machines |-> gemeldet]
  /\ gestoert = [m \in Machines |-> FALSE]
  /\ verpasst = {} /\ blind = FALSE /\ fehler = 0

\* A call fails, or a process dies.
Fails == fehler < MaxFehler /\ fehler' = fehler + 1

\* The document of one reservation.
Einzeln(i, r) == [LeererInhalt EXCEPT !.res[i] = r]

\* The header of merge_documents: the revision rises with every merge.
Vereint(d, c) ==
  [lesbar |-> d.lesbar, rev |-> d.rev + 1, inhalt |-> merge_documents(d.inhalt, c)]

Goto(m, step) == pc' = [pc EXCEPT ![m] = step]

\* m is done: its locals go, and a consolidator gives the lock back.
Return(m) ==
  /\ Goto(m, "idle")
  /\ basis' = [basis EXCEPT ![m] = Leer]
  /\ offen' = [offen EXCEPT ![m] = {}]
  /\ anfangs' = [anfangs EXCEPT ![m] = [i \in Ids |-> Keine]]
  /\ gestoert' = [gestoert EXCEPT ![m] = FALSE]

-----------------------------------------------------------------------------
(***************************************************************************)
(* Owners and other writers                                                *)
(***************************************************************************)

\* A consolidation has read the sidecar of i, or does not know it, and will
\* remove what is there when it lists the prefix again.
ReadPast(i) ==
  \E m \in Schluss : \/ pc[m] = "fetch" /\ i \notin offen[m]
                     \/ pc[m] \in {"store", "liste2"}
                     \/ pc[m] = "remove" /\ i \in offen[m]

\* store_reservation_sidecar: one store over the own object, nothing else.  A
\* failed store may have taken effect.
Registriere(i) ==
  /\ \E s \in {"offen", "done"} :
       LET r == [status |-> s, eta |-> s = "done"]
       IN  /\ status_rank(s) > status_rank(gemeldet[i].status)
           /\ sidecar' = [sidecar EXCEPT ![i] = r]
           /\ \/ gemeldet' = [gemeldet EXCEPT ![i] = r] /\ UNCHANGED fehler
              \/ Fails /\ UNCHANGED gemeldet
  /\ verpasst' = IF ReadPast(i) THEN verpasst \cup {i} ELSE verpasst \ {i}
  /\ UNCHANGED <<haupt, holder, pc, basis, offen, anfangs, gestoert, blind>>

\* store_document_merged of another writer in a lock section of its own: a
\* take-over releases an open reservation.
Uebernahme(i) ==
  /\ holder = Nobody
  /\ haupt.rev < MaxRev
  /\ haupt.lesbar
  /\ haupt.inhalt.res[i].status = "offen"
  /\ haupt' = Vereint(haupt, Einzeln(i, [status |-> "released", eta |-> FALSE]))
  /\ UNCHANGED <<sidecar, holder, pc, basis, offen, anfangs, gestoert, history, fehler>>

-----------------------------------------------------------------------------
(***************************************************************************)
(* lade_mit_sidecars: the document first, then the listing, then each key  *)
(***************************************************************************)
LiesBegin(m) ==
  /\ pc[m] = "idle"
  /\ Goto(m, "haupt")
  /\ anfangs' = [anfangs EXCEPT ![m] =
                    [i \in Ids |-> IF i \in verpasst THEN Keine ELSE gemeldet[i]]]
  /\ UNCHANGED <<haupt, sidecar, holder, basis, offen, gestoert, history, fehler>>

\* Variant: the union starts from an empty document.
LiesHaupt_empty(m) ==
  /\ pc[m] = "haupt"
  /\ basis' = [basis EXCEPT ![m] = Leer]
  /\ Goto(m, "liste")
  /\ UNCHANGED <<haupt, sidecar, holder, offen, anfangs, gestoert, history, fehler>>

\* A document that cannot be read ends the reading and the consolidation; one
\* that cannot be fetched counts as missing.
LiesHaupt(m) ==
  /\ pc[m] = "haupt"
  /\ \/ /\ haupt.lesbar
        /\ basis' = [basis EXCEPT ![m] = haupt]
        /\ Goto(m, "liste")
        /\ UNCHANGED <<holder, offen, anfangs, gestoert, history, fehler>>
     \/ /\ ~haupt.lesbar
        /\ holder' = IF m \in Schluss THEN Nobody ELSE holder
        /\ Return(m)
        /\ UNCHANGED <<history, fehler>>
     \/ /\ Fails
        /\ basis' = [basis EXCEPT ![m] = Leer]
        /\ Goto(m, "liste")
        /\ gestoert' = [gestoert EXCEPT ![m] = TRUE]
        /\ blind' = (blind \/ m \in Schluss)
        /\ UNCHANGED <<holder, offen, anfangs, gemeldet, verpasst>>
  /\ UNCHANGED <<haupt, sidecar>>

LiesListe(m) ==
  /\ pc[m] = "liste"
  /\ offen' = [offen EXCEPT ![m] = Present]
  /\ Goto(m, "fetch")
  /\ UNCHANGED <<haupt, sidecar, holder, basis, anfangs, gestoert, history, fehler>>

\* Variant: every sidecar takes the place of what was read before it.
LiesSidecar_replace(m) ==
  /\ pc[m] = "fetch"
  /\ \E i \in offen[m] :
       /\ offen' = [offen EXCEPT ![m] = @ \ {i}]
       /\ basis' = [basis EXCEPT ![m] =
                      [@ EXCEPT !.rev = @ + 1, !.inhalt = Einzeln(i, sidecar[i])]]
  /\ UNCHANGED <<haupt, sidecar, holder, pc, anfangs, gestoert, history, fehler>>

\* A sidecar that is gone, cannot be fetched or has a newer syntax is skipped.
LiesSidecar(m) ==
  /\ pc[m] = "fetch"
  /\ \E i \in offen[m] :
       /\ offen' = [offen EXCEPT ![m] = @ \ {i}]
       /\ \/ /\ i \in Present
             /\ basis' = [basis EXCEPT ![m] = Vereint(@, Einzeln(i, sidecar[i]))]
             /\ verpasst' = IF m \in Schluss THEN verpasst \ {i} ELSE verpasst
             /\ UNCHANGED <<gestoert, fehler>>
          \/ /\ i \in Present /\ Fails
             /\ verpasst' = IF m \in Schluss THEN verpasst \cup {i} ELSE verpasst
             /\ gestoert' = [gestoert EXCEPT ![m] = TRUE]
             /\ UNCHANGED basis
          \/ /\ i \notin Present
             /\ UNCHANGED <<basis, verpasst, gestoert, fehler>>
  /\ UNCHANGED <<haupt, sidecar, holder, pc, anfangs, gemeldet, blind>>

LiesEnde(m) ==
  /\ pc[m] = "fetch"
  /\ offen[m] = {}
  /\ Goto(m, IF m \in Schluss THEN "store" ELSE "fertig")
  /\ UNCHANGED <<haupt, sidecar, holder, basis, offen, anfangs, gestoert, history, fehler>>

Antwort(m) ==
  /\ pc[m] = "fertig"
  /\ Return(m)
  /\ UNCHANGED <<haupt, sidecar, holder, history, fehler>>

-----------------------------------------------------------------------------
(***************************************************************************)
(* konsolidiere, inside mit_dokument_alleinschreiber                       *)
(***************************************************************************)
KonsBegin(m) ==
  /\ pc[m] = "idle"
  /\ holder = Nobody
  /\ haupt.rev < MaxRev
  /\ holder' = m
  /\ Goto(m, "haupt")
  /\ UNCHANGED <<haupt, sidecar, basis, offen, anfangs, gestoert, history, fehler>>

\* Variant: the result of the store is not looked at.
KonsStore_ignoreFailure(m) ==
  /\ pc[m] = "store"
  /\ haupt' \in {basis[m]} \cup (IF fehler < MaxFehler THEN {haupt} ELSE {})
  /\ Goto(m, "liste2")
  /\ UNCHANGED <<sidecar, holder, basis, offen, anfangs, gestoert, history, fehler>>

\* The union is stored as it is; a failed store ends the consolidation.
KonsStore(m) ==
  /\ pc[m] = "store"
  /\ \/ /\ haupt' = basis[m]
        /\ Goto(m, "liste2")
        /\ UNCHANGED <<holder, basis, offen, anfangs, gestoert, fehler>>
     \/ /\ Fails
        /\ haupt' \in {haupt, basis[m]}
        /\ holder' = Nobody
        /\ Return(m)
  /\ UNCHANGED <<sidecar, history>>

\* The prefix is listed a second time, and everything listed now is removed.
KonsListe(m) ==
  /\ pc[m] = "liste2"
  /\ offen' = [offen EXCEPT ![m] = Present]
  /\ Goto(m, "remove")
  /\ UNCHANGED <<haupt, sidecar, holder, basis, anfangs, gestoert, history, fehler>>

KonsRemove(m) ==
  /\ pc[m] = "remove"
  /\ \E i \in offen[m] :
       /\ offen' = [offen EXCEPT ![m] = @ \ {i}]
       /\ \/ /\ sidecar' = [sidecar EXCEPT ![i] = Keine]
             /\ gestoert' = [n \in Machines |-> gestoert[n] \/ (pc[n] # "idle" /\ n # m)]
             /\ UNCHANGED fehler
          \/ /\ Fails
             /\ UNCHANGED <<sidecar, gestoert>>
  /\ UNCHANGED <<haupt, holder, pc, basis, anfangs, history>>

KonsEnde(m) ==
  /\ pc[m] = "remove"
  /\ offen[m] = {}
  /\ holder' = Nobody
  /\ Return(m)
  /\ UNCHANGED <<haupt, sidecar, history, fehler>>

\* The process dies; a lock it holds stays behind.
Crash(m) ==
  /\ pc[m] # "idle"
  /\ Fails
  /\ Return(m)
  /\ UNCHANGED <<haupt, sidecar, holder, history>>

\* The ttl of a lock left behind has passed and the next machine breaks it.
LockBricht ==
  /\ holder \in Schluss
  /\ pc[holder] = "idle"
  /\ holder' = Nobody
  /\ UNCHANGED <<haupt, sidecar, pc, basis, offen, anfangs, gestoert, history, fehler>>

Next ==
  \/ \E i \in Ids : Registriere(i) \/ Uebernahme(i)
  \/ \E m \in Leser : LiesBegin(m) \/ Antwort(m)
  \/ \E m \in Schluss :
       KonsBegin(m) \/ KonsStore(m) \/ KonsListe(m) \/ KonsRemove(m) \/ KonsEnde(m)
  \/ \E m \in Machines :
       LiesHaupt(m) \/ LiesListe(m) \/ LiesSidecar(m) \/ LiesEnde(m) \/ Crash(m)
  \/ LockBricht

Spec == Init /\ [][Next]_vars

-----------------------------------------------------------------------------
(***************************************************************************)
(* Properties                                                              *)
(***************************************************************************)

\* "Records gehen nie verloren" (registrierungs_sidecar.hpp:248): a
\* registration that returned ok is in the main document or still in the
\* sidecar of its owner, at every step of a consolidation, also after a crash,
\* a failed store, or a removal that failed half way.  The exceptions are two:
\* a sidecar stored between its reading and the second listing, or skipped by
\* the reading, goes with the others; and a document that could not be fetched
\* is replaced.
RecordsNieVerloren ==
  ~blind => \A i \in Ids \ verpasst :
    ResLeq(gemeldet[i], haupt.inhalt.res[i]) \/ ResLeq(gemeldet[i], sidecar[i])

\* The blind store of the union never takes anything out of the main document:
\* neither a record consolidated earlier nor the write of another lock section,
\* and a document that was fetched and cannot be read stays as it is.
HauptWaechst ==
  [][~blind' => /\ ~haupt.lesbar => haupt' = haupt
                /\ Contained(haupt.inhalt, haupt'.inhalt)
                /\ haupt'.rev >= haupt.rev]_vars

\* A reader during whose reading no sidecar was removed or skipped has every
\* reservation that was in the store before it started, however many owners
\* registered while it read.
UngestoerteLesung ==
  \A m \in Machines : pc[m] = "fertig" /\ ~gestoert[m] /\ ~blind =>
    \A i \in Ids : ResLeq(anfangs[m][i], basis[m].inhalt.res[i])
=============================================================================
