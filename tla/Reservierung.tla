---------------------------- MODULE Reservierung ----------------------------
(***************************************************************************)
(* Reservations and their takeover (reservation_lifecycle.hpp, the sweep   *)
(* of builder_registration.hpp, run_planer_driven_provision and the head   *)
(* of run_lazy_static_then_dynamic, run_with_planer_block).                *)
(*                                                                         *)
(* A provisioning run sweeps the claims of dead machines when it starts,   *)
(* then claims each window from the resume point of its phase counter on,  *)
(* builds what the Bestand lacks and books the claim as done.  A planner   *)
(* claims the stretch of a CEB compile in the same document.  Claims never *)
(* hold a build back: they tell others who does the work, and whoever ends *)
(* one answers for it.                                                     *)
(*                                                                         *)
(* The document is the union store that Bestandslog implements: each write *)
(* is one merge, a reported one has taken effect, an unreported one may    *)
(* have.  Each process has an owner_uuid of its own, so that an id is the  *)
(* process and the number of its claim; slice_seq starts at zero wherever  *)
(* the run resumes.                                                        *)
(***************************************************************************)
EXTENDS BestandMerge, Sequences, FiniteSets

CONSTANTS
  Laeufe,     \* provisioning runs
  Planer,     \* planner processes that claim a planer_block
  Fach,       \* the windows of each run: sequences of sets of view indices
  Resume,     \* bound: how many windows a phase counter may have counted
  ProForma,   \* kProFormaMinutes
  Worker,     \* effective_build_workers: the points a calibration needs
  EtaWerte,   \* bound: the values rest_projektion may yield
  MaxZeit,    \* bound: the clock
  MaxFehler   \* bound: calls to the store that fail

TierIds  == UNION {{<<l, k>> : k \in DOMAIN Fach[l]} : l \in Laeufe}
BlockIds == {<<p, 0>> : p \in Planer}
Faecher  == UNION {{Fach[l][k] : k \in DOMAIN Fach[l]} : l \in Laeufe}

ASSUME ReservierungConstantsOK ==
  /\ Laeufe \cap Planer = {}
  /\ Ids = TierIds \cup BlockIds
  /\ Cells \subseteq Nat
  /\ \A l \in Laeufe : Fach[l] \in Seq(SUBSET Cells)
  /\ \A f \in Faecher : \E a, b \in f : \A x \in f : a <= x /\ x <= b
  /\ MaxUtc = 1
  /\ Resume \subseteq Nat
  /\ ProForma \in Nat /\ Worker \in Nat \ {0}
  /\ EtaWerte \subseteq Nat \ {0}
  /\ MaxZeit \in Nat /\ MaxFehler \in Nat

VARIABLES
  \* the document
  inhalt,    \* its records
  von,       \* per id: reserviert_utc
  eta,       \* per id: the value of eta_s in an open record that has one
  zeit,      \* the clock
  fehler,    \* how many calls have failed
  \* the process
  pc,        \* "aus", "urteil", "freigabe", "beleg", "fenster",
             \* "bau", "ende", "abbruch" or "tot"
  lager,     \* LagerRunState::lager_, the Bestand as loaded
  lokal,     \* the reservations of the sweep's local document
  ab,        \* the windows before the resume point of its phase counter
  fach,      \* the claim being worked on (slice_seq + 1)
  offen,     \* its atoms the build pool has not finished
  punkte,    \* SliceEtaKanal::kal: points of this window, up to Worker
  meldung,   \* its ETA: "keine" yet, "unterwegs" to the document, "fertig"
  erledigt,  \* the atoms it has finished in this and in earlier windows
  \* history
  genommen,  \* per run: the foreign claims it may have released
  gemeldet,  \* per run: the claims it reported as taken over
  verfehlt   \* the ids whose closing record was not reported as stored

dokument == <<inhalt, von, eta>>
sweep    == <<lokal, genommen, gemeldet>>
bau      == <<offen, punkte, meldung, erledigt>>
vars     == <<inhalt, von, eta, zeit, fehler, pc, lager, lokal, ab, fach,
              offen, punkte, meldung, erledigt, genommen, gemeldet, verfehlt>>

Prozesse == Laeufe \cup Planer
Schritte == {"aus", "urteil", "freigabe", "beleg", "fenster", "bau",
             "ende", "abbruch", "tot"}
Zeiten   == 0 .. MaxZeit

\* The type invariant.
TypeOK ==
  /\ inhalt \in Content
  /\ von \in [Ids -> Zeiten] /\ eta \in [Ids -> {0} \cup EtaWerte]
  /\ zeit \in Zeiten /\ fehler \in 0 .. MaxFehler
  /\ pc \in [Prozesse -> Schritte]
  /\ lager \in [Laeufe -> SUBSET Cells]
  /\ lokal \in [Laeufe -> [Ids -> Reservierung]]
  /\ ab \in [Laeufe -> Nat]
  /\ fach \in [Laeufe -> Nat \ {0}]
  /\ offen \in [Laeufe -> SUBSET Cells]
  /\ punkte \in [Laeufe -> 0 .. Worker]
  /\ meldung \in [Laeufe -> {"keine", "unterwegs", "fertig"}]
  /\ erledigt \in [Laeufe -> SUBSET Cells]
  /\ genommen \in [Laeufe -> SUBSET Ids]
  /\ gemeldet \in [Laeufe -> SUBSET Ids]
  /\ verfehlt \subseteq Ids

OhneRes == [i \in Ids |-> Keine]

\* The planner of the slices reads the phase counter and hands out the windows
\* from its resume point on: none before it when the counter is missing,
\* unreadable or of another plan, all when the counter is complete.
Init ==
  /\ inhalt = LeererInhalt
  /\ von = [i \in Ids |-> 0] /\ eta = [i \in Ids |-> 0] /\ zeit = 0 /\ fehler = 0
  /\ pc = [p \in Prozesse |-> "aus"]
  /\ lager = [l \in Laeufe |-> {}]
  /\ lokal = [l \in Laeufe |-> OhneRes]
  /\ ab \in [Laeufe -> Resume] /\ \A l \in Laeufe : ab[l] <= Len(Fach[l])
  /\ fach = [l \in Laeufe |-> 1]
  /\ offen = [l \in Laeufe |-> {}]
  /\ punkte = [l \in Laeufe |-> 0]
  /\ meldung = [l \in Laeufe |-> "keine"]
  /\ erledigt = [l \in Laeufe |-> {}]
  /\ genommen = [l \in Laeufe |-> {}]
  /\ gemeldet = [l \in Laeufe |-> {}]
  /\ verfehlt = {}

-----------------------------------------------------------------------------
(***************************************************************************)
(* Records and writes                                                      *)
(***************************************************************************)
Goto(p, step) == pc' = [pc EXCEPT ![p] = step]

\* The records of a process: the pro-forma claim, the one with its ETA, the
\* two closing ones.  The release of the PromiseGuard is a copy of the claim.
Offen      == [status |-> "offen",    eta |-> FALSE]
Kalibriert == [status |-> "offen",    eta |-> TRUE]
Done       == [status |-> "done",     eta |-> TRUE]
Released   == [status |-> "released", eta |-> FALSE]

Eines(i, r)   == [res     |-> [OhneRes EXCEPT ![i] = r],
                  bestand |-> [c \in Cells |-> 0]]
Bestand(s)    == [res     |-> OhneRes,
                  bestand |-> [c \in Cells |-> IF c \in s THEN 1 ELSE 0]]
Im(inh)       == {c \in Cells : inh.bestand[c] = 1}

\* A call to the store that fails.
Fehler == fehler < MaxFehler /\ fehler' = fehler + 1

\* A locked write of the document j that is reported as stored, and one that
\* is not.
Schreibt(j)      == inhalt' = merge_documents(inhalt, j) /\ UNCHANGED fehler
Schreibfehler(j) == Fehler /\ inhalt' \in {inhalt, merge_documents(inhalt, j)}

\* The process p is gone with what it kept in memory.
Vergisst(p) ==
  /\ lager'    = [l \in Laeufe |-> IF l = p THEN {} ELSE lager[l]]
  /\ lokal'    = [l \in Laeufe |-> IF l = p THEN OhneRes ELSE lokal[l]]
  /\ offen'    = [l \in Laeufe |-> IF l = p THEN {} ELSE offen[l]]
  /\ punkte'   = [l \in Laeufe |-> IF l = p THEN 0 ELSE punkte[l]]
  /\ meldung'  = [l \in Laeufe |-> IF l = p THEN "keine" ELSE meldung[l]]
  /\ erledigt' = [l \in Laeufe |-> IF l = p THEN {} ELSE erledigt[l]]
  /\ genommen' = [l \in Laeufe |-> IF l = p THEN {} ELSE genommen[l]]
  /\ gemeldet' = [l \in Laeufe |-> IF l = p THEN {} ELSE gemeldet[l]]

\* A closing record, and whether it is known to be in the document.
Schliesst(i, r) ==
  \/ Schreibt(Eines(i, r)) /\ UNCHANGED verfehlt
  \/ Schreibfehler(Eines(i, r)) /\ verfehlt' = verfehlt \cup {i}

-----------------------------------------------------------------------------
(***************************************************************************)
(* The sweep at the start of a run                                         *)
(***************************************************************************)

\* LagerRunState::load: the Bestand, or nothing when it cannot be read.
LaufStart(l) ==
  /\ pc[l] = "aus"
  /\ \/ lager' = [lager EXCEPT ![l] = Im(inhalt)] /\ UNCHANGED fehler
     \/ Fehler /\ UNCHANGED lager
  /\ Goto(l, "urteil")
  /\ UNCHANGED <<ab, dokument, zeit, sweep, fach, bau, verfehlt>>

\* The interval that contains the window.
slice_window_bounds(f) ==
  LET min == CHOOSE x \in f : \A y \in f : x <= y
      max == CHOOSE x \in f : \A y \in f : x >= y
  IN  [begin |-> min, count |-> max - min + 1]

Auswahl(l) == UNION {Fach[l][k] : k \in DOMAIN Fach[l]}

\* Mutant: the selection is taken for the interval it spans.
scope_covers_slice_span(l, b) ==
  /\ \E c \in Auswahl(l) : c <= b.begin
  /\ \E c \in Auswahl(l) : c >= b.begin + b.count - 1

\* The selection of the run, also where its counter skips it, contains the
\* whole interval.
scope_covers_slice(l, b) ==
  Cardinality({c \in Auswahl(l) : b.begin <= c /\ c < b.begin + b.count}) = b.count

\* With an ETA half of it again has passed since the reservation, without
\* one the pro-forma time is over.
is_reservation_takeable(i, r) ==
  /\ r.status = "offen"
  /\ IF r.eta THEN 2 * (zeit - von[i]) > 3 * eta[i]
              ELSE zeit > von[i] + ProForma

\* The window behind the claim i, whose owner may have skipped some.
FachNr(i)  == ab[i[1]] + i[2]
FachVon(i) == Fach[i[1]][FachNr(i)]

\* The expired foreign claims whose work lies in the selection of this run.
collect_takeable_reservations(l) ==
  {i \in TierIds : /\ i[1] # l
                   /\ is_reservation_takeable(i, inhalt.res[i])
                   /\ scope_covers_slice(l, slice_window_bounds(FachVon(i)))}

\* takeover_expired_reservations fetches the document without the lock and
\* judges what it read: the candidates become the local document, as released.
SweepUrteil(l) ==
  /\ pc[l] = "urteil"
  /\ \/ LET kandidaten == collect_takeable_reservations(l)
        IN  /\ lokal' = [lokal EXCEPT ![l] =
                 [i \in Ids |-> IF i \in kandidaten
                                THEN [inhalt.res[i] EXCEPT !.status = "released"]
                                ELSE Keine]]
            /\ Goto(l, IF kandidaten = {} THEN "fenster" ELSE "freigabe")
            /\ UNCHANGED fehler
     \/ Fehler /\ Goto(l, "fenster") /\ UNCHANGED lokal
  /\ UNCHANGED <<ab, dokument, zeit, lager, fach, genommen, gemeldet, bau,
                 verfehlt>>

Kandidaten(l) == {i \in Ids : lokal[l][i] # Keine}

\* The locked write of the release.  Nothing is reported when it fails.
SweepFreigabe(l) ==
  /\ pc[l] = "freigabe"
  /\ LET j == [Bestand({}) EXCEPT !.res = lokal[l]]
     IN  \/ Schreibt(j) /\ Goto(l, "beleg") /\ UNCHANGED lokal
         \/ /\ Schreibfehler(j)
            /\ Goto(l, "fenster")
            /\ lokal' = [lokal EXCEPT ![l] = OhneRes]
  /\ genommen' = [genommen EXCEPT ![l] = Kandidaten(l)]
  /\ UNCHANGED <<ab, von, eta, zeit, lager, fach, gemeldet, bau, verfehlt>>

\* Mutant: the candidates are reported without looking again.
SweepBeleg_blind(l) ==
  /\ pc[l] = "beleg"
  /\ gemeldet' = [gemeldet EXCEPT ![l] = Kandidaten(l)]
  /\ lokal' = [lokal EXCEPT ![l] = OhneRes]
  /\ Goto(l, "fenster")
  /\ UNCHANGED <<ab, dokument, zeit, fehler, lager, fach, genommen, bau, verfehlt>>

\* The document is read back: only what is released there was taken over.
SweepBeleg(l) ==
  /\ pc[l] = "beleg"
  /\ \/ /\ gemeldet' = [gemeldet EXCEPT ![l] =
              {i \in Kandidaten(l) : inhalt.res[i].status = "released"}]
        /\ UNCHANGED fehler
     \/ Fehler /\ UNCHANGED gemeldet
  /\ lokal' = [lokal EXCEPT ![l] = OhneRes]
  /\ Goto(l, "fenster")
  /\ UNCHANGED <<ab, dokument, zeit, lager, fach, genommen, bau, verfehlt>>

-----------------------------------------------------------------------------
(***************************************************************************)
(* A window: claim, build, ETA, done                                       *)
(***************************************************************************)
Id(l) == <<l, fach[l]>>
Nr(l) == ab[l] + fach[l]

\* The window is over: its ETA channel is inactive.
Kanalende(l) == /\ offen'   = [offen EXCEPT ![l] = {}]
                /\ punkte'  = [punkte EXCEPT ![l] = 0]
                /\ meldung' = [meldung EXCEPT ![l] = "keine"]

\* The claim is written (or not: the build goes on), the build filter leaves
\* what the Bestand lacks, the ETA channel starts over.
FensterBeginn(l) ==
  /\ pc[l] = "fenster"
  /\ Nr(l) \in DOMAIN Fach[l]
  /\ von' = [von EXCEPT ![Id(l)] = zeit]
  /\ Schreibt(Eines(Id(l), Offen)) \/ Schreibfehler(Eines(Id(l), Offen))
  /\ offen' = [offen EXCEPT ![l] = Fach[l][Nr(l)] \ lager[l]]
  /\ Goto(l, "bau")
  /\ UNCHANGED <<ab, eta, zeit, lager, sweep, fach, punkte, meldung,
                 erledigt, verfehlt>>

\* The binary a is finished: skipped, built or failed.
AtomFertig(l, a) ==
  /\ pc[l] = "bau" /\ a \in offen[l]
  /\ offen' = [offen EXCEPT ![l] = @ \ {a}]
  /\ erledigt' = [erledigt EXCEPT ![l] = @ \cup {a}]

AtomUebersprungen(l, a) ==
  /\ AtomFertig(l, a)
  /\ UNCHANGED <<ab, dokument, zeit, fehler, pc, lager, sweep, fach, punkte,
                 meldung, verfehlt>>

\* A compile is a point for the ETA.  With as many points as workers the rest
\* projection counts, and the first one is on its way to the document.
AtomKompiliert(l, a) ==
  /\ AtomFertig(l, a)
  /\ punkte' = [punkte EXCEPT ![l] = IF @ < Worker THEN @ + 1 ELSE @]
  /\ IF meldung[l] = "keine" /\ punkte'[l] = Worker /\ offen'[l] # {}
     THEN /\ \E e \in EtaWerte : eta' = [eta EXCEPT ![Id(l)] = e]
          /\ meldung' = [meldung EXCEPT ![l] = "unterwegs"]
     ELSE UNCHANGED <<eta, meldung>>
  /\ UNCHANGED <<ab, inhalt, von, zeit, fehler, pc, lager, sweep, fach, verfehlt>>

\* The worker writes the ETA outside the mutex, the others go on.
EtaSchrieb(l) ==
  /\ pc[l] = "bau" /\ meldung[l] = "unterwegs"
  /\ \/ Schreibt(Eines(Id(l), Kalibriert))
     \/ Schreibfehler(Eines(Id(l), Kalibriert))
  /\ meldung' = [meldung EXCEPT ![l] = "fertig"]
  /\ UNCHANGED <<ab, von, eta, zeit, pc, lager, sweep, fach, offen, punkte,
                 erledigt, verfehlt>>

\* The pool has joined: every worker is back, also the one with the ETA.
FensterDone(l) ==
  /\ pc[l] = "bau" /\ offen[l] = {} /\ meldung[l] # "unterwegs"
  /\ Schliesst(Id(l), Done)
  /\ fach' = [fach EXCEPT ![l] = @ + 1]
  /\ Goto(l, "fenster")
  /\ Kanalende(l)
  /\ UNCHANGED <<ab, von, eta, zeit, lager, sweep, erledigt>>

\* The build throws: the PromiseGuard releases the claim on the way out.
FensterAbbruch(l) ==
  /\ pc[l] = "bau" /\ meldung[l] # "unterwegs"
  /\ Schliesst(Id(l), Released)
  /\ Goto(l, "abbruch")
  /\ Vergisst(l)
  /\ UNCHANGED <<ab, von, eta, zeit, fach>>

\* All windows from the resume point on are through: the fresh binaries, those
\* among the finished that compiled and have a key, are registered.
LaufEnde(l) ==
  /\ pc[l] = "fenster"
  /\ Nr(l) \notin DOMAIN Fach[l]
  /\ \E fresh \in SUBSET (erledigt[l] \ lager[l]) :
       Schreibt(Bestand(fresh)) \/ Schreibfehler(Bestand(fresh))
  /\ Goto(l, "ende")
  /\ UNCHANGED <<ab, von, eta, zeit, lager, sweep, fach, offen, punkte, meldung,
                 erledigt, verfehlt>>

-----------------------------------------------------------------------------
(***************************************************************************)
(* The planner, crashes and the clock                                      *)
(***************************************************************************)
BlockBeginn(p) ==
  /\ pc[p] = "aus"
  /\ von' = [von EXCEPT ![<<p, 0>>] = zeit]
  /\ Schreibt(Eines(<<p, 0>>, Offen)) \/ Schreibfehler(Eines(<<p, 0>>, Offen))
  /\ Goto(p, "bau")
  /\ UNCHANGED <<ab, eta, zeit, lager, sweep, fach, bau, verfehlt>>

\* The emission returns 0 and the block is done, or it fails or throws and
\* the guard releases it.
BlockEnde(p) ==
  /\ pc[p] = "bau"
  /\ \/ Schliesst(<<p, 0>>, [Done EXCEPT !.eta = FALSE]) /\ Goto(p, "ende")
     \/ Schliesst(<<p, 0>>, Released) /\ Goto(p, "abbruch")
  /\ UNCHANGED <<ab, von, eta, zeit, lager, sweep, fach, bau>>

Absturz(p) ==
  /\ pc[p] \notin {"aus", "ende", "abbruch", "tot"}
  /\ Goto(p, "tot")
  /\ Vergisst(p)
  /\ UNCHANGED <<ab, dokument, zeit, fehler, fach, verfehlt>>

Tick ==
  /\ zeit < MaxZeit
  /\ zeit' = zeit + 1
  /\ UNCHANGED <<ab, dokument, fehler, pc, lager, sweep, fach, bau, verfehlt>>

Sweep(l)   == \/ LaufStart(l) \/ SweepUrteil(l)
              \/ SweepFreigabe(l) \/ SweepBeleg(l)
Fenster(l) == \/ FensterBeginn(l) \/ EtaSchrieb(l) \/ FensterDone(l)
              \/ FensterAbbruch(l) \/ LaufEnde(l)
              \/ \E a \in Cells : AtomUebersprungen(l, a) \/ AtomKompiliert(l, a)

Next == \/ \E l \in Laeufe : Sweep(l) \/ Fenster(l)
        \/ \E p \in Planer : BlockBeginn(p) \/ BlockEnde(p)
        \/ \E p \in Prozesse : Absturz(p)
        \/ Tick

Spec == Init /\ [][Next]_vars

-----------------------------------------------------------------------------
(***************************************************************************)
(* Properties                                                              *)
(***************************************************************************)

\* The windows that a run never reaches, because its counter has them: they
\* were built here, or are registered (CounterCoversBuilds of BauProofs).
Gezaehlt(l) == UNION {Fach[l][k] : k \in {n \in DOMAIN Fach[l] : n <= ab[l]}}

\* Whoever ends a foreign claim answers for its window: once such a run has
\* come to its end, every binary of the window, gaps or not, was in the Bestand
\* it loaded, went through its build pool or lies in a window that its own
\* counter had counted.  That is less than builder_registration.hpp:277 says,
\* "Wer die Arbeit nicht uebernehmen kann, enteignet nicht": a run that resumes
\* takes claims whose binaries it then passes over.
WerEnteignetStehtEin ==
  \A l \in Laeufe : pc[l] = "ende" =>
    \A i \in genommen[l] :
      /\ i \in TierIds
      /\ FachVon(i) \subseteq lager[l] \cup erledigt[l] \cup Gezaehlt(l)

\* The claims whose owner knows them to be booked as done.
Gebucht == {i \in TierIds : i[2] < fach[i[1]]} \ verfehlt

\* A takeover is reported only when it is one: at that moment the owner had
\* not booked the window as done, however its booking and the release of the
\* sweep interleaved (builder_registration.hpp:453).
UebernahmeBelegt ==
  [][\A l \in Laeufe : (gemeldet'[l] \ gemeldet[l]) \cap Gebucht = {}]_vars

\* An owner's closing word stands.  A process that came to its end, also one
\* whose claims were taken away meanwhile, leaves them done; one that gave up
\* leaves none open; unless the write itself failed.
BuchTreu ==
  /\ \A i \in Gebucht : inhalt.res[i].status = "done"
  /\ \A i \in Ids \ verfehlt :
       pc[i[1]] \in {"ende", "abbruch"} => inhalt.res[i].status # "offen"

=============================================================================
