------------------------------ MODULE BauLauf ------------------------------
(***************************************************************************)
(* The provisioning run (cache_engine_builder_iterator.hpp, provision_only *)
(* with the Bestandslog, a push channel and a plan file): what survives    *)
(* from one run to the next, and what each run may conclude from it.       *)
(*                                                                         *)
(* A run loads the Bestand, and a planner thread cuts its selection into   *)
(* windows and streams those that the phase counter does not cover.  The   *)
(* run builds of each window what the Bestand lacks while the push pump    *)
(* uploads, closes the window in the counter, and at its end registers the *)
(* fresh binaries.  It may crash anywhere.  Selection, grain and build     *)
(* identity are those of the run before, so that the stamp of the counter  *)
(* fits.                                                                   *)
(*                                                                         *)
(* The document is the union store that Bestandslog implements; the build  *)
(* pool and the pump are here at the granularity of one binary.            *)
(***************************************************************************)
EXTENDS Integers, Sequences, FiniteSets

CONSTANTS
  N,          \* the selection: atoms 1 .. N
  Korn,       \* the window size (plan_slice_korn)
  MaxLaeufe,  \* bound: runs
  Faults      \* what may fail: "laden", "bau", "push", "zaehler", "flush"

ASSUME BauLaufConstantsOK ==
  /\ N \in Nat /\ Korn \in Nat \ {0} /\ MaxLaeufe \in Nat
  /\ Faults \subseteq {"laden", "bau", "push", "zaehler", "flush"}

Atome   == 1 .. N
Faecher == (N + Korn - 1) \div Korn

\* The atoms in front of window f + 1, window f, and a prefix of the plan.
Front(f)    == IF f * Korn < N THEN f * Korn ELSE N
Fach(f)     == Front(f - 1) + 1 .. Front(f)
Praefix(n)  == 1 .. n

Aus == 0    \* the value of inflight for a pump at rest

VARIABLES
  \* what survives a run
  store,      \* the atoms whose artifact is complete in the object store
  lokal,      \* the atoms with a local binary of the expected fingerprint
  bestand,    \* the atoms with an entry in the Bestandslog document
  zaehler,    \* the persisted phase counter: kompiliert
  \* the run
  laeufe,     \* runs started so far
  pc,         \* "aus", "fenster", "bau", "vollzug", "schluss", "flush"
  lager,      \* LagerRunState::lager_, the Bestand as loaded
  fresh,      \* LagerRunState::fresh_, the entries to register
  fach,       \* the window taken last, 0 before the first one
  offen,      \* its atoms the build pool has not finished
  bauFehl,    \* its slice_stats.failed # 0
  kompiliert, \* plan_kompiliert
  intakt,     \* plan_praefix_intakt
  \* the planner thread
  pcPlan,     \* "aus", "plant", "meldet", "strom", "fertig" (queue closed)
  ab,         \* the windows it skips
  gestreamt,  \* the window it has pushed last
  planqueue,  \* SlicePlanQueue::q_
  resume,     \* resume_atome_
  \* the push pump
  queue,      \* binaries waiting
  inflight,   \* the binary being pushed
  failed      \* the binaries whose push threw

platte == <<store, lokal, bestand, zaehler>>
pumpe  == <<queue, inflight, failed>>
planer == <<pcPlan, ab, gestreamt, planqueue, resume>>
lauf   == <<laeufe, pc, lager, fresh, fach, offen, bauFehl, kompiliert, intakt>>
vars   == <<platte, lauf, planer, pumpe>>

\* The type invariant.
TypeOK ==
  /\ store \subseteq Atome /\ lokal \subseteq Atome /\ bestand \subseteq Atome
  /\ zaehler \in 0 .. N
  /\ laeufe \in 0 .. MaxLaeufe
  /\ pc \in {"aus", "fenster", "bau", "vollzug", "schluss", "flush"}
  /\ lager \subseteq Atome /\ fresh \subseteq Atome
  /\ fach \in 0 .. Faecher
  /\ offen \subseteq Atome
  /\ bauFehl \in BOOLEAN /\ intakt \in BOOLEAN
  /\ kompiliert \in 0 .. N
  /\ pcPlan \in {"aus", "plant", "meldet", "strom", "fertig"}
  /\ ab \in 0 .. Faecher /\ gestreamt \in 0 .. Faecher
  /\ planqueue \in Seq(1 .. Faecher)
  /\ resume \in 0 .. N
  /\ queue \in Seq(Atome)
  /\ inflight \in Atome \cup {Aus}
  /\ failed \subseteq Atome

\* The values of the run's variables while no run is under way.
Ruhe ==
  /\ pc' = "aus"
  /\ lager' = {} /\ fresh' = {} /\ offen' = {}
  /\ fach' = 0 /\ kompiliert' = 0
  /\ bauFehl' = FALSE /\ intakt' = TRUE
  /\ pcPlan' = "aus" /\ ab' = 0 /\ gestreamt' = 0 /\ planqueue' = <<>> /\ resume' = 0
  /\ queue' = <<>> /\ inflight' = Aus /\ failed' = {}

Init ==
  /\ store = {} /\ lokal = {} /\ bestand = {} /\ zaehler = 0
  /\ laeufe = 0 /\ pc = "aus"
  /\ lager = {} /\ fresh = {} /\ offen = {}
  /\ fach = 0 /\ kompiliert = 0
  /\ bauFehl = FALSE /\ intakt = TRUE
  /\ pcPlan = "aus" /\ ab = 0 /\ gestreamt = 0 /\ planqueue = <<>> /\ resume = 0
  /\ queue = <<>> /\ inflight = Aus /\ failed = {}

Fails(what) == what \in Faults

-----------------------------------------------------------------------------
(***************************************************************************)
(* The start of a run and its planner                                      *)
(***************************************************************************)

\* cache_pull fetches any part of the store, LagerRunState::load the document
\* or nothing; the constructor of SlicePlanner starts its thread.
LaufStart ==
  /\ pc = "aus"
  /\ laeufe < MaxLaeufe
  /\ laeufe' = laeufe + 1
  /\ \E gezogen \in SUBSET store : lokal' = lokal \cup gezogen
  /\ lager' \in {bestand} \cup (IF Fails("laden") THEN {{}} ELSE {})
  /\ pc' = "fenster"
  /\ pcPlan' = "plant"
  /\ UNCHANGED <<store, bestand, zaehler, fresh, fach, offen, bauFehl, kompiliert,
                 intakt, ab, gestreamt, planqueue, resume, pumpe>>

\* plan_resume_faecher: the leading windows that the counter z covers whole.
plan_resume_faecher(z) ==
  CHOOSE f \in 0 .. Faecher :
    /\ Front(f) <= z
    /\ \A g \in 0 .. Faecher : Front(g) <= z => g <= f

\* The whole plan is made and the counter read; one that cannot be read covers
\* nothing.
PlanLiest ==
  /\ pcPlan = "plant"
  /\ ab' \in {plan_resume_faecher(zaehler)} \cup (IF Fails("zaehler") THEN {0} ELSE {})
  /\ gestreamt' = ab'
  /\ pcPlan' = "meldet"
  /\ UNCHANGED <<platte, lauf, planqueue, resume, pumpe>>

\* The values the builder will ask for are set ...
PlanMeldet ==
  /\ pcPlan = "meldet"
  /\ resume' = Front(ab)
  /\ pcPlan' = "strom"
  /\ UNCHANGED <<platte, lauf, ab, gestreamt, planqueue, pumpe>>

\* Mutant: the stream does not wait for them.
PlanSchiebt_vorMeldung ==
  /\ pcPlan \in {"meldet", "strom"}
  /\ gestreamt < Faecher
  /\ gestreamt' = gestreamt + 1
  /\ planqueue' = Append(planqueue, gestreamt + 1)
  /\ UNCHANGED <<platte, lauf, pcPlan, ab, resume, pumpe>>

\* ... before the first of the remaining windows is pushed.
PlanSchiebt ==
  /\ pcPlan = "strom"
  /\ gestreamt < Faecher
  /\ gestreamt' = gestreamt + 1
  /\ planqueue' = Append(planqueue, gestreamt + 1)
  /\ UNCHANGED <<platte, lauf, pcPlan, ab, resume, pumpe>>

\* SlicePlanQueue::close.
PlanEnde ==
  /\ pcPlan = "strom"
  /\ gestreamt = Faecher
  /\ pcPlan' = "fertig"
  /\ UNCHANGED <<platte, lauf, ab, gestreamt, planqueue, resume, pumpe>>

\* pop waits for a window.  With the first one the builder reads where its
\* counting starts (lies_plan_werte); filter_window_for_build leaves what the
\* Bestand lacks.
FensterBeginn ==
  /\ pc = "fenster"
  /\ planqueue # <<>>
  /\ fach' = Head(planqueue)
  /\ planqueue' = Tail(planqueue)
  /\ kompiliert' = IF fach = 0 THEN resume ELSE kompiliert
  /\ offen' = Fach(fach') \ lager
  /\ bauFehl' = FALSE
  /\ pc' = "bau"
  /\ UNCHANGED <<platte, laeufe, lager, fresh, intakt, pcPlan, ab, gestreamt, resume,
                 pumpe>>

-----------------------------------------------------------------------------
(***************************************************************************)
(* The build pool: binaries finish in any order, each by one worker that   *)
(* runs the completion hook                                                *)
(***************************************************************************)

\* dll_is_current: the binary is skipped, and the hook does nothing with it.
AtomUebersprungen(a) ==
  /\ pc = "bau" /\ a \in offen
  /\ a \in lokal
  /\ offen' = offen \ {a}
  /\ UNCHANGED <<platte, laeufe, pc, lager, fresh, fach, bauFehl, kompiliert,
                 intakt, planer, pumpe>>

\* LagerRunState::observe for a fresh binary; without a key (the second value)
\* nothing is noted, and an entry the loaded Bestand has is only a hit.
observe(a) == {IF a \in lager THEN fresh ELSE fresh \cup {a}, fresh}

\* A fresh binary: its sidecar makes it current, the hook feeds the pump and
\* notes it for registration.
AtomGebaut(a) ==
  /\ pc = "bau" /\ a \in offen
  /\ a \notin lokal
  /\ lokal' = lokal \cup {a}
  /\ queue' = Append(queue, a)
  /\ fresh' \in observe(a)
  /\ offen' = offen \ {a}
  /\ UNCHANGED <<store, bestand, zaehler, laeufe, pc, lager, fach, bauFehl,
                 kompiliert, intakt, planer, inflight, failed>>

\* All attempts to build the binary failed.
AtomGescheitert(a) ==
  /\ pc = "bau" /\ a \in offen
  /\ a \notin lokal
  /\ Fails("bau")
  /\ bauFehl' = TRUE
  /\ offen' = offen \ {a}
  /\ UNCHANGED <<platte, laeufe, pc, lager, fresh, fach, kompiliert, intakt,
                 planer, pumpe>>

\* The pool has joined.
FensterGebaut ==
  /\ pc = "bau"
  /\ offen = {}
  /\ pc' = "vollzug"
  /\ UNCHANGED <<platte, laeufe, lager, fresh, fach, offen, bauFehl,
                 kompiliert, intakt, planer, pumpe>>

-----------------------------------------------------------------------------
(***************************************************************************)
(* The push thread                                                         *)
(***************************************************************************)

PumpeNimmt ==
  /\ inflight = Aus
  /\ queue # <<>>
  /\ inflight' = Head(queue)
  /\ queue' = Tail(queue)
  /\ UNCHANGED <<platte, lauf, planer, failed>>

\* push_tier_binary: the version sidecar is uploaded last, so that the
\* artifact is complete exactly when the push returns.
PushGelingt ==
  /\ inflight # Aus
  /\ store' = store \cup {inflight}
  /\ inflight' = Aus
  /\ UNCHANGED <<lokal, bestand, zaehler, lauf, planer, queue, failed>>

\* It throws; only the last upload may have taken effect all the same.
PushWirft ==
  /\ inflight # Aus
  /\ Fails("push")
  /\ store' \in {store, store \cup {inflight}}
  /\ failed' = failed \cup {inflight}
  /\ inflight' = Aus
  /\ UNCHANGED <<lokal, bestand, zaehler, lauf, planer, queue>>

-----------------------------------------------------------------------------
(***************************************************************************)
(* The end of a window and of the run                                      *)
(***************************************************************************)

\* Mutant: the barrier waits for as many successes as pushes.
Leergepumpt_onlySuccess == queue = <<>> /\ inflight = Aus /\ failed = {}

Leergepumpt == queue = <<>> /\ inflight = Aus

\* Mutant: the window is counted without waiting for its pushes.
FensterVollzug_noDrain ==
  /\ pc = "vollzug"
  /\ IF intakt /\ ~bauFehl /\ failed = {}
     THEN /\ kompiliert' = kompiliert + Cardinality(Fach(fach))
          /\ zaehler' = kompiliert'
          /\ UNCHANGED intakt
     ELSE /\ intakt' = FALSE
          /\ UNCHANGED <<kompiliert, zaehler>>
  /\ pc' = "fenster"
  /\ UNCHANGED <<store, lokal, bestand, laeufe, lager, fresh, fach, offen, bauFehl,
                 planer, pumpe>>

\* Mutant: a window with failed builds is counted like any other.
FensterVollzug_noBauFehl ==
  /\ pc = "vollzug"
  /\ Leergepumpt
  /\ IF intakt /\ failed = {}
     THEN /\ kompiliert' = kompiliert + Cardinality(Fach(fach))
          /\ zaehler' = kompiliert'
          /\ UNCHANGED intakt
     ELSE /\ intakt' = FALSE
          /\ UNCHANGED <<kompiliert, zaehler>>
  /\ pc' = "fenster"
  /\ UNCHANGED <<store, lokal, bestand, laeufe, lager, fresh, fach, offen, bauFehl,
                 planer, pumpe>>

\* push_vollzug drains the pump and asks for failed pushes; only a window
\* without any failure moves the counter, and the first failure stops it.
FensterVollzug ==
  /\ pc = "vollzug"
  /\ \/ /\ intakt
        /\ Leergepumpt
        /\ IF ~bauFehl /\ failed = {}
           THEN /\ kompiliert' = kompiliert + Cardinality(Fach(fach))
                /\ \/ zaehler' = kompiliert'
                   \/ Fails("zaehler") /\ UNCHANGED zaehler
                /\ UNCHANGED intakt
           ELSE /\ intakt' = FALSE
                /\ UNCHANGED <<kompiliert, zaehler>>
     \/ /\ ~intakt
        /\ UNCHANGED <<kompiliert, zaehler, intakt>>
  /\ pc' = "fenster"
  /\ UNCHANGED <<store, lokal, bestand, laeufe, lager, fresh, fach, offen, bauFehl,
                 planer, pumpe>>

\* The queue of windows is closed and empty: pop returns none.
FensterEnde ==
  /\ pc = "fenster"
  /\ planqueue = <<>>
  /\ pcPlan = "fertig"
  /\ pc' = "schluss"
  /\ UNCHANGED <<platte, laeufe, lager, fresh, fach, offen, bauFehl,
                 kompiliert, intakt, planer, pumpe>>

\* Mutant: the entries of failed pushes stay among those to register.
PumpeSchliesst_keepFailed ==
  /\ pc = "schluss"
  /\ Leergepumpt
  /\ pc' = "flush"
  /\ UNCHANGED <<platte, laeufe, lager, fresh, fach, offen, bauFehl,
                 kompiliert, intakt, planer, pumpe>>

\* AsyncPushPump::close joins the worker, then the entries whose push threw
\* are dropped from the ones to register (discard_fresh_with_pfad_prefix).
PumpeSchliesst ==
  /\ pc = "schluss"
  /\ Leergepumpt
  /\ fresh' = fresh \ failed
  /\ pc' = "flush"
  /\ UNCHANGED <<platte, laeufe, lager, fach, offen, bauFehl, kompiliert,
                 intakt, planer, pumpe>>

\* LagerRunState::flush merges the fresh entries in one locked cycle.  A cycle
\* that fails may have taken effect; the run ends either way.
LaufEnde ==
  /\ pc = "flush"
  /\ \/ bestand' = bestand \cup fresh
     \/ Fails("flush") /\ UNCHANGED bestand
  /\ Ruhe
  /\ UNCHANGED <<store, lokal, zaehler, laeufe>>

\* The process dies; a push under way may still have taken effect.
Absturz ==
  /\ pc # "aus"
  /\ store' \in {store, store \cup ({inflight} \ {Aus})}
  /\ Ruhe
  /\ UNCHANGED <<lokal, bestand, zaehler, laeufe>>

-----------------------------------------------------------------------------
Pool == \E a \in Atome :
  AtomUebersprungen(a) \/ AtomGebaut(a) \/ AtomGescheitert(a)

Pumpe == PumpeNimmt \/ PushGelingt \/ PushWirft

Planer == PlanLiest \/ PlanMeldet \/ PlanSchiebt \/ PlanEnde

Treiber == LaufStart \/ FensterBeginn \/ FensterGebaut \/ FensterVollzug
           \/ FensterEnde \/ PumpeSchliesst \/ LaufEnde

Next == Treiber \/ Planer \/ Pool \/ Pumpe \/ Absturz

Spec == Init /\ [][Next]_vars

\* Every thread of the run keeps running: the driver, the planner, the build
\* workers (a compilation ends) and the push thread (an upload ends).
FairSpec == /\ Spec
            /\ WF_vars(Treiber) /\ WF_vars(Planer)
            /\ WF_vars(Pool) /\ WF_vars(Pumpe)

-----------------------------------------------------------------------------
(***************************************************************************)
(* Properties                                                              *)
(***************************************************************************)

\* What the Bestand names exists: every entry has its artifact in the object
\* store, so that the build filter of a later run never skips a binary that is
\* nowhere (lager_presence.hpp:35).
BestandHatArtefakt == bestand \subseteq store

\* What the counter covers is in the store: a window is counted only when its
\* artifacts have really arrived (async_push_pump.hpp:81) ...
ZaehlerHatArtefakt == Praefix(zaehler) \subseteq store

\* ... which holds as long as no run has found binaries of an earlier one.
ErstlaufTreu == laeufe <= 1 => ZaehlerHatArtefakt

\* What the counter covers was built here or is in the Bestand: the atoms that
\* a resumed run skips unseen were never lost to a failed build.
ZaehlerHatBau == Praefix(zaehler) \subseteq lokal \cup bestand

\* The counter never goes back, over all runs, except in one that could not
\* read it and planned from the start: the builder counts on from where the
\* planner resumed, though it only learns of it through the queue
\* (planer_driven_build.hpp:446, "VOR DEM ERSTEN PUSH").
ZaehlerFaelltNicht == [][zaehler' < zaehler => ab = 0]_vars

\* A run comes to its end: neither the builder at the queue of windows, nor the
\* barrier at the end of a window, nor the closing of the pump waits for
\* something that does not come.
LaufEndet == pc # "aus" ~> pc = "aus"

=============================================================================
