------------------------------ MODULE BauPool ------------------------------
(***************************************************************************)
(* The build pool (build_orchestrator.hpp, provision_core): workers take   *)
(* the jobs of a selection, skip what is current, are admitted by free     *)
(* memory, compile with retries and leave a fingerprint beside the binary. *)
(*                                                                         *)
(* A run has one expected build identity: what the sources, the compiler   *)
(* and the machine are now, and the set of variants the driver enables.    *)
(* The next run may have another one, or none.  Binaries and fingerprints  *)
(* stay from run to run.  The names differ from those of BauLauf, so that  *)
(* one module can reason about the two.                                    *)
(***************************************************************************)
EXTENDS Integers, FiniteSets

CONSTANTS
  K,           \* the selection: jobs 0 .. K - 1
  Workers,
  Fingerprint, \* the build identities: sources, compiler and machine (ident)
               \* and the set of variants that the driver enables (bvset)
  Gesperrt,    \* the jobs that the flag gates refuse, or out of range
  MaxVersuche, \* bau_max_versuche
  RamBudget, RamReserve,  \* per build, safety margin
  RamWerte,    \* what free_ram_ may answer
  MaxPoolLaeufe,  \* bound: runs
  PoolFaults,  \* "bau", "sidecar", "absturz"
  Ohne,        \* no binary, no fingerprint, no provider
  Halb         \* a binary, or a sidecar, cut off while it was written

ASSUME BauPoolConstantsOK ==
  /\ IsFiniteSet(Workers)
  /\ K \in Nat /\ MaxVersuche \in Nat \ {0} /\ MaxPoolLaeufe \in Nat
  /\ RamBudget \in Nat /\ RamReserve \in Nat /\ RamWerte \subseteq Nat /\ RamWerte # {}
  /\ Gesperrt \subseteq 0 .. K - 1
  /\ PoolFaults \subseteq {"bau", "sidecar", "absturz"}
  /\ \A f \in Fingerprint : f = [ident |-> f.ident, bvset |-> f.bvset]
  /\ Ohne # Halb /\ Ohne \notin Fingerprint /\ Halb \notin Fingerprint

Jobs == 0 .. K - 1

VARIABLES
  dll,         \* per job: what its binary was built for
  sidecar,     \* per job: its fingerprint sidecar
  \* the run
  poolLaeufe,
  erwartet,    \* the expected fingerprint, or Ohne
  baseline_free,            \* the free memory when the run began
  next, active,             \* the counter, the admitted builds
  pcArbeiter, job, versuch,  \* per worker
  ergebnis,    \* results: per job, "offen" until it is finalized
  gemeldet,    \* per job: how often the completion hook has fired
  gestoert     \* history: jobs whose binary was replaced or cut off and whose
               \* sidecar was then neither removed nor cut

poolPlatte == <<dll, sidecar, gestoert>>
poolLauf   == <<poolLaeufe, erwartet, baseline_free>>
poolVars   ==
  <<poolPlatte, poolLauf, next, active, pcArbeiter, job, versuch, ergebnis, gemeldet>>

\* The type invariant.
PoolTypeOK ==
  /\ dll \in [Jobs -> Fingerprint \cup {Ohne, Halb}]
  /\ sidecar \in [Jobs -> Fingerprint \cup {Ohne, Halb}]
  /\ poolLaeufe \in 0 .. MaxPoolLaeufe /\ erwartet \in Fingerprint \cup {Ohne}
  /\ next \in Nat /\ active \in Nat /\ baseline_free \in RamWerte \cup {0}
  /\ pcArbeiter \in [Workers ->
       {"holt", "prueft", "zulassung", "schlaeft", "baut", "sidecar", "schreibt",
        "gelungen", "gescheitert", "gibtFrei", "weckt", "aus"}]
  /\ job \in [Workers -> 0 .. K] /\ versuch \in [Workers -> 0 .. MaxVersuche]
  /\ ergebnis \in [Jobs -> {"offen", "gesperrt", "skip", "ok", "fehler"}]
  /\ gemeldet \in [Jobs -> Nat] /\ gestoert \subseteq Jobs
  /\ active = Cardinality({w \in Workers :
       pcArbeiter[w] \in
         {"baut", "sidecar", "schreibt", "gelungen", "gescheitert", "gibtFrei"}})

LaufBeginn(e) ==
  /\ erwartet' = e
  /\ next' = 0 /\ active' = 0 /\ baseline_free' \in RamWerte
  /\ pcArbeiter' = [w \in Workers |-> "holt"]
  /\ job' = [w \in Workers |-> K] /\ versuch' = [w \in Workers |-> 0]
  /\ ergebnis' = [j \in Jobs |-> "offen"]
  /\ gemeldet' = [j \in Jobs |-> 0]

PoolInit ==
  /\ dll = [j \in Jobs |-> Ohne] /\ sidecar = [j \in Jobs |-> Ohne]
  /\ gestoert = {}
  /\ poolLaeufe = 0 /\ erwartet = Ohne
  /\ next = 0 /\ active = 0 /\ baseline_free = 0
  /\ pcArbeiter = [w \in Workers |-> "aus"]
  /\ job = [w \in Workers |-> K] /\ versuch = [w \in Workers |-> 0]
  /\ ergebnis = [j \in Jobs |-> "offen"]
  /\ gemeldet = [j \in Jobs |-> 0]

-----------------------------------------------------------------------------
Ruht == \A w \in Workers : pcArbeiter[w] = "aus"

\* provision_all: a run with its own expected identity.
provision_all(e) ==
  /\ Ruht /\ poolLaeufe < MaxPoolLaeufe
  /\ poolLaeufe' = poolLaeufe + 1
  /\ LaufBeginn(e)
  /\ UNCHANGED poolPlatte

Geht(w, von, nach) ==
  pcArbeiter[w] = von /\ pcArbeiter' = [pcArbeiter EXCEPT ![w] = nach]

\* Mutant: the counter is read and written in two accesses.
hole_job_twice(w) ==
  /\ Geht(w, "holt", IF next < K THEN "prueft" ELSE "aus")
  /\ job' = [job EXCEPT ![w] = IF next < K THEN next ELSE K]
  /\ \E n \in {next, next + 1} : next' = n
  /\ UNCHANGED <<poolPlatte, poolLauf, active, versuch, ergebnis, gemeldet>>

\* A worker takes the next job, or ends.
hole_job(w) ==
  /\ Geht(w, "holt", IF next < K THEN "prueft" ELSE "aus")
  /\ job' = [job EXCEPT ![w] = IF next < K THEN next ELSE K]
  /\ next' = next + 1
  /\ UNCHANGED <<poolPlatte, poolLauf, active, versuch, ergebnis, gemeldet>>

\* finalize: the result takes its slot, and the completion hook fires; the locals
\* of the worker are gone.
finalize(w, r) ==
  /\ ergebnis' = [ergebnis EXCEPT ![job[w]] = r]
  /\ gemeldet' = [gemeldet EXCEPT ![job[w]] = @ + 1]
  /\ job' = [job EXCEPT ![w] = K] /\ versuch' = [versuch EXCEPT ![w] = 0]

\* The fingerprint that the recorded set would have with today's identity.
recompute(bvset) == [ident |-> erwartet.ident, bvset |-> bvset]

\* Mutant: a subset is enough, the identity is not reproduced.
dll_is_current_unbound(j) ==
  /\ erwartet # Ohne
  /\ dll[j] # Ohne
  /\ sidecar[j] \in Fingerprint
  /\ \/ sidecar[j] = erwartet
     \/ sidecar[j].bvset \subseteq erwartet.bvset

\* dll_is_current: the sidecar says what is expected, or the same with fewer
\* variants enabled; of the binary it only asks whether there is one.
dll_is_current(j) ==
  /\ erwartet # Ohne
  /\ dll[j] # Ohne
  /\ sidecar[j] \in Fingerprint
  /\ \/ sidecar[j] = erwartet
     \/ /\ sidecar[j].bvset \subseteq erwartet.bvset
        /\ recompute(sidecar[j].bvset) = sidecar[j]

\* A refused job ends at once ...
weise_ab(w) ==
  /\ Geht(w, "prueft", "holt")
  /\ job[w] \in Gesperrt
  /\ finalize(w, "gesperrt")
  /\ UNCHANGED <<poolPlatte, poolLauf, next, active>>

\* ... so does one whose binary is current; the others have to be admitted.
ueberspringe(w) ==
  /\ Geht(w, "prueft", "holt")
  /\ job[w] \notin Gesperrt /\ dll_is_current(job[w])
  /\ finalize(w, "skip")
  /\ UNCHANGED <<poolPlatte, poolLauf, next, active>>

muss_bauen(w) ==
  /\ Geht(w, "prueft", "zulassung")
  /\ job[w] \notin Gesperrt /\ ~dll_is_current(job[w])
  /\ UNCHANGED <<poolPlatte, poolLauf, next, active, job, versuch, ergebnis, gemeldet>>

-----------------------------------------------------------------------------
\* Mutant: only the memory that is free now is counted.
Zugelassen_nurFrei(frei) ==
  \/ RamBudget = 0
  \/ active = 0
  \/ frei >= RamBudget + RamReserve

\* The predicate of the admission: one build always, more by the memory there
\* was at the start and the memory there is.
Zugelassen(frei) ==
  \/ RamBudget = 0
  \/ active = 0
  \/ /\ (active + 1) * RamBudget + RamReserve <= baseline_free
     /\ frei >= RamBudget + RamReserve

lasse_zu(w) ==
  /\ \E frei \in RamWerte :
       \/ /\ Zugelassen(frei)
          /\ Geht(w, "zulassung", "baut")
          /\ active' = active + 1
       \/ /\ ~Zugelassen(frei)
          /\ Geht(w, "zulassung", "schlaeft")
          /\ UNCHANGED active
  /\ UNCHANGED <<poolPlatte, poolLauf, next, job, versuch, ergebnis, gemeldet>>

\* An attempt that failed is repeated until the budget is used up.
NachFehlversuch(w) ==
  Geht(w, "baut", IF versuch[w] + 1 < MaxVersuche THEN "baut" ELSE "gescheitert")

\* One attempt: source and compiler.  A success makes a binary of today's
\* identity; a failure leaves the old one, or none; one killed leaves a part.
baue(w) ==
  /\ versuch' = [versuch EXCEPT ![w] = @ + 1]
  /\ \/ /\ Geht(w, "baut", "sidecar")
        /\ dll' \in {[dll EXCEPT ![job[w]] = f] :
                       f \in IF erwartet = Ohne THEN Fingerprint ELSE {erwartet}}
        /\ UNCHANGED gestoert
     \/ /\ "bau" \in PoolFaults
        /\ NachFehlversuch(w)
        /\ dll' \in {dll, [dll EXCEPT ![job[w]] = Ohne]}
        /\ UNCHANGED gestoert
     \/ /\ "absturz" \in PoolFaults
        /\ NachFehlversuch(w)
        /\ dll' = [dll EXCEPT ![job[w]] = Halb]
        /\ gestoert' = gestoert \cup {job[w]}
  /\ UNCHANGED <<sidecar, poolLauf, next, active, job, ergebnis, gemeldet>>

\* prune_stale_sidecars: without a fingerprint of its own the new binary must
\* not keep that of the old one, unless it cannot be removed.
raeume(w) ==
  /\ erwartet = Ohne
  /\ Geht(w, "sidecar", "gelungen")
  /\ \/ /\ sidecar' = [sidecar EXCEPT ![job[w]] = Ohne]
        /\ gestoert' = gestoert \ {job[w]}
     \/ /\ "sidecar" \in PoolFaults
        /\ gestoert' = gestoert \cup {job[w]}
        /\ UNCHANGED sidecar
  /\ UNCHANGED <<dll, poolLauf, next, active, job, versuch, ergebnis, gemeldet>>

\* write_fingerprint_sidecar: the file is opened and cut, unless that fails ...
oeffne_sidecar(w) ==
  /\ erwartet # Ohne
  /\ \/ /\ Geht(w, "sidecar", "schreibt")
        /\ sidecar' = [sidecar EXCEPT ![job[w]] = Halb]
        /\ gestoert' = gestoert \ {job[w]}
     \/ /\ "sidecar" \in PoolFaults
        /\ Geht(w, "sidecar", "gelungen")
        /\ gestoert' = gestoert \cup {job[w]}
        /\ UNCHANGED sidecar
  /\ UNCHANGED <<dll, poolLauf, next, active, job, versuch, ergebnis, gemeldet>>

\* ... and written; a part of it is no fingerprint (one that ends in its second
\* line passes only where the whole one would, so it is not told apart).
schreibe_sidecar(w) ==
  /\ Geht(w, "schreibt", "gelungen")
  /\ \/ sidecar' = [sidecar EXCEPT ![job[w]] = erwartet]
     \/ "sidecar" \in PoolFaults /\ UNCHANGED sidecar
  /\ UNCHANGED <<dll, gestoert, poolLauf, next, active, job, versuch, ergebnis, gemeldet>>

\* The build is reported: a success if the last attempt was one, whatever became
\* of the sidecar.
melde(w) ==
  /\ \/ Geht(w, "gelungen", "gibtFrei") /\ finalize(w, "ok")
     \/ Geht(w, "gescheitert", "gibtFrei") /\ finalize(w, "fehler")
  /\ UNCHANGED <<poolPlatte, poolLauf, next, active>>

\* The memory of the build is given back ...
gib_frei(w) ==
  /\ Geht(w, "gibtFrei", "weckt")
  /\ active' = active - 1
  /\ UNCHANGED <<poolPlatte, poolLauf, next, job, versuch, ergebnis, gemeldet>>

\* Mutant: the waiting workers are not woken.
wecke_keinen(w) ==
  /\ Geht(w, "weckt", "holt")
  /\ UNCHANGED <<poolPlatte, poolLauf, next, active, job, versuch, ergebnis, gemeldet>>

\* ... and all that wait for it look again.
wecke(w) ==
  /\ pcArbeiter[w] = "weckt"
  /\ pcArbeiter' = [v \in Workers |->
       IF v = w THEN "holt"
       ELSE IF pcArbeiter[v] = "schlaeft" THEN "zulassung" ELSE pcArbeiter[v]]
  /\ UNCHANGED <<poolPlatte, poolLauf, next, active, job, versuch, ergebnis, gemeldet>>

-----------------------------------------------------------------------------
\* The process dies; a binary under way may be cut off.
PoolAbsturz ==
  /\ "absturz" \in PoolFaults /\ ~Ruht
  /\ pcArbeiter' = [w \in Workers |-> "aus"]
  /\ dll' \in {[j \in Jobs |-> IF j \in S THEN Halb ELSE dll[j]] :
                 S \in SUBSET {job[w] : w \in {v \in Workers : pcArbeiter[v] = "baut"}}}
  /\ gestoert' = gestoert \cup
       {job[w] : w \in {v \in Workers : pcArbeiter[v] \in {"baut", "sidecar"}}}
  /\ active' = 0 /\ next' = 0
  /\ job' = [w \in Workers |-> K] /\ versuch' = [w \in Workers |-> 0]
  /\ ergebnis' = [j \in Jobs |-> "offen"] /\ gemeldet' = [j \in Jobs |-> 0]
  /\ UNCHANGED <<sidecar, poolLauf>>

\* A waiting worker may wake up without any notification.
Spurious(w) ==
  /\ Geht(w, "schlaeft", "zulassung")
  /\ UNCHANGED <<poolPlatte, poolLauf, next, active, job, versuch, ergebnis, gemeldet>>

-----------------------------------------------------------------------------
Arbeit(w) ==
  \/ hole_job(w) \/ weise_ab(w) \/ ueberspringe(w) \/ muss_bauen(w)
  \/ lasse_zu(w) \/ baue(w) \/ raeume(w) \/ oeffne_sidecar(w)
  \/ schreibe_sidecar(w) \/ melde(w) \/ gib_frei(w) \/ wecke(w)

PoolNext ==
  \/ \E e \in Fingerprint \cup {Ohne} : provision_all(e)
  \/ \E w \in Workers : Arbeit(w) \/ Spurious(w)
  \/ PoolAbsturz

PoolSpec == PoolInit /\ [][PoolNext]_poolVars

\* The threads of the pool are scheduled, and a compiler call ends.  Memory need
\* not become free, and nobody wakes up for no reason.
PoolFairSpec == PoolSpec /\ \A w \in Workers : WF_poolVars(Arbeit(w))

-----------------------------------------------------------------------------
(***************************************************************************)
(* Properties                                                              *)
(***************************************************************************)

HatJob(w) == pcArbeiter[w] \notin {"holt", "gibtFrei", "weckt", "aus"}

\* No job is lost or done twice by workers that take, finalize and end at the
\* same time: a slot is finalized once and its hook fires once, an open one that
\* was taken is in the hands of one worker, and nobody ends while jobs are left
\* (next.fetch_add and finalize, build_orchestrator.hpp:743-755).
EachOnce ==
  /\ \A j \in Jobs : gemeldet[j] = IF ergebnis[j] = "offen" THEN 0 ELSE 1
  /\ ~Ruht => \A j \in Jobs : j < next /\ ergebnis[j] = "offen" =>
       Cardinality({w \in Workers : HatJob(w) /\ job[w] = j}) = 1
  /\ ~Ruht /\ (\E w \in Workers : pcArbeiter[w] = "aus") => next >= K

\* The builds that run at the same time fit into the memory there was at the
\* start, unless it is only one (build_orchestrator.hpp:729-731).
AdmissionCap ==
  RamBudget # 0 => active <= 1 \/ active * RamBudget + RamReserve <= baseline_free

\* What is skipped was built for today's identity, with no variant that is not
\* enabled today, in every order of runs with and without provider, growing and
\* shrinking sets and failing builds (dll_is_current), as long as nothing came
\* between the new binary of the job and its sidecar.
SkipRichtig ==
  \A j \in Jobs \ gestoert : ergebnis[j] = "offen" /\ ergebnis'[j] = "skip" =>
    /\ dll[j] \in Fingerprint
    /\ dll[j].ident = erwartet.ident /\ dll[j].bvset \subseteq erwartet.bvset
SkipIstAktuell == [][SkipRichtig]_poolVars

\* The pool ends, though builds fail, memory stays short and nobody tells when
\* it is free again.
PoolEndet == ~Ruht ~> Ruht

=============================================================================
