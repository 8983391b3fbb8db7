----------------------------- MODULE BauProofs -----------------------------
(***************************************************************************)
(* Proofs about the provisioning run (BauLauf) and, below, about its pool  *)
(* (BauPool), for every selection, window size, number of runs and set of  *)
(* faults.                                                                 *)
(*                                                                         *)
(* The invariants speak of what survives a run; none of them is inductive. *)
(* What is missing is what the run knows while it is under way: where the  *)
(* binaries it noted for registration are (Unterwegs), what of its window  *)
(* is done (FensterInv), what the planner thread has streamed and reported *)
(* (PlanerInv), what the counters of the run and of the plan stand for     *)
(* (ZaehlwerkInv, StandInv), and that a first run finds nothing of an      *)
(* earlier one (ErstInv).                                                  *)
(***************************************************************************)
EXTENDS BauLauf, BauPool, FiniteSetTheorems, TLAPS

\* The atoms whose artifact is in the store or in the hands of the pump.
Versorgt == store \cup failed \cup {inflight}
            \cup {queue[i] : i \in 1 .. Len(queue)}

\* What is noted for registration has been given to the pump, and is in the
\* store once the failed ones are dropped.  Outside a run the pump is at rest.
Unterwegs == /\ lager \subseteq bestand
             /\ fresh \subseteq Versorgt
             /\ pc = "flush" => fresh \subseteq store
             /\ pc = "aus" => queue = <<>> /\ inflight = Aus

\* Of a window without failure everything finished is built or in the Bestand.
FensterInv ==
  /\ pc \in {"bau", "vollzug"} =>
       /\ fach # 0
       /\ ~bauFehl => Fach(fach) \ offen \subseteq lokal \cup lager
  /\ pc = "vollzug" => offen = {}

\* The window the builder has taken last, or the last of those skipped.
Vorn == IF fach = 0 THEN ab ELSE fach

\* The queue holds the windows between the builder and the planner in order,
\* and nothing is in it before the planner has reported where it resumed.
PlanerInv ==
  /\ pc = "aus" <=> pcPlan = "aus"
  /\ pcPlan \in {"aus", "plant"} => ab = 0
  /\ pcPlan \in {"aus", "plant", "meldet"} => planqueue = <<>> /\ fach = 0
  /\ pcPlan \in {"strom", "fertig"} => resume = Front(ab)
  /\ gestreamt = Vorn + Len(planqueue)
  /\ \A k \in 1 .. Len(planqueue) : planqueue[k] = Vorn + k

\* An intact counter stands at the front of the current window, and what it
\* covers is built.
ZaehlwerkInv ==
  intakt => /\ pc \in {"bau", "vollzug"} => kompiliert = Front(fach - 1)
            /\ pc = "fenster" /\ fach # 0 => kompiliert = Front(fach)
            /\ Praefix(kompiliert) \subseteq lokal \cup bestand

\* The persisted counter stands between two windows; a run that resumed is not
\* behind it.
StandInv ==
  /\ \E f \in 0 .. Faecher : zaehler = Front(f)
  /\ fach = 0 => Front(ab) <= zaehler
  /\ fach = 0 /\ ab # 0 => zaehler = Front(ab)
  /\ fach # 0 /\ ab # 0 /\ intakt => zaehler <= kompiliert

\* A first run starts from nothing, hence every local binary is its own.
ErstInv ==
  /\ laeufe = 0 => pc = "aus" /\ lokal = {} /\ store = {}
  /\ laeufe <= 1 /\ pc # "aus" =>
       /\ lokal \subseteq Versorgt
       /\ intakt => Praefix(kompiliert) \subseteq store

\* The inductive invariant.
IInv == /\ TypeOK
        /\ BestandHatArtefakt
        /\ ZaehlerHatBau
        /\ ErstlaufTreu
        /\ Unterwegs
        /\ FensterInv
        /\ PlanerInv
        /\ ZaehlwerkInv
        /\ StandInv
        /\ ErstInv

-----------------------------------------------------------------------------
(***************************************************************************)
(* Windows                                                                 *)
(***************************************************************************)
LEMMA Teilung ==
  ASSUME NEW z \in Nat, NEW k \in Nat \ {0}
  PROVE  /\ z \div k \in Nat
         /\ (z \div k) * k <= z
         /\ z < (z \div k + 1) * k
  OBVIOUS

\* The fronts of the windows rise from 0.
LEMMA FrontFacts ==
  ASSUME NEW f \in Nat
  PROVE  /\ Front(f) \in 0 .. N
         /\ Front(f) <= Front(f + 1)
         /\ Front(0) = 0
<1>1. f * Korn \in Nat /\ (f + 1) * Korn = f * Korn + Korn /\ 0 * Korn = 0
  BY BauLaufConstantsOK
<1> QED
  BY <1>1, BauLaufConstantsOK DEF Front

LEMMA FrontMonotone ==
  ASSUME NEW f \in Nat, NEW g \in Nat, f <= g
  PROVE  Front(f) <= Front(g)
<1>1. f * Korn \in Nat /\ g * Korn \in Nat /\ f * Korn <= g * Korn
  BY BauLaufConstantsOK
<1> QED
  BY <1>1, BauLaufConstantsOK DEF Front

\* The last window ends with the selection.
LEMMA FaecherFacts == Faecher \in Nat /\ Front(Faecher) = N
  BY BauLaufConstantsOK DEF Front, Faecher

\* A window is the stretch between two fronts.
LEMMA FachFacts ==
  ASSUME NEW f \in Nat \ {0}
  PROVE  /\ Fach(f) \subseteq Atome
         /\ Front(f - 1) \in 0 .. N /\ Front(f) \in 0 .. N
         /\ Front(f - 1) + Cardinality(Fach(f)) = Front(f)
         /\ Praefix(Front(f)) = Praefix(Front(f - 1)) \cup Fach(f)
<1>1. /\ Front(f - 1) \in 0 .. N /\ Front(f) \in 0 .. N
      /\ Front(f - 1) <= Front(f)
  <2>1. f - 1 \in Nat /\ (f - 1) + 1 = f
    OBVIOUS
  <2>2. Front(f - 1) \in 0 .. N /\ Front(f - 1) <= Front((f - 1) + 1)
    BY <2>1, FrontFacts
  <2> QED
    BY <2>1, <2>2, FrontFacts
<1>2. Cardinality(Fach(f)) = Front(f) - Front(f - 1)
  <2>1. Front(f - 1) + 1 \in Int /\ Front(f) \in Int
    BY <1>1, BauLaufConstantsOK
  <2>2. Cardinality(Front(f - 1) + 1 .. Front(f)) =
          IF Front(f - 1) + 1 > Front(f) THEN 0
          ELSE Front(f) - (Front(f - 1) + 1) + 1
    BY <2>1, FS_Interval
  <2> QED
    BY <1>1, <2>2, BauLaufConstantsOK DEF Fach
<1> QED
  BY <1>1, <1>2, BauLaufConstantsOK DEF Fach, Praefix, Atome

\* A resumed run skips no more than the counter covers.
LEMMA ResumeFacts ==
  ASSUME NEW z \in 0 .. N
  PROVE  /\ plan_resume_faecher(z) \in 0 .. Faecher
         /\ Front(plan_resume_faecher(z)) <= z
         /\ \A g \in 0 .. Faecher : Front(g) <= z => g <= plan_resume_faecher(z)
<1> DEFINE P(f) == /\ Front(f) <= z
                   /\ \A g \in 0 .. Faecher : Front(g) <= z => g <= f
<1>1. \E f \in 0 .. Faecher : P(f)
  <2>1. CASE z = N
    BY <2>1, FaecherFacts
  <2>2. CASE z < N
    <3> DEFINE f == z \div Korn
    <3>1. f \in Nat /\ f * Korn <= z /\ z < (f + 1) * Korn
      BY Teilung, BauLaufConstantsOK
    <3> HIDE DEF f
    <3>2. Front(f) <= z
      <4>1. f * Korn \in Nat
        BY <3>1, BauLaufConstantsOK
      <4>2. f * Korn < N
        BY <2>2, <3>1, <4>1, BauLaufConstantsOK
      <4> QED
        BY <3>1, <4>2 DEF Front
    <3>3. ASSUME NEW g \in Nat, g > f
          PROVE  Front(g) > z
      <4>1. g * Korn >= (f + 1) * Korn
        BY <3>1, <3>3, BauLaufConstantsOK
      <4>2. g * Korn > z /\ g * Korn \in Nat
        BY <3>1, <3>3, <4>1, BauLaufConstantsOK
      <4> QED
        BY <2>2, <4>2 DEF Front
    <3>4. f < Faecher + 1
      <4>1. CASE f > Faecher
        <5>1. f * Korn >= Faecher * Korn
          BY <4>1, <3>1, FaecherFacts, BauLaufConstantsOK
        <5>2. Faecher * Korn >= N
          BY FaecherFacts, BauLaufConstantsOK DEF Front
        <5>3. f * Korn \in Int /\ Faecher * Korn \in Int
          BY <3>1, FaecherFacts, BauLaufConstantsOK
        <5> QED
          BY <5>1, <5>2, <5>3, <3>1, <2>2, BauLaufConstantsOK
      <4> QED
        BY <4>1, <3>1, FaecherFacts
    <3>5. \A g \in 0 .. Faecher : Front(g) <= z => g <= f
      <4> TAKE g \in 0 .. Faecher
      <4>1. g \in Nat /\ Front(g) \in 0 .. N
        BY FaecherFacts, FrontFacts
      <4> QED
        BY <4>1, <3>1, <3>3, BauLaufConstantsOK
    <3> QED
      BY <3>1, <3>2, <3>4, <3>5, FaecherFacts
  <2> QED
    BY <2>1, <2>2, BauLaufConstantsOK
<1> QED
  BY <1>1 DEF plan_resume_faecher

-----------------------------------------------------------------------------
(***************************************************************************)
(* The initial state and the steps                                         *)
(***************************************************************************)
LEMMA InitIInv == Init => IInv
<1> SUFFICES ASSUME Init PROVE IInv
  OBVIOUS
<1>1. /\ 0 \in 0 .. N /\ 0 \in 0 .. MaxLaeufe /\ 0 \in 0 .. Faecher
      /\ Front(0) = 0 /\ Praefix(0) = {} /\ Faecher \in Nat
  BY FaecherFacts, FrontFacts, BauLaufConstantsOK DEF Praefix
<1>2. TypeOK
  <2>1. queue \in Seq(Atome) /\ planqueue \in Seq(1 .. Faecher)
    BY DEF Init
  <2> QED
    BY <1>1, <2>1 DEF Init, TypeOK
<1>3. PlanerInv /\ StandInv
  BY <1>1 DEF Init, PlanerInv, Vorn, StandInv
<1> QED
  BY <1>1, <1>2, <1>3 DEF Init, IInv, BestandHatArtefakt, ZaehlerHatBau, ErstlaufTreu,
     ZaehlerHatArtefakt, Unterwegs, FensterInv, ZaehlwerkInv, ErstInv

\* Coming to rest forgets the run: every part about the run holds trivially.
LEMMA RuheStep ==
  ASSUME IInv, Ruhe, laeufe' = laeufe, lokal' = lokal, zaehler' = zaehler,
         store \subseteq store', store' \subseteq Atome,
         bestand \subseteq bestand', bestand' \subseteq store',
         laeufe > 0
  PROVE  IInv'
<1>1. /\ 0 \in 0 .. N /\ 0 \in 0 .. Faecher
      /\ Front(0) = 0 /\ Praefix(0) = {} /\ Faecher \in Nat
  BY FaecherFacts, FrontFacts, BauLaufConstantsOK DEF Praefix
<1>2. TypeOK'
  <2>1. queue' \in Seq(Atome) /\ planqueue' \in Seq(1 .. Faecher)
    BY DEF Ruhe
  <2>2. bestand' \subseteq Atome
    OBVIOUS
  <2> QED
    BY <1>1, <2>1, <2>2 DEF IInv, TypeOK, Ruhe
<1>3. BestandHatArtefakt' /\ ZaehlerHatBau' /\ ErstlaufTreu'
  BY DEF IInv, BestandHatArtefakt, ZaehlerHatBau, ErstlaufTreu,
     ZaehlerHatArtefakt, Praefix
<1>4. Unterwegs' /\ FensterInv' /\ ZaehlwerkInv' /\ ErstInv'
  BY <1>1 DEF IInv, TypeOK, Ruhe, Unterwegs, FensterInv, ZaehlwerkInv, ErstInv
<1>5. PlanerInv' /\ StandInv'
  BY <1>1 DEF IInv, TypeOK, Ruhe, PlanerInv, Vorn, StandInv
<1> QED
  BY <1>2, <1>3, <1>4, <1>5 DEF IInv

LEMMA LaufStartStep == ASSUME IInv, LaufStart PROVE IInv'
<1>1. TypeOK'
  BY BauLaufConstantsOK DEF LaufStart, IInv, TypeOK, pumpe
<1>2. BestandHatArtefakt' /\ ZaehlerHatBau'
  BY DEF LaufStart, IInv, BestandHatArtefakt, ZaehlerHatBau
<1>3. ErstlaufTreu'
  BY BauLaufConstantsOK
  DEF LaufStart, IInv, TypeOK, ErstlaufTreu, ZaehlerHatArtefakt
<1>4. Unterwegs' /\ FensterInv' /\ PlanerInv' /\ StandInv'
  BY DEF LaufStart, IInv, Unterwegs, FensterInv, PlanerInv, Vorn, StandInv,
     pumpe, Versorgt
<1>5. ZaehlwerkInv'
  BY DEF LaufStart, IInv, ZaehlwerkInv, PlanerInv
<1>6. ErstInv'
  <2>1. laeufe' <= 1 => laeufe = 0
    BY BauLaufConstantsOK DEF LaufStart, IInv, TypeOK
  <2>2. kompiliert' = kompiliert /\ laeufe' # 0
    BY BauLaufConstantsOK DEF LaufStart, IInv, TypeOK
  <2>3. intakt /\ laeufe = 0 => Praefix(kompiliert) \subseteq store
    BY DEF IInv, ErstInv, ZaehlwerkInv, BestandHatArtefakt
  <2> QED
    BY <2>1, <2>2, <2>3 DEF LaufStart, IInv, ErstInv, pumpe, Versorgt
<1> QED
  BY <1>1, <1>2, <1>3, <1>4, <1>5, <1>6 DEF IInv

\* A step of the planner leaves everything but its own part alone.
LEMMA PlanerFrame ==
  ASSUME IInv, UNCHANGED <<platte, lauf, pumpe>>, TypeOK', PlanerInv', StandInv'
  PROVE  IInv'
  BY DEF IInv, BestandHatArtefakt, ZaehlerHatBau, ErstlaufTreu, ZaehlerHatArtefakt,
     Unterwegs, FensterInv, ZaehlwerkInv, ErstInv, Versorgt, platte, lauf, pumpe

LEMMA PlanLiestStep == ASSUME IInv, PlanLiest PROVE IInv'
<1> DEFINE z == zaehler
           r == plan_resume_faecher(z)
<1>1. /\ z \in 0 .. N /\ Faecher \in Nat /\ Front(0) = 0
      /\ fach = 0 /\ planqueue = <<>> /\ pcPlan = "plant" /\ pc # "aus"
  BY FaecherFacts, FrontFacts DEF IInv, TypeOK, PlanerInv, PlanLiest
<1>2. /\ r \in 0 .. Faecher /\ Front(r) <= z
      /\ \A g \in 0 .. Faecher : Front(g) <= z => g <= r
  BY <1>1, ResumeFacts
<1>3. Front(r) = z
  <2>1. PICK f \in 0 .. Faecher : z = Front(f)
    BY DEF IInv, StandInv
  <2>2. f <= r /\ f \in Nat /\ r \in Nat
    BY <1>1, <1>2, <2>1
  <2>3. Front(f) <= Front(r) /\ Front(r) \in 0 .. N
    BY <2>2, FrontMonotone, FrontFacts
  <2> QED
    BY <1>1, <1>2, <2>1, <2>3, BauLaufConstantsOK
<1>4. ab' \in {r, 0} /\ gestreamt' = ab' /\ pcPlan' = "meldet"
      /\ UNCHANGED <<platte, lauf, planqueue, resume, pumpe>>
  BY DEF PlanLiest
<1> HIDE DEF r
<1>5. TypeOK'
  BY <1>1, <1>2, <1>4 DEF IInv, TypeOK, platte, lauf, pumpe
<1>6. PlanerInv'
  <2>1. fach' = 0 /\ planqueue' = <<>> /\ Len(planqueue') = 0 /\ pc' # "aus"
    BY <1>1, <1>4 DEF lauf
  <2>2. ab' \in Nat
    BY <1>1, <1>2, <1>4
  <2>3. \A n \in Nat : n = n + 0
    OBVIOUS
  <2>4. gestreamt' = Vorn' + Len(planqueue')
    BY <1>4, <2>1, <2>2, <2>3, Zenon DEF Vorn
  <2> QED
    BY <1>4, <2>1, <2>4 DEF PlanerInv
<1>7. StandInv'
  <2>1. /\ fach' = 0 /\ zaehler' = z /\ ab' \in {r, 0}
        /\ Front(ab') <= z /\ (ab' # 0 => z = Front(ab'))
    BY <1>1, <1>3, <1>4, BauLaufConstantsOK DEF platte, lauf
  <2> QED
    BY <2>1 DEF IInv, StandInv
<1> QED
  BY <1>4, <1>5, <1>6, <1>7, PlanerFrame

LEMMA PlanMeldetStep == ASSUME IInv, PlanMeldet PROVE IInv'
<1>1. Front(ab) \in 0 .. N
  <2>1. ab \in Nat
    BY FaecherFacts DEF IInv, TypeOK
  <2> QED
    BY <2>1, FrontFacts
<1>2. TypeOK'
  BY <1>1 DEF PlanMeldet, IInv, TypeOK, platte, lauf, pumpe
<1>3. PlanerInv' /\ StandInv'
  BY DEF PlanMeldet, IInv, PlanerInv, Vorn, StandInv, platte, lauf
<1> QED
  BY <1>2, <1>3, PlanerFrame DEF PlanMeldet

LEMMA PlanSchiebtStep == ASSUME IInv, PlanSchiebt PROVE IInv'
<1>1. /\ gestreamt \in 0 .. Faecher /\ gestreamt < Faecher /\ Faecher \in Nat
      /\ planqueue \in Seq(1 .. Faecher) /\ Vorn \in Nat
      /\ gestreamt = Vorn + Len(planqueue)
      /\ \A k \in 1 .. Len(planqueue) : planqueue[k] = Vorn + k
  BY FaecherFacts DEF PlanSchiebt, IInv, TypeOK, PlanerInv, Vorn
<1> DEFINE q == Append(planqueue, gestreamt + 1)
<1>2. gestreamt + 1 \in 1 .. Faecher
  BY <1>1
<1>3. /\ q \in Seq(1 .. Faecher) /\ Len(q) = Len(planqueue) + 1 /\ Len(planqueue) \in Nat
      /\ \A k \in 1 .. Len(planqueue) : q[k] = planqueue[k]
      /\ q[Len(planqueue) + 1] = gestreamt + 1
  BY <1>1, <1>2
<1>4. planqueue' = q /\ gestreamt' = gestreamt + 1 /\ pcPlan = "strom"
      /\ UNCHANGED <<platte, lauf, pcPlan, ab, resume, pumpe>>
  BY DEF PlanSchiebt
<1> HIDE DEF q
<1>5. TypeOK'
  BY <1>2, <1>3, <1>4, <1>1 DEF IInv, TypeOK, platte, lauf, pumpe
<1>6. Vorn' = Vorn
  BY <1>4 DEF Vorn, lauf
<1>7. \A k \in 1 .. Len(q) : q[k] = Vorn + k
  <2> TAKE k \in 1 .. Len(q)
  <2>1. CASE k = Len(planqueue) + 1
    BY <2>1, <1>1, <1>3
  <2>2. CASE k # Len(planqueue) + 1
    <3>1. k \in 1 .. Len(planqueue)
      BY <2>2, <1>3
    <3> QED
      BY <3>1, <1>1, <1>3
  <2> QED
    BY <2>1, <2>2
<1>8. gestreamt' = Vorn' + Len(planqueue')
  BY <1>1, <1>3, <1>4, <1>6
<1>9. PlanerInv'
  BY <1>4, <1>6, <1>7, <1>8 DEF IInv, PlanerInv, lauf
<1>10. StandInv'
  BY <1>4 DEF IInv, StandInv, platte, lauf
<1> QED
  BY <1>4, <1>5, <1>9, <1>10, PlanerFrame

LEMMA PlanEndeStep == ASSUME IInv, PlanEnde PROVE IInv'
<1>1. TypeOK' /\ PlanerInv' /\ StandInv'
  BY DEF PlanEnde, IInv, TypeOK, PlanerInv, Vorn, StandInv, platte, lauf, pumpe
<1> QED
  BY <1>1, PlanerFrame DEF PlanEnde

\* The builder takes the next window in order, and with the first one the count
\* of the windows in front of it.
LEMMA FensterBeginnStep == ASSUME IInv, FensterBeginn PROVE IInv'
<1>1. /\ planqueue \in Seq(1 .. Faecher) /\ planqueue # <<>> /\ Vorn \in Nat
      /\ Faecher \in Nat /\ pc = "fenster" /\ pc' = "bau"
      /\ fach' = Head(planqueue) /\ planqueue' = Tail(planqueue)
      /\ gestreamt = Vorn + Len(planqueue) /\ gestreamt \in 0 .. Faecher
      /\ \A k \in 1 .. Len(planqueue) : planqueue[k] = Vorn + k
  BY FaecherFacts DEF FensterBeginn, IInv, TypeOK, PlanerInv, Vorn
<1>2. /\ Head(planqueue) = planqueue[1] /\ Len(planqueue) \in Nat \ {0}
      /\ Tail(planqueue) \in Seq(1 .. Faecher)
      /\ Len(Tail(planqueue)) = Len(planqueue) - 1
      /\ \A k \in 1 .. Len(planqueue) - 1 : Tail(planqueue)[k] = planqueue[k + 1]
  BY <1>1
<1>3. fach' = Vorn + 1 /\ fach' \in 1 .. Faecher /\ fach' - 1 = Vorn
  BY <1>1, <1>2
<1>4. UNCHANGED <<platte, laeufe, lager, fresh, intakt, pcPlan, ab, gestreamt, resume, pumpe>>
  BY DEF FensterBeginn
<1>5. pcPlan \in {"strom", "fertig"} /\ resume = Front(ab)
  BY <1>1 DEF IInv, TypeOK, PlanerInv
<1>6. Fach(fach') \subseteq Atome /\ Front(Vorn) \in 0 .. N
  <2>1. fach' \in Nat \ {0}
    BY <1>1, <1>3
  <2> QED
    BY <1>1, <2>1, FachFacts, FrontFacts
<1>7. fach = 0 => kompiliert' = Front(ab) /\ Vorn = ab /\ Front(ab) <= zaehler
  BY <1>5 DEF FensterBeginn, Vorn, IInv, StandInv
<1>8. fach # 0 => kompiliert' = kompiliert /\ Vorn = fach
  BY DEF FensterBeginn, Vorn
<1>9. TypeOK'
  <2>1. kompiliert' \in 0 .. N
    BY <1>6, <1>7, <1>8 DEF IInv, TypeOK
  <2>2. offen' \subseteq Atome /\ bauFehl' \in BOOLEAN
    BY <1>6 DEF FensterBeginn
  <2>3. planqueue' \in Seq(1 .. Faecher)
    BY <1>1, <1>2
  <2>4. fach' \in 0 .. Faecher
    BY <1>1, <1>3
  <2>5. pc' = "bau"
    BY DEF FensterBeginn
  <2> QED
    BY <1>4, <2>1, <2>2, <2>3, <2>4, <2>5 DEF IInv, TypeOK, platte, pumpe
<1>10. FensterInv'
  BY <1>1, <1>3 DEF FensterBeginn, FensterInv
<1>11. PlanerInv'
  <2>1. Vorn' = Vorn + 1
    BY <1>3 DEF Vorn
  <2>2. gestreamt' = Vorn' + Len(planqueue')
    BY <1>1, <1>2, <1>4, <2>1
  <2>3. \A k \in 1 .. Len(planqueue') : planqueue'[k] = Vorn' + k
    <3> TAKE k \in 1 .. Len(planqueue')
    <3>1. k \in 1 .. Len(planqueue) - 1 /\ k + 1 \in 1 .. Len(planqueue)
      BY <1>1, <1>2
    <3>2. planqueue'[k] = planqueue[k + 1] /\ planqueue[k + 1] = Vorn + (k + 1)
      BY <3>1, <1>1, <1>2
    <3> QED
      BY <3>1, <3>2, <2>1, <1>1
  <2> QED
    BY <1>1, <1>4, <1>5, <2>2, <2>3 DEF IInv, PlanerInv
<1>12. ZaehlwerkInv'
  <2>1. CASE fach = 0
    <3>1. Praefix(kompiliert') \subseteq Praefix(zaehler)
      BY <2>1, <1>6, <1>7 DEF Praefix, IInv, TypeOK
    <3> QED
      BY <2>1, <3>1, <1>1, <1>3, <1>4, <1>7 DEF IInv, ZaehlerHatBau, ZaehlwerkInv, platte
  <2>2. CASE fach # 0
    BY <2>2, <1>1, <1>3, <1>4, <1>8 DEF IInv, ZaehlwerkInv, platte
  <2> QED
    BY <2>1, <2>2
<1>13. StandInv'
  <2>1. zaehler' = zaehler /\ ab' = ab /\ intakt' = intakt /\ fach' # 0
    BY <1>3, <1>4 DEF platte
  <2>2. ab # 0 /\ intakt => zaehler <= kompiliert'
    <3>1. CASE fach = 0
      <4>1. ab # 0 => zaehler = Front(ab)
        BY <3>1 DEF IInv, StandInv
      <4>2. zaehler \in 0 .. N
        BY DEF IInv, TypeOK
      <4> QED
        BY <3>1, <4>1, <4>2, <1>7, BauLaufConstantsOK
    <3>2. CASE fach # 0
      BY <3>2, <1>8 DEF IInv, StandInv
    <3> QED
      BY <3>1, <3>2
  <2> QED
    BY <2>1, <2>2 DEF IInv, StandInv
<1>14. ErstInv'
  <2>1. laeufe <= 1 /\ intakt => Praefix(kompiliert') \subseteq store
    <3>1. CASE fach = 0
      <4>1. Praefix(kompiliert') \subseteq Praefix(zaehler)
        BY <3>1, <1>6, <1>7 DEF Praefix, IInv, TypeOK
      <4> QED
        BY <4>1 DEF IInv, ErstlaufTreu, ZaehlerHatArtefakt
    <3>2. CASE fach # 0
      BY <3>2, <1>1, <1>8 DEF IInv, ErstInv
    <3> QED
      BY <3>1, <3>2
  <2> QED
    BY <1>1, <1>4, <2>1 DEF IInv, ErstInv, Versorgt, platte, pumpe
<1>15. BestandHatArtefakt' /\ ZaehlerHatBau' /\ ErstlaufTreu' /\ Unterwegs'
  BY <1>1, <1>4 DEF IInv, BestandHatArtefakt, ZaehlerHatBau, ErstlaufTreu,
     ZaehlerHatArtefakt, Unterwegs, Versorgt, platte, pumpe
<1> QED
  BY <1>9, <1>10, <1>11, <1>12, <1>13, <1>14, <1>15 DEF IInv

\* The binary was handled before: nothing but the window learns of it.
LEMMA AtomUebersprungenStep ==
  ASSUME IInv, NEW a \in Atome, AtomUebersprungen(a) PROVE IInv'
<1>1. TypeOK'
  BY DEF AtomUebersprungen, IInv, TypeOK, planer, platte, pumpe
<1>2. FensterInv'
  BY DEF AtomUebersprungen, IInv, FensterInv, platte
<1> QED
  BY <1>1, <1>2 DEF AtomUebersprungen, IInv, BestandHatArtefakt, ZaehlerHatBau,
     ErstlaufTreu, ZaehlerHatArtefakt, Unterwegs, ZaehlwerkInv, ErstInv,
     Versorgt, platte, pumpe,
     PlanerInv, Vorn, StandInv, planer

LEMMA AtomGebautStep == ASSUME IInv, NEW a \in Atome, AtomGebaut(a) PROVE IInv'
<1>1. /\ queue' \in Seq(Atome)
      /\ {queue'[i] : i \in 1 .. Len(queue')} =
            {queue[i] : i \in 1 .. Len(queue)} \cup {a}
  BY DEF AtomGebaut, IInv, TypeOK
<1>2. Versorgt' = Versorgt \cup {a}
  BY <1>1 DEF AtomGebaut, Versorgt
<1>3. fresh' \subseteq fresh \cup {a}
  BY DEF AtomGebaut, observe
<1>4. TypeOK'
  BY <1>1, <1>3 DEF AtomGebaut, IInv, TypeOK, planer
<1>5. FensterInv'
  BY DEF AtomGebaut, IInv, FensterInv
<1>6. Unterwegs' /\ ErstInv'
  BY <1>2, <1>3 DEF AtomGebaut, IInv, Unterwegs, ErstInv
<1> QED
  BY <1>4, <1>5, <1>6 DEF AtomGebaut, IInv, BestandHatArtefakt, ZaehlerHatBau,
     ErstlaufTreu, ZaehlerHatArtefakt, ZaehlwerkInv,
     PlanerInv, Vorn, StandInv, planer

LEMMA AtomGescheitertStep ==
  ASSUME IInv, NEW a \in Atome, AtomGescheitert(a) PROVE IInv'
<1>1. TypeOK'
  BY DEF AtomGescheitert, IInv, TypeOK, planer, platte, pumpe
<1>2. FensterInv'
  BY DEF AtomGescheitert, IInv, FensterInv, platte
<1> QED
  BY <1>1, <1>2 DEF AtomGescheitert, IInv, BestandHatArtefakt, ZaehlerHatBau,
     ErstlaufTreu, ZaehlerHatArtefakt, Unterwegs, ZaehlwerkInv, ErstInv,
     Versorgt, platte, pumpe,
     PlanerInv, Vorn, StandInv, planer

LEMMA FensterGebautStep == ASSUME IInv, FensterGebaut PROVE IInv'
<1>1. TypeOK'
  BY DEF FensterGebaut, IInv, TypeOK, planer, platte, pumpe
<1>2. FensterInv'
  BY DEF FensterGebaut, IInv, FensterInv, platte
<1> QED
  BY <1>1, <1>2 DEF FensterGebaut, IInv, BestandHatArtefakt, ZaehlerHatBau,
     ErstlaufTreu, ZaehlerHatArtefakt, Unterwegs, ZaehlwerkInv, ErstInv,
     Versorgt, platte, pumpe,
     PlanerInv, Vorn, StandInv, planer

-----------------------------------------------------------------------------
\* The pump moves a binary on, and never loses one.
LEMMA PumpeNimmtStep == ASSUME IInv, PumpeNimmt PROVE IInv'
<1>1. /\ queue' \in Seq(Atome) /\ inflight' \in Atome
      /\ {queue[i] : i \in 1 .. Len(queue)} =
            {queue'[i] : i \in 1 .. Len(queue')} \cup {inflight'}
  <2>1. /\ queue \in Seq(Atome) /\ Len(queue) \in Nat /\ Len(queue) > 0
        /\ queue' = Tail(queue) /\ inflight' = queue[1]
    BY DEF PumpeNimmt, IInv, TypeOK
  <2>2. /\ queue' \in Seq(Atome) /\ Len(queue') = Len(queue) - 1
        /\ \A i \in 1 .. Len(queue') : queue'[i] = queue[i + 1]
        /\ inflight' \in Atome
    BY <2>1
  <2>3. ASSUME NEW i \in 1 .. Len(queue)
        PROVE  queue[i] \in {queue'[j] : j \in 1 .. Len(queue')} \cup {inflight'}
    <3>1. CASE i = 1
      BY <3>1, <2>1
    <3>2. CASE i > 1
      <4>1. i - 1 \in 1 .. Len(queue') /\ queue'[i - 1] = queue[i]
        BY <3>2, <2>1, <2>2
      <4> QED
        BY <4>1
    <3> QED
      BY <3>1, <3>2, <2>1
  <2>4. ASSUME NEW j \in 1 .. Len(queue')
        PROVE  queue'[j] \in {queue[i] : i \in 1 .. Len(queue)}
    <3>1. j + 1 \in 1 .. Len(queue) /\ queue'[j] = queue[j + 1]
      BY <2>1, <2>2
    <3> QED
      BY <3>1
  <2> QED
    BY <2>1, <2>2, <2>3, <2>4
<1>2. Versorgt \ {Aus} \subseteq Versorgt'
  BY <1>1 DEF PumpeNimmt, Versorgt, platte
<1>3. fresh \subseteq Atome /\ lokal \subseteq Atome /\ Aus \notin Atome
  BY DEF IInv, TypeOK, Aus, Atome
<1>4. TypeOK'
  BY <1>1 DEF PumpeNimmt, IInv, TypeOK, planer, platte, lauf
<1>5. Unterwegs' /\ ErstInv'
  BY <1>2, <1>3 DEF PumpeNimmt, IInv, Unterwegs, ErstInv, platte, lauf
<1> QED
  BY <1>4, <1>5 DEF PumpeNimmt, IInv, BestandHatArtefakt, ZaehlerHatBau,
     ErstlaufTreu, ZaehlerHatArtefakt, FensterInv, ZaehlwerkInv, platte, lauf,
     PlanerInv, Vorn, StandInv, planer

\* A push books its binary as stored or as failed.
LEMMA GepushtStep ==
  ASSUME IInv, PushGelingt \/ PushWirft PROVE IInv'
<1>1. /\ inflight \in Atome /\ inflight' = Aus /\ queue' = queue
      /\ store \subseteq store' /\ store' \subseteq store \cup {inflight}
      /\ failed \subseteq failed' /\ failed' \subseteq failed \cup {inflight}
      /\ inflight \in store' \cup failed'
      /\ UNCHANGED <<lokal, bestand, zaehler, lauf, planer>>
  BY DEF PushGelingt, PushWirft, IInv, TypeOK
<1>2. Versorgt \subseteq Versorgt'
  BY <1>1 DEF Versorgt
<1>3. TypeOK'
  BY <1>1 DEF IInv, TypeOK, lauf, planer
<1>4. Unterwegs' /\ ErstInv'
  <2>1. inflight # Aus
    BY <1>1 DEF Aus, Atome
  <2>2. pc # "aus"
    BY <2>1 DEF IInv, Unterwegs
  <2> QED
    BY <1>1, <1>2, <2>2 DEF IInv, Unterwegs, ErstInv, lauf
<1> QED
  BY <1>1, <1>3, <1>4 DEF IInv, BestandHatArtefakt, ZaehlerHatBau, ErstlaufTreu,
     ZaehlerHatArtefakt, FensterInv, ZaehlwerkInv, lauf,
     PlanerInv, Vorn, StandInv, planer

-----------------------------------------------------------------------------
\* What a window without failure is known to hold once the pump is empty.
LEMMA FensterVollzugStep == ASSUME IInv, FensterVollzug PROVE IInv'
<1>1. /\ pc = "vollzug" /\ fach \in 1 .. Faecher /\ Faecher \in Nat
      /\ fach \in Nat \ {0}
  BY FaecherFacts DEF FensterVollzug, IInv, TypeOK, FensterInv
<1>2. /\ Fach(fach) \subseteq Atome
      /\ Front(fach) \in 0 .. N
      /\ Front(fach - 1) + Cardinality(Fach(fach)) = Front(fach)
      /\ Praefix(Front(fach)) = Praefix(Front(fach - 1)) \cup Fach(fach)
  BY <1>1, FachFacts
<1>3. pc' = "fenster"
  BY DEF FensterVollzug
<1>4. UNCHANGED <<store, lokal, bestand, laeufe, lager, fresh, fach, offen, bauFehl,
                  queue, inflight, failed, pcPlan, ab, gestreamt, planqueue, resume>>
  BY DEF FensterVollzug, planer, pumpe
<1>5. ASSUME intakt, intakt'
      PROVE  /\ Leergepumpt /\ ~bauFehl /\ failed = {}
             /\ kompiliert' = Front(fach)
             /\ zaehler' \in {zaehler, Front(fach)}
  <2>1. /\ Leergepumpt /\ ~bauFehl /\ failed = {}
        /\ kompiliert' = kompiliert + Cardinality(Fach(fach))
        /\ zaehler' \in {zaehler, kompiliert'}
    BY <1>5 DEF FensterVollzug
  <2>2. kompiliert = Front(fach - 1)
    BY <1>1, <1>5 DEF IInv, ZaehlwerkInv
  <2> QED
    BY <1>2, <2>1, <2>2
<1>6. ~(intakt /\ intakt') => UNCHANGED <<zaehler, kompiliert>> /\ ~intakt'
  BY DEF FensterVollzug
<1>7. ASSUME intakt, intakt'
      PROVE  Fach(fach) \subseteq lokal \cup lager
  BY <1>1, <1>5, <1>7 DEF IInv, FensterInv
<1>8. ASSUME intakt, intakt'
      PROVE  Praefix(Front(fach)) \subseteq lokal \cup bestand
  BY <1>1, <1>2, <1>7, <1>8 DEF IInv, ZaehlwerkInv, Unterwegs
<1>9. ASSUME intakt, intakt', laeufe <= 1
      PROVE  Praefix(Front(fach)) \subseteq store
  <2>1. lokal \subseteq store \cup {Aus}
    BY <1>1, <1>5, <1>9 DEF IInv, ErstInv, Versorgt, Leergepumpt
  <2>2. Aus \notin lokal
    BY DEF IInv, TypeOK, Aus, Atome
  <2>3. lager \subseteq store
    BY DEF IInv, Unterwegs, BestandHatArtefakt
  <2>4. Praefix(Front(fach - 1)) \subseteq store
    BY <1>1, <1>9 DEF IInv, ErstInv, ZaehlwerkInv
  <2> QED
    BY <1>2, <1>7, <1>9, <2>1, <2>2, <2>3, <2>4
<1>10. TypeOK'
  <2>1. kompiliert' \in 0 .. N /\ zaehler' \in 0 .. N
    <3>1. CASE intakt /\ intakt'
      BY <3>1, <1>2, <1>5 DEF IInv, TypeOK
    <3>2. CASE ~(intakt /\ intakt')
      BY <3>2, <1>6 DEF IInv, TypeOK
    <3> QED
      BY <3>1, <3>2
  <2>2. intakt' \in BOOLEAN
    BY DEF FensterVollzug, IInv, TypeOK
  <2> QED
    BY <1>3, <1>4, <2>1, <2>2 DEF IInv, TypeOK
<1>11. BestandHatArtefakt' /\ Unterwegs' /\ FensterInv' /\ PlanerInv'
  BY <1>1, <1>3, <1>4 DEF IInv, BestandHatArtefakt, Unterwegs, FensterInv, Versorgt,
     PlanerInv, Vorn
<1>12. CASE intakt /\ intakt'
  <2>1. ZaehlerHatBau'
    BY <1>4, <1>5, <1>8, <1>12 DEF IInv, ZaehlerHatBau
  <2>2. ErstlaufTreu'
    BY <1>4, <1>5, <1>9, <1>12 DEF IInv, ErstlaufTreu, ZaehlerHatArtefakt
  <2>3. ZaehlwerkInv'
    BY <1>1, <1>3, <1>4, <1>5, <1>8, <1>12 DEF ZaehlwerkInv
  <2>4. ErstInv'
    BY <1>1, <1>3, <1>4, <1>5, <1>9, <1>12 DEF IInv, ErstInv, Versorgt
  <2>5. StandInv'
    <3>1. \E f \in 0 .. Faecher : zaehler' = Front(f)
      BY <1>1, <1>5, <1>12 DEF IInv, StandInv
    <3>2. kompiliert = Front(fach - 1) /\ kompiliert' = Front(fach)
      BY <1>1, <1>5, <1>12 DEF IInv, ZaehlwerkInv
    <3>3. ab # 0 => zaehler' <= kompiliert'
      <4>1. ab # 0 => zaehler <= kompiliert
        BY <1>1, <1>12 DEF IInv, StandInv
      <4>2. zaehler \in 0 .. N /\ kompiliert \in 0 .. N
        BY DEF IInv, TypeOK
      <4>3. kompiliert <= kompiliert'
        BY <1>1, <3>2, FrontMonotone
      <4> QED
        BY <1>2, <1>5, <1>12, <3>2, <4>1, <4>2, <4>3, BauLaufConstantsOK
    <3> QED
      BY <1>1, <1>4, <3>1, <3>3 DEF StandInv
  <2> QED
    BY <1>10, <1>11, <2>1, <2>2, <2>3, <2>4, <2>5 DEF IInv
<1>13. CASE ~(intakt /\ intakt')
  <2>1. ZaehlerHatBau' /\ ErstlaufTreu' /\ ZaehlwerkInv' /\ StandInv'
    BY <1>1, <1>4, <1>6, <1>13
    DEF IInv, ZaehlerHatBau, ErstlaufTreu, ZaehlerHatArtefakt, ZaehlwerkInv, StandInv
  <2>2. ErstInv'
    BY <1>1, <1>4, <1>6, <1>13 DEF IInv, ErstInv, Versorgt
  <2> QED
    BY <1>10, <1>11, <2>1, <2>2 DEF IInv
<1> QED
  BY <1>12, <1>13

LEMMA FensterEndeStep == ASSUME IInv, FensterEnde PROVE IInv'
<1>1. TypeOK'
  BY DEF FensterEnde, IInv, TypeOK, planer, platte, pumpe
<1> QED
  BY <1>1 DEF FensterEnde, IInv, BestandHatArtefakt, ZaehlerHatBau,
     ErstlaufTreu, ZaehlerHatArtefakt, Unterwegs, FensterInv, ZaehlwerkInv,
     ErstInv, Versorgt, platte, pumpe,
     PlanerInv, Vorn, StandInv, planer

\* With the pump empty and the failed pushes dropped, what is left to register
\* is in the store.
LEMMA PumpeSchliesstStep == ASSUME IInv, PumpeSchliesst PROVE IInv'
<1>1. fresh \ failed \subseteq store
  <2>1. fresh \subseteq store \cup failed \cup {Aus}
    BY DEF PumpeSchliesst, Leergepumpt, IInv, Unterwegs, Versorgt
  <2>2. Aus \notin fresh
    BY DEF IInv, TypeOK, Aus, Atome
  <2> QED
    BY <2>1, <2>2
<1>2. TypeOK'
  BY DEF PumpeSchliesst, IInv, TypeOK, planer, platte, pumpe
<1>3. Unterwegs'
  BY <1>1 DEF PumpeSchliesst, IInv, Unterwegs, Versorgt, platte, pumpe
<1> QED
  BY <1>2, <1>3 DEF PumpeSchliesst, IInv, BestandHatArtefakt, ZaehlerHatBau,
     ErstlaufTreu, ZaehlerHatArtefakt, FensterInv, ZaehlwerkInv, ErstInv,
     Versorgt, platte, pumpe,
     PlanerInv, Vorn, StandInv, planer

LEMMA EndeStep == ASSUME IInv, LaufEnde \/ Absturz PROVE IInv'
<1>1. laeufe > 0
  BY DEF IInv, TypeOK, ErstInv, LaufEnde, Absturz
<1>2. /\ Ruhe /\ laeufe' = laeufe /\ lokal' = lokal /\ zaehler' = zaehler
      /\ store \subseteq store' /\ store' \subseteq Atome
      /\ bestand \subseteq bestand' /\ bestand' \subseteq store'
  BY DEF IInv, TypeOK, BestandHatArtefakt, Unterwegs, LaufEnde, Absturz
<1> QED
  BY <1>1, <1>2, RuheStep

LEMMA StotterStep == ASSUME IInv, UNCHANGED vars PROVE IInv'
  BY DEF vars, platte, lauf, planer, pumpe, IInv, TypeOK, BestandHatArtefakt,
     ZaehlerHatBau, ErstlaufTreu, ZaehlerHatArtefakt, Unterwegs, FensterInv,
     PlanerInv, Vorn, ZaehlwerkInv, StandInv, ErstInv, Versorgt

LEMMA NextIInv == ASSUME IInv, [Next]_vars PROVE IInv'
<1>1. CASE Treiber
  BY <1>1, LaufStartStep, FensterBeginnStep, FensterGebautStep,
     FensterVollzugStep, FensterEndeStep, PumpeSchliesstStep, EndeStep
  DEF Treiber
<1>2. CASE Pool
  BY <1>2, AtomUebersprungenStep, AtomGebautStep, AtomGescheitertStep DEF Pool
<1>3. CASE Pumpe
  BY <1>3, PumpeNimmtStep, GepushtStep DEF Pumpe
<1>4. CASE Absturz
  BY <1>4, EndeStep
<1>5. CASE Planer
  BY <1>5, PlanLiestStep, PlanMeldetStep, PlanSchiebtStep, PlanEndeStep DEF Planer
<1>6. CASE UNCHANGED vars
  BY <1>6, StotterStep
<1> QED
  BY <1>1, <1>2, <1>3, <1>4, <1>5, <1>6 DEF Next

-----------------------------------------------------------------------------
(***************************************************************************)
(* The theorems                                                            *)
(***************************************************************************)

\* The invariant holds along every chain of runs, crashes and resumptions.
THEOREM Invariance == Spec => []IInv
  BY InitIInv, NextIInv, PTL DEF Spec

\* The variables of the runs, of the pump and of what survives keep their
\* types (run_planer_driven_provision, AsyncPushPump).
THEOREM TypeCorrect == Spec => []TypeOK
<1>1. IInv => TypeOK
  BY DEF IInv
<1> QED
  BY <1>1, Invariance, PTL

\* No entry of the Bestandslog without its artifact in the store: neither a
\* failed push nor a crash between push and flush leaves one behind.
THEOREM EntriesHaveArtifacts == Spec => []BestandHatArtefakt
<1>1. IInv => BestandHatArtefakt
  BY DEF IInv
<1> QED
  BY <1>1, Invariance, PTL

\* The persisted counter never jumps over a window with a failed build,
\* whatever run wrote it and whatever run resumes from it.
THEOREM CounterCoversBuilds == Spec => []ZaehlerHatBau
<1>1. IInv => ZaehlerHatBau
  BY DEF IInv
<1> QED
  BY <1>1, Invariance, PTL

\* In a first run the counter moves only past windows whose artifacts have
\* reached the store (push_vollzug).
THEOREM FirstRunIsFaithful == Spec => []ErstlaufTreu
<1>1. IInv => ErstlaufTreu
  BY DEF IInv
<1> QED
  BY <1>1, Invariance, PTL

\* Only a window that was closed moves the counter, from where the planner
\* resumed: it goes back in no run but one that could not read it.
THEOREM CounterNeverBack == Spec => ZaehlerFaelltNicht
<1>1. ASSUME IInv, [Next]_vars PROVE zaehler' < zaehler => ab = 0
  <2>1. SUFFICES ASSUME zaehler' < zaehler, ab # 0 PROVE FALSE
    OBVIOUS
  <2>2. zaehler \in 0 .. N /\ kompiliert \in 0 .. N /\ zaehler' # zaehler
    BY <2>1, <1>1 DEF IInv, TypeOK
  <2>3. CASE FensterVollzug
    <3>1. /\ intakt /\ zaehler' = kompiliert + Cardinality(Fach(fach)) /\ pc = "vollzug"
          /\ fach \in Nat \ {0}
      BY <2>2, <2>3, <1>1, FaecherFacts DEF FensterVollzug, IInv, TypeOK, FensterInv
    <3>2. zaehler <= kompiliert
      BY <2>1, <3>1, <1>1 DEF IInv, StandInv
    <3>3. kompiliert = Front(fach - 1) /\ Front(fach - 1) <= Front(fach)
      BY <3>1, <1>1, FrontMonotone DEF IInv, ZaehlwerkInv
    <3>4. kompiliert + Cardinality(Fach(fach)) = Front(fach) /\ Front(fach) \in 0 .. N
      BY <3>1, <3>3, FachFacts
    <3> QED
      BY <2>1, <2>2, <3>1, <3>2, <3>3, <3>4, BauLaufConstantsOK
  <2>4. CASE ~FensterVollzug
    BY <2>2, <2>4, <1>1 DEF Next, Treiber, Planer, Pool, Pumpe, LaufStart, FensterBeginn,
       FensterGebaut, FensterEnde, PumpeSchliesst, LaufEnde, Absturz, PlanLiest, PlanMeldet,
       PlanSchiebt, PlanEnde, AtomUebersprungen, AtomGebaut, AtomGescheitert, PumpeNimmt,
       PushGelingt, PushWirft, vars, platte
  <2> QED
    BY <2>3, <2>4
<1> QED
  BY <1>1, Invariance, PTL DEF Spec, ZaehlerFaelltNicht

-----------------------------------------------------------------------------
(***************************************************************************)
(* The build pool                                                          *)
(*                                                                         *)
(* BauLauf has the pool at the granularity of one binary; BauPool has what *)
(* goes on inside it.  Its proofs need who holds which job (ArbeitInv,     *)
(* EinzelnInv, VergebenInv), what has been reported (MeldeInv), and that   *)
(* binary and sidecar of an undisturbed job belong together whenever       *)
(* nobody is between the two (PaarInv).                                    *)
(***************************************************************************)
\* The workers between the admission and the release of their memory.
Zugelassene == {w \in Workers :
  pcArbeiter[w] \in {"baut", "sidecar", "schreibt", "gelungen", "gescheitert", "gibtFrei"}}

\* The type invariant in two parts, since the provers count by lemma only.
PoolTypen ==
  /\ dll \in [Jobs -> Fingerprint \cup {Ohne, Halb}]
  /\ sidecar \in [Jobs -> Fingerprint \cup {Ohne, Halb}]
  /\ poolLaeufe \in 0 .. MaxPoolLaeufe /\ erwartet \in Fingerprint \cup {Ohne}
  /\ next \in Nat /\ active \in Nat /\ baseline_free \in RamWerte \cup {0}
  /\ pcArbeiter \in [Workers ->
         {"holt", "prueft", "zulassung", "schlaeft", "baut", "sidecar",
          "schreibt", "gelungen", "gescheitert", "gibtFrei", "weckt", "aus"}]
  /\ job \in [Workers -> 0 .. K] /\ versuch \in [Workers -> 0 .. MaxVersuche]
  /\ ergebnis \in [Jobs -> {"offen", "gesperrt", "skip", "ok", "fehler"}]
  /\ gemeldet \in [Jobs -> Nat] /\ gestoert \subseteq Jobs

Zahl == active = Cardinality(Zugelassene)

\* What a worker holds is its own open job, and between the compiler and the
\* sidecar the binary is the one that this run has built.
ArbeitAn(w) ==
  /\ HatJob(w) => job[w] \in Jobs /\ job[w] < next /\ ergebnis[job[w]] = "offen"
  /\ ~HatJob(w) \/ pcArbeiter[w] \in {"prueft", "zulassung", "schlaeft"} => versuch[w] = 0
  /\ pcArbeiter[w] = "baut" => versuch[w] < MaxVersuche
  /\ pcArbeiter[w] = "schreibt" => erwartet # Ohne
  /\ pcArbeiter[w] \in {"sidecar", "schreibt"} /\ erwartet # Ohne => dll[job[w]] = erwartet

ArbeitInv == \A w \in Workers : ArbeitAn(w)

EinzelnInv == \A v, w \in Workers :
  HatJob(v) /\ HatJob(w) /\ job[v] = job[w] => v = w

VergebenInv == ~Ruht =>
  /\ \A j \in Jobs : j < next /\ ergebnis[j] = "offen" =>
       \E w \in Workers : HatJob(w) /\ job[w] = j
  /\ (\E w \in Workers : pcArbeiter[w] = "aus") => next >= K

\* A result has been reported once, and none is there of a job not yet taken.
MeldeInv == \A j \in Jobs :
  /\ gemeldet[j] = IF ergebnis[j] = "offen" THEN 0 ELSE 1
  /\ j >= next => ergebnis[j] = "offen"

\* Where nothing came between binary and sidecar, a whole sidecar is that of the
\* binary, if there is one.
PaarInv == \A j \in Jobs \ gestoert :
  /\ sidecar[j] \in Fingerprint
  /\ \A w \in Workers : ~(pcArbeiter[w] = "sidecar" /\ job[w] = j)
  => dll[j] \in {sidecar[j], Ohne}

\* The inductive invariant.
PoolInv == /\ PoolTypen
           /\ Zahl
           /\ ArbeitInv
           /\ EinzelnInv
           /\ VergebenInv
           /\ MeldeInv
           /\ AdmissionCap
           /\ PaarInv

-----------------------------------------------------------------------------
USE BauPoolConstantsOK

LEMMA TypTeile == PoolTypeOK <=> PoolTypen /\ Zahl
  BY DEF PoolTypeOK, PoolTypen, Zahl, Zugelassene

LEMMA ZahlGleich ==
  ASSUME Zahl, active' = active, Zugelassene' = Zugelassene
  PROVE  Zahl'
  BY DEF Zahl

LEMMA ZahlMehr ==
  ASSUME Zahl, NEW w \in Workers, w \notin Zugelassene,
         active' = active + 1, Zugelassene' = Zugelassene \cup {w}
  PROVE  Zahl'
<1>1. IsFiniteSet(Zugelassene)
  BY FS_Subset DEF Zugelassene
<1> QED
  BY <1>1, FS_AddElement DEF Zahl

LEMMA ZahlWeniger ==
  ASSUME Zahl, NEW w \in Workers, w \in Zugelassene
  PROVE  /\ active >= 1
         /\ active' = active - 1 /\ Zugelassene' = Zugelassene \ {w} => Zahl'
<1>1. IsFiniteSet(Zugelassene)
  BY FS_Subset DEF Zugelassene
<1>2. Cardinality(Zugelassene \ {w}) = Cardinality(Zugelassene) - 1
  BY <1>1, FS_RemoveElement
<1>3. IsFiniteSet(Zugelassene \ {w})
  BY <1>1, FS_Subset
<1>4. Cardinality(Zugelassene \ {w}) \in Nat /\ Cardinality(Zugelassene) \in Nat
  BY <1>1, <1>3, FS_CardinalityType
<1>5. active >= 1 /\ active - 1 = Cardinality(Zugelassene \ {w})
  BY <1>2, <1>4 DEF Zahl
<1> QED
  BY <1>5 DEF Zahl

\* When nobody is admitted the count is zero.
LEMMA ZahlLeer ==
  ASSUME active' = 0, Zugelassene' = {}
  PROVE  Zahl'
  BY FS_EmptySet DEF Zahl

-----------------------------------------------------------------------------
LEMMA PoolInitInv ==
  ASSUME PoolInit
  PROVE  PoolInv
<1>1. PoolTypen
  BY DEF PoolInit, PoolTypen, Jobs
<1>2. Zahl
  <2>1. Zugelassene = {}
    BY DEF PoolInit, Zugelassene
  <2> QED
    BY <2>1, FS_EmptySet DEF Zahl, PoolInit
<1>3. ArbeitInv /\ EinzelnInv /\ VergebenInv
  BY DEF PoolInit, ArbeitInv, ArbeitAn, EinzelnInv, VergebenInv, HatJob, Ruht
<1>4. MeldeInv /\ PaarInv /\ AdmissionCap
  BY DEF PoolInit, MeldeInv, PaarInv, AdmissionCap
<1> QED
  BY <1>1, <1>2, <1>3, <1>4 DEF PoolInv

\* Nothing but the run's own state begins anew with a run.
LEMMA ProvisionStep ==
  ASSUME PoolInv, NEW e \in Fingerprint \cup {Ohne}, provision_all(e)
  PROVE  PoolInv'
<1> USE DEF PoolInv, provision_all, LaufBeginn, poolPlatte
<1>1. PoolTypen'
  BY DEF PoolTypen, Jobs
<1>2. Zahl'
  <2>1. Zugelassene' = {}
    BY DEF Zugelassene
  <2> QED
    BY <2>1, ZahlLeer
<1>3. ArbeitInv' /\ EinzelnInv'
  BY DEF ArbeitInv, ArbeitAn, EinzelnInv, HatJob
<1>4. VergebenInv'
  BY DEF VergebenInv, HatJob, Ruht, Jobs
<1>5. MeldeInv' /\ AdmissionCap'
  BY DEF MeldeInv, AdmissionCap
<1>6. PaarInv'
  BY DEF PaarInv, Ruht
<1> QED
  BY <1>1, <1>2, <1>3, <1>4, <1>5, <1>6

LEMMA HoleJobStep ==
  ASSUME PoolInv, NEW w \in Workers, hole_job(w)
  PROVE  PoolInv'
<1> USE DEF PoolInv, hole_job, Geht, poolPlatte, poolLauf
<1>1. PoolTypen'
  <2>1. K \in 0 .. K /\ (next < K => next \in 0 .. K)
    BY DEF PoolTypen
  <2>2. job' \in [Workers -> 0 .. K] /\ next' \in Nat
    BY <2>1 DEF PoolTypen
  <2> QED
    BY <2>2 DEF PoolTypen
<1>2. Zahl'
  <2>1. Zugelassene' = Zugelassene
    BY DEF Zugelassene, PoolTypen
  <2> QED
    BY <2>1, ZahlGleich
<1>3. ArbeitInv'
  <2> SUFFICES ASSUME NEW v \in Workers PROVE ArbeitAn(v)'
    BY DEF ArbeitInv
  <2>1. CASE v = w
    <3>1. versuch[v] = 0 /\ next \in Nat
      BY <2>1 DEF ArbeitInv, ArbeitAn, HatJob, PoolTypen
    <3>2. CASE next < K
      <4>1. pcArbeiter'[v] = "prueft" /\ job'[v] = next
        BY <2>1, <3>2 DEF PoolTypen
      <4>2. next \in Jobs /\ next < next' /\ versuch'[v] = 0
        BY <3>1, <3>2 DEF Jobs
      <4>3. ergebnis'[next] = "offen"
        BY <3>1, <4>2 DEF MeldeInv
      <4> QED
        BY <4>1, <4>2, <4>3 DEF ArbeitAn, HatJob
    <3>3. CASE ~(next < K)
      <4>1. pcArbeiter'[v] = "aus" /\ versuch'[v] = 0
        BY <2>1, <3>1, <3>3 DEF PoolTypen
      <4> QED
        BY <4>1 DEF ArbeitAn, HatJob
    <3> QED
      BY <3>2, <3>3
  <2>2. CASE v # w
    <3>1. pcArbeiter'[v] = pcArbeiter[v] /\ job'[v] = job[v] /\ job[v] \in Int /\ next \in Nat
      BY <2>2 DEF PoolTypen
    <3>2. job[v] < next => job[v] < next'
      BY <3>1
    <3>3. ArbeitAn(v)
      BY DEF ArbeitInv
    <3> QED
      BY <3>1, <3>2, <3>3 DEF ArbeitAn, HatJob
  <2> QED
    BY <2>1, <2>2
<1>4. EinzelnInv'
  BY DEF ArbeitInv, ArbeitAn, EinzelnInv, HatJob, PoolTypen, Jobs
<1>5. VergebenInv'
  <2>0. ~Ruht /\ next \in Nat
    BY DEF Ruht, PoolTypen
  <2>1. ASSUME NEW j \in Jobs, j < next', ergebnis'[j] = "offen"
        PROVE  \E v \in Workers : HatJob(v)' /\ job'[v] = j
    <3>1. CASE j < next
      <4>1. PICK v \in Workers : HatJob(v) /\ job[v] = j
        BY <2>0, <2>1, <3>1 DEF VergebenInv
      <4> QED
        BY <4>1 DEF HatJob, PoolTypen
    <3>2. CASE ~(j < next)
      <4>1. j = next /\ next < K
        BY <2>0, <2>1, <3>2 DEF Jobs
      <4>2. pcArbeiter'[w] = "prueft" /\ job'[w] = j
        BY <4>1 DEF PoolTypen
      <4> QED
        BY <4>2 DEF HatJob
    <3> QED
      BY <3>1, <3>2
  <2>2. ASSUME NEW v \in Workers, pcArbeiter'[v] = "aus"
        PROVE  next' >= K
    BY <2>0, <2>2 DEF VergebenInv, PoolTypen
  <2> QED
    BY <2>1, <2>2 DEF VergebenInv
<1>6. MeldeInv' /\ AdmissionCap'
  BY DEF MeldeInv, AdmissionCap, PoolTypen, Jobs
<1>7. PaarInv'
  BY DEF PaarInv, PoolTypen
<1> QED
  BY <1>1, <1>2, <1>3, <1>4, <1>5, <1>6, <1>7

\* A job is finalized: it is no longer open and in nobody's hands.
LEMMA FinalizeStep ==
  ASSUME PoolInv, NEW w \in Workers,
         NEW von \in {"prueft", "gelungen", "gescheitert"},
         NEW nach \in {"holt", "gibtFrei"},
         von = "prueft" <=> nach = "holt", Geht(w, von, nach),
         NEW r \in {"gesperrt", "skip", "ok", "fehler"}, finalize(w, r),
         UNCHANGED <<poolPlatte, poolLauf, next, active>>
  PROVE  PoolInv'
<1> USE DEF PoolInv, finalize, Geht, poolPlatte, poolLauf
<1>0. HatJob(w) /\ job[w] \in Jobs /\ ergebnis[job[w]] = "offen"
  BY DEF ArbeitInv, ArbeitAn, HatJob
<1>1. PoolTypen'
  <2>1. /\ pcArbeiter' \in [Workers ->
              {"holt", "prueft", "zulassung", "schlaeft", "baut", "sidecar",
               "schreibt", "gelungen", "gescheitert", "gibtFrei", "weckt", "aus"}]
        /\ job' \in [Workers -> 0 .. K] /\ versuch' \in [Workers -> 0 .. MaxVersuche]
    BY DEF PoolTypen
  <2>2. ergebnis' \in [Jobs -> {"offen", "gesperrt", "skip", "ok", "fehler"}]
    BY <1>0 DEF PoolTypen
  <2>3. gemeldet' \in [Jobs -> Nat]
    BY <1>0 DEF PoolTypen
  <2> QED
    BY <2>1, <2>2, <2>3 DEF PoolTypen
<1>2. Zahl'
  <2>1. Zugelassene' = Zugelassene
    BY DEF Zugelassene, PoolTypen
  <2> QED
    BY <2>1, ZahlGleich
<1>3. ArbeitInv'
  BY <1>0 DEF ArbeitInv, ArbeitAn, EinzelnInv, HatJob, PoolTypen, Jobs
<1>4. EinzelnInv'
  BY DEF EinzelnInv, HatJob, PoolTypen
<1>5. VergebenInv'
  BY <1>0 DEF VergebenInv, HatJob, Ruht, PoolTypen
<1>6. MeldeInv' /\ AdmissionCap'
  BY <1>0 DEF MeldeInv, AdmissionCap, ArbeitInv, ArbeitAn, HatJob, PoolTypen, Jobs
<1>7. PaarInv'
  BY DEF PaarInv, PoolTypen
<1> QED
  BY <1>1, <1>2, <1>3, <1>4, <1>5, <1>6, <1>7

\* Steps that only move workers on.
LEMMA UmschaltStep ==
  ASSUME PoolInv, PoolTypen', Zahl', AdmissionCap',
         UNCHANGED <<poolPlatte, poolLauf, next, job, versuch, ergebnis, gemeldet>>,
         \A v \in Workers :
           \/ pcArbeiter'[v] = pcArbeiter[v]
           \/ pcArbeiter[v] = "prueft" /\ pcArbeiter'[v] = "zulassung"
           \/ pcArbeiter[v] = "zulassung" /\ pcArbeiter'[v] \in {"baut", "schlaeft"}
           \/ pcArbeiter[v] = "schlaeft" /\ pcArbeiter'[v] = "zulassung"
           \/ pcArbeiter[v] = "gibtFrei" /\ pcArbeiter'[v] = "weckt"
           \/ pcArbeiter[v] = "weckt" /\ pcArbeiter'[v] = "holt"
  PROVE  PoolInv'
<1> USE DEF PoolInv, poolPlatte, poolLauf
<1>1. ArbeitInv'
  BY DEF ArbeitInv, ArbeitAn, HatJob, PoolTypen
<1>2. EinzelnInv'
  BY DEF EinzelnInv, HatJob
<1>3. VergebenInv'
  BY DEF VergebenInv, HatJob, Ruht
<1>4. MeldeInv'
  BY DEF MeldeInv
<1>5. PaarInv'
  BY DEF PaarInv
<1> QED
  BY <1>1, <1>2, <1>3, <1>4, <1>5

LEMMA MussBauenStep ==
  ASSUME PoolInv, NEW w \in Workers, muss_bauen(w) \/ Spurious(w)
  PROVE  PoolInv'
<1> USE DEF PoolInv, muss_bauen, Spurious, Geht, poolLauf
<1>1. PoolTypen'
  BY DEF PoolTypen, poolPlatte
<1>2. Zahl'
  <2>1. Zugelassene' = Zugelassene
    BY DEF Zugelassene, PoolTypen
  <2> QED
    BY <2>1, ZahlGleich
<1>3. AdmissionCap'
  BY DEF AdmissionCap
<1> QED
  BY <1>1, <1>2, <1>3, UmschaltStep DEF PoolTypen

LEMMA LasseZuStep ==
  ASSUME PoolInv, NEW w \in Workers, lasse_zu(w)
  PROVE  PoolInv'
<1> USE DEF PoolInv, lasse_zu, Geht, poolLauf
<1>1. PoolTypen'
  BY DEF PoolTypen, poolPlatte
<1>2. Zahl'
  <2>1. CASE active' = active /\ pcArbeiter'[w] = "schlaeft"
    <3>1. Zugelassene' = Zugelassene
      BY <2>1 DEF Zugelassene, PoolTypen
    <3> QED
      BY <2>1, <3>1, ZahlGleich
  <2>2. CASE active' = active + 1 /\ pcArbeiter'[w] = "baut"
    <3>1. Zugelassene' = Zugelassene \cup {w} /\ w \notin Zugelassene
      BY <2>2 DEF Zugelassene, PoolTypen
    <3> QED
      BY <2>2, <3>1, ZahlMehr
  <2> QED
    BY <2>1, <2>2 DEF PoolTypen
<1>3. AdmissionCap'
  BY DEF AdmissionCap, Zugelassen, PoolTypen
<1> QED
  BY <1>1, <1>2, <1>3, UmschaltStep DEF PoolTypen

\* Fewer builds need no more memory.
LEMMA WenigerSpeicher ==
  ASSUME NEW a \in Nat, a >= 1
  PROVE  (a - 1) * RamBudget + RamReserve <= a * RamBudget + RamReserve
<1>1. (a - 1) * RamBudget = a * RamBudget - RamBudget
  OBVIOUS
<1> QED
  BY <1>1

LEMMA GibFreiStep ==
  ASSUME PoolInv, NEW w \in Workers, gib_frei(w)
  PROVE  PoolInv'
<1> USE DEF PoolInv, gib_frei, Geht, poolLauf
<1>1. w \in Zugelassene /\ Zugelassene' = Zugelassene \ {w}
  BY DEF Zugelassene, PoolTypen
<1>2. active >= 1 /\ Zahl'
  BY <1>1, ZahlWeniger
<1>3. PoolTypen'
  BY <1>2 DEF PoolTypen, poolPlatte
<1>4. AdmissionCap'
  <2>1. active \in Nat /\ baseline_free \in Nat
    BY DEF PoolTypen
  <2>2. (active - 1) * RamBudget + RamReserve <= active * RamBudget + RamReserve
    BY <1>2, <2>1, WenigerSpeicher
  <2>3. (active - 1) * RamBudget \in Int /\ active * RamBudget \in Int
    BY <2>1
  <2> QED
    BY <2>1, <2>2, <2>3 DEF AdmissionCap
<1> QED
  BY <1>2, <1>3, <1>4, UmschaltStep DEF PoolTypen

LEMMA WeckeStep ==
  ASSUME PoolInv, NEW w \in Workers, wecke(w)
  PROVE  PoolInv'
<1> USE DEF PoolInv, wecke, poolLauf
<1>1. PoolTypen'
  BY DEF PoolTypen, poolPlatte
<1>2. Zahl'
  <2>1. Zugelassene' = Zugelassene
    BY DEF Zugelassene, PoolTypen
  <2> QED
    BY <2>1, ZahlGleich
<1>3. AdmissionCap'
  BY DEF AdmissionCap
<1> QED
  BY <1>1, <1>2, <1>3, UmschaltStep DEF PoolTypen

\* Only the owner of a job touches its binary and its sidecar.
LEMMA BaueStep ==
  ASSUME PoolInv, NEW w \in Workers, baue(w)
  PROVE  PoolInv'
<1> USE DEF PoolInv, baue, NachFehlversuch, Geht, poolLauf
<1>0. HatJob(w) /\ job[w] \in Jobs /\ versuch[w] < MaxVersuche
  BY DEF ArbeitInv, ArbeitAn, HatJob
<1>1. PoolTypen'
  BY <1>0 DEF PoolTypen
<1>2. Zahl'
  <2>1. Zugelassene' = Zugelassene
    BY DEF Zugelassene, PoolTypen
  <2> QED
    BY <2>1, ZahlGleich
<1>3. ArbeitInv'
  <2> SUFFICES ASSUME NEW v \in Workers PROVE ArbeitAn(v)'
    BY DEF ArbeitInv
  <2>1. CASE v = w
    BY <1>0, <2>1 DEF ArbeitInv, ArbeitAn, HatJob, PoolTypen
  <2>2. CASE v # w
    <3>1. pcArbeiter'[v] = pcArbeiter[v] /\ versuch'[v] = versuch[v]
      BY <2>2 DEF PoolTypen
    <3>2. HatJob(v) => job[v] # job[w]
      BY <1>0, <2>2 DEF EinzelnInv
    <3>3. HatJob(v) => job[v] \in Jobs
      BY DEF ArbeitInv, ArbeitAn
    <3>4. HatJob(v) => dll'[job[v]] = dll[job[v]]
      BY <1>0, <3>2, <3>3 DEF PoolTypen
    <3> QED
      BY <3>1, <3>4 DEF ArbeitInv, ArbeitAn, HatJob
  <2> QED
    BY <2>1, <2>2
<1>4. EinzelnInv'
  BY DEF EinzelnInv, HatJob, PoolTypen
<1>5. VergebenInv'
  BY DEF VergebenInv, HatJob, Ruht, PoolTypen
<1>6. MeldeInv' /\ AdmissionCap'
  BY DEF MeldeInv, AdmissionCap
<1>7. PaarInv'
  BY <1>0 DEF PaarInv, EinzelnInv, HatJob, PoolTypen
<1> QED
  BY <1>1, <1>2, <1>3, <1>4, <1>5, <1>6, <1>7

LEMMA SidecarStep ==
  ASSUME PoolInv, NEW w \in Workers,
         raeume(w) \/ oeffne_sidecar(w) \/ schreibe_sidecar(w)
  PROVE  PoolInv'
<1> USE DEF PoolInv, raeume, oeffne_sidecar, schreibe_sidecar, Geht, poolLauf
<1>0. HatJob(w) /\ job[w] \in Jobs
  BY DEF ArbeitInv, ArbeitAn, HatJob
<1>1. PoolTypen'
  BY <1>0 DEF PoolTypen
<1>2. Zahl'
  <2>1. Zugelassene' = Zugelassene
    BY DEF Zugelassene, PoolTypen
  <2> QED
    BY <2>1, ZahlGleich
<1>3. ArbeitInv'
  BY <1>0 DEF ArbeitInv, ArbeitAn, HatJob, PoolTypen
<1>4. EinzelnInv'
  BY DEF EinzelnInv, HatJob, PoolTypen
<1>5. VergebenInv'
  BY DEF VergebenInv, HatJob, Ruht, PoolTypen
<1>6. MeldeInv' /\ AdmissionCap'
  BY DEF MeldeInv, AdmissionCap
<1>7. PaarInv'
  BY <1>0 DEF PaarInv, ArbeitInv, ArbeitAn, EinzelnInv, HatJob, PoolTypen
<1> QED
  BY <1>1, <1>2, <1>3, <1>4, <1>5, <1>6, <1>7

LEMMA AbsturzStep ==
  ASSUME PoolInv, PoolAbsturz
  PROVE  PoolInv'
<1> USE DEF PoolInv, PoolAbsturz, poolLauf
<1>1. PoolTypen'
  <2>1. \A w \in Workers : pcArbeiter[w] \in {"baut", "sidecar"} => job[w] \in Jobs
    BY DEF ArbeitInv, ArbeitAn, HatJob
  <2>2. gestoert' \subseteq Jobs
    BY <2>1 DEF PoolTypen
  <2>3. dll' \in [Jobs -> Fingerprint \cup {Ohne, Halb}]
    BY DEF PoolTypen
  <2>4. /\ pcArbeiter' \in [Workers -> {"aus"}] /\ job' \in [Workers -> 0 .. K]
        /\ versuch' \in [Workers -> 0 .. MaxVersuche]
        /\ ergebnis' \in [Jobs -> {"offen"}] /\ gemeldet' \in [Jobs -> Nat]
    OBVIOUS
  <2> QED
    BY <2>2, <2>3, <2>4 DEF PoolTypen
<1>2. Zahl'
  <2>1. Zugelassene' = {}
    BY DEF Zugelassene
  <2> QED
    BY <2>1, ZahlLeer
<1>3. ArbeitInv' /\ EinzelnInv' /\ VergebenInv'
  BY DEF ArbeitInv, ArbeitAn, EinzelnInv, VergebenInv, HatJob, Ruht
<1>4. MeldeInv' /\ AdmissionCap'
  BY DEF MeldeInv, AdmissionCap
<1>5. PaarInv'
  BY DEF PaarInv, PoolTypen
<1> QED
  BY <1>1, <1>2, <1>3, <1>4, <1>5

-----------------------------------------------------------------------------
LEMMA PoolStotterStep ==
  ASSUME PoolInv, UNCHANGED poolVars
  PROVE  PoolInv'
<1> USE DEF PoolInv, poolVars, poolPlatte, poolLauf
<1>1. PoolTypen' /\ Zahl'
  BY DEF PoolTypen, Zahl, Zugelassene
<1>2. ArbeitInv' /\ EinzelnInv' /\ VergebenInv'
  BY DEF ArbeitInv, ArbeitAn, EinzelnInv, VergebenInv, HatJob, Ruht
<1>3. MeldeInv' /\ AdmissionCap' /\ PaarInv'
  BY DEF MeldeInv, AdmissionCap, PaarInv
<1> QED
  BY <1>1, <1>2, <1>3

LEMMA PoolNextInv ==
  ASSUME PoolInv, [PoolNext]_poolVars
  PROVE  PoolInv'
<1> SUFFICES ASSUME PoolNext PROVE PoolInv'
  BY PoolStotterStep
<1>1. ASSUME NEW w \in Workers, weise_ab(w) \/ ueberspringe(w) PROVE PoolInv'
  BY <1>1, FinalizeStep DEF weise_ab, ueberspringe
<1>2. ASSUME NEW w \in Workers, melde(w) PROVE PoolInv'
  BY <1>2, FinalizeStep DEF melde
<1> QED
  BY <1>1, <1>2, ProvisionStep, HoleJobStep, MussBauenStep, LasseZuStep, BaueStep,
     SidecarStep, GibFreiStep, WeckeStep, AbsturzStep DEF PoolNext, Arbeit

\* In a run that ends only with its jobs, what a worker holds is open and its
\* own, and the binary of an undisturbed job is the one its sidecar speaks of.
THEOREM PoolInvariance == PoolSpec => []PoolInv
<1>1. PoolInit => PoolInv
  BY PoolInitInv
<1>2. PoolInv /\ [PoolNext]_poolVars => PoolInv'
  BY PoolNextInv
<1> QED
  BY <1>1, <1>2, PTL DEF PoolSpec

\* A job that was taken and is open is in the hands of exactly one worker.
LEMMA EinBesitzer ==
  ASSUME PoolInv
  PROVE  EachOnce
<1>1. ASSUME ~Ruht, NEW j \in Jobs, j < next, ergebnis[j] = "offen"
      PROVE  Cardinality({w \in Workers : HatJob(w) /\ job[w] = j}) = 1
  <2>1. PICK v \in Workers : HatJob(v) /\ job[v] = j
    BY <1>1 DEF PoolInv, VergebenInv
  <2>2. {w \in Workers : HatJob(w) /\ job[w] = j} = {v}
    BY <2>1 DEF PoolInv, EinzelnInv
  <2> QED
    BY <2>2, FS_Singleton
<1> QED
  BY <1>1 DEF EachOnce, PoolInv, VergebenInv, MeldeInv

\* No job of a selection is lost or done twice (next.fetch_add and finalize,
\* build_orchestrator.hpp:743-755).
THEOREM JobsDoneOnce == PoolSpec => []EachOnce
<1>1. PoolInv => EachOnce
  BY EinBesitzer
<1>2. PoolSpec => []PoolInv
  BY PoolInvariance
<1> QED
  BY <1>1, <1>2, PTL

\* The admitted builds fit into the memory there was at the start, with any
\* number of workers and whatever the memory is later
\* (build_orchestrator.hpp:729-731).
THEOREM BuildsFitMemory == PoolSpec => []AdmissionCap
<1>1. PoolInv => AdmissionCap
  BY DEF PoolInv
<1>2. PoolSpec => []PoolInv
  BY PoolInvariance
<1> QED
  BY <1>1, <1>2, PTL

\* The types hold, and the counter of the admitted builds counts them
\* (active, build_orchestrator.hpp:887-913).
THEOREM PoolTypeCorrect == PoolSpec => []PoolTypeOK
<1>1. PoolInv => PoolTypeOK
  BY TypTeile DEF PoolInv
<1>2. PoolSpec => []PoolInv
  BY PoolInvariance
<1> QED
  BY <1>1, <1>2, PTL

\* What is skipped is a pair of binary and sidecar.
LEMMA SkipSchritt ==
  ASSUME PoolInv, [PoolNext]_poolVars
  PROVE  SkipRichtig
<1> SUFFICES ASSUME NEW j \in Jobs \ gestoert, ergebnis[j] = "offen", ergebnis'[j] = "skip"
             PROVE  /\ dll[j] \in Fingerprint
                    /\ dll[j].ident = erwartet.ident /\ dll[j].bvset \subseteq erwartet.bvset
  BY DEF SkipRichtig
<1>1. PICK w \in Workers : ueberspringe(w) /\ job[w] = j
  <2>1. PoolTypen
    BY DEF PoolInv
  <2>2. ~UNCHANGED ergebnis
    OBVIOUS
  <2>3. ASSUME NEW w \in Workers, NEW r \in {"gesperrt", "ok", "fehler"}, finalize(w, r)
        PROVE  FALSE
    BY <2>1, <2>3 DEF finalize, PoolTypen
  <2>4. ASSUME NEW w \in Workers, finalize(w, "skip")
        PROVE  job[w] = j
    BY <2>1, <2>4 DEF finalize, PoolTypen
  <2>5. ~(\E e \in Fingerprint \cup {Ohne} : provision_all(e))
    BY DEF provision_all, LaufBeginn
  <2>6. ~PoolAbsturz
    BY DEF PoolAbsturz
  <2>7. PICK w \in Workers : Arbeit(w)
    BY <2>2, <2>5, <2>6 DEF PoolNext, Spurious, poolVars
  <2>8. ueberspringe(w)
    <3>1. ~weise_ab(w) /\ ~melde(w)
      BY <2>3 DEF weise_ab, melde
    <3>2. ~(hole_job(w) \/ muss_bauen(w) \/ lasse_zu(w) \/ baue(w))
      BY <2>2 DEF hole_job, muss_bauen, lasse_zu, baue
    <3>3. ~(raeume(w) \/ oeffne_sidecar(w) \/ schreibe_sidecar(w))
      BY <2>2 DEF raeume, oeffne_sidecar, schreibe_sidecar
    <3>4. ~(gib_frei(w) \/ wecke(w))
      BY <2>2 DEF gib_frei, wecke
    <3> QED
      BY <2>7, <3>1, <3>2, <3>3, <3>4 DEF Arbeit
  <2> QED
    BY <2>4, <2>8 DEF ueberspringe
<1>2. \A v \in Workers : ~(pcArbeiter[v] = "sidecar" /\ job[v] = j)
  BY <1>1 DEF ueberspringe, Geht, PoolInv, EinzelnInv, HatJob
<1>3. sidecar[j] \in Fingerprint /\ dll[j] = sidecar[j]
  BY <1>1, <1>2 DEF ueberspringe, dll_is_current, PoolInv, PaarInv
<1>4. sidecar[j].ident = erwartet.ident /\ sidecar[j].bvset \subseteq erwartet.bvset
  BY <1>1 DEF ueberspringe, dll_is_current, recompute
<1> QED
  BY <1>3, <1>4

\* A skipped job has a binary of today's identity without a variant that is not
\* enabled today, over any number of runs, as long as nothing came between its
\* binary and its sidecar (dll_is_current, build_orchestrator.hpp:482).
THEOREM SkippedIsCurrent == PoolSpec => SkipIstAktuell
<1>1. PoolInv /\ [PoolNext]_poolVars => [SkipRichtig]_poolVars
  BY SkipSchritt
<1>2. PoolSpec => []PoolInv
  BY PoolInvariance
<1> QED
  BY <1>1, <1>2, PTL DEF PoolSpec, SkipIstAktuell
=============================================================================
