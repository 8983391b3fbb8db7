------------------------ MODULE AsyncPushPumpProofs ------------------------
(***************************************************************************)
(* Proofs about AsyncPushPump for every set of directories and of calling  *)
(* threads and every part size.                                            *)
(*                                                                         *)
(* EachOnce counts; that a push adds one to what is booked needs that no   *)
(* directory is in two places (Getrennt).  The barriers follow from it and *)
(* from what the waiting calls know: a drain waits for directories that    *)
(* were taken in (SollInv), a worker that has stopped left nothing behind  *)
(* and is the one the closing call joined (AusInv), and the markers fired  *)
(* lag behind the pushes by the one that is due (MarkenInv).               *)
(***************************************************************************)
EXTENDS AsyncPushPump, FiniteSetTheorems, TLAPS

wartend   == {queue[k] : k \in DOMAIN queue}
unterwegs == {in_flight} \ {Nichts}

\* No directory is in two places.
Getrennt ==
  /\ \A j, k \in DOMAIN queue : queue[j] = queue[k] => j = k
  /\ wartend \cap (gebucht \cup unterwegs) = {}
  /\ in_flight \notin gebucht
  /\ pushed \cap failed = {}

SollInv == \A d \in Drainer : soll[d] \subseteq Angenommen

AusInv ==
  /\ pcP = "aus" => closed /\ queue = <<>> /\ in_flight = Nichts /\ faellig = 0
  /\ \A c \in Closer : pcC[c] = "fertig" => pcP = "aus"

\* The full parts of n pushes.
Teile(n) == n \div PartSize

MarkenInv ==
  PartSize # 0 =>
    /\ \A k \in DOMAIN marken : marken[k] = k
    /\ Len(marken) + (IF faellig # 0 THEN 1 ELSE 0) = Teile(Cardinality(pushed))
    /\ faellig # 0 => faellig = Teile(Cardinality(pushed))
    /\ pcP = "marke" => faellig # 0

\* The inductive invariant.
IInv == /\ TypeOK
        /\ EachOnce
        /\ Getrennt
        /\ SollInv
        /\ AusInv
        /\ MarkenInv

-----------------------------------------------------------------------------
(***************************************************************************)
(* Counting                                                                *)
(***************************************************************************)
\* One push more fills a part exactly when the new count is a multiple of it.
LEMMA TeilSchritt ==
  ASSUME NEW n \in Nat, PartSize # 0
  PROVE  /\ Teile(n) \in Nat
         /\ part_to_mark(n + 1) \in Nat
         /\ part_to_mark(n + 1) # 0 =>
              part_to_mark(n + 1) = Teile(n + 1) /\ Teile(n + 1) = Teile(n) + 1
         /\ part_to_mark(n + 1) = 0 => Teile(n + 1) = Teile(n)
<1> DEFINE P == PartSize
           q == n \div P
           m == (n + 1) \div P
           r == n % P
           s == (n + 1) % P
<1>1. P \in Nat \ {0}
  BY PumpConstantsOK
<1>2. q \in Nat /\ r \in 0 .. P - 1 /\ n = P * q + r
  BY <1>1
<1>3. m \in Nat /\ s \in 0 .. P - 1 /\ n + 1 = P * m + s
  BY <1>1
<1> HIDE DEF q, m, r, s, P
<1>4. m >= q
  <2>1. SUFFICES ASSUME m + 1 <= q PROVE FALSE
    BY <1>2, <1>3
  <2>2. P * (m + 1) <= P * q
    BY <1>1, <1>2, <1>3, <2>1
  <2> QED
    BY <1>1, <1>2, <1>3, <2>2
<1>5. m <= q + 1
  <2>1. SUFFICES ASSUME q + 2 <= m PROVE FALSE
    BY <1>2, <1>3
  <2>2. P * (q + 2) <= P * m
    BY <1>1, <1>2, <1>3, <2>1
  <2> QED
    BY <1>1, <1>2, <1>3, <2>2
<1>6. s = 0 => m = q + 1
  BY <1>1, <1>2, <1>3, <1>4, <1>5
<1>7. s # 0 => m = q
  <2>1. SUFFICES ASSUME s # 0, m = q + 1 PROVE FALSE
    BY <1>2, <1>3, <1>4, <1>5
  <2>2. P * (q + 1) = P * q + P
    BY <1>1, <1>2
  <2> QED
    BY <1>1, <1>2, <1>3, <2>1, <2>2
<1>8. s = 0 => m # 0
  BY <1>2, <1>6
<1>9. /\ Teile(n) = q /\ Teile(n + 1) = m
      /\ part_to_mark(n + 1) = IF s = 0 THEN m ELSE 0
  BY <1>1 DEF Teile, part_to_mark, q, m, s, P
<1> QED
  BY <1>2, <1>3, <1>6, <1>7, <1>8, <1>9

\* What is booked or taken in is a finite set of directories.
LEMMA Endlich ==
  ASSUME TypeOK
  PROVE  /\ IsFiniteSet(pushed) /\ IsFiniteSet(failed) /\ IsFiniteSet(Angenommen)
         /\ Cardinality(pushed) \in Nat /\ Cardinality(failed) \in Nat
         /\ Cardinality(Angenommen) \in Nat
         /\ IsFiniteSet(unterwegs) /\ Cardinality(unterwegs) \in Nat
         /\ Cardinality(unterwegs) = IF in_flight = Nichts THEN 0 ELSE 1
<1>1. pushed \subseteq Items /\ failed \subseteq Items /\ Angenommen \subseteq Items
  BY DEF TypeOK, Angenommen
<1>2. unterwegs = IF in_flight = Nichts THEN {} ELSE {in_flight}
  BY DEF unterwegs
<1> QED
  BY <1>1, <1>2, PumpConstantsOK, FS_Subset, FS_CardinalityType, FS_EmptySet,
     FS_Singleton

\* The two parts of EachOnce.
LEMMA Orte ==
  EachOnce <=>
    /\ Angenommen = wartend \cup unterwegs \cup gebucht
    /\ Cardinality(Angenommen) =
         Len(queue) + Cardinality(unterwegs) + Cardinality(pushed) + Cardinality(failed)
BY DEF EachOnce, wartend, unterwegs

\* One directory more.
LEMMA EinsMehr ==
  ASSUME NEW S, IsFiniteSet(S), NEW x, x \notin S
  PROVE  Cardinality(S \cup {x}) = Cardinality(S) + 1
BY FS_AddElement

-----------------------------------------------------------------------------
(***************************************************************************)
(* Initially                                                               *)
(***************************************************************************)
LEMMA InitInv == Init => IInv
<1> SUFFICES ASSUME Init PROVE IInv
  OBVIOUS
<1> USE DEF Init
<1>1. TypeOK
  <2>1. closed \in BOOLEAN
    BY Zenon
  <2>2. queue \in Seq(Items) /\ marken \in Seq(Nat)
    OBVIOUS
  <2> QED
    BY <2>1, <2>2, PumpConstantsOK DEF TypeOK
<1>2. wartend = {} /\ unterwegs = {} /\ gebucht = {} /\ Angenommen = {}
  BY DEF wartend, unterwegs, gebucht, Angenommen
<1>3. EachOnce
  <2>1. Cardinality({}) = 0 /\ Len(queue) = 0
    BY FS_EmptySet
  <2>2. Angenommen = wartend \cup unterwegs \cup gebucht
    BY <1>2
  <2>3. Cardinality(Angenommen) = Len(queue) + Cardinality(unterwegs)
          + Cardinality(pushed) + Cardinality(failed)
    BY <1>2, <2>1
  <2> QED
    BY <2>2, <2>3, Orte
<1>4. Getrennt
  BY <1>2 DEF Getrennt
<1>5. SollInv /\ AusInv
  BY DEF SollInv, AusInv
<1>6. MarkenInv
  <2>1. SUFFICES ASSUME PartSize # 0 PROVE Teile(Cardinality(pushed)) = 0
    BY DEF MarkenInv
  <2>2. Cardinality(pushed) = 0
    BY FS_EmptySet
  <2>3. 0 \div PartSize = 0
    BY <2>1, PumpConstantsOK
  <2> QED
    BY <2>2, <2>3 DEF Teile
<1> QED
  BY <1>1, <1>3, <1>4, <1>5, <1>6 DEF IInv

-----------------------------------------------------------------------------
(***************************************************************************)
(* Steps                                                                   *)
(***************************************************************************)
\* The steps that move no directory: notifications, waits, calls and sleep.
Ruhig ==
  \/ \E i \in Items : enqueue_notify(i)
  \/ run_notify \/ run_marker
  \/ \E d \in Drainer : drain(d) \/ drain_wait(d)
  \/ \E c \in Closer : close(c) \/ Closing(c)
  \/ Spurious
  \/ UNCHANGED vars

LEMMA TypeStep == TypeOK /\ [Next]_vars => TypeOK'
<1> SUFFICES ASSUME TypeOK, [Next]_vars PROVE TypeOK'
  OBVIOUS
<1>0. \A i \in Items : Append(queue, i) \in Seq(Items)
  <2>1. queue \in Seq(Items)
    BY DEF TypeOK
  <2> QED
    BY <2>1
<1> USE PumpConstantsOK DEF TypeOK, konten
<1>1. ASSUME NEW i \in Items, enqueue(i) PROVE TypeOK'
  <2>1. closed' \in BOOLEAN
    BY <1>1 DEF enqueue
  <2>2. queue' = queue \/ queue' = Append(queue, i)
    BY <1>1 DEF enqueue
  <2>3. queue' \in Seq(Items)
    BY <1>0, <2>2
  <2> QED
    BY <1>1, <2>1, <2>3 DEF enqueue
<1>2. ASSUME NEW i \in Items, enqueue_notify(i) PROVE TypeOK'
  BY <1>2 DEF enqueue_notify, WeckePumpe
<1>3. ASSUME run_take PROVE TypeOK'
  <2>1. closed' \in BOOLEAN
    BY <1>3 DEF run_take
  <2>2. queue' \in Seq(Items) /\ in_flight' \in Items \cup {Nichts}
    BY <1>3 DEF run_take
  <2>3. pcP' = "schiebt" <=> in_flight' # Nichts
    BY <1>3 DEF run_take
  <2>4. faellig' = 0
    BY <1>3 DEF run_take
  <2> QED
    BY <1>3, <2>1, <2>2, <2>3, <2>4 DEF run_take
<1>4. ASSUME run_book PROVE TypeOK'
  <2>1. faellig' \in Nat
    <3>1. CASE faellig' = 0
      BY <3>1
    <3>2. CASE faellig' # 0
      <4>1. /\ faellig' = part_to_mark(Cardinality(pushed'))
            /\ pushed' = pushed \cup {in_flight} /\ in_flight \in Items
        BY <1>4, <3>2 DEF run_book
      <4>2. IsFiniteSet(pushed')
        BY <4>1, FS_Subset
      <4>3. Cardinality(pushed') \in Nat
        BY <4>2, FS_CardinalityType
      <4>4. CASE PartSize = 0
        BY <4>1, <4>4 DEF part_to_mark
      <4>5. CASE PartSize # 0
        <5>1. Teile(Cardinality(pushed')) \in Nat
          BY <4>3, <4>5, TeilSchritt
        <5> QED
          BY <4>1, <5>1 DEF part_to_mark, Teile
      <4> QED
        BY <4>4, <4>5
    <3> QED
      BY <3>1, <3>2
  <2>2. /\ pushed' \subseteq Items /\ failed' \subseteq Items
        /\ in_flight' = Nichts /\ pcP' = "meldet"
    BY <1>4 DEF run_book
  <2> QED
    BY <1>4, <2>1, <2>2 DEF run_book
<1>5. ASSUME run_notify PROVE TypeOK'
  BY <1>5 DEF run_notify
<1>6. ASSUME run_marker PROVE TypeOK'
  BY <1>6 DEF run_marker
<1>7. ASSUME NEW d \in Drainer, drain(d) PROVE TypeOK'
  BY <1>7 DEF drain, Angenommen
<1>8. ASSUME NEW d \in Drainer, drain_wait(d) PROVE TypeOK'
  BY <1>8 DEF drain_wait
<1>9. ASSUME NEW c \in Closer, close(c) PROVE TypeOK'
  BY <1>9 DEF close
<1>10. ASSUME NEW c \in Closer, Closing(c) PROVE TypeOK'
  BY <1>10 DEF Closing, close_notify, close_join, WeckePumpe
<1>11. ASSUME Spurious PROVE TypeOK'
  BY <1>11 DEF Spurious
<1>12. ASSUME UNCHANGED vars PROVE TypeOK'
  BY <1>12 DEF vars
<1> QED
  BY <1>1, <1>2, <1>3, <1>4, <1>5, <1>6, <1>7, <1>8, <1>9, <1>10, <1>11, <1>12
  DEF Next, Worker

\* The steps that move a directory are the three others.
LEMMA Schritte ==
  ASSUME [Next]_vars
  PROVE  (\E i \in Items : enqueue(i)) \/ run_take \/ run_book \/ Ruhig
BY DEF Next, Worker, Ruhig

\* The others move none.
LEMMA RuhigFacts ==
  ASSUME TypeOK, Ruhig
  PROVE  /\ UNCHANGED <<queue, in_flight, pushed, failed>>
         /\ Angenommen' = Angenommen
BY DEF Ruhig, enqueue_notify, run_notify, run_marker, drain, drain_wait, close,
   Closing, close_notify, close_join, Spurious, vars, konten, TypeOK, Angenommen

-----------------------------------------------------------------------------
(***************************************************************************)
(* Every directory once                                                    *)
(***************************************************************************)
\* An entry that is taken in is new.
LEMMA EnqueueFacts ==
  ASSUME IInv, NEW i \in Items, enqueue(i), ~closed
  PROVE  /\ i \notin Angenommen /\ Angenommen' = Angenommen \cup {i}
         /\ wartend' = wartend \cup {i} /\ Len(queue') = Len(queue) + 1
         /\ UNCHANGED <<unterwegs, gebucht, pushed, failed, in_flight>>
<1> USE DEF IInv, TypeOK, enqueue, konten
<1>1. i \notin Angenommen /\ Angenommen' = Angenommen \cup {i}
  BY DEF Angenommen
<1>2. queue' = Append(queue, i)
  OBVIOUS
<1>3. /\ DOMAIN queue' = DOMAIN queue \cup {Len(queue) + 1}
      /\ Len(queue') = Len(queue) + 1
      /\ \A k \in DOMAIN queue : queue'[k] = queue[k]
      /\ queue'[Len(queue) + 1] = i
  BY <1>2
<1>4. wartend' = wartend \cup {i}
  BY <1>3 DEF wartend
<1> QED
  BY <1>1, <1>3, <1>4 DEF unterwegs, gebucht

\* An entry that the worker takes leaves the queue.
LEMMA TakeFacts ==
  ASSUME IInv, run_take, queue # <<>>
  PROVE  /\ in_flight = Nichts /\ in_flight' = Head(queue) /\ in_flight' \in Items
         /\ wartend = wartend' \cup {Head(queue)} /\ Head(queue) \notin wartend'
         /\ Len(queue') = Len(queue) - 1
         /\ unterwegs = {} /\ unterwegs' = {Head(queue)}
         /\ UNCHANGED <<gebucht, pushed, failed, Angenommen>>
<1> USE PumpConstantsOK DEF IInv, TypeOK, run_take, konten
<1>1. in_flight = Nichts /\ in_flight' = Head(queue) /\ Head(queue) \in Items
  OBVIOUS
<1>2. queue' = Tail(queue) /\ Len(queue') = Len(queue) - 1
  OBVIOUS
<1>3. /\ \A k \in DOMAIN queue' : k + 1 \in DOMAIN queue /\ queue'[k] = queue[k + 1]
      /\ \A k \in DOMAIN queue : k = 1 \/ (k - 1 \in DOMAIN queue' /\ queue'[k - 1] = queue[k])
      /\ 1 \in DOMAIN queue /\ Head(queue) = queue[1]
  BY <1>2
<1>4. wartend = wartend' \cup {Head(queue)}
  BY <1>3 DEF wartend
<1>5. Head(queue) \notin wartend'
  <2>1. SUFFICES ASSUME NEW k \in DOMAIN queue', queue'[k] = queue[1] PROVE FALSE
    BY <1>3 DEF wartend
  <2>2. k + 1 = 1
    BY <1>3, <2>1 DEF Getrennt
  <2>3. k >= 1
    BY <1>2
  <2> QED
    BY <2>2, <2>3, <1>2
<1>6. unterwegs = {} /\ unterwegs' = {Head(queue)}
  BY <1>1 DEF unterwegs
<1> QED
  BY <1>1, <1>2, <1>4, <1>5, <1>6 DEF gebucht, Angenommen

\* A push books what was under way.
LEMMA BookFacts ==
  ASSUME IInv, run_book
  PROVE  /\ in_flight \in Items /\ in_flight # Nichts /\ in_flight' = Nichts
         /\ unterwegs = {in_flight} /\ unterwegs' = {}
         /\ in_flight \notin pushed /\ in_flight \notin failed
         /\ \/ pushed' = pushed \cup {in_flight} /\ failed' = failed
            \/ failed' = failed \cup {in_flight} /\ pushed' = pushed
         /\ gebucht' = gebucht \cup {in_flight}
         /\ UNCHANGED <<queue, wartend, Angenommen>>
<1> USE PumpConstantsOK DEF IInv, TypeOK, run_book
<1>1. in_flight \in Items /\ in_flight # Nichts /\ in_flight' = Nichts
  OBVIOUS
<1>2. in_flight \notin pushed /\ in_flight \notin failed
  BY DEF Getrennt, gebucht
<1>3. \/ pushed' = pushed \cup {in_flight} /\ failed' = failed
      \/ failed' = failed \cup {in_flight} /\ pushed' = pushed
  OBVIOUS
<1>4. gebucht' = gebucht \cup {in_flight}
  BY <1>3 DEF gebucht
<1>5. unterwegs = {in_flight} /\ unterwegs' = {}
  BY <1>1 DEF unterwegs
<1> QED
  BY <1>1, <1>2, <1>3, <1>4, <1>5 DEF wartend, Angenommen

LEMMA GetrenntStep == IInv /\ [Next]_vars => Getrennt'
<1> SUFFICES ASSUME IInv, [Next]_vars PROVE Getrennt'
  OBVIOUS
<1>1. ASSUME NEW i \in Items, enqueue(i) PROVE Getrennt'
  <2>1. CASE closed
    BY <1>1, <2>1 DEF enqueue, IInv, Getrennt, wartend, unterwegs, gebucht, konten
  <2>2. CASE ~closed
    <3>1. i \notin wartend \cup unterwegs \cup gebucht
      BY <1>1, <2>2, EnqueueFacts DEF IInv, EachOnce, wartend, unterwegs
    <3>2. in_flight # i
      BY <3>1, PumpConstantsOK DEF unterwegs
    <3>3. \A j, k \in DOMAIN queue' : queue'[j] = queue'[k] => j = k
      <4>1. queue' = Append(queue, i) /\ queue \in Seq(Items)
        BY <1>1, <2>2 DEF enqueue, IInv, TypeOK
      <4>2. /\ \A k \in DOMAIN queue' : k \in DOMAIN queue \/ k = Len(queue) + 1
            /\ \A k \in DOMAIN queue : queue'[k] = queue[k] /\ queue[k] # i
            /\ queue'[Len(queue) + 1] = i
        BY <4>1, <3>1 DEF wartend
      <4>3. \A j, k \in DOMAIN queue : queue[j] = queue[k] => j = k
        BY DEF IInv, Getrennt
      <4> QED
        BY <4>2, <4>3
    <3>4. wartend' \cap (gebucht' \cup unterwegs') = {}
      BY <1>1, <2>2, <3>1, EnqueueFacts DEF IInv, Getrennt
    <3> QED
      BY <1>1, <2>2, <3>3, <3>4, EnqueueFacts DEF IInv, Getrennt
  <2> QED
    BY <2>1, <2>2
<1>2. ASSUME run_take PROVE Getrennt'
  <2>1. CASE queue = <<>>
    BY <1>2, <2>1 DEF run_take, IInv, Getrennt, wartend, unterwegs, gebucht, konten
  <2>2. CASE queue # <<>>
    <3>1. \A j, k \in DOMAIN queue' : queue'[j] = queue'[k] => j = k
      <4>1. queue' = Tail(queue) /\ queue \in Seq(Items)
        BY <1>2, <2>2 DEF run_take, IInv, TypeOK
      <4>2. \A k \in DOMAIN queue' : k \in Nat /\ k + 1 \in DOMAIN queue /\ queue'[k] = queue[k + 1]
        BY <4>1, <2>2
      <4>3. \A j, k \in DOMAIN queue : queue[j] = queue[k] => j = k
        BY DEF IInv, Getrennt
      <4>4. ASSUME NEW j \in DOMAIN queue', NEW k \in DOMAIN queue', queue'[j] = queue'[k]
            PROVE  j = k
        <5>1. j + 1 = k + 1
          BY <4>2, <4>3, <4>4
        <5> QED
          BY <4>2, <5>1
      <4> QED
        BY <4>4
    <3>2. Head(queue) \notin gebucht /\ wartend' \cap gebucht = {}
      BY <1>2, <2>2, TakeFacts DEF IInv, Getrennt
    <3>3. UNCHANGED <<gebucht, pushed, failed>> /\ unterwegs' = {Head(queue)}
          /\ Head(queue) \notin wartend' /\ in_flight' = Head(queue)
      BY <1>2, <2>2, TakeFacts
    <3>4. pushed \cap failed = {}
      BY DEF IInv, Getrennt
    <3> QED
      BY <3>1, <3>2, <3>3, <3>4 DEF Getrennt
  <2> QED
    BY <2>1, <2>2
<1>3. ASSUME run_book PROVE Getrennt'
  <2>1. in_flight \notin wartend
    BY <1>3, BookFacts DEF IInv, Getrennt
  <2>2. wartend' \cap (gebucht' \cup unterwegs') = {}
    BY <1>3, <2>1, BookFacts DEF IInv, Getrennt
  <2>3. Nichts \notin gebucht'
    BY <1>3, BookFacts, PumpConstantsOK DEF IInv, TypeOK, gebucht
  <2>4. pushed' \cap failed' = {}
    BY <1>3, BookFacts DEF IInv, Getrennt
  <2>5. \A j, k \in DOMAIN queue' : queue'[j] = queue'[k] => j = k
    BY <1>3, BookFacts DEF IInv, Getrennt
  <2> QED
    BY <1>3, <2>2, <2>3, <2>4, <2>5, BookFacts DEF Getrennt
<1>4. ASSUME Ruhig PROVE Getrennt'
  BY <1>4, RuhigFacts DEF IInv, Getrennt, wartend, unterwegs, gebucht
<1> QED
  BY <1>1, <1>2, <1>3, <1>4, Schritte

LEMMA OnceStep == IInv /\ [Next]_vars /\ TypeOK' => EachOnce'
<1> SUFFICES ASSUME IInv, [Next]_vars, TypeOK' PROVE EachOnce'
  OBVIOUS
<1> DEFINE Zahl == Len(queue) + Cardinality(unterwegs) + Cardinality(pushed)
                   + Cardinality(failed)
<1>1. /\ Angenommen = wartend \cup unterwegs \cup gebucht
      /\ Cardinality(Angenommen) = Zahl
  BY Orte DEF IInv
<1>2. /\ IsFiniteSet(pushed) /\ IsFiniteSet(failed) /\ IsFiniteSet(Angenommen)
      /\ Cardinality(pushed) \in Nat /\ Cardinality(failed) \in Nat
      /\ Len(queue) \in Nat
  BY Endlich DEF IInv, TypeOK
<1>3. SUFFICES /\ Angenommen' = (wartend \cup unterwegs \cup gebucht)'
               /\ Cardinality(Angenommen') = Zahl'
  BY DEF EachOnce, wartend, unterwegs
<1>4. ASSUME NEW i \in Items, enqueue(i)
      PROVE  /\ Angenommen' = (wartend \cup unterwegs \cup gebucht)'
             /\ Cardinality(Angenommen') = Zahl'
  <2>1. CASE closed
    <3>1. UNCHANGED <<queue, in_flight, pushed, failed>>
      BY <1>4, <2>1 DEF enqueue, konten
    <3>2. Angenommen' = Angenommen
      BY <1>4, <2>1 DEF enqueue, Angenommen, IInv, TypeOK
    <3>3. UNCHANGED <<wartend, unterwegs, gebucht>>
      BY <3>1 DEF wartend, unterwegs, gebucht
    <3> QED
      BY <1>1, <3>1, <3>2, <3>3
  <2>2. CASE ~closed
    <3>1. Cardinality(Angenommen') = Cardinality(Angenommen) + 1
      BY <1>2, <1>4, <2>2, EnqueueFacts, EinsMehr
    <3>2. Zahl' = Zahl + 1
      BY <1>2, <1>4, <2>2, EnqueueFacts, Endlich DEF IInv
    <3> QED
      BY <1>1, <1>4, <2>2, <3>1, <3>2, EnqueueFacts
  <2> QED
    BY <2>1, <2>2
<1>5. ASSUME run_take
      PROVE  /\ Angenommen' = (wartend \cup unterwegs \cup gebucht)'
             /\ Cardinality(Angenommen') = Zahl'
  <2>1. CASE queue = <<>>
    BY <1>1, <1>5, <2>1 DEF run_take, Angenommen, wartend, unterwegs, gebucht, konten
  <2>2. CASE queue # <<>>
    <3>1. Cardinality({}) = 0 /\ Cardinality({Head(queue)}) = 1
      BY FS_EmptySet, FS_Singleton
    <3>3. /\ Cardinality(unterwegs) = 0 /\ Cardinality(unterwegs') = 1
          /\ Len(queue') = Len(queue) - 1 /\ UNCHANGED <<pushed, failed>>
      BY <1>5, <2>2, <3>1, TakeFacts
    <3>2. Zahl' = Zahl
      BY <1>2, <3>3
    <3> QED
      BY <1>1, <1>5, <2>2, <3>2, TakeFacts
  <2> QED
    BY <2>1, <2>2
<1>6. ASSUME run_book
      PROVE  /\ Angenommen' = (wartend \cup unterwegs \cup gebucht)'
             /\ Cardinality(Angenommen') = Zahl'
  <2>1. /\ Cardinality(pushed \cup {in_flight}) = Cardinality(pushed) + 1
        /\ Cardinality(failed \cup {in_flight}) = Cardinality(failed) + 1
    BY <1>2, <1>6, BookFacts, EinsMehr
  <2>2. \/ /\ Cardinality(pushed') = Cardinality(pushed) + 1
           /\ Cardinality(failed') = Cardinality(failed)
        \/ /\ Cardinality(failed') = Cardinality(failed) + 1
           /\ Cardinality(pushed') = Cardinality(pushed)
    BY <1>6, <2>1, BookFacts, Zenon
  <2>3. Cardinality(unterwegs) = 1 /\ Cardinality(unterwegs') = 0
    BY <1>6, BookFacts, FS_EmptySet, FS_Singleton
  <2>4. Len(queue') = Len(queue)
    BY <1>6, BookFacts
  <2>5. Zahl' = Zahl
    BY <1>2, <2>2, <2>3, <2>4
  <2> QED
    BY <1>1, <1>6, <2>5, BookFacts
<1>7. ASSUME Ruhig
      PROVE  /\ Angenommen' = (wartend \cup unterwegs \cup gebucht)'
             /\ Cardinality(Angenommen') = Zahl'
  BY <1>1, <1>7, RuhigFacts DEF IInv, wartend, unterwegs, gebucht
<1> QED
  BY <1>4, <1>5, <1>6, <1>7, Schritte

-----------------------------------------------------------------------------
(***************************************************************************)
(* The barriers                                                            *)
(***************************************************************************)
\* What was taken in stays taken in.
LEMMA AngenommenWaechst == TypeOK /\ [Next]_vars => Angenommen \subseteq Angenommen'
<1> SUFFICES ASSUME TypeOK, [Next]_vars PROVE Angenommen \subseteq Angenommen'
  OBVIOUS
<1>1. ASSUME NEW i \in Items, enqueue(i) PROVE Angenommen \subseteq Angenommen'
  BY <1>1 DEF enqueue, TypeOK, Angenommen
<1>2. ASSUME run_take \/ run_book PROVE Angenommen' = Angenommen
  BY <1>2 DEF run_take, run_book, Angenommen
<1> QED
  BY <1>1, <1>2, RuhigFacts, Schritte

LEMMA SollStep == IInv /\ [Next]_vars => SollInv'
<1> SUFFICES ASSUME IInv, [Next]_vars, NEW d \in Drainer
             PROVE  soll'[d] \subseteq Angenommen'
  BY DEF SollInv
<1>1. soll'[d] = soll[d] \/ soll'[d] = Angenommen
  <2>1. CASE \E e \in Drainer : drain(e)
    BY <2>1 DEF drain, IInv, TypeOK
  <2>2. CASE ~\E e \in Drainer : drain(e)
    BY <2>2 DEF Next, Worker, enqueue, enqueue_notify, run_take, run_book, run_notify,
       run_marker, drain_wait, close, Closing, close_notify, close_join, Spurious, vars
  <2> QED
    BY <2>1, <2>2
<1> QED
  BY <1>1, AngenommenWaechst DEF IInv, SollInv

\* With nothing waiting or under way, everything taken in is booked.
LEMMA AllesGebucht ==
  ASSUME IInv, queue = <<>>, in_flight = Nichts
  PROVE  Angenommen = gebucht
<1>1. wartend = {} /\ unterwegs = {}
  BY DEF wartend, unterwegs
<1> QED
  BY <1>1, Orte DEF IInv

LEMMA AusStep == IInv /\ [Next]_vars => AusInv'
<1> SUFFICES ASSUME IInv, [Next]_vars PROVE AusInv'
  OBVIOUS
<1> USE PumpConstantsOK DEF IInv, TypeOK, AusInv, konten
<1>1. ASSUME NEW i \in Items, enqueue(i) PROVE AusInv'
  BY <1>1 DEF enqueue
<1>2. ASSUME NEW i \in Items, enqueue_notify(i) PROVE AusInv'
  BY <1>2 DEF enqueue_notify, WeckePumpe
<1>3. ASSUME run_take PROVE AusInv'
  BY <1>3 DEF run_take
<1>4. ASSUME run_book PROVE AusInv'
  BY <1>4 DEF run_book
<1>5. ASSUME run_notify PROVE AusInv'
  BY <1>5 DEF run_notify
<1>6. ASSUME run_marker PROVE AusInv'
  BY <1>6 DEF run_marker
<1>7. ASSUME NEW d \in Drainer, drain(d) \/ drain_wait(d) PROVE AusInv'
  BY <1>7 DEF drain, drain_wait
<1>8. ASSUME NEW c \in Closer, close(c) PROVE AusInv'
  BY <1>8 DEF close
<1>9. ASSUME NEW c \in Closer, Closing(c) PROVE AusInv'
  BY <1>9 DEF Closing, close_notify, close_join, WeckePumpe
<1>10. ASSUME Spurious PROVE AusInv'
  BY <1>10 DEF Spurious
<1>11. ASSUME UNCHANGED vars PROVE AusInv'
  BY <1>11 DEF vars
<1> QED
  BY <1>1, <1>2, <1>3, <1>4, <1>5, <1>6, <1>7, <1>8, <1>9, <1>10, <1>11
  DEF Next, Worker

LEMMA MarkenStep == IInv /\ [Next]_vars => MarkenInv'
<1> SUFFICES ASSUME IInv, [Next]_vars, PartSize # 0 PROVE MarkenInv'
  BY DEF MarkenInv
<1>1. /\ \A k \in DOMAIN marken : marken[k] = k
      /\ Len(marken) + (IF faellig # 0 THEN 1 ELSE 0) = Teile(Cardinality(pushed))
      /\ faellig # 0 => faellig = Teile(Cardinality(pushed))
      /\ pcP = "marke" => faellig # 0
      /\ marken \in Seq(Nat) /\ Len(marken) \in Nat /\ faellig \in Nat
  BY DEF IInv, MarkenInv, TypeOK
<1>2. CASE run_book
  <2>1. faellig = 0 /\ marken' = marken /\ pcP' = "meldet"
    BY <1>2 DEF run_book, IInv, TypeOK
  <2>2. CASE pushed' = pushed /\ faellig' = 0
    BY <1>1, <2>1, <2>2 DEF MarkenInv
  <2>3. CASE /\ pushed' = pushed \cup {in_flight}
             /\ faellig' = part_to_mark(Cardinality(pushed'))
    <3> DEFINE n == Cardinality(pushed)
    <3>1. n \in Nat /\ Cardinality(pushed') = n + 1
      BY <1>2, <2>3, Endlich, BookFacts, EinsMehr DEF IInv
    <3>2. /\ Teile(n) \in Nat /\ faellig' \in Nat
          /\ faellig' # 0 => faellig' = Teile(n + 1) /\ Teile(n + 1) = Teile(n) + 1
          /\ faellig' = 0 => Teile(n + 1) = Teile(n)
      BY <2>3, <3>1, TeilSchritt
    <3>3. Len(marken) = Teile(n)
      BY <1>1, <2>1
    <3>4. Len(marken') + (IF faellig' # 0 THEN 1 ELSE 0) = Teile(n + 1)
      BY <2>1, <3>2, <3>3
    <3> QED
      BY <1>1, <2>1, <3>1, <3>2, <3>4 DEF MarkenInv
  <2> QED
    BY <1>2, <2>2, <2>3 DEF run_book
<1>3. CASE run_marker
  <2>1. /\ faellig # 0 /\ faellig' = 0 /\ marken' = Append(marken, faellig)
        /\ pushed' = pushed /\ pcP' = "prueft"
    BY <1>1, <1>3 DEF run_marker
  <2>2. Len(marken') = Len(marken) + 1 /\ Len(marken') = faellig
    BY <1>1, <2>1
  <2>3. \A k \in DOMAIN marken' : marken'[k] = k
    BY <1>1, <2>1, <2>2
  <2> QED
    BY <1>1, <2>1, <2>2, <2>3 DEF MarkenInv
<1>4. CASE ~run_book /\ ~run_marker
  <2>1. UNCHANGED <<pushed, marken, faellig>>
    BY <1>4 DEF Next, Worker, enqueue, enqueue_notify, run_take, run_notify, drain,
       drain_wait, close, Closing, close_notify, close_join, Spurious, vars, konten
  <2>2. pcP' = "marke" => pcP = "marke" \/ faellig # 0
    BY <1>4 DEF Next, Worker, enqueue, enqueue_notify, run_take, run_notify, drain,
       drain_wait, close, Closing, close_notify, close_join, Spurious, vars, WeckePumpe
  <2> QED
    BY <1>1, <2>1, <2>2 DEF MarkenInv
<1> QED
  BY <1>2, <1>3, <1>4

-----------------------------------------------------------------------------
(***************************************************************************)
(* Results                                                                 *)
(***************************************************************************)
\* The inductive invariant holds in every reachable state of the pump.
THEOREM Invariance == Spec => []IInv
<1>1. IInv /\ [Next]_vars => IInv'
  BY TypeStep, OnceStep, GetrenntStep, SollStep, AusStep, MarkenStep DEF IInv
<1> QED
  BY <1>1, InitInv, PTL DEF Spec

\* The state has the declared types; in_flight is set exactly while a push runs.
THEOREM TypeCorrect == Spec => []TypeOK
<1>1. IInv => TypeOK
  BY DEF IInv
<1> QED
  BY <1>1, Invariance, PTL

\* No directory is lost, pushed twice, or both pushed and failed.
THEOREM NothingLostOrTwice == Spec => []EachOnce
<1>1. IInv => EachOnce
  BY DEF IInv
<1> QED
  BY <1>1, Invariance, PTL

\* When a drain returns, what had been taken in when it was called is booked.
THEOREM DrainIsBarrier == Spec => DrainBarrier
<1>1. IInv /\ [Next]_vars => [DrainHaelt]_vars
  <2>1. SUFFICES ASSUME IInv, [Next]_vars, NEW d \in Drainer,
                        pcD[d] # "ruht", pcD'[d] = "ruht"
                 PROVE  soll[d] \subseteq gebucht
    BY DEF DrainHaelt
  <2>2. drain_wait(d) /\ queue = <<>> /\ in_flight = Nichts
    BY <2>1 DEF IInv, TypeOK, Next, Worker, enqueue, enqueue_notify, run_take, run_book,
       run_notify, run_marker, drain, drain_wait, close, Closing, close_notify,
       close_join, Spurious, vars, konten
  <2>3. Angenommen = gebucht
    BY <2>1, <2>2, AllesGebucht
  <2> QED
    BY <2>1, <2>3 DEF IInv, SollInv
<1> QED
  BY <1>1, Invariance, PTL DEF Spec, DrainBarrier

\* After close everything is booked and the markers are complete and in order.
THEOREM CloseIsComplete == Spec => []CloseBarrier
<1>1. IInv => CloseBarrier
  <2>1. SUFFICES ASSUME IInv, NEW c \in Closer, pcC[c] = "fertig"
                 PROVE  /\ Angenommen \subseteq gebucht
                        /\ PartSize # 0 =>
                             marken = [k \in 1 .. Cardinality(pushed) \div PartSize |-> k]
    BY DEF CloseBarrier
  <2>2. queue = <<>> /\ in_flight = Nichts /\ faellig = 0
    BY <2>1 DEF IInv, AusInv
  <2>3. Angenommen \subseteq gebucht
    BY <2>1, <2>2, AllesGebucht
  <2>4. ASSUME PartSize # 0
        PROVE  marken = [k \in 1 .. Cardinality(pushed) \div PartSize |-> k]
    <3>1. /\ \A k \in DOMAIN marken : marken[k] = k
          /\ Len(marken) + 0 = Cardinality(pushed) \div PartSize
          /\ marken \in Seq(Nat)
      BY <2>1, <2>2, <2>4 DEF IInv, MarkenInv, TypeOK, Teile
    <3>2. marken = [k \in 1 .. Len(marken) |-> marken[k]]
      BY <3>1
    <3>3. Len(marken) = Cardinality(pushed) \div PartSize
      BY <3>1
    <3> QED
      BY <3>1, <3>2, <3>3
  <2> QED
    BY <2>3, <2>4
<1> QED
  BY <1>1, Invariance, PTL
=============================================================================
