------------------------- MODULE SpoolWriterProofs -------------------------
(***************************************************************************)
(* Proofs about SpoolWriter for any entries, sizes and triggers, any       *)
(* number of threads that flush or close, and any number of failed writes. *)
(*                                                                         *)
(* The barrier of flush compares two counters.  That it waits for entries  *)
(* rests on three facts: the counters differ by the batches on their way   *)
(* (ZaehlInv), no entry leaves the way from the spool to the disk          *)
(* (OrtInv), and the entries a flush has to wait for are past the spool    *)
(* and in no other caller's hands (SollInv).                               *)
(***************************************************************************)
EXTENDS SpoolWriter, FiniteSetTheorems, TLAPS

InSeq(e, q) == \E k \in 1 .. Len(q) : e \in q[k]

ZaehlInv == enqueued = written + Len(queue) + (IF pcW = "schreibt" THEN 1 ELSE 0)

Unterwegs(e) == e \in offen \cup Versucht \/ InSeq(e, queue)

OrtInv ==
  \A e \in Entries : pcS[e] # "neu" =>
    e \in spool \/ Unterwegs(e) \/ \E x \in Entries \cup Rufer : e \in batch[x]

AnBarriere == {"uebergibt", "meldet", "prueft", "schlaeft"}

SollInv ==
  \A t \in Rufer : pcF[t] \in AnBarriere =>
    \A e \in soll[t] : e \in batch[t] \/ Unterwegs(e)

InHand(e) == \E x \in Entries \cup Rufer : e \in batch[x]

\* An entry is at one place at most, and before its submit at none.
EinOrt(e) ==
  /\ pcS[e] = "neu" => e \notin spool /\ ~InHand(e) /\ ~Unterwegs(e)
  /\ e \in spool => ~InHand(e) /\ ~Unterwegs(e)
  /\ InHand(e) => ~Unterwegs(e)
  /\ InSeq(e, queue) => e \notin offen \cup Versucht
  /\ e \in offen => e \notin Versucht
  /\ ~(e \in persisted /\ e \in misslungen)
  /\ \A x, y \in Entries \cup Rufer : e \in batch[x] /\ e \in batch[y] => x = y
  /\ \A j, k \in 1 .. Len(queue) : e \in queue[j] /\ e \in queue[k] => j = k

EinzelnInv == \A e \in Entries : EinOrt(e)

\* The inductive invariant.
IInv == TypeOK /\ ZaehlInv /\ OrtInv /\ SollInv /\ EinzelnInv

-----------------------------------------------------------------------------
LEMMA AnhangFacts ==
  ASSUME NEW q \in Seq(SUBSET Entries), NEW s \in SUBSET Entries
  PROVE  /\ Append(q, s) \in Seq(SUBSET Entries) /\ Len(Append(q, s)) = Len(q) + 1
         /\ \A e : InSeq(e, q) \/ e \in s => InSeq(e, Append(q, s))
<1>1. /\ Append(q, s) \in Seq(SUBSET Entries) /\ Len(Append(q, s)) = Len(q) + 1
      /\ \A k \in 1 .. Len(q) : Append(q, s)[k] = q[k]
      /\ Append(q, s)[Len(q) + 1] = s
  OBVIOUS
<1>2. Len(q) \in Nat
  OBVIOUS
<1>3. ASSUME NEW e, InSeq(e, q) PROVE InSeq(e, Append(q, s))
  BY <1>1, <1>2, <1>3 DEF InSeq
<1>4. ASSUME NEW e, e \in s PROVE InSeq(e, Append(q, s))
  BY <1>1, <1>2, <1>4 DEF InSeq
<1> QED
  BY <1>1, <1>3, <1>4

LEMMA KopfFacts ==
  ASSUME NEW q \in Seq(SUBSET Entries), q # <<>>
  PROVE  /\ Head(q) \in SUBSET Entries /\ Tail(q) \in Seq(SUBSET Entries)
         /\ Len(q) = Len(Tail(q)) + 1 /\ Len(Tail(q)) \in Nat
         /\ \A e : InSeq(e, q) => e \in Head(q) \/ InSeq(e, Tail(q))
<1>1. /\ Head(q) \in SUBSET Entries /\ Tail(q) \in Seq(SUBSET Entries)
      /\ Len(q) = Len(Tail(q)) + 1 /\ Len(Tail(q)) \in Nat
      /\ Head(q) = q[1]
      /\ \A k \in 1 .. Len(Tail(q)) : Tail(q)[k] = q[k + 1]
  OBVIOUS
<1>2. ASSUME NEW e, NEW k \in 1 .. Len(q), e \in q[k]
      PROVE  e \in Head(q) \/ InSeq(e, Tail(q))
  <2>1. CASE k = 1
    BY <1>1, <1>2, <2>1
  <2>2. CASE k # 1
    <3>1. k - 1 \in 1 .. Len(Tail(q)) /\ Tail(q)[k - 1] = q[k]
      BY <1>1, <2>2
    <3> QED
      BY <1>2, <3>1 DEF InSeq
  <2> QED
    BY <2>1, <2>2
<1> QED
  BY <1>1, <1>2 DEF InSeq

\* An entry that is in one batch of the queue at most stays so when a batch without
\* it is added and when the first one is taken.
LEMMA AnhangEinzeln ==
  ASSUME NEW q \in Seq(SUBSET Entries), NEW s \in SUBSET Entries, NEW e,
         \A j, k \in 1 .. Len(q) : e \in q[j] /\ e \in q[k] => j = k,
         ~(InSeq(e, q) /\ e \in s)
  PROVE  /\ InSeq(e, Append(q, s)) => InSeq(e, q) \/ e \in s
         /\ \A j, k \in 1 .. Len(Append(q, s)) :
              e \in Append(q, s)[j] /\ e \in Append(q, s)[k] => j = k
<1>1. /\ Len(Append(q, s)) = Len(q) + 1 /\ Len(q) \in Nat
      /\ \A k \in 1 .. Len(q) : Append(q, s)[k] = q[k]
      /\ Append(q, s)[Len(q) + 1] = s
  OBVIOUS
<1>2. \A k \in 1 .. Len(q) + 1 : k \in 1 .. Len(q) \/ k = Len(q) + 1
  BY <1>1
<1>3. ASSUME NEW k \in 1 .. Len(q) + 1, e \in Append(q, s)[k]
      PROVE  (k \in 1 .. Len(q) /\ e \in q[k]) \/ (k = Len(q) + 1 /\ e \in s)
  BY <1>1, <1>2, <1>3
<1> QED
  BY <1>1, <1>3 DEF InSeq

LEMMA KopfEinzeln ==
  ASSUME NEW q \in Seq(SUBSET Entries), q # <<>>, NEW e,
         \A j, k \in 1 .. Len(q) : e \in q[j] /\ e \in q[k] => j = k
  PROVE  /\ e \in Head(q) \/ InSeq(e, Tail(q)) => InSeq(e, q)
         /\ ~(e \in Head(q) /\ InSeq(e, Tail(q)))
         /\ \A j, k \in 1 .. Len(Tail(q)) : e \in Tail(q)[j] /\ e \in Tail(q)[k] => j = k
<1>1. /\ Len(q) = Len(Tail(q)) + 1 /\ Len(Tail(q)) \in Nat
      /\ Head(q) = q[1]
      /\ \A k \in 1 .. Len(Tail(q)) : Tail(q)[k] = q[k + 1]
  OBVIOUS
<1>2. \A k \in 1 .. Len(Tail(q)) : k + 1 \in 1 .. Len(q) /\ k + 1 # 1
  BY <1>1
<1>3. 1 \in 1 .. Len(q)
  BY <1>1
<1>4. ASSUME NEW j \in 1 .. Len(Tail(q)), NEW k \in 1 .. Len(Tail(q)),
             e \in Tail(q)[j], e \in Tail(q)[k]
      PROVE  j = k
  <2>1. j + 1 = k + 1
    BY <1>1, <1>2, <1>4
  <2> QED
    BY <2>1
<1> QED
  BY <1>1, <1>2, <1>3, <1>4 DEF InSeq

-----------------------------------------------------------------------------
(***************************************************************************)
(* Types                                                                   *)
(***************************************************************************)
WegOK ==
  /\ spool \subseteq Entries /\ offen \subseteq Entries
  /\ queue \in Seq(SUBSET Entries)
  /\ enqueued \in Nat /\ written \in Nat
  /\ persisted \subseteq Entries /\ misslungen \subseteq Entries
  /\ pcW \in {"prueft", "schlaeft", "schreibt", "meldet", "aus"}
  /\ soll \in [Rufer -> SUBSET Entries]
  /\ offen # {} => pcW = "schreibt"
RuferOK ==
  /\ batch \in [Entries \cup Rufer -> SUBSET Entries]
  /\ pcS \in [Entries -> {"neu", "uebergibt", "meldet", "fertig"}]
  /\ pcF \in [Rufer -> {"ruht", "uebergibt", "meldet", "prueft", "schlaeft",
                        "schliesst", "meldetEnde", "join", "fertig"}]
  /\ \A e \in Entries : pcS[e] = "uebergibt" <=> batch[e] # {}
  /\ \A t \in Rufer : pcF[t] = "uebergibt" <=> batch[t] # {}

LEMMA TypeParts == TypeOK <=> WegOK /\ RuferOK /\ closed \in BOOLEAN
BY DEF TypeOK, WegOK, RuferOK

LEMMA InitInv == Init => IInv
<1> SUFFICES ASSUME Init PROVE IInv
  OBVIOUS
<1> USE DEF Init
<1>1. WegOK
  BY DEF WegOK
<1>2. RuferOK
  BY DEF RuferOK
<1>3. closed \in BOOLEAN
  BY Zenon
<1>4. ZaehlInv
  BY DEF ZaehlInv
<1>5. OrtInv /\ SollInv
  BY DEF OrtInv, SollInv, AnBarriere
<1>6. EinzelnInv
  BY DEF EinzelnInv, EinOrt, InHand, Unterwegs, Versucht, InSeq
<1> QED
  BY <1>1, <1>2, <1>3, <1>4, <1>5, <1>6, TypeParts DEF IInv

LEMMA ClosedStep == TypeOK /\ [Next]_vars => closed' \in BOOLEAN
<1> SUFFICES ASSUME TypeOK, [Next]_vars PROVE closed' \in BOOLEAN
  OBVIOUS
<1>1. closed' = closed \/ closed' = TRUE
  BY DEF Next, vars, submit, Submitting, submit_enqueue, submit_notify, flush, Flushing,
         flush_enqueue, flush_notify, flush_wait, close, close_notify, close_join, Worker,
         run_take, run_write, run_written, run_notify, Spurious
<1> QED
  BY <1>1, Zenon DEF TypeOK

LEMMA RuferStep == TypeOK /\ [Next]_vars => RuferOK'
<1> SUFFICES ASSUME TypeOK, [Next]_vars PROVE RuferOK'
  OBVIOUS
<1> USE SpoolConstantsOK DEF RuferOK, Rufer
<1>0. RuferOK /\ spool \subseteq Entries
  BY DEF TypeOK
<1>1. ASSUME UNCHANGED <<batch, pcS, pcF>> PROVE RuferOK'
  BY <1>0, <1>1
<1>2. ASSUME NEW t \in Rufer, pcF[t] # "uebergibt",
             NEW x \in {"ruht", "meldet", "prueft", "schlaeft", "schliesst", "meldetEnde",
                        "join", "fertig"},
             pcF' = [pcF EXCEPT ![t] = x], UNCHANGED <<batch, pcS>>
      PROVE  RuferOK'
  BY <1>0, <1>2
<1>3. ASSUME NEW e \in Entries, submit(e) PROVE RuferOK'
  BY <1>0, <1>3 DEF submit
<1>4. ASSUME NEW e \in Entries, submit_enqueue(e) PROVE RuferOK'
  BY <1>0, <1>4 DEF submit_enqueue, enqueue_batch
<1>5. ASSUME NEW e \in Entries, submit_notify(e) PROVE RuferOK'
  BY <1>0, <1>5 DEF submit_notify
<1>6. ASSUME NEW t \in Rufer, flush(t) PROVE RuferOK'
  BY <1>0, <1>6 DEF flush
<1>7. ASSUME NEW t \in Rufer, flush_enqueue(t) PROVE RuferOK'
  BY <1>0, <1>7 DEF flush_enqueue, enqueue_batch
<1>8. ASSUME NEW t \in Rufer,
             flush_notify(t) \/ flush_wait(t) \/ close(t) \/ close_notify(t) \/ close_join(t)
      PROVE  RuferOK'
  BY <1>2, <1>8 DEF flush_notify, flush_wait, NachFlush, close, close_notify, close_join
<1>9. ASSUME run_take \/ run_write \/ run_written PROVE RuferOK'
  BY <1>1, <1>9 DEF run_take, run_write, run_written
<1>10. ASSUME run_notify PROVE RuferOK'
  BY <1>0, <1>10 DEF run_notify
<1>11. ASSUME Spurious PROVE RuferOK'
  BY <1>1, <1>2, <1>11 DEF Spurious
<1>12. ASSUME UNCHANGED vars PROVE RuferOK'
  BY <1>1, <1>12 DEF vars
<1> QED
  BY <1>3, <1>4, <1>5, <1>6, <1>7, <1>8, <1>9, <1>10, <1>11, <1>12
     DEF Next, Submitting, Flushing, Worker

LEMMA WegStep == TypeOK /\ ZaehlInv /\ [Next]_vars => WegOK' /\ ZaehlInv'
<1> SUFFICES ASSUME TypeOK, ZaehlInv, [Next]_vars PROVE WegOK' /\ ZaehlInv'
  OBVIOUS
<1> USE DEF WegOK, ZaehlInv, ablage
<1>0. WegOK /\ ZaehlInv /\ RuferOK /\ Len(queue) \in Nat
  BY DEF TypeOK, RuferOK
<1>1. ASSUME UNCHANGED <<offen, queue, enqueued, written, persisted, misslungen, soll>>,
             spool' = spool \/ spool' = {} \/ \E e \in Entries : spool' = spool \cup {e},
             pcW' = pcW \/ WeckeSchreiber \/ (pcW = "schlaeft" /\ pcW' = "prueft")
      PROVE  WegOK' /\ ZaehlInv'
  <2>1. /\ pcW' \in {"prueft", "schlaeft", "schreibt", "meldet", "aus"}
        /\ pcW' = "schreibt" <=> pcW = "schreibt"
    BY <1>0, <1>1 DEF WeckeSchreiber
  <2> QED
    BY <1>0, <1>1, <2>1
<1>2. ASSUME NEW x \in Entries \cup Rufer, enqueue_batch(x),
             UNCHANGED <<spool, offen, written, persisted, misslungen, soll, pcW>>
      PROVE  WegOK' /\ ZaehlInv'
  <2>1. batch[x] \in SUBSET Entries
    BY <1>0 DEF RuferOK
  <2>2. queue' \in Seq(SUBSET Entries) /\ Len(queue') = Len(queue) + 1
    BY <1>0, <1>2, <2>1, AnhangFacts DEF enqueue_batch
  <2>3. enqueued' = enqueued + 1
    BY <1>2 DEF enqueue_batch
  <2> QED
    BY <1>0, <1>2, <2>2, <2>3
<1>3. ASSUME NEW e \in Entries, submit(e) \/ submit_notify(e) PROVE WegOK' /\ ZaehlInv'
  BY <1>1, <1>3 DEF submit, submit_notify
<1>4. ASSUME NEW e \in Entries, submit_enqueue(e) PROVE WegOK' /\ ZaehlInv'
  BY <1>2, <1>4 DEF submit_enqueue
<1>5. ASSUME NEW t \in Rufer, flush_enqueue(t) PROVE WegOK' /\ ZaehlInv'
  BY <1>2, <1>5 DEF flush_enqueue
<1>6. ASSUME NEW t \in Rufer, flush(t) PROVE WegOK' /\ ZaehlInv'
  <2>1. soll' \in [Rufer -> SUBSET Entries]
    BY <1>0, <1>6 DEF flush, Abgegeben
  <2> QED
    BY <1>0, <1>6, <2>1 DEF flush
<1>7. ASSUME NEW t \in Rufer,
             flush_notify(t) \/ flush_wait(t) \/ close(t) \/ close_notify(t) \/ close_join(t)
      PROVE  WegOK' /\ ZaehlInv'
  BY <1>1, <1>7 DEF flush_notify, flush_wait, close, close_notify, close_join
<1>8. ASSUME run_take PROVE WegOK' /\ ZaehlInv'
  <2>1. CASE queue = <<>>
    <3>1. UNCHANGED <<spool, offen, queue, enqueued, written, persisted, misslungen, soll>>
      BY <1>8, <2>1 DEF run_take
    <3>2. pcW = "prueft" /\ pcW' \in {"aus", "schlaeft"}
      BY <1>8, <2>1 DEF run_take
    <3> QED
      BY <1>0, <3>1, <3>2
  <2>2. CASE queue # <<>>
    <3>1. /\ offen' = Head(queue) /\ queue' = Tail(queue) /\ pcW = "prueft"
          /\ pcW' = "schreibt"
          /\ UNCHANGED <<spool, enqueued, written, persisted, misslungen, soll>>
      BY <1>8, <2>2 DEF run_take
    <3>2. /\ offen' \in SUBSET Entries /\ queue' \in Seq(SUBSET Entries)
          /\ Len(queue) = Len(queue') + 1 /\ Len(queue') \in Nat
      BY <1>0, <2>2, <3>1, KopfFacts
    <3> QED
      BY <1>0, <3>1, <3>2
  <2> QED
    BY <2>1, <2>2
<1>9. ASSUME run_write PROVE WegOK' /\ ZaehlInv'
  BY <1>0, <1>9 DEF run_write
<1>10. ASSUME run_written PROVE WegOK' /\ ZaehlInv'
  BY <1>0, <1>10 DEF run_written
<1>11. ASSUME run_notify PROVE WegOK' /\ ZaehlInv'
  BY <1>0, <1>11 DEF run_notify
<1>12. ASSUME Spurious PROVE WegOK' /\ ZaehlInv'
  BY <1>1, <1>12 DEF Spurious
<1>13. ASSUME UNCHANGED vars PROVE WegOK' /\ ZaehlInv'
  BY <1>1, <1>13 DEF vars
<1> QED
  BY <1>3, <1>4, <1>5, <1>6, <1>7, <1>8, <1>9, <1>10, <1>11, <1>12, <1>13
     DEF Next, Submitting, Flushing, Worker

LEMMA TypeStep == TypeOK /\ ZaehlInv /\ [Next]_vars => TypeOK' /\ ZaehlInv'
<1> SUFFICES ASSUME TypeOK, ZaehlInv, [Next]_vars PROVE TypeOK' /\ ZaehlInv'
  OBVIOUS
<1>1. WegOK' /\ RuferOK' /\ closed' \in BOOLEAN /\ ZaehlInv'
  BY ClosedStep, RuferStep, WegStep
<1> QED
  BY <1>1 DEF TypeOK, WegOK, RuferOK

-----------------------------------------------------------------------------
(***************************************************************************)
(* The way of the entries                                                  *)
(***************************************************************************)
\* An entry on its way to the disk stays on it.
LEMMA WegBleibt ==
  ASSUME TypeOK, [Next]_vars, NEW e, Unterwegs(e)
  PROVE  Unterwegs(e)'
<1> USE DEF Unterwegs, Versucht, ablage
<1>0. queue \in Seq(SUBSET Entries) /\ (pcW # "schreibt" => offen = {})
  BY DEF TypeOK
<1>1. ASSUME UNCHANGED <<offen, queue, persisted, misslungen>> PROVE Unterwegs(e)'
  BY <1>1 DEF InSeq
<1>2. ASSUME NEW x \in Entries \cup Rufer, enqueue_batch(x), UNCHANGED <<offen, persisted, misslungen>>
      PROVE  Unterwegs(e)'
  <2>1. batch[x] \in SUBSET Entries
    BY DEF TypeOK
  <2>2. InSeq(e, queue) => InSeq(e, queue')
    BY <1>0, <1>2, <2>1, AnhangFacts DEF enqueue_batch
  <2>3. InSeq(e, queue)' <=> InSeq(e, queue')
    BY DEF InSeq
  <2> QED
    BY <1>2, <2>2, <2>3
<1>3. ASSUME NEW i \in Entries, submit(i) \/ submit_notify(i) PROVE Unterwegs(e)'
  BY <1>1, <1>3 DEF submit, submit_notify
<1>4. ASSUME NEW i \in Entries, submit_enqueue(i) PROVE Unterwegs(e)'
  BY <1>2, <1>4 DEF submit_enqueue
<1>5. ASSUME NEW t \in Rufer, flush_enqueue(t) PROVE Unterwegs(e)'
  BY <1>2, <1>5 DEF flush_enqueue
<1>6. ASSUME NEW t \in Rufer, \/ flush(t) \/ flush_notify(t) \/ flush_wait(t)
                              \/ close(t) \/ close_notify(t) \/ close_join(t)
      PROVE  Unterwegs(e)'
  BY <1>1, <1>6 DEF flush, flush_notify, flush_wait, close, close_notify, close_join
<1>7. ASSUME run_take PROVE Unterwegs(e)'
  <2>1. CASE queue = <<>>
    BY <1>1, <1>7, <2>1 DEF run_take
  <2>2. CASE queue # <<>>
    <3>1. /\ offen' = Head(queue) /\ queue' = Tail(queue) /\ pcW = "prueft"
          /\ UNCHANGED <<persisted, misslungen>>
      BY <1>7, <2>2 DEF run_take
    <3>2. InSeq(e, queue) => e \in offen' \/ InSeq(e, queue')
      BY <1>0, <2>2, <3>1, KopfFacts
    <3>3. InSeq(e, queue)' <=> InSeq(e, queue')
      BY DEF InSeq
    <3> QED
      BY <1>0, <3>1, <3>2, <3>3
  <2> QED
    BY <2>1, <2>2
<1>8. ASSUME run_write PROVE Unterwegs(e)'
  <2>1. queue' = queue /\ offen \cup Versucht \subseteq (offen \cup Versucht)'
    BY <1>8 DEF run_write
  <2> QED
    BY <2>1 DEF InSeq
<1>9. ASSUME run_written \/ run_notify \/ Spurious PROVE Unterwegs(e)'
  BY <1>1, <1>9 DEF run_written, run_notify, Spurious
<1>10. ASSUME UNCHANGED vars PROVE Unterwegs(e)'
  BY <1>1, <1>10 DEF vars
<1> QED
  BY <1>3, <1>4, <1>5, <1>6, <1>7, <1>8, <1>9, <1>10 DEF Next, Submitting, Flushing, Worker

\* A batch that is handed over is on its way.
LEMMA HandUebergabe ==
  ASSUME TypeOK, NEW x \in Entries \cup Rufer, enqueue_batch(x), NEW e \in batch[x]
  PROVE  Unterwegs(e)'
<1>1. batch[x] \in SUBSET Entries /\ queue \in Seq(SUBSET Entries)
  BY DEF TypeOK
<1>2. InSeq(e, queue')
  BY <1>1, AnhangFacts DEF enqueue_batch
<1>3. InSeq(e, queue)' <=> InSeq(e, queue')
  BY DEF InSeq
<1> QED
  BY <1>2, <1>3 DEF Unterwegs

\* What a caller holds stays in its hands until it hands it over.
LEMMA HandBleibt ==
  ASSUME TypeOK, [Next]_vars, NEW x \in Entries \cup Rufer, NEW e \in batch[x]
  PROVE  e \in batch'[x] \/ Unterwegs(e)'
<1> USE SpoolConstantsOK DEF Rufer
<1>0. RuferOK
  BY TypeParts
<1>1. ASSUME UNCHANGED batch PROVE e \in batch'[x]
  BY <1>1
<1>2. ASSUME NEW y \in Entries \cup Rufer, enqueue_batch(y) PROVE e \in batch'[x] \/ Unterwegs(e)'
  <2>1. CASE y = x
    BY <1>2, <2>1, HandUebergabe
  <2>2. CASE y # x
    BY <1>0, <1>2, <2>2 DEF RuferOK, enqueue_batch
  <2> QED
    BY <2>1, <2>2
<1>3. ASSUME NEW i \in Entries, submit(i) PROVE e \in batch'[x]
  <2>1. batch[i] = {}
    BY <1>0, <1>3 DEF RuferOK, submit
  <2>2. x # i
    BY <2>1
  <2>3. batch' = batch \/ batch' = [batch EXCEPT ![i] = spool \cup {i}]
    BY <1>3 DEF submit
  <2> QED
    BY <1>0, <2>2, <2>3 DEF RuferOK
<1>4. ASSUME NEW i \in Entries, submit_enqueue(i) PROVE e \in batch'[x] \/ Unterwegs(e)'
  BY <1>2, <1>4 DEF submit_enqueue
<1>5. ASSUME NEW i \in Entries, submit_notify(i) PROVE e \in batch'[x]
  BY <1>1, <1>5 DEF submit_notify
<1>6. ASSUME NEW t \in Rufer, flush(t) PROVE e \in batch'[x]
  <2>1. batch[t] = {}
    BY <1>0, <1>6 DEF RuferOK, flush
  <2> QED
    BY <1>0, <1>6, <2>1 DEF RuferOK, flush
<1>7. ASSUME NEW t \in Rufer, flush_enqueue(t) PROVE e \in batch'[x] \/ Unterwegs(e)'
  BY <1>2, <1>7 DEF flush_enqueue
<1>8. ASSUME NEW t \in Rufer,
             flush_notify(t) \/ flush_wait(t) \/ close(t) \/ close_notify(t) \/ close_join(t)
      PROVE  e \in batch'[x]
  BY <1>1, <1>8 DEF flush_notify, flush_wait, close, close_notify, close_join
<1>9. ASSUME Worker \/ Spurious \/ UNCHANGED vars PROVE e \in batch'[x]
  BY <1>1, <1>9 DEF Worker, run_take, run_write, run_written, run_notify, Spurious, vars
<1> QED
  BY <1>3, <1>4, <1>5, <1>6, <1>7, <1>8, <1>9 DEF Next, Submitting, Flushing

\* What is in the spool leaves it in the hands of a caller.
LEMMA SpoolBleibt ==
  ASSUME TypeOK, [Next]_vars, NEW e \in spool
  PROVE  e \in spool' \/ \E x \in Entries \cup Rufer : e \in batch'[x]
<1>0. RuferOK
  BY TypeParts
<1>1. ASSUME UNCHANGED spool PROVE e \in spool'
  BY <1>1
<1>2. ASSUME NEW i \in Entries, submit(i)
      PROVE  e \in spool' \/ \E x \in Entries \cup Rufer : e \in batch'[x]
  <2>1. \/ spool' = spool \cup {i}
        \/ batch' = [batch EXCEPT ![i] = spool \cup {i}]
    BY <1>2 DEF submit
  <2> QED
    BY <1>0, <2>1 DEF RuferOK
<1>3. ASSUME NEW t \in Rufer, flush(t) PROVE \E x \in Entries \cup Rufer : e \in batch'[x]
  BY <1>0, <1>3 DEF RuferOK, flush
<1>4. ASSUME NEW i \in Entries, submit_enqueue(i) \/ submit_notify(i) PROVE e \in spool'
  BY <1>1, <1>4 DEF submit_enqueue, submit_notify
<1>5. ASSUME NEW t \in Rufer, Flushing(t) PROVE e \in spool'
  BY <1>1, <1>5 DEF Flushing, flush_enqueue, flush_notify, flush_wait, close, close_notify,
                    close_join
<1>6. ASSUME Worker \/ Spurious \/ UNCHANGED vars PROVE e \in spool'
  BY <1>1, <1>6 DEF Worker, run_take, run_write, run_written, run_notify, Spurious, vars
<1> QED
  BY <1>2, <1>3, <1>4, <1>5, <1>6 DEF Next, Submitting

\* A new entry comes from its own submit, into the spool or a batch.
LEMMA Neuzugang ==
  ASSUME TypeOK, [Next]_vars, NEW e \in Entries, pcS[e] = "neu", pcS'[e] # "neu"
  PROVE  e \in spool' \/ e \in batch'[e]
<1> USE SpoolConstantsOK DEF Rufer
<1>0. RuferOK
  BY TypeParts
<1>1. ASSUME NEW i \in Entries, submit(i) PROVE e \in spool' \/ e \in batch'[e]
  <2>1. i = e
    BY <1>0, <1>1 DEF RuferOK, submit
  <2>2. \/ spool' = spool \cup {e}
        \/ batch' = [batch EXCEPT ![e] = spool \cup {e}]
    BY <1>1, <2>1 DEF submit
  <2> QED
    BY <1>0, <2>2 DEF RuferOK
<1>2. ASSUME NEW i \in Entries, submit_enqueue(i) \/ submit_notify(i) PROVE FALSE
  BY <1>0, <1>2 DEF RuferOK, submit_enqueue, submit_notify
<1>3. ASSUME NEW t \in Rufer, flush(t) \/ Flushing(t) PROVE FALSE
  BY <1>3 DEF flush, Flushing, flush_enqueue, flush_notify, flush_wait, close, close_notify,
              close_join
<1>4. ASSUME Worker \/ Spurious \/ UNCHANGED vars PROVE FALSE
  BY <1>4 DEF Worker, run_take, run_write, run_written, run_notify, Spurious, vars
<1> QED
  BY <1>1, <1>2, <1>3, <1>4 DEF Next, Submitting

LEMMA OrtStep == IInv /\ [Next]_vars => OrtInv'
<1> SUFFICES ASSUME IInv, [Next]_vars, NEW e \in Entries, pcS'[e] # "neu"
             PROVE  \/ e \in spool' \/ Unterwegs(e)'
                    \/ \E x \in Entries \cup Rufer : e \in batch'[x]
  BY DEF OrtInv
<1>0. TypeOK
  BY DEF IInv
<1>1. CASE pcS[e] = "neu"
  BY <1>0, <1>1, Neuzugang
<1>2. CASE pcS[e] # "neu"
  <2>1. e \in spool \/ Unterwegs(e) \/ \E x \in Entries \cup Rufer : e \in batch[x]
    BY <1>2 DEF IInv, OrtInv
  <2> QED
    BY <1>0, <2>1, SpoolBleibt, WegBleibt, HandBleibt
<1> QED
  BY <1>1, <1>2

-----------------------------------------------------------------------------
(***************************************************************************)
(* One place                                                               *)
(***************************************************************************)
Orte == <<spool, batch, queue, offen, ablage>>

\* An entry that comes in, or goes to the disk, goes to one place.
LEMMA EinzelnBewegt ==
  ASSUME IInv, NEW e \in Entries,
         \/ \E i \in Entries : submit(i)
         \/ \E t \in Rufer : flush(t)
         \/ run_write
         \/ UNCHANGED Orte /\ pcS' = pcS
         \/ UNCHANGED Orte /\ \E i \in Entries : submit_notify(i)
  PROVE  EinOrt(e)'
<1> USE DEF EinOrt, InHand, Unterwegs, Versucht, InSeq, ablage, Orte
<1>0. RuferOK /\ EinOrt(e) /\ spool \subseteq Entries
  BY TypeParts DEF IInv, EinzelnInv, WegOK
<1>1. ASSUME NEW i \in Entries, submit(i) PROVE EinOrt(e)'
  <2>1. batch[i] = {} /\ pcS[i] = "neu" /\ pcS'[i] # "neu"
        /\ (i # e => pcS'[e] = pcS[e]) /\ UNCHANGED <<queue, offen, ablage>>
    BY <1>0, <1>1 DEF submit, RuferOK
  <2>2. CASE spool' = spool \cup {i} /\ UNCHANGED batch
    BY <1>0, <2>1, <2>2
  <2>3. CASE spool' = {} /\ batch' = [batch EXCEPT ![i] = spool \cup {i}]
    <3>1. \A x \in Entries \cup Rufer : batch'[x] = IF x = i THEN spool \cup {i} ELSE batch[x]
      BY <1>0, <2>3 DEF RuferOK
    <3> QED
      BY <1>0, <2>1, <2>3, <3>1
  <2> QED
    BY <1>1, <2>2, <2>3 DEF submit
<1>2. ASSUME NEW t \in Rufer, flush(t) PROVE EinOrt(e)'
  <2>1. batch[t] = {} /\ spool' = {} /\ UNCHANGED <<queue, offen, ablage, pcS>>
    BY <1>0, <1>2 DEF flush, RuferOK
  <2>2. \A x \in Entries \cup Rufer : batch'[x] = IF x = t THEN spool ELSE batch[x]
    BY <1>0, <1>2 DEF flush, RuferOK
  <2> QED
    BY <1>0, <2>1, <2>2
<1>3. ASSUME run_write PROVE EinOrt(e)'
  BY <1>0, <1>3 DEF run_write
<1>4. ASSUME UNCHANGED Orte, pcS' = pcS PROVE EinOrt(e)'
  BY <1>0, <1>4
<1>5. ASSUME NEW i \in Entries, UNCHANGED Orte, submit_notify(i) PROVE EinOrt(e)'
  BY <1>0, <1>5 DEF submit_notify, RuferOK
<1> QED
  BY <1>1, <1>2, <1>3, <1>4, <1>5

\* A batch that is handed over leaves the hands of its caller.
LEMMA EinzelnUebergeben ==
  ASSUME IInv, NEW e \in Entries, NEW x \in Entries \cup Rufer, enqueue_batch(x),
         pcS'[e] = "neu" => pcS[e] = "neu", UNCHANGED <<spool, offen, ablage>>
  PROVE  EinOrt(e)'
<1>0. /\ RuferOK /\ EinOrt(e) /\ queue \in Seq(SUBSET Entries)
      /\ batch[x] \in SUBSET Entries
  BY TypeParts DEF IInv, EinzelnInv, WegOK, RuferOK
<1>1. queue' = Append(queue, batch[x]) /\ batch' = [batch EXCEPT ![x] = {}]
  BY DEF enqueue_batch
<1>2. ~(InSeq(e, queue) /\ e \in batch[x])
  BY <1>0 DEF EinOrt, InHand, Unterwegs
<1>3. \A j, k \in 1 .. Len(queue) : e \in queue[j] /\ e \in queue[k] => j = k
  BY <1>0 DEF EinOrt
<1>4. /\ InSeq(e, queue') => InSeq(e, queue) \/ e \in batch[x]
      /\ \A j, k \in 1 .. Len(queue') : e \in queue'[j] /\ e \in queue'[k] => j = k
  BY <1>0, <1>1, <1>2, <1>3, AnhangEinzeln
<1>5. InSeq(e, queue)' <=> InSeq(e, queue')
  BY DEF InSeq
<1>6. \A y \in Entries \cup Rufer : batch'[y] = IF y = x THEN {} ELSE batch[y]
  BY <1>0, <1>1 DEF RuferOK
<1> QED
  BY <1>0, <1>4, <1>5, <1>6 DEF EinOrt, InHand, Unterwegs, Versucht, ablage

\* A batch that the writer takes leaves the queue.
LEMMA EinzelnGenommen ==
  ASSUME IInv, NEW e \in Entries, run_take
  PROVE  EinOrt(e)'
<1>0. EinOrt(e) /\ queue \in Seq(SUBSET Entries) /\ (pcW # "schreibt" => offen = {})
  BY DEF IInv, EinzelnInv, TypeOK
<1>1. CASE queue = <<>>
  BY <1>0, <1>1, EinzelnBewegt DEF run_take, Orte
<1>2. CASE queue # <<>>
  <2>1. /\ offen = {} /\ offen' = Head(queue) /\ queue' = Tail(queue)
        /\ UNCHANGED <<spool, batch, ablage, pcS>>
    BY <1>0, <1>2 DEF run_take
  <2>2. \A j, k \in 1 .. Len(queue) : e \in queue[j] /\ e \in queue[k] => j = k
    BY <1>0 DEF EinOrt
  <2>3. /\ e \in offen' \/ InSeq(e, queue') => InSeq(e, queue)
        /\ ~(e \in offen' /\ InSeq(e, queue'))
        /\ \A j, k \in 1 .. Len(queue') : e \in queue'[j] /\ e \in queue'[k] => j = k
    BY <1>0, <1>2, <2>1, <2>2, KopfEinzeln
  <2>4. InSeq(e, queue)' <=> InSeq(e, queue')
    BY DEF InSeq
  <2> QED
    BY <1>0, <2>1, <2>3, <2>4 DEF EinOrt, InHand, Unterwegs, Versucht, ablage
<1> QED
  BY <1>1, <1>2

LEMMA EinzelnStep == IInv /\ [Next]_vars => EinzelnInv'
<1> SUFFICES ASSUME IInv, [Next]_vars, NEW e \in Entries PROVE EinOrt(e)'
  BY DEF EinzelnInv
<1>0. RuferOK
  BY TypeParts DEF IInv
<1>1. ASSUME NEW i \in Entries, submit(i) \/ submit_notify(i) PROVE EinOrt(e)'
  BY <1>1, EinzelnBewegt DEF submit_notify, Orte
<1>2. ASSUME NEW i \in Entries, submit_enqueue(i) PROVE EinOrt(e)'
  BY <1>0, <1>2, EinzelnUebergeben DEF submit_enqueue, RuferOK
<1>3. ASSUME NEW t \in Rufer, flush_enqueue(t) PROVE EinOrt(e)'
  BY <1>3, EinzelnUebergeben DEF flush_enqueue
<1>4. ASSUME NEW t \in Rufer, flush(t) PROVE EinOrt(e)'
  BY <1>4, EinzelnBewegt
<1>5. ASSUME NEW t \in Rufer,
             flush_notify(t) \/ flush_wait(t) \/ close(t) \/ close_notify(t) \/ close_join(t)
      PROVE  EinOrt(e)'
  BY <1>5, EinzelnBewegt DEF flush_notify, flush_wait, close, close_notify, close_join, Orte
<1>6. ASSUME run_written \/ run_notify \/ Spurious \/ UNCHANGED vars PROVE EinOrt(e)'
  BY <1>6, EinzelnBewegt DEF run_written, run_notify, Spurious, vars, Orte
<1> QED
  BY <1>1, <1>2, <1>3, <1>4, <1>5, <1>6, EinzelnBewegt, EinzelnGenommen
     DEF Next, Submitting, Flushing, Worker

-----------------------------------------------------------------------------
\* Only flush brings a caller to the barrier, and only flush changes what it
\* has to wait for.
LEMMA Barrierengang ==
  ASSUME TypeOK, [Next]_vars, NEW t \in Rufer, pcF'[t] \in AnBarriere, ~flush(t)
  PROVE  pcF[t] \in AnBarriere /\ soll'[t] = soll[t]
<1> USE DEF AnBarriere
<1>0. RuferOK /\ soll \in [Rufer -> SUBSET Entries]
  BY TypeParts DEF WegOK
<1>1. ASSUME UNCHANGED <<pcF, soll>> PROVE pcF[t] \in AnBarriere /\ soll'[t] = soll[t]
  BY <1>1
<1>3. ASSUME NEW u \in Rufer, flush(u) PROVE pcF[t] \in AnBarriere /\ soll'[t] = soll[t]
  BY <1>0, <1>3 DEF RuferOK, flush
<1>4. ASSUME NEW u \in Rufer, Flushing(u) PROVE pcF[t] \in AnBarriere /\ soll'[t] = soll[t]
  <2>1. UNCHANGED soll
    BY <1>4 DEF Flushing, flush_enqueue, flush_notify, flush_wait, close, close_notify, close_join
  <2>2. CASE u = t
    BY <1>0, <1>4, <2>1, <2>2
       DEF RuferOK, Flushing, flush_enqueue, flush_notify, flush_wait, NachFlush, close,
           close_notify, close_join
  <2>3. CASE u # t
    BY <1>0, <1>4, <2>1, <2>3
       DEF RuferOK, Flushing, flush_enqueue, flush_notify, flush_wait, NachFlush, close,
           close_notify, close_join
  <2> QED
    BY <2>2, <2>3
<1>5. ASSUME run_notify \/ Spurious PROVE pcF[t] \in AnBarriere /\ soll'[t] = soll[t]
  BY <1>0, <1>5 DEF RuferOK, run_notify, Spurious
<1>6. ASSUME run_take \/ run_write \/ run_written \/ UNCHANGED vars
      PROVE  pcF[t] \in AnBarriere /\ soll'[t] = soll[t]
  BY <1>1, <1>6 DEF run_take, run_write, run_written, vars
<1>7. ASSUME NEW i \in Entries, submit(i) \/ Submitting(i)
      PROVE  pcF[t] \in AnBarriere /\ soll'[t] = soll[t]
  BY <1>1, <1>7 DEF submit, Submitting, submit_enqueue, submit_notify
<1> QED
  BY <1>3, <1>4, <1>5, <1>6, <1>7 DEF Next, Worker

LEMMA SollStep == IInv /\ [Next]_vars => SollInv'
<1> SUFFICES ASSUME IInv, [Next]_vars, NEW t \in Rufer, pcF'[t] \in AnBarriere,
                    NEW e \in soll'[t]
             PROVE  e \in batch'[t] \/ Unterwegs(e)'
  BY DEF SollInv, AnBarriere
<1>0. TypeOK
  BY DEF IInv
<1>1. CASE flush(t)
  <2>1. e \in Abgegeben /\ e \notin InFremdenHaenden(t) /\ batch'[t] = spool /\ batch[t] = {}
    BY <1>0, <1>1 DEF flush, TypeOK
  <2>2. e \in Entries /\ pcS[e] # "neu"
    BY <2>1 DEF Abgegeben
  <2>3. e \in spool \/ Unterwegs(e) \/ \E x \in Entries \cup Rufer : e \in batch[x]
    BY <2>2 DEF IInv, OrtInv
  <2>4. ~\E x \in Entries \cup Rufer : e \in batch[x]
    BY <2>1 DEF InFremdenHaenden
  <2> QED
    BY <1>0, <2>1, <2>3, <2>4, WegBleibt
<1>2. CASE ~flush(t)
  <2>1. pcF[t] \in AnBarriere /\ e \in soll[t]
    BY <1>0, <1>2, Barrierengang
  <2>2. e \in batch[t] \/ Unterwegs(e)
    BY <2>1 DEF IInv, SollInv
  <2> QED
    BY <1>0, <2>2, WegBleibt, HandBleibt
<1> QED
  BY <1>1, <1>2

-----------------------------------------------------------------------------
\* The invariant holds in every reachable state.
THEOREM Invariance == Spec => []IInv
<1>1. Init => IInv
  BY InitInv
<1>2. IInv /\ [Next]_vars => IInv'
  BY TypeStep, OrtStep, SollStep, EinzelnStep DEF IInv
<1> QED
  BY <1>1, <1>2, PTL DEF Spec

\* The two halves of flush and submit keep their types: who holds a batch is
\* between the two locks, and the writer's batch is empty when it is counted.
THEOREM TypeCorrect == Spec => []TypeOK
<1>1. IInv => TypeOK
  BY DEF IInv
<1> QED
  BY <1>1, Invariance, PTL

\* Who is at one place at most and, once handed in, at one at least is counted once.
LEMMA Gezaehlt == IInv => OnePlace
<1> SUFFICES ASSUME IInv, NEW e \in Entries
             PROVE  LET ablagen == [spool |-> spool, offen |-> offen,
                                    persisted |-> persisted, misslungen |-> misslungen]
                        lager   == {o \in DOMAIN ablagen : e \in ablagen[o]}
                        haende  == {x \in Entries \cup Rufer : e \in batch[x]}
                        wartend == {k \in DOMAIN queue : e \in queue[k]}
                    IN  Cardinality(lager) + Cardinality(haende) + Cardinality(wartend)
                          = IF pcS[e] = "neu" THEN 0 ELSE 1
  BY DEF OnePlace
<1> DEFINE ablagen == [spool |-> spool, offen |-> offen,
                       persisted |-> persisted, misslungen |-> misslungen]
           lager   == {o \in DOMAIN ablagen : e \in ablagen[o]}
           haende  == {x \in Entries \cup Rufer : e \in batch[x]}
           wartend == {k \in DOMAIN queue : e \in queue[k]}
           L == Cardinality(lager)
           H == Cardinality(haende)
           W == Cardinality(wartend)
<1>0. EinOrt(e) /\ DOMAIN queue = 1 .. Len(queue)
  BY DEF IInv, EinzelnInv, TypeOK
<1>1. pcS[e] # "neu" => e \in spool \/ Unterwegs(e) \/ InHand(e)
  BY DEF IInv, OrtInv, InHand
<1>2. lager = {o \in {"spool", "offen", "persisted", "misslungen"} :
                \/ o = "spool" /\ e \in spool
                \/ o = "offen" /\ e \in offen
                \/ o = "persisted" /\ e \in persisted
                \/ o = "misslungen" /\ e \in misslungen}
  OBVIOUS
<1>3. /\ e \in spool => lager = {"spool"}
      /\ e \in offen => lager = {"offen"}
      /\ e \in persisted => lager = {"persisted"}
      /\ e \in misslungen => lager = {"misslungen"}
      /\ e \notin spool \cup offen \cup Versucht => lager = {}
  BY <1>0, <1>2 DEF EinOrt, Unterwegs, Versucht
<1>4. IF e \in spool \cup offen \cup Versucht THEN L = 1 ELSE L = 0
  BY <1>3, FS_Singleton, FS_EmptySet DEF Versucht
<1>5. IF InHand(e) THEN H = 1 ELSE H = 0
  <2>1. CASE InHand(e)
    <3>1. PICK x \in Entries \cup Rufer : e \in batch[x]
      BY <2>1 DEF InHand
    <3>2. haende = {x}
      BY <1>0, <3>1 DEF EinOrt
    <3> QED
      BY <2>1, <3>2, FS_Singleton
  <2>2. CASE ~InHand(e)
    <3>1. haende = {}
      BY <2>2 DEF InHand
    <3> QED
      BY <2>2, <3>1, FS_EmptySet
  <2> QED
    BY <2>1, <2>2
<1>6. IF InSeq(e, queue) THEN W = 1 ELSE W = 0
  <2>1. CASE InSeq(e, queue)
    <3>1. PICK k \in 1 .. Len(queue) : e \in queue[k]
      BY <2>1 DEF InSeq
    <3>2. wartend = {k}
      BY <1>0, <3>1 DEF EinOrt
    <3> QED
      BY <2>1, <3>2, FS_Singleton
  <2>2. CASE ~InSeq(e, queue)
    <3>1. wartend = {}
      BY <1>0, <2>2 DEF InSeq
    <3> QED
      BY <2>2, <3>1, FS_EmptySet
  <2> QED
    BY <2>1, <2>2
<1> HIDE DEF L, H, W
<1>7. L + H + W = IF pcS[e] = "neu" THEN 0 ELSE 1
  BY <1>0, <1>1, <1>4, <1>5, <1>6 DEF EinOrt, Unterwegs
<1> QED
  BY <1>7 DEF L, H, W

\* No entry is lost or doubled on its way through two locks, with any number of
\* callers (submit, flush and run, spool_writer.hpp:84-153).
THEOREM EveryEntryOnce == Spec => []OnePlace
  BY Invariance, Gezaehlt, PTL

\* Who is past the barrier finds the counters equal: nothing is queued, the
\* writer has nothing in work, and the own batch has been handed over.
LEMMA BarriereOffen ==
  ASSUME IInv, [Next]_vars, NEW t \in Rufer, Zurueck(t)
  PROVE  soll[t] \subseteq Versucht
<1>0. RuferOK /\ WegOK /\ ZaehlInv /\ SollInv
  BY TypeParts DEF IInv
<1>1. pcF[t] = "prueft" /\ pcF'[t] \in {"ruht", "schliesst"}
  BY DEF Zurueck
<1>2. enqueued = written
  <2>1. ASSUME NEW u \in Rufer, flush(u) PROVE FALSE
    BY <1>0, <1>1, <2>1 DEF RuferOK, flush
  <2>2. ASSUME NEW u \in Rufer, Flushing(u) PROVE enqueued = written
    <3>1. u = t
      BY <1>0, <1>1, <2>2
         DEF RuferOK, Flushing, flush_enqueue, flush_notify, flush_wait, NachFlush, close,
             close_notify, close_join
    <3>2. flush_wait(t)
      BY <1>1, <2>2, <3>1
         DEF Flushing, flush_enqueue, flush_notify, close, close_notify, close_join
    <3> QED
      BY <1>0, <1>1, <3>2 DEF RuferOK, flush_wait
  <2>3. ASSUME NEW i \in Entries, submit(i) \/ Submitting(i) PROVE FALSE
    BY <1>1, <2>3 DEF submit, Submitting, submit_enqueue, submit_notify
  <2>4. ASSUME Worker \/ Spurious \/ UNCHANGED vars PROVE FALSE
    BY <1>0, <1>1, <2>4
       DEF RuferOK, Worker, run_take, run_write, run_written, run_notify, Spurious, vars
  <2> QED
    BY <2>1, <2>2, <2>3, <2>4 DEF Next
<1>3. Len(queue) = 0 /\ pcW # "schreibt"
  <2>1. Len(queue) \in Nat /\ enqueued \in Nat /\ written \in Nat
    BY <1>0 DEF WegOK
  <2> QED
    BY <1>0, <1>2, <2>1 DEF ZaehlInv
<1>4. offen = {} /\ \A e : ~InSeq(e, queue)
  BY <1>0, <1>3 DEF WegOK, InSeq
<1>5. batch[t] = {}
  BY <1>0, <1>1 DEF RuferOK
<1> QED
  BY <1>0, <1>1, <1>4, <1>5 DEF SollInv, AnBarriere, Unterwegs

\* flush and the flush inside close return only when every entry handed in
\* before, and not in the hands of another call, has been through the writer.
THEOREM FlushIsBarrier == Spec => FlushBarrier
<1>1. IInv /\ [Next]_vars => [FlushHaelt]_vars
  BY BarriereOffen DEF FlushHaelt
<1> QED
  BY <1>1, Invariance, PTL DEF Spec, FlushBarrier
=============================================================================
