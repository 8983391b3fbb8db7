-------------------------- MODULE BestandslogProofs --------------------------
(***************************************************************************)
(* What holds of the locked write cycle for every set of machines, every   *)
(* ttl and budget, and every choice of verbs that may fail.                *)
(*                                                                         *)
(* The inductive invariant IInv says what each machine may rely on at its  *)
(* step of the cycle as long as no lock was lost inside a section: the     *)
(* lock is its own from the verification to the store, so the document it  *)
(* read is still the one in the store when it writes.                      *)
(***************************************************************************)
EXTENDS Bestandslog, BestandMergeProofs

\* Type correctness of the write cycle.
LEMMA LeaveType ==
  ASSUME TypeOK, NEW m \in Machines,
         NEW step \in Steps \cup {"idle", "down"}, Leave(m, step)
  PROVE  /\ pc' \in [Machines -> Steps \cup {"idle", "down"}]
         /\ base' \in [Machines -> Dokument]
         /\ elapsed' \in [Machines -> 0..MaxCycle]
         /\ out' \in [Machines -> Outcomes]
<1>1. Missing \in Dokument
  BY LeerType DEF Missing, Dokument, Kinds
<1> QED
  BY <1>1, ConstantsOK DEF Leave, Goto, TypeOK, Outcomes

LEMMA CycleReturnsType ==
  ASSUME TypeOK, NEW m \in Machines, NEW outcome \in Outcomes,
         CycleReturns(m, outcome)
  PROVE  /\ pc' \in [Machines -> Steps \cup {"idle", "down"}]
         /\ base' \in [Machines -> Dokument]
         /\ elapsed' \in [Machines -> 0..MaxCycle]
         /\ out' \in [Machines -> Outcomes]
         /\ tries' \in [Machines -> {0, 1}]
         /\ job' \in [Machines -> Content]
         /\ acked' \subseteq Content
<1>1. CASE outcome \in {"lock_unavailable", "deadline_exceeded"} /\ tries[m] = 0
  BY <1>1, LeaveType DEF CycleReturns, TypeOK, Steps
<1>2. CASE ~(outcome \in {"lock_unavailable", "deadline_exceeded"} /\ tries[m] = 0)
  BY <1>2, LeaveType, LeerType DEF CycleReturns, TypeOK
<1> QED
  BY <1>1, <1>2

LEMMA MineType ==
  ASSUME TypeOK, NEW m \in Machines
  PROVE  Mine(m) \in LockRecord
  BY ConstantsOK DEF Mine, LockRecord, MaxAge, TypeOK

LEMMA NoLockType == NoLock \in LockRecord
  BY ConstantsOK DEF NoLock, LockRecord, MaxAge

LEMMA MergedType ==
  ASSUME TypeOK, NEW m \in Machines
  PROVE  Merged(m) \in Dokument
<1>1. base[m] \in Dokument /\ job[m] \in Content
  BY DEF TypeOK
<1>2. merge_documents(base[m].inhalt, job[m]) \in Content
  BY <1>1, MergeType DEF Dokument
<1> QED
  BY <1>1, <1>2 DEF Merged, Syntax, Dokument, Kinds

LEMMA InitType == Init => TypeOK
<1> SUFFICES ASSUME Init PROVE TypeOK
  OBVIOUS
<1>1. doc \in Dokument /\ Missing \in Dokument
  BY LeerType DEF Init, Missing, Foreign, Dokument, Kinds
<1>2. lock \in LockRecord
  BY NoLockType DEF Init
<1>3. elapsed \in [Machines -> 0..MaxCycle] /\ job \in [Machines -> Content]
  BY LeerType, ConstantsOK DEF Init
<1> QED
  BY <1>1, <1>2, <1>3 DEF Init, TypeOK, Outcomes

LEMMA NextType == TypeOK /\ [Next]_vars => TypeOK'
<1> SUFFICES ASSUME TypeOK, [Next]_vars PROVE TypeOK'
  OBVIOUS
<1> USE DEF history, objects
<1>1. ASSUME NEW m \in Machines, Begin(m) PROVE TypeOK'
  BY <1>1, ConstantsOK DEF Begin, TypeOK, Goto, Steps
<1>2. ASSUME NEW m \in Machines, LockFetch(m) PROVE TypeOK'
  BY <1>2, CycleReturnsType DEF LockFetch, TypeOK, Goto, Steps, Outcomes
<1>3. ASSUME NEW m \in Machines, LockBreak(m) PROVE TypeOK'
  BY <1>3, NoLockType DEF LockBreak, TypeOK, Goto, Steps, Robs
<1>4. ASSUME NEW m \in Machines, LockStore(m) PROVE TypeOK'
  BY <1>4, MineType, CycleReturnsType DEF LockStore, TypeOK, Goto, Steps, Outcomes, Robs
<1>5. ASSUME NEW m \in Machines, LockVerify(m) PROVE TypeOK'
  BY <1>5, CycleReturnsType DEF LockVerify, TypeOK, Goto, Steps, Outcomes
<1>6. ASSUME NEW m \in Machines, Guard(m) PROVE TypeOK'
  BY <1>6 DEF Guard, TypeOK, Goto, Steps, Outcomes
<1>7. ASSUME NEW m \in Machines, DocFetch(m) PROVE TypeOK'
  <2>1. \A d \in Fetched(doc, Missing) : d \in Dokument
    BY LeerType DEF Fetched, TypeOK, Missing, Dokument, Kinds
  <2> QED
    BY <1>7, <2>1 DEF DocFetch, TypeOK, Goto, Steps, Outcomes
<1>8. ASSUME NEW m \in Machines, DocStore(m) PROVE TypeOK'
  BY <1>8, MergedType DEF DocStore, TypeOK, Goto, Steps, Outcomes
<1>9. ASSUME NEW m \in Machines, RelFetch(m) PROVE TypeOK'
  <2>1. out[m] \in Outcomes
    BY DEF TypeOK
  <2> QED
    BY <1>9, <2>1, CycleReturnsType DEF RelFetch, TypeOK, Goto, Steps
<1>10. ASSUME NEW m \in Machines, RelRemove(m) PROVE TypeOK'
  <2>1. out[m] \in Outcomes
    BY DEF TypeOK
  <2> QED
    BY <1>10, <2>1, CycleReturnsType, NoLockType DEF RelRemove, TypeOK, Robs
<1>11. ASSUME NEW m \in Machines, Crash(m) PROVE TypeOK'
  BY <1>11, LeaveType, LeerType DEF Crash, TypeOK
<1>12. ASSUME NEW m \in Machines, Restart(m) PROVE TypeOK'
  BY <1>12 DEF Restart, TypeOK, Goto
<1>13. ASSUME Tick PROVE TypeOK'
  <2>1. lock' \in LockRecord
    <3>1. CASE lock' = lock
      BY <3>1 DEF TypeOK
    <3>2. CASE lock' # lock
      <4>1. lock' = [lock EXCEPT !.age = lock.age + 1] /\ lock.age # MaxAge
        BY <1>13, <3>2 DEF Tick
      <4>2. lock.age \in 0..MaxAge /\ MaxAge \in Nat
        BY ConstantsOK DEF TypeOK, LockRecord, MaxAge
      <4>3. lock.age + 1 \in 0..MaxAge
        BY <4>1, <4>2
      <4> QED
        BY <4>1, <4>3 DEF TypeOK, LockRecord
    <3> QED
      BY <3>1, <3>2
  <2>2. elapsed' \in [Machines -> 0..MaxCycle]
    BY <1>13, ConstantsOK DEF Tick, TypeOK
  <2> QED
    BY <1>13, <2>1, <2>2 DEF Tick, TypeOK
<1>14. CASE UNCHANGED vars
  BY <1>14 DEF vars, TypeOK
<1> QED
  BY <1>1, <1>2, <1>3, <1>4, <1>5, <1>6, <1>7, <1>8, <1>9, <1>10, <1>11, <1>12,
     <1>13, <1>14 DEF Next, Cycle

\* The state of the write cycle stays within its types for every set of
\* machines, jobs and faults.
THEOREM TypeCorrect == Spec => []TypeOK
  BY InitType, NextType, PTL DEF Spec
-----------------------------------------------------------------------------
(***************************************************************************)
(* The inductive invariant                                                 *)
(***************************************************************************)

\* A machine in its section is the owner of the lock.
SectionOwn == ~raced => \A m \in Machines : InSection(m) => lock.owner = m

\* Once stored, an own lock is as old as the cycle of its owner.
Holding(m) == pc[m] \in Steps \ {"lockFetch", "lockBreak", "lockStore"}
AgeOwn == \A m \in Machines : Holding(m) /\ lock.owner = m => lock.age = elapsed[m]

\* The document read is still the one in the store when it is written.
BaseFresh ==
  ~raced /\ ~misread => \A m \in Machines : pc[m] = "docStore" => base[m] = doc

\* Work that was done is in the document, reported or not.
WrittenIn ==
  ~raced /\ ~misread =>
    \A m \in Machines :
      pc[m] \in {"relFetch", "relRemove"} /\ out[m] = "ok"
        => Contained(job[m], doc.inhalt)

\* A running cycle brings one of the jobs.
JobKnown == \A m \in Machines : Active(m) => job[m] \in Jobs

\* A machine at its store has read a document it accepts.
BaseRead ==
  \A m \in Machines : pc[m] = "docStore" => base[m].kind \in Lesbar(m) \cup {"fehlt"}

IInv == /\ TypeOK
        /\ SectionOwn
        /\ AgeOwn
        /\ BaseFresh
        /\ WrittenIn
        /\ AckedRecordsSurvive
        /\ JobKnown
        /\ BaseRead

-----------------------------------------------------------------------------
(***************************************************************************)
(* What a step leaves alone                                                *)
(***************************************************************************)
Step(m) == Begin(m) \/ Cycle(m) \/ Crash(m) \/ Restart(m)

LEMMA NextCases ==
  ASSUME [Next]_vars
  PROVE  (\E m \in Machines : Step(m)) \/ Tick \/ UNCHANGED vars
  BY DEF Next, Step

LEMMA CycleReturnsEffect ==
  ASSUME TypeOK, NEW m \in Machines, NEW outcome, CycleReturns(m, outcome)
  PROVE  /\ pc'[m] \in {"lockFetch", "idle"}
         /\ pc'[m] = "lockFetch" => job' = job
         /\ acked' = acked \/ (outcome = "ok" /\ acked' = acked \cup {job[m]})
         /\ \A n \in Machines \ {m} :
              /\ pc'[n] = pc[n] /\ elapsed'[n] = elapsed[n]
              /\ job'[n] = job[n] /\ base'[n] = base[n] /\ out'[n] = out[n]
  BY DEF CycleReturns, Leave, Goto, TypeOK

LEMMA OthersFrame ==
  ASSUME TypeOK, NEW m \in Machines, Step(m), NEW n \in Machines, n # m
  PROVE  /\ pc'[n] = pc[n] /\ elapsed'[n] = elapsed[n]
         /\ job'[n] = job[n] /\ base'[n] = base[n] /\ out'[n] = out[n]
<1>1. CASE Begin(m)
  BY <1>1 DEF Begin, Goto, TypeOK
<1>2. CASE LockFetch(m)
  BY <1>2, CycleReturnsEffect DEF LockFetch, Goto, TypeOK
<1>3. CASE LockBreak(m)
  BY <1>3 DEF LockBreak, Goto, TypeOK
<1>4. CASE LockStore(m)
  BY <1>4, CycleReturnsEffect DEF LockStore, Goto, TypeOK
<1>5. CASE LockVerify(m)
  BY <1>5, CycleReturnsEffect DEF LockVerify, Goto, TypeOK
<1>6. CASE Guard(m)
  BY <1>6 DEF Guard, Goto, TypeOK
<1>7. CASE DocFetch(m)
  BY <1>7 DEF DocFetch, Goto, TypeOK
<1>8. CASE DocStore(m)
  BY <1>8 DEF DocStore, Goto, TypeOK
<1>9. CASE RelFetch(m)
  BY <1>9, CycleReturnsEffect DEF RelFetch, Goto, TypeOK
<1>10. CASE RelRemove(m)
  BY <1>10, CycleReturnsEffect DEF RelRemove, TypeOK
<1>11. CASE Crash(m)
  BY <1>11 DEF Crash, Leave, Goto, TypeOK
<1>12. CASE Restart(m)
  BY <1>12 DEF Restart, Goto, TypeOK
<1> QED
  BY <1>1, <1>2, <1>3, <1>4, <1>5, <1>6, <1>7, <1>8, <1>9, <1>10, <1>11, <1>12
     DEF Step, Cycle

\* Only three steps change the lock object.
LEMMA LockFrame ==
  ASSUME TypeOK, NEW m \in Machines, Step(m)
  PROVE  /\ lock' = lock \/ lock' = NoLock \/ (lock' = Mine(m) /\ pc[m] = "lockStore")
         /\ lock' # lock => pc[m] \in {"lockBreak", "lockStore", "relRemove"}
<1> USE DEF TypeOK, history, objects
<1>1. CASE Begin(m) \/ Guard(m) \/ DocFetch(m) \/ DocStore(m) \/ Crash(m) \/ Restart(m)
  BY <1>1 DEF Begin, Guard, DocFetch, DocStore, Crash, Restart
<1>2. CASE LockFetch(m) \/ LockVerify(m) \/ RelFetch(m)
  BY <1>2 DEF LockFetch, LockVerify, RelFetch
<1>3. CASE LockBreak(m) \/ RelRemove(m)
  BY <1>3 DEF LockBreak, RelRemove
<1>4. CASE LockStore(m)
  BY <1>4 DEF LockStore
<1> QED
  BY <1>1, <1>2, <1>3, <1>4 DEF Step, Cycle

\* A change of the lock that takes it from a machine in its section is recorded.
LEMMA RaceFrame ==
  ASSUME TypeOK, NEW m \in Machines, Step(m), ~raced'
  PROVE  ~raced /\ (lock' = lock \/ ~Robs(m))
<1> USE DEF TypeOK, history, objects
<1>1. CASE Begin(m) \/ Guard(m) \/ DocFetch(m) \/ DocStore(m) \/ Crash(m) \/ Restart(m)
  BY <1>1 DEF Begin, Guard, DocFetch, DocStore, Crash, Restart
<1>2. CASE LockFetch(m) \/ LockVerify(m) \/ RelFetch(m)
  BY <1>2 DEF LockFetch, LockVerify, RelFetch
<1>3. CASE LockBreak(m) \/ LockStore(m) \/ RelRemove(m)
  <2>1. UNCHANGED <<lock, raced>> \/ raced' = (raced \/ Robs(m))
    BY <1>3 DEF LockBreak, LockStore, RelRemove
  <2> QED
    BY <2>1
<1> QED
  BY <1>1, <1>2, <1>3 DEF Step, Cycle

\* Only DocStore changes the document, only DocFetch may be misread.
LEMMA DocFrame ==
  ASSUME TypeOK, NEW m \in Machines, Step(m)
  PROVE  doc' = doc \/ (DocStore(m) /\ doc' = Merged(m))
<1> USE DEF TypeOK, history, objects
<1>1. CASE Begin(m) \/ Guard(m) \/ DocFetch(m) \/ DocStore(m) \/ Crash(m) \/ Restart(m)
  BY <1>1 DEF Begin, Guard, DocFetch, DocStore, Crash, Restart
<1>2. CASE \/ LockFetch(m) \/ LockVerify(m) \/ RelFetch(m)
           \/ LockBreak(m) \/ LockStore(m) \/ RelRemove(m)
  BY <1>2 DEF LockFetch, LockVerify, RelFetch, LockBreak, LockStore, RelRemove
<1> QED
  BY <1>1, <1>2 DEF Step, Cycle

LEMMA MisreadFrame ==
  ASSUME TypeOK, NEW m \in Machines, Step(m), ~misread'
  PROVE  ~misread
<1> USE DEF TypeOK, history, objects
<1>1. CASE DocFetch(m)
  <2>1. PICK d \in Fetched(doc, Missing) : misread' = (misread \/ d # doc)
    BY <1>1 DEF DocFetch
  <2> QED
    BY <2>1
<1>2. CASE Begin(m) \/ Guard(m) \/ DocStore(m) \/ Crash(m) \/ Restart(m)
  BY <1>2 DEF Begin, Guard, DocStore, Crash, Restart
<1>3. CASE \/ LockFetch(m) \/ LockVerify(m) \/ RelFetch(m)
           \/ LockBreak(m) \/ LockStore(m) \/ RelRemove(m)
  BY <1>3 DEF LockFetch, LockVerify, RelFetch, LockBreak, LockStore, RelRemove
<1> QED
  BY <1>1, <1>2, <1>3 DEF Step, Cycle

\* Which step of m leads where.
LEMMA Arrival ==
  ASSUME TypeOK, NEW m \in Machines, Step(m)
  PROVE  /\ pc'[m] = "docStore" => DocFetch(m)
         /\ pc'[m] \in {"relFetch", "relRemove"}
              => Guard(m) \/ DocFetch(m) \/ DocStore(m) \/ RelFetch(m)
         /\ acked' # acked => RelFetch(m) \/ RelRemove(m)
<1> USE DEF TypeOK, Goto, history
<1>1. CASE Begin(m) \/ LockBreak(m) \/ Restart(m)
  BY <1>1 DEF Begin, LockBreak, Restart
<1>2. CASE LockFetch(m) \/ LockStore(m) \/ LockVerify(m)
  <2>1. \/ pc'[m] \in {"lockBreak", "lockStore", "lockVerify", "guard"} /\ acked' = acked
        \/ CycleReturns(m, "lock_unavailable")
    BY <1>2 DEF LockFetch, LockStore, LockVerify
  <2> QED
    BY <2>1, CycleReturnsEffect
<1>3. CASE Crash(m)
  BY <1>3 DEF Crash, Leave
<1>4. CASE Guard(m) \/ DocStore(m)
  BY <1>4 DEF Guard, DocStore
<1>5. CASE DocFetch(m)
  BY <1>5 DEF DocFetch
<1>6. CASE RelFetch(m) \/ RelRemove(m)
  <2>1. pc'[m] \in {"relRemove", "lockFetch", "idle"}
    BY <1>6, CycleReturnsEffect DEF RelFetch, RelRemove
  <2>2. RelRemove(m) => pc'[m] \in {"lockFetch", "idle"}
    BY CycleReturnsEffect DEF RelRemove
  <2> QED
    BY <1>6, <2>1, <2>2
<1> QED
  BY <1>1, <1>2, <1>3, <1>4, <1>5, <1>6 DEF Step, Cycle

LEMMA TickFrame ==
  ASSUME TypeOK, Tick
  PROVE  /\ UNCHANGED <<doc, pc, job, base, out, acked, raced, misread>>
         /\ lock'.owner = lock.owner
         /\ \A m \in Machines : Active(m) /\ lock.owner = m /\ lock.age = elapsed[m]
                               => lock'.age = elapsed'[m]
<1>1. UNCHANGED <<doc, pc, job, base, out, acked, raced, misread>>
  BY DEF Tick, history
<1>2. lock'.owner = lock.owner
  BY DEF Tick, TypeOK, LockRecord
<1>3. ASSUME NEW m \in Machines, Active(m), lock.owner = m, lock.age = elapsed[m]
      PROVE  lock'.age = elapsed'[m]
  <2>1. elapsed[m] < MaxCycle /\ elapsed'[m] = elapsed[m] + 1
    BY <1>3 DEF Tick
  <2>2. elapsed[m] \in Nat /\ MaxAge \in Nat /\ MaxCycle < MaxAge
    BY ConstantsOK DEF TypeOK, MaxAge
  <2>3. lock' = [lock EXCEPT !.age = lock.age + 1]
    <3>1. lock.owner # NoOwner /\ lock.age # MaxAge
      BY <1>3, <2>1, <2>2, ConstantsOK
    <3> QED
      BY <3>1, Zenon DEF Tick
  <2> QED
    BY <1>3, <2>1, <2>3 DEF TypeOK, LockRecord
<1> QED
  BY <1>1, <1>2, <1>3

-----------------------------------------------------------------------------
(***************************************************************************)
(* Each part of the invariant is preserved                                 *)
(***************************************************************************)
LEMMA SectionOwnInductive ==
  ASSUME TypeOK, SectionOwn, [Next]_vars
  PROVE  SectionOwn'
<1>1. ASSUME NEW m \in Machines, Step(m), ~raced',
             NEW n \in Machines, InSection(n)'
      PROVE  (lock.owner = n)'
  <2>1. ~raced
    BY <1>1, RaceFrame
  <2>2. CASE n # m
    <3>1. InSection(n) /\ lock.owner = n
      BY <1>1, <2>1, <2>2, OthersFrame DEF InSection, SectionOwn
    <3>2. Robs(m)
      BY <2>2, <3>1 DEF Robs
    <3> QED
      BY <1>1, <3>1, <3>2, RaceFrame
  <2>3. CASE n = m /\ InSection(m)
    <3>1. lock.owner = m
      BY <2>1, <2>3 DEF SectionOwn
    <3>2. lock' = lock
      BY <1>1, <2>3, LockFrame DEF InSection
    <3> QED
      BY <2>3, <3>1, <3>2
  <2>4. CASE n = m /\ ~InSection(m)
    <3>1. LockVerify(m)
      <4> USE DEF InSection, TypeOK, Goto
      <4>1. ~(Begin(m) \/ LockBreak(m) \/ Guard(m) \/ DocFetch(m) \/ DocStore(m) \/ Restart(m))
        BY <1>1, <2>4 DEF Begin, LockBreak, Guard, DocFetch, DocStore, Restart
      <4>2. ~(LockFetch(m) \/ LockStore(m) \/ RelFetch(m) \/ RelRemove(m))
        BY <1>1, <2>4, CycleReturnsEffect DEF LockFetch, LockStore, RelFetch, RelRemove
      <4>3. ~Crash(m)
        BY <1>1, <2>4 DEF Crash, Leave
      <4> QED
        BY <1>1, <4>1, <4>2, <4>3 DEF Step, Cycle
    <3>2. lock' = lock /\ \/ lock.owner = m
                           \/ NoLock.owner = m
                           \/ \E outcome \in Outcomes : CycleReturns(m, outcome)
      BY <3>1 DEF LockVerify, Fetched, Outcomes
    <3> QED
      BY <1>1, <2>4, <3>2, CycleReturnsEffect, ConstantsOK DEF NoLock, InSection
  <2> QED
    BY <2>2, <2>3, <2>4
<1>2. CASE Tick
  BY <1>2, TickFrame DEF SectionOwn, InSection
<1>3. CASE UNCHANGED vars
  BY <1>3 DEF vars, SectionOwn, InSection
<1>4. CASE \E m \in Machines : Step(m)
  BY <1>1, <1>4 DEF SectionOwn
<1> QED
  BY <1>2, <1>3, <1>4, NextCases

LEMMA AgeOwnInductive ==
  ASSUME TypeOK, AgeOwn, [Next]_vars
  PROVE  AgeOwn'
<1>1. ASSUME NEW m \in Machines, Step(m),
             NEW n \in Machines, Holding(n)', (lock.owner = n)'
      PROVE  (lock.age = elapsed[n])'
  <2>1. NoLock.owner # n
    BY ConstantsOK DEF NoLock
  <2>2. CASE n # m
    <3>1. lock' = lock
      BY <1>1, <2>1, <2>2, LockFrame DEF Mine
    <3> QED
      BY <1>1, <2>2, <3>1, OthersFrame DEF AgeOwn, Holding
  <2>3. CASE n = m /\ Holding(m)
    <3>1. lock' = lock
      BY <1>1, <2>1, <2>3, LockFrame DEF Holding
    <3>2. elapsed'[m] = elapsed[m]
      <4> USE DEF TypeOK, Holding, Steps, Goto
      <4>1. CASE Guard(m) \/ DocFetch(m) \/ DocStore(m)
        BY <4>1 DEF Guard, DocFetch, DocStore
      <4>2. CASE LockVerify(m) \/ RelFetch(m) \/ RelRemove(m)
        BY <1>1, <2>3, <4>2, CycleReturnsEffect DEF LockVerify, RelFetch, RelRemove
      <4>3. ~(Begin(m) \/ LockFetch(m) \/ LockBreak(m) \/ LockStore(m) \/ Restart(m))
        BY <2>3 DEF Begin, LockFetch, LockBreak, LockStore, Restart
      <4>4. ~Crash(m)
        BY <1>1, <2>3 DEF Crash, Leave
      <4> QED
        BY <1>1, <4>1, <4>2, <4>3, <4>4 DEF Step, Cycle
    <3> QED
      BY <1>1, <2>3, <3>1, <3>2 DEF AgeOwn
  <2>4. CASE n = m /\ ~Holding(m)
    <3>1. LockStore(m)
      <4> USE DEF TypeOK, Holding, Steps, Goto
      <4>1. ~(Begin(m) \/ LockBreak(m) \/ Restart(m))
        BY <1>1, <2>4 DEF Begin, LockBreak, Restart
      <4>2. ~LockFetch(m)
        BY <1>1, <2>4, CycleReturnsEffect DEF LockFetch
      <4>3. ~(LockVerify(m) \/ Guard(m) \/ DocFetch(m) \/ DocStore(m) \/ RelFetch(m) \/ RelRemove(m))
        BY <2>4 DEF LockVerify, Guard, DocFetch, DocStore, RelFetch, RelRemove
      <4>4. ~Crash(m)
        BY <1>1, <2>4 DEF Crash, Leave
      <4> QED
        BY <1>1, <4>1, <4>2, <4>3, <4>4 DEF Step, Cycle
    <3>2. \/ lock' = Mine(m) /\ elapsed' = elapsed
          \/ CycleReturns(m, "lock_unavailable")
      BY <3>1 DEF LockStore
    <3> QED
      BY <1>1, <2>4, <3>2, CycleReturnsEffect DEF Mine, Holding, Steps
  <2> QED
    BY <2>2, <2>3, <2>4
<1>2. CASE Tick
  BY <1>2, TickFrame DEF AgeOwn, Holding, Active, Steps
<1>3. CASE UNCHANGED vars
  BY <1>3 DEF vars, AgeOwn, Holding
<1>4. CASE \E m \in Machines : Step(m)
  BY <1>1, <1>4 DEF AgeOwn
<1> QED
  BY <1>2, <1>3, <1>4, NextCases

\* The step of a machine does not lose a record.
LEMMA StepGrows ==
  ASSUME TypeOK, BaseFresh, NEW m \in Machines, Step(m), ~raced', ~misread'
  PROVE  /\ Contained(doc.inhalt, doc'.inhalt)
         /\ doc' # doc => doc'.rev > doc.rev
<1>1. CASE doc' = doc
  BY <1>1, ContainedReflexive DEF TypeOK, Dokument
<1>2. CASE DocStore(m) /\ doc' = Merged(m)
  <2>1. base[m] = doc
    BY <1>2, RaceFrame, MisreadFrame DEF BaseFresh, DocStore
  <2>2. doc.inhalt \in Content /\ job[m] \in Content /\ doc.rev \in Nat
    BY DEF TypeOK, Dokument
  <2>3. doc'.inhalt = merge_documents(doc.inhalt, job[m]) /\ doc'.rev = doc.rev + 1
    BY <1>2, <2>1 DEF Merged
  <2> QED
    BY <2>2, <2>3, MergeUpperBound
<1> QED
  BY <1>1, <1>2, DocFrame

LEMMA BaseFreshInductive ==
  ASSUME TypeOK, SectionOwn, BaseFresh, [Next]_vars
  PROVE  BaseFresh'
<1>1. ASSUME NEW m \in Machines, Step(m), ~raced', ~misread',
             NEW n \in Machines, pc'[n] = "docStore"
      PROVE  base'[n] = doc'
  <2>1. ~raced /\ ~misread
    BY <1>1, RaceFrame, MisreadFrame
  <2>2. CASE n # m
    <3>1. pc[n] = "docStore" /\ base[n] = doc /\ base'[n] = base[n]
      BY <1>1, <2>1, <2>2, OthersFrame DEF BaseFresh
    <3>2. ~DocStore(m)
      BY <2>1, <2>2, <3>1 DEF DocStore, SectionOwn, InSection
    <3> QED
      BY <1>1, <3>1, <3>2, DocFrame
  <2>3. CASE n = m
    <3>1. DocFetch(m)
      BY <1>1, <2>3, Arrival
    <3>2. PICK d \in Fetched(doc, Missing) :
            /\ misread' = (misread \/ d # doc)
            /\ \/ Goto(m, "relFetch")
               \/ base' = [base EXCEPT ![m] = d]
      BY <3>1 DEF DocFetch
    <3>3. d = doc
      BY <1>1, <3>2
    <3>4. base' = [base EXCEPT ![m] = d]
      BY <1>1, <2>3, <3>2 DEF Goto, TypeOK
    <3>5. doc' = doc
      BY <3>1 DEF DocFetch, objects
    <3> QED
      BY <2>3, <3>3, <3>4, <3>5 DEF TypeOK
  <2> QED
    BY <2>2, <2>3
<1>2. CASE Tick
  BY <1>2, TickFrame DEF BaseFresh
<1>3. CASE UNCHANGED vars
  BY <1>3 DEF vars, BaseFresh
<1>4. CASE \E m \in Machines : Step(m)
  BY <1>1, <1>4 DEF BaseFresh
<1> QED
  BY <1>2, <1>3, <1>4, NextCases

LEMMA WrittenInInductive ==
  ASSUME TypeOK, BaseFresh, WrittenIn, [Next]_vars
  PROVE  WrittenIn'
<1>1. ASSUME NEW m \in Machines, Step(m), ~raced', ~misread',
             NEW n \in Machines, pc'[n] \in {"relFetch", "relRemove"}, out'[n] = "ok"
      PROVE  Contained(job'[n], doc'.inhalt)
  <2>1. ~raced /\ ~misread
    BY <1>1, RaceFrame, MisreadFrame
  <2>2. ASSUME job'[n] = job[n], Contained(job[n], doc.inhalt)
        PROVE  Contained(job'[n], doc'.inhalt)
    <3>1. job[n] \in Content /\ doc.inhalt \in Content /\ doc'.inhalt \in Content
      BY NextType DEF TypeOK, Dokument
    <3> QED
      BY <1>1, <2>2, <3>1, StepGrows, ContainedTransitive
  <2>3. CASE n # m
    BY <1>1, <2>1, <2>2, <2>3, OthersFrame DEF WrittenIn
  <2>4. CASE n = m
    <3>1. CASE RelFetch(m)
      <4>1. pc[m] = "relFetch" /\ out' = out /\ job' = job
        BY <1>1, <2>4, <3>1, CycleReturnsEffect DEF RelFetch
      <4> QED
        BY <1>1, <2>1, <2>2, <2>4, <4>1 DEF WrittenIn
    <3>2. CASE DocStore(m)
      <4>1. job' = job /\ (doc' = Merged(m))
        BY <1>1, <2>4, <3>2 DEF DocStore, TypeOK
      <4>2. base[m].inhalt \in Content /\ job[m] \in Content
        BY DEF TypeOK, Dokument
      <4> QED
        BY <2>4, <4>1, <4>2, MergeUpperBound DEF Merged
    <3>3. CASE Guard(m) \/ DocFetch(m)
      BY <1>1, <2>4, <3>3 DEF Guard, DocFetch, Goto, TypeOK
    <3> QED
      BY <1>1, <2>4, <3>1, <3>2, <3>3, Arrival
  <2> QED
    BY <2>3, <2>4
<1>2. CASE Tick
  BY <1>2, TickFrame DEF WrittenIn
<1>3. CASE UNCHANGED vars
  BY <1>3 DEF vars, WrittenIn
<1>4. CASE \E m \in Machines : Step(m)
  BY <1>1, <1>4 DEF WrittenIn
<1> QED
  BY <1>2, <1>3, <1>4, NextCases

\* A write is reported by one of the two releasing steps, and only as done.
LEMMA Reported ==
  ASSUME TypeOK, WrittenIn, NEW m \in Machines, Step(m), ~raced', ~misread',
         acked' # acked
  PROVE  /\ acked' = acked \cup {job[m]} /\ Contained(job[m], doc.inhalt)
         /\ doc' = doc /\ Active(m)
<1>1. ~raced /\ ~misread
  BY RaceFrame, MisreadFrame
<1>2. CASE RelFetch(m)
  BY <1>1, <1>2, CycleReturnsEffect DEF RelFetch, WrittenIn, Active, Steps
<1>3. CASE RelRemove(m)
  BY <1>1, <1>3, CycleReturnsEffect DEF RelRemove, WrittenIn, Active, Steps
<1> QED
  BY <1>2, <1>3, Arrival

LEMMA AckedInductive ==
  ASSUME TypeOK, BaseFresh, WrittenIn, AckedRecordsSurvive, [Next]_vars
  PROVE  AckedRecordsSurvive'
<1>1. ASSUME NEW m \in Machines, Step(m), ~raced', ~misread', NEW j \in acked'
      PROVE  Contained(j, doc'.inhalt)
  <2>1. ~raced /\ ~misread
    BY <1>1, RaceFrame, MisreadFrame
  <2>2. CASE j \in acked
    <3>1. Contained(j, doc.inhalt) /\ Contained(doc.inhalt, doc'.inhalt)
      BY <1>1, <2>1, <2>2, StepGrows DEF AckedRecordsSurvive
    <3>2. j \in Content /\ doc.inhalt \in Content /\ doc'.inhalt \in Content
      BY <2>2, NextType DEF TypeOK, Dokument
    <3> QED
      BY <3>1, <3>2, ContainedTransitive
  <2>3. CASE j \notin acked
    BY <1>1, <2>3, Reported
  <2> QED
    BY <2>2, <2>3
<1>2. CASE Tick
  BY <1>2, TickFrame DEF AckedRecordsSurvive
<1>3. CASE UNCHANGED vars
  BY <1>3 DEF vars, AckedRecordsSurvive
<1>4. CASE \E m \in Machines : Step(m)
  BY <1>1, <1>4 DEF AckedRecordsSurvive
<1> QED
  BY <1>2, <1>3, <1>4, NextCases

LEMMA JobKnownInductive ==
  ASSUME TypeOK, JobKnown, [Next]_vars
  PROVE  JobKnown'
<1>1. ASSUME NEW m \in Machines, Step(m), NEW n \in Machines, Active(n)'
      PROVE  job'[n] \in Jobs
  <2> USE DEF Active, Steps
  <2>1. CASE n # m
    BY <1>1, <2>1, OthersFrame DEF JobKnown
  <2>2. CASE n = m /\ Begin(m)
    BY <2>2 DEF Begin, TypeOK
  <2>3. CASE n = m /\ Cycle(m)
    <3>1. Active(m)
      BY <2>3 DEF Cycle, LockFetch, LockBreak, LockStore, LockVerify, Guard,
                  DocFetch, DocStore, RelFetch, RelRemove
    <3>2. job' = job \/ \E outcome : CycleReturns(m, outcome)
      BY <2>3 DEF Cycle, LockFetch, LockBreak, LockStore, LockVerify, Guard,
                  DocFetch, DocStore, RelFetch, RelRemove
    <3> QED
      BY <1>1, <2>3, <3>1, <3>2, CycleReturnsEffect DEF JobKnown
  <2>4. CASE n = m /\ (Crash(m) \/ Restart(m))
    BY <1>1, <2>4 DEF Crash, Restart, Leave, Goto, TypeOK
  <2> QED
    BY <1>1, <2>1, <2>2, <2>3, <2>4 DEF Step
<1>2. CASE Tick
  BY <1>2, TickFrame DEF JobKnown, Active
<1>3. CASE UNCHANGED vars
  BY <1>3 DEF vars, JobKnown, Active
<1>4. CASE \E m \in Machines : Step(m)
  BY <1>1, <1>4 DEF JobKnown
<1> QED
  BY <1>2, <1>3, <1>4, NextCases

LEMMA BaseReadInductive ==
  ASSUME TypeOK, BaseRead, [Next]_vars
  PROVE  BaseRead'
<1>1. ASSUME NEW m \in Machines, Step(m), NEW n \in Machines, pc'[n] = "docStore"
      PROVE  base'[n].kind \in Lesbar(n) \cup {"fehlt"}
  <2>1. CASE n # m
    BY <1>1, <2>1, OthersFrame DEF BaseRead
  <2>2. CASE n = m
    <3>1. DocFetch(m)
      BY <1>1, <2>2, Arrival
    <3>2. PICK d \in Fetched(doc, Missing) :
            \/ Goto(m, "relFetch")
            \/ d.kind \in Lesbar(m) \cup {"fehlt"} /\ base' = [base EXCEPT ![m] = d]
      BY <3>1 DEF DocFetch
    <3> QED
      BY <1>1, <2>2, <3>2 DEF Goto, TypeOK
  <2> QED
    BY <2>1, <2>2
<1>2. CASE Tick
  BY <1>2, TickFrame DEF BaseRead
<1>3. CASE UNCHANGED vars
  BY <1>3 DEF vars, BaseRead
<1>4. CASE \E m \in Machines : Step(m)
  BY <1>1, <1>4 DEF BaseRead
<1> QED
  BY <1>2, <1>3, <1>4, NextCases

LEMMA InitIInv == Init => IInv
<1> SUFFICES ASSUME Init PROVE IInv
  OBVIOUS
<1>1. \A m \in Machines : pc[m] = "idle"
  BY DEF Init
<1>2. SectionOwn /\ AgeOwn /\ BaseFresh /\ WrittenIn /\ JobKnown /\ BaseRead
  BY <1>1 DEF SectionOwn, AgeOwn, BaseFresh, WrittenIn, JobKnown, BaseRead,
              InSection, Holding, Active, Steps
<1>3. AckedRecordsSurvive
  BY DEF Init, AckedRecordsSurvive
<1> QED
  BY <1>2, <1>3, InitType DEF IInv

LEMMA NextIInv == IInv /\ [Next]_vars => IInv'
  BY NextType, SectionOwnInductive, AgeOwnInductive, BaseFreshInductive,
     WrittenInInductive, AckedInductive, JobKnownInductive, BaseReadInductive
  DEF IInv

THEOREM Invariance == Spec => []IInv
  BY InitIInv, NextIInv, PTL DEF Spec

-----------------------------------------------------------------------------
(***************************************************************************)
(* The promises of the cycle                                               *)
(***************************************************************************)

\* At most one machine is between the verification of its token and the end
\* of its document store, unless a lock was lost inside a section.
THEOREM MutualExclusion == Spec => []SectionExclusive
<1>1. IInv => SectionExclusive
  BY DEF IInv, SectionOwn, SectionExclusive
<1> QED
  BY <1>1, Invariance, PTL

\* A write reported as ok stays in the document (premises: no lock lost inside
\* a section, no fetch of the present document that came back empty).
THEOREM AckedSurvive == Spec => []AckedRecordsSurvive
<1>1. IInv => AckedRecordsSurvive
  BY DEF IInv
<1> QED
  BY <1>1, Invariance, PTL

\* No step of any machine takes progress out of the document.
THEOREM MonotoneDocument == Spec => DocumentOnlyGrows
<1>1. IInv /\ [Next]_vars => [Growing]_vars
  <2> SUFFICES ASSUME IInv, Next, ~raced', ~misread'
               PROVE  /\ Contained(doc.inhalt, doc'.inhalt)
                      /\ doc' # doc => doc'.rev > doc.rev
    BY DEF Growing
  <2>1. CASE \E m \in Machines : Step(m)
    BY <2>1, StepGrows DEF IInv
  <2>2. CASE Tick
    BY <2>2, TickFrame, ContainedReflexive DEF IInv, TypeOK, Dokument
  <2> QED
    BY <2>1, <2>2 DEF Next, Step
<1> QED
  BY <1>1, Invariance, PTL DEF Spec, DocumentOnlyGrows

\* A document that does not parse is never replaced, and one in the newer
\* syntax by no machine that cannot read it, also when it became that after an
\* older machine had begun its cycle.
THEOREM ForeignStays == Spec => ForeignDocumentUntouched
<1>1. IInv /\ [Next]_vars => [WacheHaelt]_vars
  <2> SUFFICES ASSUME IInv, Next, ~raced', ~misread'
               PROVE  /\ doc.kind = "fremd" => doc' = doc
                      /\ doc.kind = "neu" => doc'.kind = "neu"
    BY DEF WacheHaelt
  <2>1. ASSUME NEW m \in Machines, DocStore(m), doc' = Merged(m)
        PROVE  doc.kind # "fremd" /\ (doc.kind = "neu" => doc'.kind = "neu")
    <3>1. base[m] = doc
      BY <2>1, RaceFrame, MisreadFrame DEF IInv, BaseFresh, DocStore, Step, Cycle
    <3>2. doc.kind \in {"lesbar", Syntax(m), "fehlt"}
      BY <2>1, <3>1 DEF IInv, BaseRead, Lesbar, DocStore
    <3>3. doc'.kind = Syntax(m) /\ Syntax(m) \in {"neu", "lesbar"}
      BY <2>1 DEF Merged, Syntax
    <3> QED
      BY <3>2, <3>3
  <2>2. ASSUME NEW m \in Machines, Step(m)
        PROVE  /\ doc.kind = "fremd" => doc' = doc
               /\ doc.kind = "neu" => doc'.kind = "neu"
    BY <2>1, <2>2, DocFrame DEF IInv
  <2>3. CASE Tick
    BY <2>3, TickFrame DEF IInv
  <2> QED
    BY <2>2, <2>3 DEF Next, Step
<1> QED
  BY <1>1, Invariance, PTL DEF Spec, ForeignDocumentUntouched

\* No cycle shorter than the ttl can find the lock of a machine that is inside
\* its section stale.
THEOREM StaleIsAbandoned == Spec => []StaleLockIsAbandoned
<1>1. IInv => StaleLockIsAbandoned
  <2> SUFFICES ASSUME IInv, MaxCycle <= Ttl, NEW m \in Machines, NEW n \in Machines,
                      lock.owner = n, lock_is_stale(lock, m), InSection(n)
               PROVE  FALSE
    BY DEF StaleLockIsAbandoned
  <2>1. lock.age = elapsed[n]
    BY DEF IInv, AgeOwn, Holding, InSection, Steps
  <2>2. elapsed[n] \in 0..MaxCycle /\ elapsed[m] \in 0..MaxCycle
    BY DEF IInv, TypeOK
  <2> QED
    BY <2>1, <2>2, ConstantsOK DEF lock_is_stale
<1> QED
  BY <1>1, Invariance, PTL

-----------------------------------------------------------------------------
(***************************************************************************)
(* The refinement                                                          *)
(***************************************************************************)

\* The abstract store merges and compares by the same definitions.
LEMMA SameStart == Abstract!LeererInhalt = LeererInhalt
  BY DEF Abstract!LeererInhalt, LeererInhalt, Abstract!Keine, Keine

LEMMA SameRank == \A s : Abstract!status_rank(s) = status_rank(s)
  BY DEF Abstract!status_rank, status_rank

LEMMA SameOrder ==
  ASSUME NEW a, NEW b
  PROVE  Contained(a, b) <=> Abstract!Contained(a, b)
  BY SameRank DEF Contained, ResLeq, Abstract!Contained, Abstract!ResLeq

LEMMA SameMerge ==
  ASSUME NEW a, NEW b
  PROVE  merge_documents(a, b) = Abstract!merge_documents(a, b)
  BY SameRank DEF merge_documents, pick_reservierung, pick_eintrag,
     Abstract!merge_documents, Abstract!pick_reservierung, Abstract!pick_eintrag

LEMMA AbstractInit == Init => Abstract!Init
  BY SameStart DEF Init, Abstract!Init, Missing, Foreign

LEMMA AbstractStep ==
  ASSUME IInv, [Next]_vars, ~raced', ~misread'
  PROVE  [Abstract!Next]_<<doc.inhalt, acked>>
<1>1. ASSUME NEW m \in Machines, Step(m), ~raced', ~misread', acked' # acked
      PROVE  Abstract!Next
  <2>1. /\ acked' = acked \cup {job[m]} /\ Contained(job[m], doc.inhalt)
        /\ doc' = doc /\ job[m] \in Jobs
    BY <1>1, Reported DEF IInv, JobKnown
  <2> QED
    BY <2>1, SameOrder DEF Abstract!Next, Abstract!Report
<1>2. ASSUME NEW m \in Machines, Step(m), ~raced', ~misread', acked' = acked, doc' # doc
      PROVE  Abstract!Next
  <2>1. DocStore(m) /\ doc' = Merged(m)
    BY <1>2, DocFrame DEF IInv
  <2>2. base[m] = doc /\ job[m] \in Jobs
    BY <1>2, <2>1, RaceFrame, MisreadFrame
    DEF IInv, BaseFresh, DocStore, JobKnown, Active, Steps
  <2>3. doc'.inhalt = merge_documents(doc.inhalt, job[m])
    BY <2>1, <2>2 DEF Merged
  <2> QED
    BY <1>2, <2>2, <2>3, SameMerge DEF Abstract!Next, Abstract!Write
<1>3. CASE Tick
  BY <1>3, TickFrame DEF IInv
<1>4. CASE UNCHANGED vars
  BY <1>4 DEF vars
<1>5. CASE Next
  BY <1>1, <1>2, <1>3, <1>5 DEF Next, Step
<1> QED
  BY <1>4, <1>5

\* The verb by verb cycle implements the store with atomic unions as long as
\* no lock is lost inside a section and no fetch is misread.
THEOREM Refinement == Spec => ImplementsUnionStore
<1>1. IInv /\ [Next]_vars =>
        [~raced' /\ ~misread' => [Abstract!Next]_<<doc.inhalt, acked>>]_vars
  BY AbstractStep
<1>2. Init => Abstract!Init
  BY AbstractInit
<1> QED
  BY <1>1, <1>2, Invariance, PTL DEF Spec, ImplementsUnionStore
=============================================================================
