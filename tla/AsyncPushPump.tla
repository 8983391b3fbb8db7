--------------------------- MODULE AsyncPushPump ---------------------------
(***************************************************************************)
(* artifact_transport/async_push_pump.hpp: one push thread, fed by the     *)
(* build workers, with a barrier (drain) and a closing call (close).       *)
(*                                                                         *)
(* A critical section is one step; a notification is a step of its own,    *)
(* since every notify follows the unlock.  A waiting thread sleeps until   *)
(* it is notified (or for no reason) and then looks at its predicate       *)
(* again.                                                                  *)
(***************************************************************************)
EXTENDS Naturals, Sequences, FiniteSets

CONSTANTS
  Items,      \* the directories, each handed in by one call of enqueue
  Drainer,    \* threads that call drain
  Closer,     \* threads that call close
  PartSize,   \* part_size_: pushes per part marker, 0 for none
  Nichts      \* no directory

ASSUME PumpConstantsOK ==
  Nichts \notin Items /\ IsFiniteSet(Items) /\ PartSize \in Nat

VARIABLES
  queue, in_flight, closed,
  pushed,     \* the directories counted by pushed_
  failed,     \* failed_
  marken,     \* the part markers fired
  faellig,    \* the part marker the worker has to fire, or 0
  pcE, pcP, pcD, pcC,   \* the calls of enqueue, the worker, drain, close
  soll        \* history: the directories a drain has to wait for

konten == <<pushed, failed, marken, faellig>>
vars == <<queue, in_flight, closed, konten, pcE, pcP, pcD, pcC, soll>>

gebucht   == pushed \cup failed
\* The directories that enqueue has taken in.
Angenommen == {i \in Items : pcE[i] \in {"melde", "fertig"}}

\* The type invariant.
TypeOK ==
  /\ queue \in Seq(Items) /\ in_flight \in Items \cup {Nichts}
  /\ closed \in BOOLEAN
  /\ pushed \subseteq Items /\ failed \subseteq Items
  /\ marken \in Seq(Nat) /\ faellig \in Nat
  /\ pcE \in [Items -> {"neu", "melde", "fertig", "verfallen"}]
  /\ pcP \in {"prueft", "schlaeft", "schiebt", "meldet", "marke", "aus"}
  /\ pcD \in [Drainer -> {"ruht", "prueft", "schlaeft"}]
  /\ pcC \in [Closer -> {"ruht", "melde", "join", "fertig", "frueh"}]
  /\ soll \in [Drainer -> SUBSET Items]
  /\ pcP = "schiebt" <=> in_flight # Nichts
  /\ faellig # 0 => pcP \in {"meldet", "marke"}

Init ==
  /\ queue = <<>> /\ in_flight = Nichts /\ closed = FALSE
  /\ pushed = {} /\ failed = {} /\ marken = <<>> /\ faellig = 0
  /\ pcE = [i \in Items |-> "neu"]
  /\ pcP = "prueft"
  /\ pcD = [d \in Drainer |-> "ruht"]
  /\ pcC = [c \in Closer |-> "ruht"]
  /\ soll = [d \in Drainer |-> {}]

-----------------------------------------------------------------------------
\* cv_.notify: the worker looks at its predicate again if it slept.
WeckePumpe == pcP' = IF pcP = "schlaeft" THEN "prueft" ELSE pcP

\* enqueue: taken in, or dropped after close ...
enqueue(i) ==
  /\ pcE[i] = "neu"
  /\ IF closed
     THEN /\ pcE' = [pcE EXCEPT ![i] = "verfallen"]
          /\ UNCHANGED queue
     ELSE /\ pcE' = [pcE EXCEPT ![i] = "melde"]
          /\ queue' = Append(queue, i)
  /\ UNCHANGED <<in_flight, closed, konten, pcP, pcD, pcC, soll>>

\* ... and the notification.
enqueue_notify(i) ==
  /\ pcE[i] = "melde"
  /\ pcE' = [pcE EXCEPT ![i] = "fertig"]
  /\ WeckePumpe
  /\ UNCHANGED <<queue, in_flight, closed, konten, pcD, pcC, soll>>

\* Mutant: a closed pump stops with entries in its queue.
run_take_stops ==
  /\ pcP = "prueft"
  /\ IF queue # <<>> /\ ~closed
     THEN /\ in_flight' = Head(queue)
          /\ queue' = Tail(queue)
          /\ pcP' = "schiebt"
     ELSE /\ pcP' = IF closed THEN "aus" ELSE "schlaeft"
          /\ UNCHANGED <<queue, in_flight>>
  /\ UNCHANGED <<closed, konten, pcE, pcD, pcC, soll>>

\* run: the worker looks for an entry, and stops when closed and empty ...
run_take ==
  /\ pcP = "prueft"
  /\ IF queue # <<>>
     THEN /\ in_flight' = Head(queue)
          /\ queue' = Tail(queue)
          /\ pcP' = "schiebt"
     ELSE /\ pcP' = IF closed THEN "aus" ELSE "schlaeft"
          /\ UNCHANGED <<queue, in_flight>>
  /\ UNCHANGED <<closed, konten, pcE, pcD, pcC, soll>>

\* The part marker due after n successful pushes, 0 for none.
part_to_mark(n) == IF PartSize # 0 /\ n % PartSize = 0 THEN n \div PartSize ELSE 0

\* Mutant: a push that throws is taken for a success, too.
run_book_both ==
  /\ pcP = "schiebt"
  /\ \/ /\ pushed' = pushed \cup {in_flight}
        /\ faellig' = part_to_mark(Cardinality(pushed'))
        /\ UNCHANGED failed
     \/ /\ failed' = failed \cup {in_flight}
        /\ pushed' = pushed \cup {in_flight}
        /\ faellig' = 0
  /\ in_flight' = Nichts
  /\ pcP' = "meldet"
  /\ UNCHANGED <<queue, closed, marken, pcE, pcD, pcC, soll>>

\* ... pushes it and books the result, a throw as a failure ...
run_book ==
  /\ pcP = "schiebt"
  /\ \/ /\ pushed' = pushed \cup {in_flight}
        /\ faellig' = part_to_mark(Cardinality(pushed'))
        /\ UNCHANGED failed
     \/ /\ failed' = failed \cup {in_flight}
        /\ faellig' = 0
        /\ UNCHANGED pushed
  /\ in_flight' = Nichts
  /\ pcP' = "meldet"
  /\ UNCHANGED <<queue, closed, marken, pcE, pcD, pcC, soll>>

\* Mutant: the threads at the barrier are woken by successes only.
run_notify_success ==
  /\ pcP = "meldet"
  /\ pcD' = [d \in Drainer |->
       IF pcD[d] = "schlaeft" /\ failed = {} THEN "prueft" ELSE pcD[d]]
  /\ pcP' = IF faellig # 0 THEN "marke" ELSE "prueft"
  /\ UNCHANGED <<queue, in_flight, closed, konten, pcE, pcC, soll>>

\* ... wakes the threads at the barrier ...
run_notify ==
  /\ pcP = "meldet"
  /\ pcD' = [d \in Drainer |-> IF pcD[d] = "schlaeft" THEN "prueft" ELSE pcD[d]]
  /\ pcP' = IF faellig # 0 THEN "marke" ELSE "prueft"
  /\ UNCHANGED <<queue, in_flight, closed, konten, pcE, pcC, soll>>

\* ... and fires the part marker, if one is due.
run_marker ==
  /\ pcP = "marke"
  /\ marken' = Append(marken, faellig)
  /\ faellig' = 0
  /\ pcP' = "prueft"
  /\ UNCHANGED <<queue, in_flight, closed, pushed, failed, pcE, pcD, pcC, soll>>

-----------------------------------------------------------------------------
\* drain: a thread comes to the barrier ...
drain(d) ==
  /\ pcD[d] = "ruht"
  /\ pcD' = [pcD EXCEPT ![d] = "prueft"]
  /\ soll' = [soll EXCEPT ![d] = Angenommen]
  /\ UNCHANGED <<queue, in_flight, closed, konten, pcE, pcP, pcC>>

\* Mutant: the shortcut for a closed pump.
drain_wait_closed(d) ==
  /\ pcD[d] = "prueft"
  /\ pcD' = [pcD EXCEPT ![d] =
       IF closed \/ (queue = <<>> /\ in_flight = Nichts) THEN "ruht" ELSE "schlaeft"]
  /\ UNCHANGED <<queue, in_flight, closed, konten, pcE, pcP, pcC, soll>>

\* ... and returns when the queue is empty and nothing is under way.
drain_wait(d) ==
  /\ pcD[d] = "prueft"
  /\ pcD' = [pcD EXCEPT ![d] =
       IF queue = <<>> /\ in_flight = Nichts THEN "ruht" ELSE "schlaeft"]
  /\ UNCHANGED <<queue, in_flight, closed, konten, pcE, pcP, pcC, soll>>

\* close: only the first call closes ...
close(c) ==
  /\ pcC[c] = "ruht"
  /\ pcC' = [pcC EXCEPT ![c] = IF closed THEN "frueh" ELSE "melde"]
  /\ closed' = TRUE
  /\ UNCHANGED <<queue, in_flight, konten, pcE, pcP, pcD, soll>>

\* ... wakes the worker ...
close_notify(c) ==
  /\ pcC[c] = "melde"
  /\ pcC' = [pcC EXCEPT ![c] = "join"]
  /\ WeckePumpe
  /\ UNCHANGED <<queue, in_flight, closed, konten, pcE, pcD, soll>>

\* ... and joins it.
close_join(c) ==
  /\ pcC[c] = "join"
  /\ pcP = "aus"
  /\ pcC' = [pcC EXCEPT ![c] = "fertig"]
  /\ UNCHANGED <<queue, in_flight, closed, konten, pcE, pcP, pcD, soll>>

\* A thread may wake up without any notification.
Spurious ==
  /\ \/ /\ pcP = "schlaeft"
        /\ pcP' = "prueft"
        /\ UNCHANGED pcD
     \/ \E d \in Drainer : /\ pcD[d] = "schlaeft"
                           /\ pcD' = [pcD EXCEPT ![d] = "prueft"]
                           /\ UNCHANGED pcP
  /\ UNCHANGED <<queue, in_flight, closed, konten, pcE, pcC, soll>>

-----------------------------------------------------------------------------
Worker == run_take \/ run_book \/ run_notify \/ run_marker

Closing(c) == close_notify(c) \/ close_join(c)

Next ==
  \/ \E i \in Items : enqueue(i) \/ enqueue_notify(i)
  \/ Worker
  \/ \E d \in Drainer : drain(d) \/ drain_wait(d)
  \/ \E c \in Closer : close(c) \/ Closing(c)
  \/ Spurious

Spec == Init /\ [][Next]_vars

\* A call that has begun goes on, and a push ends, by success or exception.
\* Nobody has to call anything, and no spurious wakeup has to happen.
FairSpec ==
  /\ Spec
  /\ WF_vars(Worker)
  /\ \A i \in Items : WF_vars(enqueue_notify(i))
  /\ \A d \in Drainer : WF_vars(drain_wait(d))
  /\ \A c \in Closer : WF_vars(Closing(c))

-----------------------------------------------------------------------------
(***************************************************************************)
(* Properties                                                              *)
(***************************************************************************)

\* Every directory that was taken in is in exactly one place: waiting, under
\* way, pushed or failed.  Nothing is pushed twice or lost (run, enqueue).
EachOnce ==
  LET wartend == {queue[k] : k \in DOMAIN queue}
      unterwegs == {in_flight} \ {Nichts}
  IN  /\ Angenommen = wartend \cup unterwegs \cup gebucht
      /\ Cardinality(Angenommen) =
           Len(queue) + Cardinality(unterwegs) + Cardinality(pushed)
           + Cardinality(failed)

\* The barrier: when drain returns, everything that had been handed in when it
\* was called is booked, in every interleaving, with close too
\* (async_push_pump.hpp:101 "stimmt die Zusage in JEDER Verschraenkung").
DrainHaelt ==
  \A d \in Drainer : pcD[d] # "ruht" /\ pcD'[d] = "ruht" => soll[d] \subseteq gebucht
DrainBarrier == [][DrainHaelt]_vars

\* When the closing call returns, all that was ever taken in is booked and the
\* part markers have been fired in order, without a gap, one for each full part
\* of successful pushes, so that the marker of the whole chunk comes last
\* (async_push_pump.hpp:64).
CloseBarrier ==
  \A c \in Closer : pcC[c] = "fertig" =>
    /\ Angenommen \subseteq gebucht
    /\ PartSize # 0 => marken = [k \in 1 .. Cardinality(pushed) \div PartSize |-> k]

\* What was handed in is pushed or fails without any further call; and whoever
\* waits, at the barrier or for the end of the worker, returns: no wakeup is lost.
EntryBooked == \A i \in Items : pcE[i] = "melde" ~> i \in gebucht
DrainReturns == \A d \in Drainer : pcD[d] = "prueft" ~> pcD[d] = "ruht"
CloseReturns == \A c \in Closer : pcC[c] = "melde" ~> pcC[c] = "fertig"
NobodyStuck == EntryBooked /\ DrainReturns /\ CloseReturns

=============================================================================
