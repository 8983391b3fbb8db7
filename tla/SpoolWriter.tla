---------------------------- MODULE SpoolWriter ----------------------------
(***************************************************************************)
(* artifact_transport/spool_writer.hpp and ram_spool.hpp: the compile pool *)
(* collects finished binaries in a RAM spool; a full spool goes as one     *)
(* batch to the writer thread.                                             *)
(*                                                                         *)
(* Two locks: the spool's and the queue's.  A batch is in nobody's         *)
(* structure between them, only in the hands of the calling thread.  A     *)
(* critical section is one step, a notification a step of its own.         *)
(***************************************************************************)
EXTENDS Naturals, Sequences, FiniteSets, FiniteSetsExt

CONSTANTS
  Entries,       \* the spool entries, each handed in by one call of submit
  Bytes,         \* the size of each entry
  MaxBytes,      \* max_bytes_
  CountTrigger,  \* count_trigger_
  Flusher,       \* threads that call flush
  Closer         \* threads that call close

ASSUME SpoolConstantsOK ==
  /\ Bytes \in [Entries -> Nat] /\ MaxBytes \in Nat /\ CountTrigger \in Nat
  /\ Flusher \cap Closer = {} /\ Entries \cap (Flusher \cup Closer) = {}

Rufer == Flusher \cup Closer   \* the threads that may wait at the barrier

VARIABLES
  spool,      \* entries_ of the RAM spool
  batch,      \* the batch in the hands of each call of submit and flush
  queue, enqueued, written, closed,
  offen,      \* the entries of the writer's batch not written yet
  persisted,  \* the entries counted by persisted_entries_
  misslungen, \* history: the entries whose write returned false
  pcS, pcF, pcW,  \* the calls of submit, of flush and close, the writer
  soll        \* history: the entries a flush has to wait for

ablage == <<persisted, misslungen>>
vars == <<spool, batch, queue, enqueued, written, closed, offen, ablage,
          pcS, pcF, pcW, soll>>

Abgegeben == {e \in Entries : pcS[e] = "fertig"}   \* submit has returned

\* The type invariant.
TypeOK ==
  /\ spool \subseteq Entries /\ offen \subseteq Entries
  /\ batch \in [Entries \cup Rufer -> SUBSET Entries]
  /\ queue \in Seq(SUBSET Entries)
  /\ enqueued \in Nat /\ written \in Nat /\ closed \in BOOLEAN
  /\ persisted \subseteq Entries /\ misslungen \subseteq Entries
  /\ pcS \in [Entries -> {"neu", "uebergibt", "meldet", "fertig"}]
  /\ pcF \in [Rufer -> {"ruht", "uebergibt", "meldet", "prueft", "schlaeft",
                        "schliesst", "meldetEnde", "join", "fertig"}]
  /\ pcW \in {"prueft", "schlaeft", "schreibt", "meldet", "aus"}
  /\ soll \in [Rufer -> SUBSET Entries]
  /\ \A e \in Entries : pcS[e] = "uebergibt" <=> batch[e] # {}
  /\ \A t \in Rufer : pcF[t] = "uebergibt" <=> batch[t] # {}
  /\ offen # {} => pcW = "schreibt"

Init ==
  /\ spool = {} /\ offen = {} /\ queue = <<>>
  /\ batch = [x \in Entries \cup Rufer |-> {}]
  /\ enqueued = 0 /\ written = 0 /\ closed = FALSE
  /\ persisted = {} /\ misslungen = {}
  /\ pcS = [e \in Entries |-> "neu"]
  /\ pcF = [t \in Rufer |-> "ruht"]
  /\ pcW = "prueft"
  /\ soll = [t \in Rufer |-> {}]

-----------------------------------------------------------------------------
\* RamSpool::should_flush: by size or by count, whichever comes first.
should_flush(S) ==
  \/ MapThenSumSet(LAMBDA e : Bytes[e], S) >= MaxBytes
  \/ Cardinality(S) >= CountTrigger

Laeuft(e) == pcS[e] \in {"uebergibt", "meldet"}
Wartet(t) == pcF[t] \notin {"ruht", "fertig"}

\* The discipline of the callers: close is called while no other call runs, and
\* after it nothing but close.
Bauend == \A c \in Closer : pcF[c] = "ruht"
Abschliessend(t) ==
  IF t \in Closer THEN (\A e \in Entries : ~Laeuft(e)) /\ (\A u \in Rufer : ~Wartet(u))
                  ELSE Bauend

\* The entries that another call has taken out of the spool and not yet handed
\* to the writer.
InFremdenHaenden(t) == UNION {batch[x] : x \in (Entries \cup Rufer) \ {t}}

\* Mutant: the spool hands out a copy of its entries.
submit_copy(e) ==
  /\ pcS[e] = "neu"
  /\ Bauend
  /\ spool' = spool \cup {e}
  /\ IF should_flush(spool \cup {e})
     THEN /\ batch' = [batch EXCEPT ![e] = spool \cup {e}]
          /\ pcS' = [pcS EXCEPT ![e] = "uebergibt"]
     ELSE /\ pcS' = [pcS EXCEPT ![e] = "fertig"]
          /\ UNCHANGED batch
  /\ UNCHANGED <<queue, enqueued, written, closed, offen, ablage, pcF, pcW, soll>>

\* submit: the entry goes into the spool; a full spool is taken out whole ...
submit(e) ==
  /\ pcS[e] = "neu"
  /\ Bauend
  /\ IF should_flush(spool \cup {e})
     THEN /\ batch' = [batch EXCEPT ![e] = spool \cup {e}]
          /\ spool' = {}
          /\ pcS' = [pcS EXCEPT ![e] = "uebergibt"]
     ELSE /\ spool' = spool \cup {e}
          /\ pcS' = [pcS EXCEPT ![e] = "fertig"]
          /\ UNCHANGED batch
  /\ UNCHANGED <<queue, enqueued, written, closed, offen, ablage, pcF, pcW, soll>>

\* enqueue_batch: the batch of caller x becomes the writer's.
enqueue_batch(x) ==
  /\ queue' = Append(queue, batch[x])
  /\ enqueued' = enqueued + 1
  /\ batch' = [batch EXCEPT ![x] = {}]

WeckeSchreiber == pcW' = IF pcW = "schlaeft" THEN "prueft" ELSE pcW

\* ... and handed to the writer ...
submit_enqueue(e) ==
  /\ pcS[e] = "uebergibt"
  /\ enqueue_batch(e)
  /\ pcS' = [pcS EXCEPT ![e] = "meldet"]
  /\ UNCHANGED <<spool, written, closed, offen, ablage, pcF, pcW, soll>>

\* ... with a notification.
submit_notify(e) ==
  /\ pcS[e] = "meldet"
  /\ pcS' = [pcS EXCEPT ![e] = "fertig"]
  /\ WeckeSchreiber
  /\ UNCHANGED <<spool, batch, queue, enqueued, written, closed, offen, ablage,
                 pcF, soll>>

-----------------------------------------------------------------------------
\* flush, which close calls first: the rest of the spool is taken out ...
flush(t) ==
  /\ pcF[t] = "ruht"
  /\ Abschliessend(t)
  /\ batch' = [batch EXCEPT ![t] = spool]
  /\ spool' = {}
  /\ pcF' = [pcF EXCEPT ![t] = IF spool = {} THEN "prueft" ELSE "uebergibt"]
  /\ soll' = [soll EXCEPT ![t] = Abgegeben \ InFremdenHaenden(t)]
  /\ UNCHANGED <<queue, enqueued, written, closed, offen, ablage, pcS, pcW>>

\* ... handed to the writer ...
flush_enqueue(t) ==
  /\ pcF[t] = "uebergibt"
  /\ enqueue_batch(t)
  /\ pcF' = [pcF EXCEPT ![t] = "meldet"]
  /\ UNCHANGED <<spool, written, closed, offen, ablage, pcS, pcW, soll>>

\* ... with a notification ...
flush_notify(t) ==
  /\ pcF[t] = "meldet"
  /\ pcF' = [pcF EXCEPT ![t] = "prueft"]
  /\ WeckeSchreiber
  /\ UNCHANGED <<spool, batch, queue, enqueued, written, closed, offen, ablage,
                 pcS, soll>>

NachFlush(t) == IF t \in Closer THEN "schliesst" ELSE "ruht"

\* Mutant: the barrier looks at the queue, not at what is written.
flush_wait_queue(t) ==
  /\ pcF[t] = "prueft"
  /\ pcF' = [pcF EXCEPT ![t] = IF queue = <<>> THEN NachFlush(t) ELSE "schlaeft"]
  /\ UNCHANGED <<spool, batch, queue, enqueued, written, closed, offen, ablage,
                 pcS, pcW, soll>>

\* ... and the caller waits until every batch is written.
flush_wait(t) ==
  /\ pcF[t] = "prueft"
  /\ pcF' = [pcF EXCEPT ![t] = IF enqueued = written THEN NachFlush(t) ELSE "schlaeft"]
  /\ UNCHANGED <<spool, batch, queue, enqueued, written, closed, offen, ablage,
                 pcS, pcW, soll>>

\* close: only the first call closes ...
close(t) ==
  /\ pcF[t] = "schliesst"
  /\ pcF' = [pcF EXCEPT ![t] = IF closed THEN "fertig" ELSE "meldetEnde"]
  /\ closed' = TRUE
  /\ UNCHANGED <<spool, batch, queue, enqueued, written, offen, ablage, pcS, pcW, soll>>

\* ... wakes the writer ...
close_notify(t) ==
  /\ pcF[t] = "meldetEnde"
  /\ pcF' = [pcF EXCEPT ![t] = "join"]
  /\ WeckeSchreiber
  /\ UNCHANGED <<spool, batch, queue, enqueued, written, closed, offen, ablage,
                 pcS, soll>>

\* ... and joins it.
close_join(t) ==
  /\ pcF[t] = "join"
  /\ pcW = "aus"
  /\ pcF' = [pcF EXCEPT ![t] = "fertig"]
  /\ UNCHANGED <<spool, batch, queue, enqueued, written, closed, offen, ablage,
                 pcS, pcW, soll>>

-----------------------------------------------------------------------------
\* run: the writer takes a batch, and stops when closed and without work ...
run_take ==
  /\ pcW = "prueft"
  /\ IF queue # <<>>
     THEN /\ offen' = Head(queue)
          /\ queue' = Tail(queue)
          /\ pcW' = "schreibt"
     ELSE /\ pcW' = IF closed THEN "aus" ELSE "schlaeft"
          /\ UNCHANGED <<queue, offen>>
  /\ UNCHANGED <<spool, batch, enqueued, written, closed, ablage, pcS, pcF, soll>>

\* ... writes entry after entry, a failed one is not counted ...
run_write ==
  /\ pcW = "schreibt"
  /\ \E e \in offen :
       /\ offen' = offen \ {e}
       /\ \/ /\ persisted' = persisted \cup {e}
             /\ UNCHANGED misslungen
          \/ /\ misslungen' = misslungen \cup {e}
             /\ UNCHANGED persisted
  /\ UNCHANGED <<spool, batch, queue, enqueued, written, closed, pcS, pcF, pcW, soll>>

\* ... counts the batch ...
run_written ==
  /\ pcW = "schreibt" /\ offen = {}
  /\ written' = written + 1
  /\ pcW' = "meldet"
  /\ UNCHANGED <<spool, batch, queue, enqueued, closed, offen, ablage, pcS, pcF, soll>>

\* Mutant: notify_one where several threads may wait.
run_notify_one ==
  /\ pcW = "meldet"
  /\ LET schlafend == {t \in Rufer : pcF[t] = "schlaeft"}
     IN  IF schlafend = {} THEN UNCHANGED pcF
         ELSE \E t \in schlafend : pcF' = [pcF EXCEPT ![t] = "prueft"]
  /\ pcW' = "prueft"
  /\ UNCHANGED <<spool, batch, queue, enqueued, written, closed, offen, ablage,
                 pcS, soll>>

\* ... and wakes the threads at the barrier.
run_notify ==
  /\ pcW = "meldet"
  /\ pcF' = [t \in Rufer |-> IF pcF[t] = "schlaeft" THEN "prueft" ELSE pcF[t]]
  /\ pcW' = "prueft"
  /\ UNCHANGED <<spool, batch, queue, enqueued, written, closed, offen, ablage,
                 pcS, soll>>

\* A thread may wake up without any notification.
Spurious ==
  /\ \/ /\ pcW = "schlaeft"
        /\ pcW' = "prueft"
        /\ UNCHANGED pcF
     \/ \E t \in Rufer : /\ pcF[t] = "schlaeft"
                         /\ pcF' = [pcF EXCEPT ![t] = "prueft"]
                         /\ UNCHANGED pcW
  /\ UNCHANGED <<spool, batch, queue, enqueued, written, closed, offen, ablage,
                 pcS, soll>>

-----------------------------------------------------------------------------
Submitting(e) == submit_enqueue(e) \/ submit_notify(e)

Flushing(t) ==
  \/ flush_enqueue(t) \/ flush_notify(t) \/ flush_wait(t)
  \/ close(t) \/ close_notify(t) \/ close_join(t)

Worker == run_take \/ run_write \/ run_written \/ run_notify

Next ==
  \/ \E e \in Entries : submit(e) \/ Submitting(e)
  \/ \E t \in Rufer : flush(t) \/ Flushing(t)
  \/ Worker
  \/ Spurious

Spec == Init /\ [][Next]_vars

\* A call that has begun goes on, and a write ends.  Nobody has to call
\* anything, and no spurious wakeup has to happen.
FairSpec ==
  /\ Spec
  /\ WF_vars(Worker)
  /\ \A e \in Entries : WF_vars(Submitting(e))
  /\ \A t \in Rufer : WF_vars(Flushing(t))

-----------------------------------------------------------------------------
(***************************************************************************)
(* Properties                                                              *)
(***************************************************************************)

Versucht == persisted \cup misslungen

\* Every entry that was handed in is in exactly one place, from the spool over
\* the hands of a caller and the queue to the disk (submit, flush, run).
OnePlace == \A e \in Entries :
  LET ablagen == [spool |-> spool, offen |-> offen,
                  persisted |-> persisted, misslungen |-> misslungen]
      lager   == {o \in DOMAIN ablagen : e \in ablagen[o]}
      haende  == {x \in Entries \cup Rufer : e \in batch[x]}
      wartend == {k \in DOMAIN queue : e \in queue[k]}
  IN  Cardinality(lager) + Cardinality(haende) + Cardinality(wartend)
        = IF pcS[e] = "neu" THEN 0 ELSE 1

Zurueck(t) == pcF[t] = "prueft" /\ pcF'[t] \in {"ruht", "schliesst"}

\* The barrier: when flush returns, every entry whose submit had returned
\* before, and that was not just then in the hands of another call, has been
\* through the writer (spool_writer.hpp:87).
FlushHaelt == \A t \in Rufer : Zurueck(t) => soll[t] \subseteq Versucht
FlushBarrier == [][FlushHaelt]_vars

\* A batch is written without any flush, because its caller wakes the writer;
\* and whoever waits, at the barrier or for the end of the writer, returns.
BatchWritten == \A e \in Entries : pcS[e] = "uebergibt" ~> e \in Versucht
FlushReturns == \A t \in Rufer : pcF[t] = "prueft" ~> pcF[t] \in {"ruht", "schliesst"}
CloseReturns == \A c \in Closer : pcF[c] = "schliesst" ~> pcF[c] = "fertig"
NobodyStuck == BatchWritten /\ FlushReturns /\ CloseReturns

=============================================================================
