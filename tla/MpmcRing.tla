------------------------------ MODULE MpmcRing ------------------------------
(***************************************************************************)
(* organ_axes/axis_q1_queuing/axis_q1_queuing_lockfree_mpmc.hpp: the       *)
(* bounded ring queue of several producers and consumers without a lock.   *)
(*                                                                         *)
(* Every access to an atomic is a step; so are the accesses to the data of *)
(* a cell, which is not atomic.  Positions count on; the wrap of 64 bits   *)
(* is left out, and so are the counters of a build with statistics.        *)
(* The names differ from those of Rcu, so that one module can reason about *)
(* the two.                                                                *)
(***************************************************************************)
EXTENDS Naturals, Sequences, FiniteSets

CONSTANTS
  Puts,        \* the calls of put; each puts its own name
  Gets,        \* the calls of get
  Requested,   \* the capacities asked for, valid or not
  Living,      \* the calls whose threads do not stop
  Nichts       \* no value

ASSUME RingConstantsOK ==
  /\ Puts \cap Gets = {} /\ Nichts \notin Puts
  /\ Requested \subseteq Nat /\ Living \subseteq Puts \cup Gets

Calls == Puts \cup Gets

VARIABLES
  capacity, sequence, data,   \* capacity_ and the cells
  enqueue_pos, dequeue_pos,
  pc, pos,    \* where each call is, and its local position
  wert,       \* the local v of each get
  vergeben,   \* history: the value of each position since the last reset
  anspruch    \* history: the value at the position that a get claimed

cells == <<capacity, sequence, data>>
history == <<vergeben, anspruch>>
ringVars == <<cells, enqueue_pos, dequeue_pos, pc, pos, wert, history>>

Cell(p) == p % capacity   \* pos & mask_, for a power of two

\* The type invariant.
RingTypeOK ==
  /\ capacity \in Nat \ {0}
  /\ sequence \in [0 .. capacity - 1 -> Nat]
  /\ data \in [0 .. capacity - 1 -> Puts \cup {Nichts}]
  /\ enqueue_pos \in Nat /\ dequeue_pos \in Nat
  /\ pc \in [Calls -> {"neu", "prueft", "tauscht", "laedt", "daten", "freigabe",
                       "fertig", "erfolglos"}]
  /\ pos \in [Calls -> Nat]
  /\ wert \in [Gets -> Puts \cup {Nichts}]
  /\ vergeben \in Seq(Puts)
  /\ anspruch \in [Gets -> Puts \cup {Nichts}]

\* Mutant: the test for zero is missing.
validate_capacity_zero(c) == \E k \in 0 .. c : c = 2^k \/ c = 0

\* validate_capacity: zero and what is no power of two is refused.
validate_capacity(c) == c # 0 /\ \E k \in 0 .. c : c = 2^k

\* The cells of a new ring: cell i waits for position i.
Folge(c) == [i \in 0 .. c - 1 |-> i]
KeineDaten(c) == [i \in 0 .. c - 1 |-> Nichts]

RingInit ==
  /\ capacity \in {c \in Requested : validate_capacity(c)}
  /\ sequence = Folge(capacity) /\ data = KeineDaten(capacity)
  /\ enqueue_pos = 0 /\ dequeue_pos = 0
  /\ pc = [c \in Calls |-> "neu"]
  /\ pos = [c \in Calls |-> 0]
  /\ wert = [g \in Gets |-> Nichts]
  /\ vergeben = <<>>
  /\ anspruch = [g \in Gets |-> Nichts]

-----------------------------------------------------------------------------
Geht(c, von, nach) == pc[c] = von /\ pc' = [pc EXCEPT ![c] = nach]

\* put: the load of enqueue_pos_, on entry and again when others were faster.
put_load(p) ==
  /\ pc[p] \in {"neu", "laedt"}
  /\ pc' = [pc EXCEPT ![p] = "prueft"]
  /\ pos' = [pos EXCEPT ![p] = enqueue_pos]
  /\ UNCHANGED <<cells, enqueue_pos, dequeue_pos, wert, history>>

\* Mutant: a full ring is not noticed.
put_check_full(p) ==
  /\ LET seq == sequence[Cell(pos[p])]
     IN  \/ seq <= pos[p] /\ Geht(p, "prueft", "tauscht")
         \/ seq > pos[p] /\ Geht(p, "prueft", "laedt")
  /\ UNCHANGED <<cells, enqueue_pos, dequeue_pos, pos, wert, history>>

\* Mutant: a position that others have passed is tried again and again.
put_check_stale(p) ==
  /\ LET seq == sequence[Cell(pos[p])]
     IN  \/ seq = pos[p] /\ Geht(p, "prueft", "tauscht")
         \/ seq < pos[p] /\ Geht(p, "prueft", "erfolglos")
         \/ seq > pos[p] /\ Geht(p, "prueft", "prueft")
  /\ UNCHANGED <<cells, enqueue_pos, dequeue_pos, pos, wert, history>>

\* The sequence of the cell says: free, still occupied (dropped), or too late.
put_check(p) ==
  /\ LET seq == sequence[Cell(pos[p])]
     IN  \/ seq = pos[p] /\ Geht(p, "prueft", "tauscht")
         \/ seq < pos[p] /\ Geht(p, "prueft", "erfolglos")
         \/ seq > pos[p] /\ Geht(p, "prueft", "laedt")
  /\ UNCHANGED <<cells, enqueue_pos, dequeue_pos, pos, wert, history>>

\* Mutant: the cell is released before its data are written.
put_claim_early(p) ==
  /\ enqueue_pos = pos[p]
  /\ Geht(p, "tauscht", "daten")
  /\ enqueue_pos' = pos[p] + 1
  /\ vergeben' = Append(vergeben, p)
  /\ sequence' = [sequence EXCEPT ![Cell(pos[p])] = pos[p] + 1]
  /\ UNCHANGED <<capacity, data, dequeue_pos, pos, wert, anspruch>>

\* The exchange that claims the position.
put_claim(p) ==
  /\ enqueue_pos = pos[p]
  /\ Geht(p, "tauscht", "daten")
  /\ enqueue_pos' = pos[p] + 1
  /\ vergeben' = Append(vergeben, p)
  /\ UNCHANGED <<cells, dequeue_pos, pos, wert, anspruch>>

\* It fails when the position is taken, and it may fail for no reason (weak).
put_claim_fails(p) ==
  /\ Geht(p, "tauscht", "prueft")
  /\ pos' = [pos EXCEPT ![p] = enqueue_pos]
  /\ UNCHANGED <<cells, enqueue_pos, dequeue_pos, wert, history>>

put_data(p) ==
  /\ Geht(p, "daten", "freigabe")
  /\ data' = [data EXCEPT ![Cell(pos[p])] = p]
  /\ UNCHANGED <<capacity, sequence, enqueue_pos, dequeue_pos, pos, wert, history>>

\* The store of the sequence makes the value visible.
put_release(p) ==
  /\ Geht(p, "freigabe", "fertig")
  /\ sequence' = [sequence EXCEPT ![Cell(pos[p])] = pos[p] + 1]
  /\ UNCHANGED <<capacity, data, enqueue_pos, dequeue_pos, pos, wert, history>>

-----------------------------------------------------------------------------
\* get: the load of dequeue_pos_.
get_load(g) ==
  /\ pc[g] \in {"neu", "laedt"}
  /\ pc' = [pc EXCEPT ![g] = "prueft"]
  /\ pos' = [pos EXCEPT ![g] = dequeue_pos]
  /\ UNCHANGED <<cells, enqueue_pos, dequeue_pos, wert, history>>

\* The sequence of the cell says: filled, not filled yet (nothing), or too late.
get_check(g) ==
  /\ LET seq == sequence[Cell(pos[g])]
     IN  \/ seq = pos[g] + 1 /\ Geht(g, "prueft", "tauscht")
         \/ seq < pos[g] + 1 /\ Geht(g, "prueft", "erfolglos")
         \/ seq > pos[g] + 1 /\ Geht(g, "prueft", "laedt")
  /\ UNCHANGED <<cells, enqueue_pos, dequeue_pos, pos, wert, history>>

\* Mutant: a plain store instead of the exchange.
get_claim_store(g) ==
  /\ Geht(g, "tauscht", "daten")
  /\ dequeue_pos' = pos[g] + 1
  /\ anspruch' = [anspruch EXCEPT ![g] = vergeben[pos[g] + 1]]
  /\ UNCHANGED <<cells, enqueue_pos, pos, wert, vergeben>>

\* The exchange that claims the position.
get_claim(g) ==
  /\ dequeue_pos = pos[g]
  /\ Geht(g, "tauscht", "daten")
  /\ dequeue_pos' = pos[g] + 1
  /\ anspruch' = [anspruch EXCEPT ![g] = vergeben[pos[g] + 1]]
  /\ UNCHANGED <<cells, enqueue_pos, pos, wert, vergeben>>

get_claim_fails(g) ==
  /\ Geht(g, "tauscht", "prueft")
  /\ pos' = [pos EXCEPT ![g] = dequeue_pos]
  /\ UNCHANGED <<cells, enqueue_pos, dequeue_pos, wert, history>>

get_data(g) ==
  /\ Geht(g, "daten", "freigabe")
  /\ wert' = [wert EXCEPT ![g] = data[Cell(pos[g])]]
  /\ UNCHANGED <<cells, enqueue_pos, dequeue_pos, pos, history>>

\* The store of the sequence gives the cell to the next round, and get returns.
get_release(g) ==
  /\ Geht(g, "freigabe", "fertig")
  /\ sequence' = [sequence EXCEPT ![Cell(pos[g])] = pos[g] + capacity]
  /\ UNCHANGED <<capacity, data, enqueue_pos, dequeue_pos, pos, wert, history>>

-----------------------------------------------------------------------------
Ruht(c) == pc[c] \in {"neu", "fertig", "erfolglos"}

\* clear: allowed while no call runs; the data stay in their cells.
clear ==
  /\ \A c \in Calls : Ruht(c)
  /\ enqueue_pos' = 0 /\ dequeue_pos' = 0
  /\ sequence' = Folge(capacity)
  /\ vergeben' = <<>>
  /\ UNCHANGED <<capacity, data, pc, pos, wert, anspruch>>

\* set_iterable_aspect: new cells of another capacity, while no call runs; a
\* refused capacity changes nothing.
set_iterable_aspect(c) ==
  /\ \A d \in Calls : Ruht(d)
  /\ validate_capacity(c)
  /\ capacity' = c /\ sequence' = Folge(c) /\ data' = KeineDaten(c)
  /\ enqueue_pos' = 0 /\ dequeue_pos' = 0
  /\ vergeben' = <<>>
  /\ UNCHANGED <<pc, pos, wert, anspruch>>

-----------------------------------------------------------------------------
Putting(p) ==
  \/ put_load(p) \/ put_check(p) \/ put_claim(p) \/ put_claim_fails(p)
  \/ put_data(p) \/ put_release(p)

Getting(g) ==
  \/ get_load(g) \/ get_check(g) \/ get_claim(g) \/ get_claim_fails(g)
  \/ get_data(g) \/ get_release(g)

RingNext ==
  \/ \E p \in Puts : Putting(p)
  \/ \E g \in Gets : Getting(g)
  \/ clear
  \/ \E c \in Requested : set_iterable_aspect(c)

RingSpec == RingInit /\ [][RingNext]_ringVars

\* A living call that has begun goes on, and its exchange does not fail for no
\* reason forever.  All the others may stop anywhere.
RingFairSpec ==
  /\ RingSpec
  /\ \A p \in Puts \cap Living :
       WF_ringVars(pc[p] # "neu" /\ Putting(p)) /\ SF_ringVars(put_claim(p))
  /\ \A g \in Gets \cap Living :
       WF_ringVars(pc[g] # "neu" /\ Getting(g)) /\ SF_ringVars(get_claim(g))

-----------------------------------------------------------------------------
(***************************************************************************)
(* Properties                                                              *)
(***************************************************************************)

Fifo == INSTANCE BoundedFifo WITH
  inhalt <- SubSeq(vergeben, dequeue_pos + 1, enqueue_pos),
  kapazitaet <- capacity,
  hand <- anspruch,
  geliefert <- [g \in Gets |-> IF pc[g] = "fertig" THEN wert[g] ELSE Nichts]

\* Whatever the interleaving, the ring is a bounded queue: a value goes in at
\* the claim of put, out at the claim of get, to one get, unchanged and in order,
\* and there are never more than the capacity inside.
IsFifo == Fifo!Spec

InZelle(c) == pc[c] \in {"daten", "freigabe"}

\* The data of a cell, which is not atomic, belongs to one call at a time: there
\* is no data race.
CellExclusive ==
  \A c, d \in Calls : c # d /\ InZelle(c) /\ InZelle(d) => Cell(pos[c]) # Cell(pos[d])

\* What a get returns is the value of a put that has succeeded, never of one that
\* was dropped or is still writing, and no other get returns it too, through all
\* rounds and resets (put and get, :147-207).
NurEinmal == \A g \in Gets : pc[g] = "fertig" =>
  /\ wert[g] \in Puts /\ pc[wert[g]] = "fertig"
  /\ \A h \in Gets \ {g} : pc[h] = "fertig" => wert[h] # wert[g]

\* A call that does not stop ends, wherever all the others have stopped
\* ("ECHTE Lock-Freedom", :19).
LivingEnds == \A c \in Living : pc[c] = "prueft" ~> Ruht(c)

=============================================================================
