-------------------------------- MODULE Rcu --------------------------------
(***************************************************************************)
(* comdare::rcu (reclamation/rcu_reclaim/rcu.hpp): readers in nested read  *)
(* sections, writers that replace a published version, defer the deletion  *)
(* of the old one and run the deferred deletions after a grace period.     *)
(*                                                                         *)
(* The memory is that of x86: every thread sees the shared memory through  *)
(* a store buffer of its own, which a seq_cst fence or a read-modify-write *)
(* empties.  The writers publish with read-modify-writes alone, so only    *)
(* the readers need a buffer.                                              *)
(***************************************************************************)
EXTENDS Naturals, FiniteSets

CONSTANTS
  Reader, Writer,
  Frei,       \* the holder of a mutex that no one holds
  MaxNest,    \* bound: depth of nested read sections
  MaxVersion, \* bound: versions published in the slot
  MaxEpoch    \* bound: grace periods

ASSUME RcuConstantsOK ==
  /\ Frei \notin Writer
  /\ MaxNest \in Nat \ {0} /\ MaxVersion \in Nat \ {0} /\ MaxEpoch \in Nat \ {0}

\* A version is the number of the exchange that published it.
Version == 1 .. MaxVersion
Epoch   == 0 .. MaxEpoch
Keine   == 0     \* no version

VARIABLES
  \* shared memory
  global_epoch,
  local_epoch, active,  \* of each RcuReaderState
  slot,                 \* the published version
  freed,                \* the versions deleted
  \* the registry and its mutex
  readers, registry_mutex,
  \* RcuDeferred
  pending,
  \* each reader
  pcR,        \* "neu", "draussen", "speichern", "fence", "drin"
  nesting,
  geladen,    \* the epoch it read on entry
  buf,        \* its buffered stores: "off", "epoch", "on", oldest first
  held,       \* the versions it obtained in its section
  \* each writer
  pcW,        \* "ruht", "defer", "bump", "sperre", "suche", "epoche", "rufe"
  alt,        \* the version its exchange returned
  snapshot,   \* the deletions its flush will run
  target_epoch,
  todo,       \* the readers its synchronize has not passed
  blick       \* the reader it found active

readerVars == <<pcR, nesting, geladen, buf, held>>
writerVars == <<pcW, alt, snapshot, target_epoch, todo, blick>>
readerMem  == <<local_epoch, active>>
vars == <<global_epoch, readerMem, slot, freed, readers, registry_mutex,
          pending, readerVars, writerVars>>

\* The type invariant.
TypeOK ==
  /\ global_epoch \in Epoch
  /\ local_epoch \in [Reader -> Epoch] /\ active \in [Reader -> BOOLEAN]
  /\ slot \in Version /\ freed \subseteq Version
  /\ readers \subseteq Reader /\ registry_mutex \in Writer \cup {Frei}
  /\ pending \subseteq Version
  /\ pcR \in [Reader -> {"neu", "draussen", "speichern", "fence", "drin"}]
  /\ nesting \in [Reader -> 0 .. MaxNest]
  /\ geladen \in [Reader -> Epoch]
  /\ buf \in [Reader -> SUBSET {"off", "epoch", "on"}]
  /\ held \in [Reader -> SUBSET Version]
  /\ pcW \in [Writer ->
       {"ruht", "defer", "bump", "sperre", "suche", "epoche", "rufe"}]
  /\ alt \in [Writer -> Version \cup {Keine}]
  /\ snapshot \in [Writer -> SUBSET Version]
  /\ target_epoch \in [Writer -> Epoch]
  /\ todo \in [Writer -> SUBSET Reader]
  /\ blick \in [Writer -> SUBSET Reader]

Init ==
  /\ global_epoch = 1
  /\ local_epoch = [r \in Reader |-> 0] /\ active = [r \in Reader |-> FALSE]
  /\ slot = 1 /\ freed = {}
  /\ readers = {} /\ registry_mutex = Frei
  /\ pending = {}
  /\ pcR = [r \in Reader |-> "neu"]
  /\ nesting = [r \in Reader |-> 0]
  /\ geladen = [r \in Reader |-> 0]
  /\ buf = [r \in Reader |-> {}]
  /\ held = [r \in Reader |-> {}]
  /\ pcW = [w \in Writer |-> "ruht"]
  /\ alt = [w \in Writer |-> Keine]
  /\ snapshot = [w \in Writer |-> {}]
  /\ target_epoch = [w \in Writer |-> 0]
  /\ todo = [w \in Writer |-> {}]
  /\ blick = [w \in Writer |-> {}]

-----------------------------------------------------------------------------
(***************************************************************************)
(* Readers                                                                 *)
(***************************************************************************)

\* First touch: the slot enters the registry.
register_thread(r) ==
  /\ pcR[r] = "neu"
  /\ registry_mutex = Frei
  /\ readers' = readers \cup {r}
  /\ pcR' = [pcR EXCEPT ![r] = "draussen"]
  /\ UNCHANGED <<global_epoch, readerMem, slot, freed, registry_mutex, pending,
                 nesting, geladen, buf, held, writerVars>>

\* read_lock of an outermost guard: the load of the global epoch ...
read_lock(r) ==
  /\ pcR[r] = "draussen"
  /\ nesting' = [nesting EXCEPT ![r] = 1]
  /\ geladen' = [geladen EXCEPT ![r] = global_epoch]
  /\ pcR' = [pcR EXCEPT ![r] = "speichern"]
  /\ UNCHANGED <<global_epoch, readerMem, slot, freed, readers, registry_mutex,
                 pending, buf, held, writerVars>>

\* ... the two stores, into the buffer ...
Publiziere(r) ==
  /\ pcR[r] = "speichern"
  /\ buf' = [buf EXCEPT ![r] = @ \cup {"epoch", "on"}]
  /\ pcR' = [pcR EXCEPT ![r] = "fence"]
  /\ UNCHANGED <<global_epoch, readerMem, slot, freed, readers, registry_mutex,
                 pending, nesting, geladen, held, writerVars>>

\* Mutant: the fence of read_lock is missing.
Fence_missing(r) ==
  /\ pcR[r] = "fence"
  /\ pcR' = [pcR EXCEPT ![r] = "drin"]
  /\ UNCHANGED <<global_epoch, readerMem, slot, freed, readers, registry_mutex,
                 pending, nesting, geladen, buf, held, writerVars>>

\* ... and store_load_fence_seq_cst.
Fence(r) ==
  /\ pcR[r] = "fence"
  /\ buf[r] = {}
  /\ pcR' = [pcR EXCEPT ![r] = "drin"]
  /\ UNCHANGED <<global_epoch, readerMem, slot, freed, readers, registry_mutex,
                 pending, nesting, geladen, buf, held, writerVars>>

\* The reader follows the published pointer and keeps what it finds.
Lies(r) ==
  /\ pcR[r] = "drin"
  /\ held' = [held EXCEPT ![r] = @ \cup {slot}]
  /\ UNCHANGED <<global_epoch, readerMem, slot, freed, readers, registry_mutex,
                 pending, pcR, nesting, geladen, buf, writerVars>>

\* read_lock of an inner guard.
read_lock_nested(r) ==
  /\ pcR[r] = "drin"
  /\ nesting[r] < MaxNest
  /\ nesting' = [nesting EXCEPT ![r] = @ + 1]
  /\ UNCHANGED <<global_epoch, readerMem, slot, freed, readers, registry_mutex,
                 pending, pcR, geladen, buf, held, writerVars>>

\* Mutant: the end of an inner guard marks the thread inactive.
read_unlock_nested_ends(r) ==
  /\ pcR[r] = "drin"
  /\ nesting[r] > 1
  /\ nesting' = [nesting EXCEPT ![r] = @ - 1]
  /\ buf' = [buf EXCEPT ![r] = @ \cup {"off"}]
  /\ UNCHANGED <<global_epoch, readerMem, slot, freed, readers, registry_mutex,
                 pending, pcR, geladen, held, writerVars>>

\* read_unlock of an inner guard ...
read_unlock_nested(r) ==
  /\ pcR[r] = "drin"
  /\ nesting[r] > 1
  /\ nesting' = [nesting EXCEPT ![r] = @ - 1]
  /\ UNCHANGED <<global_epoch, readerMem, slot, freed, readers, registry_mutex,
                 pending, pcR, geladen, buf, held, writerVars>>

\* ... and of the outermost one, which gives up what the section obtained.
read_unlock(r) ==
  /\ pcR[r] = "drin"
  /\ nesting[r] = 1
  /\ nesting' = [nesting EXCEPT ![r] = 0]
  /\ held' = [held EXCEPT ![r] = {}]
  /\ buf' = [buf EXCEPT ![r] = @ \cup {"off"}]
  /\ pcR' = [pcR EXCEPT ![r] = "draussen"]
  /\ UNCHANGED <<global_epoch, readerMem, slot, freed, readers, registry_mutex,
                 pending, geladen, writerVars>>

\* The oldest buffered store of the reader reaches the memory.
Commit(r) ==
  /\ \/ /\ "off" \in buf[r]
        /\ active' = [active EXCEPT ![r] = FALSE]
        /\ buf' = [buf EXCEPT ![r] = @ \ {"off"}]
        /\ UNCHANGED local_epoch
     \/ /\ "off" \notin buf[r] /\ "epoch" \in buf[r]
        /\ local_epoch' = [local_epoch EXCEPT ![r] = geladen[r]]
        /\ buf' = [buf EXCEPT ![r] = @ \ {"epoch"}]
        /\ UNCHANGED active
     \/ /\ buf[r] = {"on"}
        /\ active' = [active EXCEPT ![r] = TRUE]
        /\ buf' = [buf EXCEPT ![r] = {}]
        /\ UNCHANGED local_epoch
  /\ UNCHANGED <<global_epoch, slot, freed, readers, registry_mutex, pending,
                 pcR, nesting, geladen, held, writerVars>>

-----------------------------------------------------------------------------
(***************************************************************************)
(* Writers                                                                 *)
(***************************************************************************)

\* rcu_replace: the exchange of the pointer ...
rcu_replace(w) ==
  /\ pcW[w] = "ruht"
  /\ slot < MaxVersion
  /\ alt' = [alt EXCEPT ![w] = slot]
  /\ slot' = slot + 1
  /\ pcW' = [pcW EXCEPT ![w] = "defer"]
  /\ UNCHANGED <<global_epoch, readerMem, freed, readers, registry_mutex,
                 pending, readerVars, snapshot, target_epoch, todo, blick>>

\* ... and RcuDeferred::defer of the deletion of the old version.
defer(w) ==
  /\ pcW[w] = "defer"
  /\ pending' = pending \cup {alt[w]}
  /\ alt' = [alt EXCEPT ![w] = Keine]
  /\ pcW' = [pcW EXCEPT ![w] = "ruht"]
  /\ UNCHANGED <<global_epoch, readerMem, slot, freed, readers, registry_mutex,
                 readerVars, snapshot, target_epoch, todo, blick>>

\* The bound on the grace periods counts those about to begin.
Budget == global_epoch + Cardinality({v \in Writer : pcW[v] = "bump"}) < MaxEpoch

\* Mutant: the pending deletions are copied instead of swapped out.
flush_copy(w) ==
  /\ pcW[w] = "ruht"
  /\ Budget
  /\ snapshot' = [snapshot EXCEPT ![w] = pending]
  /\ pcW' = [pcW EXCEPT ![w] = "bump"]
  /\ UNCHANGED <<global_epoch, readerMem, slot, freed, readers, registry_mutex,
                 pending, readerVars, alt, target_epoch, todo, blick>>

\* RcuDeferred::flush swaps the pending deletions out.
flush(w) ==
  /\ pcW[w] = "ruht"
  /\ Budget
  /\ snapshot' = [snapshot EXCEPT ![w] = pending]
  /\ pending' = {}
  /\ pcW' = [pcW EXCEPT ![w] = "bump"]
  /\ UNCHANGED <<global_epoch, readerMem, slot, freed, readers, registry_mutex,
                 readerVars, alt, target_epoch, todo, blick>>

\* Mutant: the result of fetch_add is taken for the new epoch plus one more.
Bump_offByOne(w) ==
  /\ pcW[w] = "bump"
  /\ global_epoch < MaxEpoch
  /\ target_epoch' = [target_epoch EXCEPT ![w] = global_epoch + 2]
  /\ global_epoch' = global_epoch + 1
  /\ pcW' = [pcW EXCEPT ![w] = "sperre"]
  /\ UNCHANGED <<readerMem, slot, freed, readers, registry_mutex, pending,
                 readerVars, alt, snapshot, todo, blick>>

\* synchronize: the fetch_add of the epoch and the fence ...
Bump(w) ==
  /\ pcW[w] = "bump"
  /\ global_epoch < MaxEpoch
  /\ target_epoch' = [target_epoch EXCEPT ![w] = global_epoch + 1]
  /\ global_epoch' = global_epoch + 1
  /\ pcW' = [pcW EXCEPT ![w] = "sperre"]
  /\ UNCHANGED <<readerMem, slot, freed, readers, registry_mutex, pending,
                 readerVars, alt, snapshot, todo, blick>>

\* ... the mutex of the registry ...
Sperre(w) ==
  /\ pcW[w] = "sperre"
  /\ registry_mutex = Frei
  /\ registry_mutex' = w
  /\ todo' = [todo EXCEPT ![w] = readers]
  /\ pcW' = [pcW EXCEPT ![w] = "suche"]
  /\ UNCHANGED <<global_epoch, readerMem, slot, freed, readers, pending,
                 readerVars, alt, snapshot, target_epoch, blick>>

\* ... a look at one reader (the deque's order is left open) ...
PruefeAktiv(w, r) ==
  /\ pcW[w] = "suche"
  /\ r \in todo[w]
  /\ IF active[r]
     THEN /\ blick' = [blick EXCEPT ![w] = {r}]
          /\ pcW' = [pcW EXCEPT ![w] = "epoche"]
          /\ UNCHANGED todo
     ELSE /\ todo' = [todo EXCEPT ![w] = @ \ {r}]
          /\ UNCHANGED <<blick, pcW>>
  /\ UNCHANGED <<global_epoch, readerMem, slot, freed, readers, registry_mutex,
                 pending, readerVars, alt, snapshot, target_epoch>>

\* Mutant: only a reader that is found inactive is passed.
PruefeEpoche_never(w) ==
  /\ pcW[w] = "epoche"
  /\ blick' = [blick EXCEPT ![w] = {}]
  /\ pcW' = [pcW EXCEPT ![w] = "suche"]
  /\ UNCHANGED <<global_epoch, readerMem, slot, freed, readers, registry_mutex,
                 pending, readerVars, alt, snapshot, target_epoch, todo>>

\* ... which, if active, is passed when it entered after the fetch_add ...
PruefeEpoche(w) ==
  /\ pcW[w] = "epoche"
  /\ todo' = [todo EXCEPT ![w] =
       @ \ {r \in blick[w] : local_epoch[r] >= target_epoch[w]}]
  /\ blick' = [blick EXCEPT ![w] = {}]
  /\ pcW' = [pcW EXCEPT ![w] = "suche"]
  /\ UNCHANGED <<global_epoch, readerMem, slot, freed, readers, registry_mutex,
                 pending, readerVars, alt, snapshot, target_epoch>>

\* ... until all have been passed.
Entsperre(w) ==
  /\ pcW[w] = "suche"
  /\ todo[w] = {}
  /\ registry_mutex' = Frei
  /\ pcW' = [pcW EXCEPT ![w] = "rufe"]
  /\ UNCHANGED <<global_epoch, readerMem, slot, freed, readers, pending,
                 readerVars, alt, snapshot, target_epoch, todo, blick>>

\* The end of flush: the deferred deletions run.
Rufe(w) ==
  /\ pcW[w] = "rufe"
  /\ freed' = freed \cup snapshot[w]
  /\ snapshot' = [snapshot EXCEPT ![w] = {}]
  /\ pcW' = [pcW EXCEPT ![w] = "ruht"]
  /\ UNCHANGED <<global_epoch, readerMem, slot, readers, registry_mutex,
                 pending, readerVars, alt, target_epoch, todo, blick>>

-----------------------------------------------------------------------------
ReaderStep(r) ==
  \/ register_thread(r) \/ read_lock(r) \/ Publiziere(r) \/ Fence(r)
  \/ Lies(r) \/ read_lock_nested(r) \/ read_unlock_nested(r) \/ read_unlock(r)

Synchronize(w) ==
  Bump(w) \/ Sperre(w) \/ (\E r \in Reader : PruefeAktiv(w, r))
  \/ PruefeEpoche(w) \/ Entsperre(w)

WriterStep(w) == rcu_replace(w) \/ defer(w) \/ flush(w) \/ Synchronize(w) \/ Rufe(w)

Next ==
  \/ \E r \in Reader : ReaderStep(r) \/ Commit(r)
  \/ \E w \in Writer : WriterStep(w)

Spec == Init /\ [][Next]_vars

\* Buffered stores drain, a read section that is entered ends, and a writer
\* inside flush keeps running (the mutex is handed on fairly).  No reader has
\* to enter, and a reader may enter again and again.
FairSpec ==
  /\ Spec
  /\ \A r \in Reader :
       /\ WF_vars(Commit(r))
       /\ WF_vars(Publiziere(r) \/ Fence(r))
       /\ WF_vars(read_unlock_nested(r))
       /\ SF_vars(read_unlock(r))
  /\ \A w \in Writer :
       /\ WF_vars(Bump(w) \/ (\E r \in Reader : PruefeAktiv(w, r))
                  \/ PruefeEpoche(w) \/ Entsperre(w) \/ Rufe(w))
       /\ SF_vars(Sperre(w))

-----------------------------------------------------------------------------
(***************************************************************************)
(* Properties                                                              *)
(***************************************************************************)

\* No use after free: a version a reader obtained in its section is not
\* deleted before the outermost guard ends (rcu.hpp, guarantee 3).
NoUseAfterFree == \A r \in Reader : held[r] \cap freed = {}

\* Every deletion runs once: a version is in at most one of the deferred list,
\* the snapshots of the flushes under way and what has been deleted.
DeletedOnce ==
  /\ pending \cap freed = {}
  /\ \A w \in Writer : snapshot[w] \cap (freed \cup pending) = {}
  /\ \A w, v \in Writer : w # v => snapshot[w] \cap snapshot[v] = {}

\* What a reader's buffer holds at each point, and when it counts as active:
\* between its fence and its unlock, and in the registry since first touch.
ReaderInv ==
  \A r \in Reader :
    /\ pcR[r] \in {"neu", "draussen", "speichern"} => buf[r] \subseteq {"off"}
    /\ pcR[r] = "fence" => "on" \in buf[r] \/ (buf[r] = {} /\ active[r])
    /\ pcR[r] = "drin" => buf[r] = {} /\ active[r]
    /\ held[r] # {} => pcR[r] = "drin"
    /\ pcR[r] # "neu" => r \in readers
    /\ local_epoch[r] <= global_epoch /\ geladen[r] <= global_epoch

\* A version that is being retired is older than the published one, and sits
\* in one place only.
RetiredInv ==
  /\ \A v \in pending \cup freed : v < slot
  /\ \A w \in Writer :
       /\ alt[w] < slot
       /\ \A v \in snapshot[w] : v < slot
       /\ alt[w] \notin pending \cup freed
       /\ pcW[w] = "defer" => alt[w] # Keine
       /\ \A v \in Writer : alt[w] \notin snapshot[v]
       /\ \A v \in Writer : w # v /\ alt[w] = alt[v] => alt[w] = Keine

\* While w waits, a reader that holds what w will delete entered before the
\* fetch_add and has not been passed; at the end there is none.
GraceInv ==
  \A w \in Writer : \A r \in Reader : held[r] \cap snapshot[w] # {} =>
    /\ pcW[w] # "rufe"
    /\ pcW[w] \in {"sperre", "suche", "epoche"}
         => local_epoch[r] < target_epoch[w]
    /\ pcW[w] \in {"suche", "epoche"} => r \in todo[w]

\* The inductive invariant.
GracePeriod == ReaderInv /\ RetiredInv /\ GraceInv

\* A flush ends although readers enter new sections all the time: a reader
\* that entered after the fetch_add does not hold it up.
FlushEnds == \A w \in Writer : pcW[w] = "bump" ~> pcW[w] = "ruht"

=============================================================================
