# A formal model of comdare-cache-engine

comdare-cache-engine composes search structures from exchangeable organs
(allocators, nodes, queues, reclamation schemes, ...), builds one binary for
every composition and measures them. Several build machines share the work and
one object store. This directory holds TLA+ models of the parts of that system
in which several actors meet: the inventory the machines share, the build run
that survives crashes, the threads inside a run, and the two organs that are
concurrent themselves.

Contents: [System](#the-system) · [Modules](#modules-and-how-they-correspond-to-the-code)
· [Runs](#runs) · [Fairness](#fairness) · [Proofs](#proofs)
· [Observations](#where-the-code-and-its-comments-part)
· [Not modelled](#not-modelled) · [Plan](#plan)

All source paths below are relative to `src/libs/cache_engine/`.

## The system

```
 planner ──windows──▶ provisioning run ──jobs──▶ build pool ──compiler──▶ binary + sidecars
                        │      ▲                    │ completion hook
                        │      │ load / flush       ├────────▶ push pump ──▶ object store
                        ▼      │                    └────────▶ fresh entries ─┐
                  phase counter│                                              │
                        ┌──────┴─── Bestandslog document (lock, merge) ◀──────┘
                        │               ▲ consolidation
   other machines ──────┘        registration sidecars ◀── reservations of each owner
```

### Inventory

| Component | Code | State it keeps | Operations | Interacts with | What is hard | Correct means |
|---|---|---|---|---|---|---|
| Bestandslog write cycle | `builder/bestandslog/bestandslog_lock.hpp`, `builder_registration.hpp` | lock object, document object; per machine the cycle under way | acquire, verify, guard, fetch-merge-store, release, one retry | all machines through the object store | no compare-and-swap: every verb is a separate call; crashes with the lock held; verbs that fail after they took effect | sections exclude each other, acknowledged records stay, nothing goes back, a dead machine blocks nobody |
| Record merge | `bestandslog_lock.hpp`, `bestandslog_document.hpp` | – | `merge_documents`, `pick_reservierung`, `pick_eintrag` | write cycle, sidecars | order and ties of records from several machines | least upper bound of what was merged, idempotent |
| Registration sidecars | `registrierungs_sidecar.hpp` | one object per owner, document, lock | register, read the union, consolidate, remove | owners without a lock beside a consolidator with one | registration between reading and removal; store that fails half way; readers in between | no registered record is lost, the document only grows |
| Provisioning run | `builder/experiment_tree/cache_engine_builder_iterator.hpp`, `planer_driven_build.hpp` | phase counter, Bestand as loaded, fresh entries, local binaries | start and resume, window by window build, close of a window, registration | planner, pool, pump, Bestandslog | what the next run concludes from what a crashed one left behind | registered and counted artifacts exist |
| Build pool | `builder/build_orchestrator/build_orchestrator.hpp` | job counter, admitted builds, results, binaries with fingerprint sidecars | take, gate, skip, admit, compile with retries, write sidecar, finalize, wake | provisioning run (completion hook) | races for jobs and memory; a skip decided from files of an earlier run | each job once, builds fit the memory, what is skipped is current, the pool ends |
| Push pump | `builder/artifact_transport/async_push_pump.hpp` | queue, entry under way, counts, failures | enqueue, drain, close, push thread | build workers, window barrier | lost wakeups, barrier against close, exceptions | each entry booked once, the barrier holds, nobody is stuck |
| Spool writer | `builder/artifact_transport/spool_writer.hpp`, `ram_spool.hpp` | RAM spool, batch queue, batch counters | submit, flush, close, writer thread | build workers | a batch between two locks; several waiting threads | each entry in one place, the barrier holds |
| Read-copy-update | `reclamation/rcu_reclaim/rcu.hpp` | global epoch, reader slots, registry, deferred deletions | register, read lock and unlock (nested), replace, defer, synchronize, flush | reader and writer threads | store buffers, readers that keep entering, concurrent flushes | no use after free, each deletion once, flushes end |
| Lock-free ring | `organ_axes/axis_q1_queuing/axis_q1_queuing_lockfree_mpmc.hpp` | positions, cells with sequence numbers | put, get, clear, new capacity | producers and consumers | stale positions, wrap around, stopped threads | a bounded FIFO, no data race, others never wait for a stopped thread beyond their own call |
| Reservations and takeover | `builder_registration.hpp`, `reservation_lifecycle.hpp`, `eta_kalibrierung.hpp`, `planer_block_value.hpp` | reservations with ETA in the document | claim a slice, publish, sweep expired ones, release, done | all machines | slow but alive owners, sweep against republishing | who ends a claim answers for its window; the closing word of an owner stands; a reported takeover is one |
| Object verbs | `artifact_transport/artifact_cache.hpp` | scratch files | push, pull, stat, fetch, store, remove, list over `mc` | write cycle, run, pump | shared scratch names, time budget | a verb reports what happened |
| Plan file and slice queue | `bestandslog/batch_planner.hpp`, `slice_queue.hpp`, `planer_driven_build.hpp` | plan file, queue of windows, resume point | plan, stamp, resume, report, push and pop | planner thread, builder | the builder learns the resume point from another thread; a counter of another plan | a resumed run counts on from where it resumed |
| Measurement registration | `bestandslog/messwert_registrierung.hpp` | a document of its own | observe, flush at intervals | write cycle | as the write cycle | as the write cycle |
| Flush strategies, other queues | `organ_axes/axis_q2_queuing`, `axis_q1_queuing` | counters, buffers | decide to flush; put and get | a queue organ | boundaries | triggers fire exactly when promised |
| The rest | organ axes, anatomy, experiment tree, measuring, docks, loaders, planner front end, tools | – | – | – | sequential, numeric or pure I/O | covered by the repository's own tests |

`PROJECT.json` lists every component with its sources, and every hazard with the
line where it bites.

## Modules, and how they correspond to the code

| Module | Models | Extends or instantiates |
|---|---|---|
| `BestandMerge` | contents of the document, their order, their merge | |
| `UnionStore` | abstract: a store whose writes are atomic unions | `BestandMerge` |
| `Bestandslog` | the locked write cycle, verb by verb | `BestandMerge`; implements `UnionStore` |
| `RegistrierungsSidecar` | registration by sidecars and consolidation | `BestandMerge` |
| `Reservierung` | claims of windows with their ETA, the sweep that takes them over, the planner block | `BestandMerge`; its document is what `UnionStore` promises |
| `BauLauf` | the provisioning run with its planner thread, and what survives from run to run | |
| `BauPool` | the build pool over several runs | |
| `AsyncPushPump` | the push pump | |
| `SpoolWriter` | RAM spool and writer thread | |
| `BoundedFifo` | abstract: a bounded queue shared by threads | |
| `MpmcRing` | the lock-free ring, atomic by atomic | implements `BoundedFifo` |
| `Rcu` | read-copy-update with store buffers | |
| `MC*` | the instances for TLC | the module of that name |
| `BestandMergeProofs`, `BestandslogProofs`, `RegistrierungsSidecarProofs`, `ReservierungProofs`, `AsyncPushPumpProofs`, `SpoolWriterProofs` | theorems | the module of that name |
| `BauProofs` | theorems about the run and about its pool | `BauLauf`, `BauPool` |
| `OrganProofs` | theorems about the two lock-free organs | `Rcu`, `MpmcRing` |

Conventions. Names of operations are those of the source. A variable under
"history" exists in no code; it records what a property has to remember. Definitions
marked *Variant* or *Mutant* are deliberately wrong forms of the definition
below them: `PROJECT.json` pairs each property with one that breaks it.

### Bestandslog: one step per object store verb

`LockFetch`, `LockBreak`, `LockStore` and `LockVerify` are the calls of
`try_acquire_lock`; `Guard` is the deadline guard of `with_document_lock`;
`DocFetch` and `DocStore` the two calls of `store_document_merged`; `RelFetch`
and `RelRemove` those of `release_lock`. `CycleReturns` is what
`with_document_lock_retry` does with the outcome: one more cycle after
`lock_unavailable` or `deadline_exceeded`, otherwise an answer to the writer.
A verb named in `Faults` may fail; a failed store may or may not have reached the
store, a failed fetch looks like a missing object. `Crash` ends a process at any
verb, `Restart` brings it back with the same owner token.

The code compares clock readings only as differences. So the lock is kept with
its age and every cycle with the time since its `acquired_at`; `Tick` advances
both and is the only use of time. `MaxCycle` bounds the length of a cycle (each
`mc` call has a wall clock cap), `MaxAge` stops the age where no comparison can
tell it apart from a greater one.

The data are reduced to what the merge compares: a reservation to its status and
whether `eta_s` is set, an inventory entry to its `done_utc`. A document is
missing, readable, in a newer syntax, or foreign (it does not parse). The machines in
`Neuere` run a newer program, whose documents the others refuse
(`document_syntax_supported`); they run the same cycle and may store at any time, also
between the fetch and the store of an older machine. That no document can become one
that does not parse is the store's own promise.

Two history flags carry the premises of the promises. `raced`: a lock was broken,
overwritten or removed while its owner was inside its section, which no store
without compare-and-swap can exclude. `misread`: the fetch of a present document
came back empty.

### RegistrierungsSidecar

An owner's `Registriere` is the one store of `store_reservation_sidecar`.
`LiesBegin` to `LiesEnde` are the calls of `lade_mit_sidecars`: document, listing,
one fetch per listed key, in any order. A consolidation runs the same calls under
the lock and goes on with `KonsStore`, the second listing `KonsListe`, `KonsRemove`
key by key and `KonsEnde`. `Uebernahme` is the write of another lock section
between two consolidations. The lock is exclusive here; that it is so under the
premise `~raced` is what `Bestandslog` shows. The verb for listing is not yet
bound in the build run, so this code runs in the repository's tests only.

### Reservierung

Every process has an owner id of its own, so that a reservation is named by the
process and the number of its claim (`slice_seq`, which starts at zero in every run). A
provisioning run goes through `LaufStart` (load of the Bestand), the sweep, its windows
and `LaufEnde` (flush). Where it starts among its windows is what its phase counter
says: `ab` is the resume point that the planner of the slices finds
(`SlicePlanner::run`), any value up to the number of windows, so that the k-th claim of
a run is its window `ab + k` (`FachVon`). How a counter comes about is the matter of
`BauLauf`; the sweep does not know of it, and judges by the whole selection.
The sweep, `takeover_expired_reservations`, is three calls: `SweepUrteil` fetches the
document *without* the lock and judges what it read, `SweepFreigabe` writes the
releases in a locked cycle, `SweepBeleg` fetches again and reports what is released
there. A window is claimed in `FensterBeginn` (which builds also when the claim could
not be written), its binaries finish in any order (`AtomUebersprungen`,
`AtomKompiliert`); the compile that completes the calibration hands an ETA to
`EtaSchrieb`, written by that worker while the others go on; `FensterDone` or, when
the build throws, `FensterAbbruch` (the `PromiseGuard`) closes the claim. A planner
claims and closes its block (`BlockBeginn`, `BlockEnde`).

Each locked write is one merge, which is what `Bestandslog` is shown to implement; a
write that is reported as failed may or may not have happened. Which foreign claims
may be taken is the code's rule on clock differences (`is_reservation_takeable`);
which of them this run's selection covers is its rule on intervals
(`slice_window_bounds`, `scope_covers_slice`). The projected ETA, a floating point
median, is any value of `EtaWerte`.

### BauLauf

The state that survives is on disk or in the store: `store`, `lokal`, `bestand`,
`zaehler`. A run starts with `LaufStart` (cache pull, load of the Bestand, start of
the planner thread). The planner cuts the selection and reads the counter
(`PlanLiest`), reports where it resumes (`PlanMeldet`), streams the windows behind
that point (`PlanSchiebt`) and closes the queue (`PlanEnde`); all of this interleaves
with the builder, which waits at the queue. The builder takes window by window
(`FensterBeginn`, with the first one also the reported values; then the pool's
`Atom…` actions in any order, `FensterGebaut`), closes each window in `FensterVollzug`
(drain, then the counter) and ends with `PumpeSchliesst` (close, drop of failed
entries) and `LaufEnde` (flush). The document is the union store; the pool and
the pump appear at the granularity of one binary, their inside is `BauPool` and
`AsyncPushPump`. `Absturz` may happen anywhere. Selection, grain and build
identity do not change between the runs, so that the stamp of the counter fits;
a counter with another stamp is discarded by the code, which is the same as a
first run.

### BauPool

Workers take indices (`hole_job`), refuse (`weise_ab`), skip (`ueberspringe`) or
wait for memory (`lasse_zu`), build with up to `bau_max_versuche` attempts
(`baue`), leave a fingerprint sidecar (`oeffne_sidecar` cuts the file,
`schreibe_sidecar` fills it; without provider `raeume` removes an old one),
report (`melde`), give back their memory (`gib_frei`) and wake the others
(`wecke`, a step of its own because the notification follows the unlock). Free
memory is an input of every look at the predicate. A build identity is the pair
of what the driver cannot change (`ident`) and the set of enabled variants
(`bvset`), since `dll_is_current` treats the two differently: equality, or a
subset whose recomputed hash is the recorded one. `gestoert` remembers the jobs
between whose new binary and whose sidecar something came, a crash or a sidecar
that could not be opened or removed.

### AsyncPushPump and SpoolWriter

A critical section is one step; a notification that follows an unlock is another.
A waiting thread sleeps until it is notified or wakes up for no reason
(`Spurious`) and then looks at its predicate again. Pushes and writes end in
success or failure. In `SpoolWriter` a batch between the spool's lock and the
queue's is in the hands of its caller (`batch`). Callers keep the documented
order: `close` after the last other call.

### MpmcRing

Every access to an atomic is a step, and so is the access to the data of a cell.
The exchange is the weak one and may fail for no reason. Memory order: the
sequence of a cell is published with release and read with acquire, so that the
data of the cell are read after they were written; the positions are used only
with the sequence of their cell, so an older value of them is covered by the steps
of others between `put_load` and `put_claim`. Histories: `vergeben` (the value
of each position) and `anspruch` (the value at the position a `get` claimed).

### Rcu

The memory model is that of x86: a reader's two stores of `read_lock` and its
store of `read_unlock` go through a buffer (`buf`, emptied by `Commit`, oldest
first), the fence waits for it. Writers publish with read-modify-writes only.
`synchronize` is taken load by load: the active mark and the epoch of a reader
are two loads (`PruefeAktiv`, `PruefeEpoche`), with the registry mutex held.

## Runs

| Run | Question | Bounds | Distinct states |
|---|---|---|---|
| `bestandslog` | safety of the write cycle with all faults, and that it implements the union store | 2 machines, one of them newer, 1 reservation, 1 cell, 2 local documents neither of which contains the other, 2 revisions | 2,433,948 |
| `bestandslog_live` | a dead machine blocks nobody | 2 machines, one of them newer, 3 revisions, crashes at every verb | 59,700 |
| `bestandslog_misread` | *violation*: a failed fetch wipes the document | 1 machine | – |
| `sidecar` | nothing registered is lost, the document grows, a reader sees all | 2 owners, 2 consolidators, 1 reader, 2 failures or crashes | 2,524,495 |
| `reservierung` | who ends a claim answers for it, closing words stand, reported takeovers are real | 2 runs and a planner, windows {1,3} against {1,2} and {3}, each run from its first window or the one after, 1 failing call, clock up to 2, crashes anywhere | 3,695,121 |
| `baulauf` | what is registered and counted exists; the counter goes on; every run ends | 3 binaries in windows of 2, 3 runs, every fault, a crash anywhere | 56,874 |
| `baulauf_folge` | *violation*: a following run counts what is not in the store | 2 binaries, 2 runs, failing pushes | – |
| `rcu` | no use after free, deletion once, the inductive invariant, flushes end | 1 reader with sections nested 2 deep, 2 writers, 3 versions, epochs up to 3 | 61,124 |
| `pump` | each entry once, barrier, closing, no lost wakeup | 3 entries, 1 thread at the barrier, 2 that close, parts of 2 | 191,631 |
| `spool` | one place, barrier, no lost wakeup | 3 entries (one of which fills the spool alone), 2 flushing threads, 1 closing | 183,341 |
| `ring` | implements the bounded queue; cells exclusive; living calls end | 3 puts, 2 gets, capacities 0, 2, 3 and 4 asked for | 67,098 |
| `pool` | each job once, memory cap, skip is current, the pool ends | 3 jobs, one of them refused, 2 workers, 2 runs over 3 identities or none, 2 attempts, memory for one build or for two | 821,302 |

Why these bounds reach the interesting cases.

* `bestandslog`: two machines suffice for every lost race; a third could only
  take the place of one of them between two cycles, which `Restart` and the next
  `Begin` of the same machine do as well. With `Ttl = MaxCycle` a lock becomes
  stale only after the longest cycle, the case the ttl is made for, and it does
  become stale, since ages run on to `Ttl + MaxCycle + 1`. Two revisions let a
  second write meet a document with records, which is where they could be lost. A
  fetch that fails is among the faults; the properties except it with `misread`. One
  older and one newer machine are the two sides of the syntax guard.
* `bestandslog_live` leaves the verbs without faults: a verb that fails forever
  stops every writer, and the question is the dead machine.
* `sidecar`: `MaxFehler` counts calls that fail and processes that die together;
  two of them cover a failed store followed by a crash, and two crashes. Two owners
  let one sidecar be read before and one after a registration.
* `reservierung`: the first run's window has a gap, and the interval it is claimed as
  spans both windows of the other run, so that the first can take over only one of
  the other's windows and the second the one of the first; a pro-forma time and an ETA
  of 1 both expire within a clock of 2. A counter that covers no window or the first
  leaves the two runs all, one or none of theirs to claim; so a run sweeps claims of windows it
  will build, that it has counted, or half of each. Each process runs once: a process
  that comes back has a new owner id.
* `baulauf`: windows of two over three binaries give a full and a short window; a
  third run sees what the second one concluded from a crash of the first.
* `rcu`: three versions let one writer retire a version while the other is inside
  `synchronize` with an older one, and the two epochs that are then under way are
  the two that `MaxEpoch` allows; `MaxEpoch` and `MaxVersion` stop the writers, not
  the reader. The number of readers is settled by the proofs.
* `pump` and `spool`: three entries make a full part or batch and a rest, two
  closing or flushing threads are the least at which a single wakeup can go to the
  wrong one.
* `ring`: three puts go round a ring of two; the refused capacities 0 and 3 are
  asked for; `Living` makes one put and one get go on while all the others may
  stop anywhere, inside a cell, too.
* `pool`: two workers with three jobs compete for the last job; two runs suffice for
  a skip decided from the leftovers of a run with another identity, a smaller or a
  larger set, no provider, or a crash.

Symmetry is used where no liveness property is checked and the values are
interchangeable (owners and consolidators in `sidecar`; the machines of `bestandslog`
are not, since one writes the newer syntax). Deadlock is reported in the runs of `Bestandslog` (with restarts and
`Tick` something is always possible) and in `rcu`; the others have finite work and
really stop.

### What the properties say

* **Write cycle.** `SectionExclusive`: at most one machine is between the
  verification of its token and its document store. `AckedRecordsSurvive`: a
  local document whose write was reported as ok is contained in the document ever
  after. `DocumentOnlyGrows`: no step lowers a record or the revision.
  `ForeignDocumentUntouched`: a document that does not parse is not replaced, and one in
  the newer syntax not by an older machine, though newer machines write at any time;
  unless a lock was lost inside a section (see [Observations](#where-the-code-and-its-comments-part)).
  `StaleLockIsAbandoned`: a lock that a running cycle finds stale belongs to no
  machine in its section. `ImplementsUnionStore`: each step is, to the readers of the
  document, an atomic union, the report of one that has taken effect, or nothing, as
  long as no lock was lost inside a section and no fetch misread. `DeadMachineNeverBlocks`: see fairness.
* **Sidecars.** `RecordsNieVerloren`: a registration that returned ok is in the
  document or in its sidecar. The exception is exact: `verpasst` holds the owners
  whose sidecar changed behind the reading of a consolidation, or was skipped by it.
  `HauptWaechst`: the blind store of the union takes nothing out.
  `UngestoerteLesung`: a reader during which no sidecar went or was skipped has all
  that was registered before.
* **Reservations.** `WerEnteignetStehtEin`: when a run has come to its end, every
  binary of the windows whose claims it ended, gaps or not, was in the Bestand it loaded,
  went through its pool, or lies in a window that its own phase counter has. The last
  part is less than the code's comment says (see
  [Observations](#where-the-code-and-its-comments-part)): without it TLC refutes the
  property in the same instance. `UebernahmeBelegt`: no claim is reported as taken
  over that its owner had booked as done by then. `BuchTreu`: an owner that has booked a
  window as done finds it done, whoever swept in between; one that has ended leaves
  no claim open.
* **Run.** `BestandHatArtefakt`: what is registered exists. `ZaehlerHatBau`: what
  the counter covers was built here or is in the Bestand. `ErstlaufTreu`: in a first
  run it has reached the store. `ZaehlerFaelltNicht`: over all runs the counter
  never goes back, but in a run that could not read it and planned from the start.
  `LaufEndet`: neither queue nor barrier nor close waits forever.
* **Pool.** `EachOnce`: a job in nobody's hands twice, finalized once, and no worker
  leaves while jobs are left. `AdmissionCap`: concurrent builds fit the memory there
  was at the start. `SkipIstAktuell`: what is skipped was built for today's identity
  with no variant that is not enabled today, unless the job is `gestoert`.
  `PoolEndet`: memory that stays short does not stop the pool.
* **Pump.** `EachOnce`, `DrainBarrier` (what was handed in before the call of drain
  is booked when it returns), `CloseBarrier` (everything is booked, and the part
  markers came in order without a gap), `NobodyStuck`.
* **Spool.** `OnePlace` (an entry handed in is in the spool, in the hands of a call, in
  the queue of the writer or written, in one of them once), `FlushBarrier` (what was submitted before, except what
  another call has in its hands), `NobodyStuck`.
* **Ring.** `IsFifo` (refinement of `BoundedFifo`), `CellExclusive` (no data race on
  the data of a cell), `NurEinmal` (what a get returns is the value of a put that has
  succeeded, once), `LivingEnds` (a call that goes on ends, though all the others
  stop anywhere).
* **Rcu.** `NoUseAfterFree`, `DeletedOnce`, `GracePeriod` (the inductive invariant of
  the proof), `FlushEnds`.

A type invariant is defined in every module. It is an invariant of the runs
`bestandslog`, `rcu` and `ring`; in the other modules with state it is proved,
as a part of the inductive invariant.

## Fairness

Fairness is stated per thread, and only for steps the code takes without being
asked.

* `Bestandslog`: a live process runs its cycle and its driver starts the next write;
  clocks advance. Nothing makes a dead machine come back. `DeadMachineNeverBlocks`
  asks it only of a machine that is the one left alive.
* `BauLauf`: the driver, the planner thread, the pool (a compiler call ends) and the push thread (an
  upload ends, by success or exception: `mc` runs under a wall clock cap).
* `BauPool`: each worker. Memory need not become free, and spurious wakeups need not
  happen: progress comes from `active == 0`.
* `AsyncPushPump`, `SpoolWriter`: the worker thread, and every call that has begun.
  Nobody has to call anything.
* `MpmcRing`: only the calls in `Living`. Their exchange is attempted under strong
  fairness, because a weak exchange may fail for no reason, though not forever.
* `Rcu`: store buffers drain; a reader that entered gets through its section (strong
  fairness of `read_unlock`, because it may go on reading); a writer inside `flush`
  runs; the registry mutex is handed on (strong fairness of `Sperre`). Readers
  may enter again and again.

## Proofs

The theorems hold for every value of the constants. Assumptions are those named in
the modules that declare the constants (`MaxUtcOK`, `ConstantsOK`,
`SidecarConstantsOK`, `ReservierungConstantsOK`, `BauLaufConstantsOK`,
`BauPoolConstantsOK`, `PumpConstantsOK`, `SpoolConstantsOK`, `RingConstantsOK`,
`RcuConstantsOK`); TLC evaluates them for the
values of every run. They say what the code guarantees: counts are natural numbers, a
window size is not zero (the code replaces a zero by its default), processes of different
kinds have different names. `ReservierungConstantsOK` also says that every window
has a smallest and a largest index, since windows are finite and never empty
(`slice_view_indices`), and `BauPoolConstantsOK` that the workers are finitely many.
The theorems on the ring have one hypothesis more, `RingOK`: nobody asks for a
capacity of one (see below; the capacities the code itself offers are 8 and more,
`axis_q1_queuing_lockfree_mpmc.hpp:95`).

**`BestandMergeProofs`.** `Contained` is a partial order on the contents, and the
merge is its least upper bound: `MergeUpperBound`, `MergeLeastUpperBound`; hence
`MergeAbsorbs`, a repeated write is idempotent. The argument goes record by record
through the rank of the status.

**`BestandslogProofs`.** `SectionExclusive` is not inductive: nothing in it says
why the second fetch of the lock is enough, and `AckedRecordsSurvive` needs to know
what a machine is about to write. The inductive invariant `IInv` adds

* `SectionOwn`: while no lock was lost inside a section, a machine in its section
  owns the lock object. Since the lock has one owner, `SectionExclusive` follows.
* `AgeOwn`: the age of the lock is the time since the `acquired_at` of its owner,
  from which a lock judged stale within a cycle no longer than the ttl is not in
  use.
* `BaseFresh`: the document a machine fetched inside its section is still the one
  in the store. Therefore its store of the merge only adds.
* `WrittenIn`: from its store to its release the local document of a machine is in
  the document, so that reporting it as ok is true. Together: `AckedRecordsSurvive`.
* `JobKnown`, `BaseRead`: a job under way is one of `Jobs`; what a machine is about to
  merge with is a document it reads. With `BaseFresh` the document is then still in
  that syntax when it stores: `ForeignStays`, for any set of newer machines.

Frame lemmas (`OthersFrame`, `LockFrame`, `DocFrame`, ...) say once which steps touch
which variable; each conjunct has its lemma with one step per action. The
theorems are `TypeCorrect`, `Invariance` (`Spec => []IInv`), `MutualExclusion`,
`AckedSurvive`, `MonotoneDocument`, `ForeignStays`, `StaleIsAbandoned`, and
`Refinement` (`ImplementsUnionStore`): while no lock is lost in a section and no
fetch misreads, each step is an atomic union, a report of a write that has taken
effect, or a stutter of `UnionStore`.

**`RegistrierungsSidecarProofs`.** A record is safe between two objects only because
of what a reading in between knows. `SidecarInv`: a sidecar holds what its owner last
registered. `KonsInv`: step by step, the union of a consolidator that is not blind
contains the document it is about to overwrite and every sidecar it is about to
remove. `LeseInv`: what an undisturbed reader has not yet read is still where it will
look. Hence `RecordsAreNeverLost`, `MainDocumentGrows`, `UndisturbedReading`, without
a bound on revisions, failures and crashes.

**`ReservierungProofs`.** `LokalInv` and `GenommenInv`: what a sweep carries from its
verdict to its release are claims whose window its selection contains; that the
comparison of a count with an interval implies this is `ScopeCovers`, by the
cardinality of intervals. `AnspruchInv`: an open claim stands for a window; a resumed run has more
ids than windows left. `FortschrittInv`: the windows behind a run are done, registered or
counted, so that an ended run answers for its whole selection: `TakersAnswer`.
`ZuInv`: the claim of a window that its owner has left, or not yet come to, is not
open; with the rank of the status in the merge, `ClosingWordStands` and
`TakeoversAreReal`.

**`BauProofs`, the run.** The four properties speak of what survives a run, and none is
inductive. `Unterwegs`: what is noted for registration is in the store or in the hands
of the pump. `FensterInv`: what of a window without failure is finished is built or
registered. `PlanerInv`: the queue holds the windows between builder and planner in
order, and nothing before the planner has reported its resume point.
`ZaehlwerkInv`: an intact count stands at the front of the current window. `StandInv`:
the persisted counter stands between two windows, and a run that resumed from it is
not behind. `ErstInv`: a first run finds nothing of an earlier one. Hence
`EntriesHaveArtifacts`, `CounterCoversBuilds`, `FirstRunIsFaithful`,
`CounterNeverBack`. The lemmas on windows do the arithmetic of fronts and of
`plan_resume_faecher`.

**`BauProofs`, the pool.** `EachOnce` is about counts of workers, and needs to know who
holds what. `ArbeitInv`: what a worker holds is a job already taken whose slot is
open, and between compiler and sidecar the binary is the one of this run.
`EinzelnInv`: no two hold the same. `VergebenInv`: what was taken and is open is held
by someone, and nobody has left early. `MeldeInv`: a finalized slot was reported once,
and, the part without which the first step of a worker breaks the rest, no slot is
finalized that the counter has not passed. `AdmissionCap` is inductive once `Zahl` says
that `active` counts the admitted workers (lemmas from the finite set theorems). For
`SkipIstAktuell`, `PaarInv`: where the job is not `gestoert` and nobody is between its
compiler and its sidecar, a whole sidecar is that of the binary, if there is one; it
holds from run to run, through crashes and changes of identity. Hence
`JobsDoneOnce`, `BuildsFitMemory`, `SkippedIsCurrent`, `PoolTypeCorrect`.

**`AsyncPushPumpProofs`.** `EachOnce` counts: that a push adds one to what is booked
needs `Getrennt` (no directory in two places). `SollInv`: a drain waits for what was
taken in. `AusInv`: a worker that has stopped left nothing. `MarkenInv`: the part
markers fired lag behind the pushes by the one that is due. Hence
`NothingLostOrTwice`, `DrainIsBarrier`, `CloseIsComplete` for every part size.

**`SpoolWriterProofs`.** The barrier of flush compares two counters. `ZaehlInv`: they
differ by the batches on their way. `OrtInv`: no entry leaves the way from spool to
disk. `SollInv`: the entries a flush waits for are past the spool and in no other
caller's hands. Hence `FlushIsBarrier`. `EinzelnInv`: no entry is in two places,
or twice in one; together with `OrtInv`, `EveryEntryOnce` (`OnePlace`), however
batches, flushes and failed writes overlap.

**`OrganProofs`, the ring.** Nothing in `CellExclusive` says why two calls that read
the same sequence number do not both go on. The invariant follows a position: it is
`Offen` until its put has released it, then `Gefuellt` until its get has, and from
there the next position of its cell is open. `OffenInv` and `FuellInv` say what the
sequence number of the cell is meanwhile: at most the position, then one more, with
the value that was put. `PutInv` and `GetInv` add what a call knows between its reading
of the number and its exchange: numbers only grow, so that when the exchange still
finds its position the cell is as it was read. `GetEindeutig`: two gets never have the
same position. Two positions of the same cell are at least a round apart (`RundeFern`),
so that a call inside a cell excludes every other: `NoDataRace`. The bound "at most
the capacity inside" follows from the same fact at the exchange of put
(`PutAnspruch`). `RingIsFifo` is the refinement: the exchanges are `Put` and `Take` of
`BoundedFifo`, the release of a get its `Return`, clear and a new capacity its `Reset`,
all other steps stutter. `EachValueOnce` (`NurEinmal`) adds `EinmalInv`, which follows
the names of the puts: one that is not past its exchange is nowhere, one that a get
has claimed is done and in no other place, with `GetAnspruch` (a get claims only what
has been released). The invariant holds for any number of calls and of rounds, and
for any capacity from two on; with one it is false (see below).

**`OrganProofs`, `Rcu`.** `NoUseAfterFree` becomes inductive with three parts: `ReaderInv`
(what the store buffer of a reader can hold at each point, and that between fence and
unlock it is visibly active and registered), `RetiredInv` (a retired version is older
than the published one and in one place only) and `GraceInv` (whoever holds what a
flush will delete entered before its `fetch_add` and is still in its `todo`, and
there is no such reader when the deletions run). The core step is that a reader which
enters after the exchange cannot obtain the old version, and one that entered before
has its active mark in memory by then because of the fence. `GracePeriodHolds` proves
the three, with `TypeCorrect`; `ReadersAreSafe` and `DeletionsRunOnce` follow. `GracePeriod` is also an
invariant of the run `rcu`.

**Only model-checked.** The liveness properties: `DeadMachineNeverBlocks`, `LaufEndet`,
`PoolEndet`, `LivingEnds`, `FlushEnds` and both `NobodyStuck` (the prover does not reason
about fairness and ENABLED). All invariants and action properties of the passing runs
are theorems. What a function defined by recursion over data computes cannot be
proved either; no module here needs one.

## Where the code and its comments part

Two disagreements are runs of their own.

* `bestandslog_misread`: `bestandslog_lock.hpp:490` promises "NIE blinde Ersetzung".
  `object_fetch` answers nullopt for a missing object and for a failed call alike
  (`artifact_cache.hpp:692`), so that one failed fetch makes `store_document_merged`
  create the document anew over the existing one.
* `baulauf_folge`: `async_push_pump.hpp:81` says the counter may only advance when the
  artifacts of a window have really reached the store. The completion hook does not
  upload a binary that is skipped (`cache_engine_builder_iterator.hpp:2357`), so a
  binary whose upload failed, or was still queued at a crash, is counted by the next
  run.

The following were met while modelling. They are premises or exceptions of the
properties named, or they explain a form the model has.

* The token is compared and the lock removed in two calls (`bestandslog_lock.hpp:208`,
  `:214`): the lock removed may be a later one of another machine (`raced`).
* A write can be acknowledged and lost afterwards when its lock is taken over during
  its section (`bestandslog_lock.hpp:9`, `:11`; `builder_registration.hpp:253`): `raced`
  in `AckedRecordsSurvive`.
* A sidecar stored between its reading and the second listing is removed unread
  (`registrierungs_sidecar.hpp:279`), against "Records gehen nie verloren" (`:248`);
  one with a newer syntax, or whose fetch fails, is skipped (`:171`) and removed with
  the others. `verpasst` in `RecordsNieVerloren`.
* A reader that loads the document before and lists after a consolidation misses what
  moved in between (`registrierungs_sidecar.hpp:147`): `gestoert` in
  `UngestoerteLesung`.
* A flush does not see the batch that another thread's submit has taken out of the
  spool and not handed over yet (`spool_writer.hpp:84`, `:88`), and neither does
  `pending_count` (`:149`); failed writes count as written for the barrier (`:118`):
  `InFremdenHaenden` and `Versucht` in `FlushBarrier`.
* A run publishes the rest ETA once, in the middle of a window, without moving
  `reserviert_utc` (`cache_engine_builder_iterator.hpp:1868` to `:1918`), while the rule
  of takeover measures from the reservation ("seit ihrem letzten Update",
  `reservation_lifecycle.hpp:131`): the time before the publication counts twice, and an
  owner on schedule can lose its claim. Both then build; `BuchTreu` says that its done
  still wins.
* A run that resumes takes over windows that its own phase counter makes it skip: the
  sweep (`builder_registration.hpp:343`) looks at the selection alone, the planner of the
  slices (`planer_driven_build.hpp:453`) hands out only what is behind the resume point. It
  then ends a foreign claim and does not build the window, against "Wer die Arbeit nicht
  uebernehmen kann, enteignet nicht" (`builder_registration.hpp:277`) and against its own
  message of having built it again. `WerEnteignetStehtEin` says what is kept: such a window
  is one that the counter has, hence built on this machine or registered by an earlier
  run (`ZaehlerHatBau`). What was only built here, for example because the earlier run died before
  its flush, no other machine learns of: its claim is gone and no Bestand names it.
* The guard against unreadable documents judges the copy that was fetched
  (`bestandslog_lock.hpp:511`), and the store that follows (`:530`) is not conditional: an older
  machine that lost its lock in between stores over a document of a newer one, against
  "NIE ueberschrieben" (`:493`). `raced` in `ForeignDocumentUntouched`; without it TLC
  finds the case in the instance of `bestandslog`.
* `OWNER_UUID` is forwarded as one literal to the pipelines of the grandchildren
  (`profile_facade/planner/experiment_plan_director.hpp:1247`), while the lock
  (`bestandslog_lock.hpp:87`) and the ids (`planer_block_value.hpp:24`) assume an owner
  per process: every process of the models has its own.
* A submit after close would queue a batch for a writer that has ended; the model
  keeps to the documented order (`Bauend`).
* A ring of capacity 1 is accepted (`axis_q1_queuing_lockfree_mpmc.hpp:289`), but
  there a filled cell and a free one of the next round have the same sequence number,
  so that a second put overwrites the first; the run asks for capacities from 2, and
  the theorems on the ring have it as their hypothesis `RingOK`.
* put drops, and get finds nothing, also when the ring is neither full nor empty but
  another call is inside the cell (`:158`, `:190`): in `BoundedFifo` a call may fail
  without a step.
* A sidecar that cannot be opened (`build_orchestrator.hpp:563`), or a process that
  dies between binary and sidecar, leaves the old sidecar beside the new binary. If
  its identity comes back, it is skipped (`:326` excludes it in a comment): `gestoert`
  in `SkipIstAktuell`.
* A binary uploaded by a run that dies before its flush is never registered: the
  following run skips it (`cache_engine_builder_iterator.hpp:2575`). This costs a
  rebuild elsewhere, and contradicts no property.
* A second call of close returns at once while the first still joins
  (`async_push_pump.hpp:69`): `CloseBarrier` speaks of the closing call only.
* `synchronize` inside an own read section waits for itself (`rcu.hpp:174` warns of
  it); writers in the model are not readers.

## Not modelled

* The text of plan file and phase counter: stamps, rows and saturating sums are
  conversions that one thread reads and writes; `BauLauf` has the counter whose stamp
  fits. The earlier planner of the same shape (`BatchPlanner`, `SliceQueue`) runs in unit
  tests only.
* Measurement registration: it repeats `LagerRunState` (load, observe, one flush) over a
  document of its own, through the write cycle that `Bestandslog` models; the key of an
  entry carries the cell, on which no decision of the cycle depends. So does the half
  of the phase counter that the measuring mode owns, which a provisioning run writes
  back as it found it.
* The object verbs over `mc`: calls of an external program through scratch files. Their
  outcomes (success, failure, failure after the effect) are inputs of the models.
* The estimator of the ETA: a floating point median; `Reservierung` takes any value.
* Flush strategies and the other queue organs: decisions from a fill level and a clock
  by one thread, containers used by one thread, and a ring with one actor a side,
  which is the index arithmetic of `MpmcRing`.
* The peeks and statistics counters of the ring, its 64 bit wrap (it takes 2^63
  operations), and the life time of an RCU domain with its thread-local cache.
* The XML text of the documents, the grammar of storage paths, progress messages and
  statistics: formats on which no decision of another actor rests, apart from
  "readable or not", which is modelled.
* Sequential data structures (the organ axes), composition templates, numeric
  evaluation, module loading, profiles, command lines, vendored code: no interleaving,
  no persistence; their correctness is functional and tested against references.
* By far the largest part of the repository is third-party code (allocators,
  spreadsheet and compression libraries, published search structures) and the sequential
  templates above; the share of its lines that the modules stand for is small for that
  reason.
* Weak memory beyond x86 store buffers.
* A fingerprint sidecar cut inside its second line: it is accepted only by equality of
  the first, like a whole one, so `BauPool` does not tell it apart from one cut before.

## Plan

Written, in this order: `BestandMerge`, `UnionStore`, `Bestandslog` with its proofs,
`RegistrierungsSidecar`, `BauLauf`, `Rcu` with its proofs, `AsyncPushPump`,
`SpoolWriter`, `BoundedFifo`, `MpmcRing`, `BauPool`; then `Reservierung` with its
proofs, the planner thread in `BauLauf`, the refinement of `UnionStore` as a property of
the run with all faults, and the proofs of `RegistrierungsSidecar`, `BauLauf`,
`AsyncPushPump` and `SpoolWriter`; then those of `MpmcRing` and `BauPool` and the rest of
`SpoolWriter`.

What would add most from here:

1. `BauLauf` with runs whose selection or grain differs, once the stamp of the counter is
   modelled; the resume point is then one of another plan.
2. The peeks of the ring, as reads that may see a value being written.
