---------------------------- MODULE Bestandslog ----------------------------
(***************************************************************************)
(* The locked write cycle of the Bestandslog, the inventory document that  *)
(* several build machines keep in one object store (bestandslog_lock.hpp,  *)
(* with_document_lock_retry of builder_registration.hpp).                  *)
(*                                                                         *)
(* The object store offers fetch, store and remove of one object and no    *)
(* compare-and-swap, so every one of these calls is a step of its own and  *)
(* the machines interleave between any two of them.  One write cycle is    *)
(*   lockFetch [lockBreak] lockStore lockVerify guard                      *)
(*   docFetch docStore relFetch relRemove                                  *)
(* A machine may crash at every step and come back later.  The machines    *)
(* need not run the same version of the program: a newer one writes        *)
(* documents in a syntax that an older one does not accept.                *)
(*                                                                         *)
(* Time.  Only differences of clock readings matter to the code.  A lock   *)
(* is therefore kept with its age, and a cycle with the time since its     *)
(* acquired_at; Tick advances both.  MaxCycle is the longest time a cycle  *)
(* lasts (every mc call runs under a wall clock cap); the age of a lock    *)
(* stops at MaxAge, beyond which nobody can tell two ages apart.           *)
(***************************************************************************)
EXTENDS BestandMerge

CONSTANTS
  Machines,   \* the lock owners (owner_uuid): one process per build machine
  Neuere,     \* those whose program has a higher kSyntaxVersion
  NoOwner,    \* what stands for "no owner token" in an absent lock
  Jobs,       \* the local documents a writer may bring
  Ttl,        \* ttl_s of a lock
  Budget,     \* section_budget_s of a cycle
  MaxCycle,   \* bound: no cycle lasts longer than this
  MaxRev,     \* bound: no cycle starts once the document has this revision
  Faults      \* the store verbs that may fail: "fetch", "store", "remove"

(***************************************************************************)
(* The objects in the store                                                *)
(***************************************************************************)
MaxAge == Ttl + MaxCycle + 1

LockRecord == [owner : Machines \cup {NoOwner}, age : 0..MaxAge]

\* No lock object, or one that parse_lock rejects: the code treats both alike.
NoLock == [owner |-> NoOwner, age |-> 0]

\* A present document is in the syntax of the older machines ("lesbar"), in the
\* newer one ("neu"), or does not parse at all ("fremd").
Kinds    == {"fehlt", "fremd", "neu", "lesbar"}
Dokument == [kind : Kinds, rev : Nat, inhalt : Content]
Missing  == [kind |-> "fehlt", rev |-> 0, inhalt |-> LeererInhalt]
Foreign  == [kind |-> "fremd", rev |-> 0, inhalt |-> LeererInhalt]

ASSUME ConstantsOK ==
  /\ NoOwner \notin Machines /\ Neuere \subseteq Machines
  /\ Ttl \in Nat /\ Budget \in Nat /\ MaxCycle \in Nat
  /\ MaxRev \in Nat
  /\ Jobs \subseteq Content
  /\ Faults \subseteq {"fetch", "store", "remove"}

VARIABLES
  lock,     \* the lock object <doc>.lock
  doc,      \* the document object
  pc,       \* per machine: the next step of its cycle
  elapsed,  \* per machine: time since acquired_at of the running cycle
  tries,    \* per machine: cycles of the running write that failed (0 or 1)
  job,      \* per machine: the local document of the running write
  base,     \* per machine: the document it fetched inside the section
  out,      \* per machine: the LockOutcome of the cycle being released
  acked,    \* history: the local documents whose write was reported as ok
  raced,    \* history: a machine lost its lock inside its section
  misread   \* history: a fetch of the present document came back empty

objects == <<lock, doc>>
cycle   == <<pc, elapsed, tries, job, base, out>>
history == <<acked, raced, misread>>
vars    == <<lock, doc, pc, elapsed, tries, job, base, out,
             acked, raced, misread>>

Outcomes == {"ok", "lock_unavailable", "deadline_exceeded", "work_failed"}
Steps == {"lockFetch", "lockBreak", "lockStore", "lockVerify", "guard",
          "docFetch", "docStore", "relFetch", "relRemove"}

\* The type invariant.
TypeOK ==
  /\ lock \in LockRecord
  /\ doc \in Dokument
  /\ pc \in [Machines -> Steps \cup {"idle", "down"}]
  /\ elapsed \in [Machines -> 0..MaxCycle]
  /\ tries \in [Machines -> {0, 1}]
  /\ job \in [Machines -> Content]
  /\ base \in [Machines -> Dokument]
  /\ out \in [Machines -> Outcomes]
  /\ acked \subseteq Content
  /\ raced \in BOOLEAN
  /\ misread \in BOOLEAN

Init ==
  /\ lock = NoLock
  /\ doc \in {Missing, Foreign}
  /\ pc = [m \in Machines |-> "idle"]
  /\ elapsed = [m \in Machines |-> 0]
  /\ tries = [m \in Machines |-> 0]
  /\ job = [m \in Machines |-> LeererInhalt]
  /\ base = [m \in Machines |-> Missing]
  /\ out = [m \in Machines |-> "ok"]
  /\ acked = {}
  /\ raced = FALSE
  /\ misread = FALSE

-----------------------------------------------------------------------------
(***************************************************************************)
(* Helpers of the steps                                                    *)
(***************************************************************************)
Active(m)    == pc[m] \in Steps
InSection(m) == pc[m] \in {"guard", "docFetch", "docStore"}

Goto(m, step) == pc' = [pc EXCEPT ![m] = step]

\* kSyntaxVersion of m, and the documents that parse and that
\* document_syntax_supported accepts there: those of the same or a lower syntax.
Syntax(m) == IF m \in Neuere THEN "neu" ELSE "lesbar"
Lesbar(m) == {"lesbar", Syntax(m)}

\* What a fetch returns: the object, or nullopt when the call itself fails.
Fetched(object, none) ==
  {object} \cup (IF "fetch" \in Faults THEN {none} ELSE {})

\* The lock is about to be taken from a machine that relies on it.
Robs(m) == /\ lock.owner \in Machines \ {m}
           /\ InSection(lock.owner)

\* Variant: a lock counts as stale when its age reaches the ttl.
lock_is_stale_early(record, m) == record.age >= Ttl + elapsed[m]

lock_is_stale(record, m) == record.age > Ttl + elapsed[m]

\* The lock record m writes: its ts is acquired_at.
Mine(m) == [owner |-> m, age |-> elapsed[m]]

\* The locals of m go out of scope and it reaches step.
Leave(m, step) ==
  /\ Goto(m, step)
  /\ base' = [base EXCEPT ![m] = Missing]
  /\ elapsed' = [elapsed EXCEPT ![m] = 0]
  /\ out' = [out EXCEPT ![m] = "ok"]

\* Variant: the retry is not counted, the cycle starts over after every collision.
CycleReturns_retry(m, outcome) ==
  IF outcome \in {"lock_unavailable", "deadline_exceeded"}
  THEN /\ Leave(m, "lockFetch")
       /\ tries' = [tries EXCEPT ![m] = @ + 1]
       /\ UNCHANGED <<job, acked>>
  ELSE /\ Leave(m, "idle")
       /\ tries' = [tries EXCEPT ![m] = 0]
       /\ job' = [job EXCEPT ![m] = LeererInhalt]
       /\ acked' = IF outcome = "ok" THEN acked \cup {job[m]} ELSE acked

\* The cycle of m returns outcome: with_document_lock_retry runs the whole
\* cycle once more after a collision or an exhausted budget.
CycleReturns(m, outcome) ==
  IF outcome \in {"lock_unavailable", "deadline_exceeded"} /\ tries[m] = 0
  THEN /\ Leave(m, "lockFetch")
       /\ tries' = [tries EXCEPT ![m] = 1]
       /\ UNCHANGED <<job, acked>>
  ELSE /\ Leave(m, "idle")
       /\ tries' = [tries EXCEPT ![m] = 0]
       /\ job' = [job EXCEPT ![m] = LeererInhalt]
       /\ acked' = IF outcome = "ok" THEN acked \cup {job[m]} ELSE acked

-----------------------------------------------------------------------------
(***************************************************************************)
(* The write cycle                                                         *)
(***************************************************************************)

\* A writer starts with its local document; acquired_at is read now.
Begin(m) ==
  /\ pc[m] = "idle"
  /\ doc.rev < MaxRev
  /\ \E j \in Jobs : job' = [job EXCEPT ![m] = j]
  /\ Goto(m, "lockFetch")
  /\ UNCHANGED <<lock, doc, elapsed, tries, base, out, history>>

\* Variant: a foreign lock is never broken, however old.
LockFetch_neverBreak(m) ==
  /\ pc[m] = "lockFetch"
  /\ \E r \in Fetched(lock, NoLock) :
       \/ /\ r.owner \in Machines \ {m}
          /\ CycleReturns(m, "lock_unavailable")
       \/ /\ r.owner \in {m, NoOwner}
          /\ Goto(m, "lockStore")
          /\ UNCHANGED <<elapsed, tries, job, base, out, acked>>
  /\ UNCHANGED <<lock, doc, raced, misread>>

\* try_acquire_lock reads the lock: a fresh foreign lock ends the cycle, a
\* stale one is broken, any other is overwritten.
LockFetch(m) ==
  /\ pc[m] = "lockFetch"
  /\ \E r \in Fetched(lock, NoLock) :
       \/ /\ r.owner \in Machines \ {m}
          /\ ~lock_is_stale(r, m)
          /\ CycleReturns(m, "lock_unavailable")
       \/ /\ r.owner \in Machines \ {m}
          /\ lock_is_stale(r, m)
          /\ Goto(m, "lockBreak")
          /\ UNCHANGED <<elapsed, tries, job, base, out, acked>>
       \/ /\ r.owner \in {m, NoOwner}
          /\ Goto(m, "lockStore")
          /\ UNCHANGED <<elapsed, tries, job, base, out, acked>>
  /\ UNCHANGED <<lock, doc, raced, misread>>

\* The stale lock is removed: whatever lies under the key by then goes.
\* The result of remove is not looked at.
LockBreak(m) ==
  /\ pc[m] = "lockBreak"
  /\ \/ /\ lock' = NoLock
        /\ raced' = (raced \/ Robs(m))
     \/ /\ "remove" \in Faults
        /\ UNCHANGED <<lock, raced>>
  /\ Goto(m, "lockStore")
  /\ UNCHANGED <<doc, elapsed, tries, job, base, out, acked, misread>>

\* The own token is written over whatever lies there.  A failed store may
\* have reached the object store nevertheless.
LockStore(m) ==
  /\ pc[m] = "lockStore"
  /\ \/ /\ lock' = Mine(m)
        /\ raced' = (raced \/ Robs(m))
        /\ Goto(m, "lockVerify")
        /\ UNCHANGED <<elapsed, tries, job, base, out, acked>>
     \/ /\ "store" \in Faults
        /\ \/ lock' = Mine(m) /\ raced' = (raced \/ Robs(m))
           \/ UNCHANGED <<lock, raced>>
        /\ CycleReturns(m, "lock_unavailable")
  /\ UNCHANGED <<doc, misread>>

\* Variant: any lock object counts as the confirmation of the own store.
LockVerify_anyToken(m) ==
  /\ pc[m] = "lockVerify"
  /\ \E r \in Fetched(lock, NoLock) :
       \/ /\ r.owner # NoOwner
          /\ Goto(m, "guard")
          /\ UNCHANGED <<elapsed, tries, job, base, out, acked>>
       \/ /\ r.owner = NoOwner
          /\ CycleReturns(m, "lock_unavailable")
  /\ UNCHANGED <<lock, doc, raced, misread>>

\* Second fetch: only the own token counts.  A lost race leaves without
\* touching the lock.
LockVerify(m) ==
  /\ pc[m] = "lockVerify"
  /\ \E r \in Fetched(lock, NoLock) :
       \/ /\ r.owner = m
          /\ Goto(m, "guard")
          /\ UNCHANGED <<elapsed, tries, job, base, out, acked>>
       \/ /\ r.owner # m
          /\ CycleReturns(m, "lock_unavailable")
  /\ UNCHANGED <<lock, doc, raced, misread>>

\* The deadline guard: a budget spent on the acquisition means no write.
Guard(m) ==
  /\ pc[m] = "guard"
  /\ \/ /\ elapsed[m] > Budget
        /\ out' = [out EXCEPT ![m] = "deadline_exceeded"]
        /\ Goto(m, "relFetch")
     \/ /\ elapsed[m] <= Budget
        /\ Goto(m, "docFetch")
        /\ UNCHANGED out
  /\ UNCHANGED <<objects, elapsed, tries, job, base, history>>

\* store_document_merged reads the document and refuses one that is present
\* and not readable.
DocFetch(m) ==
  /\ pc[m] = "docFetch"
  /\ \E d \in Fetched(doc, Missing) :
       /\ misread' = (misread \/ d # doc)
       /\ \/ /\ d.kind \notin Lesbar(m) \cup {"fehlt"}
             /\ out' = [out EXCEPT ![m] = "work_failed"]
             /\ Goto(m, "relFetch")
             /\ UNCHANGED base
          \/ /\ d.kind \in Lesbar(m) \cup {"fehlt"}
             /\ base' = [base EXCEPT ![m] = d]
             /\ Goto(m, "docStore")
             /\ UNCHANGED out
  /\ UNCHANGED <<objects, elapsed, tries, job, acked, raced>>

\* Variant: the local document replaces the one in the store.
Merged_blind(m) == [kind   |-> Syntax(m),
                    rev    |-> base[m].rev + 1,
                    inhalt |-> job[m]]

\* The document m writes: the union of what it read and what it brings, in the
\* higher syntax of the two, which is the writer's.  A missing document counts
\* as an empty one of revision 0.
Merged(m) == [kind   |-> Syntax(m),
              rev    |-> base[m].rev + 1,
              inhalt |-> merge_documents(base[m].inhalt, job[m])]

\* Variant: a failed store is reported as work done.
DocStore_swallow(m) ==
  /\ pc[m] = "docStore"
  /\ doc' \in {doc, Merged(m)}
  /\ out' = [out EXCEPT ![m] = "ok"]
  /\ Goto(m, "relFetch")
  /\ UNCHANGED <<lock, elapsed, tries, job, base, history>>

DocStore(m) ==
  /\ pc[m] = "docStore"
  /\ \/ /\ doc' = Merged(m)
        /\ out' = [out EXCEPT ![m] = "ok"]
     \/ /\ "store" \in Faults
        /\ \/ doc' = Merged(m)
           \/ UNCHANGED doc
        /\ out' = [out EXCEPT ![m] = "work_failed"]
  /\ Goto(m, "relFetch")
  /\ UNCHANGED <<lock, elapsed, tries, job, base, history>>

\* release_lock: look first, remove afterwards, in two calls.
RelFetch(m) ==
  /\ pc[m] = "relFetch"
  /\ \E r \in Fetched(lock, NoLock) :
       \/ /\ r.owner = m
          /\ Goto(m, "relRemove")
          /\ UNCHANGED <<elapsed, tries, job, base, out, acked>>
       \/ /\ r.owner # m
          /\ CycleReturns(m, out[m])
  /\ UNCHANGED <<lock, doc, raced, misread>>

RelRemove(m) ==
  /\ pc[m] = "relRemove"
  /\ \/ /\ lock' = NoLock
        /\ raced' = (raced \/ Robs(m))
     \/ /\ "remove" \in Faults
        /\ UNCHANGED <<lock, raced>>
  /\ CycleReturns(m, out[m])
  /\ UNCHANGED <<doc, misread>>

-----------------------------------------------------------------------------
(***************************************************************************)
(* The environment                                                         *)
(***************************************************************************)

\* The process of m dies inside a cycle; the store keeps what it wrote.
Crash(m) ==
  /\ Active(m)
  /\ Leave(m, "down")
  /\ tries' = [tries EXCEPT ![m] = 0]
  /\ job' = [job EXCEPT ![m] = LeererInhalt]
  /\ UNCHANGED <<objects, history>>

\* It is started again with the owner token of its configuration.
Restart(m) ==
  /\ pc[m] = "down"
  /\ Goto(m, "idle")
  /\ UNCHANGED <<objects, elapsed, tries, job, base, out, history>>

Tick ==
  /\ \A m \in Machines : Active(m) => elapsed[m] < MaxCycle
  /\ lock' = IF lock.owner = NoOwner \/ lock.age = MaxAge
             THEN lock ELSE [lock EXCEPT !.age = @ + 1]
  /\ elapsed' = [m \in Machines |->
                   IF Active(m) THEN elapsed[m] + 1 ELSE elapsed[m]]
  /\ UNCHANGED <<doc, pc, tries, job, base, out, history>>

Cycle(m) ==
  \/ LockFetch(m) \/ LockBreak(m) \/ LockStore(m) \/ LockVerify(m)
  \/ Guard(m) \/ DocFetch(m) \/ DocStore(m) \/ RelFetch(m) \/ RelRemove(m)

Next == \/ \E m \in Machines : Begin(m) \/ Cycle(m) \/ Crash(m) \/ Restart(m)
        \/ Tick

Spec == Init /\ [][Next]_vars

-----------------------------------------------------------------------------
(***************************************************************************)
(* Properties                                                              *)
(***************************************************************************)

\* While no machine lost its lock inside its section, at most one machine is
\* between the verification of its token and the end of its document store:
\* the second fetch of try_acquire_lock closes the window it claims to close.
SectionExclusive ==
  ~raced => \A m, n \in Machines : InSection(m) /\ InSection(n) => m = n

\* Every write reported as ok (LockOutcome::ok; flush erases the entries from
\* its own list on that word) is still in the document, however many machines
\* wrote, crashed or retried since.  The premises name the two events that
\* void the promise: a lock lost inside a section, and a fetch of the present
\* document that came back empty.
AckedRecordsSurvive ==
  ~raced /\ ~misread => \A j \in acked : Contained(j, doc.inhalt)

\* Under the same premises the document only ever gains records and progress:
\* no step takes an entry out, puts a reservation back (done to released,
\* released to offen), or lowers doc_revision.
Growing == ~raced' /\ ~misread' => /\ Contained(doc.inhalt, doc'.inhalt)
                                   /\ doc' # doc => doc'.rev > doc.rev

DocumentOnlyGrows == [][Growing]_vars

\* Full wipe guard (bestandslog_lock.hpp:492): a document that does not parse is
\* never replaced, and one in the newer syntax never by an older machine, which
\* would lose what it cannot read.  The guard judges the copy that was fetched;
\* the document must not become a newer one between that and the store.
WacheHaelt ==
  ~raced' /\ ~misread' => /\ doc.kind = "fremd" => doc' = doc
                          /\ doc.kind = "neu"   => doc'.kind = "neu"

ForeignDocumentUntouched == [][WacheHaelt]_vars

\* A lock that some running cycle would judge stale never belongs to a machine
\* inside its section, provided a cycle cannot outlast the ttl (what
\* with_object_budget is for).
StaleLockIsAbandoned ==
  MaxCycle <= Ttl =>
    \A m, n \in Machines :
      Active(m) /\ n # m /\ lock.owner = n /\ lock_is_stale(lock, m)
        => ~InSection(n)

\* "eine tote Maschine sperrt nie dauerhaft": a machine that is left alone by
\* crashed ones, whatever locks these left behind, gets all its writes in,
\* unless the document is one it does not read.
OnlyLive(m) == pc[m] # "down" /\ \A n \in Machines \ {m} : pc[n] = "down"

DeadMachineNeverBlocks ==
  \A m \in Machines : <>[]OnlyLive(m) =>
    <>(doc.rev >= MaxRev \/ doc.kind \notin Lesbar(m) \cup {"fehlt"})

\* Fairness: a live process runs its cycle and starts the next write; clocks
\* advance.  Nothing makes a crashed machine come back.
FairSpec == /\ Spec
            /\ WF_vars(Tick)
            /\ \A m \in Machines : WF_vars(Begin(m)) /\ WF_vars(Cycle(m))

-----------------------------------------------------------------------------
(***************************************************************************)
(* Refinement: the machines together are the atomic union store, under the *)
(* premises of AckedRecordsSurvive.                                        *)
(***************************************************************************)
Abstract == INSTANCE UnionStore WITH inhalt <- doc.inhalt, acked <- acked

\* Every step of the verb by verb cycle is one atomic union, one report of a
\* write that has taken effect, or invisible to the readers of the document,
\* as long as no lock was lost inside a section and no fetch of the present
\* document came back empty.
ImplementsUnionStore ==
  /\ Abstract!Init
  /\ [][~raced' /\ ~misread' => [Abstract!Next]_<<doc.inhalt, acked>>]_vars

-----------------------------------------------------------------------------
(***************************************************************************)
(* What a comment of the code claims and the code does not keep            *)
(***************************************************************************)

\* "NIE blinde Ersetzung" (bestandslog_lock.hpp:490): the promise without the
\* premise on the fetch.
NeverBlindReplace == [][~raced' => Contained(doc.inhalt, doc'.inhalt)]_vars
=============================================================================
