------------------------------- MODULE RwLock -------------------------------
(***************************************************************************)
(* The reader/writer spin lock of skynet-src/rwlock.h.  It guards the      *)
(* handle storage (skynet_handle.c): every lookup of a service is a read   *)
(* section and every register, retire and naming is a write section.       *)
(*                                                                         *)
(* The lock is two plain integers.  A reader announces itself in `read`    *)
(* and then looks at `write` again; a writer takes `write` with an atomic  *)
(* test-and-set and then waits until `read` drops to zero.  Every access   *)
(* to one of the two words is one step.                                    *)
(***************************************************************************)
EXTENDS Integers, FiniteSets

CONSTANT Threads    \* the threads that use the lock

ASSUME ThreadsAssumption == IsFiniteSet(Threads)

VARIABLES
    write,  \* lock->write
    read,   \* lock->read
    pc      \* what each thread does next

lockVars == <<write, read, pc>>

(***************************************************************************)
(* Program counters.  A reader goes                                        *)
(*   idle -> spin -> announce -> recheck -> reading -> idle                *)
(* with a detour recheck -> backoff -> spin when a writer was faster; a    *)
(* writer goes idle -> claim -> drain -> writing -> idle.                  *)
(***************************************************************************)
ReaderPCs == {"spin", "announce", "recheck", "backoff", "reading"}
WriterPCs == {"claim", "drain", "writing"}
PCs == {"idle"} \cup ReaderPCs \cup WriterPCs

Goto(t, from, to) ==
    /\ pc[t] = from
    /\ pc' = [pc EXCEPT ![t] = to]

LockInit ==
    /\ write = 0
    /\ read = 0
    /\ pc = [t \in Threads |-> "idle"]

\* rwlock_rlock is entered
StartRead(t) ==
    /\ Goto(t, "idle", "spin")
    /\ UNCHANGED <<write, read>>

\* Faulty form: the reader does not wait for the write flag to clear.
ReadSpin_Barges(t) ==
    /\ Goto(t, "spin", "announce")
    /\ UNCHANGED <<write, read>>

\* while (lock->write) {}
ReadSpin(t) ==
    /\ write = 0
    /\ Goto(t, "spin", "announce")
    /\ UNCHANGED <<write, read>>

\* __sync_add_and_fetch(&lock->read, 1)
ReadAnnounce(t) ==
    /\ Goto(t, "announce", "recheck")
    /\ read' = read + 1
    /\ UNCHANGED write

\* if (lock->write) back off, else the read lock is held
ReadRecheck(t) ==
    /\ Goto(t, "recheck", IF write = 0 THEN "reading" ELSE "backoff")
    /\ UNCHANGED <<write, read>>

\* __sync_sub_and_fetch(&lock->read, 1) and start over
ReadBackoff(t) ==
    /\ Goto(t, "backoff", "spin")
    /\ read' = read - 1
    /\ UNCHANGED write

\* rwlock_runlock
RUnlock(t) ==
    /\ Goto(t, "reading", "idle")
    /\ read' = read - 1
    /\ UNCHANGED write

\* rwlock_wlock is entered
StartWrite(t) ==
    /\ Goto(t, "idle", "claim")
    /\ UNCHANGED <<write, read>>

\* while (__sync_lock_test_and_set(&lock->write, 1)) {} : the iteration that
\* finds the flag clear; the others write 1 over 1
WriteClaim(t) ==
    /\ write = 0
    /\ Goto(t, "claim", "drain")
    /\ write' = 1
    /\ UNCHANGED read

\* Faulty form: the writer does not wait for the announced readers.
WriteDrain_NoWait(t) ==
    /\ Goto(t, "drain", "writing")
    /\ UNCHANGED <<write, read>>

\* while (lock->read) {}
WriteDrain(t) ==
    /\ read = 0
    /\ Goto(t, "drain", "writing")
    /\ UNCHANGED <<write, read>>

\* rwlock_wunlock
WUnlock(t) ==
    /\ Goto(t, "writing", "idle")
    /\ write' = 0
    /\ UNCHANGED read

Reader(t) ==
    \/ ReadSpin(t)
    \/ ReadAnnounce(t)
    \/ ReadRecheck(t)
    \/ ReadBackoff(t)
    \/ RUnlock(t)

Writer(t) ==
    \/ WriteClaim(t)
    \/ WriteDrain(t)
    \/ WUnlock(t)

LockNext == \E t \in Threads : StartRead(t) \/ Reader(t) \/ StartWrite(t) \/ Writer(t)

\* A thread that is inside the lock code or a critical section keeps running
\* (they contain no blocking call); whether it ever asks for the lock is up
\* to its caller.
Fairness == \A t \in Threads : WF_lockVars(Reader(t)) /\ WF_lockVars(Writer(t))

LockSpec == LockInit /\ [][LockNext]_lockVars

FairSpec == LockSpec /\ Fairness

-----------------------------------------------------------------------------
(* Properties *)

LockTypeOK ==
    /\ write \in {0, 1}
    /\ read \in Nat
    /\ pc \in [Threads -> PCs]

\* A write section of the handle storage excludes every other section: two
\* threads never hold the write lock together, and no thread reads the slot
\* or name arrays while another rewrites them.
Exclusion ==
    \A t, u \in Threads :
        t # u /\ pc[t] = "writing" => pc[u] \notin {"writing", "reading"}

\* A writer that has claimed the write flag gets the lock: readers that come
\* later spin on the flag and those that raced with it back off, so a stream
\* of lookups cannot starve a register or a retire.
WriterProgress ==
    \A t \in Threads : pc[t] = "drain" ~> pc[t] = "writing"

-----------------------------------------------------------------------------
(* The inductive invariant behind Exclusion *)

Announced == {t \in Threads : pc[t] \in {"recheck", "backoff", "reading"}}
Claimed == {t \in Threads : pc[t] \in {"drain", "writing"}}

\* `read` counts the announced readers
ReadCounts == read = Cardinality(Announced)

\* `write` is set exactly while one thread has claimed it
OneClaim ==
    /\ \A t, u \in Claimed : t = u
    /\ write = 1 <=> Claimed # {}

\* the writer entered only after every announced reader had left, and no
\* reader announced since then can get past its second look at `write`
NoOldReader ==
    \A t, u \in Threads : pc[t] = "writing" => pc[u] # "reading"

LockInv ==
    /\ LockTypeOK
    /\ ReadCounts
    /\ OneClaim
    /\ NoOldReader

=============================================================================
