-------------------------- MODULE WorkerPoolProofs --------------------------
(***************************************************************************)
(* Proof that a node's count of sleeping workers is exact and that its     *)
(* shutdown broadcast leaves nobody waiting (PoolInv), for every number of *)
(* workers, services, messages and spurious wakeups.                       *)
(*                                                                         *)
(* PoolInv is not inductive: that a worker which has tested m->quit is not *)
(* overtaken by the broadcast rests on who owns m->mutex.  MutexOwned says *)
(* that the owner is the worker between its lock and its wait or unlock,   *)
(* or the timer thread that is about to set quit, so that no worker is     *)
(* between the test and the wait when quit is set.  TotalHeld says that    *)
(* every hung callback keeps its service alive, so that the exits that     *)
(* other callbacks do never take the count of services below zero.         *)
(***************************************************************************)
EXTENDS WorkerPool, FiniteSetTheorems, TLAPS

\* pthread_mutex: its owner is the one thread in a critical section.
MutexOwned ==
    /\ \A w \in Workers : mutex = w <=> pc[w] \in {"locked", "awake"}
    /\ mutex = "timer" <=> timer = "quit"

\* A service whose callback never returns does not end.
TotalHeld == Cardinality(Stuck) <= total

\* m->quit is set once the last service is gone, and only then.
QuitLast ==
    /\ quit <=> timer = "done"
    /\ timer \in {"exit", "lock", "quit", "done"} => total = 0

\* The inductive invariant.
PoolIInv == PoolInv /\ MutexOwned /\ TotalHeld /\ QuitLast

-----------------------------------------------------------------------------
(* The sets of workers that are counted *)

\* Sleepers and hung workers are finitely many.
LEMMA CountedFinite ==
    /\ IsFiniteSet(Sleepers) /\ Cardinality(Sleepers) \in Nat
    /\ IsFiniteSet(Stuck) /\ Cardinality(Stuck) \in Nat
    /\ IsFiniteSet(Workers) /\ Count \in Nat /\ Cardinality(Sleepers) <= Count
<1>1. Sleepers \subseteq Workers /\ Stuck \subseteq Workers
    BY DEF Sleepers, Stuck
<1>2. IsFiniteSet(Workers)
    BY PoolAssumption
<1>3. IsFiniteSet(Sleepers) /\ IsFiniteSet(Stuck) /\ Cardinality(Sleepers) <= Cardinality(Workers)
    BY <1>1, <1>2, FS_Subset
<1> QED BY <1>2, <1>3, FS_CardinalityType DEF Count
\* One more worker is counted as a sleeper.
LEMMA SleepUp ==
    ASSUME SleepCounts, NEW w \in Workers, w \notin Sleepers,
           Sleepers' = Sleepers \cup {w}, sleep' = sleep + 1
    PROVE  SleepCounts' /\ sleep' \in 0..Count
<1>1. Cardinality(Sleepers \cup {w}) = Cardinality(Sleepers) + 1
    BY CountedFinite, FS_AddElement
<1>2. Sleepers \cup {w} \subseteq Workers
    BY DEF Sleepers
<1>3. Cardinality(Sleepers \cup {w}) <= Count
    BY <1>2, CountedFinite, FS_Subset DEF Count
<1> QED BY <1>1, <1>3, CountedFinite DEF SleepCounts

\* One sleeper leaves; the count was therefore positive.
LEMMA SleepDown ==
    ASSUME SleepCounts, NEW w \in Workers, w \in Sleepers,
           Sleepers' = Sleepers \ {w}, sleep' = sleep - 1
    PROVE  SleepCounts' /\ sleep' \in 0..Count
<1>1. Cardinality(Sleepers \ {w}) = Cardinality(Sleepers) - 1 /\ IsFiniteSet(Sleepers \ {w})
    BY CountedFinite, FS_RemoveElement
<1>2. Cardinality(Sleepers \ {w}) \in Nat
    BY <1>1, FS_CardinalityType
<1> QED BY <1>1, <1>2, CountedFinite DEF SleepCounts

\* A step that does not change who sleeps and not m->sleep.
LEMMA SleepKept ==
    ASSUME SleepCounts, sleep \in 0..Count, Sleepers' = Sleepers, sleep' = sleep
    PROVE  SleepCounts' /\ sleep' \in 0..Count
BY DEF SleepCounts

\* One callback hangs while there are more services than hung callbacks.
LEMMA StuckUp ==
    ASSUME TypeOK, NEW w \in Workers, w \notin Stuck, Stuck' = Stuck \cup {w},
           total > Cardinality(Stuck), total' = total
    PROVE  TotalHeld'
<1>1. Cardinality(Stuck \cup {w}) = Cardinality(Stuck) + 1
    BY CountedFinite, FS_AddElement
<1> QED BY <1>1, CountedFinite, PoolAssumption DEF TotalHeld, TypeOK

-----------------------------------------------------------------------------
(* The parts of the invariant that each kind of step keeps *)

\* A worker that is signalled goes from its wait to the lock of the mutex; it
\* is a sleeper before and after.
LEMMA SignalKeeps ==
    ASSUME TypeOK, Signal
    PROVE  /\ pc' \in [Workers -> WorkerPCs]
           /\ Sleepers' = Sleepers /\ Stuck' = Stuck
           /\ \A w \in Workers : pc'[w] = pc[w] \/ (pc[w] = "wait" /\ pc'[w] = "woken")
<1>1. ASSUME NEW v \in Workers, pc[v] = "wait", Goto(v, "woken")
      PROVE  /\ pc' \in [Workers -> WorkerPCs]
             /\ \A w \in Workers : pc'[w] = IF w = v THEN "woken" ELSE pc[w]
    BY <1>1 DEF TypeOK, Goto, WorkerPCs
<1>2. ASSUME UNCHANGED pc
      PROVE  pc' \in [Workers -> WorkerPCs] /\ \A w \in Workers : pc'[w] = pc[w]
    BY <1>2 DEF TypeOK
<1>3. /\ pc' \in [Workers -> WorkerPCs]
      /\ \A w \in Workers : pc'[w] = pc[w] \/ (pc[w] = "wait" /\ pc'[w] = "woken")
    BY <1>1, <1>2 DEF Signal
<1> QED BY <1>3 DEF Sleepers, Stuck

\* A worker that moves between states outside the sleep, and is not hung, or
\* is woken: who sleeps, who is hung and who owns the mutex stay as they are.
LEMMA QuietStep ==
    ASSUME PoolIInv, UNCHANGED <<sleep, quit, mutex, timer>>, TypeOK',
           Cardinality(Stuck) <= total', total = 0 => total' = 0,
           \A w \in Workers :
               \/ pc'[w] = pc[w]
               \/ {pc[w], pc'[w]} \cap {"stuck", "locked", "wait", "woken", "awake"} = {}
               \/ pc[w] = "wait" /\ pc'[w] = "woken"
    PROVE  PoolIInv'
<1>1. \A w \in Workers :
          /\ pc'[w] = "stuck" <=> pc[w] = "stuck"
          /\ pc'[w] \in {"locked", "wait", "woken", "awake"} <=> pc[w] \in {"locked", "wait", "woken", "awake"}
          /\ pc'[w] \in {"locked", "awake"} <=> pc[w] \in {"locked", "awake"}
          /\ pc'[w] = "wait" => pc[w] = "wait"
    OBVIOUS
<1>2. Sleepers' = Sleepers /\ Stuck' = Stuck
    BY <1>1 DEF Sleepers, Stuck
<1>3. SleepCounts' /\ TotalHeld'
    BY <1>2 DEF PoolIInv, PoolInv, SleepCounts, TotalHeld
<1>4. NoSleeperAfterQuit' /\ MutexOwned' /\ QuitLast'
    BY <1>1 DEF PoolIInv, PoolInv, NoSleeperAfterQuit, MutexOwned, QuitLast
<1> QED BY <1>3, <1>4 DEF PoolIInv, PoolInv

-----------------------------------------------------------------------------
(* The theorem *)

\* Nobody sleeps, hangs or owns the mutex at first.
LEMMA InitPool == Init => PoolIInv
<1> SUFFICES ASSUME Init PROVE PoolIInv
    OBVIOUS
<1>1. Sleepers = {} /\ Stuck = {}
    BY DEF Init, Sleepers, Stuck
<1>2. Cardinality({}) = 0
    BY FS_EmptySet
<1>3. TypeOK
    <2>1. Count \in Nat /\ NServices \in Nat /\ MaxWork \in Nat /\ MaxPush \in Nat /\ MaxSpurious \in Nat
        BY CountedFinite, PoolAssumption
    <2>2. pc \in [Workers -> WorkerPCs] /\ hold \in [Workers -> BOOLEAN]
        BY DEF Init, WorkerPCs
    <2>3. /\ work \in 0..(MaxWork + NServices) /\ total \in 0..NServices /\ sleep \in 0..Count
          /\ pushed \in 0..MaxPush /\ spurious \in 0..MaxSpurious
        BY <2>1 DEF Init
    <2> QED BY <2>2, <2>3 DEF Init, TypeOK
<1>4. SleepCounts /\ TotalHeld
    BY <1>1, <1>2, PoolAssumption DEF Init, SleepCounts, TotalHeld
<1>5. NoSleeperAfterQuit /\ MutexOwned /\ QuitLast
    BY PoolAssumption DEF Init, NoSleeperAfterQuit, MutexOwned, QuitLast
<1> QED BY <1>3, <1>4, <1>5 DEF PoolIInv, PoolInv

\* The steps of a worker outside its sleep.
LEMMA RunningSteps ==
    ASSUME PoolIInv, NEW w \in Workers,
           \/ Loop(w) \/ Dispatch(w) \/ Trigger(w) \/ Finish(w)
           \/ Post(w) \/ Again(w) \/ ExitService(w) \/ Spurious(w)
    PROVE  PoolIInv'
<1> USE DEF PoolIInv, PoolInv
<1>1. /\ UNCHANGED <<sleep, quit, mutex, timer>>
      /\ Cardinality(Stuck) <= total' /\ (total = 0 => total' = 0) /\ total' \in 0..NServices
    BY CountedFinite, PoolAssumption
       DEF TypeOK, TotalHeld, sync, others, Loop, Dispatch, Trigger, Finish, Post, Again, ExitService, Spurious
<1>2. /\ pc' \in [Workers -> WorkerPCs]
      /\ \A v \in Workers :
             \/ pc'[v] = pc[v]
             \/ {pc[v], pc'[v]} \cap {"stuck", "locked", "wait", "woken", "awake"} = {}
             \/ pc[v] = "wait" /\ pc'[v] = "woken"
    BY DEF TypeOK, WorkerPCs, Goto, Loop, Dispatch, Trigger, Finish, Post, Again, ExitService, Spurious
<1>3. work' \in 0..(MaxWork + NServices) /\ pushed' \in 0..MaxPush /\ spurious' \in 0..MaxSpurious
    BY PoolAssumption
       DEF TypeOK, queue, PushWork, Loop, Dispatch, Trigger, Finish, Post, Again, ExitService, Spurious
<1>4. hold' \in [Workers -> BOOLEAN] /\ moved' \subseteq Workers /\ endless' \in BOOLEAN
    BY DEF TypeOK, mon, Loop, Dispatch, Trigger, Finish, Post, Again, ExitService, Spurious
<1>5. UNCHANGED others
    BY DEF Loop, Dispatch, Trigger, Finish, Post, Again, ExitService, Spurious
<1>6. TypeOK'
    BY <1>1, <1>2, <1>3, <1>4, <1>5 DEF TypeOK, others
<1> QED BY <1>1, <1>2, <1>6, QuietStep

\* A callback that hangs.
LEMMA HangStep ==
    ASSUME PoolIInv, NEW w \in Workers, Hang(w)
    PROVE  PoolIInv'
<1> USE DEF PoolIInv, PoolInv
<1>1. Sleepers' = Sleepers /\ Stuck' = Stuck \cup {w} /\ w \notin Stuck
    BY DEF Hang, Goto, TypeOK, Sleepers, Stuck
<1>2. TotalHeld'
    BY <1>1, StuckUp DEF Hang
<1>3. SleepCounts'
    BY <1>1 DEF Hang, sync, SleepCounts
<1>4. TypeOK'
    BY DEF Hang, Goto, queue, sync, others, mon, TypeOK, WorkerPCs
<1>5. NoSleeperAfterQuit' /\ MutexOwned' /\ QuitLast'
    BY DEF Hang, Goto, sync, others, TypeOK, NoSleeperAfterQuit, MutexOwned, QuitLast
<1> QED BY <1>2, <1>3, <1>4, <1>5

\* The steps of a worker that goes to sleep, under the mutex.
LEMMA SleepingSteps ==
    ASSUME PoolIInv, NEW w \in Workers, Lock(w) \/ Wait(w) \/ Relock(w) \/ Unlock(w)
    PROVE  PoolIInv'
<1> USE DEF PoolIInv, PoolInv
<1>1. Stuck' = Stuck /\ UNCHANGED <<total, quit, timer>>
    BY DEF Lock, Wait, Relock, Unlock, Goto, sync, others, TypeOK, Stuck
<1>2. TotalHeld' /\ QuitLast'
    BY <1>1 DEF TotalHeld, QuitLast
<1>3. NoSleeperAfterQuit'
    BY <1>1 DEF Lock, Wait, Relock, Unlock, Goto, TypeOK, NoSleeperAfterQuit
<1>4. MutexOwned'
    BY <1>1, PoolAssumption DEF Lock, Wait, Relock, Unlock, Goto, TypeOK, MutexOwned
<1>5. SleepCounts' /\ sleep' \in 0..Count
    <2>1. CASE Lock(w)
        <3>1. w \notin Sleepers /\ Sleepers' = Sleepers \cup {w}
            BY <2>1 DEF Lock, Goto, TypeOK, Sleepers
        <3> QED BY <2>1, <3>1, SleepUp DEF Lock
    <2>2. CASE Wait(w) \/ Relock(w)
        <3>1. Sleepers' = Sleepers /\ sleep' = sleep
            BY <2>2 DEF Wait, Relock, Goto, TypeOK, Sleepers
        <3> QED BY <3>1, SleepKept DEF TypeOK
    <2>3. CASE Unlock(w)
        <3>1. w \in Sleepers /\ Sleepers' = Sleepers \ {w}
            BY <2>3 DEF Unlock, Goto, TypeOK, Sleepers
        <3> QED BY <2>3, <3>1, SleepDown DEF Unlock
    <2> QED BY <2>1, <2>2, <2>3
<1>6. TypeOK'
    BY <1>5 DEF Lock, Wait, Relock, Unlock, Goto, queue, others, mon, TypeOK, WorkerPCs
<1> QED BY <1>2, <1>3, <1>4, <1>5, <1>6

\* The broadcast: no worker is between its test of quit and its wait, since
\* the timer thread owns the mutex, and whoever waits is woken.
LEMMA QuitStep ==
    ASSUME PoolIInv, Quit
    PROVE  PoolIInv'
<1> USE DEF PoolIInv, PoolInv
<1>1. pc' \in [Workers -> WorkerPCs]
    BY DEF Quit, TypeOK, WorkerPCs
<1>2. \A w \in Workers : pc'[w] = IF pc[w] = "wait" THEN "woken" ELSE pc[w]
    BY DEF Quit
<1>3. \A w \in Workers : pc[w] \notin {"locked", "awake"}
    BY PoolAssumption DEF Quit, MutexOwned
<1>4. Sleepers' = Sleepers /\ Stuck' = Stuck
    BY <1>2 DEF Sleepers, Stuck
<1>5. SleepCounts' /\ TotalHeld'
    BY <1>4 DEF Quit, SleepCounts, TotalHeld
<1>6. NoSleeperAfterQuit'
    BY <1>2 DEF NoSleeperAfterQuit
<1>7. MutexOwned'
    BY <1>2, <1>3, PoolAssumption DEF Quit, MutexOwned
<1>8. QuitLast' /\ TypeOK'
    BY <1>1 DEF Quit, QuitLast, TypeOK, queue, mon
<1> QED BY <1>5, <1>6, <1>7, <1>8

\* The other steps of the timer thread, and those of the socket and the
\* monitor thread.
LEMMA ThreadSteps ==
    ASSUME PoolIInv,
           \/ Update \/ CheckAbort \/ Tick \/ SocketExit \/ TimerLock
           \/ Socket \/ Watch \/ \E w \in Workers : Check(w)
    PROVE  PoolIInv'
<1> USE DEF PoolIInv, PoolInv
<1>1. /\ pc' \in [Workers -> WorkerPCs] /\ Sleepers' = Sleepers /\ Stuck' = Stuck
      /\ \A w \in Workers : pc'[w] = pc[w] \/ (pc[w] = "wait" /\ pc'[w] = "woken")
    <2>1. CASE Tick \/ SocketWakeup
        <3>1. Signal \/ UNCHANGED pc
            BY <2>1 DEF Tick, SocketWakeup, Wakeup
        <3>2. CASE UNCHANGED pc
            BY <3>2 DEF TypeOK, Sleepers, Stuck
        <3> QED BY <3>1, <3>2, SignalKeeps
    <2>2. CASE ~(Tick \/ SocketWakeup)
        <3>1. UNCHANGED pc
            BY <2>2 DEF Update, CheckAbort, SocketExit, TimerLock, Socket, SocketEvent, SocketMore,
                        SocketDone, Watch, Check
        <3> QED BY <3>1 DEF TypeOK, Sleepers, Stuck
    <2> QED BY <2>1, <2>2
<1>2. UNCHANGED <<sleep, quit, total, hold, spurious>>
    BY DEF sync, Update, CheckAbort, Tick, SocketExit, TimerLock, Socket, SocketEvent, SocketMore,
           SocketWakeup, SocketDone, Watch, Check
<1>3. SleepCounts' /\ TotalHeld'
    BY <1>1, <1>2 DEF SleepCounts, TotalHeld
<1>4. NoSleeperAfterQuit'
    BY <1>1, <1>2 DEF NoSleeperAfterQuit
<1>5. MutexOwned' /\ QuitLast'
    <2>1. CASE TimerLock
        BY <2>1, <1>1, <1>2, PoolAssumption DEF TimerLock, MutexOwned, QuitLast, TypeOK
    <2>2. CASE Update \/ CheckAbort \/ Tick \/ SocketExit
        <3>1. /\ UNCHANGED mutex /\ timer \notin {"quit", "done"} /\ timer' \notin {"quit", "done"}
              /\ timer' \in {"exit", "lock"} => (total = 0)
            BY <2>2 DEF sync, Update, CheckAbort, Tick, SocketExit, QuitLast
        <3> QED BY <3>1, <1>1, <1>2 DEF MutexOwned, QuitLast
    <2>3. CASE Socket \/ Watch \/ \E w \in Workers : Check(w)
        <3>1. UNCHANGED <<mutex, timer>>
            BY <2>3 DEF sync, others, Socket, SocketEvent, SocketMore, SocketWakeup, SocketDone, Watch, Check
        <3> QED BY <3>1, <1>1, <1>2 DEF MutexOwned, QuitLast
    <2> QED BY <2>1, <2>2, <2>3
<1>6. TypeOK'
    <2>1. work' \in 0..(MaxWork + NServices) /\ pushed' \in 0..MaxPush
        BY PoolAssumption
           DEF TypeOK, queue, PushWork, Update, CheckAbort, Tick, SocketExit, TimerLock, Socket, SocketEvent,
               SocketMore, SocketWakeup, SocketDone, Watch, Check
    <2>2. /\ mutex' \in Workers \cup {"timer", Nobody}
          /\ timer' \in {"update", "abort?", "wakeup", "exit", "lock", "quit", "done"}
          /\ sockExit' \in BOOLEAN
        BY DEF TypeOK, sync, others, Update, CheckAbort, Tick, SocketExit, TimerLock, Socket, SocketEvent,
               SocketMore, SocketWakeup, SocketDone, Watch, Check
    <2>3. socket' \in {"poll", "more", "wakeup", "done"} /\ watch' \in {"check", "done"}
        BY DEF TypeOK, sync, others, Update, CheckAbort, Tick, SocketExit, TimerLock, Socket, SocketEvent,
               SocketMore, SocketWakeup, SocketDone, Watch, Check
    <2>4. moved' \subseteq Workers /\ endless' \in BOOLEAN
        BY DEF TypeOK, mon, Seen, Update, CheckAbort, Tick, SocketExit, TimerLock, Socket, SocketEvent,
               SocketMore, SocketWakeup, SocketDone, Watch, Check
    <2> QED BY <1>1, <1>2, <2>1, <2>2, <2>3, <2>4 DEF TypeOK
<1> QED BY <1>3, <1>4, <1>5, <1>6

\* Every step of the node preserves the invariant.
LEMMA NextPool == PoolIInv /\ [Next]_vars => PoolIInv'
<1> SUFFICES ASSUME PoolIInv, [Next]_vars PROVE PoolIInv'
    OBVIOUS
<1>1. CASE \E w \in Workers : Worker(w) \/ Post(w) \/ Again(w) \/ ExitService(w) \/ Spurious(w) \/ Hang(w)
    BY <1>1, RunningSteps, SleepingSteps, HangStep DEF Worker
<1>2. CASE Timer \/ Socket \/ Watch \/ \E w \in Workers : Check(w)
    BY <1>2, QuitStep, ThreadSteps DEF Timer
<1>3. CASE UNCHANGED vars
    BY <1>3 DEF PoolIInv, PoolInv, TypeOK, SleepCounts, Sleepers, NoSleeperAfterQuit, MutexOwned, TotalHeld,
                Stuck, QuitLast, vars, queue, sync, others, mon
<1> QED BY <1>1, <1>2, <1>3 DEF Next, Joined

\* The count of sleeping workers is exact, and nobody waits after the
\* shutdown broadcast, in every behaviour of every pool.
THEOREM PoolSafe == Spec => []PoolInv
<1>1. PoolIInv => PoolInv
    BY DEF PoolIInv
<1> QED BY <1>1, InitPool, NextPool, PTL DEF Spec

=============================================================================
