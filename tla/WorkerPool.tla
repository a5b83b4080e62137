----------------------------- MODULE WorkerPool -----------------------------
(***************************************************************************)
(* The threads of a node (skynet_start.c): workers that sleep on a         *)
(* condition variable when the run queue is empty, the timer and the       *)
(* socket thread that wake them, the monitor thread, and the shutdown that *)
(* starts when the last service is gone.  The monitor thread finds         *)
(* callbacks that do not return (skynet_monitor.c).                        *)
(*                                                                         *)
(* A send between services wakes nobody, and m->sleep is read without the  *)
(* mutex: a wakeup can be lost between a worker's last look at the run     *)
(* queue and its pthread_cond_wait.  That work is still done rests on the  *)
(* timer thread, which signals every tick while any worker sleeps.         *)
(*                                                                         *)
(* The run queue is a number here: module Dispatch shows what happens to   *)
(* the mailboxes in it.                                                    *)
(***************************************************************************)
EXTENDS Integers, FiniteSets

CONSTANTS
    Workers,      \* the worker threads, m->count of them
    MaxWork,      \* bound: mailboxes in the run queue
    MaxPush,      \* bound: messages that come in a behaviour
    MaxSpurious,  \* bound: spurious wakeups
    MaxStuck,     \* bound: callbacks that never return
    NServices,    \* services alive at the start
    Nobody        \* the mutex is free

ASSUME PoolAssumption ==
    /\ IsFiniteSet(Workers) /\ Workers # {}
    /\ {MaxWork, MaxPush, MaxSpurious, MaxStuck, NServices} \subseteq Nat
    /\ "timer" \notin Workers /\ Nobody \notin Workers \cup {"timer"}

VARIABLES
    work,      \* mailboxes in the run queue
    total,     \* skynet_context_total()
    sleep,     \* m->sleep
    quit,      \* m->quit
    mutex,     \* the owner of m->mutex
    pc,        \* what each worker does next
    hold,      \* q # NULL, of each worker
    timer,     \* what the timer thread does next
    socket,    \* what the socket thread does next
    watch,     \* what the monitor thread does next
    sockExit,  \* skynet_socket_exit was called
    moved,     \* workers whose monitor has version # check_version
    endless,   \* an endless callback was reported
    pushed, spurious  \* the bounded counts

queue == <<work, pushed>>
sync == <<sleep, quit, mutex>>
others == <<timer, socket, watch, sockExit>>
mon == <<moved, endless>>
vars == <<queue, total, sync, pc, hold, others, spurious, mon>>

Count == Cardinality(Workers)

\* workers in a callback that never returns; each keeps a service alive
Stuck == {w \in Workers : pc[w] = "stuck"}

Init ==
    /\ work = NServices          \* the mailboxes of the boot services
    /\ total = NServices
    /\ sleep = 0
    /\ quit = FALSE
    /\ mutex = Nobody
    /\ pc = [w \in Workers |-> "loop"]
    /\ hold = [w \in Workers |-> FALSE]
    /\ timer = "update"
    /\ socket = "poll"
    /\ watch = "check"
    /\ sockExit = FALSE
    /\ pushed = 0
    /\ spurious = 0
    /\ moved = {}
    /\ endless = FALSE

\* Make one mailbox runnable.
PushWork ==
    /\ work < MaxWork
    /\ pushed < MaxPush
    /\ work' = work + 1
    /\ pushed' = pushed + 1

Goto(w, p) == pc' = [pc EXCEPT ![w] = p]

\* pthread_cond_signal: one waiting worker, if there is one
Signal ==
    \/ \E w \in Workers : pc[w] = "wait" /\ Goto(w, "woken")
    \/ (\A w \in Workers : pc[w] # "wait") /\ UNCHANGED pc

\* wakeup(m, busy), with m->sleep read outside the mutex
Wakeup(busy) ==
    \/ sleep >= Count - busy /\ Signal
    \/ sleep < Count - busy /\ UNCHANGED pc

-----------------------------------------------------------------------------
(* thread_worker *)

\* while (!m->quit)
Loop(w) ==
    /\ pc[w] = "loop"
    /\ Goto(w, IF quit THEN "done" ELSE "dispatch")
    /\ UNCHANGED <<queue, total, sync, hold, others, spurious, mon>>

\* skynet_context_message_dispatch: go on with q, else take a mailbox
Dispatch(w) ==
    /\ pc[w] = "dispatch"
    /\ \/ /\ hold[w]
          /\ Goto(w, "mark")
          /\ UNCHANGED <<queue, hold>>
       \/ /\ ~hold[w] /\ work > 0
          /\ work' = work - 1
          /\ hold' = [hold EXCEPT ![w] = TRUE]
          /\ Goto(w, "mark")
          /\ UNCHANGED pushed
       \/ /\ ~hold[w] /\ work = 0
          /\ Goto(w, "empty")
          /\ UNCHANGED <<queue, hold>>
    /\ UNCHANGED <<total, sync, others, spurious, mon>>

\* skynet_monitor_trigger, with the destination written: ATOM_INC(version)
Trigger(w) ==
    /\ pc[w] = "mark"
    /\ moved' = moved \cup {w}
    /\ Goto(w, "run")
    /\ UNCHANGED <<queue, total, sync, hold, others, spurious, endless>>

\* a callback that never returns
Hang(w) ==
    /\ pc[w] = "run"
    /\ Cardinality(Stuck) < MaxStuck
    /\ total > Cardinality(Stuck)
    /\ Goto(w, "stuck")
    /\ UNCHANGED <<queue, total, sync, hold, others, spurious, mon>>

\* a callback makes another mailbox runnable
Post(w) ==
    /\ pc[w] = "run"
    /\ PushWork
    /\ UNCHANGED <<total, sync, pc, hold, others, spurious, mon>>

\* a callback ends a service
ExitService(w) ==
    /\ pc[w] = "run"
    /\ total > Cardinality(Stuck)
    /\ total' = total - 1
    /\ UNCHANGED <<queue, sync, pc, hold, others, spurious, mon>>

\* the turn of a mailbox that has received more messages ends: q is put back
\* and the next one taken, or kept when the run queue is empty
Again(w) ==
    /\ pc[w] = "run"
    /\ pushed < MaxPush
    /\ pushed' = pushed + 1
    /\ moved' = moved \cup {w}
    /\ Goto(w, "loop")
    /\ UNCHANGED <<work, total, sync, hold, others, spurious, endless>>

\* the mailbox is drained: take the next one or return NULL
Finish(w) ==
    /\ pc[w] = "run"
    /\ moved' = moved \cup {w}
    /\ \/ /\ work > 0
          /\ work' = work - 1
          /\ Goto(w, "loop")
          /\ UNCHANGED <<pushed, hold>>
       \/ /\ work = 0
          /\ hold' = [hold EXCEPT ![w] = FALSE]
          /\ Goto(w, "empty")
          /\ UNCHANGED queue
    /\ UNCHANGED <<total, sync, others, spurious, endless>>

\* lock the mutex and count as a sleeper
Lock(w) ==
    /\ pc[w] = "empty"
    /\ mutex = Nobody
    /\ mutex' = w
    /\ sleep' = sleep + 1
    /\ Goto(w, "locked")
    /\ UNCHANGED <<queue, total, quit, hold, others, spurious, mon>>

\* Faulty form: quit is not looked at again under the mutex.
Wait_NoRecheck(w) ==
    /\ pc[w] = "locked"
    /\ mutex' = Nobody
    /\ Goto(w, "wait")
    /\ UNCHANGED <<queue, total, sleep, quit, hold, others, spurious, mon>>

\* if (!m->quit) pthread_cond_wait, which gives the mutex back
Wait(w) ==
    /\ pc[w] = "locked"
    /\ \/ /\ ~quit
          /\ mutex' = Nobody
          /\ Goto(w, "wait")
       \/ /\ quit
          /\ Goto(w, "awake")
          /\ UNCHANGED mutex
    /\ UNCHANGED <<queue, total, sleep, quit, hold, others, spurious, mon>>

\* a wakeup nobody sent
Spurious(w) ==
    /\ pc[w] = "wait"
    /\ spurious < MaxSpurious
    /\ spurious' = spurious + 1
    /\ Goto(w, "woken")
    /\ UNCHANGED <<queue, total, sync, hold, others, mon>>

\* pthread_cond_wait takes the mutex again before it returns
Relock(w) ==
    /\ pc[w] = "woken"
    /\ mutex = Nobody
    /\ mutex' = w
    /\ Goto(w, "awake")
    /\ UNCHANGED <<queue, total, sleep, quit, hold, others, spurious, mon>>

\* -- m->sleep; unlock
Unlock(w) ==
    /\ pc[w] = "awake"
    /\ sleep' = sleep - 1
    /\ mutex' = Nobody
    /\ Goto(w, "loop")
    /\ UNCHANGED <<queue, total, quit, hold, others, spurious, mon>>

Worker(w) ==
    \/ Loop(w) \/ Dispatch(w) \/ Trigger(w) \/ Finish(w)
    \/ Lock(w) \/ Wait(w) \/ Relock(w) \/ Unlock(w)

-----------------------------------------------------------------------------
(* thread_timer *)

\* skynet_updatetime, which may fire a timeout, then CHECK_ABORT
Update ==
    /\ timer = "update"
    /\ timer' = "abort?"
    /\ \/ total > 0 /\ PushWork
       \/ UNCHANGED queue
    /\ UNCHANGED <<total, sync, pc, hold, socket, watch, sockExit, spurious, mon>>

CheckAbort ==
    /\ timer = "abort?"
    /\ timer' = IF total = 0 THEN "exit" ELSE "wakeup"
    /\ UNCHANGED <<queue, total, sync, pc, hold, socket, watch, sockExit, spurious, mon>>

\* Faulty form: the timer thread signals nobody.
Tick_NoSignal ==
    /\ timer = "wakeup"
    /\ timer' = "update"
    /\ UNCHANGED <<queue, total, sync, pc, hold, socket, watch, sockExit, spurious, mon>>

\* wakeup(m, m->count - 1); usleep(2500)
Tick ==
    /\ timer = "wakeup"
    /\ Wakeup(Count - 1)
    /\ timer' = "update"
    /\ UNCHANGED <<queue, total, sync, hold, socket, watch, sockExit, spurious, mon>>

\* skynet_socket_exit, then lock
SocketExit ==
    /\ timer = "exit"
    /\ sockExit' = TRUE
    /\ timer' = "lock"
    /\ UNCHANGED <<queue, total, sync, pc, hold, socket, watch, spurious, mon>>

TimerLock ==
    /\ timer = "lock"
    /\ mutex = Nobody
    /\ mutex' = "timer"
    /\ timer' = "quit"
    /\ UNCHANGED <<queue, total, sleep, quit, pc, hold, socket, watch, sockExit, spurious, mon>>

\* Faulty form: one sleeper is signalled instead of all.
Quit_SignalsOne ==
    /\ timer = "quit"
    /\ quit' = TRUE
    /\ Signal
    /\ mutex' = Nobody
    /\ timer' = "done"
    /\ UNCHANGED <<queue, total, sleep, hold, socket, watch, sockExit, spurious, mon>>

\* m->quit = 1; broadcast; unlock
Quit ==
    /\ timer = "quit"
    /\ quit' = TRUE
    /\ pc' = [w \in Workers |-> IF pc[w] = "wait" THEN "woken" ELSE pc[w]]
    /\ mutex' = Nobody
    /\ timer' = "done"
    /\ UNCHANGED <<queue, total, sleep, hold, socket, watch, sockExit, spurious, mon>>

Timer == Update \/ CheckAbort \/ Tick \/ SocketExit \/ TimerLock \/ Quit

-----------------------------------------------------------------------------
(* thread_socket and thread_monitor *)

\* skynet_socket_poll delivers a message to a service; it returns -1 while
\* the batch has more events, and 1 at its end
SocketEvent ==
    /\ socket = "poll"
    /\ total > 0
    /\ PushWork
    /\ socket' \in {"more", "wakeup"}
    /\ UNCHANGED <<total, sync, pc, hold, timer, watch, sockExit, spurious, mon>>

\* r < 0: CHECK_ABORT, and no wakeup
SocketMore ==
    /\ socket = "more"
    /\ socket' = IF total = 0 THEN "done" ELSE "poll"
    /\ UNCHANGED <<queue, total, sync, pc, hold, timer, watch, sockExit, spurious, mon>>

\* wakeup(m, 0)
SocketWakeup ==
    /\ socket = "wakeup"
    /\ Wakeup(0)
    /\ socket' = "poll"
    /\ UNCHANGED <<queue, total, sync, hold, timer, watch, sockExit, spurious, mon>>

\* r = 0: the exit command of skynet_socket_exit
SocketDone ==
    /\ socket = "poll"
    /\ sockExit
    /\ socket' = "done"
    /\ UNCHANGED <<queue, total, sync, pc, hold, timer, watch, sockExit, spurious, mon>>

Socket == SocketEvent \/ SocketMore \/ SocketWakeup \/ SocketDone

\* CHECK_ABORT of the monitor thread
Watch ==
    /\ watch = "check"
    /\ total = 0
    /\ watch' = "done"
    /\ UNCHANGED <<queue, total, sync, pc, hold, timer, socket, sockExit, spurious, mon>>

\* Faulty form: check_version is never brought up to version.
Seen_Never(w) == moved

\* check_version = version
Seen(w) == moved \ {w}

\* skynet_monitor_check of the monitor of worker w; a report of a callback
\* that is only slow, or has just begun, leaves nothing behind
Check(w) ==
    /\ watch = "check"
    /\ IF w \in moved
       THEN moved' = Seen(w) /\ UNCHANGED endless
       ELSE endless' = (endless \/ pc[w] = "stuck") /\ UNCHANGED moved
    /\ UNCHANGED <<queue, total, sync, pc, hold, others, spurious>>

-----------------------------------------------------------------------------

AllDone == timer = "done" /\ socket = "done" /\ watch = "done" /\ \A w \in Workers : pc[w] = "done"

\* start() has joined every thread
Joined == AllDone /\ UNCHANGED vars

Next ==
    \/ \E w \in Workers : Worker(w) \/ Post(w) \/ Again(w) \/ ExitService(w) \/ Spurious(w)
                           \/ Hang(w) \/ Check(w)
    \/ Timer \/ Socket \/ Watch \/ Joined

Spec == Init /\ [][Next]_vars

\* The operating system runs every thread; a callback returns.  Nothing is
\* assumed of socket events, sends, service exits or spurious wakeups.
Fairness ==
    /\ \A w \in Workers : WF_vars(Worker(w))
    /\ WF_vars(Timer)
    /\ WF_vars(SocketMore \/ SocketWakeup \/ SocketDone)
    /\ WF_vars(Watch)
    /\ \A w \in Workers : WF_vars(Check(w))

FairSpec == Spec /\ Fairness

-----------------------------------------------------------------------------
(* Properties *)

WorkerPCs == {"loop", "dispatch", "mark", "run", "stuck", "empty", "locked", "wait", "woken", "awake", "done"}

\* Type invariant of the pool.
TypeOK ==
    /\ work \in 0..(MaxWork + NServices)
    /\ pushed \in 0..MaxPush
    /\ total \in 0..NServices
    /\ sleep \in 0..Count
    /\ quit \in BOOLEAN
    /\ mutex \in Workers \cup {"timer", Nobody}
    /\ pc \in [Workers -> WorkerPCs]
    /\ hold \in [Workers -> BOOLEAN]
    /\ timer \in {"update", "abort?", "wakeup", "exit", "lock", "quit", "done"}
    /\ socket \in {"poll", "more", "wakeup", "done"}
    /\ watch \in {"check", "done"}
    /\ sockExit \in BOOLEAN
    /\ spurious \in 0..MaxSpurious
    /\ moved \subseteq Workers
    /\ endless \in BOOLEAN

Sleepers == {w \in Workers : pc[w] \in {"locked", "wait", "woken", "awake"}}

\* m->sleep counts the workers between the two updates of it.
SleepCounts == sleep = Cardinality(Sleepers)

\* No worker waits for a signal after the shutdown broadcast: the broadcast
\* cannot slip between a worker's test of quit and its wait.
NoSleeperAfterQuit == quit => \A w \in Workers : pc[w] # "wait"

\* The count of sleepers is exact and the broadcast reaches them all, in
\* whatever order workers are signalled, woken spuriously and relocked.
PoolInv == TypeOK /\ SleepCounts /\ NoSleeperAfterQuit

\* A mailbox in the run queue is taken, although sends wake nobody and a
\* signal may find no waiter, and although callbacks hang on some of the
\* workers; or the node has nothing left to serve.
WorkTaken == \A n \in 1..(MaxWork + NServices) : (work = n) ~> (work < n \/ total = 0)

\* When the last service is gone every thread ends.
Shutdown == (total = 0) ~> AllDone

\* A callback that never returns is reported by the monitor thread.
EndlessReported == (Stuck # {}) ~> endless

=============================================================================
