# Verification of skynet_hotfix

TLA+ models of the skynet node this server runs on and of its two-level code
hotfix, with TLC configurations for small instances and TLAPS proofs of the
facts that hold for every size. Module names follow the code; every definition
that models code is listed with its source lines under `map` in `PROJECT.json`.

## 1. The system

The repository is a skynet node (C kernel, Lua services) with a login server on
top and a tool that updates the code of a running node.

| component | source | state | operations |
|---|---|---|---|
| reader/writer lock | `skynet-src/rwlock.h` | two words, `read` and `write` | rlock, runlock, wlock, wunlock |
| mailbox | `skynet-src/skynet_mq.c` | ring array, head, tail, capacity, overload mark; `in_global`, `release` flags | push, pop, expand, mark_release, release |
| run queue | `skynet_mq.c` (global queue) | linked list of mailboxes | push, pop |
| services and dispatch | `skynet_server.c` | context, reference count, node total | new, grab/release, send, message_dispatch, kill, exit |
| handle table | `skynet_handle.c` | slot array, next index, sorted name array | register, grab, retire, retireall, findname, namehandle |
| threads | `skynet_start.c`, `skynet_socket.c` | mutex, condition variable, sleep count, quit flag | worker, timer, socket, monitor threads |
| timer | `skynet_timer.c` | near wheel, four levels, 32-bit clock | add, shift, move_list, execute |
| code cache | `3rd/lua/lauxlib.c` | one prototype per file name for all Lua states | load, save, clearcache |
| object hotfix | `server/common/Hotfix.lua`, `base/luaext.lua` | `module_list` (weak lists of objects per module), `package.loaded`, per-object methods, handlers | class().new, addObject, hotfixFile, start, close |
| rollout | `hotfix.py`, `service/debug_console.lua`, `loginserver/main.lua` | the tool's list of services and sockets | list, clearcache, call, close |
| monitor | `skynet_monitor.c` | version, check_version, source, destination per worker | trigger, check |
| Lua scheduler | `lualib/skynet.lua`, `skynet/queue.lua` | session tables, coroutine pool, wakeup, error and fork queues, who watches whom | call, ret, response, sleep, wait, wakeup, fork, timeout, exit, dispatch_message; queue |
| launcher, service manager | `service/launcher.lua`, `service_mgr.lua` | services, pending launches, unique services and their waiting clients | LAUNCH, LAUNCHOK, ERROR, REMOVE, KILL; LAUNCH, QUERY |
| socket server | `socket_server.c`, `socket_epoll.h` | slots, command pipe, two write lists per socket, event batch | connect, listen, bind, udp, start, send, close, poll |
| module hotfix library | `server/common/hotfix/` | upvalue and object maps | hotfix_module |
| configuration, containers, timers, logging | `server/common/**` | plain tables | lookups, queues, callbacks |

How they interact. A send looks the destination up in the handle table (under
the reader lock, taking a reference), pushes to its mailbox, and the mailbox
enters the run queue unless it is in it. Workers take mailboxes from the run
queue, run callbacks, put the mailbox back; they sleep on a condition variable
when the queue is empty and are woken by the socket thread after a batch of
events and by the timer thread on every tick. The timer thread sends the
messages of expired timers. Retiring a handle hides the service, dropping the
last reference deletes the context and marks the mailbox, and the worker that
next meets the mailbox drains it. Worker threads ask the socket thread for
sockets, writes and closes through a pipe, after reserving a slot themselves; it
reports back with messages. In a Lua service one message resumes one coroutine,
and `suspend()` goes on with woken sleepers, failed calls and forks; services
start through the launcher, which answers `newservice` when the new service has
reported, and unique ones through the service manager. `hotfix.py` asks the debug console for the
services, clears the code cache all Lua states share and calls `hotfix` in each
service, where `Hotfix:hotfixFile` requires the modules again and gives the new
functions to the objects it has listed.

What is hard. Reference counts, mailbox flags and run queue are changed by
different threads in separate critical sections; a handle is published before
the context knows it; wakeups can be lost; the clock, the ring and the table
are at their boundaries rarely; a slot is used again while events and commands
for its old socket are under way; an error leaves a Lua dispatcher half done; a
service dies in every state of a call or of its own start; a reload fails half
way or runs while files are being saved; services start and end while the tool
works. `hazards` in
`PROJECT.json` lists each at its line, with the property that watches it.

## 2. Modules

| module | models | abstract specification | proofs |
|---|---|---|---|
| `RwLock` | `rwlock.h`, one action per access to a word | - | `HandleStorageProofs` |
| `MailboxRing` | ring buffer of `skynet_mq.c`, overload mark | `Fifo` | `StructureProofs` |
| `Dispatch` | worker loop, send, kill, launch, context and mailbox lifetime | `Actors` | `DispatchProofs` |
| `HandleStorage` | `skynet_handle.c` with the late store of `ctx->handle` | - | `HandleStorageProofs` |
| `WorkerPool` | threads, wakeup and shutdown of `skynet_start.c`, the monitor of `skynet_monitor.c` | - | `WorkerPoolProofs` |
| `TimerWheel` | `skynet_timer.c` on a clock of any size | - | `StructureProofs` |
| `Hotfix` | `Hotfix.lua`, `class`, `import`, `handler`, `register` | - | `HotfixProofs` |
| `Launcher` | `launcher.lua`, `service_mgr.lua`, start and end of a service | - | `LauncherProofs` (in the node of `HotfixRollout`) |
| `HotfixRollout` | `hotfix.py`, console, code cache; extends `Launcher` | - | - |
| `Scheduler` | `lualib/skynet.lua`, `skynet/queue.lua`, several services with mailboxes and timers | - | `SchedulerProofs` |
| `SocketServer` | `socket_server.c`, with worker threads, the pipe and epoll | - | `SocketServerProofs` |

`MC*` modules only name the model values and small functions of an instance.
A definition `X_Something` marked "Faulty form" is a plausible slip in the code
of `X`; no specification uses it. Each property has one that violates it, listed
under `mutants`.

**RwLock.** `pc[t]` is the place of a thread in the lock code. `WriteClaim` is
the test-and-set that finds the flag clear (the other iterations write 1 over 1
and are stutters), `WriteDrain` the loop that waits for `read` to be zero,
`ReadRecheck` a reader's second look at `write`. Memory is taken as
sequentially consistent, which the `__sync` builtins give on x86; GCC promises
only an acquire barrier for `__sync_lock_test_and_set`, so on a weaker machine
the writer's claim and its look at `read` are outside this model.

**MailboxRing.** `Push`, `Pop`, `PopEmpty` and `Overload` are the functions
under the mailbox's spin lock. Cells of the allocated array that were never
written hold `NoMessage`.

**Dispatch.** One step is one critical section or one atomic instruction. A
service stands for its handle, context and mailbox. The thread-local variables
are those of `skynet_context_message_dispatch` (`cur` is `q`, `nxt` is `nq`,
`left` is the rest of the turn), of a send (`tgt`, `out`), of the place an
operation returns to (`ret`) and of `skynet_context_new` (`new`). Service code
may send, kill and launch at any moment of a callback or of an init function;
the outside threads (timer, socket) only send. `Launch` is one step, from the
allocation to the creation of the mailbox: nobody knows the handle before
`skynet_context_new` has it, so nobody sends to the context between the
registration and `ctx->queue` (lines 154-156), unless a handle is used again
after the counter's wrap. `InitReturn` releases the creator's reference;
`SetInit`, `Publish`, `LogLaunch` and `AnswerLaunch` are what the creator still
does then. `assert(ctx->init)` of `dispatch_message` holds because the mailbox
is the creator's until `Publish` (`OnePlace`). `Actors` says what this
machinery promises to a service: one message at a time, in order, not before
init is over, and nothing dropped before the service can never run again.

**HandleStorage.** Each function under the lock is one action; the store of the
returned handle into `ctx->handle` (`skynet_server.c:155`) is `Store`, and
`skynet_handle_retireall` is a pass of `Read`/`Skip`/`RetireRead` steps.
`aborted` stands for a failed assertion of `skynet_handle_register`. `Sizes[k]`
is the size after `k` doublings; `Bisect` is one turn of the bisection over the
names and `Search` its iteration.

**WorkerPool.** The run queue is a number. `wait` is inside
`pthread_cond_wait`; `woken` has been signalled and has yet to take the mutex.
`stuck` is a callback that never returns; `moved` holds the workers whose
monitor has a version the monitor thread has not yet noted. `Check` is
`skynet_monitor_check` for one worker, in any order and as often as it likes.

**TimerWheel.** The sizes are constants (2, 2, 3 levels in the run: a clock of
16 ticks instead of 2^32), so a timer crosses all levels and the wrap. `remain`
and `order` record when each timer was due and in which order they were set.

**Hotfix.** A class table is the sequence of (module, version) pairs from it to
its root; a method resolves to the first pair that defines it, or to a function
hotfix assigned to the object. `bound` is what handlers closed over. The loop
over all modules is one step per module, since the operator can save a file
between two of them; `pairs()` gives any order. A file that is not ok fails in
`luaL_loadfile`, before any of its lines runs. The assignment of the new methods
and `register()` are one step with the load, and `register()` does not raise: an
error inside it (`Hotfix.lua:57`, `87`), which would leave the objects after it
without new handlers, is not modelled.

**HotfixRollout.** One file; the content is a version. `Load` and `Save` are the
two locked regions of `luaL_loadfilex` around the read of the file. `Cut` is the
two-second limit of the tool's main thread. The node is `Launcher`: `InNode(A)`
is a step `A` of it in which a new service that runs the file begins by loading
it. A listed service that is ready loads the file (`Call`); one whose start
function has not set its dispatch answers with an error (`CallRefused`), and so
does one that has ended (`CallFails`): the tool then waits for `<CMD OK>` until its
two seconds are over.

**Launcher.** `box` is the launcher's mailbox; each of its handlers is one
action, for none of those modelled yields. `services` and `instance` are the
keys of its tables, `owner[s]` the caller that `instance[s]` would answer.
`entry[n]` is the service manager's `service[name]`: nothing, a handle, an error
string, or a table of waiting clients with or without the flag `launch`. A
service is `boot` until `init_service` ends and `exit` between its REMOVE and the
retirement of its handle. `KILL` may hit it anywhere.

**Scheduler.** `st[s]` is the Lua state of a service: the tables of `skynet.lua`
under their names, and `mode`, the place of `dispatch_message` between two
yields. Service code is arbitrary: a running coroutine does any operation of the
library next, within the `Budgets` of a behaviour. `Resumed` is the part of an
operation after its yield, `Settled` the phases of `suspend()` that find their
queue empty, `depth` the frames of `suspend()` below the current one that still
have `dispatch_error_queue` to do. A handler may end without answering
(`Return`), and a service may be killed at any moment (`Kill`). `mute` collects
the requests whose answer nothing in the code guarantees: of such handlers, of
killed services, and those taken by a service that has already exited. `Tick` is
any later message; none is owed, so it is not in the fairness.

**SocketServer.** `slot[i]` has the fields of `struct socket` that decide what
happens; a write buffer list is the sequence of its unsent bytes, each marked
with its packet and its place in it, so `wire[id]` shows what a peer really gets.
Workers `Reserve` (the compare-and-swap) and `Request` (the store of `s->id` and
the write to the pipe) in two steps; the socket thread takes a `Command`, `Clear`s
the batch of a closed socket, takes an `Event`, or waits (`Poll`), in the order
`socket_server_poll` gives them (`fresh`, `checkctrl`). The kernel takes any part
of a stream (`TakenOfStream`), whole datagrams (`TakenOfDatagrams`), or fails;
`sendto` may fail for ever. Between `Reserve` and `Request` the slot has the id
and the descriptor number of the socket before it (`Reserving`): an event then
reads whatever has that number now, and reports it under the old id, or finds
nothing to read. `run = "abort"` is a failed assertion; `run = "stray"` is a write,
or a HALFCLOSE, that such a slot should not have had, after which the model
stops.

## 3. Runs

| run | instance | shows |
|---|---|---|
| `rwlock` | 3 threads | a writer is alone (`Exclusion`) and gets the lock once it has the flag (`WriterProgress`) |
| `mailbox` | capacity 2, up to 5 messages, threshold 1 | no unwritten cell is read (`Filled`), refinement of `Fifo`, backlog warnings (`BacklogWarned`), over two doublings and all wraps |
| `dispatch` | 2 services, one with its launch message in the mailbox, 2 workers (weights 0 and -1), the timer, 2 sends | every mailbox is in one place (`OnePlace`), reference counts are exact (`RefCounts`), what is referenced or in some hand is allocated and nothing is freed twice (`MemorySafe`), refinement of `Actors`, every message is taken (`Served`), every retired service reclaimed (`Reclaimed`) |
| `handles` | 3 contexts, 1 launcher, 1 aborter, 2 names, table from 1 cell, 4 registrations | every live handle and name is found (`LookupsRight`), `NoClash`, a retirement takes all of a service's names and nothing else, growth loses nothing (`LeavesWhole`), `RetireAllComplete` |
| `pool` | 2 workers, 2 services, 2 messages, 1 spurious wakeup, 1 endless callback | `PoolInv`, work is taken (`WorkTaken`), `Shutdown`, the endless callback is reported (`EndlessReported`) |
| `timer` | 2 timers, clock of 16, every start, delays to 7 | each fires once, on its tick, in order |
| `hotfix` | a class and its super class, 2 objects, 3 versions, broken files, closing | handlers are current, objects run what is loaded, none stays behind |
| `rollout` | 3 services, 1 unique name with 2 clients, 2 versions; up to 2 launches by `main.lua` or for the name, up to 2 faults (a start that fails, an exit, a kill, a cut) | a name has one service and its clients are not kept waiting (`UniqueSound`), `EveryLaunchAnswered`, `TableSettles`, repeated runs of the tool converge (`Converges`) |
| `scheduler` | 2 services of 4 coroutines; one budget of calls, deferred answers, forks, an error and an exit, one of sleeps, waits, wakeups, critical sections and an error, one of calls with an exit and a kill | `SessionsSound`, `NoCallForgotten`, `QueueExclusion`, `EveryCallEnds`, `QueuesDrain` |
| `sockets` | 2 slots, 4 ids, packets of 2 bytes, a pipe of 2; six mixes of requests (a stream, a slot used again, a server, a transfer, datagrams, a bound descriptor) | `PacketsWhole`, `NoSlotLost`, `ClosedForGood`, `CloseAnswered`, `BuffersDrain` |
| `handle_race` | 3 launchers, table from 2 cells | violation, see Findings |
| `hotfix_broken` | 1 object | violation, see Findings |

Why the bounds are enough to be interesting. Two workers and the timer thread
are the fewest for every race of the dispatcher (a mailbox pushed while it is
drained, put back while it is killed, released by a third party); one launch
covers success, failure and a service that exits inside its init function. A
table that starts with one cell doubles twice within four registrations. Three
versions let a file be edited twice, so that one hotfix meets the results of an
earlier one, and a file break and be repaired. Two services and four coroutines
let a callee exit while its caller waits, while a closure owes an answer and
while a third coroutine is in line for a section. Two slots and four ids make
every slot be used again while commands for its first id are still in the pipe;
packets of two bytes can be cut inside.

Deadlock checking is off where the bounded environment runs out (`dispatch`,
`handles`, `handle_race`, `scheduler`, `sockets`): an idle node waits for work.
The pool's end is the action `Joined`, so there deadlock is checked.

### Fairness

- `RwLock`: a thread in the lock code or in a critical section keeps running.
  Nothing is assumed of whether it asks for the lock.
- `Dispatch`, `WorkerPool`: the operating system runs every thread and callbacks
  return, except that one of the pool's may hang. Sends, kills, launches, socket
  events and wakeups are never owed.
- `TimerWheel`: the timer thread keeps running, and so does the clock.
- `Hotfix`: the loop over the modules goes on once begun, and the operator runs
  hotfix again and again; edits, objects and single-file hotfixes are free.
- `Launcher`, `HotfixRollout`: the launcher takes its messages, a start function
  and a load that began end unless the service is killed, and the operator keeps
  running the tool to its end. Faults are bounded, so convergence is claimed only
  for the time after them.
- `Scheduler`: workers run every service that has messages, service code gets on
  with what it does (which operation is free), and timers fire. That messages keep
  coming is not assumed of the system: `EveryCallEnds` and `QueuesDrain` are
  implications with that condition (`MessagesCome`, weak fairness of `Tick`) as
  their hypothesis. `EveryCallEnds` claims nothing while service code keeps an
  answer to itself or waits for a wakeup, or a call waits for an answer that its
  callee will not give (`Stalled`).
- `SocketServer`: the socket thread runs, a worker that reserved a slot sends its
  command, and peers read: a socket watched for writing is reported writable and
  takes something again and again. Nothing of the kind is assumed of datagrams,
  whose `sendto` may fail for good. This last part is strong fairness
  (`PollWritable`, `Progress`), since a peer's reading is interrupted by other
  events of the batch; without it no buffer need ever drain.

All but the last is weak fairness.

## 4. Findings

- `handle_race` (`skynet_handle.c:59`). The table is rehashed by `ctx->handle`,
  which the creator stores only after the lock is released. Two launchers
  between the two points show handle 0, and a third whose registration doubles
  the table fails `assert(new_slot[hash] == NULL)`. With a single launcher
  (`handles`) the assertion holds.
- `hotfix_broken` (`Hotfix.lua:42`). `package.loaded` is cleared before
  `require`; a file that fails to load once leaves its module unloaded, and the
  loop over all modules then skips it for ever while reporting completion.

### Observations without a run of their own

- After the handle counter wraps at 2^24 a service gets handle 0 on a node with
  `harbor = 0`, although `skynet_handle.c:251` reserves it. `retireall` then
  never retires it: `handles` with `HandleMask = 3` violates
  `RetireAllComplete`. The listed run keeps the counter below the wrap.
- `manager_service.lua:29` gives `skynet.dispatch` a handler of an object without
  `register()`, which keeps the first version of `dispatchMessage`.
- An object is listed under its super class's module too, so a reload of that
  module puts its methods over those the subclass overrides (`Hotfix.lua:51`).
  `LoadedIsRun` therefore allows either function.
- `luaext.lua:474` passes the direct super class in every turn of the loop over
  the ancestors, so a grandparent's module never lists the object.
- A method that is new in a reloaded file is given to no existing object, since
  only names the object already answers to are assigned (`Hotfix.lua:50`).
- A module the loop has passed over may be loaded again by a subclass visited
  later; its objects keep the old methods until the next hotfix. `LoadedIsRun`
  exempts the objects of such modules.
- `hotfix.py` closes its sockets after two seconds, done or not (line 111), and
  waits for `<CMD OK>` when the call of a service that has ended, or has not run
  its start function yet (`skynet.lua:500`), is answered with an error; the
  services after it in the list are not called in this run.
- `skynet_context_new` writes `ctx->init` (line 166) and logs through `ret` (170),
  and `cmd_launch` reads `inst->handle` (494), after the creator's reference was
  released at line 164. A service that exits in its init function, or is killed or
  met by `retireall` meanwhile, can be deleted in between: `LaunchSafe` is violated
  in the instance of `dispatch`. `MemorySafe` covers these three uses only while
  the service is in the table.
- Rollout: the tool lists the services before it clears the cache
  (`hotfix.py:59`). A service launched in between has the old code and is not
  called, although README.md:4 promises that services started after the change
  are updated too. Running the tool again repairs it (`Converges`).
- Launcher: a service that exits in its start function makes `newservice` return
  nil, so `service_mgr` forgets the name and a second instance may start while the
  first is still ending; after an error, or when the service dies later, the
  error string or the dead handle is kept for ever. `STAT` and `MEM` traverse
  `services` with `pairs` and wait inside the loop while `LAUNCH` adds keys.
- Scheduler: an uncaught error abandons what is left in `wakeup_queue` and
  `error_queue` until a later message comes; on a service that gets none, a failed
  call stays blocked. `QueuesDrain` and `EveryCallEnds` are therefore stated for
  services that do get one (`MessagesCome`).
- Scheduler: nothing checks that a handler has answered when it ends
  (`skynet.lua:238-244`); `MessageDispatch.lua:42-46` logs an unknown `cmd` and
  returns, and the caller waits for ever. A callee that is killed (`KILL` of the
  launcher) reports nothing either: only the requests still in its mailbox are
  answered, by `drop_message`.
- Scheduler: a wakeup of a coroutine that was already woken uses up the
  `dispatch_wakeup` of that round, and a coroutine woken twice can leave the line
  of a section out of its turn: `assert(ref == 0)` (`queue.lua:29`) fails then
  (`TurnIsMine` is violated). The section itself stays exclusive
  (`QueueExclusion`).
- Scheduler: a service that exits in a turn of several messages still takes the
  rest of them. A handler that waits is then dropped with the Lua state, and its
  caller is told nothing (`mute`); only messages still in the mailbox are answered
  with an error (HISTORY.md:351).
- Scheduler: a handler that deferred its answer and then raises sends an error
  and may answer through the closure as well; the caller logs an unknown session.
  `watching_service` is not given back when a handler raises.
- Sockets: `reserve_id` stores `s->id` and `s->fd` after its compare-and-swap
  (lines 255-257). A late close of the old id then reaches `force_close` with a
  reserved slot, late data is appended to a slot that `new_fd` asserts empty, and
  a worker may reserve a slot between `force_close` and `clear_closed_event`, so
  that an old event meets it: each fails an assertion of the socket thread.
  `NoAssertionFails` is violated in the instance of `sockets`; the listed
  properties are stated so that they say something up to there.
- Sockets: in the same window the slot has the number of a closed descriptor,
  which `accept` or a worker's `socket()` may have been given again. An old event
  of the batch then reads the new owner's data and reports it under the id that was
  closed (line 1039), which is the exception of `ClosedForGood`; what was buffered
  for the slot is written to the new owner (480), and a late close may mark the
  reserved slot HALFCLOSE (806).
- Sockets: data for a bound descriptor is appended without `sp_write`, so it waits
  for the close, and a close with such data waits for an event that never comes.
  A datagram whose `sendto` fails for good (no address set, for instance) stays at
  the head and blocks those behind it (line 545), and a close that finds it there
  is never answered: `CloseAnswered` and `BuffersDrain` except a bound descriptor
  and a UDP socket while they have data left (`MayKeep`). A
  readable UDP socket is read again before any command (line 1260). `EMFILE` in
  `accept` reports an ERROR for a listening socket that stays open. A half-closed
  socket's end goes to its owner, not to who asked for the close. The failure of a
  UDP socket is not reported. The sockets of a service that ended stay open
  (`skynet_socket.c:66`).

## 5. Proofs

The theorems hold for every value of the constants: any number of threads,
services, coroutines, slots, names, messages and versions. Each rests on an
inductive invariant that TLC has checked on a small instance first. The header
of each proof module gives the argument; this is its outline.

| theorem | states | inductive invariant |
|---|---|---|
| `HandleStorageProofs!MutualExclusion` | `[]Exclusion` | `LockInv` |
| `HandleStorageProofs!ServicesLeaveWhole` | `LeavesWhole` | `TableInv` |
| `HandleStorageProofs!LookupsFind` | one launcher: `[]LookupsRight` | `HandleInv` |
| `HandleStorageProofs!AssertionsHold` | one launcher: `[]NoClash` | `HandleInv` |
| `HandleStorageProofs!RetireAllDone` | one launcher, `NoWrap`: `RetireAllComplete` | `PassInv` |
| `StructureProofs!CellsFilled` | `[]Filled` | `RingInv` |
| `StructureProofs!RingImplementsFifo` | `FifoSpec` | `RingInv` |
| `StructureProofs!BacklogReported` | `BacklogWarned` | `ThresholdInv` |
| `StructureProofs!NoTimerLost` | `[]NoneLost` | `TimerInv` |
| `StructureProofs!TimersOnTime` | `[]OnTime` | `TimerInv` |
| `StructureProofs!TimersInOrder` | `FireInOrder` | `TimerInv` |
| `DispatchProofs!MailboxInOnePlace` | `[]OnePlace` | `DispatchInv` |
| `DispatchProofs!ReferencesCounted` | `[]RefCounts` | `DispatchInv` |
| `DispatchProofs!HeldIsAllocated` | `[]MemorySafe` | `DispatchInv` |
| `DispatchProofs!DispatchImplementsActors` | `ActorSpec` | `DispatchInv` |
| `WorkerPoolProofs!PoolSafe` | `[]PoolInv` | `PoolIInv` |
| `HotfixProofs!NoStaleHandler` | `[]HandlersCurrent` | `HotfixInv` |
| `HotfixProofs!LoopLeavesLoaded` | `LoadedIsRun` | `HotfixInv` |
| `SchedulerProofs!SectionExclusion` | `[]QueueExclusion` | `SchedulerInv` |
| `SchedulerProofs!SessionsAgree` | `[]SessionsSound` | `SessionInv` |
| `SchedulerProofs!CallsRemembered` | `[]NoCallForgotten` | `CallInv` |
| `SocketServerProofs!NoReservedSlotLost` | `[]NoSlotLost` | `SocketInv` |
| `SocketServerProofs!NothingAfterTheEnd` | `ClosedForGood` | `SocketInv` |
| `SocketServerProofs!PacketsStayWhole` | `[]PacketsWhole` | `PacketInv` |
| `LauncherProofs!UniqueServices` | `[]UniqueSound` | `LaunchInv` |

`HandleStorageProofs` and `StructureProofs` each hold the proofs of two modules.

**RwLock.** `Exclusion` is not inductive: the writer's test of `read` says
nothing unless `read` counts the announced readers. `LockInv` adds that count
(`ReadCounts`), that the flag is set exactly while one thread has claimed it
(`OneClaim`), and that no reader is inside with a writer (`NoOldReader`). The
lemmas `CountUp` and `CountDown` carry the cardinality of the announced set over
one step.

**Mailbox.** `RingInv` says that indices are cells and that the cells from head
to tail were written; the lemmas follow the four kinds of step: a pop takes the
first cell, a push with room appends, a push that fills the array appends and
copies in order (`PushGrowStep`), and the overload bookkeeping leaves the
contents alone. `BacklogReported` needs to know what the doubling loop of
`skynet_mq_pop` computes (`ThresholdDoubled`).

Loops like that one are recursive functions here. The library's induction
theorems have an operator parameter that the provers cannot instantiate; the
proofs go by induction on a set instead (`Climb`), which follows from the least
counterexample that `WFMin` and `NatLessThanWellFounded` give.

**Timer wheel.** `TimerInv` says of the timers that wait that each is once in the
list `Home` gives for its expiry and the clock, and that those of one expiry are
in one list, in the order they were added (`Filed`). The key is `HomeStays`: when
the clock moves by one, a timer belongs to another list only if it was in the list
`timer_shift` moves, because a digit of the clock changes only when all lower ones
become zero. `MoveFiles` follows `move_list` turn by turn, and `Dispatched` the
list of the current tick until its timers have fired. The wrap of the clock is
inside the theorem: all of it is arithmetic modulo `Clock`.

**Handle table.** `TableInv` is what any number of creating threads leave true:
the size of the table divides the number of handles, so that the probes of a
registration meet every cell, and the names are sorted (`Narrowed` is the
invariant of the bisection). A full table has a context in every cell, and the
doubled one has room by the pigeonhole principle. `HandleInv` adds `InPlace`, every
context is in the cell of its handle, stored or about to be. This is true only
while one thread at a time creates services (`OneLauncher`), which is what the
finding `handle_race` is about; then no two contexts of a full table meet in the
doubled one, since equal remainders by the double size are equal by the size
(`RemOfRem`). For `retireall`, `Pass` says that as long as a pass has retired
nothing the handles it found at its start are in cells it has not come to, where a
doubling moves them only up, or are the one it has read; that a new handle is none
of them (`Fresh`) needs the counter not to wrap (`NoWrap`, a hypothesis on the
behaviour; without it the property is false, see the first observation above).

**Dispatch.** None of the properties is inductive by itself. `DispatchInv` ties
them together: where a thread is decides which mailboxes it has; a mailbox is in
some place exactly when it is allocated and `in_global` or released; `ref` is the
number of references, and at most one thread has seen a context's last reference
go. References are counted by what a step does to the acting thread's own
(`MoveTokens`). The refinement of `Actors` maps each critical section to a step of
an actor or to none.

**WorkerPool.** That nobody waits after the broadcast rests on who owns the mutex
(`MutexOwned`), and that the count of services stays a number on hung callbacks
keeping theirs (`TotalHeld`).

**Hotfix.** `LoadedIsRun` speaks of the end of a loop of many steps; `PassInv`
says what holds after each turn, for the modules visited so far. The proof showed
that the property holds also of objects listed under a module that the loop
skips, an exemption the property used to have and no longer does.

**Scheduler.** The counter `ref` of a queue does not show exclusion: a coroutine
is let in when `current_thread` is itself or nil. `SchedulerInv` says that nobody
is inside while `ref` is 0 and only `current_thread` is otherwise, and that the
tables coroutines are resumed from hold no nil. `SessionInv` adds that the session
tables and the coroutines name each other, that a session in the error queue is
that of a call or is over (so a failed call never resumes a sleeper), that a
session which sleeps or was broken off has its timer to come, and that
`watching_service` covers the handlers and closures at work. `CallInv` says where
the answer of each call is to come from and that only a service that has reported
its end is taken for dead; a step keeps it when the acting service is `Honest`:
what it took is in its tables, and what it no longer owes it has sent or has
in `mute`.

**SocketServer.** `SocketInv` says who holds a reserved slot: one worker that has
not asked yet (`ClaimsHeld`) or one command, the first of its id
(`OpeningsHeld`). Hence the id of an ended socket is found in its slot only while
the slot is free or reserved (`Ended`): commands report nothing there, and an
event only when a worker has reserved the slot and not yet named it. `PacketInv`
takes what a peer got together with what is buffered at high priority: whole
packets, as is the low list, because `raise_uncomplete` moves a packet that was
begun (`Flow`); numbers rise at each priority, since a packet in the pipe is newer
than all that was ever buffered (`Below`).

**Launcher.** `LaunchInv` follows the request of an asker: one LAUNCH in the
mailbox (`Requests`) or one service in `instance` (`Starting`), never both; while
it is under way no other service of the name runs. REMOVE in the mailbox means
the service has asked for its end (`Reports`), so a name that becomes free again
has none.

Assumptions: those named `...Assumption` in the modules, which TLC evaluates in
every run. They are sizes that are positive numbers, `nil`-like values and
strings that are none of the sets' members, and bounds that are functions to the
naturals; of the handle table, that the first size doubled some times is the
number of handles (4 and 2^24 in the code) and that there are fewer services than
handles; of the timer, that delays are below half the clock. `OneLauncher` and `NoWrap` are
hypotheses of the three theorems that name them, because the properties are false
without. No theorem assumes fairness.

Only model-checked is liveness (`WriterProgress`, `Served`, `Reclaimed`,
`WorkTaken`, `Shutdown`, `EndlessReported`, `EveryTimerFires`, `NoneStaysBehind`,
`EveryLaunchAnswered`, `TableSettles`, `Converges`, `EveryCallEnds`, `QueuesDrain`,
`CloseAnswered`, `BuffersDrain`): fairness is out of the prover's reach. Every
other property of a passing run is stated by a theorem.

## 6. Not modelled

Harbor and cluster (the node runs with harbor 0), sharedata, stm, multicast,
datacenter, snax, gates and database drivers (not started by this server),
logging, configuration parsing, daemon mode, profiling, the module hotfix library
and the containers of `server/common` that no service uses. In the modelled parts:
`skynet_command` beyond launch, kill, exit, abort and names; of the scheduler,
protocols without a handler, `skynet.term`, answers from forks, calls to oneself
and the wrap of the session counter; of the launcher, `STAT`, `MEM`, `GC`,
`LOGLAUNCH` and global names; of the socket server, owners, user objects,
addresses and options, exit and release and the wrap of ids; memory allocation
failure; weak memory orders.

Most of the repository's C code is third-party: jemalloc, the Lua interpreter,
lua-openssl, lpeg, pbc, lsocket and others, about seven lines in ten. They
are not this system's logic, keep their own tests, and are taken at their
interface (the one exception is skynet's code cache inside `lauxlib.c`). The mapped
lines are therefore a small share of all lines, and a large share of the kernel,
of the Lua scheduler, of the launcher and of the hotfix code.

## 7. Plan

1. Composition: names and handles reused after a retirement, under the
   dispatcher; the rollout with the object hotfix inside each service; the
   scheduler on the dispatcher's mailboxes.
2. More of the system: the configuration centre, the Lua timer and state machine,
   the module hotfix library.
