----------------------------- MODULE Scheduler ------------------------------
(***************************************************************************)
(* The coroutine scheduler of Lua services (lualib/skynet.lua) with the    *)
(* critical sections of skynet/queue.lua: sessions, calls and their        *)
(* answers, sleeping and waking, forks, error propagation and exit.        *)
(*                                                                         *)
(* st[s] holds the Lua tables of service s under the names they have in    *)
(* the code, and where its dispatch_message is:                            *)
(*   idle   between two messages                                           *)
(*   run    the coroutine cur is running service code                      *)
(*   wake   suspend() has handled a yield: dispatch_wakeup comes next      *)
(*   err    dispatch_error_queue comes next                                *)
(*   fork   raw_dispatch_message or a fork is over: the loop over forks    *)
(*   exit   skynet.exit has reported, c.command("EXIT") comes next         *)
(*   closed the context is gone: its mailbox is dropped                    *)
(* depth counts the suspend() frames below that still have their           *)
(* dispatch_error_queue to do.  Service code is arbitrary: a running       *)
(* coroutine does any operation of the library next.  mute is no table of  *)
(* the code: it collects the requests whose answer nothing guarantees,     *)
(* because the handler ended without one, or the service was killed, or    *)
(* had exited when it took the request.                                    *)
(***************************************************************************)
EXTENDS Integers, Sequences, FiniteSets, SequencesExt

CONSTANTS
    Services,
    Outside,     \* senders that are no Lua service: no answer is expected
    NCo,         \* bound: coroutines of a service
    Fronts,      \* the services outside senders know
    Budgets      \* bounds: how often each operation happens in a behaviour

ASSUME SchedulerAssumption ==
    /\ Outside \notin Services
    /\ NCo \in Nat \ {0}
    /\ Fronts \subseteq Services
    /\ \A f \in Budgets : DOMAIN f =
         {"any", "job", "call", "sleep", "wait", "wakeup", "fork", "defer", "enter",
          "raise", "exit", "kill"}

VARIABLES
    st,      \* the state of each service
    q,       \* its mailbox (a FIFO, see Fifo and Dispatch)
    timers,  \* running timers: pairs of a service and a session
    left     \* what is left of the budget

vars == <<st, q, timers, left>>

Co == 1..NCo
None == [from |-> Outside, ses |-> -1]      \* serves no request
Nil == 0
BREAK == -1

Msg(t, from, ses) == [type |-> t, from |-> from, ses |-> ses]
With(f, x, v) == [y \in DOMAIN f \cup {x} |-> IF y = x THEN v ELSE f[y]]
Without(f, x) == [y \in DOMAIN f \ {x} |-> f[y]]

Empty ==
    [mode |-> "idle", cur |-> Nil, depth |-> 0, alive |-> TRUE, sesid |-> 0,
     at |-> [c \in Co |-> "pool"], on |-> [c \in Co |-> Nil],
     coroutine_pool |-> [i \in Co |-> NCo + 1 - i],
     session_id_coroutine |-> <<>>,
     request |-> [c \in Co |-> None], session_response |-> {},
     unresponse |-> {},
     wakeup_queue |-> <<>>, sleep_session |-> <<>>,
     watching_service |-> [a \in Services \cup {Outside} |-> 0],
     watching_session |-> <<>>, dead_service |-> {},
     error_queue |-> <<>>, fork_queue |-> {},
     current_thread |-> Nil, ref |-> 0, thread_queue |-> <<>>, inside |-> {},
     mute |-> {}]

Init ==
    /\ st = [s \in Services |-> Empty]
    /\ q = [s \in Services |-> <<>>]
    /\ timers = {}
    /\ left \in Budgets

-----------------------------------------------------------------------------
(* Parts of the functions, on the state r of one service. *)

Spend(what) ==
    /\ left[what] > 0 /\ left["any"] > 0
    /\ left' = [left EXCEPT ![what] = @ - 1, !["any"] = @ - 1]

(* Faulty form: dispatch_error_queue is called after a wakeup only. *)
Settled_NoErrors(r) ==
    LET f == IF r.mode = "wake" /\ r.wakeup_queue = <<>> THEN "fork" ELSE r.mode
    IN  [r EXCEPT !.mode = IF f = "fork" /\ r.fork_queue = {} THEN "idle" ELSE f,
                  !.depth = IF f = "fork" THEN 0 ELSE @]

(* The phases of dispatch_message that find their queue empty. *)
Settled(r) ==
    LET e == IF r.mode = "wake" /\ r.wakeup_queue = <<>> THEN "err" ELSE r.mode
        f == IF e = "err" /\ r.error_queue = <<>> THEN "fork" ELSE e
    IN  [r EXCEPT !.mode = IF f = "fork" /\ r.fork_queue = {} THEN "idle" ELSE f,
                  !.depth = IF f = "fork" THEN 0 ELSE @]

Set(s, r) == st' = [st EXCEPT ![s] = Settled(r)]

(* A send to a retired handle fails; the caller of Post decides what then. *)
Post(t, m) == IF t \in Services /\ st[t].alive THEN [q EXCEPT ![t] = Append(@, m)] ELSE q

(* co_create: the last pooled coroutine, or a new one. *)
NewCo(r) == Last(r.coroutine_pool)
Created(r, state) ==
    [r EXCEPT !.coroutine_pool = Front(@), !.at[NewCo(r)] = state]

(* A coroutine yields with a session; suspend() enters it in the tables. *)
Parked(r, how, ses) ==
    [r EXCEPT !.mode = "wake", !.cur = Nil, !.at[r.cur] = how, !.on[r.cur] = ses,
              !.session_id_coroutine = With(@, ses, r.cur),
              !.sleep_session = IF how = "call" THEN @ ELSE With(@, r.cur, ses)]

(* Faulty form: skynet.sleep and skynet.wait keep their sleep_session. *)
Cleaned_StillAsleep(r, c) ==
    [r EXCEPT !.watching_session = IF r.at[c] = "call" THEN Without(@, r.on[c]) ELSE @]

(* The first lines after the yield: skynet.sleep, wait and yield_call clean *)
(* their tables.                                                            *)
Cleaned(r, c) ==
    [r EXCEPT !.watching_session = IF r.at[c] = "call" THEN Without(@, r.on[c]) ELSE @,
              !.sleep_session = Without(@, c),
              !.session_id_coroutine =
                  IF r.at[c] \in {"wait", "line"} THEN Without(@, r.on[c]) ELSE @]

(* Faulty form: the assertion is left out. *)
SectionFree_NoTest(r) == TRUE

(* assert(ref == 0) of a coroutine that leaves the line of a section. *)
SectionFree(r) == r.ref = 0

Resumed(r, c) ==
    LET awake == [Cleaned(r, c) EXCEPT !.mode = "run", !.cur = c, !.at[c] = "run",
                                       !.on[c] = Nil]
    IN  IF r.at[c] # "line" THEN awake
        ELSE IF SectionFree(r)
        THEN [awake EXCEPT !.current_thread = c, !.ref = 1, !.inside = @ \cup {c}]
        ELSE [awake EXCEPT !.at[c] = "failed"]

(* xpcall_ret when ref has come to 0: the next thread of the line. *)
HandOver(r) ==
    LET next == IF r.thread_queue = <<>> THEN Nil ELSE Head(r.thread_queue)
    IN  [r EXCEPT !.ref = 0, !.inside = @ \ {r.cur}, !.current_thread = next,
                  !.thread_queue = IF next = Nil THEN @ ELSE Tail(@),
                  !.wakeup_queue = IF next \in DOMAIN r.sleep_session
                                   THEN Append(@, next) ELSE @]

(* suspend() and response() give a reference to the source back. *)
Released(r, a) == [r EXCEPT !.watching_service[a] = IF @ > 0 THEN @ - 1 ELSE 0]

(* An error leaves suspend() and all frames below; pcall catches it. *)
Thrown(r) == [r EXCEPT !.mode = "fork", !.cur = Nil, !.depth = 0]

-----------------------------------------------------------------------------
(* dispatch_message *)

(* Faulty form: the end of a service fails no call. *)
Watching_None(r, a) == {<<>>}

(* Sessions of calls to a, in the order pairs() happens to give. *)
Watching(r, a) ==
    SetToSeqs({n \in DOMAIN r.watching_session : r.watching_session[n] = a})

TakeResponse(s) ==
    LET r == st[s]
        m == Head(q[s])
        known == m.ses \in DOMAIN r.session_id_coroutine
        c == r.session_id_coroutine[m.ses]
        gone == [r EXCEPT !.session_id_coroutine = Without(@, m.ses)]
    IN  /\ m.type = "resp"
        /\ \/ known /\ c # BREAK /\ Set(s, Resumed(gone, c))
           \/ known /\ c = BREAK /\ Set(s, [gone EXCEPT !.mode = "fork"])
           \/ ~known /\ Set(s, Thrown(r))                  \* unknown_response

TakeRequest(s) ==
    LET r == st[s]
        m == Head(q[s])
    IN  /\ m.type = "req"
        /\ r.coroutine_pool # <<>>
        /\ Set(s, [Created(r, "run") EXCEPT !.mode = "run", !.cur = NewCo(r),
                     !.request[NewCo(r)] = [from |-> m.from, ses |-> m.ses],
                     !.watching_service[m.from] = @ + 1,
                     !.mute = IF r.alive THEN @ ELSE @ \cup {m}])

(* _error_dispatch runs in a coroutine of its own and ends at once: the     *)
(* count of watching_service goes up and down again, and is not 0 meanwhile. *)
TakeError(s) ==
    LET r == st[s]
        m == Head(q[s])
    IN  /\ m.type = "err"
        /\ \/ /\ m.ses = 0
              /\ \E e \in Watching(r, m.from) :
                   Set(s, [r EXCEPT !.mode = "wake", !.error_queue = @ \o e,
                                    !.dead_service = @ \cup {m.from}])
           \/ /\ m.ses # 0
              /\ Set(s, [r EXCEPT !.mode = "wake", !.error_queue =
                           IF m.ses \in DOMAIN r.watching_session
                           THEN Append(@, m.ses) ELSE @])

(* A worker whose weight is not negative goes on taking messages in a turn, *)
(* also after the service has exited: mute records the requests among them. *)
Take(s) ==
    /\ st[s].mode = "idle" /\ q[s] # <<>>
    /\ q' = [q EXCEPT ![s] = Tail(@)]
    /\ TakeResponse(s) \/ TakeRequest(s) \/ TakeError(s)
    /\ UNCHANGED <<timers, left>>

DispatchWakeup(s) ==
    LET r == st[s]
        c == Head(r.wakeup_queue)
        popped == [r EXCEPT !.wakeup_queue = Tail(@)]
    IN  /\ r.mode = "wake"
        /\ \/ /\ c \notin DOMAIN r.sleep_session
              /\ Set(s, [popped EXCEPT !.mode = "err"])
           \/ /\ c \in DOMAIN r.sleep_session
              /\ Set(s, Resumed([popped EXCEPT !.depth = @ + 1,
                          !.session_id_coroutine[r.sleep_session[c]] = BREAK], c))
        /\ UNCHANGED <<q, timers, left>>

DispatchError(s) ==
    LET r == st[s]
        n == Head(r.error_queue)
        popped == [r EXCEPT !.error_queue = Tail(@)]
    IN  /\ r.mode = "err"
        /\ \/ /\ n \notin DOMAIN r.session_id_coroutine
              /\ Set(s, Thrown(popped))                    \* resume(nil)
           \/ /\ n \in DOMAIN r.session_id_coroutine
              /\ Set(s, Resumed([popped EXCEPT !.session_id_coroutine = Without(@, n)],
                                r.session_id_coroutine[n]))
        /\ UNCHANGED <<q, timers, left>>

RunForks(s) ==
    LET r == st[s]
    IN  /\ r.mode = "fork"
        /\ \E c \in r.fork_queue : Set(s, Resumed([r EXCEPT !.fork_queue = @ \ {c}], c))
        /\ UNCHANGED <<q, timers, left>>

-----------------------------------------------------------------------------
(* What a running coroutine may do.  pcall around any of it is service code. *)

Running(s) == st[s].mode = "run" /\ st[s].at[st[s].cur] = "run"
Mine(s) == st[s].request[st[s].cur]

(* skynet.call; to a retired service it raises, which leaves no trace here *)
(* unless nobody catches it (Raise).                                       *)
Call(s, t) ==
    LET n == st[s].sesid + 1
    IN  /\ Running(s) /\ Spend("call")
        /\ st[t].alive
        /\ q' = Post(t, Msg("req", s, n))
        /\ Set(s, [Parked(st[s], "call", n) EXCEPT !.sesid = n,
                     !.watching_session = With(@, n, t)])
        /\ UNCHANGED timers

Sleep(s) ==
    LET n == st[s].sesid + 1
    IN  /\ Running(s) /\ Spend("sleep")
        /\ timers' = timers \cup {<<s, n>>}
        /\ Set(s, [Parked(st[s], "sleep", n) EXCEPT !.sesid = n])
        /\ UNCHANGED q

Wait(s) ==
    LET n == st[s].sesid + 1
    IN  /\ Running(s) /\ Spend("wait")
        /\ Set(s, [Parked(st[s], "wait", n) EXCEPT !.sesid = n])
        /\ UNCHANGED <<q, timers>>

(* skynet.wakeup of any sleeper, one in the line of a section included. *)
Wakeup(s, c) ==
    /\ Running(s) /\ Spend("wakeup")
    /\ c \in DOMAIN st[s].sleep_session
    /\ Set(s, [st[s] EXCEPT !.wakeup_queue = Append(@, c)])
    /\ UNCHANGED <<q, timers>>

Fork(s) ==
    LET r == st[s]
    IN  /\ Running(s) /\ r.coroutine_pool # <<>> /\ Spend("fork")
        /\ Set(s, [Created(r, "ready") EXCEPT !.fork_queue = @ \cup {NewCo(r)}])
        /\ UNCHANGED <<q, timers>>

Timeout(s) ==
    LET r == st[s]
        n == r.sesid + 1
    IN  /\ Running(s) /\ r.coroutine_pool # <<>> /\ Spend("fork")
        /\ timers' = timers \cup {<<s, n>>}
        /\ Set(s, [Created(r, "ready") EXCEPT !.sesid = n, !.on[NewCo(r)] = n,
                     !.session_id_coroutine = With(@, n, NewCo(r))])
        /\ UNCHANGED q

(* An answer that is too large is replaced by an error. *)
Answers == {"resp", "err"}

(* A second skynet.ret or skynet.response raises in suspend(): the          *)
(* coroutine is never resumed.                                              *)
AnswerTwice(s) ==
    LET r == st[s]
    IN  /\ Running(s) /\ Mine(s).ses > 0 /\ r.cur \in r.session_response
        /\ Spend("raise")
        /\ Set(s, Thrown([r EXCEPT !.at[r.cur] = "lost"]))
        /\ UNCHANGED <<q, timers>>

Ret(s) ==
    LET r == st[s]
    IN  /\ Running(s) /\ Mine(s).ses > 0 /\ r.cur \notin r.session_response
        /\ Set(s, [r EXCEPT !.session_response = @ \cup {r.cur}])
        /\ IF Mine(s).from \in r.dead_service THEN q' = q
           ELSE \E t \in Answers : q' = Post(Mine(s).from, Msg(t, s, Mine(s).ses))
        /\ UNCHANGED <<timers, left>>

(* skynet.response *)
Defer(s) ==
    LET r == st[s]
    IN  /\ Running(s) /\ Mine(s).ses > 0 /\ r.cur \notin r.session_response
        /\ Spend("defer")
        /\ Set(s, [r EXCEPT !.session_response = @ \cup {r.cur},
                     !.unresponse = @ \cup {Mine(s)},
                     !.watching_service[Mine(s).from] = @ + 1])
        /\ UNCHANGED <<q, timers>>

(* The closure skynet.response returned is called, by any coroutine. *)
Respond(s, j) ==
    LET r == st[s]
    IN  /\ Running(s) /\ j \in r.unresponse
        /\ Set(s, Released([r EXCEPT !.unresponse = @ \ {j}], j.from))
        /\ IF j.from \in r.dead_service THEN q' = q
           ELSE \E t \in Answers : q' = Post(j.from, Msg(t, s, j.ses))
        /\ UNCHANGED <<timers, left>>

(* The function of skynet.queue, around a function that may yield. *)
Enter(s) ==
    LET r == st[s]
        n == r.sesid + 1
    IN  /\ Running(s) /\ Spend("enter")
        /\ IF r.current_thread \in {Nil, r.cur}
           THEN Set(s, [r EXCEPT !.current_thread = r.cur, !.ref = @ + 1,
                                 !.inside = @ \cup {r.cur}])
           ELSE Set(s, [Parked(r, "line", n) EXCEPT !.sesid = n,
                          !.thread_queue = Append(@, r.cur)])
        /\ UNCHANGED <<q, timers>>

Leave(s) ==
    LET r == st[s]
    IN  /\ Running(s) /\ r.cur \in r.inside
        /\ Set(s, IF r.ref = 1 THEN HandOver(r) ELSE [r EXCEPT !.ref = @ - 1])
        /\ UNCHANGED <<q, timers, left>>

(* The request behind a promise of an answer. *)
Request(j) == Msg("req", j.from, j.ses)

(* The coroutine's function returns.  Nothing checks that it has answered:  *)
(* a handler that has not leaves its caller waiting.                        *)
Return(s) ==
    LET r == st[s]
        silent == Mine(s).ses > 0 /\ r.cur \notin r.session_response
        done == [r EXCEPT !.mode = "wake", !.cur = Nil, !.at[r.cur] = "pool",
                   !.coroutine_pool = Append(@, r.cur), !.request[r.cur] = None,
                   !.session_response = @ \ {r.cur},
                   !.mute = IF silent THEN @ \cup {Request(Mine(s))} ELSE @]
    IN  /\ Running(s) /\ r.cur \notin r.inside
        /\ Set(s, IF Mine(s) = None THEN done ELSE Released(done, Mine(s).from))
        /\ UNCHANGED <<q, timers, left>>

(* The error branch of suspend(); xpcall_ret is left on the way.  The count *)
(* of watching_service is not given back.                                   *)
Died(s, r) ==
    LET open == IF r.cur \in r.inside THEN HandOver(r) ELSE r
    IN  /\ Set(s, Thrown([open EXCEPT !.at[r.cur] = "dead", !.request[r.cur] = None]))
        /\ q' = IF Mine(s).ses > 0 THEN Post(Mine(s).from, Msg("err", s, Mine(s).ses)) ELSE q
        /\ UNCHANGED timers

Raise(s) == Running(s) /\ Spend("raise") /\ Died(s, st[s])

(* assert(ref == 0) has failed in a coroutine woken out of its turn. *)
FailAssert(s) ==
    /\ st[s].mode = "run" /\ st[s].at[st[s].cur] = "failed"
    /\ Died(s, st[s])
    /\ UNCHANGED left

(* skynet.exit up to c.command("EXIT"): errors to the callers, to those     *)
(* who wait for a response() and to the services called.                    *)
Asked(r, t) ==
    {r.request[c].ses : c \in {d \in Co : r.request[d].ses > 0 /\ r.request[d].from = t}}

(* Faulty form: the closures are not called. *)
Owed_None(r, t) == {}

Owed(r, t) ==
    {j.ses : j \in {i \in r.unresponse : i.from = t /\ t \notin r.dead_service}}

Reports(s, t) ==
    LET r == st[s]
        called == IF t \in Range(r.watching_session) THEN <<0>> ELSE <<>>
    IN  {x \o y \o called : x \in SetToSeqs(Asked(r, t)), y \in SetToSeqs(Owed(r, t))}

Exit(s) ==
    /\ Running(s) /\ Spend("exit")
    /\ Set(s, [st[s] EXCEPT !.mode = "exit", !.fork_queue = {}, !.unresponse = {},
                 !.watching_service = [a \in DOMAIN @ |->
                    @[a] - Cardinality({j \in st[s].unresponse : j.from = a})]])
    /\ \E e \in [Services -> UNION {Reports(s, t) : t \in Services}] :
         /\ \A t \in Services : e[t] \in Reports(s, t)
         /\ q' = [t \in Services |-> IF st[t].alive
                    THEN q[t] \o [i \in 1..Len(e[t]) |-> Msg("err", s, e[t][i])]
                    ELSE q[t]]
    /\ UNCHANGED timers

(* The handle is retired and the coroutine yields QUIT: suspend() returns,  *)
(* to the dispatch_error_queue of a frame below if there is one.            *)
Retire(s) ==
    LET r == st[s]
    IN  /\ r.mode = "exit"
        /\ Set(s, [r EXCEPT !.alive = FALSE, !.at[r.cur] = "lost", !.cur = Nil,
                            !.mode = IF r.depth > 0 THEN "err" ELSE "fork",
                            !.depth = IF @ > 0 THEN @ - 1 ELSE 0])
        /\ UNCHANGED <<q, timers, left>>

-----------------------------------------------------------------------------
(* Around the services. *)

(* The context of a retired service is deleted, its Lua state closed, and   *)
(* its mailbox drained with drop_message.  Its timers fire for nobody.      *)
Drop(s) ==
    /\ ~st[s].alive /\ st[s].mode = "idle"
    /\ st' = [st EXCEPT ![s] = [Empty EXCEPT !.alive = FALSE, !.mode = "closed",
                                                !.mute = st[s].mute]]
    /\ q' = [t \in Services |->
               IF t = s THEN <<>>
               ELSE IF ~st[t].alive THEN q[t]
               ELSE q[t] \o [i \in 1..Cardinality({k \in DOMAIN q[s] : q[s][k].from = t})
                               |-> Msg("err", s, 0)]]
    /\ timers' = {x \in timers : x[1] # s}
    /\ UNCHANGED left

(* What service r has been asked and has not answered. *)
Unanswered(r) ==
    r.unresponse \cup
    {r.request[c] : c \in {d \in Co : r.request[d].ses > 0 /\ d \notin r.session_response}}

(* The handle is retired from outside (skynet.kill, KILL of the launcher),  *)
(* at any moment.  Nobody is told; the worker ends its turn.                *)
Kill(s) ==
    /\ st[s].alive /\ Spend("kill")
    /\ st' = [st EXCEPT ![s].alive = FALSE,
                        ![s].mute = @ \cup {Request(j) : j \in Unanswered(st[s])}]
    /\ UNCHANGED <<q, timers>>

(* dispatch_list of skynet_timer.c *)
Fire(s, n) ==
    /\ <<s, n>> \in timers
    /\ timers' = timers \ {<<s, n>>}
    /\ q' = Post(s, Msg("resp", Outside, n))
    /\ UNCHANGED <<st, left>>

(* A message nobody waits for, such as a client's. *)
Job(s) ==
    /\ s \in Fronts /\ st[s].alive /\ Spend("job")
    /\ q' = Post(s, Msg("req", Outside, 0))
    /\ UNCHANGED <<st, timers>>

(* Any later message whose handler ends at once.  Nothing in skynet.lua     *)
(* sends one: it is not part of Fairness, and the properties that need it   *)
(* say so (MessagesCome).                                                   *)
Tick(s) ==
    /\ st[s].alive /\ st[s].mode = "idle" /\ q[s] = <<>>
    /\ Set(s, [st[s] EXCEPT !.mode = "wake"])
    /\ UNCHANGED <<q, timers, left>>

Dispatch(s) == Take(s) \/ DispatchWakeup(s) \/ DispatchError(s) \/ RunForks(s)

Code(s) ==
    \/ \E t \in Services \ {s} : Call(s, t)
    \/ Sleep(s) \/ Wait(s) \/ Fork(s) \/ Timeout(s)
    \/ \E c \in Co : Wakeup(s, c)
    \/ AnswerTwice(s) \/ Ret(s) \/ Defer(s)
    \/ \E j \in st[s].unresponse : Respond(s, j)
    \/ Enter(s) \/ Leave(s)
    \/ Return(s) \/ Raise(s) \/ FailAssert(s) \/ Exit(s) \/ Retire(s)

Next ==
    \/ \E s \in Services : Dispatch(s) \/ Code(s) \/ Drop(s) \/ Kill(s) \/ Job(s) \/ Tick(s)
    \/ \E x \in timers : Fire(x[1], x[2])

Spec == Init /\ [][Next]_vars

(* Workers run every service that has messages, service code gets on with  *)
(* what it does, and the clock ticks.                                      *)
Fairness ==
    /\ \A s \in Services : WF_vars(Dispatch(s)) /\ WF_vars(Code(s)) /\ WF_vars(Drop(s))
    /\ WF_vars(\E x \in timers : Fire(x[1], x[2]))

FairSpec == Spec /\ Fairness

-----------------------------------------------------------------------------
Sleeping == {"sleep", "wait", "line"}

(* Type invariant of the tables of a service that the others depend on. *)
TypeOK ==
    /\ DOMAIN st = Services /\ DOMAIN q = Services
    /\ \A s \in Services : LET r == st[s] IN
         /\ r.mode \in {"idle", "run", "wake", "err", "fork", "exit", "closed"}
         /\ r.mode = "run" => r.cur \in Co
         /\ r.on \in [Co -> Nat]
         /\ r.session_id_coroutine \in [DOMAIN r.session_id_coroutine -> Co \cup {BREAK}]
         /\ Range(r.wakeup_queue) \cup Range(r.thread_queue) \cup Range(r.coroutine_pool) \subseteq Co
         /\ r.ref \in Nat

(* watching_service counts at least the handlers and closures that work for *)
(* a service, so the addition in suspend() never meets nil.                 *)
WatchCounts(r) ==
    \A x \in DOMAIN r.watching_service :
      r.watching_service[x] >=
         Cardinality({c \in Co : r.request[c] # None /\ r.request[c].from = x})
         + Cardinality({j \in r.unresponse : j.from = x})

(* Sessions and coroutines agree: a parked coroutine is found under the     *)
(* session it yielded with and under no other, only sleepers can be woken,  *)
(* and a session marked BREAK still has its timer to come.  A late timeout, *)
(* a wakeup or a queued error therefore never resumes a coroutine that      *)
(* waits for something else (session_id_coroutine and sleep_session of      *)
(* skynet.lua), and no bookkeeping of who works for whom runs short.        *)
SessionsSound ==
    TypeOK /\ \A s \in Services : LET r == st[s] IN
      /\ WatchCounts(r)
      /\ \A c \in Co :
           /\ r.at[c] \in Sleeping \cup {"call"} =>
                r.on[c] \in DOMAIN r.session_id_coroutine
                /\ r.session_id_coroutine[r.on[c]] = c
           /\ c \in DOMAIN r.sleep_session <=> r.at[c] \in Sleeping
           /\ c \in DOMAIN r.sleep_session => r.sleep_session[c] = r.on[c]
      /\ \A n \in DOMAIN r.session_id_coroutine :
           LET c == r.session_id_coroutine[n]
           IN  IF c = BREAK
               THEN r.alive => <<s, n>> \in timers \/ Msg("resp", Outside, n) \in Range(q[s])
               ELSE r.on[c] = n /\ r.at[c] \in Sleeping \cup {"call", "ready"}
      /\ \A n \in DOMAIN r.watching_session :
           \E c \in Co : r.at[c] = "call" /\ r.on[c] = n

(* No call is forgotten by the library: while a service waits for an        *)
(* answer, the request is in the callee's mailbox, or a handler or a        *)
(* response() closure of a callee that lives still owes the answer, or the  *)
(* answer or an error is in the caller's mailbox or error queue, through    *)
(* errors and exits on both sides.  The exceptions are the requests in      *)
(* mute, which the code does forget: the handler returned without answering *)
(* (suspend() does not mind), the callee was killed, or it took the request *)
(* after its own exit.                                                      *)
NoCallForgotten ==
    \A s \in Services : LET r == st[s] IN
      r.alive /\ r.mode # "exit" => \A n \in DOMAIN r.watching_session :
        LET t == r.watching_session[n]
            j == [from |-> s, ses |-> n]
        IN  \/ n \in Range(r.error_queue)
            \/ {Msg("resp", t, n), Msg("err", t, n), Msg("err", t, 0)} \cap Range(q[s]) # {}
            \/ Msg("req", s, n) \in Range(q[t]) \cup st[t].mute
            \/ st[t].alive /\ (j \in st[t].unresponse
                 \/ \E c \in Co : st[t].request[c] = j /\ c \notin st[t].session_response)

(* skynet.queue: one coroutine at a time is inside a critical section,      *)
(* whoever is woken when and whatever fails inside.                         *)
QueueExclusion == \A s \in Services : Cardinality(st[s].inside) <= 1

(* What the library cannot end: waits nobody wakes, answers service code    *)
(* keeps for later, and calls nobody will answer.                           *)
Stalled ==
    \E t \in Services :
      \/ st[t].unresponse # {}
      \/ \E c \in Co : st[t].at[c] \in {"wait", "line"}
      \/ \E m \in st[t].mute :
           m.from \in Services /\ m.ses \in DOMAIN st[m.from].watching_session

(* A service that is left with woken sleepers or failed calls in its queues *)
(* gets a further message: a condition, which skynet.lua does not ensure.   *)
MessagesCome == \A s \in Services : WF_vars(Tick(s))

(* Every call ends with an answer or an error, although callees fail and    *)
(* exit and failing callers leave the error queue half done: on the         *)
(* condition that messages keep coming, and but for the calls that are      *)
(* Stalled.                                                                 *)
EveryCallEnds ==
    MessagesCome =>
      []<>(Stalled \/ \A s \in Services : st[s].alive => st[s].watching_session = <<>>)

(* The next messages clear what an error or a stale entry has left in       *)
(* wakeup_queue and error_queue: if messages keep coming, woken sleepers    *)
(* and failed calls do not stay there.                                      *)
QueuesDrain ==
    MessagesCome =>
      []<>(\A s \in Services : st[s].alive => st[s].wakeup_queue \o st[s].error_queue = <<>>)

(* The assertion of skynet/queue.lua: who leaves the line has the turn.  It *)
(* does not hold once a coroutine was woken twice (README, Observations).   *)
TurnIsMine == \A s \in Services : \A c \in Co : st[s].at[c] # "failed"

=============================================================================
