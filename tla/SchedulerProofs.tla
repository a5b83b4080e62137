-------------------------- MODULE SchedulerProofs ---------------------------
(***************************************************************************)
(* Proofs about the Lua scheduler of module Scheduler, for any number of   *)
(* services, coroutines and messages and any service code.                 *)
(*                                                                         *)
(* Critical sections (QueueExclusion).  The counter ref of queue.lua does  *)
(* not show that one coroutine at most is inside.  SchedulerInv says that  *)
(* while ref is 0 nobody is, and otherwise the coroutine in                *)
(* current_thread is, and only that one.  It needs that current_thread is  *)
(* then a coroutine and not nil, the value that lets anyone in; so the     *)
(* tables from which coroutines are resumed (the pool, the sessions, the   *)
(* sleepers and the forks) are known to hold no nil.                       *)
(*                                                                         *)
(* Sessions (SessionsSound).  The session tables are changed by five kinds *)
(* of step: a coroutine yields, is resumed, ends, is made, or is given a   *)
(* timer; a lemma about each (YieldKept to TimeoutKept) is cited wherever  *)
(* a handler takes that step.  SessionInv adds to the property that a      *)
(* coroutine is in the pool once and then waits for nothing (Roles), that  *)
(* a session in the error queue is that of a call or is over (Errors), so  *)
(* that a failed call never resumes a sleeper, that every session that     *)
(* sleeps or was broken off by a wakeup has its timer to come (Due), and   *)
(* that watching_service counts the handlers and the closures (Counts).    *)
(*                                                                         *)
(* Calls (NoCallForgotten).  CallInv says where the answer of a call is to *)
(* come from (OnItsWay) as long as the caller has not reported its end,    *)
(* and that who is taken for dead has reported it (DeadGone).  A step      *)
(* of one service keeps it when that service is Honest: a message it took  *)
(* is in its tables, a debt it no longer has was paid into the mailbox of  *)
(* the caller, and a call it no longer watches has been resumed.           *)
(***************************************************************************)
EXTENDS Scheduler, FiniteSetTheorems, TLAPS

\* The tables of a service.
Fields ==
    {"mode", "cur", "depth", "alive", "sesid", "at", "on", "coroutine_pool",
     "session_id_coroutine", "request", "session_response", "unresponse",
     "wakeup_queue", "sleep_session", "watching_service", "watching_session",
     "dead_service", "error_queue", "fork_queue", "current_thread", "ref",
     "thread_queue", "inside", "mute"}

\* What stands for a coroutine: not nil.
Thread == Int \ {Nil}

\* The tables that coroutines are resumed from.
Tables(r) ==
    /\ DOMAIN r = Fields
    /\ r.mode = "run" => r.cur \in Thread
    /\ r.coroutine_pool \in Seq(Thread)
    /\ \A n \in DOMAIN r.session_id_coroutine : r.session_id_coroutine[n] \in Thread
    /\ DOMAIN r.sleep_session \subseteq Thread
    /\ r.fork_queue \subseteq Thread

\* The critical section.
Section(r) ==
    /\ r.ref \in Nat
    /\ r.ref = 0 => r.inside = {}
    /\ r.ref > 0 => r.inside = {r.current_thread} /\ r.current_thread \in Thread

\* A record that keeps both.
Sound(r) == Tables(r) /\ Section(r)

\* The inductive invariant.
SchedulerInv ==
    /\ st = [s \in Services |-> st[s]]
    /\ \A s \in Services : Sound(st[s])

-----------------------------------------------------------------------------
(* The helpers *)

\* The phases that find their queue empty.
LEMMA SettledSound ==
    ASSUME NEW r, Sound(r) PROVE Sound(Settled(r))
BY DEF Settled, Sound, Tables, Section, Fields

\* A step that gives a service a sound record.
LEMMA SetSound ==
    ASSUME SchedulerInv, NEW s \in Services, NEW r, Sound(r), Set(s, r)
    PROVE  SchedulerInv'
<1>1. Sound(Settled(r))
    BY SettledSound
<1> QED BY <1>1 DEF SchedulerInv, Set

\* Another entry in a table of coroutines.
LEMMA WithSound ==
    ASSUME NEW f, NEW n, NEW c \in Thread, \A k \in DOMAIN f : f[k] \in Thread
    PROVE  \A k \in DOMAIN With(f, n, c) : With(f, n, c)[k] \in Thread
BY DEF With

\* Taking one out.
LEMMA WithoutSound ==
    ASSUME NEW f, NEW n, \A k \in DOMAIN f : f[k] \in Thread
    PROVE  \A k \in DOMAIN Without(f, n) : Without(f, n)[k] \in Thread
BY DEF Without

\* An error thrown out of suspend().
LEMMA ThrownSound ==
    ASSUME NEW r, Sound(r) PROVE Sound(Thrown(r))
BY DEF Thrown, Sound, Tables, Section, Fields

\* The last pooled coroutine, and the pool without it.
LEMMA PoolSound ==
    ASSUME NEW r, Sound(r), r.coroutine_pool # << >>
    PROVE  NewCo(r) \in Thread /\ Front(r.coroutine_pool) \in Seq(Thread)
<1> DEFINE p == r.coroutine_pool
<1>1. p \in Seq(Thread) /\ p # << >>
    BY DEF Sound, Tables
<1> HIDE DEF p
<1>2. Len(p) \in Nat \ {0}
    BY <1>1
<1>3. p[Len(p)] \in Thread
    BY <1>1, <1>2
<1>4. SubSeq(p, 1, Len(p) - 1) \in Seq(Thread)
    BY <1>1, <1>2
<1> QED BY <1>3, <1>4 DEF NewCo, Last, Front, p

\* co_create
LEMMA CreatedSound ==
    ASSUME NEW r, Sound(r), r.coroutine_pool # << >>, NEW state
    PROVE  Sound(Created(r, state))
<1>1. Front(r.coroutine_pool) \in Seq(Thread)
    BY PoolSound
<1> QED BY <1>1 DEF Created, Sound, Tables, Section, Fields

\* A yield with a session.
LEMMA ParkedSound ==
    ASSUME NEW r, Sound(r), r.mode = "run", NEW how, NEW ses
    PROVE  Sound(Parked(r, how, ses))
<1>1. r.cur \in Thread
    BY DEF Sound, Tables
<1>2. \A k \in DOMAIN With(r.session_id_coroutine, ses, r.cur) :
          With(r.session_id_coroutine, ses, r.cur)[k] \in Thread
    BY <1>1, WithSound DEF Sound, Tables
<1>3. DOMAIN With(r.sleep_session, r.cur, ses) \subseteq Thread
    BY <1>1 DEF With, Sound, Tables
<1> QED BY <1>1, <1>2, <1>3 DEF Parked, Sound, Tables, Section, Fields

\* The first lines after a yield.
LEMMA CleanedSound ==
    ASSUME NEW r, Sound(r), NEW c
    PROVE  Sound(Cleaned(r, c))
<1>1. \A k \in DOMAIN Without(r.session_id_coroutine, r.on[c]) :
          Without(r.session_id_coroutine, r.on[c])[k] \in Thread
    BY WithoutSound DEF Sound, Tables
<1>2. DOMAIN Without(r.sleep_session, c) \subseteq Thread
    BY DEF Without, Sound, Tables
<1> QED BY <1>1, <1>2 DEF Cleaned, Sound, Tables, Section, Fields

\* Resuming a coroutine: one that leaves the line enters a free section.
LEMMA ResumedSound ==
    ASSUME NEW r, Sound(r), NEW c \in Thread
    PROVE  Sound(Resumed(r, c))
<1> DEFINE k == Cleaned(r, c)
           awake == [k EXCEPT !.mode = "run", !.cur = c, !.at[c] = "run", !.on[c] = Nil]
<1>1. Sound(k)
    BY CleanedSound
<1>2. k.ref = r.ref /\ k.inside = r.inside
    BY DEF Cleaned, Sound, Tables, Fields
<1> HIDE DEF k
<1>3. Sound(awake) /\ awake.ref = r.ref /\ awake.inside = r.inside
    BY <1>1, <1>2 DEF Sound, Tables, Section, Fields
<1> HIDE DEF awake
<1>4. CASE SectionFree(r)
    <2>1. r.ref = 0 /\ r.inside = {}
        BY <1>4 DEF SectionFree, Sound, Section
    <2>2. Sound([awake EXCEPT !.current_thread = c, !.ref = 1, !.inside = @ \cup {c}])
        BY <1>3, <2>1 DEF Sound, Tables, Section, Fields
    <2> QED BY <1>3, <1>4, <2>2 DEF Resumed, awake, k
<1>5. CASE ~SectionFree(r)
    <2>1. Sound([awake EXCEPT !.at[c] = "failed"])
        BY <1>3 DEF Sound, Tables, Section, Fields
    <2> QED BY <1>3, <1>5, <2>1 DEF Resumed, awake, k
<1> QED BY <1>4, <1>5

\* The coroutine inside gives the section to the next of the line.
LEMMA HandOverSound ==
    ASSUME NEW r, Sound(r), r.cur \in r.inside
    PROVE  Sound(HandOver(r))
<1>1. r.inside = {r.cur}
    BY DEF Sound, Section
<1>2. r.inside \ {r.cur} = {}
    BY <1>1
<1> QED BY <1>2 DEF HandOver, Sound, Tables, Section, Fields

\* A reference given back.
LEMMA ReleasedSound ==
    ASSUME NEW r, Sound(r), NEW a PROVE Sound(Released(r, a))
BY DEF Released, Sound, Tables, Section, Fields

-----------------------------------------------------------------------------
(* The steps *)

\* The record of a service is sound.
LEMMA Here ==
    ASSUME SchedulerInv, NEW s \in Services
    PROVE  Sound(st[s]) /\ DOMAIN st[s] = Fields
BY DEF SchedulerInv, Sound, Tables

\* The answer to a call, a timeout, or an answer nobody waits for.
LEMMA TakeResponseStep ==
    ASSUME SchedulerInv, NEW s \in Services, TakeResponse(s) PROVE SchedulerInv'
<1> DEFINE r == st[s]
           m == Head(q[s])
           known == m.ses \in DOMAIN r.session_id_coroutine
           c == r.session_id_coroutine[m.ses]
           gone == [r EXCEPT !.session_id_coroutine = Without(@, m.ses)]
<1>1. \/ known /\ Set(s, Resumed(gone, c))
      \/ Set(s, [gone EXCEPT !.mode = "fork"])
      \/ Set(s, Thrown(r))
    BY DEF TakeResponse
<1>2. Sound(r)
    BY Here
<1>3. known => c \in Thread
    BY <1>2 DEF Sound, Tables
<1>4. \A k \in DOMAIN Without(r.session_id_coroutine, m.ses) :
          Without(r.session_id_coroutine, m.ses)[k] \in Thread
    BY <1>2, WithoutSound DEF Sound, Tables
<1> HIDE DEF r, m
<1>5. Sound(gone)
    BY <1>2, <1>4 DEF Sound, Tables, Section, Fields
<1> HIDE DEF c, known, gone
<1>6. Sound([gone EXCEPT !.mode = "fork"])
    BY <1>5 DEF Sound, Tables, Section, Fields
<1>7. known => Sound(Resumed(gone, c))
    BY <1>3, <1>5, ResumedSound
<1>8. Sound(Thrown(r))
    BY <1>2, ThrownSound
<1> QED BY <1>1, <1>6, <1>7, <1>8, SetSound

\* A request: a coroutine of its own.
LEMMA TakeRequestStep ==
    ASSUME SchedulerInv, NEW s \in Services, TakeRequest(s) PROVE SchedulerInv'
<1> DEFINE r == st[s]
           m == Head(q[s])
           k == Created(r, "run")
           p == [k EXCEPT !.mode = "run", !.cur = NewCo(r),
                     !.request[NewCo(r)] = [from |-> m.from, ses |-> m.ses],
                     !.watching_service[m.from] = @ + 1,
                     !.mute = IF r.alive THEN @ ELSE @ \cup {m}]
<1>1. r.coroutine_pool # << >> /\ Set(s, p)
    BY DEF TakeRequest
<1>2. Sound(r)
    BY Here
<1> HIDE DEF r, m
<1>3. NewCo(r) \in Thread /\ Sound(k)
    BY <1>1, <1>2, PoolSound, CreatedSound
<1> HIDE DEF k
<1>4. Sound(p)
    BY <1>3 DEF Sound, Tables, Section, Fields
<1> HIDE DEF p
<1> QED BY <1>1, <1>4, SetSound

\* An error message: its sessions go to the error queue.
LEMMA TakeErrorStep ==
    ASSUME SchedulerInv, NEW s \in Services, TakeError(s) PROVE SchedulerInv'
<1> DEFINE r == st[s]
<1>1. Sound(r)
    BY Here
<1>2. PICK eq, ds : Set(s, [r EXCEPT !.mode = "wake", !.error_queue = eq,
                                     !.dead_service = ds])
    <2>1. CASE Head(q[s]).ses = 0
        <3>1. PICK e \in Watching(r, Head(q[s]).from) :
                 Set(s, [r EXCEPT !.mode = "wake", !.error_queue = @ \o e,
                                  !.dead_service = @ \cup {Head(q[s]).from}])
            BY <2>1 DEF TakeError
        <3> QED BY <3>1
    <2>2. CASE Head(q[s]).ses # 0
        <3> DEFINE eq == IF Head(q[s]).ses \in DOMAIN r.watching_session
                         THEN Append(r.error_queue, Head(q[s]).ses) ELSE r.error_queue
        <3>1. Set(s, [r EXCEPT !.mode = "wake", !.error_queue = eq])
            BY <2>2 DEF TakeError
        <3>2. [r EXCEPT !.mode = "wake", !.error_queue = eq]
              = [r EXCEPT !.mode = "wake", !.error_queue = eq, !.dead_service = r.dead_service]
            BY <1>1 DEF Sound, Tables, Fields
        <3> QED BY <3>1, <3>2
    <2> QED BY <2>1, <2>2
<1> HIDE DEF r
<1>3. Sound([r EXCEPT !.mode = "wake", !.error_queue = eq, !.dead_service = ds])
    BY <1>1 DEF Sound, Tables, Section, Fields
<1> QED BY <1>2, <1>3, SetSound

\* dispatch_wakeup
LEMMA DispatchWakeupStep ==
    ASSUME SchedulerInv, NEW s \in Services, DispatchWakeup(s) PROVE SchedulerInv'
<1> DEFINE r == st[s]
           c == Head(r.wakeup_queue)
           popped == [r EXCEPT !.wakeup_queue = Tail(@)]
           back == [popped EXCEPT !.depth = @ + 1,
                          !.session_id_coroutine[r.sleep_session[c]] = BREAK]
<1>1. \/ Set(s, [popped EXCEPT !.mode = "err"])
      \/ c \in DOMAIN r.sleep_session /\ Set(s, Resumed(back, c))
    BY DEF DispatchWakeup
<1>2. Sound(r)
    BY Here
<1>3. c \in DOMAIN r.sleep_session => c \in Thread
    BY <1>2 DEF Sound, Tables
<1> HIDE DEF c, r
<1>4. Sound(popped) /\ popped.session_id_coroutine = r.session_id_coroutine
    BY <1>2 DEF Sound, Tables, Section, Fields
<1> HIDE DEF popped
<1>5. Sound([popped EXCEPT !.mode = "err"])
    BY <1>4 DEF Sound, Tables, Section, Fields
<1>6. Sound(back)
    <2>1. BREAK \in Thread
        BY DEF BREAK, Thread, Nil
    <2> DEFINE f == popped.session_id_coroutine
               g == [f EXCEPT ![r.sleep_session[c]] = BREAK]
    <2>2. \A n \in DOMAIN g : g[n] \in Thread
        BY <1>4, <2>1 DEF Sound, Tables
    <2>3. back = [popped EXCEPT !.depth = popped.depth + 1, !.session_id_coroutine = g]
        BY <1>4 DEF Sound, Tables, Fields
    <2> HIDE DEF g, back
    <2>4. Sound([popped EXCEPT !.depth = popped.depth + 1, !.session_id_coroutine = g])
        BY <1>4, <2>2 DEF Sound, Tables, Section, Fields
    <2> QED BY <2>3, <2>4
<1> HIDE DEF back
<1>7. c \in DOMAIN r.sleep_session => Sound(Resumed(back, c))
    BY <1>3, <1>6, ResumedSound
<1> QED BY <1>1, <1>5, <1>7, SetSound

\* dispatch_error_queue
LEMMA DispatchErrorStep ==
    ASSUME SchedulerInv, NEW s \in Services, DispatchError(s) PROVE SchedulerInv'
<1> DEFINE r == st[s]
           n == Head(r.error_queue)
           popped == [r EXCEPT !.error_queue = Tail(@)]
           gone == [popped EXCEPT !.session_id_coroutine = Without(@, n)]
           c == r.session_id_coroutine[n]
<1>1. \/ Set(s, Thrown(popped))
      \/ n \in DOMAIN r.session_id_coroutine /\ Set(s, Resumed(gone, c))
    BY DEF DispatchError
<1>2. Sound(r)
    BY Here
<1>3. n \in DOMAIN r.session_id_coroutine => c \in Thread
    BY <1>2 DEF Sound, Tables
<1> HIDE DEF r, n
<1>4. Sound(popped)
    BY <1>2 DEF Sound, Tables, Section, Fields
<1> HIDE DEF popped, c
<1>5. \A k \in DOMAIN Without(popped.session_id_coroutine, n) :
          Without(popped.session_id_coroutine, n)[k] \in Thread
    BY <1>4, WithoutSound DEF Sound, Tables
<1>6. Sound(gone)
    BY <1>4, <1>5 DEF Sound, Tables, Section, Fields
<1> HIDE DEF gone
<1>7. Sound(Thrown(popped))
    BY <1>4, ThrownSound
<1>8. n \in DOMAIN r.session_id_coroutine => Sound(Resumed(gone, c))
    BY <1>3, <1>6, ResumedSound
<1> QED BY <1>1, <1>7, <1>8, SetSound

\* The loop over forks.
LEMMA RunForksStep ==
    ASSUME SchedulerInv, NEW s \in Services, RunForks(s) PROVE SchedulerInv'
<1> DEFINE r == st[s]
<1>1. PICK c \in r.fork_queue : Set(s, Resumed([r EXCEPT !.fork_queue = @ \ {c}], c))
    BY DEF RunForks
<1>2. Sound(r)
    BY Here
<1>3. c \in Thread
    BY <1>1, <1>2 DEF Sound, Tables
<1> HIDE DEF r
<1>4. Sound([r EXCEPT !.fork_queue = @ \ {c}])
    BY <1>2 DEF Sound, Tables, Section, Fields
<1>5. Sound(Resumed([r EXCEPT !.fork_queue = @ \ {c}], c))
    BY <1>3, <1>4, ResumedSound
<1> QED BY <1>1, <1>5, SetSound

\* skynet.call, sleep and wait.
LEMMA ParkStep ==
    ASSUME SchedulerInv, NEW s \in Services,
           (\E t \in Services : Call(s, t)) \/ Sleep(s) \/ Wait(s)
    PROVE  SchedulerInv'
<1> DEFINE r == st[s]
           n == r.sesid + 1
<1>1. Sound(r) /\ r.mode = "run"
    BY Here DEF Call, Sleep, Wait, Running
<1>2. PICK how : \/ \E t \in Services : Set(s, [Parked(r, how, n) EXCEPT !.sesid = n,
                                          !.watching_session = With(@, n, t)])
                 \/ Set(s, [Parked(r, how, n) EXCEPT !.sesid = n])
    BY DEF Call, Sleep, Wait
<1> HIDE DEF r, n
<1> DEFINE p == Parked(r, how, n)
<1>3. Sound(p)
    BY <1>1, ParkedSound
<1> HIDE DEF p
<1>4. Sound([p EXCEPT !.sesid = n])
    BY <1>3 DEF Sound, Tables, Section, Fields
<1>5. ASSUME NEW t
      PROVE  Sound([p EXCEPT !.sesid = n, !.watching_session = With(@, n, t)])
    BY <1>3 DEF Sound, Tables, Section, Fields
<1> QED BY <1>2, <1>4, <1>5, SetSound DEF p

\* skynet.fork and skynet.timeout.
LEMMA CreateStep ==
    ASSUME SchedulerInv, NEW s \in Services, Fork(s) \/ Timeout(s)
    PROVE  SchedulerInv'
<1> DEFINE r == st[s]
           n == r.sesid + 1
           k == Created(r, "ready")
           forked == [k EXCEPT !.fork_queue = @ \cup {NewCo(r)}]
           later == [k EXCEPT !.sesid = n, !.on[NewCo(r)] = n,
                     !.session_id_coroutine = With(@, n, NewCo(r))]
<1>1. Sound(r) /\ r.coroutine_pool # << >> /\ (Set(s, forked) \/ Set(s, later))
    BY Here DEF Fork, Timeout
<1> HIDE DEF r, n
<1>2. NewCo(r) \in Thread /\ Sound(k)
    BY <1>1, PoolSound, CreatedSound
<1> HIDE DEF k
<1>3. Sound(forked)
    BY <1>2 DEF Sound, Tables, Section, Fields
<1>4. \A j \in DOMAIN With(k.session_id_coroutine, n, NewCo(r)) :
          With(k.session_id_coroutine, n, NewCo(r))[j] \in Thread
    BY <1>2, WithSound DEF Sound, Tables
<1>5. Sound(later)
    BY <1>2, <1>4 DEF Sound, Tables, Section, Fields
<1> HIDE DEF forked, later
<1> QED BY <1>1, <1>3, <1>5, SetSound

\* The operations that leave the critical section and these tables alone.
LEMMA PlainStep ==
    ASSUME SchedulerInv, NEW s \in Services,
           \/ \E c \in Co : Wakeup(s, c)
           \/ AnswerTwice(s) \/ Ret(s) \/ Defer(s)
           \/ \E j \in st[s].unresponse : Respond(s, j)
           \/ Exit(s) \/ Retire(s) \/ Tick(s)
    PROVE  SchedulerInv'
<1> DEFINE r == st[s]
<1>1. Sound(r) /\ DOMAIN r = Fields
    BY Here
<1>2. ASSUME NEW c \in Co, Wakeup(s, c) PROVE SchedulerInv'
    <2> DEFINE p == [r EXCEPT !.wakeup_queue = Append(@, c)]
    <2>1. Set(s, p)
        BY <1>2 DEF Wakeup
    <2> HIDE DEF r
    <2>2. Sound(p)
        BY <1>1 DEF Sound, Tables, Section, Fields
    <2> HIDE DEF p
    <2> QED BY <2>1, <2>2, SetSound
<1>3. CASE AnswerTwice(s)
    <2> DEFINE p == [r EXCEPT !.at[r.cur] = "lost"]
    <2>1. Set(s, Thrown(p))
        BY <1>3 DEF AnswerTwice
    <2> HIDE DEF r
    <2>2. Sound(p)
        BY <1>1 DEF Sound, Tables, Section, Fields
    <2> HIDE DEF p
    <2>3. Sound(Thrown(p))
        BY <2>2, ThrownSound
    <2> QED BY <2>1, <2>3, SetSound
<1>4. CASE Ret(s)
    <2> DEFINE p == [r EXCEPT !.session_response = @ \cup {r.cur}]
    <2>1. Set(s, p)
        BY <1>4 DEF Ret
    <2> HIDE DEF r
    <2>2. Sound(p)
        BY <1>1 DEF Sound, Tables, Section, Fields
    <2> HIDE DEF p
    <2> QED BY <2>1, <2>2, SetSound
<1>5. CASE Defer(s)
    <2> DEFINE p == [r EXCEPT !.session_response = @ \cup {r.cur},
                     !.unresponse = @ \cup {Mine(s)},
                     !.watching_service[Mine(s).from] = @ + 1]
    <2>1. Set(s, p)
        BY <1>5 DEF Defer
    <2> HIDE DEF r
    <2>2. Sound(p)
        BY <1>1 DEF Sound, Tables, Section, Fields
    <2> HIDE DEF p
    <2> QED BY <2>1, <2>2, SetSound
<1>6. ASSUME NEW j \in r.unresponse, Respond(s, j) PROVE SchedulerInv'
    <2> DEFINE p == [r EXCEPT !.unresponse = @ \ {j}]
    <2>1. Set(s, Released(p, j.from))
        BY <1>6 DEF Respond
    <2> HIDE DEF r
    <2>2. Sound(p)
        BY <1>1 DEF Sound, Tables, Section, Fields
    <2> HIDE DEF p
    <2>3. Sound(Released(p, j.from))
        BY <2>2, ReleasedSound
    <2> QED BY <2>1, <2>3, SetSound
<1>7. CASE Exit(s)
    <2>1. PICK w : Set(s, [r EXCEPT !.mode = "exit", !.fork_queue = {}, !.unresponse = {},
                                    !.watching_service = w])
        BY <1>7 DEF Exit
    <2> HIDE DEF r
    <2>2. Sound([r EXCEPT !.mode = "exit", !.fork_queue = {}, !.unresponse = {},
                          !.watching_service = w])
        BY <1>1 DEF Sound, Tables, Section, Fields
    <2> QED BY <2>1, <2>2, SetSound
<1>8. CASE Retire(s)
    <2> DEFINE p == [r EXCEPT !.alive = FALSE, !.at[r.cur] = "lost", !.cur = Nil,
                            !.mode = IF r.depth > 0 THEN "err" ELSE "fork",
                            !.depth = IF @ > 0 THEN @ - 1 ELSE 0]
    <2>1. Set(s, p)
        BY <1>8 DEF Retire
    <2> HIDE DEF r
    <2>2. Sound(p)
        BY <1>1 DEF Sound, Tables, Section, Fields
    <2> HIDE DEF p
    <2> QED BY <2>1, <2>2, SetSound
<1>9. CASE Tick(s)
    <2> DEFINE p == [r EXCEPT !.mode = "wake"]
    <2>1. Set(s, p)
        BY <1>9 DEF Tick
    <2> HIDE DEF r
    <2>2. Sound(p)
        BY <1>1 DEF Sound, Tables, Section, Fields
    <2> HIDE DEF p
    <2> QED BY <2>1, <2>2, SetSound
<1> QED BY <1>2, <1>3, <1>4, <1>5, <1>6, <1>7, <1>8, <1>9

\* Entering a section that is free or one's own, or joining the line.
LEMMA EnterStep ==
    ASSUME SchedulerInv, NEW s \in Services, Enter(s) PROVE SchedulerInv'
<1> DEFINE r == st[s]
           n == r.sesid + 1
           into == [r EXCEPT !.current_thread = r.cur, !.ref = @ + 1,
                             !.inside = @ \cup {r.cur}]
           queued == [Parked(r, "line", n) EXCEPT !.sesid = n,
                          !.thread_queue = Append(@, r.cur)]
<1>1. Sound(r) /\ r.mode = "run" /\ r.cur \in Thread
    BY Here DEF Enter, Running, Sound, Tables
<1>2. \/ r.current_thread \in {Nil, r.cur} /\ Set(s, into)
      \/ Set(s, queued)
    BY DEF Enter
<1> HIDE DEF r, n
<1>3. ASSUME r.current_thread \in {Nil, r.cur} PROVE Sound(into)
    <2>1. r.ref \in Nat /\ r.inside \cup {r.cur} = {r.cur}
        BY <1>1, <1>3 DEF Sound, Section, Thread
    <2> DEFINE m == r.ref + 1
               i == r.inside \cup {r.cur}
    <2>2. m \in Nat /\ m > 0
        BY <2>1
    <2>3. into = [r EXCEPT !.current_thread = r.cur, !.ref = m, !.inside = i]
        OBVIOUS
    <2> HIDE DEF m, into
    <2>4. Sound([r EXCEPT !.current_thread = r.cur, !.ref = m, !.inside = i])
        BY <1>1, <2>1, <2>2 DEF Sound, Tables, Section, Fields
    <2> QED BY <2>3, <2>4
<1>4. Sound(queued)
    <2> DEFINE p == Parked(r, "line", n)
    <2>1. Sound(p)
        BY <1>1, ParkedSound
    <2> HIDE DEF p
    <2>2. Sound([p EXCEPT !.sesid = n, !.thread_queue = Append(@, r.cur)])
        BY <2>1 DEF Sound, Tables, Section, Fields
    <2> QED BY <2>2 DEF p
<1> HIDE DEF into, queued
<1> QED BY <1>2, <1>3, <1>4, SetSound

\* Leaving it.
LEMMA LeaveStep ==
    ASSUME SchedulerInv, NEW s \in Services, Leave(s) PROVE SchedulerInv'
<1> DEFINE r == st[s]
           less == [r EXCEPT !.ref = @ - 1]
<1>1. Sound(r) /\ r.cur \in r.inside
    BY Here DEF Leave
<1>2. \/ Set(s, HandOver(r))
      \/ r.ref # 1 /\ Set(s, less)
    BY DEF Leave
<1> HIDE DEF r
<1>3. Sound(HandOver(r))
    BY <1>1, HandOverSound
<1>4. ASSUME r.ref # 1 PROVE Sound(less)
    <2> DEFINE m == r.ref - 1
    <2>1. r.ref > 0 /\ m \in Nat /\ m > 0
        BY <1>1, <1>4 DEF Sound, Section
    <2> HIDE DEF m
    <2>2. Sound([r EXCEPT !.ref = m])
        BY <1>1, <2>1 DEF Sound, Tables, Section, Fields
    <2> QED BY <2>2 DEF m
<1> HIDE DEF less
<1> QED BY <1>2, <1>3, <1>4, SetSound

\* A coroutine ends and goes back to the pool.
LEMMA ReturnStep ==
    ASSUME SchedulerInv, NEW s \in Services, Return(s) PROVE SchedulerInv'
<1> DEFINE r == st[s]
           l == IF Mine(s).ses > 0 /\ r.cur \notin r.session_response
                THEN r.mute \cup {Request(Mine(s))} ELSE r.mute
           done == [r EXCEPT !.mode = "wake", !.cur = Nil, !.at[r.cur] = "pool",
                   !.coroutine_pool = Append(@, r.cur), !.request[r.cur] = None,
                   !.session_response = @ \ {r.cur}, !.mute = l]
<1>1. Sound(r) /\ r.cur \in Thread
    BY Here DEF Return, Running, Sound, Tables
<1>2. Set(s, done) \/ Set(s, Released(done, Mine(s).from))
    BY DEF Return
<1> HIDE DEF r, l
<1>3. Append(r.coroutine_pool, r.cur) \in Seq(Thread)
    BY <1>1 DEF Sound, Tables
<1>4. Sound(done)
    BY <1>1, <1>3 DEF Sound, Tables, Section, Fields
<1> HIDE DEF done
<1>5. Sound(Released(done, Mine(s).from))
    BY <1>4, ReleasedSound
<1> QED BY <1>2, <1>4, <1>5, SetSound

\* A coroutine dies of an error, and leaves the section on the way.
LEMMA DiedStep ==
    ASSUME SchedulerInv, NEW s \in Services, Raise(s) \/ FailAssert(s)
    PROVE  SchedulerInv'
<1> DEFINE r == st[s]
           out == IF r.cur \in r.inside THEN HandOver(r) ELSE r
           p == [out EXCEPT !.at[r.cur] = "dead", !.request[r.cur] = None]
<1>1. Sound(r)
    BY Here
<1>2. Set(s, Thrown(p))
    BY DEF Raise, FailAssert, Died
<1> HIDE DEF r
<1>3. Sound(out)
    BY <1>1, HandOverSound
<1> HIDE DEF out
<1>4. Sound(p)
    BY <1>3 DEF Sound, Tables, Section, Fields
<1> HIDE DEF p
<1>5. Sound(Thrown(p))
    BY <1>4, ThrownSound
<1> QED BY <1>2, <1>5, SetSound

\* A new service, and a closed one.
LEMMA EmptySound == Sound(Empty)
<1>1. [i \in Co |-> NCo + 1 - i] \in Seq(Thread)
    <2>1. NCo \in Nat /\ Co = 1..NCo
        BY SchedulerAssumption DEF Co
    <2>2. \A i \in 1..NCo : NCo + 1 - i \in Thread
        BY <2>1 DEF Thread, Nil
    <2> QED BY <2>1, <2>2
<1>2. DOMAIN << >> = {}
    OBVIOUS
<1>3. DOMAIN Empty = Fields
    BY DEF Empty, Fields
<1> QED BY <1>1, <1>2, <1>3 DEF Sound, Tables, Section, Empty

\* The context is gone.
LEMMA DropStep ==
    ASSUME SchedulerInv, NEW s \in Services, Drop(s) PROVE SchedulerInv'
<1> DEFINE p == [Empty EXCEPT !.alive = FALSE, !.mode = "closed", !.mute = st[s].mute]
<1>1. st' = [st EXCEPT ![s] = p]
    BY DEF Drop
<1>2. Sound(p)
    <2>1. ASSUME NEW r, Sound(r), NEW l
          PROVE  Sound([r EXCEPT !.alive = FALSE, !.mode = "closed", !.mute = l])
        BY <2>1 DEF Sound, Tables, Section, Fields
    <2> QED BY <2>1, EmptySound
<1> HIDE DEF p
<1> QED BY <1>1, <1>2 DEF SchedulerInv

\* The handle is retired from outside.
LEMMA KillStep ==
    ASSUME SchedulerInv, NEW s \in Services, Kill(s) PROVE SchedulerInv'
<1> DEFINE r == st[s]
           l == r.mute \cup {Request(j) : j \in Unanswered(r)}
           p == [r EXCEPT !.alive = FALSE, !.mute = l]
<1>1. st' = [st EXCEPT ![s] = p]
    BY DEF Kill
<1>2. Sound(r)
    BY Here
<1> HIDE DEF r, l
<1>3. Sound(p)
    BY <1>2 DEF Sound, Tables, Section, Fields
<1> HIDE DEF p
<1> QED BY <1>1, <1>3 DEF SchedulerInv

-----------------------------------------------------------------------------
(* Theorem *)

\* The invariant holds at first.
LEMMA InvInit == Init => SchedulerInv
BY EmptySound DEF Init, SchedulerInv

\* Every step keeps it.
LEMMA InvNext == SchedulerInv /\ [Next]_vars => SchedulerInv'
<1> SUFFICES ASSUME SchedulerInv, [Next]_vars PROVE SchedulerInv'
    OBVIOUS
<1>1. CASE UNCHANGED st
    BY <1>1 DEF SchedulerInv
<1>2. ASSUME NEW s \in Services, Dispatch(s) PROVE SchedulerInv'
    BY <1>2, TakeResponseStep, TakeRequestStep, TakeErrorStep, DispatchWakeupStep,
       DispatchErrorStep, RunForksStep DEF Dispatch, Take
<1>3. ASSUME NEW s \in Services, Code(s) PROVE SchedulerInv'
    BY <1>3, ParkStep, CreateStep, PlainStep, EnterStep, LeaveStep, ReturnStep, DiedStep
       DEF Code
<1>4. ASSUME NEW s \in Services, Tick(s) PROVE SchedulerInv'
    BY <1>4, PlainStep
<1>5. ASSUME NEW s \in Services, Job(s) PROVE UNCHANGED st
    BY <1>5 DEF Job
<1>6. ASSUME NEW x \in timers, Fire(x[1], x[2]) PROVE UNCHANGED st
    BY <1>6 DEF Fire
<1>7. UNCHANGED vars => UNCHANGED st
    BY DEF vars
<1> QED BY <1>1, <1>2, <1>3, <1>4, <1>5, <1>6, <1>7, DropStep, KillStep DEF Next

\* Who is inside is at most one.
LEMMA OneInside ==
    ASSUME NEW r, Sound(r) PROVE Cardinality(r.inside) <= 1
<1>1. r.inside = {} \/ r.inside = {r.current_thread}
    BY DEF Sound, Section
<1>2. Cardinality({}) = 0 /\ Cardinality({r.current_thread}) = 1
    BY FS_EmptySet, FS_Singleton
<1> QED BY <1>1, <1>2

\* For any number of services and coroutines, whatever service code does,
\* whoever is woken when and whatever fails inside or exits, at most one
\* coroutine is inside a critical section (skynet/queue.lua 3-38).
THEOREM SectionExclusion == Spec => []QueueExclusion
<1>1. Spec => []SchedulerInv
    BY InvInit, InvNext, PTL DEF Spec
<1>2. SchedulerInv => QueueExclusion
    BY OneInside DEF SchedulerInv, QueueExclusion
<1> QED BY <1>1, <1>2, PTL

-----------------------------------------------------------------------------
(* Sessions and coroutines.  The second invariant is about the tables that  *)
(* say which coroutine waits for what (SessionsSound).                      *)

\* The places of dispatch_message.
Modes == {"idle", "run", "wake", "err", "fork", "exit", "closed"}
\* A coroutine that has yielded, with a session.
Yielded == Sleeping \cup {"call"}
\* What a coroutine may be doing.
States == Yielded \cup {"pool", "run", "failed", "ready", "dead", "lost"}
\* Who sends messages.
Who == Services \cup {Outside}

\* The types of the tables.
Shape(r) ==
    /\ DOMAIN r = Fields
    /\ r.mode \in Modes
    /\ r.mode \in {"run", "exit"} => r.cur \in Co
    /\ r.sesid \in Nat
    /\ r.at \in [Co -> States]
    /\ r.on \in [Co -> Nat]
    /\ r.coroutine_pool \in Seq(Co)
    /\ r.wakeup_queue \in Seq(Co)
    /\ r.thread_queue \in Seq(Co)
    /\ r.error_queue \in Seq(Nat)
    /\ r.fork_queue \subseteq Co
    /\ r.session_id_coroutine \in [DOMAIN r.session_id_coroutine -> Co \cup {BREAK}]
    /\ DOMAIN r.session_id_coroutine \subseteq 1..r.sesid
    /\ DOMAIN r.watching_session \subseteq 1..r.sesid

\* What a coroutine is doing.  It is in the pool once, it waits for a session
\* only if it has yielded or was made by skynet.timeout, and a fork that is
\* still to run has no session.
Roles(r) ==
    /\ \A i \in DOMAIN r.coroutine_pool : r.at[r.coroutine_pool[i]] = "pool"
    /\ \A i, j \in DOMAIN r.coroutine_pool :
         r.coroutine_pool[i] = r.coroutine_pool[j] => i = j
    /\ r.mode \in {"run", "exit"} => r.at[r.cur] \in {"run", "failed"}
    /\ \A c \in r.fork_queue : r.at[c] = "ready" /\ r.on[c] = Nil
    /\ \A c \in Co : r.at[c] \notin Yielded \cup {"ready"} => r.on[c] = Nil

\* The session tables and the coroutines agree.
Sessions(r) ==
    /\ \A c \in Co : r.at[c] \in Yielded =>
         /\ r.on[c] \in DOMAIN r.session_id_coroutine
         /\ r.session_id_coroutine[r.on[c]] = c
    /\ \A n \in DOMAIN r.session_id_coroutine :
         LET c == r.session_id_coroutine[n]
         IN  c # BREAK => r.on[c] = n /\ r.at[c] \in Yielded \cup {"ready"}
    /\ \A c \in Co : c \in DOMAIN r.sleep_session <=> r.at[c] \in Sleeping
    /\ \A c \in Co : c \in DOMAIN r.sleep_session => r.sleep_session[c] = r.on[c]
    /\ DOMAIN r.sleep_session \subseteq Co
    /\ \A n \in DOMAIN r.watching_session : \E c \in Co : r.at[c] = "call" /\ r.on[c] = n

\* A session in the error queue belongs to a call, or is over.
Errors(r) ==
    \A i \in DOMAIN r.error_queue :
      LET n == r.error_queue[i]
      IN  /\ n \in 1..r.sesid
          /\ n \in DOMAIN r.session_id_coroutine =>
               /\ r.session_id_coroutine[n] # BREAK
               /\ r.at[r.session_id_coroutine[n]] = "call"

\* The coroutine tables of a service are sound.
Kept(r) == Shape(r) /\ Roles(r) /\ Sessions(r) /\ Errors(r)

\* A phase of dispatch_message has something to do.
Poised(r) ==
    /\ r.mode = "wake" => r.wakeup_queue # << >>
    /\ r.mode = "err" => r.error_queue # << >>

\* The closures of skynet.response that are not called yet: each owes an answer.
Promises == [from : Who, ses : Nat \ {0}]

\* The count of those who work for a service.
Counts(r) ==
    /\ r.watching_service \in [Who -> Int]
    /\ r.request \in [Co -> [from : Who, ses : Int]]
    /\ IsFiniteSet(r.unresponse) /\ r.unresponse \subseteq Promises
    /\ WatchCounts(r)

\* Each sleeping or broken session has its timer to come: tm are the timers,
\* b is the mailbox.
Due(s, r, tm, b) ==
    r.alive => \A n \in DOMAIN r.session_id_coroutine :
      LET c == r.session_id_coroutine[n]
      IN  c = BREAK \/ r.at[c] = "sleep" =>
            <<s, n>> \in tm \/ \E i \in DOMAIN b : b[i] = Msg("resp", Outside, n)

\* The mailboxes.
Messages == [type : {"req", "resp", "err"}, from : Who, ses : Nat]
\* What the mailboxes hold.
Mailed == q \in [Services -> Seq(Messages)]

\* The inductive invariant of the sessions.
SessionInv ==
    /\ SchedulerInv /\ Mailed
    /\ \A s \in Services : Kept(st[s]) /\ Poised(st[s]) /\ Counts(st[s])
                          /\ Due(s, st[s], timers, q[s])

-----------------------------------------------------------------------------
(* Calls (NoCallForgotten). *)

\* A service that has reported its end.
Over(r) == ~r.alive \/ r.mode = "exit"
\* The same of a service by name.
Gone(s) == Over(st[s])

\* The tables of what is owed to whom.
Debts(r) ==
    /\ r.alive \in BOOLEAN
    /\ r.watching_session \in [DOMAIN r.watching_session -> Services]
    /\ r.session_response \subseteq Co
    /\ \A c \in Co : r.at[c] = "pool" => r.request[c] = None /\ c \notin r.session_response

\* Who is said to be dead has reported its end.
DeadGone ==
    \A s, t \in Services :
      /\ t \in st[s].dead_service => Gone(t)
      /\ \A i \in DOMAIN q[s] : q[s][i] = Msg("err", t, 0) => Gone(t)

\* Where the answer to call n of s, which t got, is to come from.
OnItsWay(s, t, n) ==
    \/ \E i \in DOMAIN st[s].error_queue : st[s].error_queue[i] = n
    \/ \E i \in DOMAIN q[s] : q[s][i] \in {Msg("resp", t, n), Msg("err", t, n), Msg("err", t, 0)}
    \/ \E i \in DOMAIN q[t] : q[t][i] = Msg("req", s, n)
    \/ Msg("req", s, n) \in st[t].mute
    \/ /\ ~Gone(t)
       /\ \/ [from |-> s, ses |-> n] \in st[t].unresponse
          \/ \E c \in Co : st[t].request[c] = [from |-> s, ses |-> n]
                             /\ c \notin st[t].session_response

\* The inductive invariant of the calls.
CallInv ==
    /\ SessionInv
    /\ \A s \in Services : Debts(st[s])
    /\ DeadGone
    /\ \A s \in Services : ~Gone(s) =>
         \A n \in DOMAIN st[s].watching_session : OnItsWay(s, st[s].watching_session[n], n)

-----------------------------------------------------------------------------
(* The coroutine tables: the ways in which they change *)

\* Coroutines and sessions stay as they are.
LEMMA SameKept ==
    ASSUME NEW r, NEW p, Kept(r), DOMAIN p = Fields,
           p.sesid = r.sesid, p.at = r.at, p.on = r.on,
           p.coroutine_pool = r.coroutine_pool,
           p.session_id_coroutine = r.session_id_coroutine,
           p.sleep_session = r.sleep_session,
           p.watching_session = r.watching_session,
           p.error_queue = r.error_queue,
           p.wakeup_queue \in Seq(Co), p.thread_queue \in Seq(Co),
           p.fork_queue \subseteq r.fork_queue,
           p.mode \in Modes,
           p.mode \in {"run", "exit"} => r.mode \in {"run", "exit"} /\ p.cur = r.cur
    PROVE  Kept(p)
<1>1. Shape(p)
    BY DEF Kept, Shape
<1>2. Roles(p)
    BY DEF Kept, Roles
<1>3. Sessions(p)
    BY DEF Kept, Sessions
<1>4. Errors(p)
    BY DEF Kept, Errors
<1> QED BY <1>1, <1>2, <1>3, <1>4 DEF Kept

\* The running coroutine yields with a new session.
Yields(p, r, how) ==
    /\ DOMAIN p = Fields /\ r.mode = "run" /\ r.at[r.cur] = "run"
    /\ p.mode = "wake" /\ p.sesid = r.sesid + 1
    /\ p.at = [r.at EXCEPT ![r.cur] = how]
    /\ p.on = [r.on EXCEPT ![r.cur] = r.sesid + 1]
    /\ p.coroutine_pool = r.coroutine_pool
    /\ p.session_id_coroutine = With(r.session_id_coroutine, r.sesid + 1, r.cur)
    /\ p.sleep_session = IF how = "call" THEN r.sleep_session
                         ELSE With(r.sleep_session, r.cur, r.sesid + 1)
    /\ \/ p.watching_session = r.watching_session
       \/ /\ how = "call"
          /\ \E t : p.watching_session = With(r.watching_session, r.sesid + 1, t)
    /\ p.error_queue = r.error_queue
    /\ p.wakeup_queue = r.wakeup_queue /\ p.thread_queue \in Seq(Co)
    /\ p.fork_queue = r.fork_queue

\* Then the tables stay sound.
LEMMA YieldKept ==
    ASSUME NEW r, NEW p, Kept(r), NEW how \in Yielded, Yields(p, r, how)
    PROVE  Kept(p)
<1> USE DEF Yields
<1> DEFINE n == r.sesid + 1
           c == r.cur
           f == r.session_id_coroutine
<1>1. /\ c \in Co /\ c # BREAK /\ n \in Nat /\ n \notin 1..r.sesid /\ n # Nil
      /\ 1..r.sesid \subseteq 1..n /\ n \in 1..n
      /\ r.at \in [Co -> States] /\ r.on \in [Co -> Nat]
    <2>1. /\ c \in Co /\ r.sesid \in Nat
          /\ r.at \in [Co -> States] /\ r.on \in [Co -> Nat]
        BY DEF Kept, Shape
    <2>2. BREAK \notin Co
        BY DEF Co, BREAK
    <2>3. /\ n \in Nat /\ n \notin 1..r.sesid /\ n # Nil
          /\ 1..r.sesid \subseteq 1..n /\ n \in 1..n
        BY <2>1 DEF Nil
    <2> QED BY <2>1, <2>2, <2>3
<1>2. /\ DOMAIN p.session_id_coroutine = DOMAIN f \cup {n}
      /\ p.session_id_coroutine[n] = c
      /\ \A k \in DOMAIN f : k # n /\ p.session_id_coroutine[k] = f[k]
    BY <1>1 DEF With, Kept, Shape
<1>3. \A k \in DOMAIN f : f[k] # c
    BY <1>1 DEF Kept, Sessions, Yielded, Sleeping
<1>4. /\ \A d \in Co : d # c => p.at[d] = r.at[d] /\ p.on[d] = r.on[d]
      /\ p.at[c] = how /\ p.on[c] = n
    BY <1>1
<1>5. /\ DOMAIN p.watching_session \subseteq DOMAIN r.watching_session \cup {n}
      /\ n \in DOMAIN p.watching_session => how = "call"
    BY <1>1 DEF With, Kept, Shape
<1>6. how \in States /\ how # "pool" /\ how # "ready"
    BY DEF States, Yielded, Sleeping
<1> HIDE DEF n, c, f
<1>7. Shape(p)
    <2>1. p.session_id_coroutine \in [DOMAIN p.session_id_coroutine -> Co \cup {BREAK}]
        BY <1>1, <1>2 DEF Kept, Shape, With, f, n, c
    <2>2. p.at \in [Co -> States] /\ p.on \in [Co -> Nat]
        BY <1>1, <1>6 DEF c, n
    <2>3. /\ DOMAIN p.session_id_coroutine \subseteq 1..p.sesid
          /\ DOMAIN p.watching_session \subseteq 1..p.sesid
        BY <1>1, <1>2, <1>5 DEF Kept, Shape, f, n
    <2> QED BY <1>1, <2>1, <2>2, <2>3 DEF Kept, Shape, Modes, n
<1>8. Roles(p)
    BY <1>1, <1>4, <1>6 DEF Kept, Roles, Shape, c
<1>9. Sessions(p)
    <2>1. \A d \in Co : p.at[d] \in Yielded =>
             /\ p.on[d] \in DOMAIN p.session_id_coroutine
             /\ p.session_id_coroutine[p.on[d]] = d
        BY <1>1, <1>2, <1>4 DEF Kept, Sessions, f
    <2>2. \A k \in DOMAIN p.session_id_coroutine :
             LET d == p.session_id_coroutine[k]
             IN  d # BREAK => p.on[d] = k /\ p.at[d] \in Yielded \cup {"ready"}
        <3> SUFFICES ASSUME NEW k \in DOMAIN p.session_id_coroutine,
                            p.session_id_coroutine[k] # BREAK
                     PROVE  /\ p.on[p.session_id_coroutine[k]] = k
                            /\ p.at[p.session_id_coroutine[k]] \in Yielded \cup {"ready"}
            OBVIOUS
        <3>1. CASE k = n
            BY <1>2, <1>4, <3>1
        <3>2. CASE k \in DOMAIN f
            <4>1. p.session_id_coroutine[k] = f[k] /\ f[k] # c /\ f[k] \in Co
                BY <1>2, <1>3, <3>2 DEF Kept, Shape, f
            <4> QED BY <1>4, <4>1, <3>2 DEF Kept, Sessions, f
        <3> QED BY <1>2, <3>1, <3>2
    <2>3. /\ \A d \in Co : d \in DOMAIN p.sleep_session <=> p.at[d] \in Sleeping
          /\ \A d \in Co : d \in DOMAIN p.sleep_session => p.sleep_session[d] = p.on[d]
          /\ DOMAIN p.sleep_session \subseteq Co
        <3>1. r.at[c] \notin Sleeping
            BY DEF Sleeping, c
        <3>2. CASE how = "call"
            BY <1>1, <1>4, <3>1, <3>2 DEF Kept, Sessions, Sleeping
        <3>3. CASE how # "call"
            <4>1. /\ how \in Sleeping
                  /\ p.sleep_session = With(r.sleep_session, c, n)
                BY <3>3 DEF Yielded, c, n
            <4> QED BY <1>1, <1>4, <3>1, <4>1 DEF Kept, Sessions, With
        <3> QED BY <3>2, <3>3
    <2>4. \A k \in DOMAIN p.watching_session : \E d \in Co : p.at[d] = "call" /\ p.on[d] = k
        <3> SUFFICES ASSUME NEW k \in DOMAIN p.watching_session
                     PROVE  \E d \in Co : p.at[d] = "call" /\ p.on[d] = k
            OBVIOUS
        <3>1. CASE k = n
            BY <1>1, <1>4, <1>5, <3>1
        <3>2. CASE k \in DOMAIN r.watching_session
            <4>1. PICK d \in Co : r.at[d] = "call" /\ r.on[d] = k
                BY <3>2 DEF Kept, Sessions
            <4>2. d # c
                BY <4>1 DEF c
            <4> QED BY <1>4, <4>1, <4>2
        <3> QED BY <1>5, <3>1, <3>2
    <2> QED BY <2>1, <2>2, <2>3, <2>4 DEF Sessions
<1>10. Errors(p)
    <2> SUFFICES ASSUME NEW i \in DOMAIN r.error_queue
                 PROVE  LET k == r.error_queue[i]
                        IN  /\ k \in 1..p.sesid
                            /\ k \in DOMAIN p.session_id_coroutine =>
                                 /\ p.session_id_coroutine[k] # BREAK
                                 /\ p.at[p.session_id_coroutine[k]] = "call"
        BY DEF Errors
    <2> DEFINE k == r.error_queue[i]
    <2>1. k \in 1..r.sesid /\ k # n
        BY <1>1 DEF Kept, Errors, n
    <2>2. k \in DOMAIN f => f[k] # BREAK /\ r.at[f[k]] = "call"
        BY DEF Kept, Errors, f
    <2> HIDE DEF k
    <2>3. k \in DOMAIN f => f[k] \in Co /\ p.session_id_coroutine[k] = f[k] /\ f[k] # c
        BY <1>2, <1>3, <2>2 DEF Kept, Shape, f
    <2>4. k \in 1..p.sesid
        BY <1>1, <2>1 DEF n
    <2> QED BY <1>2, <1>4, <2>1, <2>2, <2>3, <2>4 DEF k
<1> QED BY <1>7, <1>8, <1>9, <1>10 DEF Kept

\* A coroutine that has yielded, or was made and has not run, is resumed; what
\* session_id_coroutine had for it is taken out or becomes BREAK.
Awakens(p, r, c) ==
    /\ DOMAIN p = Fields
    /\ r.at[c] \in Yielded \cup {"ready"}
    /\ \E v \in {"run", "failed"} : p.at = [r.at EXCEPT ![c] = v]
    /\ p.on = [r.on EXCEPT ![c] = Nil]
    /\ p.mode = "run" /\ p.cur = c /\ p.sesid = r.sesid
    /\ p.coroutine_pool = r.coroutine_pool
    /\ LET f == r.session_id_coroutine
           g == p.session_id_coroutine
       IN  /\ g \in [DOMAIN g -> Co \cup {BREAK}]
           /\ DOMAIN g \subseteq DOMAIN f
           /\ \A k \in DOMAIN f : f[k] # c => k \in DOMAIN g /\ g[k] = f[k]
           /\ \A k \in DOMAIN g : f[k] = c => g[k] = BREAK /\ r.at[c] # "call"
    /\ p.sleep_session = Without(r.sleep_session, c)
    /\ p.watching_session = IF r.at[c] = "call" THEN Without(r.watching_session, r.on[c])
                            ELSE r.watching_session
    /\ p.wakeup_queue \in Seq(Co) /\ p.thread_queue = r.thread_queue
    /\ p.error_queue \in Seq(Nat)
    /\ \A i \in DOMAIN p.error_queue :
         \E j \in DOMAIN r.error_queue : p.error_queue[i] = r.error_queue[j]
    /\ p.fork_queue \subseteq r.fork_queue \ {c}

\* Then the tables stay sound.
LEMMA ResumeKept ==
    ASSUME NEW r, NEW p, NEW c \in Co, Kept(r), Awakens(p, r, c)
    PROVE  Kept(p)
<1> DEFINE f == r.session_id_coroutine
           g == p.session_id_coroutine
<1> USE DEF Awakens
<1>0. PICK v \in {"run", "failed"} : p.at = [r.at EXCEPT ![c] = v]
    OBVIOUS
<1>1. /\ r.at \in [Co -> States] /\ r.on \in [Co -> Nat] /\ c # BREAK
      /\ v \in States /\ v \notin Yielded /\ v # "ready" /\ v # "pool"
    BY DEF Kept, Shape, Co, BREAK, States, Yielded, Sleeping
<1>2. /\ \A d \in Co : d # c => p.at[d] = r.at[d] /\ p.on[d] = r.on[d]
      /\ p.at[c] = v /\ p.on[c] = Nil
    BY <1>0, <1>1
<1>3. /\ g \in [DOMAIN g -> Co \cup {BREAK}]
      /\ DOMAIN g \subseteq DOMAIN f
      /\ \A k \in DOMAIN f : f[k] # c => k \in DOMAIN g /\ g[k] = f[k]
      /\ \A k \in DOMAIN g : f[k] = c => g[k] = BREAK /\ r.at[c] # "call"
    OBVIOUS
<1>4. f \in [DOMAIN f -> Co \cup {BREAK}] /\ DOMAIN f \subseteq 1..r.sesid
    BY DEF Kept, Shape
<1>5. \A d \in Co : r.at[d] \in Yielded => r.on[d] \in DOMAIN f /\ f[r.on[d]] = d
    BY DEF Kept, Sessions
<1>6. \A k \in DOMAIN f : f[k] # BREAK => r.on[f[k]] = k /\ r.at[f[k]] \in Yielded \cup {"ready"}
    BY DEF Kept, Sessions
<1> HIDE DEF f, g
<1>7. DOMAIN p.watching_session \subseteq DOMAIN r.watching_session
    BY DEF Without
<1>8. Shape(p)
    <2>1. p.at \in [Co -> States] /\ p.on \in [Co -> Nat]
        BY <1>0, <1>1 DEF Nil
    <2>2. /\ DOMAIN g \subseteq 1..p.sesid
          /\ DOMAIN p.watching_session \subseteq 1..p.sesid
        BY <1>3, <1>4, <1>7 DEF Kept, Shape
    <2> QED BY <1>3, <2>1, <2>2 DEF Kept, Shape, Modes, g
<1>9. Roles(p)
    <2>1. \A i \in DOMAIN r.coroutine_pool : r.coroutine_pool[i] \in Co /\ r.coroutine_pool[i] # c
        BY DEF Kept, Shape, Roles, Yielded, Sleeping
    <2>2. \A d \in p.fork_queue : d \in Co /\ d # c /\ d \in r.fork_queue
        BY DEF Kept, Shape
    <2> QED BY <1>1, <1>2, <2>1, <2>2 DEF Kept, Roles
<1>10. Sessions(p)
    <2>1. \A d \in Co : p.at[d] \in Yielded => p.on[d] \in DOMAIN g /\ g[p.on[d]] = d
        BY <1>1, <1>2, <1>3, <1>5
    <2>2. \A k \in DOMAIN g : g[k] # BREAK => p.on[g[k]] = k /\ p.at[g[k]] \in Yielded \cup {"ready"}
        <3> SUFFICES ASSUME NEW k \in DOMAIN g, g[k] # BREAK
                     PROVE  p.on[g[k]] = k /\ p.at[g[k]] \in Yielded \cup {"ready"}
            OBVIOUS
        <3>1. g[k] = f[k] /\ f[k] # c /\ g[k] \in Co /\ k \in DOMAIN f
            BY <1>3
        <3> QED BY <1>2, <1>6, <3>1
    <2>3. /\ \A d \in Co : d \in DOMAIN p.sleep_session <=> p.at[d] \in Sleeping
          /\ \A d \in Co : d \in DOMAIN p.sleep_session => p.sleep_session[d] = p.on[d]
          /\ DOMAIN p.sleep_session \subseteq Co
        BY <1>1, <1>2 DEF Kept, Sessions, Without, Yielded
    <2>4. \A k \in DOMAIN p.watching_session : \E d \in Co : p.at[d] = "call" /\ p.on[d] = k
        <3> SUFFICES ASSUME NEW k \in DOMAIN p.watching_session
                     PROVE  \E d \in Co : p.at[d] = "call" /\ p.on[d] = k
            OBVIOUS
        <3>1. k \in DOMAIN r.watching_session
            BY <1>7
        <3>2. PICK d \in Co : r.at[d] = "call" /\ r.on[d] = k
            BY <3>1 DEF Kept, Sessions
        <3>3. d # c
            BY <3>2 DEF Without
        <3> QED BY <1>2, <3>2, <3>3
    <2> QED BY <2>1, <2>2, <2>3, <2>4 DEF Sessions, g
<1>11. Errors(p)
    <2> SUFFICES ASSUME NEW i \in DOMAIN p.error_queue
                 PROVE  LET k == p.error_queue[i]
                        IN  /\ k \in 1..p.sesid
                            /\ k \in DOMAIN p.session_id_coroutine =>
                                 /\ p.session_id_coroutine[k] # BREAK
                                 /\ p.at[p.session_id_coroutine[k]] = "call"
        BY DEF Errors
    <2>1. PICK j \in DOMAIN r.error_queue : p.error_queue[i] = r.error_queue[j]
        OBVIOUS
    <2> DEFINE k == r.error_queue[j]
    <2>2. k \in 1..r.sesid /\ (k \in DOMAIN f => f[k] # BREAK /\ r.at[f[k]] = "call")
        BY DEF Kept, Errors, f
    <2> HIDE DEF k
    <2>3. ASSUME k \in DOMAIN g PROVE g[k] # BREAK /\ p.at[g[k]] = "call"
        <3>1. k \in DOMAIN f /\ f[k] \in Co /\ f[k] # BREAK /\ r.at[f[k]] = "call"
            BY <1>3, <1>4, <2>2, <2>3
        <3>2. f[k] # c
            BY <1>3, <2>3, <3>1
        <3> QED BY <1>2, <1>3, <3>1, <3>2
    <2> QED BY <2>1, <2>2, <2>3 DEF k, g
<1> QED BY <1>8, <1>9, <1>10, <1>11 DEF Kept

\* The running coroutine returns to the pool, dies or is never resumed again.
Ends(p, r, v) ==
    /\ DOMAIN p = Fields /\ r.mode \in {"run", "exit"}
    /\ p.mode \in {"wake", "err", "fork"} /\ p.sesid = r.sesid
    /\ p.at = [r.at EXCEPT ![r.cur] = v] /\ p.on = r.on
    /\ p.coroutine_pool = IF v = "pool" THEN Append(r.coroutine_pool, r.cur)
                          ELSE r.coroutine_pool
    /\ p.session_id_coroutine = r.session_id_coroutine
    /\ p.sleep_session = r.sleep_session
    /\ p.watching_session = r.watching_session
    /\ p.error_queue = r.error_queue
    /\ p.wakeup_queue \in Seq(Co) /\ p.thread_queue \in Seq(Co)
    /\ p.fork_queue = r.fork_queue

\* Then the tables stay sound.
LEMMA EndKept ==
    ASSUME NEW r, NEW p, Kept(r), NEW v \in {"pool", "dead", "lost"}, Ends(p, r, v)
    PROVE  Kept(p)
<1> USE DEF Ends
<1> DEFINE c == r.cur
<1>1. /\ r.at \in [Co -> States] /\ c \in Co /\ v \in States
      /\ r.at[c] \in {"run", "failed"}
    BY DEF Kept, Shape, Roles, States
<1>2. /\ \A d \in Co : d # c => p.at[d] = r.at[d]
      /\ p.at[c] = v
    BY <1>1
<1> HIDE DEF c
<1>3. Shape(p)
    <2>1. p.at \in [Co -> States]
        BY <1>1 DEF c
    <2>2. p.coroutine_pool \in Seq(Co)
        BY <1>1 DEF Kept, Shape, c
    <2> QED BY <2>1, <2>2 DEF Kept, Shape, Modes
<1>4. Roles(p)
    <2>1. \A d \in Co : p.at[d] \notin Yielded \cup {"ready"} => p.on[d] = Nil
        BY <1>1, <1>2 DEF Kept, Roles, Yielded, Sleeping
    <2>2. \A d \in p.fork_queue : p.at[d] = "ready" /\ p.on[d] = Nil
        BY <1>1, <1>2 DEF Kept, Roles, Shape
    <2>3. /\ \A i \in DOMAIN p.coroutine_pool : p.at[p.coroutine_pool[i]] = "pool"
          /\ \A i, j \in DOMAIN p.coroutine_pool :
               p.coroutine_pool[i] = p.coroutine_pool[j] => i = j
        <3> DEFINE a == r.coroutine_pool
        <3>1. /\ a \in Seq(Co)
              /\ \A i \in DOMAIN a : a[i] \in Co /\ a[i] # c /\ r.at[a[i]] = "pool"
              /\ \A i, j \in DOMAIN a : a[i] = a[j] => i = j
            BY <1>1 DEF Kept, Shape, Roles
        <3>2. CASE v # "pool"
            BY <1>2, <3>1, <3>2
        <3>3. CASE v = "pool"
            <4> HIDE DEF a
            <4> DEFINE b == Append(a, c)
            <4>1. DOMAIN b = 1..(Len(a) + 1) /\ DOMAIN a = 1..Len(a) /\ Len(a) \in Nat
                BY <1>1, <3>1
            <4>2. b[Len(a) + 1] = c /\ \A i \in 1..Len(a) : b[i] = a[i]
                BY <1>1, <3>1
            <4>3. p.coroutine_pool = b
                BY <3>3 DEF a, c
            <4> HIDE DEF b
            <4>4. \A i \in DOMAIN b : i # Len(a) + 1 => i \in DOMAIN a
                BY <4>1
            <4>5. \A i \in DOMAIN b : p.at[b[i]] = "pool"
                BY <1>2, <3>1, <3>3, <4>1, <4>2, <4>4
            <4>6. \A i, j \in DOMAIN b : b[i] = b[j] => i = j
                BY <3>1, <4>1, <4>2, <4>4
            <4> QED BY <4>3, <4>5, <4>6
        <3> QED BY <3>2, <3>3
    <2> QED BY <2>1, <2>2, <2>3 DEF Roles
<1>5. \A d \in Co : r.at[d] \in Yielded \cup {"ready"} => d # c
    BY <1>1 DEF Yielded, Sleeping
<1>6. Sessions(p)
    <2>1. v \notin Yielded /\ r.at[c] \notin Sleeping /\ r.at[c] # "call" /\ v \notin Sleeping
        BY <1>1 DEF Yielded, Sleeping
    <2>2. \A k \in DOMAIN r.session_id_coroutine : r.session_id_coroutine[k] \in Co \cup {BREAK}
        BY DEF Kept, Shape
    <2> QED BY <1>1, <1>2, <1>5, <2>1, <2>2 DEF Kept, Sessions
<1>7. Errors(p)
    <2>1. \A k \in DOMAIN r.session_id_coroutine : r.session_id_coroutine[k] \in Co \cup {BREAK}
        BY DEF Kept, Shape
    <2> QED BY <1>1, <1>2, <2>1 DEF Kept, Errors
<1> QED BY <1>3, <1>4, <1>6, <1>7 DEF Kept

\* The last coroutine of the pool, and the pool without it.
LEMMA PoolKept ==
    ASSUME NEW r, Kept(r), r.coroutine_pool # << >>
    PROVE  /\ NewCo(r) \in Co /\ r.at[NewCo(r)] = "pool" /\ r.on[NewCo(r)] = Nil
           /\ Front(r.coroutine_pool) \in Seq(Co)
           /\ DOMAIN Front(r.coroutine_pool) \subseteq DOMAIN r.coroutine_pool
           /\ \A i \in DOMAIN Front(r.coroutine_pool) :
                /\ Front(r.coroutine_pool)[i] = r.coroutine_pool[i]
                /\ Front(r.coroutine_pool)[i] # NewCo(r)
<1> DEFINE a == r.coroutine_pool
           b == SubSeq(a, 1, Len(a) - 1)
<1>1. a \in Seq(Co) /\ a # << >>
    BY DEF Kept, Shape
<1>2. /\ \A i \in DOMAIN a : r.at[a[i]] = "pool"
      /\ \A i, j \in DOMAIN a : a[i] = a[j] => i = j
    BY DEF Kept, Roles
<1>3. Front(a) = b /\ NewCo(r) = a[Len(a)]
    BY DEF Front, NewCo, Last
<1> HIDE DEF a, b
<1>4. Len(a) \in Nat \ {0} /\ DOMAIN a = 1..Len(a) /\ Len(a) \in DOMAIN a
    BY <1>1
<1>5. a[Len(a)] \in Co
    BY <1>1, <1>4
<1>6. b \in Seq(Co) /\ DOMAIN b = 1..(Len(a) - 1)
    BY <1>1, <1>4 DEF b
<1>7. \A i \in DOMAIN b : b[i] = a[i] /\ i \in DOMAIN a /\ i # Len(a)
    BY <1>1, <1>4, <1>6 DEF b
<1>8. \A i \in DOMAIN b : b[i] # a[Len(a)]
    BY <1>2, <1>4, <1>7
<1>9. r.on[a[Len(a)]] = Nil
    BY <1>2, <1>4, <1>5 DEF Kept, Roles, Yielded, Sleeping
<1> QED BY <1>2, <1>3, <1>4, <1>5, <1>6, <1>7, <1>8, <1>9 DEF a

\* A coroutine leaves the pool, to run a request or a fork.
Creates(p, r) ==
    /\ DOMAIN p = Fields /\ r.coroutine_pool # << >>
    /\ \/ /\ p.at = [r.at EXCEPT ![NewCo(r)] = "run"]
          /\ p.mode = "run" /\ p.cur = NewCo(r) /\ p.fork_queue = r.fork_queue
       \/ /\ p.at = [r.at EXCEPT ![NewCo(r)] = "ready"]
          /\ p.mode = r.mode /\ p.cur = r.cur
          /\ p.fork_queue = r.fork_queue \cup {NewCo(r)}
    /\ p.on = r.on /\ p.sesid = r.sesid
    /\ p.coroutine_pool = Front(r.coroutine_pool)
    /\ p.session_id_coroutine = r.session_id_coroutine
    /\ p.sleep_session = r.sleep_session
    /\ p.watching_session = r.watching_session
    /\ p.error_queue = r.error_queue
    /\ p.wakeup_queue = r.wakeup_queue /\ p.thread_queue = r.thread_queue

\* Then the tables stay sound.
LEMMA CreateKept ==
    ASSUME NEW r, NEW p, Kept(r), Creates(p, r)
    PROVE  Kept(p)
<1> USE DEF Creates
<1> DEFINE c == NewCo(r)
<1>1. /\ r.at \in [Co -> States] /\ c \in Co /\ r.at[c] = "pool" /\ r.on[c] = Nil
      /\ p.coroutine_pool \in Seq(Co)
      /\ DOMAIN p.coroutine_pool \subseteq DOMAIN r.coroutine_pool
      /\ \A i \in DOMAIN p.coroutine_pool :
            p.coroutine_pool[i] = r.coroutine_pool[i] /\ p.coroutine_pool[i] # c
    <2> DEFINE a == Front(r.coroutine_pool)
    <2>1. /\ c \in Co /\ r.at[c] = "pool" /\ r.on[c] = Nil
          /\ a \in Seq(Co) /\ DOMAIN a \subseteq DOMAIN r.coroutine_pool
          /\ \A i \in DOMAIN a : a[i] = r.coroutine_pool[i] /\ a[i] # c
        BY PoolKept
    <2>2. r.at \in [Co -> States] /\ r.on \in [Co -> Nat]
        BY DEF Kept, Shape
    <2> HIDE DEF a, c
    <2>3. p.coroutine_pool = a
        BY DEF a
    <2> QED BY <2>1, <2>2, <2>3
<1>2. PICK v \in {"run", "ready"} :
         /\ \A d \in Co : d # c => p.at[d] = r.at[d]
         /\ p.at[c] = v
         /\ p.at \in [Co -> States]
         /\ v = "run" => p.mode = "run" /\ p.cur = c /\ p.fork_queue = r.fork_queue
         /\ v = "ready" => /\ p.mode = r.mode /\ p.cur = r.cur
                           /\ p.fork_queue = r.fork_queue \cup {c}
    <2>1. "run" \in States /\ "ready" \in States
        BY DEF States
    <2> HIDE DEF c
    <2>2. CASE /\ p.at = [r.at EXCEPT ![c] = "run"]
               /\ p.mode = "run" /\ p.cur = c /\ p.fork_queue = r.fork_queue
        BY <1>1, <2>1, <2>2
    <2>3. CASE /\ p.at = [r.at EXCEPT ![c] = "ready"]
               /\ p.mode = r.mode /\ p.cur = r.cur
               /\ p.fork_queue = r.fork_queue \cup {c}
        BY <1>1, <2>1, <2>3
    <2> QED BY <2>2, <2>3 DEF c
<1> HIDE DEF c
<1>3. Shape(p)
    BY <1>1, <1>2 DEF Kept, Shape, Modes
<1>4. Roles(p)
    <2>1. \A d \in Co : p.at[d] \notin Yielded \cup {"ready"} => p.on[d] = Nil
        BY <1>1, <1>2 DEF Kept, Roles
    <2>2. \A d \in p.fork_queue : p.at[d] = "ready" /\ p.on[d] = Nil
        <3>1. \A d \in r.fork_queue : d \in Co /\ r.at[d] = "ready" /\ r.on[d] = Nil
            BY DEF Kept, Roles, Shape
        <3>2. \A d \in r.fork_queue : p.at[d] = "ready" /\ p.on[d] = Nil
            BY <1>1, <1>2, <3>1
        <3>3. p.fork_queue = r.fork_queue \/ (v = "ready" /\ p.fork_queue = r.fork_queue \cup {c})
            BY <1>2
        <3> QED BY <1>1, <1>2, <3>2, <3>3
    <2>3. p.mode \in {"run", "exit"} => p.at[p.cur] \in {"run", "failed"}
        <3>1. r.mode \in {"run", "exit"} => r.cur \in Co /\ r.at[r.cur] \in {"run", "failed"}
            BY DEF Kept, Roles, Shape
        <3>2. CASE v = "run"
            BY <1>2, <3>2
        <3>3. CASE v = "ready"
            BY <1>1, <1>2, <3>1, <3>3
        <3> QED BY <1>2, <3>2, <3>3
    <2>4. \A i \in DOMAIN p.coroutine_pool : p.coroutine_pool[i] \in Co
        BY <1>1
    <2>5. /\ \A i \in DOMAIN p.coroutine_pool : p.at[p.coroutine_pool[i]] = "pool"
          /\ \A i, j \in DOMAIN p.coroutine_pool :
               p.coroutine_pool[i] = p.coroutine_pool[j] => i = j
        BY <1>1, <1>2, <2>4 DEF Kept, Roles
    <2> QED BY <2>1, <2>2, <2>3, <2>5 DEF Roles
<1>5. \A k \in DOMAIN r.session_id_coroutine : r.session_id_coroutine[k] \in Co \cup {BREAK}
    BY DEF Kept, Shape
<1>6. "pool" \notin Yielded \cup {"ready"} /\ v \notin Yielded /\ "pool" \notin Sleeping /\ v \notin Sleeping
    BY DEF Yielded, Sleeping
<1>7. Sessions(p)
    BY <1>1, <1>2, <1>5, <1>6 DEF Kept, Sessions
<1>8. Errors(p)
    BY <1>1, <1>2, <1>5 DEF Kept, Errors
<1> QED BY <1>3, <1>4, <1>7, <1>8 DEF Kept

\* A coroutine leaves the pool and waits for a timeout, with a new session.
Plans(p, r) ==
    /\ DOMAIN p = Fields /\ r.coroutine_pool # << >>
    /\ p.at = [r.at EXCEPT ![NewCo(r)] = "ready"]
    /\ p.mode = r.mode /\ p.cur = r.cur /\ p.fork_queue = r.fork_queue
    /\ p.on = [r.on EXCEPT ![NewCo(r)] = r.sesid + 1] /\ p.sesid = r.sesid + 1
    /\ p.coroutine_pool = Front(r.coroutine_pool)
    /\ p.session_id_coroutine = With(r.session_id_coroutine, r.sesid + 1, NewCo(r))
    /\ p.sleep_session = r.sleep_session
    /\ p.watching_session = r.watching_session
    /\ p.error_queue = r.error_queue
    /\ p.wakeup_queue = r.wakeup_queue /\ p.thread_queue = r.thread_queue

\* Then the tables stay sound.
LEMMA TimeoutKept ==
    ASSUME NEW r, NEW p, Kept(r), Plans(p, r)
    PROVE  Kept(p)
<1> USE DEF Plans
<1> DEFINE c == NewCo(r)
           n == r.sesid + 1
           f == r.session_id_coroutine
           g == p.session_id_coroutine
<1>1. /\ r.at \in [Co -> States] /\ r.on \in [Co -> Nat]
      /\ c \in Co /\ r.at[c] = "pool" /\ r.on[c] = Nil
      /\ p.coroutine_pool \in Seq(Co)
      /\ DOMAIN p.coroutine_pool \subseteq DOMAIN r.coroutine_pool
      /\ \A i \in DOMAIN p.coroutine_pool :
            p.coroutine_pool[i] = r.coroutine_pool[i] /\ p.coroutine_pool[i] # c
    <2> DEFINE a == Front(r.coroutine_pool)
    <2>1. /\ c \in Co /\ r.at[c] = "pool" /\ r.on[c] = Nil
          /\ a \in Seq(Co) /\ DOMAIN a \subseteq DOMAIN r.coroutine_pool
          /\ \A i \in DOMAIN a : a[i] = r.coroutine_pool[i] /\ a[i] # c
        BY PoolKept
    <2>2. r.at \in [Co -> States] /\ r.on \in [Co -> Nat]
        BY DEF Kept, Shape
    <2> HIDE DEF a, c
    <2>3. p.coroutine_pool = a
        BY DEF a
    <2> QED BY <2>1, <2>2, <2>3
<1>2. /\ n \in Nat /\ n \notin 1..r.sesid /\ n \in 1..n /\ 1..r.sesid \subseteq 1..n
      /\ "ready" \in States /\ c # BREAK
    BY <1>1 DEF Kept, Shape, States, BREAK, Co
<1> HIDE DEF c, n
<1>3. /\ \A d \in Co : d # c => p.at[d] = r.at[d] /\ p.on[d] = r.on[d]
      /\ p.at[c] = "ready" /\ p.on[c] = n
      /\ p.at \in [Co -> States] /\ p.on \in [Co -> Nat]
    BY <1>1, <1>2 DEF c, n
<1>4. f \in [DOMAIN f -> Co \cup {BREAK}] /\ DOMAIN f \subseteq 1..r.sesid
    BY DEF Kept, Shape
<1>5. /\ DOMAIN g = DOMAIN f \cup {n} /\ g[n] = c
      /\ \A k \in DOMAIN f : g[k] = f[k] /\ k # n
      /\ g \in [DOMAIN g -> Co \cup {BREAK}]
    BY <1>1, <1>2, <1>4 DEF With, n, c
<1>6. /\ "pool" \notin Yielded \cup {"ready"} /\ "ready" \notin Yielded
      /\ "pool" \notin Sleeping /\ "ready" \notin Sleeping
    BY DEF Yielded, Sleeping
<1>7. \A k \in DOMAIN f : f[k] # c
    BY <1>1, <1>2, <1>6 DEF Kept, Sessions
<1> HIDE DEF f, g
<1>8. Shape(p)
    <2>1. /\ DOMAIN g \subseteq 1..p.sesid
          /\ DOMAIN p.watching_session \subseteq 1..p.sesid
        BY <1>2, <1>4, <1>5 DEF Kept, Shape, n
    <2> QED BY <1>1, <1>2, <1>3, <1>5, <2>1 DEF Kept, Shape, Modes, n, g
<1>9. Roles(p)
    <2>1. \A d \in Co : p.at[d] \notin Yielded \cup {"ready"} => p.on[d] = Nil
        BY <1>1, <1>3 DEF Kept, Roles
    <2>2. \A d \in p.fork_queue : p.at[d] = "ready" /\ p.on[d] = Nil
        BY <1>1, <1>3 DEF Kept, Roles, Shape
    <2>3. p.mode \in {"run", "exit"} => p.at[p.cur] \in {"run", "failed"}
        BY <1>1, <1>3 DEF Kept, Roles, Shape
    <2>4. \A i \in DOMAIN p.coroutine_pool : p.coroutine_pool[i] \in Co
        BY <1>1
    <2>5. /\ \A i \in DOMAIN p.coroutine_pool : p.at[p.coroutine_pool[i]] = "pool"
          /\ \A i, j \in DOMAIN p.coroutine_pool :
               p.coroutine_pool[i] = p.coroutine_pool[j] => i = j
        BY <1>1, <1>3, <2>4 DEF Kept, Roles
    <2> QED BY <2>1, <2>2, <2>3, <2>5 DEF Roles
<1>10. Sessions(p)
    <2>1. \A d \in Co : p.at[d] \in Yielded => p.on[d] \in DOMAIN g /\ g[p.on[d]] = d
        BY <1>3, <1>5, <1>6 DEF Kept, Sessions, f
    <2>2. \A k \in DOMAIN g : g[k] # BREAK => p.on[g[k]] = k /\ p.at[g[k]] \in Yielded \cup {"ready"}
        <3> SUFFICES ASSUME NEW k \in DOMAIN g, g[k] # BREAK
                     PROVE  p.on[g[k]] = k /\ p.at[g[k]] \in Yielded \cup {"ready"}
            OBVIOUS
        <3>1. CASE k = n
            BY <1>3, <1>5, <3>1
        <3>2. CASE k \in DOMAIN f
            <4>1. g[k] = f[k] /\ f[k] # c /\ f[k] \in Co
                BY <1>4, <1>5, <1>7, <3>2
            <4> QED BY <1>3, <4>1, <3>2 DEF Kept, Sessions, f
        <3> QED BY <1>5, <3>1, <3>2
    <2>3. /\ \A d \in Co : d \in DOMAIN p.sleep_session <=> p.at[d] \in Sleeping
          /\ \A d \in Co : d \in DOMAIN p.sleep_session => p.sleep_session[d] = p.on[d]
          /\ DOMAIN p.sleep_session \subseteq Co
        BY <1>1, <1>3, <1>6 DEF Kept, Sessions
    <2>4. \A k \in DOMAIN p.watching_session : \E d \in Co : p.at[d] = "call" /\ p.on[d] = k
        BY <1>1, <1>3 DEF Kept, Sessions
    <2> QED BY <2>1, <2>2, <2>3, <2>4 DEF Sessions, g
<1>11. Errors(p)
    <2> SUFFICES ASSUME NEW i \in DOMAIN r.error_queue
                 PROVE  LET k == r.error_queue[i]
                        IN  /\ k \in 1..p.sesid
                            /\ k \in DOMAIN g => g[k] # BREAK /\ p.at[g[k]] = "call"
        BY DEF Errors, g
    <2> DEFINE k == r.error_queue[i]
    <2>1. k \in 1..r.sesid /\ (k \in DOMAIN f => f[k] # BREAK /\ r.at[f[k]] = "call")
        BY DEF Kept, Errors, f
    <2> HIDE DEF k
    <2>2. k # n /\ k \in 1..p.sesid
        BY <1>2, <2>1 DEF n
    <2>3. k \in DOMAIN f => f[k] \in Co /\ g[k] = f[k] /\ f[k] # c
        BY <1>4, <1>5, <1>7, <2>1
    <2> QED BY <1>3, <1>5, <2>1, <2>2, <2>3 DEF k
<1> QED BY <1>8, <1>9, <1>10, <1>11 DEF Kept

-----------------------------------------------------------------------------
(* The fields the helpers change *)

\* p is r in the fields of F.
Keeps(p, r, F) == DOMAIN p = Fields /\ \A x \in F : p[x] = r[x]

\* The phases that are skipped.
LEMMA SettledFields ==
    ASSUME NEW r, DOMAIN r = Fields, r.mode \in Modes
    PROVE  LET p == Settled(r)
           IN  /\ Keeps(p, r, Fields \ {"mode", "depth"})
               /\ p.mode \in Modes
               /\ p.mode \in {"run", "exit"} <=> r.mode \in {"run", "exit"}
               /\ r.mode \in {"run", "exit"} => p.mode = r.mode
               /\ Poised(p)
<1> DEFINE p == Settled(r)
<1>1. Keeps(p, r, Fields \ {"mode", "depth"})
    BY DEF Keeps, Settled, Fields
<1>2. /\ p.mode \in Modes
      /\ p.mode \in {"run", "exit"} <=> r.mode \in {"run", "exit"}
      /\ r.mode \in {"run", "exit"} => p.mode = r.mode
      /\ p.mode = "wake" => r.wakeup_queue # << >>
      /\ p.mode = "err" => r.error_queue # << >>
    BY DEF Settled, Fields, Modes
<1>3. p.wakeup_queue = r.wakeup_queue /\ p.error_queue = r.error_queue
    BY DEF Settled, Fields
<1> QED BY <1>1, <1>2, <1>3 DEF Poised

\* An error thrown out of suspend().
LEMMA ThrownFields ==
    ASSUME NEW r, DOMAIN r = Fields
    PROVE  Keeps(Thrown(r), r, Fields \ {"mode", "cur", "depth"}) /\ Thrown(r).mode = "fork"
BY DEF Keeps, Thrown, Fields

\* co_create
LEMMA CreatedFields ==
    ASSUME NEW r, DOMAIN r = Fields, NEW state
    PROVE  LET p == Created(r, state)
           IN  /\ Keeps(p, r, Fields \ {"at", "coroutine_pool"})
               /\ p.at = [r.at EXCEPT ![NewCo(r)] = state]
               /\ p.coroutine_pool = Front(r.coroutine_pool)
BY DEF Keeps, Created, Fields

\* A yield.
ParkedFrom(p, r, how, ses) ==
    /\ Keeps(p, r, Fields \ {"mode", "cur", "at", "on", "session_id_coroutine",
                             "sleep_session"})
    /\ p.mode = "wake"
    /\ p.at = [r.at EXCEPT ![r.cur] = how]
    /\ p.on = [r.on EXCEPT ![r.cur] = ses]
    /\ p.session_id_coroutine = With(r.session_id_coroutine, ses, r.cur)
    /\ p.sleep_session = IF how = "call" THEN r.sleep_session
                         ELSE With(r.sleep_session, r.cur, ses)

\* Parked does that, and nothing else.
LEMMA ParkedFields ==
    ASSUME NEW r, DOMAIN r = Fields, NEW how, NEW ses
    PROVE  ParkedFrom(Parked(r, how, ses), r, how, ses)
BY DEF Keeps, Parked, Fields, ParkedFrom

\* A coroutine is resumed.
ResumedFrom(p, r, c) ==
    /\ Keeps(p, r, Fields \ {"mode", "cur", "at", "on", "session_id_coroutine",
                "sleep_session", "watching_session", "current_thread", "ref", "inside"})
    /\ p.mode = "run" /\ p.cur = c
    /\ \E v \in {"run", "failed"} : p.at = [r.at EXCEPT ![c] = v]
    /\ p.on = [r.on EXCEPT ![c] = Nil]
    /\ p.session_id_coroutine = IF r.at[c] \in {"wait", "line"}
                                THEN Without(r.session_id_coroutine, r.on[c])
                                ELSE r.session_id_coroutine
    /\ p.sleep_session = Without(r.sleep_session, c)
    /\ p.watching_session = IF r.at[c] = "call" THEN Without(r.watching_session, r.on[c])
                            ELSE r.watching_session

\* Resumed does that, and nothing else.
LEMMA ResumedFields ==
    ASSUME NEW r, DOMAIN r = Fields, NEW c
    PROVE  ResumedFrom(Resumed(r, c), r, c)
<1> DEFINE k == Cleaned(r, c)
           w == [k EXCEPT !.mode = "run", !.cur = c, !.at[c] = "run", !.on[c] = Nil]
           F == Fields \ {"mode", "cur", "at", "on", "session_id_coroutine",
                          "sleep_session", "watching_session", "current_thread", "ref", "inside"}
<1>1. /\ Keeps(k, r, Fields \ {"session_id_coroutine", "sleep_session", "watching_session"})
      /\ k.session_id_coroutine = IF r.at[c] \in {"wait", "line"}
                                  THEN Without(r.session_id_coroutine, r.on[c])
                                  ELSE r.session_id_coroutine
      /\ k.sleep_session = Without(r.sleep_session, c)
      /\ k.watching_session = IF r.at[c] = "call" THEN Without(r.watching_session, r.on[c])
                              ELSE r.watching_session
    BY DEF Keeps, Cleaned, Fields
<1> HIDE DEF k
<1>2. /\ DOMAIN w = Fields /\ Keeps(w, k, Fields \ {"mode", "cur", "at", "on"})
      /\ w.mode = "run" /\ w.cur = c
      /\ w.at = [k.at EXCEPT ![c] = "run"] /\ w.on = [k.on EXCEPT ![c] = Nil]
    BY <1>1 DEF Keeps, Fields
<1>3. /\ k.at = r.at /\ k.on = r.on
    BY <1>1 DEF Keeps, Fields
<1> HIDE DEF w
<1>4. /\ Keeps(w, r, F)
      /\ w.session_id_coroutine = k.session_id_coroutine
      /\ w.sleep_session = k.sleep_session /\ w.watching_session = k.watching_session
    BY <1>1, <1>2 DEF Keeps, Fields
<1>5. PICK p : /\ p = Resumed(r, c)
               /\ p \in {w, [w EXCEPT !.current_thread = c, !.ref = 1, !.inside = @ \cup {c}],
                         [w EXCEPT !.at[c] = "failed"]}
    BY DEF Resumed, w, k
<1>6. /\ Keeps(p, w, F \cup {"mode", "cur", "on", "session_id_coroutine", "sleep_session",
                             "watching_session"})
      /\ p.at = w.at \/ p.at = [w.at EXCEPT ![c] = "failed"]
    <2>1. CASE p = w
        BY <1>2, <2>1 DEF Keeps
    <2>2. CASE p = [w EXCEPT !.current_thread = c, !.ref = 1, !.inside = @ \cup {c}]
        BY <1>2, <2>2 DEF Keeps, Fields
    <2>3. CASE p = [w EXCEPT !.at[c] = "failed"]
        BY <1>2, <2>3 DEF Keeps, Fields
    <2> QED BY <1>5, <2>1, <2>2, <2>3
<1>7. \E v \in {"run", "failed"} : p.at = [r.at EXCEPT ![c] = v]
    <2>1. [[r.at EXCEPT ![c] = "run"] EXCEPT ![c] = "failed"] = [r.at EXCEPT ![c] = "failed"]
        OBVIOUS
    <2> QED BY <1>2, <1>3, <1>6, <2>1
<1>8. Keeps(p, r, F)
    BY <1>4, <1>6 DEF Keeps
<1>9. /\ p.mode = "run" /\ p.cur = c /\ p.on = [r.on EXCEPT ![c] = Nil]
      /\ p.session_id_coroutine = k.session_id_coroutine
      /\ p.sleep_session = k.sleep_session /\ p.watching_session = k.watching_session
    BY <1>2, <1>3, <1>4, <1>6 DEF Keeps
<1> QED BY <1>1, <1>5, <1>7, <1>8, <1>9 DEF ResumedFrom

\* The section is handed over.
LEMMA HandOverFields ==
    ASSUME NEW r, DOMAIN r = Fields, r.thread_queue \in Seq(Co), r.wakeup_queue \in Seq(Co),
           DOMAIN r.sleep_session \subseteq Co
    PROVE  LET p == HandOver(r)
           IN  /\ Keeps(p, r, Fields \ {"ref", "inside", "current_thread", "thread_queue",
                                        "wakeup_queue"})
               /\ p.thread_queue \in Seq(Co) /\ p.wakeup_queue \in Seq(Co)
<1> DEFINE next == IF r.thread_queue = <<>> THEN Nil ELSE Head(r.thread_queue)
           a == IF next = Nil THEN r.thread_queue ELSE Tail(r.thread_queue)
           b == IF next \in DOMAIN r.sleep_session THEN Append(r.wakeup_queue, next)
                ELSE r.wakeup_queue
<1>1. a \in Seq(Co)
    BY DEF Nil
<1>2. b \in Seq(Co)
    BY DEF Nil
<1> HIDE DEF next, a, b
<1>3. HandOver(r) = [r EXCEPT !.ref = 0, !.inside = @ \ {r.cur}, !.current_thread = next,
                              !.thread_queue = a, !.wakeup_queue = b]
    BY DEF HandOver, next, a, b
<1> QED BY <1>1, <1>2, <1>3 DEF Keeps, Fields

\* A reference is given back.
LEMMA ReleasedFields ==
    ASSUME NEW r, DOMAIN r = Fields, NEW a
    PROVE  /\ Keeps(Released(r, a), r, Fields \ {"watching_service"})
           /\ Released(r, a).watching_service
                = [r.watching_service EXCEPT ![a] = IF @ > 0 THEN @ - 1 ELSE 0]
BY DEF Keeps, Released, Fields

-----------------------------------------------------------------------------
(* What a step must show *)

\* The phases that are skipped change nothing of this.
LEMMA SettledKept ==
    ASSUME NEW s, NEW p, NEW tm, NEW b, Kept(p), Counts(p), Due(s, p, tm, b)
    PROVE  LET k == Settled(p)
           IN  Kept(k) /\ Poised(k) /\ Counts(k) /\ Due(s, k, tm, b)
<1> DEFINE k == Settled(p)
<1>1. DOMAIN p = Fields /\ p.mode \in Modes
    BY DEF Kept, Shape
<1>2. /\ Keeps(k, p, Fields \ {"mode", "depth"})
      /\ k.mode \in Modes
      /\ k.mode \in {"run", "exit"} <=> p.mode \in {"run", "exit"}
      /\ Poised(k)
    BY <1>1, SettledFields
<1> HIDE DEF k
<1>3. Kept(k)
    <2>1. p.wakeup_queue \in Seq(Co) /\ p.thread_queue \in Seq(Co)
        BY DEF Kept, Shape
    <2> QED BY <1>2, <2>1, SameKept DEF Keeps, Fields
<1>4. Counts(k)
    <2>1. /\ k.watching_service = p.watching_service /\ k.request = p.request
          /\ k.unresponse = p.unresponse
        BY <1>2 DEF Keeps, Fields
    <2> QED BY <2>1 DEF Counts, WatchCounts
<1>5. Due(s, k, tm, b)
    <2>1. /\ k.alive = p.alive /\ k.session_id_coroutine = p.session_id_coroutine
          /\ k.at = p.at
        BY <1>2 DEF Keeps, Fields
    <2> QED BY <2>1 DEF Due
<1> QED BY <1>2, <1>3, <1>4, <1>5 DEF k

\* Every message of b is in d.
Grows(b, d) == \A i \in DOMAIN b : \E j \in DOMAIN d : d[j] = b[i]

\* Timers and mailboxes of the others only get more.
OthersGrow(s) ==
    \A t \in Services \ {s} :
      /\ \A n : <<t, n>> \in timers => <<t, n>> \in timers'
      /\ Grows(q[t], q'[t])

\* A promise is kept while timers and messages only get more.
LEMMA DueGrows ==
    ASSUME NEW s, NEW r, NEW p, NEW tm, NEW tn, NEW b, NEW d, Due(s, r, tm, b),
           \A n : <<s, n>> \in tm => <<s, n>> \in tn, Grows(b, d),
           p.alive => r.alive,
           \A n \in DOMAIN p.session_id_coroutine :
             LET c == p.session_id_coroutine[n]
             IN  c = BREAK \/ p.at[c] = "sleep" =>
                   /\ n \in DOMAIN r.session_id_coroutine
                   /\ \/ r.session_id_coroutine[n] = BREAK
                      \/ r.at[r.session_id_coroutine[n]] = "sleep"
    PROVE  Due(s, p, tn, d)
BY DEF Due, Grows

\* A step of one service.
LEMMA SetInv ==
    ASSUME SessionInv, SchedulerInv', Mailed', NEW s \in Services, NEW p,
           Set(s, p), Kept(p), Counts(p), Due(s, p, timers', q'[s]), OthersGrow(s)
    PROVE  SessionInv'
<1>1. st' = [st EXCEPT ![s] = Settled(p)] /\ st = [t \in Services |-> st[t]]
    BY DEF Set, SessionInv, SchedulerInv
<1>2. st'[s] = Settled(p) /\ \A t \in Services : t # s => st'[t] = st[t]
    BY <1>1
<1> SUFFICES ASSUME NEW t \in Services
             PROVE  Kept(st'[t]) /\ Poised(st'[t]) /\ Counts(st'[t])
                    /\ Due(t, st'[t], timers', q'[t])
    BY DEF SessionInv
<1>3. CASE t = s
    BY <1>2, <1>3, SettledKept
<1>4. CASE t # s
    <2>1. st'[t] = st[t]
        BY <1>2, <1>4
    <2>2. Kept(st[t]) /\ Poised(st[t]) /\ Counts(st[t]) /\ Due(t, st[t], timers, q[t])
        BY DEF SessionInv
    <2>3. Due(t, st[t], timers', q'[t])
        BY <1>4, <2>2, DueGrows DEF OthersGrow
    <2> QED BY <2>1, <2>2, <2>3
<1> QED BY <1>3, <1>4

\* A message is appended, or dropped by a service that is gone.
LEMMA PostGrows ==
    ASSUME Mailed, NEW t, NEW m \in Messages, q' = Post(t, m)
    PROVE  /\ Mailed'
           /\ \A u \in Services : Grows(q[u], q'[u])
           /\ t \in Services /\ st[t].alive => \E i \in DOMAIN q'[t] : q'[t][i] = m
           /\ \A u \in Services : \A i \in DOMAIN q'[u] :
                (u = t /\ q'[u][i] = m) \/ \E j \in DOMAIN q[u] : q[u][j] = q'[u][i]
<1>1. CASE ~(t \in Services /\ st[t].alive)
    BY <1>1 DEF Post, Mailed, Grows
<1>2. CASE t \in Services /\ st[t].alive
    <2> DEFINE b == q[t]
               d == Append(b, m)
    <2>1. b \in Seq(Messages) /\ q \in [Services -> Seq(Messages)]
        BY <1>2 DEF Mailed
    <2>2. q' = [q EXCEPT ![t] = d]
        BY <1>2 DEF Post
    <2> HIDE DEF b
    <2>3. /\ d \in Seq(Messages) /\ Len(b) \in Nat
          /\ DOMAIN d = 1..(Len(b) + 1) /\ DOMAIN b = 1..Len(b)
          /\ d[Len(b) + 1] = m /\ \A i \in 1..Len(b) : d[i] = b[i]
        BY <2>1
    <2> HIDE DEF d
    <2>4. /\ Grows(b, d) /\ \E i \in DOMAIN d : d[i] = m
          /\ \A i \in DOMAIN d : d[i] = m \/ \E j \in DOMAIN b : b[j] = d[i]
        <3>1. Len(b) + 1 \in DOMAIN d /\ \A i \in DOMAIN b : i \in DOMAIN d
            BY <2>3
        <3>2. \A i \in DOMAIN d : i # Len(b) + 1 => i \in DOMAIN b
            BY <2>3
        <3> QED BY <2>3, <3>1, <3>2 DEF Grows
    <2>5. q'[t] = d /\ \A u \in Services : u # t => q'[u] = q[u]
        BY <1>2, <2>1, <2>2
    <2>6. Mailed'
        BY <2>1, <2>2, <2>3 DEF Mailed
    <2>7. \A u \in Services : Grows(q[u], q[u])
        BY DEF Grows
    <2> QED BY <1>2, <2>4, <2>5, <2>6, <2>7 DEF b
<1> QED BY <1>1, <1>2

\* Who works for whom stays as it is.
LEMMA SameCounts ==
    ASSUME NEW r, NEW p, Counts(r), p.watching_service = r.watching_service,
           p.request = r.request, p.unresponse = r.unresponse
    PROVE  Counts(p)
BY DEF Counts, WatchCounts

\* The sessions that still have a timer to come.
Awaits(r, n) ==
    /\ n \in DOMAIN r.session_id_coroutine
    /\ \/ r.session_id_coroutine[n] = BREAK
       \/ r.at[r.session_id_coroutine[n]] = "sleep"

\* Resuming a coroutine, in all its uses: x is the record r whose session was
\* taken out or marked BREAK, and whose queues were popped.
Readied(x, r, c) ==
    /\ r.at[c] \in Yielded \cup {"ready"}
    /\ Keeps(x, r, Fields \ {"mode", "session_id_coroutine", "error_queue", "wakeup_queue",
                             "fork_queue", "depth"})
    /\ LET f == r.session_id_coroutine
           h == x.session_id_coroutine
       IN  /\ h \in [DOMAIN h -> Co \cup {BREAK}]
           /\ DOMAIN h \subseteq DOMAIN f
           /\ \A k \in DOMAIN f : f[k] # c => k \in DOMAIN h /\ h[k] = f[k]
           /\ \A k \in DOMAIN h : f[k] = c => h[k] = BREAK /\ r.at[c] \in Sleeping
    /\ x.wakeup_queue \in Seq(Co) /\ x.error_queue \in Seq(Nat)
    /\ \A i \in DOMAIN x.error_queue :
         \E j \in DOMAIN r.error_queue : x.error_queue[i] = r.error_queue[j]
    /\ x.fork_queue \subseteq r.fork_queue \ {c}

\* No promise is new.
NoNewPromise(p, r) == (p.alive => r.alive) /\ \A n : Awaits(p, n) => Awaits(r, n)

\* A coroutine that is ready to go on, resumed, leaves the service sound.
LEMMA ResumedKept ==
    ASSUME NEW r, NEW x, NEW c \in Co, Kept(r), Counts(r), Readied(x, r, c)
    PROVE  LET p == Resumed(x, c)
           IN  Kept(p) /\ Counts(p) /\ NoNewPromise(p, r) /\ ResumedFrom(p, x, c)
<1> DEFINE p == Resumed(x, c)
           f == r.session_id_coroutine
           h == x.session_id_coroutine
           g == IF x.at[c] \in {"wait", "line"} THEN Without(h, x.on[c]) ELSE h
<1> USE DEF Readied
<1>1. DOMAIN x = Fields
    BY DEF Keeps
<1>2. ResumedFrom(p, x, c)
    BY <1>1, ResumedFields
<1>3. /\ x.at = r.at /\ x.on = r.on /\ x.sleep_session = r.sleep_session
      /\ x.watching_session = r.watching_session
      /\ x.sesid = r.sesid /\ x.coroutine_pool = r.coroutine_pool
      /\ x.thread_queue = r.thread_queue /\ x.alive = r.alive
      /\ x.watching_service = r.watching_service
      /\ x.request = r.request /\ x.unresponse = r.unresponse
    BY DEF Keeps, Fields
<1> HIDE DEF p
<1>4. /\ p.sesid = r.sesid /\ p.coroutine_pool = r.coroutine_pool
      /\ p.thread_queue = r.thread_queue /\ p.alive = r.alive
      /\ p.watching_service = r.watching_service
      /\ p.request = r.request /\ p.unresponse = r.unresponse
      /\ p.wakeup_queue = x.wakeup_queue /\ p.error_queue = x.error_queue
      /\ p.fork_queue = x.fork_queue /\ DOMAIN p = Fields
    BY <1>2, <1>3 DEF Keeps, Fields, ResumedFrom
<1>5. /\ \A k \in DOMAIN f : f[k] # BREAK => r.on[f[k]] = k
      /\ r.at[c] \in Yielded => r.on[c] \in DOMAIN f /\ f[r.on[c]] = c
      /\ f \in [DOMAIN f -> Co \cup {BREAK}]
      /\ r.at \in [Co -> States] /\ c # BREAK
    BY DEF Kept, Sessions, Shape, Co, BREAK
<1>6. /\ h \in [DOMAIN h -> Co \cup {BREAK}]
      /\ DOMAIN h \subseteq DOMAIN f
      /\ \A k \in DOMAIN f : f[k] # c => k \in DOMAIN h /\ h[k] = f[k]
      /\ \A k \in DOMAIN h : f[k] = c => h[k] = BREAK /\ r.at[c] \in Sleeping
    OBVIOUS
<1> HIDE DEF f, h
<1>7. /\ g \in [DOMAIN g -> Co \cup {BREAK}]
      /\ DOMAIN g \subseteq DOMAIN f
      /\ \A k \in DOMAIN f : f[k] # c => k \in DOMAIN g /\ g[k] = f[k]
      /\ \A k \in DOMAIN g : f[k] = c => g[k] = BREAK /\ r.at[c] = "sleep"
    <2>1. CASE r.at[c] \in {"wait", "line"}
        <3>1. g = Without(h, r.on[c]) /\ r.at[c] \in Yielded
            BY <1>3, <2>1 DEF Yielded, Sleeping
        <3>2. /\ DOMAIN g = DOMAIN h \ {r.on[c]}
              /\ \A k \in DOMAIN g : g[k] = h[k]
              /\ g \in [DOMAIN g -> Co \cup {BREAK}]
            BY <1>6, <3>1 DEF Without
        <3> HIDE DEF g
        <3>3. \A k \in DOMAIN g : f[k] # c
            BY <1>5, <1>6, <3>2
        <3> QED BY <1>5, <1>6, <3>1, <3>2, <3>3
    <2>2. CASE r.at[c] \notin {"wait", "line"}
        <3>1. g = h /\ (r.at[c] \in Sleeping => r.at[c] = "sleep")
            BY <1>3, <2>2 DEF Sleeping
        <3> QED BY <1>6, <3>1
    <2> QED BY <2>1, <2>2
<1> HIDE DEF g
<1>8. Kept(p)
    <2>1. /\ p.session_id_coroutine \in [DOMAIN p.session_id_coroutine -> Co \cup {BREAK}]
          /\ DOMAIN p.session_id_coroutine \subseteq DOMAIN r.session_id_coroutine
          /\ \A k \in DOMAIN r.session_id_coroutine : r.session_id_coroutine[k] # c =>
                /\ k \in DOMAIN p.session_id_coroutine
                /\ p.session_id_coroutine[k] = r.session_id_coroutine[k]
          /\ \A k \in DOMAIN p.session_id_coroutine : r.session_id_coroutine[k] = c =>
                p.session_id_coroutine[k] = BREAK /\ r.at[c] # "call"
        BY <1>2, <1>7 DEF f, g, h, ResumedFrom
    <2>2. /\ \E v \in {"run", "failed"} : p.at = [r.at EXCEPT ![c] = v]
          /\ p.on = [r.on EXCEPT ![c] = Nil]
          /\ p.sleep_session = Without(r.sleep_session, c)
          /\ p.watching_session = IF r.at[c] = "call" THEN Without(r.watching_session, r.on[c])
                                  ELSE r.watching_session
        BY <1>2, <1>3 DEF ResumedFrom
    <2>3. /\ p.wakeup_queue \in Seq(Co) /\ p.error_queue \in Seq(Nat)
          /\ \A i \in DOMAIN p.error_queue :
               \E j \in DOMAIN r.error_queue : p.error_queue[i] = r.error_queue[j]
          /\ p.fork_queue \subseteq r.fork_queue \ {c}
        BY <1>4
    <2>4. p.mode = "run" /\ p.cur = c
        BY <1>2 DEF ResumedFrom
    <2>5. Awakens(p, r, c)
        BY <1>4, <2>1, <2>2, <2>3, <2>4 DEF Awakens
    <2> QED BY <2>5, ResumeKept
<1>9. Counts(p)
    BY <1>4, SameCounts
<1>10. ASSUME NEW n, Awaits(p, n) PROVE Awaits(r, n)
    <2>1. n \in DOMAIN g /\ (g[n] = BREAK \/ p.at[g[n]] = "sleep") /\ n \in DOMAIN f
        BY <1>2, <1>7, <1>10 DEF Awaits, ResumedFrom, g, h
    <2>2. CASE f[n] = c
        BY <1>7, <2>1, <2>2 DEF Awaits, f
    <2>3. CASE f[n] # c
        <3>1. g[n] = f[n] /\ f[n] \in Co \cup {BREAK}
            BY <1>5, <1>7, <2>1, <2>3
        <3>2. f[n] # BREAK => p.at[f[n]] = r.at[f[n]]
            BY <1>2, <1>3, <1>5, <2>3, <3>1 DEF ResumedFrom
        <3> QED BY <2>1, <3>1, <3>2 DEF Awaits, f
    <2> QED BY <2>2, <2>3
<1> QED BY <1>2, <1>4, <1>8, <1>9, <1>10 DEF p, NoNewPromise

\* A message is taken.
TakeHead(s) ==
    /\ st[s].mode = "idle" /\ q[s] # << >>
    /\ q' = [q EXCEPT ![s] = Tail(@)]
    /\ UNCHANGED timers

\* A message is taken: the others stay, in every mailbox.
LEMMA TakenMail ==
    ASSUME Mailed, NEW s \in Services, TakeHead(s)
    PROVE  /\ Mailed' /\ OthersGrow(s) /\ Head(q[s]) \in Messages
           /\ \A i \in DOMAIN q[s] :
                q[s][i] = Head(q[s]) \/ \E j \in DOMAIN q'[s] : q'[s][j] = q[s][i]
           /\ \A j \in DOMAIN q'[s] : \E i \in DOMAIN q[s] : q'[s][j] = q[s][i]
           /\ \A t \in Services : t # s => q'[t] = q[t]
           /\ \E i \in DOMAIN q[s] : q[s][i] = Head(q[s])
<1> DEFINE b == q[s]
           d == Tail(b)
<1>1. b \in Seq(Messages) /\ b # << >> /\ q \in [Services -> Seq(Messages)]
    BY DEF Mailed, TakeHead
<1>2. q' = [q EXCEPT ![s] = d] /\ timers' = timers
    BY DEF TakeHead
<1>3. q'[s] = d /\ \A t \in Services : t # s => q'[t] = q[t]
    BY <1>1, <1>2
<1> HIDE DEF b
<1>4. /\ d \in Seq(Messages) /\ Len(b) \in Nat \ {0} /\ DOMAIN b = 1..Len(b)
      /\ DOMAIN d = 1..(Len(b) - 1) /\ \A j \in 1..(Len(b) - 1) : d[j] = b[j + 1]
      /\ Head(b) = b[1] /\ b[1] \in Messages
    BY <1>1
<1> HIDE DEF d
<1>5. Mailed'
    BY <1>1, <1>2, <1>4 DEF Mailed
<1>6. OthersGrow(s)
    BY <1>2, <1>3 DEF OthersGrow, Grows
<1>7. \A i \in DOMAIN b : b[i] = Head(b) \/ \E j \in DOMAIN d : d[j] = b[i]
    <2> SUFFICES ASSUME NEW i \in DOMAIN b, i # 1 PROVE \E j \in DOMAIN d : d[j] = b[i]
        BY <1>4
    <2>1. i - 1 \in DOMAIN d /\ d[i - 1] = b[i]
        BY <1>4
    <2> QED BY <2>1
<1>8. \A j \in DOMAIN d : \E i \in DOMAIN b : d[j] = b[i]
    <2> SUFFICES ASSUME NEW j \in DOMAIN d PROVE \E i \in DOMAIN b : d[j] = b[i]
        OBVIOUS
    <2>1. j + 1 \in DOMAIN b /\ d[j] = b[j + 1]
        BY <1>4
    <2> QED BY <2>1
<1>9. 1 \in DOMAIN b
    BY <1>4
<1> QED BY <1>3, <1>4, <1>5, <1>6, <1>7, <1>8, <1>9 DEF b

\* A promise outlives the message that is taken, unless it was its own.
LEMMA DueTaken ==
    ASSUME Mailed, NEW s \in Services, TakeHead(s), NEW r, NEW p, Due(s, r, timers, q[s]),
           p.alive => r.alive,
           \A n : Awaits(p, n) => Awaits(r, n) /\ Head(q[s]) # Msg("resp", Outside, n)
    PROVE  Due(s, p, timers', q'[s])
<1>1. timers' = timers
    BY DEF TakeHead
<1>2. \A i \in DOMAIN q[s] :
         q[s][i] = Head(q[s]) \/ \E j \in DOMAIN q'[s] : q'[s][j] = q[s][i]
    BY TakenMail
<1> SUFFICES ASSUME p.alive, NEW n, Awaits(p, n)
             PROVE  <<s, n>> \in timers \/ \E j \in DOMAIN q'[s] : q'[s][j] = Msg("resp", Outside, n)
    BY <1>1 DEF Due, Awaits
<1>3. Awaits(r, n) /\ Head(q[s]) # Msg("resp", Outside, n) /\ r.alive
    OBVIOUS
<1>4. <<s, n>> \in timers \/ \E i \in DOMAIN q[s] : q[s][i] = Msg("resp", Outside, n)
    BY <1>3 DEF Due, Awaits
<1> QED BY <1>2, <1>3, <1>4

-----------------------------------------------------------------------------
(* Counting who works for whom *)

\* The coroutines that handle a request of x, and the closures that owe x an
\* answer.
Handlers(r, x) == {c \in Co : r.request[c] # None /\ r.request[c].from = x}
Closures(r, x) == {j \in r.unresponse : j.from = x}

\* The sets that are counted are finite.
LEMMA FiniteWork ==
    ASSUME NEW r, NEW x, IsFiniteSet(r.unresponse)
    PROVE  /\ IsFiniteSet(Handlers(r, x)) /\ Cardinality(Handlers(r, x)) \in Nat
           /\ IsFiniteSet(Closures(r, x)) /\ Cardinality(Closures(r, x)) \in Nat
<1>1. IsFiniteSet(Co)
    BY SchedulerAssumption, FS_Interval DEF Co
<1>2. Handlers(r, x) \in SUBSET Co /\ Closures(r, x) \in SUBSET r.unresponse
    BY DEF Handlers, Closures
<1>3. IsFiniteSet(Handlers(r, x)) /\ IsFiniteSet(Closures(r, x))
    BY <1>1, <1>2, FS_Subset
<1> QED BY <1>3, FS_CardinalityType

\* What has to be shown of the counts.
LEMMA CountsBy ==
    ASSUME NEW p, p.watching_service \in [Who -> Int],
           p.request \in [Co -> [from : Who, ses : Int]], IsFiniteSet(p.unresponse),
           p.unresponse \subseteq Promises,
           \A x \in Who : p.watching_service[x] >=
              Cardinality(Handlers(p, x)) + Cardinality(Closures(p, x))
    PROVE  Counts(p)
BY DEF Counts, WatchCounts, Handlers, Closures

\* What is known of them.
LEMMA CountsOf ==
    ASSUME NEW r, Counts(r)
    PROVE  /\ r.watching_service \in [Who -> Int]
           /\ r.request \in [Co -> [from : Who, ses : Int]] /\ IsFiniteSet(r.unresponse)
           /\ r.unresponse \subseteq Promises
           /\ \A x \in Who : r.watching_service[x] >=
                Cardinality(Handlers(r, x)) + Cardinality(Closures(r, x))
BY DEF Counts, WatchCounts, Handlers, Closures

\* A smaller set of workers has a smaller count.
LEMMA FewerWork ==
    ASSUME NEW A, NEW B, IsFiniteSet(B), A \subseteq B
    PROVE  IsFiniteSet(A) /\ Cardinality(A) \in Nat /\ Cardinality(B) \in Nat
           /\ Cardinality(A) <= Cardinality(B)
BY FS_Subset, FS_CardinalityType

\* One more works: a handler (c), or a closure.
LEMMA OneMoreWork ==
    ASSUME NEW A, NEW B, NEW c, IsFiniteSet(B), A \subseteq B \cup {c}
    PROVE  IsFiniteSet(A) /\ Cardinality(A) \in Nat /\ Cardinality(B) \in Nat
           /\ Cardinality(A) <= Cardinality(B) + 1
<1>1. /\ IsFiniteSet(B \cup {c})
      /\ Cardinality(B \cup {c}) = IF c \in B THEN Cardinality(B) ELSE Cardinality(B) + 1
    BY FS_AddElement
<1>2. /\ IsFiniteSet(A) /\ Cardinality(A) \in Nat
      /\ Cardinality(A) <= Cardinality(B \cup {c})
    BY <1>1, FewerWork
<1>3. Cardinality(B) \in Nat
    BY FS_CardinalityType
<1> QED BY <1>1, <1>2, <1>3

\* One less does.
LEMMA OneLessWork ==
    ASSUME NEW A, NEW B, NEW c \in B, IsFiniteSet(B), A \subseteq B \ {c}
    PROVE  IsFiniteSet(A) /\ Cardinality(A) \in Nat /\ Cardinality(B) \in Nat
           /\ Cardinality(A) <= Cardinality(B) - 1
<1>1. /\ IsFiniteSet(B \ {c}) /\ Cardinality(B \ {c}) = Cardinality(B) - 1
    BY FS_RemoveElement
<1>2. /\ IsFiniteSet(A) /\ Cardinality(A) \in Nat
      /\ Cardinality(A) <= Cardinality(B \ {c})
    BY <1>1, FewerWork
<1>3. Cardinality(B) \in Nat
    BY FS_CardinalityType
<1> QED BY <1>1, <1>2, <1>3

\* A request is taken by c.
LEMMA TakeCounts ==
    ASSUME NEW r, NEW p, Counts(r), NEW c \in Co, NEW j \in [from : Who, ses : Int],
           p.request = [r.request EXCEPT ![c] = j], p.unresponse = r.unresponse,
           p.watching_service = [r.watching_service EXCEPT ![j.from] = @ + 1]
    PROVE  Counts(p)
<1>1. /\ r.watching_service \in [Who -> Int]
      /\ r.request \in [Co -> [from : Who, ses : Int]] /\ IsFiniteSet(r.unresponse)
      /\ r.unresponse \subseteq Promises
      /\ \A x \in Who : r.watching_service[x] >=
            Cardinality(Handlers(r, x)) + Cardinality(Closures(r, x))
    BY CountsOf
<1>2. /\ p.watching_service \in [Who -> Int]
      /\ p.request \in [Co -> [from : Who, ses : Int]] /\ IsFiniteSet(p.unresponse)
      /\ p.unresponse \subseteq Promises
    BY <1>1
<1> SUFFICES ASSUME NEW x \in Who
             PROVE  p.watching_service[x] >=
                       Cardinality(Handlers(p, x)) + Cardinality(Closures(p, x))
    BY <1>2, CountsBy
<1>3. Closures(p, x) = Closures(r, x)
    BY DEF Closures
<1>4. /\ IsFiniteSet(Handlers(r, x)) /\ Cardinality(Handlers(r, x)) \in Nat
      /\ Cardinality(Closures(r, x)) \in Nat
    BY <1>1, FiniteWork
<1>5. CASE x = j.from
    <2>1. Handlers(p, x) \subseteq Handlers(r, x) \cup {c}
        BY <1>1 DEF Handlers
    <2>2. Cardinality(Handlers(p, x)) \in Nat
          /\ Cardinality(Handlers(p, x)) <= Cardinality(Handlers(r, x)) + 1
        BY <1>4, <2>1, OneMoreWork
    <2>3. p.watching_service[x] = r.watching_service[x] + 1
        BY <1>1, <1>5
    <2> QED BY <1>1, <1>3, <1>4, <2>2, <2>3
<1>6. CASE x # j.from
    <2>1. Handlers(p, x) \subseteq Handlers(r, x)
        BY <1>1, <1>6 DEF Handlers
    <2>2. Cardinality(Handlers(p, x)) \in Nat
          /\ Cardinality(Handlers(p, x)) <= Cardinality(Handlers(r, x))
        BY <1>4, <2>1, FewerWork
    <2>3. p.watching_service[x] = r.watching_service[x]
        BY <1>1, <1>6
    <2> QED BY <1>1, <1>3, <1>4, <2>2, <2>3
<1> QED BY <1>5, <1>6

\* skynet.response makes a closure.
LEMMA DeferCounts ==
    ASSUME NEW r, NEW p, Counts(r), NEW j \in Promises,
           p.request = r.request, p.unresponse = r.unresponse \cup {j},
           p.watching_service = [r.watching_service EXCEPT ![j.from] = @ + 1]
    PROVE  Counts(p)
<1>1. /\ r.watching_service \in [Who -> Int]
      /\ r.request \in [Co -> [from : Who, ses : Int]] /\ IsFiniteSet(r.unresponse)
      /\ r.unresponse \subseteq Promises
      /\ \A x \in Who : r.watching_service[x] >=
            Cardinality(Handlers(r, x)) + Cardinality(Closures(r, x))
    BY CountsOf
<1>2. /\ p.watching_service \in [Who -> Int]
      /\ p.request \in [Co -> [from : Who, ses : Int]] /\ IsFiniteSet(p.unresponse)
      /\ p.unresponse \subseteq Promises
    <2>1. IsFiniteSet(r.unresponse \cup {j})
        BY <1>1, FS_AddElement
    <2>2. j.from \in Who
        BY DEF Promises
    <2> QED BY <1>1, <2>1, <2>2
<1> SUFFICES ASSUME NEW x \in Who
             PROVE  p.watching_service[x] >=
                       Cardinality(Handlers(p, x)) + Cardinality(Closures(p, x))
    BY <1>2, CountsBy
<1>3. Handlers(p, x) = Handlers(r, x)
    BY DEF Handlers
<1>4. /\ IsFiniteSet(Closures(r, x)) /\ Cardinality(Handlers(r, x)) \in Nat
      /\ Cardinality(Closures(r, x)) \in Nat
    BY <1>1, FiniteWork
<1>5. CASE x = j.from
    <2>1. Closures(p, x) \subseteq Closures(r, x) \cup {j}
        BY DEF Closures
    <2>2. Cardinality(Closures(p, x)) \in Nat
          /\ Cardinality(Closures(p, x)) <= Cardinality(Closures(r, x)) + 1
        BY <1>4, <2>1, OneMoreWork
    <2>3. p.watching_service[x] = r.watching_service[x] + 1
        BY <1>1, <1>5
    <2> QED BY <1>1, <1>3, <1>4, <2>2, <2>3
<1>6. CASE x # j.from
    <2>1. Closures(p, x) \subseteq Closures(r, x)
        BY <1>6 DEF Closures
    <2>2. Cardinality(Closures(p, x)) \in Nat
          /\ Cardinality(Closures(p, x)) <= Cardinality(Closures(r, x))
        BY <1>4, <2>1, FewerWork
    <2>3. p.watching_service[x] = r.watching_service[x]
        BY <1>1, <1>6
    <2> QED BY <1>1, <1>3, <1>4, <2>2, <2>3
<1> QED BY <1>5, <1>6

\* A reference to a is given back, with a handler or a closure that worked
\* for it.
LEMMA ReleaseCounts ==
    ASSUME NEW r, NEW p, Counts(r), NEW a \in Who,
           p.watching_service = [r.watching_service EXCEPT ![a] = IF @ > 0 THEN @ - 1 ELSE 0],
           \/ \E c \in Co : /\ r.request[c] # None /\ r.request[c].from = a
                            /\ p.request = [r.request EXCEPT ![c] = None]
                            /\ p.unresponse = r.unresponse
           \/ \E j \in r.unresponse : /\ j.from = a
                                      /\ p.request = r.request
                                      /\ p.unresponse = r.unresponse \ {j}
    PROVE  Counts(p)
<1>1. /\ r.watching_service \in [Who -> Int]
      /\ r.request \in [Co -> [from : Who, ses : Int]] /\ IsFiniteSet(r.unresponse)
      /\ r.unresponse \subseteq Promises
      /\ \A x \in Who : r.watching_service[x] >=
            Cardinality(Handlers(r, x)) + Cardinality(Closures(r, x))
    BY CountsOf
<1>2. /\ p.watching_service \in [Who -> Int]
      /\ p.request \in [Co -> [from : Who, ses : Int]] /\ IsFiniteSet(p.unresponse)
      /\ p.unresponse \subseteq Promises
    <2>1. None \in [from : Who, ses : Int]
        BY DEF None, Who
    <2>2. p.watching_service \in [Who -> Int]
        BY <1>1
    <2>3. p.request \in [Co -> [from : Who, ses : Int]]
        BY <1>1, <2>1
    <2>4. p.unresponse \subseteq r.unresponse
        OBVIOUS
    <2>5. IsFiniteSet(p.unresponse) /\ p.unresponse \subseteq Promises
        BY <1>1, <2>4, FS_Subset
    <2> QED BY <2>2, <2>3, <2>5
<1> SUFFICES ASSUME NEW x \in Who
             PROVE  p.watching_service[x] >=
                       Cardinality(Handlers(p, x)) + Cardinality(Closures(p, x))
    BY <1>2, CountsBy
<1>3. /\ IsFiniteSet(Handlers(r, x)) /\ Cardinality(Handlers(r, x)) \in Nat
      /\ IsFiniteSet(Closures(r, x)) /\ Cardinality(Closures(r, x)) \in Nat
    BY <1>1, FiniteWork
<1>4. Handlers(p, x) \subseteq Handlers(r, x) /\ Closures(p, x) \subseteq Closures(r, x)
    BY <1>1 DEF Handlers, Closures
<1>5. /\ Cardinality(Handlers(p, x)) \in Nat /\ Cardinality(Closures(p, x)) \in Nat
      /\ Cardinality(Handlers(p, x)) <= Cardinality(Handlers(r, x))
      /\ Cardinality(Closures(p, x)) <= Cardinality(Closures(r, x))
    BY <1>3, <1>4, FewerWork
<1>6. CASE x = a
    <2>1. \/ Cardinality(Handlers(p, x)) <= Cardinality(Handlers(r, x)) - 1
          \/ Cardinality(Closures(p, x)) <= Cardinality(Closures(r, x)) - 1
        <3>1. ASSUME NEW c \in Co, r.request[c] # None, r.request[c].from = a,
                     p.request = [r.request EXCEPT ![c] = None]
              PROVE  Cardinality(Handlers(p, x)) <= Cardinality(Handlers(r, x)) - 1
            <4>1. c \in Handlers(r, x) /\ Handlers(p, x) \subseteq Handlers(r, x) \ {c}
                BY <1>1, <1>6, <3>1 DEF Handlers
            <4> QED BY <1>3, <4>1, OneLessWork
        <3>2. ASSUME NEW j \in r.unresponse, j.from = a, p.unresponse = r.unresponse \ {j}
              PROVE  Cardinality(Closures(p, x)) <= Cardinality(Closures(r, x)) - 1
            <4>1. j \in Closures(r, x) /\ Closures(p, x) \subseteq Closures(r, x) \ {j}
                BY <1>6, <3>2 DEF Closures
            <4> QED BY <1>3, <4>1, OneLessWork
        <3> QED BY <3>1, <3>2
    <2>2. p.watching_service[x] = IF r.watching_service[x] > 0
                                  THEN r.watching_service[x] - 1 ELSE 0
        BY <1>1, <1>6
    <2>3. r.watching_service[x] \in Int
        BY <1>1
    <2> QED BY <1>1, <1>3, <1>5, <2>1, <2>2, <2>3
<1>7. CASE x # a
    <2>1. p.watching_service[x] = r.watching_service[x] /\ r.watching_service[x] \in Int
        BY <1>1, <1>7
    <2> QED BY <1>1, <1>3, <1>5, <2>1
<1> QED BY <1>6, <1>7

\* A handler is gone, and its reference is not given back.
LEMMA DieCounts ==
    ASSUME NEW r, NEW p, Counts(r), NEW c,
           p.watching_service = r.watching_service,
           p.request = [r.request EXCEPT ![c] = None], p.unresponse = r.unresponse
    PROVE  Counts(p)
<1>1. /\ r.watching_service \in [Who -> Int]
      /\ r.request \in [Co -> [from : Who, ses : Int]] /\ IsFiniteSet(r.unresponse)
      /\ r.unresponse \subseteq Promises
      /\ \A x \in Who : r.watching_service[x] >=
            Cardinality(Handlers(r, x)) + Cardinality(Closures(r, x))
    BY CountsOf
<1>2. p.request \in [Co -> [from : Who, ses : Int]]
    <2>1. None \in [from : Who, ses : Int]
        BY DEF None, Who
    <2> QED BY <1>1, <2>1
<1> SUFFICES ASSUME NEW x \in Who
             PROVE  p.watching_service[x] >=
                       Cardinality(Handlers(p, x)) + Cardinality(Closures(p, x))
    BY <1>1, <1>2, CountsBy
<1>3. Handlers(p, x) \subseteq Handlers(r, x) /\ Closures(p, x) = Closures(r, x)
    BY <1>1 DEF Handlers, Closures
<1>4. /\ IsFiniteSet(Handlers(r, x)) /\ Cardinality(Handlers(r, x)) \in Nat
      /\ Cardinality(Closures(r, x)) \in Nat
    BY <1>1, FiniteWork
<1>5. Cardinality(Handlers(p, x)) \in Nat
      /\ Cardinality(Handlers(p, x)) <= Cardinality(Handlers(r, x))
    BY <1>3, <1>4, FewerWork
<1>6. r.watching_service[x] \in Int
    BY <1>1
<1> QED BY <1>1, <1>3, <1>4, <1>5, <1>6

\* skynet.exit calls all closures.
LEMMA ExitCounts ==
    ASSUME NEW r, NEW p, Counts(r), p.request = r.request, p.unresponse = {},
           p.watching_service = [x \in DOMAIN r.watching_service |->
              r.watching_service[x] - Cardinality({j \in r.unresponse : j.from = x})]
    PROVE  Counts(p)
<1>1. /\ r.watching_service \in [Who -> Int]
      /\ r.request \in [Co -> [from : Who, ses : Int]] /\ IsFiniteSet(r.unresponse)
      /\ r.unresponse \subseteq Promises
      /\ \A x \in Who : r.watching_service[x] >=
            Cardinality(Handlers(r, x)) + Cardinality(Closures(r, x))
    BY CountsOf
<1>2. \A x \in Who : /\ Cardinality(Handlers(r, x)) \in Nat
                     /\ Cardinality(Closures(r, x)) \in Nat
    BY <1>1, FiniteWork
<1>3. p.watching_service = [x \in Who |-> r.watching_service[x] - Cardinality(Closures(r, x))]
    BY <1>1 DEF Closures
<1>4. p.watching_service \in [Who -> Int]
    <2>1. \A x \in Who : r.watching_service[x] - Cardinality(Closures(r, x)) \in Int
        BY <1>1, <1>2
    <2> QED BY <1>3, <2>1
<1>5. IsFiniteSet({}) /\ Cardinality({}) = 0
    BY FS_EmptySet
<1> SUFFICES ASSUME NEW x \in Who
             PROVE  p.watching_service[x] >=
                       Cardinality(Handlers(p, x)) + Cardinality(Closures(p, x))
    BY <1>1, <1>4, <1>5, CountsBy
<1>6. Handlers(p, x) = Handlers(r, x) /\ Closures(p, x) = {}
    BY DEF Handlers, Closures
<1>7. p.watching_service[x] = r.watching_service[x] - Cardinality(Closures(r, x))
      /\ r.watching_service[x] \in Int
    BY <1>1, <1>3
<1> QED BY <1>1, <1>2, <1>5, <1>6, <1>7

-----------------------------------------------------------------------------
(* The steps *)

\* What is known of a service.
LEMMA Before ==
    ASSUME SessionInv, NEW s \in Services
    PROVE  /\ Mailed /\ Kept(st[s]) /\ Counts(st[s]) /\ Poised(st[s])
           /\ Due(s, st[s], timers, q[s]) /\ DOMAIN st[s] = Fields
BY DEF SessionInv, Kept, Shape

\* A session leaves session_id_coroutine, or was marked BREAK and does.
LEMMA ForgottenKept ==
    ASSUME NEW r, NEW p, NEW n \in DOMAIN r.session_id_coroutine, Kept(r),
           r.session_id_coroutine[n] = BREAK, p.mode = "fork",
           Keeps(p, r, Fields \ {"mode", "session_id_coroutine"}),
           p.session_id_coroutine = Without(r.session_id_coroutine, n)
    PROVE  Kept(p)
<1> DEFINE f == r.session_id_coroutine
           g == p.session_id_coroutine
<1>1. /\ p.at = r.at /\ p.on = r.on /\ p.sleep_session = r.sleep_session
      /\ p.watching_session = r.watching_session
      /\ p.sesid = r.sesid /\ p.coroutine_pool = r.coroutine_pool
      /\ p.thread_queue = r.thread_queue /\ p.wakeup_queue = r.wakeup_queue
      /\ p.error_queue = r.error_queue /\ p.fork_queue = r.fork_queue /\ DOMAIN p = Fields
    BY DEF Keeps, Fields
<1>2. /\ f \in [DOMAIN f -> Co \cup {BREAK}] /\ \A c \in Co : c # BREAK
    BY DEF Kept, Shape, Co, BREAK
<1>3. /\ DOMAIN g = DOMAIN f \ {n} /\ \A k \in DOMAIN g : g[k] = f[k]
      /\ g \in [DOMAIN g -> Co \cup {BREAK}]
    BY <1>2 DEF Without
<1> HIDE DEF f, g
<1>4. Shape(p)
    BY <1>1, <1>3 DEF Kept, Shape, f, g, Modes
<1>5. Roles(p)
    BY <1>1 DEF Kept, Roles
<1>6. Sessions(p)
    <2>1. \A c \in Co : r.at[c] \in Yielded => r.on[c] \in DOMAIN g /\ g[r.on[c]] = c
        BY <1>2, <1>3 DEF Kept, Sessions, f
    <2> QED BY <1>1, <1>3, <2>1 DEF Kept, Sessions, f, g
<1>7. Errors(p)
    BY <1>1, <1>3 DEF Kept, Errors, f, g
<1> QED BY <1>4, <1>5, <1>6, <1>7 DEF Kept

\* Errors are queued for sessions that wait for a call.
LEMMA QueuedKept ==
    ASSUME NEW r, NEW p, Kept(r), p.mode = "wake",
           Keeps(p, r, Fields \ {"mode", "error_queue", "dead_service"}),
           p.error_queue \in Seq(Nat),
           \A i \in DOMAIN p.error_queue :
             \/ \E j \in DOMAIN r.error_queue : p.error_queue[i] = r.error_queue[j]
             \/ p.error_queue[i] \in DOMAIN r.watching_session
    PROVE  Kept(p)
<1>1. /\ p.at = r.at /\ p.on = r.on /\ p.sleep_session = r.sleep_session
      /\ p.watching_session = r.watching_session
      /\ p.sesid = r.sesid /\ p.coroutine_pool = r.coroutine_pool
      /\ p.thread_queue = r.thread_queue /\ p.wakeup_queue = r.wakeup_queue
      /\ p.session_id_coroutine = r.session_id_coroutine
      /\ p.fork_queue = r.fork_queue /\ DOMAIN p = Fields
    BY DEF Keeps, Fields
<1>2. Shape(p)
    BY <1>1 DEF Kept, Shape, Modes
<1>3. Roles(p)
    BY <1>1 DEF Kept, Roles
<1>4. Sessions(p)
    BY <1>1 DEF Kept, Sessions
<1>5. Errors(p)
    <2> SUFFICES ASSUME NEW i \in DOMAIN p.error_queue
                 PROVE  LET k == p.error_queue[i]
                        IN  /\ k \in 1..r.sesid
                            /\ k \in DOMAIN r.session_id_coroutine =>
                                 /\ r.session_id_coroutine[k] # BREAK
                                 /\ r.at[r.session_id_coroutine[k]] = "call"
        BY <1>1 DEF Errors
    <2> DEFINE k == p.error_queue[i]
    <2>1. CASE \E j \in DOMAIN r.error_queue : k = r.error_queue[j]
        BY <2>1 DEF Kept, Errors
    <2>2. CASE k \in DOMAIN r.watching_session
        <3>1. PICK c \in Co : r.at[c] = "call" /\ r.on[c] = k
            BY <2>2 DEF Kept, Sessions
        <3>2. r.session_id_coroutine[k] = c /\ c # BREAK
            BY <3>1 DEF Kept, Sessions, Yielded, Co, BREAK
        <3> QED BY <2>2, <3>1, <3>2 DEF Kept, Shape
    <2> QED BY <2>1, <2>2
<1> QED BY <1>2, <1>3, <1>4, <1>5 DEF Kept

\* A step of a service that only others send to, and that makes no promise.
LEMMA QuietDue ==
    ASSUME NEW s \in Services, NEW r, NEW p, Due(s, r, timers, q[s]), NoNewPromise(p, r),
           \A n : <<s, n>> \in timers => <<s, n>> \in timers', Grows(q[s], q'[s])
    PROVE  Due(s, p, timers', q'[s])
BY DEF Due, Grows, NoNewPromise, Awaits

\* Only the phase, the queue of the forks, what is owed or the section change.
Idles(p, r) ==
    /\ DOMAIN p = Fields
    /\ p.sesid = r.sesid /\ p.at = r.at /\ p.on = r.on
    /\ p.coroutine_pool = r.coroutine_pool
    /\ p.session_id_coroutine = r.session_id_coroutine
    /\ p.sleep_session = r.sleep_session
    /\ p.watching_session = r.watching_session
    /\ p.error_queue = r.error_queue
    /\ p.wakeup_queue \in Seq(Co) /\ p.thread_queue \in Seq(Co)
    /\ p.fork_queue \subseteq r.fork_queue
    /\ p.mode \in Modes
    /\ p.mode \in {"run", "exit"} => r.mode \in {"run", "exit"} /\ p.cur = r.cur
    /\ p.alive = r.alive

\* Then the tables stay sound, and no timer is needed that was not.
LEMMA IdleKept ==
    ASSUME NEW r, NEW p, Kept(r), Idles(p, r)
    PROVE  Kept(p) /\ NoNewPromise(p, r)
<1> USE DEF Idles
<1>1. Kept(p)
    BY SameKept
<1>2. NoNewPromise(p, r)
    BY DEF NoNewPromise, Awaits
<1> QED BY <1>1, <1>2

\* An error is thrown out of suspend().
LEMMA ThrowKept ==
    ASSUME NEW r, NEW p, Kept(r), Counts(r), p.mode = "fork",
           Keeps(p, r, Fields \ {"mode", "cur", "depth"})
    PROVE  Kept(p) /\ Counts(p) /\ NoNewPromise(p, r)
<1>1. r.wakeup_queue \in Seq(Co) /\ r.thread_queue \in Seq(Co)
    BY DEF Kept, Shape
<1>2. Idles(p, r)
    BY <1>1 DEF Keeps, Fields, Idles, Modes
<1>3. /\ p.watching_service = r.watching_service /\ p.request = r.request
      /\ p.unresponse = r.unresponse
    BY DEF Keeps, Fields
<1> QED BY <1>2, <1>3, IdleKept, SameCounts

\* The answer to a call, a timeout, or an answer nobody waits for.
LEMMA TakeResponseInv ==
    ASSUME SessionInv, SchedulerInv', NEW s \in Services, TakeHead(s), TakeResponse(s)
    PROVE  SessionInv'
<1> DEFINE r == st[s]
           m == Head(q[s])
           n == m.ses
           f == r.session_id_coroutine
           c == f[n]
           gone == [r EXCEPT !.session_id_coroutine = Without(@, n)]
<1>1. /\ Mailed /\ Kept(r) /\ Counts(r) /\ Due(s, r, timers, q[s]) /\ DOMAIN r = Fields
    BY Before
<1>2. Mailed' /\ OthersGrow(s)
    BY <1>1, TakenMail
<1>3. /\ \/ n \in DOMAIN f /\ c # BREAK /\ Set(s, Resumed(gone, c))
         \/ n \in DOMAIN f /\ c = BREAK /\ Set(s, [gone EXCEPT !.mode = "fork"])
         \/ n \notin DOMAIN f /\ Set(s, Thrown(r))
    BY DEF TakeResponse
<1>4. \A k : k # n => m # Msg("resp", Outside, k)
    BY DEF Msg
<1> HIDE DEF r, m
<1>5. Keeps(gone, r, Fields \ {"session_id_coroutine"}) /\ gone.session_id_coroutine = Without(f, n)
    BY <1>1 DEF Keeps, Fields
<1>6. /\ DOMAIN Without(f, n) = DOMAIN f \ {n}
      /\ \A k \in DOMAIN f : k # n => Without(f, n)[k] = f[k]
      /\ Without(f, n) \in [DOMAIN Without(f, n) -> Co \cup {BREAK}]
      /\ f \in [DOMAIN f -> Co \cup {BREAK}]
    BY <1>1 DEF Without, Kept, Shape
<1> HIDE DEF gone
<1>7. ASSUME NEW p, Set(s, p), Kept(p), Counts(p), NoNewPromise(p, r),
             n \notin DOMAIN p.session_id_coroutine
      PROVE  SessionInv'
    <2>1. \A k : Awaits(p, k) => Awaits(r, k) /\ m # Msg("resp", Outside, k)
        BY <1>4, <1>7 DEF NoNewPromise, Awaits
    <2>2. Due(s, p, timers', q'[s])
        BY <1>1, <1>7, <2>1, DueTaken DEF NoNewPromise, m
    <2> QED BY <1>2, <1>7, <2>2, SetInv
<1>8. CASE n \in DOMAIN f /\ c # BREAK /\ Set(s, Resumed(gone, c))
    <2> DEFINE p == Resumed(gone, c)
    <2>1. c \in Co /\ r.on[c] = n /\ r.at[c] \in Yielded \cup {"ready"} /\ n # Nil
        BY <1>1, <1>6, <1>8 DEF Kept, Sessions, Shape, Nil
    <2>2. \A k \in DOMAIN f : k # n => f[k] # c
        BY <1>1, <1>8, <2>1 DEF Kept, Sessions
    <2>3. c \notin r.fork_queue
        BY <1>1, <2>1 DEF Kept, Roles
    <2>4. /\ gone.wakeup_queue = r.wakeup_queue /\ gone.error_queue = r.error_queue
          /\ gone.fork_queue = r.fork_queue
          /\ Keeps(gone, r, Fields \ {"mode", "session_id_coroutine", "error_queue",
                                      "wakeup_queue", "fork_queue", "depth"})
        BY <1>5 DEF Keeps, Fields
    <2>5. r.wakeup_queue \in Seq(Co) /\ r.error_queue \in Seq(Nat)
        BY <1>1 DEF Kept, Shape
    <2> HIDE DEF c
    <2>6. Readied(gone, r, c)
        BY <1>5, <1>6, <2>1, <2>2, <2>3, <2>4, <2>5 DEF Readied, f, n, c
    <2>7. Kept(p) /\ Counts(p) /\ NoNewPromise(p, r) /\ ResumedFrom(p, gone, c)
        BY <1>1, <2>1, <2>6, ResumedKept
    <2> HIDE DEF p
    <2>8. n \notin DOMAIN p.session_id_coroutine
        BY <1>5, <1>6, <2>7 DEF ResumedFrom, Without
    <2> QED BY <1>7, <1>8, <2>7, <2>8 DEF p, c
<1>9. CASE n \in DOMAIN f /\ c = BREAK /\ Set(s, [gone EXCEPT !.mode = "fork"])
    <2> DEFINE p == [gone EXCEPT !.mode = "fork"]
    <2>1. /\ Keeps(p, r, Fields \ {"mode", "session_id_coroutine"}) /\ p.mode = "fork"
          /\ p.session_id_coroutine = Without(r.session_id_coroutine, n)
        BY <1>5 DEF Keeps, Fields
    <2> HIDE DEF p
    <2>2. Kept(p)
        BY <1>1, <1>9, <2>1, ForgottenKept
    <2>3. /\ p.watching_service = r.watching_service /\ p.request = r.request
          /\ p.unresponse = r.unresponse /\ p.alive = r.alive /\ p.at = r.at
        BY <2>1 DEF Keeps, Fields
    <2>4. Counts(p)
        BY <1>1, <2>3, SameCounts
    <2>5. NoNewPromise(p, r) /\ n \notin DOMAIN p.session_id_coroutine
        BY <1>6, <2>1, <2>3 DEF NoNewPromise, Awaits
    <2> QED BY <1>7, <1>9, <2>2, <2>4, <2>5 DEF p
<1>10. CASE n \notin DOMAIN f /\ Set(s, Thrown(r))
    <2> DEFINE p == Thrown(r)
    <2>1. Keeps(p, r, Fields \ {"mode", "cur", "depth"}) /\ p.mode = "fork"
        BY <1>1, ThrownFields
    <2> HIDE DEF p
    <2>2. Kept(p) /\ Counts(p) /\ NoNewPromise(p, r)
        BY <1>1, <2>1, ThrowKept
    <2>3. p.session_id_coroutine = f
        BY <2>1 DEF Keeps, Fields
    <2> QED BY <1>7, <1>10, <2>2, <2>3 DEF p
<1> QED BY <1>3, <1>8, <1>9, <1>10

\* A list of a finite set has its elements, all of them, and no others.
LEMMA ListedAll ==
    ASSUME NEW S, IsFiniteSet(S), NEW e \in SetToSeqs(S)
    PROVE  /\ e \in Seq(S)
           /\ \A i \in DOMAIN e : e[i] \in S
           /\ \A x \in S : \E i \in DOMAIN e : e[i] = x
<1> DEFINE n == Cardinality(S)
           D == 1..n
<1>1. n \in Nat
    BY FS_CardinalityType
<1>2. e \in [D -> S] /\ \A i, j \in D : i # j => e[i] # e[j]
    BY DEF SetToSeqs
<1> HIDE DEF n
<1>3. e \in Seq(S) /\ DOMAIN e = D
    BY <1>1, <1>2
<1>4. IsFiniteSet(D) /\ Cardinality(D) = n
    BY <1>1, FS_Interval
<1>5. e \in Injection(D, S)
    BY <1>2 DEF Injection, IsInjective
<1>6. e \in Surjection(D, S)
    BY <1>4, <1>5, FS_Injection DEF n
<1>7. \A x \in S : \E i \in D : e[i] = x
    BY <1>6 DEF Surjection
<1> QED BY <1>2, <1>3, <1>7

\* What two sequences one after the other hold.
Joins(d, a, b) ==
    /\ Grows(a, d) /\ Grows(b, d)
    /\ \A i \in DOMAIN d : \/ \E j \in DOMAIN a : d[i] = a[j]
                           \/ \E j \in DOMAIN b : d[i] = b[j]

\* A concatenation has the members of both.
LEMMA Joined ==
    ASSUME NEW A, NEW a \in Seq(A), NEW b \in Seq(A)
    PROVE  a \o b \in Seq(A) /\ Joins(a \o b, a, b)
<1> DEFINE d == a \o b
<1>1. /\ d \in Seq(A) /\ Len(d) = Len(a) + Len(b) /\ Len(a) \in Nat /\ Len(b) \in Nat
      /\ DOMAIN a = 1..Len(a) /\ DOMAIN b = 1..Len(b) /\ DOMAIN d = 1..(Len(a) + Len(b))
      /\ \A i \in 1..(Len(a) + Len(b)) : d[i] = IF i <= Len(a) THEN a[i] ELSE b[i - Len(a)]
    OBVIOUS
<1> HIDE DEF d
<1>2. Grows(a, d)
    <2> SUFFICES ASSUME NEW i \in DOMAIN a PROVE i \in DOMAIN d /\ d[i] = a[i]
        BY DEF Grows
    <2> QED BY <1>1
<1>3. Grows(b, d)
    <2> SUFFICES ASSUME NEW i \in DOMAIN b
                 PROVE  Len(a) + i \in DOMAIN d /\ d[Len(a) + i] = b[i]
        BY DEF Grows
    <2>1. i \in Int /\ 1 <= i /\ i <= Len(b)
        BY <1>1
    <2>2. Len(a) + i \in DOMAIN d /\ ~(Len(a) + i <= Len(a)) /\ (Len(a) + i) - Len(a) = i
        BY <1>1, <2>1
    <2> QED BY <1>1, <2>2
<1>4. ASSUME NEW i \in DOMAIN d
      PROVE  (\E j \in DOMAIN a : d[i] = a[j]) \/ (\E j \in DOMAIN b : d[i] = b[j])
    <2>1. CASE i <= Len(a)
        <3>1. i \in DOMAIN a /\ d[i] = a[i]
            BY <1>1, <2>1
        <3> QED BY <3>1
    <2>2. CASE ~(i <= Len(a))
        <3>1. i - Len(a) \in DOMAIN b /\ d[i] = b[i - Len(a)]
            BY <1>1, <2>2
        <3> QED BY <3>1
    <2> QED BY <2>1, <2>2
<1> QED BY <1>1, <1>2, <1>3, <1>4 DEF d, Joins

\* A coroutine that does not fall asleep makes no promise.
LEMMA NoPromiseAt ==
    ASSUME NEW r, NEW p, Kept(r), NEW c \in Co, NEW v, v # "sleep",
           p.at = [r.at EXCEPT ![c] = v], p.alive => r.alive,
           p.session_id_coroutine = r.session_id_coroutine
    PROVE  NoNewPromise(p, r)
<1>1. /\ r.at \in [Co -> States] /\ r.session_id_coroutine
            \in [DOMAIN r.session_id_coroutine -> Co \cup {BREAK}]
    BY DEF Kept, Shape
<1> QED BY <1>1 DEF NoNewPromise, Awaits

\* A request: a coroutine of its own.
LEMMA TakeRequestInv ==
    ASSUME SessionInv, SchedulerInv', NEW s \in Services, TakeHead(s), TakeRequest(s)
    PROVE  SessionInv'
<1> DEFINE r == st[s]
           m == Head(q[s])
           c == NewCo(r)
           j == [from |-> m.from, ses |-> m.ses]
           k == Created(r, "run")
           l == IF r.alive THEN k.mute ELSE k.mute \cup {m}
           p == [k EXCEPT !.mode = "run", !.cur = c, !.request[c] = j,
                          !.watching_service[m.from] = @ + 1, !.mute = l]
<1>1. /\ Mailed /\ Kept(r) /\ Counts(r) /\ Due(s, r, timers, q[s]) /\ DOMAIN r = Fields
    BY Before
<1>2. Mailed' /\ OthersGrow(s) /\ m \in Messages
    BY <1>1, TakenMail
<1>3. r.coroutine_pool # << >> /\ m.type = "req"
    BY DEF TakeRequest
<1>4. Set(s, p)
    BY DEF TakeRequest
<1>5. /\ Keeps(k, r, Fields \ {"at", "coroutine_pool"})
      /\ k.at = [r.at EXCEPT ![c] = "run"] /\ k.coroutine_pool = Front(r.coroutine_pool)
    BY <1>1, CreatedFields
<1>6. c \in Co
    BY <1>1, <1>3, PoolKept
<1>7. j \in [from : Who, ses : Int] /\ j.from = m.from
    BY <1>2 DEF Messages
<1>8. \A n : m # Msg("resp", Outside, n)
    BY <1>3 DEF Msg
<1> HIDE DEF r, m, c, j, k, l
<1>9. /\ Keeps(p, k, Fields \ {"mode", "cur", "request", "watching_service", "mute"})
      /\ p.mode = "run" /\ p.cur = c /\ p.request = [k.request EXCEPT ![c] = j]
      /\ p.watching_service = [k.watching_service EXCEPT ![m.from] = @ + 1]
    BY <1>5 DEF Keeps, Fields
<1> HIDE DEF p
<1>10. /\ DOMAIN p = Fields
       /\ p.on = r.on /\ p.sesid = r.sesid /\ p.at = k.at
       /\ p.coroutine_pool = k.coroutine_pool /\ p.fork_queue = r.fork_queue
       /\ p.session_id_coroutine = r.session_id_coroutine
       /\ p.sleep_session = r.sleep_session /\ p.alive = r.alive
       /\ p.watching_session = r.watching_session /\ p.error_queue = r.error_queue
       /\ p.wakeup_queue = r.wakeup_queue /\ p.thread_queue = r.thread_queue
       /\ k.request = r.request /\ k.watching_service = r.watching_service
       /\ p.unresponse = r.unresponse
    BY <1>5, <1>9 DEF Keeps, Fields
<1>11. Creates(p, r)
    BY <1>3, <1>5, <1>9, <1>10 DEF Creates, c
<1>12. Kept(p)
    BY <1>1, <1>11, CreateKept
<1>13. Counts(p)
    BY <1>1, <1>6, <1>7, <1>9, <1>10, TakeCounts
<1>14. NoNewPromise(p, r)
    BY <1>1, <1>5, <1>6, <1>10, NoPromiseAt
<1>15. Due(s, p, timers', q'[s])
    BY <1>1, <1>8, <1>14, DueTaken DEF NoNewPromise, m
<1> QED BY <1>2, <1>4, <1>12, <1>13, <1>15, SetInv

\* An error message: the sessions that fail are queued.
LEMMA TakeErrorInv ==
    ASSUME SessionInv, SchedulerInv', NEW s \in Services, TakeHead(s), TakeError(s)
    PROVE  SessionInv'
<1> DEFINE r == st[s]
           m == Head(q[s])
           w == DOMAIN r.watching_session
<1>1. /\ Mailed /\ Kept(r) /\ Counts(r) /\ Due(s, r, timers, q[s]) /\ DOMAIN r = Fields
    BY Before
<1>2. Mailed' /\ OthersGrow(s) /\ m \in Messages
    BY <1>1, TakenMail
<1>3. \A n : m # Msg("resp", Outside, n)
    <2>1. m.type = "err"
        BY DEF TakeError
    <2> QED BY <2>1 DEF Msg
<1>4. w \subseteq Nat /\ IsFiniteSet(w) /\ r.error_queue \in Seq(Nat)
    <2>1. w \subseteq 1..r.sesid /\ r.sesid \in Nat /\ r.error_queue \in Seq(Nat)
        BY <1>1 DEF Kept, Shape
    <2>2. IsFiniteSet(1..r.sesid)
        BY <2>1, FS_Interval
    <2> QED BY <2>1, <2>2, FS_Subset
<1>5. ASSUME NEW p, Set(s, p), p.mode = "wake",
             Keeps(p, r, Fields \ {"mode", "error_queue", "dead_service"}),
             p.error_queue \in Seq(Nat),
             \A i \in DOMAIN p.error_queue :
               \/ \E k \in DOMAIN r.error_queue : p.error_queue[i] = r.error_queue[k]
               \/ p.error_queue[i] \in w
      PROVE  SessionInv'
    <2>2. Kept(p)
        BY <1>1, <1>5, QueuedKept
    <2>3. /\ p.watching_service = r.watching_service /\ p.request = r.request
          /\ p.unresponse = r.unresponse /\ p.alive = r.alive /\ p.at = r.at
          /\ p.session_id_coroutine = r.session_id_coroutine
        BY <1>5 DEF Keeps, Fields
    <2>4. Counts(p)
        BY <1>1, <2>3, SameCounts
    <2>5. Due(s, p, timers', q'[s])
        BY <1>1, <1>3, <2>3, DueTaken DEF Awaits
    <2> QED BY <1>2, <1>5, <2>2, <2>4, <2>5, SetInv
<1>6. CASE m.ses = 0
    <2> DEFINE S == {n \in w : r.watching_session[n] = m.from}
    <2>1. PICK e \in SetToSeqs(S) :
              Set(s, [r EXCEPT !.mode = "wake", !.error_queue = @ \o e,
                               !.dead_service = @ \cup {m.from}])
        BY <1>6 DEF TakeError, Watching
    <2>2. IsFiniteSet(S) /\ S \subseteq w
        BY <1>4, FS_Subset
    <2> HIDE DEF S
    <2>3. e \in Seq(S) /\ \A i \in DOMAIN e : e[i] \in S
        BY <2>2, ListedAll
    <2>4. e \in Seq(Nat) /\ \A i \in DOMAIN e : e[i] \in w
        BY <1>4, <2>2, <2>3
    <2> DEFINE b == r.error_queue
               d == b \o e
               p == [r EXCEPT !.mode = "wake", !.error_queue = d,
                              !.dead_service = @ \cup {m.from}]
    <2>5. Set(s, p)
        BY <2>1
    <2>6. b \in Seq(Nat)
        BY <1>4
    <2> HIDE DEF b
    <2>7. d \in Seq(Nat) /\ Joins(d, b, e)
        BY <2>4, <2>6, Joined
    <2> HIDE DEF r, w, m, d
    <2>8. /\ p.mode = "wake" /\ p.error_queue = d
          /\ Keeps(p, r, Fields \ {"mode", "error_queue", "dead_service"})
        BY <1>1 DEF Keeps, Fields
    <2> HIDE DEF p
    <2> QED BY <1>5, <2>4, <2>5, <2>7, <2>8 DEF b, Joins
<1>7. CASE m.ses # 0
    <2> DEFINE b == r.error_queue
               d == IF m.ses \in w THEN Append(b, m.ses) ELSE b
               p == [r EXCEPT !.mode = "wake", !.error_queue = d]
    <2>1. Set(s, p)
        BY <1>7 DEF TakeError
    <2>2. b \in Seq(Nat) /\ (m.ses \in w => m.ses \in Nat)
        BY <1>4
    <2> HIDE DEF b, w, r, m
    <2>3. /\ d \in Seq(Nat)
          /\ \A i \in DOMAIN d : (\E k \in DOMAIN b : d[i] = b[k]) \/ d[i] \in w
        BY <2>2
    <2> HIDE DEF d
    <2>4. /\ p.mode = "wake" /\ p.error_queue = d
          /\ Keeps(p, r, Fields \ {"mode", "error_queue", "dead_service"})
        BY <1>1 DEF Keeps, Fields
    <2> HIDE DEF p
    <2> QED BY <1>5, <2>1, <2>3, <2>4 DEF b
<1> QED BY <1>6, <1>7

\* A step of a service that takes no message and makes no promise.
LEMMA MoreInv ==
    ASSUME SessionInv, SchedulerInv', Mailed', NEW s \in Services, NEW p, Set(s, p),
           Kept(p), Counts(p), NoNewPromise(p, st[s]), timers \subseteq timers',
           \A t \in Services : Grows(q[t], q'[t])
    PROVE  SessionInv'
<1>1. Due(s, st[s], timers, q[s])
    BY Before
<1>2. Due(s, p, timers', q'[s])
    BY <1>1, QuietDue
<1>3. OthersGrow(s)
    BY DEF OthersGrow
<1> QED BY <1>2, <1>3, SetInv

\* A step inside one service that sends nothing and needs no new timer.
LEMMA QuietInv ==
    ASSUME SessionInv, SchedulerInv', NEW s \in Services, NEW p, Set(s, p),
           Kept(p), Counts(p), NoNewPromise(p, st[s]), UNCHANGED <<q, timers>>
    PROVE  SessionInv'
<1>1. Mailed' /\ \A t \in Services : Grows(q[t], q'[t])
    BY DEF SessionInv, Mailed, Grows
<1>2. timers \subseteq timers'
    OBVIOUS
<1> QED BY <1>1, <1>2, MoreInv

\* The first of a queue, and the rest.
LEMMA Popped ==
    ASSUME NEW A, NEW a \in Seq(A), a # << >>
    PROVE  /\ Head(a) \in A /\ Tail(a) \in Seq(A)
           /\ \E i \in DOMAIN a : a[i] = Head(a)
           /\ \A i \in DOMAIN Tail(a) : \E j \in DOMAIN a : Tail(a)[i] = a[j]
           /\ \A i \in DOMAIN a : a[i] = Head(a) \/ \E j \in DOMAIN Tail(a) : Tail(a)[j] = a[i]
<1> DEFINE d == Tail(a)
<1>1. /\ Len(a) \in Nat \ {0} /\ DOMAIN a = 1..Len(a) /\ d \in Seq(A)
      /\ DOMAIN d = 1..(Len(a) - 1) /\ \A i \in 1..(Len(a) - 1) : d[i] = a[i + 1]
      /\ Head(a) = a[1] /\ a[1] \in A
    OBVIOUS
<1> HIDE DEF d
<1>2. 1 \in DOMAIN a
    BY <1>1
<1>3. ASSUME NEW i \in DOMAIN d PROVE \E j \in DOMAIN a : d[i] = a[j]
    <2>1. i + 1 \in DOMAIN a /\ d[i] = a[i + 1]
        BY <1>1
    <2> QED BY <2>1
<1>4. ASSUME NEW i \in DOMAIN a, i # 1 PROVE \E j \in DOMAIN d : d[j] = a[i]
    <2>1. i - 1 \in DOMAIN d /\ d[i - 1] = a[i]
        BY <1>1, <1>4
    <2> QED BY <2>1
<1> QED BY <1>1, <1>2, <1>3, <1>4 DEF d

\* A coroutine is woken.
LEMMA DispatchWakeupInv ==
    ASSUME SessionInv, SchedulerInv', NEW s \in Services, DispatchWakeup(s)
    PROVE  SessionInv'
<1> DEFINE r == st[s]
           a == r.wakeup_queue
           c == Head(a)
           d == Tail(a)
           f == r.session_id_coroutine
           popped == [r EXCEPT !.wakeup_queue = d]
<1>1. /\ Kept(r) /\ Counts(r) /\ Poised(r) /\ DOMAIN r = Fields
    BY Before
<1>2. r.mode = "wake" /\ UNCHANGED <<q, timers>>
    BY DEF DispatchWakeup
<1>3. a \in Seq(Co) /\ a # << >>
    BY <1>1, <1>2 DEF Kept, Shape, Poised
<1>4. c \in Co /\ d \in Seq(Co)
    BY <1>3
<1>5. \/ Set(s, [popped EXCEPT !.mode = "err"])
      \/ /\ c \in DOMAIN r.sleep_session
         /\ Set(s, Resumed([popped EXCEPT !.depth = @ + 1,
                     !.session_id_coroutine[r.sleep_session[c]] = BREAK], c))
    BY DEF DispatchWakeup
<1> HIDE DEF r, c, d
<1>6. CASE Set(s, [popped EXCEPT !.mode = "err"])
    <2> DEFINE p == [popped EXCEPT !.mode = "err"]
    <2>1. /\ Keeps(p, r, Fields \ {"mode", "wakeup_queue"}) /\ p.mode = "err"
          /\ p.wakeup_queue = d
        BY <1>1 DEF Keeps, Fields
    <2> HIDE DEF p
    <2>2. Idles(p, r)
        BY <1>1, <1>4, <2>1 DEF Keeps, Fields, Idles, Modes, Kept, Shape
    <2>3. /\ p.watching_service = r.watching_service /\ p.request = r.request
          /\ p.unresponse = r.unresponse
        BY <2>1 DEF Keeps, Fields
    <2>4. Kept(p) /\ NoNewPromise(p, r) /\ Counts(p)
        BY <1>1, <2>2, <2>3, IdleKept, SameCounts
    <2> QED BY <1>2, <1>6, <2>4, QuietInv DEF p, r
<1>7. CASE c \in DOMAIN r.sleep_session
           /\ Set(s, Resumed([popped EXCEPT !.depth = @ + 1,
                       !.session_id_coroutine[r.sleep_session[c]] = BREAK], c))
    <2> DEFINE n == r.sleep_session[c]
               h == [f EXCEPT ![n] = BREAK]
               x == [popped EXCEPT !.depth = @ + 1, !.session_id_coroutine[n] = BREAK]
               p == Resumed(x, c)
    <2>1. /\ r.at[c] \in Sleeping /\ n = r.on[c] /\ n \in DOMAIN f /\ f[n] = c
          /\ f \in [DOMAIN f -> Co \cup {BREAK}]
        BY <1>1, <1>4, <1>7 DEF Kept, Sessions, Shape, Yielded
    <2>2. c \notin r.fork_queue
        BY <1>1, <1>4, <2>1 DEF Kept, Roles, Sleeping
    <2>3. /\ Keeps(x, r, Fields \ {"wakeup_queue", "depth", "session_id_coroutine"})
          /\ x.wakeup_queue = d /\ x.session_id_coroutine = h
        BY <1>1 DEF Keeps, Fields
    <2>4. \A k \in DOMAIN f : f[k] = c => k = n
        BY <1>1, <1>4, <2>1 DEF Kept, Sessions, Co, BREAK
    <2>5. /\ h \in [DOMAIN h -> Co \cup {BREAK}] /\ DOMAIN h = DOMAIN f
          /\ \A k \in DOMAIN f : k # n => h[k] = f[k]
          /\ h[n] = BREAK
        BY <2>1
    <2> HIDE DEF x, h, n
    <2>6. /\ x.error_queue = r.error_queue /\ x.fork_queue = r.fork_queue
          /\ r.error_queue \in Seq(Nat)
          /\ Keeps(x, r, Fields \ {"mode", "session_id_coroutine", "error_queue",
                                   "wakeup_queue", "fork_queue", "depth"})
        BY <1>1, <2>3 DEF Keeps, Fields, Kept, Shape
    <2>7. Readied(x, r, c)
        BY <1>4, <2>1, <2>2, <2>3, <2>4, <2>5, <2>6 DEF Readied, Yielded, f
    <2>8. Kept(p) /\ Counts(p) /\ NoNewPromise(p, r)
        BY <1>1, <1>4, <2>7, ResumedKept
    <2> QED BY <1>2, <1>7, <2>8, QuietInv DEF x, n, r
<1> QED BY <1>5, <1>6, <1>7

\* A call fails.
LEMMA DispatchErrorInv ==
    ASSUME SessionInv, SchedulerInv', NEW s \in Services, DispatchError(s)
    PROVE  SessionInv'
<1> DEFINE r == st[s]
           a == r.error_queue
           n == Head(a)
           d == Tail(a)
           f == r.session_id_coroutine
           c == f[n]
           popped == [r EXCEPT !.error_queue = d]
<1>1. /\ Kept(r) /\ Counts(r) /\ Poised(r) /\ DOMAIN r = Fields
    BY Before
<1>2. r.mode = "err" /\ UNCHANGED <<q, timers>>
    BY DEF DispatchError
<1>3. a \in Seq(Nat) /\ a # << >>
    BY <1>1, <1>2 DEF Kept, Shape, Poised
<1>4. /\ n \in Nat /\ d \in Seq(Nat) /\ \E i \in DOMAIN a : a[i] = n
      /\ \A i \in DOMAIN d : \E j \in DOMAIN a : d[i] = a[j]
    BY <1>3, Popped
<1>5. \/ Set(s, Thrown(popped))
      \/ /\ n \in DOMAIN f
         /\ Set(s, Resumed([popped EXCEPT !.session_id_coroutine = Without(@, n)], c))
    BY DEF DispatchError
<1>6. n \in DOMAIN f => c # BREAK /\ r.at[c] = "call"
    BY <1>1, <1>4 DEF Kept, Errors
<1> HIDE DEF r, n, d
<1>7. /\ Keeps(popped, r, Fields \ {"error_queue"}) /\ popped.error_queue = d
    BY <1>1 DEF Keeps, Fields
<1>8. CASE Set(s, Thrown(popped))
    <2> DEFINE p == Thrown(popped)
    <2> HIDE DEF popped
    <2>1. Keeps(p, popped, Fields \ {"mode", "cur", "depth"}) /\ p.mode = "fork"
        BY <1>7, ThrownFields DEF Keeps
    <2> HIDE DEF p
    <2>2. /\ p.sesid = r.sesid /\ p.at = r.at /\ p.on = r.on /\ DOMAIN p = Fields
          /\ p.coroutine_pool = r.coroutine_pool
          /\ p.session_id_coroutine = r.session_id_coroutine
          /\ p.sleep_session = r.sleep_session /\ p.error_queue = d
          /\ p.watching_session = r.watching_session /\ p.alive = r.alive
          /\ p.wakeup_queue = r.wakeup_queue /\ p.thread_queue = r.thread_queue
          /\ p.fork_queue = r.fork_queue
          /\ p.watching_service = r.watching_service /\ p.request = r.request
          /\ p.unresponse = r.unresponse
        BY <1>7, <2>1 DEF Keeps, Fields
    <2>3. Kept(p)
        <3>1. Shape(p)
            BY <1>1, <1>4, <2>1, <2>2 DEF Kept, Shape, Modes
        <3>2. Roles(p) /\ Sessions(p)
            BY <1>1, <2>1, <2>2 DEF Kept, Roles, Sessions
        <3>3. Errors(p)
            <4> SUFFICES ASSUME NEW i \in DOMAIN d
                         PROVE  /\ d[i] \in 1..r.sesid
                                /\ d[i] \in DOMAIN f => f[d[i]] # BREAK /\ r.at[f[d[i]]] = "call"
                BY <2>2 DEF Errors
            <4>1. PICK j \in DOMAIN a : d[i] = a[j]
                BY <1>4
            <4> QED BY <1>1, <4>1 DEF Kept, Errors
        <3> QED BY <3>1, <3>2, <3>3 DEF Kept
    <2>4. Counts(p)
        BY <1>1, <2>2, SameCounts
    <2>5. NoNewPromise(p, r)
        BY <2>2 DEF NoNewPromise, Awaits
    <2> QED BY <1>2, <1>8, <2>3, <2>4, <2>5, QuietInv DEF p, r
<1>9. CASE n \in DOMAIN f
           /\ Set(s, Resumed([popped EXCEPT !.session_id_coroutine = Without(@, n)], c))
    <2> DEFINE x == [popped EXCEPT !.session_id_coroutine = Without(@, n)]
               h == Without(f, n)
               p == Resumed(x, c)
    <2>1. /\ c \in Co /\ c # BREAK /\ r.at[c] = "call" /\ r.on[c] = n
          /\ f \in [DOMAIN f -> Co \cup {BREAK}]
        BY <1>1, <1>6, <1>9 DEF Kept, Sessions, Shape
    <2>2. c \notin r.fork_queue /\ r.at[c] \in Yielded
        BY <1>1, <2>1 DEF Kept, Roles, Yielded
    <2>3. /\ Keeps(x, r, Fields \ {"error_queue", "session_id_coroutine"})
          /\ x.error_queue = d /\ x.session_id_coroutine = h
        BY <1>1 DEF Keeps, Fields
    <2>4. \A k \in DOMAIN f : f[k] = c => k = n
        BY <1>1, <2>1 DEF Kept, Sessions
    <2>5. /\ h \in [DOMAIN h -> Co \cup {BREAK}] /\ DOMAIN h = DOMAIN f \ {n}
          /\ \A k \in DOMAIN f : k # n => h[k] = f[k]
        BY <2>1 DEF Without
    <2> HIDE DEF x, h, c
    <2>6. /\ x.wakeup_queue = r.wakeup_queue /\ x.fork_queue = r.fork_queue
          /\ r.wakeup_queue \in Seq(Co)
          /\ Keeps(x, r, Fields \ {"mode", "session_id_coroutine", "error_queue",
                                   "wakeup_queue", "fork_queue", "depth"})
        BY <1>1, <2>3 DEF Keeps, Fields, Kept, Shape
    <2>7. Readied(x, r, c)
        BY <1>4, <2>1, <2>2, <2>3, <2>4, <2>5, <2>6, <1>9 DEF Readied, f, c
    <2>8. Kept(p) /\ Counts(p) /\ NoNewPromise(p, r)
        BY <1>1, <2>1, <2>7, ResumedKept
    <2> QED BY <1>2, <1>9, <2>8, QuietInv DEF x, r, c
<1> QED BY <1>5, <1>8, <1>9

\* A fork starts.
LEMMA RunForksInv ==
    ASSUME SessionInv, SchedulerInv', NEW s \in Services, RunForks(s)
    PROVE  SessionInv'
<1> DEFINE r == st[s]
           f == r.session_id_coroutine
<1>1. /\ Kept(r) /\ Counts(r) /\ DOMAIN r = Fields
    BY Before
<1>2. UNCHANGED <<q, timers>>
    BY DEF RunForks
<1>3. PICK c \in r.fork_queue : Set(s, Resumed([r EXCEPT !.fork_queue = @ \ {c}], c))
    BY DEF RunForks
<1> DEFINE x == [r EXCEPT !.fork_queue = @ \ {c}]
           p == Resumed(x, c)
<1> HIDE DEF r
<1>4. /\ c \in Co /\ r.at[c] = "ready" /\ r.on[c] = Nil
      /\ r.wakeup_queue \in Seq(Co) /\ r.error_queue \in Seq(Nat)
      /\ f \in [DOMAIN f -> Co \cup {BREAK}]
    BY <1>1 DEF Kept, Roles, Shape
<1>5. \A k \in DOMAIN f : f[k] # c
    <2>1. c # BREAK /\ \A k \in DOMAIN f : k # Nil
        BY <1>1, <1>4 DEF Kept, Shape, Co, BREAK, Nil
    <2> QED BY <1>1, <1>4, <2>1 DEF Kept, Sessions
<1>6. /\ Keeps(x, r, Fields \ {"fork_queue"}) /\ x.fork_queue = r.fork_queue \ {c}
    BY <1>1 DEF Keeps, Fields
<1> HIDE DEF x
<1>7. /\ x.wakeup_queue = r.wakeup_queue /\ x.error_queue = r.error_queue
      /\ x.session_id_coroutine = f
      /\ Keeps(x, r, Fields \ {"mode", "session_id_coroutine", "error_queue",
                               "wakeup_queue", "fork_queue", "depth"})
    BY <1>6 DEF Keeps, Fields
<1>8. Readied(x, r, c)
    BY <1>4, <1>5, <1>6, <1>7 DEF Readied
<1>9. Kept(p) /\ Counts(p) /\ NoNewPromise(p, r)
    BY <1>1, <1>4, <1>8, ResumedKept
<1> QED BY <1>2, <1>3, <1>9, QuietInv DEF x, r

\* A coroutine yields: for a sleep there is a timer.
LEMMA YieldInv ==
    ASSUME SessionInv, SchedulerInv', Mailed', NEW s \in Services, NEW p, Set(s, p),
           NEW how \in Yielded, Yields(p, st[s], how), p.alive = st[s].alive,
           p.watching_service = st[s].watching_service, p.request = st[s].request,
           p.unresponse = st[s].unresponse,
           timers \subseteq timers', how = "sleep" => <<s, st[s].sesid + 1>> \in timers',
           \A t \in Services : Grows(q[t], q'[t])
    PROVE  SessionInv'
<1> DEFINE r == st[s]
           n == r.sesid + 1
           f == r.session_id_coroutine
           c == r.cur
<1>1. Kept(r) /\ Counts(r) /\ Due(s, r, timers, q[s])
    BY Before
<1>2. Kept(p) /\ Counts(p)
    BY <1>1, YieldKept, SameCounts
<1>3. OthersGrow(s)
    BY DEF OthersGrow
<1>4. /\ p.at = [r.at EXCEPT ![c] = how] /\ p.session_id_coroutine = With(f, n, c)
      /\ c \in Co /\ r.at[c] = "run" /\ r.at \in [Co -> States]
      /\ f \in [DOMAIN f -> Co \cup {BREAK}] /\ c # BREAK
    <2>1. /\ p.at = [r.at EXCEPT ![c] = how] /\ p.session_id_coroutine = With(f, n, c)
          /\ r.mode = "run" /\ r.at[c] = "run"
        BY DEF Yields
    <2>2. /\ c \in Co /\ r.at \in [Co -> States]
          /\ f \in [DOMAIN f -> Co \cup {BREAK}]
        BY <1>1, <2>1 DEF Kept, Shape
    <2>3. BREAK \notin Co
        BY DEF Co, BREAK
    <2> QED BY <2>1, <2>2, <2>3
<1>5. /\ \A k \in DOMAIN p.session_id_coroutine : k # n => k \in DOMAIN f
      /\ \A k \in DOMAIN f : k # n => p.session_id_coroutine[k] = f[k]
      /\ p.session_id_coroutine[n] = c
    BY <1>4 DEF With
<1>6. \A k \in DOMAIN f : f[k] # c
    BY <1>1, <1>4 DEF Kept, Sessions, Yielded, Sleeping
<1>7. Due(s, p, timers', q'[s])
    <2> SUFFICES ASSUME p.alive, NEW k \in DOMAIN p.session_id_coroutine, Awaits(p, k)
                 PROVE  \/ <<s, k>> \in timers'
                        \/ \E i \in DOMAIN q'[s] : q'[s][i] = Msg("resp", Outside, k)
        BY DEF Due, Awaits
    <2>1. CASE k = n
        BY <1>4, <1>5, <2>1 DEF Awaits
    <2>2. CASE k # n
        <3>1. Awaits(r, k)
            BY <1>4, <1>5, <1>6, <2>2 DEF Awaits
        <3>2. \/ <<s, k>> \in timers
              \/ \E i \in DOMAIN q[s] : q[s][i] = Msg("resp", Outside, k)
            BY <1>1, <3>1 DEF Due, Awaits
        <3> QED BY <3>2 DEF Grows
    <2> QED BY <2>1, <2>2
<1> QED BY <1>2, <1>3, <1>7, SetInv

\* What a yield leaves in the record.
LEMMA ParkedYields ==
    ASSUME SessionInv, NEW s \in Services, Running(s), NEW how \in Yielded, NEW p,
           Keeps(p, Parked(st[s], how, st[s].sesid + 1),
                 Fields \ {"sesid", "watching_session", "thread_queue"}),
           p.sesid = st[s].sesid + 1, p.thread_queue \in Seq(Co),
           \/ p.watching_session = st[s].watching_session
           \/ /\ how = "call"
              /\ \E t : p.watching_session = With(st[s].watching_session, st[s].sesid + 1, t)
    PROVE  /\ Yields(p, st[s], how) /\ p.alive = st[s].alive
           /\ p.watching_service = st[s].watching_service /\ p.request = st[s].request
           /\ p.unresponse = st[s].unresponse
<1> DEFINE r == st[s]
           n == r.sesid + 1
           k == Parked(r, how, n)
<1>1. DOMAIN r = Fields /\ r.mode = "run" /\ r.at[r.cur] = "run"
    BY Before DEF Running
<1>2. ParkedFrom(k, r, how, n)
    BY <1>1, ParkedFields
<1> HIDE DEF k
<1>3. /\ p.mode = k.mode /\ p.at = k.at /\ p.on = k.on /\ DOMAIN p = Fields
      /\ p.session_id_coroutine = k.session_id_coroutine
      /\ p.sleep_session = k.sleep_session
      /\ p.coroutine_pool = r.coroutine_pool /\ p.error_queue = r.error_queue
      /\ p.wakeup_queue = r.wakeup_queue /\ p.fork_queue = r.fork_queue
      /\ p.alive = r.alive /\ p.watching_service = r.watching_service
      /\ p.request = r.request /\ p.unresponse = r.unresponse
    BY <1>2 DEF Keeps, Fields, k, ParkedFrom
<1> QED BY <1>1, <1>2, <1>3 DEF Yields, ParkedFrom

\* skynet.call, sleep and wait.
LEMMA ParkInv ==
    ASSUME SessionInv, SchedulerInv', NEW s \in Services,
           (\E t \in Services \ {s} : Call(s, t)) \/ Sleep(s) \/ Wait(s)
    PROVE  SessionInv'
<1> DEFINE r == st[s]
           n == r.sesid + 1
<1>1. /\ DOMAIN r = Fields /\ r.thread_queue \in Seq(Co) /\ n \in Nat /\ Mailed
    BY Before DEF Kept, Shape
<1>2. \A how \in Yielded : ParkedFrom(Parked(r, how, n), r, how, n)
    BY <1>1, ParkedFields
<1>3. ASSUME NEW how \in Yielded
      PROVE  /\ DOMAIN Parked(r, how, n) = Fields
             /\ Parked(r, how, n).thread_queue = r.thread_queue
             /\ Parked(r, how, n).watching_session = r.watching_session
    <2> DEFINE k == Parked(r, how, n)
    <2>1. ParkedFrom(k, r, how, n)
        BY <1>2
    <2> HIDE DEF k
    <2>2. /\ DOMAIN k = Fields /\ k.thread_queue = r.thread_queue
          /\ k.watching_session = r.watching_session
        BY <2>1 DEF Keeps, Fields, ParkedFrom
    <2> QED BY <2>2 DEF k
<1>4. {"call", "sleep", "wait"} \subseteq Yielded
    BY DEF Yielded, Sleeping
<1>5. ASSUME NEW t \in Services \ {s}, Call(s, t) PROVE SessionInv'
    <2> DEFINE k == Parked(r, "call", n)
               p == [k EXCEPT !.sesid = n, !.watching_session = With(@, n, t)]
    <2>0. /\ DOMAIN k = Fields /\ k.thread_queue = r.thread_queue
          /\ k.watching_session = r.watching_session
        BY <1>3, <1>4
    <2>1. Running(s) /\ q' = Post(t, Msg("req", s, n)) /\ timers' = timers /\ Set(s, p)
        BY <1>5 DEF Call
    <2>2. Msg("req", s, n) \in Messages
        BY <1>1 DEF Msg, Messages, Who
    <2>3. Mailed' /\ \A u \in Services : Grows(q[u], q'[u])
        BY <1>1, <2>1, <2>2, PostGrows
    <2> HIDE DEF k, n
    <2>4. /\ Keeps(p, k, Fields \ {"sesid", "watching_session", "thread_queue"})
          /\ p.sesid = n /\ p.thread_queue = r.thread_queue
          /\ p.watching_session = With(r.watching_session, n, t)
        BY <2>0 DEF Keeps, Fields
    <2> HIDE DEF p
    <2>5. /\ Yields(p, r, "call") /\ p.alive = r.alive
          /\ p.watching_service = r.watching_service /\ p.request = r.request
          /\ p.unresponse = r.unresponse
        <3>1. \E u : p.watching_session = With(r.watching_session, n, u)
            BY <2>4
        <3> QED BY <1>1, <1>4, <2>1, <2>4, <3>1, ParkedYields DEF k, n
    <2> QED BY <1>4, <2>1, <2>3, <2>5, YieldInv
<1>6. CASE Sleep(s)
    <2> DEFINE k == Parked(r, "sleep", n)
               p == [k EXCEPT !.sesid = n]
    <2>0. /\ DOMAIN k = Fields /\ k.thread_queue = r.thread_queue
          /\ k.watching_session = r.watching_session
        BY <1>3, <1>4
    <2>1. Running(s) /\ q' = q /\ timers' = timers \cup {<<s, n>>} /\ Set(s, p)
        BY <1>6 DEF Sleep
    <2>2. Mailed' /\ (\A u \in Services : Grows(q[u], q'[u])) /\ timers \subseteq timers'
          /\ <<s, n>> \in timers'
        BY <1>1, <2>1 DEF Mailed, Grows
    <2> HIDE DEF k, n
    <2>4. /\ Keeps(p, k, Fields \ {"sesid", "watching_session", "thread_queue"})
          /\ p.sesid = n /\ p.thread_queue = r.thread_queue
          /\ p.watching_session = r.watching_session
        BY <2>0 DEF Keeps, Fields
    <2> HIDE DEF p
    <2>5. /\ Yields(p, r, "sleep") /\ p.alive = r.alive
          /\ p.watching_service = r.watching_service /\ p.request = r.request
          /\ p.unresponse = r.unresponse
        BY <1>1, <1>4, <2>1, <2>4, ParkedYields DEF k, n
    <2> QED BY <1>4, <2>1, <2>2, <2>5, YieldInv DEF n
<1>7. CASE Wait(s)
    <2> DEFINE k == Parked(r, "wait", n)
               p == [k EXCEPT !.sesid = n]
    <2>0. /\ DOMAIN k = Fields /\ k.thread_queue = r.thread_queue
          /\ k.watching_session = r.watching_session
        BY <1>3, <1>4
    <2>1. Running(s) /\ q' = q /\ timers' = timers /\ Set(s, p)
        BY <1>7 DEF Wait
    <2>2. Mailed' /\ (\A u \in Services : Grows(q[u], q'[u])) /\ timers \subseteq timers'
        BY <1>1, <2>1 DEF Mailed, Grows
    <2> HIDE DEF k, n
    <2>4. /\ Keeps(p, k, Fields \ {"sesid", "watching_session", "thread_queue"})
          /\ p.sesid = n /\ p.thread_queue = r.thread_queue
          /\ p.watching_session = r.watching_session
        BY <2>0 DEF Keeps, Fields
    <2> HIDE DEF p
    <2>5. /\ Yields(p, r, "wait") /\ p.alive = r.alive
          /\ p.watching_service = r.watching_service /\ p.request = r.request
          /\ p.unresponse = r.unresponse
        BY <1>1, <1>4, <2>1, <2>4, ParkedYields DEF k, n
    <2> QED BY <1>4, <2>1, <2>2, <2>5, YieldInv
<1> QED BY <1>5, <1>6, <1>7

\* skynet.fork and skynet.timeout.
LEMMA CreateInv ==
    ASSUME SessionInv, SchedulerInv', NEW s \in Services, Fork(s) \/ Timeout(s)
    PROVE  SessionInv'
<1> DEFINE r == st[s]
           c == NewCo(r)
           n == r.sesid + 1
           f == r.session_id_coroutine
           k == Created(r, "ready")
<1>1. /\ Kept(r) /\ Counts(r) /\ DOMAIN r = Fields /\ Mailed
    BY Before
<1>2. /\ r.coroutine_pool # << >> /\ Running(s) /\ q' = q
    BY DEF Fork, Timeout
<1>3. /\ Keeps(k, r, Fields \ {"at", "coroutine_pool"})
      /\ k.at = [r.at EXCEPT ![c] = "ready"] /\ k.coroutine_pool = Front(r.coroutine_pool)
    BY <1>1, CreatedFields
<1>4. c \in Co /\ r.at[c] = "pool"
    BY <1>1, <1>2, PoolKept
<1>5. /\ r.at \in [Co -> States] /\ f \in [DOMAIN f -> Co \cup {BREAK}] /\ c # BREAK
    BY <1>1, <1>4 DEF Kept, Shape, Co, BREAK
<1>6. Mailed' /\ \A u \in Services : Grows(q[u], q'[u])
    BY <1>1, <1>2 DEF Mailed, Grows
<1>7. CASE Fork(s)
    <2> DEFINE p == [k EXCEPT !.fork_queue = @ \cup {c}]
    <2>1. Set(s, p) /\ UNCHANGED <<q, timers>>
        BY <1>7 DEF Fork
    <2> HIDE DEF k, c, r
    <2>2. /\ Keeps(p, k, Fields \ {"fork_queue"}) /\ p.fork_queue = k.fork_queue \cup {c}
        BY <1>3 DEF Keeps, Fields
    <2> HIDE DEF p
    <2>3. /\ DOMAIN p = Fields /\ p.at = k.at /\ p.mode = r.mode /\ p.cur = r.cur
          /\ p.fork_queue = r.fork_queue \cup {c} /\ p.on = r.on /\ p.sesid = r.sesid
          /\ p.coroutine_pool = k.coroutine_pool
          /\ p.session_id_coroutine = r.session_id_coroutine
          /\ p.sleep_session = r.sleep_session /\ p.watching_session = r.watching_session
          /\ p.error_queue = r.error_queue /\ p.wakeup_queue = r.wakeup_queue
          /\ p.thread_queue = r.thread_queue /\ p.alive = r.alive
          /\ p.watching_service = r.watching_service /\ p.request = r.request
          /\ p.unresponse = r.unresponse
        BY <1>3, <2>2 DEF Keeps, Fields
    <2>4. Creates(p, r)
        BY <1>2, <1>3, <2>3 DEF Creates, c, r
    <2>5. Kept(p)
        BY <1>1, <2>4, CreateKept
    <2>6. Counts(p)
        BY <1>1, <2>3, SameCounts
    <2>7. NoNewPromise(p, r)
        BY <1>1, <1>3, <1>4, <2>3, NoPromiseAt
    <2> QED BY <2>1, <2>5, <2>6, <2>7, QuietInv DEF r
<1>8. CASE Timeout(s)
    <2> DEFINE p == [k EXCEPT !.sesid = n, !.on[c] = n,
                              !.session_id_coroutine = With(@, n, c)]
    <2>1. Set(s, p) /\ timers \subseteq timers'
        BY <1>8 DEF Timeout
    <2> HIDE DEF k, c, r, n
    <2>2. /\ Keeps(p, k, Fields \ {"sesid", "on", "session_id_coroutine"})
          /\ p.sesid = n /\ p.on = [k.on EXCEPT ![c] = n]
          /\ p.session_id_coroutine = With(k.session_id_coroutine, n, c)
        BY <1>3 DEF Keeps, Fields
    <2> HIDE DEF p
    <2>3. /\ DOMAIN p = Fields /\ p.at = k.at /\ p.mode = r.mode /\ p.cur = r.cur
          /\ p.fork_queue = r.fork_queue /\ k.on = r.on
          /\ p.coroutine_pool = k.coroutine_pool
          /\ k.session_id_coroutine = f
          /\ p.sleep_session = r.sleep_session /\ p.watching_session = r.watching_session
          /\ p.error_queue = r.error_queue /\ p.wakeup_queue = r.wakeup_queue
          /\ p.thread_queue = r.thread_queue /\ p.alive = r.alive
          /\ p.watching_service = r.watching_service /\ p.request = r.request
          /\ p.unresponse = r.unresponse
        BY <1>3, <2>2 DEF Keeps, Fields
    <2>4. Plans(p, r)
        BY <1>2, <1>3, <2>2, <2>3 DEF Plans, c, r, n
    <2>5. Kept(p)
        BY <1>1, <2>4, TimeoutKept
    <2>6. Counts(p)
        BY <1>1, <2>3, SameCounts
    <2>7. NoNewPromise(p, r)
        <3> SUFFICES ASSUME NEW i, Awaits(p, i) PROVE Awaits(r, i)
            BY <2>3 DEF NoNewPromise
        <3> DEFINE g == With(f, n, c)
        <3>1. i \in DOMAIN g /\ (g[i] = BREAK \/ p.at[g[i]] = "sleep")
            BY <2>2, <2>3 DEF Awaits
        <3>2. g[n] = c /\ \A x \in DOMAIN g : x # n => x \in DOMAIN f /\ g[x] = f[x]
            BY DEF With
        <3>3. p.at[c] = "ready" /\ \A d \in Co : d # c => p.at[d] = r.at[d]
            BY <1>3, <1>4, <1>5, <2>3
        <3> HIDE DEF g
        <3>4. i # n
            BY <1>5, <3>1, <3>2, <3>3
        <3>5. i \in DOMAIN f /\ g[i] = f[i] /\ f[i] \in Co \cup {BREAK}
            BY <1>5, <3>1, <3>2, <3>4
        <3> QED BY <3>1, <3>3, <3>5 DEF Awaits
    <2> QED BY <1>6, <2>1, <2>5, <2>6, <2>7, MoreInv DEF r
<1> QED BY <1>7, <1>8

\* Steps of the running coroutine that leave coroutines and sessions alone.
LEMMA PlainInv ==
    ASSUME SessionInv, SchedulerInv', Mailed', NEW s \in Services, NEW p, Set(s, p),
           Idles(p, st[s]), Counts(p), timers' = timers,
           \A t \in Services : Grows(q[t], q'[t])
    PROVE  SessionInv'
<1>1. Kept(st[s])
    BY Before
<1>2. Kept(p) /\ NoNewPromise(p, st[s])
    BY <1>1, IdleKept
<1>3. timers \subseteq timers'
    OBVIOUS
<1> QED BY <1>2, <1>3, MoreInv

\* A record that is r but for some fields that say nothing of coroutines.
LEMMA IdlesBut ==
    ASSUME NEW r, NEW p, Kept(r), r.mode \in {"run", "exit"},
           Keeps(p, r, Fields \ {"session_response", "unresponse", "watching_service",
                                 "current_thread", "ref", "inside", "wakeup_queue",
                                 "thread_queue"}),
           p.wakeup_queue \in Seq(Co), p.thread_queue \in Seq(Co)
    PROVE  Idles(p, r)
<1>1. r.mode \in Modes
    BY DEF Modes
<1> QED BY <1>1 DEF Idles, Keeps, Fields

\* skynet.wakeup
LEMMA WakeupInv ==
    ASSUME SessionInv, SchedulerInv', NEW s \in Services, NEW c \in Co, Wakeup(s, c)
    PROVE  SessionInv'
<1> DEFINE r == st[s]
           d == Append(r.wakeup_queue, c)
           p == [r EXCEPT !.wakeup_queue = d]
<1>1. /\ Kept(r) /\ Counts(r) /\ DOMAIN r = Fields /\ Mailed
    BY Before
<1>2. Set(s, p) /\ UNCHANGED <<q, timers>> /\ r.mode = "run"
    BY DEF Wakeup, Running
<1>3. d \in Seq(Co) /\ r.thread_queue \in Seq(Co)
    BY <1>1 DEF Kept, Shape
<1> HIDE DEF d, r
<1>4. Keeps(p, r, Fields \ {"wakeup_queue"}) /\ p.wakeup_queue = d
    BY <1>1 DEF Keeps, Fields
<1> HIDE DEF p
<1>5. /\ Keeps(p, r, Fields \ {"session_response", "unresponse", "watching_service",
                              "current_thread", "ref", "inside", "wakeup_queue",
                              "thread_queue"})
      /\ p.thread_queue = r.thread_queue
      /\ p.watching_service = r.watching_service /\ p.request = r.request
      /\ p.unresponse = r.unresponse
    BY <1>4 DEF Keeps, Fields
<1>6. Idles(p, r)
    BY <1>1, <1>2, <1>3, <1>4, <1>5, IdlesBut
<1>7. Kept(p) /\ NoNewPromise(p, r) /\ Counts(p)
    BY <1>1, <1>5, <1>6, IdleKept, SameCounts
<1> QED BY <1>2, <1>7, QuietInv DEF r

\* An answer or an error is sent, or nothing.
LEMMA AnswerGrows ==
    ASSUME Mailed, NEW s \in Services, NEW a, NEW n \in Nat,
           q' = q \/ \E t \in Answers : q' = Post(a, Msg(t, s, n))
    PROVE  Mailed' /\ \A u \in Services : Grows(q[u], q'[u])
<1>1. CASE q' = q
    BY <1>1 DEF Mailed, Grows
<1>2. ASSUME NEW t \in Answers, q' = Post(a, Msg(t, s, n))
      PROVE  Mailed' /\ \A u \in Services : Grows(q[u], q'[u])
    <2>1. Msg(t, s, n) \in Messages
        BY DEF Msg, Messages, Who, Answers
    <2> QED BY <1>2, <2>1, PostGrows
<1> QED BY <1>1, <1>2

\* Who the running coroutine works for.
LEMMA MineType ==
    ASSUME SessionInv, NEW s \in Services, st[s].mode \in {"run", "exit"}
    PROVE  /\ Mine(s) \in [from : Who, ses : Int] /\ st[s].cur \in Co
           /\ Mine(s).from \in Who /\ Mine(s).ses \in Int
<1>1. Kept(st[s]) /\ Counts(st[s])
    BY Before
<1>2. st[s].cur \in Co /\ st[s].request \in [Co -> [from : Who, ses : Int]]
    BY <1>1 DEF Kept, Shape, Counts
<1>3. Mine(s) \in [from : Who, ses : Int]
    BY <1>2 DEF Mine
<1> QED BY <1>2, <1>3

\* skynet.ret
LEMMA RetInv ==
    ASSUME SessionInv, SchedulerInv', NEW s \in Services, Ret(s)
    PROVE  SessionInv'
<1> DEFINE r == st[s]
           p == [r EXCEPT !.session_response = @ \cup {r.cur}]
           a == Mine(s).from
           n == Mine(s).ses
<1>1. /\ Kept(r) /\ Counts(r) /\ DOMAIN r = Fields /\ Mailed
    BY Before
<1>2. Set(s, p) /\ timers' = timers /\ r.mode = "run" /\ n > 0
    BY DEF Ret, Running
<1>3. q' = q \/ \E t \in Answers : q' = Post(a, Msg(t, s, n))
    BY DEF Ret
<1>4. n \in Nat
    BY <1>2, MineType
<1> HIDE DEF a, n
<1>5. Mailed' /\ \A u \in Services : Grows(q[u], q'[u])
    BY <1>1, <1>3, <1>4, AnswerGrows
<1> HIDE DEF r
<1>6. Keeps(p, r, Fields \ {"session_response"})
    BY <1>1 DEF Keeps, Fields
<1> HIDE DEF p
<1>7. /\ Keeps(p, r, Fields \ {"session_response", "unresponse", "watching_service",
                              "current_thread", "ref", "inside", "wakeup_queue",
                              "thread_queue"})
      /\ p.thread_queue \in Seq(Co) /\ p.wakeup_queue \in Seq(Co)
      /\ p.watching_service = r.watching_service /\ p.request = r.request
      /\ p.unresponse = r.unresponse
    BY <1>1, <1>6 DEF Keeps, Fields, Kept, Shape
<1>8. Idles(p, r)
    BY <1>1, <1>2, <1>7, IdlesBut
<1>9. Counts(p)
    BY <1>1, <1>7, SameCounts
<1> QED BY <1>2, <1>5, <1>8, <1>9, PlainInv DEF r

\* skynet.response
LEMMA DeferInv ==
    ASSUME SessionInv, SchedulerInv', NEW s \in Services, Defer(s)
    PROVE  SessionInv'
<1> DEFINE r == st[s]
           j == Mine(s)
           p == [r EXCEPT !.session_response = @ \cup {r.cur},
                          !.unresponse = @ \cup {j}, !.watching_service[j.from] = @ + 1]
<1>1. /\ Kept(r) /\ Counts(r) /\ DOMAIN r = Fields /\ Mailed
    BY Before
<1>2. Set(s, p) /\ UNCHANGED <<q, timers>> /\ r.mode = "run" /\ j.ses > 0
    BY DEF Defer, Running
<1>3. j \in Promises
    <2>1. j \in [from : Who, ses : Int]
        BY <1>2, MineType
    <2> HIDE DEF j
    <2>2. j.ses \in Nat \ {0} /\ j.from \in Who /\ j = [from |-> j.from, ses |-> j.ses]
        BY <1>2, <2>1
    <2> QED BY <2>2 DEF Promises
<1> HIDE DEF j, r
<1>4. /\ Keeps(p, r, Fields \ {"session_response", "unresponse", "watching_service"})
      /\ p.unresponse = r.unresponse \cup {j}
      /\ p.watching_service = [r.watching_service EXCEPT ![j.from] = @ + 1]
    BY <1>1 DEF Keeps, Fields
<1> HIDE DEF p
<1>5. /\ Keeps(p, r, Fields \ {"session_response", "unresponse", "watching_service",
                              "current_thread", "ref", "inside", "wakeup_queue",
                              "thread_queue"})
      /\ p.thread_queue \in Seq(Co) /\ p.wakeup_queue \in Seq(Co)
      /\ p.request = r.request
    BY <1>1, <1>4 DEF Keeps, Fields, Kept, Shape
<1>6. Idles(p, r)
    BY <1>1, <1>2, <1>5, IdlesBut
<1>7. Counts(p)
    BY <1>1, <1>3, <1>4, <1>5, DeferCounts
<1>8. Kept(p) /\ NoNewPromise(p, r)
    BY <1>1, <1>6, IdleKept
<1> QED BY <1>2, <1>7, <1>8, QuietInv DEF r

\* A closure of skynet.response is called.
LEMMA RespondInv ==
    ASSUME SessionInv, SchedulerInv', NEW s \in Services, NEW j \in st[s].unresponse,
           Respond(s, j)
    PROVE  SessionInv'
<1> DEFINE r == st[s]
           k == [r EXCEPT !.unresponse = @ \ {j}]
           p == Released(k, j.from)
<1>1. /\ Kept(r) /\ Counts(r) /\ DOMAIN r = Fields /\ Mailed
    BY Before
<1>2. Set(s, p) /\ timers' = timers /\ r.mode = "run"
    BY DEF Respond, Running
<1>3. q' = q \/ \E t \in Answers : q' = Post(j.from, Msg(t, s, j.ses))
    BY DEF Respond
<1>4. j.ses \in Nat /\ j.from \in Who
    BY <1>1 DEF Counts, Promises
<1>5. Mailed' /\ \A u \in Services : Grows(q[u], q'[u])
    BY <1>1, <1>3, <1>4, AnswerGrows
<1>6. j \in r.unresponse
    OBVIOUS
<1> HIDE DEF r
<1>7. Keeps(k, r, Fields \ {"unresponse"}) /\ k.unresponse = r.unresponse \ {j}
    BY <1>1 DEF Keeps, Fields
<1> HIDE DEF k
<1>8. /\ Keeps(p, k, Fields \ {"watching_service"})
      /\ p.watching_service = [k.watching_service EXCEPT ![j.from] = IF @ > 0 THEN @ - 1 ELSE 0]
    BY <1>7, ReleasedFields DEF Keeps
<1> HIDE DEF p
<1>9. /\ Keeps(p, r, Fields \ {"session_response", "unresponse", "watching_service",
                              "current_thread", "ref", "inside", "wakeup_queue",
                              "thread_queue"})
      /\ p.thread_queue \in Seq(Co) /\ p.wakeup_queue \in Seq(Co)
      /\ p.request = r.request /\ p.unresponse = r.unresponse \ {j}
      /\ k.watching_service = r.watching_service
    BY <1>1, <1>7, <1>8 DEF Keeps, Fields, Kept, Shape
<1>10. Idles(p, r)
    BY <1>1, <1>2, <1>9, IdlesBut
<1>11. Counts(p)
    <2>1. \E i \in r.unresponse : /\ i.from = j.from /\ p.request = r.request
                                  /\ p.unresponse = r.unresponse \ {i}
        BY <1>6, <1>9
    <2> QED BY <1>1, <1>4, <1>8, <1>9, <2>1, ReleaseCounts
<1> QED BY <1>2, <1>5, <1>10, <1>11, PlainInv DEF r

\* The function of skynet.queue.
LEMMA EnterInv ==
    ASSUME SessionInv, SchedulerInv', NEW s \in Services, Enter(s)
    PROVE  SessionInv'
<1> DEFINE r == st[s]
           n == r.sesid + 1
           c == r.cur
           k == Parked(r, "line", n)
<1>1. /\ Kept(r) /\ Counts(r) /\ DOMAIN r = Fields /\ Mailed
      /\ r.thread_queue \in Seq(Co) /\ r.wakeup_queue \in Seq(Co)
    BY Before DEF Kept, Shape
<1>2. UNCHANGED <<q, timers>> /\ Running(s) /\ r.mode = "run"
    BY DEF Enter, Running
<1>3. \/ Set(s, [r EXCEPT !.current_thread = r.cur, !.ref = @ + 1, !.inside = @ \cup {r.cur}])
      \/ Set(s, [k EXCEPT !.sesid = n, !.thread_queue = Append(@, c)])
    BY DEF Enter
<1>4. CASE Set(s, [r EXCEPT !.current_thread = r.cur, !.ref = @ + 1, !.inside = @ \cup {r.cur}])
    <2> HIDE DEF r
    <2> DEFINE p == [r EXCEPT !.current_thread = r.cur, !.ref = @ + 1, !.inside = @ \cup {r.cur}]
    <2>1. Keeps(p, r, Fields \ {"current_thread", "ref", "inside"})
        BY <1>1 DEF Keeps, Fields
    <2> HIDE DEF p
    <2>2. /\ Keeps(p, r, Fields \ {"session_response", "unresponse", "watching_service",
                                  "current_thread", "ref", "inside", "wakeup_queue",
                                  "thread_queue"})
          /\ p.thread_queue \in Seq(Co) /\ p.wakeup_queue \in Seq(Co)
          /\ p.watching_service = r.watching_service /\ p.request = r.request
          /\ p.unresponse = r.unresponse
        BY <1>1, <2>1 DEF Keeps, Fields
    <2>3. Idles(p, r)
        BY <1>1, <1>2, <2>2, IdlesBut
    <2>4. Kept(p) /\ NoNewPromise(p, r) /\ Counts(p)
        BY <1>1, <2>2, <2>3, IdleKept, SameCounts
    <2> QED BY <1>2, <1>4, <2>4, QuietInv DEF p, r
<1>5. CASE Set(s, [k EXCEPT !.sesid = n, !.thread_queue = Append(@, c)])
    <2>1. ParkedFrom(k, r, "line", n)
        BY <1>1, ParkedFields
    <2>2. c \in Co /\ "line" \in Yielded /\ "line" # "sleep"
        BY <1>1, <1>2 DEF Kept, Shape, Yielded, Sleeping
    <2>3. Mailed' /\ (\A u \in Services : Grows(q[u], q'[u])) /\ timers \subseteq timers'
        BY <1>1, <1>2 DEF Mailed, Grows
    <2> HIDE DEF k, n, c
    <2> DEFINE d == Append(k.thread_queue, c)
               p == [k EXCEPT !.sesid = n, !.thread_queue = d]
    <2>4. /\ DOMAIN k = Fields /\ k.thread_queue = r.thread_queue
          /\ k.watching_session = r.watching_session
        BY <2>1 DEF ParkedFrom, Keeps, Fields
    <2>5. d \in Seq(Co)
        BY <1>1, <2>2, <2>4
    <2> HIDE DEF d
    <2>6. /\ Keeps(p, k, Fields \ {"sesid", "watching_session", "thread_queue"})
          /\ p.sesid = n /\ p.thread_queue = d /\ p.watching_session = r.watching_session
        BY <2>4 DEF Keeps, Fields
    <2>7. Set(s, p)
        BY <1>5 DEF d
    <2> HIDE DEF p
    <2>8. /\ Yields(p, r, "line") /\ p.alive = r.alive
          /\ p.watching_service = r.watching_service /\ p.request = r.request
          /\ p.unresponse = r.unresponse
        BY <1>1, <1>2, <2>2, <2>5, <2>6, ParkedYields DEF k, n
    <2> QED BY <2>2, <2>3, <2>7, <2>8, YieldInv
<1> QED BY <1>3, <1>4, <1>5

\* A critical section is left.
LEMMA LeaveInv ==
    ASSUME SessionInv, SchedulerInv', NEW s \in Services, Leave(s)
    PROVE  SessionInv'
<1> DEFINE r == st[s]
<1>1. /\ Kept(r) /\ Counts(r) /\ DOMAIN r = Fields
      /\ r.thread_queue \in Seq(Co) /\ r.wakeup_queue \in Seq(Co)
      /\ DOMAIN r.sleep_session \subseteq Co
    BY Before DEF Kept, Shape, Sessions
<1>2. UNCHANGED <<q, timers>> /\ r.mode = "run"
    BY DEF Leave, Running
<1>3. Set(s, HandOver(r)) \/ Set(s, [r EXCEPT !.ref = @ - 1])
    BY DEF Leave
<1> HIDE DEF r
<1>4. /\ Keeps(HandOver(r), r, Fields \ {"ref", "inside", "current_thread", "thread_queue",
                                        "wakeup_queue"})
      /\ HandOver(r).thread_queue \in Seq(Co) /\ HandOver(r).wakeup_queue \in Seq(Co)
    BY <1>1, HandOverFields
<1>5. LET p == [r EXCEPT !.ref = @ - 1]
      IN  Keeps(p, r, Fields \ {"ref", "inside", "current_thread", "thread_queue", "wakeup_queue"})
          /\ p.thread_queue \in Seq(Co) /\ p.wakeup_queue \in Seq(Co)
    BY <1>1 DEF Keeps, Fields
<1>6. ASSUME NEW p, Set(s, p), p.thread_queue \in Seq(Co), p.wakeup_queue \in Seq(Co),
             Keeps(p, r, Fields \ {"ref", "inside", "current_thread", "thread_queue",
                                   "wakeup_queue"})
      PROVE  SessionInv'
    <2>1. /\ Keeps(p, r, Fields \ {"session_response", "unresponse", "watching_service",
                                  "current_thread", "ref", "inside", "wakeup_queue",
                                  "thread_queue"})
          /\ p.watching_service = r.watching_service /\ p.request = r.request
          /\ p.unresponse = r.unresponse
        BY <1>6 DEF Keeps, Fields
    <2>2. Idles(p, r)
        BY <1>1, <1>2, <1>6, <2>1, IdlesBut
    <2>3. Kept(p) /\ NoNewPromise(p, r) /\ Counts(p)
        BY <1>1, <2>1, <2>2, IdleKept, SameCounts
    <2> QED BY <1>2, <1>6, <2>3, QuietInv DEF r
<1> QED BY <1>3, <1>4, <1>5, <1>6

\* The next message comes.
LEMMA TickInv ==
    ASSUME SessionInv, SchedulerInv', NEW s \in Services, Tick(s)
    PROVE  SessionInv'
<1> DEFINE r == st[s]
           p == [r EXCEPT !.mode = "wake"]
<1>1. /\ Kept(r) /\ Counts(r) /\ DOMAIN r = Fields
      /\ r.thread_queue \in Seq(Co) /\ r.wakeup_queue \in Seq(Co)
    BY Before DEF Kept, Shape
<1>2. UNCHANGED <<q, timers>> /\ Set(s, p)
    BY DEF Tick
<1> HIDE DEF r
<1>3. /\ Keeps(p, r, Fields \ {"mode"}) /\ p.mode = "wake"
    BY <1>1 DEF Keeps, Fields
<1> HIDE DEF p
<1>4. Idles(p, r)
    BY <1>1, <1>3 DEF Keeps, Fields, Idles, Modes
<1>5. /\ p.watching_service = r.watching_service /\ p.request = r.request
      /\ p.unresponse = r.unresponse
    BY <1>3 DEF Keeps, Fields
<1>6. Kept(p) /\ NoNewPromise(p, r) /\ Counts(p)
    BY <1>1, <1>4, <1>5, IdleKept, SameCounts
<1> QED BY <1>2, <1>6, QuietInv DEF r

\* The running coroutine ends.
LEMMA EndInv ==
    ASSUME SessionInv, SchedulerInv', Mailed', NEW s \in Services, NEW p, Set(s, p),
           NEW v \in {"pool", "dead", "lost"}, Ends(p, st[s], v), Counts(p),
           p.alive => st[s].alive, timers' = timers,
           \A t \in Services : Grows(q[t], q'[t])
    PROVE  SessionInv'
<1>1. Kept(st[s])
    BY Before
<1>2. Kept(p)
    BY <1>1, EndKept
<1>3. /\ st[s].cur \in Co /\ v # "sleep" /\ p.at = [st[s].at EXCEPT ![st[s].cur] = v]
      /\ p.session_id_coroutine = st[s].session_id_coroutine
    BY <1>1 DEF Ends, Kept, Shape
<1>4. NoNewPromise(p, st[s])
    BY <1>1, <1>3, NoPromiseAt
<1>5. timers \subseteq timers'
    OBVIOUS
<1> QED BY <1>2, <1>4, <1>5, MoreInv

\* A second answer.
LEMMA AnswerTwiceInv ==
    ASSUME SessionInv, SchedulerInv', NEW s \in Services, AnswerTwice(s)
    PROVE  SessionInv'
<1> DEFINE r == st[s]
           k == [r EXCEPT !.at[r.cur] = "lost"]
           p == Thrown(k)
<1>1. /\ Kept(r) /\ Counts(r) /\ DOMAIN r = Fields /\ Mailed
      /\ r.thread_queue \in Seq(Co) /\ r.wakeup_queue \in Seq(Co)
    BY Before DEF Kept, Shape
<1>2. UNCHANGED <<q, timers>> /\ Set(s, p) /\ r.mode = "run"
    BY DEF AnswerTwice, Running
<1>3. Mailed' /\ \A u \in Services : Grows(q[u], q'[u])
    BY <1>1, <1>2 DEF Mailed, Grows
<1> HIDE DEF r
<1>4. Keeps(k, r, Fields \ {"at"}) /\ k.at = [r.at EXCEPT ![r.cur] = "lost"]
    BY <1>1 DEF Keeps, Fields
<1> HIDE DEF k
<1>5. Keeps(p, k, Fields \ {"mode", "cur", "depth"}) /\ p.mode = "fork"
    BY <1>4, ThrownFields DEF Keeps
<1> HIDE DEF p
<1>6. Ends(p, r, "lost")
    BY <1>1, <1>2, <1>4, <1>5 DEF Keeps, Fields, Ends
<1>7. /\ p.watching_service = r.watching_service /\ p.request = r.request
      /\ p.unresponse = r.unresponse /\ p.alive = r.alive
    BY <1>4, <1>5 DEF Keeps, Fields
<1>8. Counts(p)
    BY <1>1, <1>7, SameCounts
<1> QED BY <1>2, <1>3, <1>6, <1>7, <1>8, EndInv DEF r

\* The handle is retired.
LEMMA RetireInv ==
    ASSUME SessionInv, SchedulerInv', NEW s \in Services, Retire(s)
    PROVE  SessionInv'
<1> DEFINE r == st[s]
           m == IF r.depth > 0 THEN "err" ELSE "fork"
           p == [r EXCEPT !.alive = FALSE, !.at[r.cur] = "lost", !.cur = Nil, !.mode = m,
                          !.depth = IF @ > 0 THEN @ - 1 ELSE 0]
<1>1. /\ Kept(r) /\ Counts(r) /\ DOMAIN r = Fields /\ Mailed
      /\ r.thread_queue \in Seq(Co) /\ r.wakeup_queue \in Seq(Co)
    BY Before DEF Kept, Shape
<1>2. UNCHANGED <<q, timers>> /\ Set(s, p) /\ r.mode = "exit"
    BY DEF Retire
<1>3. Mailed' /\ \A u \in Services : Grows(q[u], q'[u])
    BY <1>1, <1>2 DEF Mailed, Grows
<1>4. m \in {"wake", "err", "fork"}
    OBVIOUS
<1> HIDE DEF r, m
<1>5. /\ Keeps(p, r, Fields \ {"alive", "at", "cur", "mode", "depth"})
      /\ p.alive = FALSE /\ p.at = [r.at EXCEPT ![r.cur] = "lost"] /\ p.mode = m
    BY <1>1 DEF Keeps, Fields
<1> HIDE DEF p
<1>6. Ends(p, r, "lost")
    BY <1>1, <1>2, <1>4, <1>5 DEF Keeps, Fields, Ends
<1>7. /\ p.watching_service = r.watching_service /\ p.request = r.request
      /\ p.unresponse = r.unresponse
    BY <1>5 DEF Keeps, Fields
<1>8. Counts(p)
    BY <1>1, <1>7, SameCounts
<1> QED BY <1>2, <1>3, <1>5, <1>6, <1>8, EndInv DEF r

\* A coroutine's function returns.
LEMMA ReturnInv ==
    ASSUME SessionInv, SchedulerInv', NEW s \in Services, Return(s)
    PROVE  SessionInv'
<1> DEFINE r == st[s]
           c == r.cur
           a == Append(r.coroutine_pool, c)
           l == IF Mine(s).ses > 0 /\ c \notin r.session_response
                THEN r.mute \cup {Request(Mine(s))} ELSE r.mute
           done == [r EXCEPT !.mode = "wake", !.cur = Nil, !.at[c] = "pool",
                      !.coroutine_pool = a, !.request[c] = None,
                      !.session_response = @ \ {c}, !.mute = l]
<1>1. /\ Kept(r) /\ Counts(r) /\ DOMAIN r = Fields /\ Mailed
      /\ r.thread_queue \in Seq(Co) /\ r.wakeup_queue \in Seq(Co)
    BY Before DEF Kept, Shape
<1>2. UNCHANGED <<q, timers>> /\ r.mode = "run"
    BY DEF Return, Running
<1>3. \/ Mine(s) = None /\ Set(s, done)
      \/ Mine(s) # None /\ Set(s, Released(done, Mine(s).from))
    BY DEF Return
<1>4. Mailed' /\ \A u \in Services : Grows(q[u], q'[u])
    BY <1>1, <1>2 DEF Mailed, Grows
<1>5. c \in Co /\ Mine(s).from \in Who /\ Mine(s) = r.request[c]
    BY <1>2, MineType DEF Mine
<1> HIDE DEF r, a, c, l
<1>6. /\ Keeps(done, r, Fields \ {"mode", "cur", "at", "coroutine_pool", "request",
                                 "session_response", "mute"})
      /\ done.mode = "wake" /\ done.at = [r.at EXCEPT ![c] = "pool"]
      /\ done.coroutine_pool = a /\ done.request = [r.request EXCEPT ![c] = None]
    BY <1>1 DEF Keeps, Fields
<1> HIDE DEF done
<1>7. /\ DOMAIN done = Fields /\ done.sesid = r.sesid /\ done.on = r.on
      /\ done.session_id_coroutine = r.session_id_coroutine
      /\ done.sleep_session = r.sleep_session /\ done.watching_session = r.watching_session
      /\ done.error_queue = r.error_queue /\ done.wakeup_queue = r.wakeup_queue
      /\ done.thread_queue = r.thread_queue /\ done.fork_queue = r.fork_queue
      /\ done.alive = r.alive /\ done.unresponse = r.unresponse
      /\ done.watching_service = r.watching_service
    BY <1>6 DEF Keeps, Fields
<1>8. CASE Mine(s) = None /\ Set(s, done)
    <2>1. Ends(done, r, "pool")
        BY <1>1, <1>2, <1>6, <1>7 DEF Ends, c, a
    <2>2. Counts(done)
        BY <1>1, <1>6, <1>7, DieCounts
    <2> QED BY <1>2, <1>4, <1>7, <1>8, <2>1, <2>2, EndInv DEF r
<1>9. CASE Mine(s) # None /\ Set(s, Released(done, Mine(s).from))
    <2> DEFINE b == Mine(s).from
               p == Released(done, b)
    <2>1. /\ Keeps(p, done, Fields \ {"watching_service"})
          /\ p.watching_service
               = [done.watching_service EXCEPT ![b] = IF @ > 0 THEN @ - 1 ELSE 0]
        BY <1>7, ReleasedFields
    <2> HIDE DEF p
    <2>2. /\ DOMAIN p = Fields /\ p.sesid = done.sesid /\ p.on = done.on /\ p.mode = done.mode
          /\ p.at = done.at /\ p.coroutine_pool = done.coroutine_pool
          /\ p.session_id_coroutine = done.session_id_coroutine
          /\ p.sleep_session = done.sleep_session
          /\ p.watching_session = done.watching_session
          /\ p.error_queue = done.error_queue /\ p.wakeup_queue = done.wakeup_queue
          /\ p.thread_queue = done.thread_queue /\ p.fork_queue = done.fork_queue
          /\ p.alive = done.alive /\ p.unresponse = done.unresponse
          /\ p.request = done.request
        BY <2>1 DEF Keeps, Fields
    <2>3. Ends(p, r, "pool")
        BY <1>1, <1>2, <1>6, <1>7, <2>2 DEF Ends, c, a
    <2>4. Counts(p)
        <3>1. \E d \in Co : /\ r.request[d] # None /\ r.request[d].from = b
                            /\ p.request = [r.request EXCEPT ![d] = None]
                            /\ p.unresponse = r.unresponse
            BY <1>5, <1>6, <1>7, <1>9, <2>2
        <3>2. b \in Who
            BY <1>5
        <3>3. p.watching_service
                = [r.watching_service EXCEPT ![b] = IF @ > 0 THEN @ - 1 ELSE 0]
            BY <1>7, <2>1
        <3> HIDE DEF b
        <3> QED BY <1>1, <3>1, <3>2, <3>3, ReleaseCounts
    <2> QED BY <1>2, <1>4, <1>7, <1>9, <2>2, <2>3, <2>4, EndInv DEF r, p
<1> QED BY <1>3, <1>8, <1>9

\* An error in a coroutine.
LEMMA DiedInv ==
    ASSUME SessionInv, SchedulerInv', NEW s \in Services, st[s].mode = "run", Died(s, st[s])
    PROVE  SessionInv'
<1> DEFINE r == st[s]
           c == r.cur
           open == IF c \in r.inside THEN HandOver(r) ELSE r
           k == [open EXCEPT !.at[c] = "dead", !.request[c] = None]
           p == Thrown(k)
           n == Mine(s).ses
           a == Mine(s).from
<1>1. /\ Kept(r) /\ Counts(r) /\ DOMAIN r = Fields /\ Mailed
      /\ r.thread_queue \in Seq(Co) /\ r.wakeup_queue \in Seq(Co)
      /\ DOMAIN r.sleep_session \subseteq Co
    BY Before DEF Kept, Shape, Sessions
<1>2. timers' = timers /\ Set(s, p) /\ q' = IF n > 0 THEN Post(a, Msg("err", s, n)) ELSE q
    BY DEF Died
<1>3. c \in Co /\ n \in Int
    BY MineType
<1> HIDE DEF n, a
<1>4. Mailed' /\ \A u \in Services : Grows(q[u], q'[u])
    <2>1. CASE n > 0
        BY <1>1, <1>2, <1>3, <2>1, AnswerGrows DEF Answers
    <2>2. CASE ~(n > 0)
        BY <1>1, <1>2, <2>2 DEF Mailed, Grows
    <2> QED BY <2>1, <2>2
<1>5. r.mode = "run"
    OBVIOUS
<1> HIDE DEF r, c
<1>6. /\ Keeps(open, r, Fields \ {"ref", "inside", "current_thread", "thread_queue",
                                 "wakeup_queue"})
      /\ open.thread_queue \in Seq(Co) /\ open.wakeup_queue \in Seq(Co)
    <2>1. /\ Keeps(HandOver(r), r, Fields \ {"ref", "inside", "current_thread",
                                            "thread_queue", "wakeup_queue"})
          /\ HandOver(r).thread_queue \in Seq(Co) /\ HandOver(r).wakeup_queue \in Seq(Co)
        BY <1>1, HandOverFields
    <2>2. Keeps(r, r, Fields \ {"ref", "inside", "current_thread", "thread_queue",
                                "wakeup_queue"})
        BY <1>1 DEF Keeps
    <2> QED BY <1>1, <2>1, <2>2
<1> HIDE DEF open
<1>7. /\ Keeps(k, open, Fields \ {"at", "request"})
      /\ k.at = [open.at EXCEPT ![c] = "dead"] /\ k.request = [open.request EXCEPT ![c] = None]
    BY <1>6 DEF Keeps, Fields
<1> HIDE DEF k
<1>8. Keeps(p, k, Fields \ {"mode", "cur", "depth"}) /\ p.mode = "fork"
    BY <1>7, ThrownFields DEF Keeps
<1> HIDE DEF p
<1>9. /\ DOMAIN p = Fields /\ p.sesid = r.sesid /\ p.on = r.on
      /\ p.at = [r.at EXCEPT ![c] = "dead"] /\ p.coroutine_pool = r.coroutine_pool
      /\ p.session_id_coroutine = r.session_id_coroutine
      /\ p.sleep_session = r.sleep_session /\ p.watching_session = r.watching_session
      /\ p.error_queue = r.error_queue /\ p.wakeup_queue = open.wakeup_queue
      /\ p.thread_queue = open.thread_queue /\ p.fork_queue = r.fork_queue
      /\ p.alive = r.alive /\ p.unresponse = r.unresponse
      /\ p.watching_service = r.watching_service
      /\ p.request = [r.request EXCEPT ![c] = None]
    BY <1>6, <1>7, <1>8 DEF Keeps, Fields
<1>10. Ends(p, r, "dead")
    BY <1>5, <1>6, <1>8, <1>9 DEF Ends, c
<1>11. Counts(p)
    BY <1>1, <1>9, DieCounts
<1> QED BY <1>2, <1>4, <1>9, <1>10, <1>11, EndInv DEF r

-----------------------------------------------------------------------------
(* Exit, the end of the context, and the world outside *)

\* The values of a function on a finite set.
LEMMA FiniteValues ==
    ASSUME NEW D, IsFiniteSet(D), NEW f, DOMAIN f = D
    PROVE  IsFiniteSet({f[x] : x \in D})
<1> DEFINE T == {f[x] : x \in D}
           g == [x \in D |-> f[x]]
<1>1. g \in Surjection(D, T)
    BY DEF Surjection
<1> QED BY <1>1, FS_Surjection

\* Asked and Owed are finite sets of sessions.
LEMMA AskedOwed ==
    ASSUME NEW r, Counts(r), NEW t
    PROVE  /\ IsFiniteSet(Asked(r, t)) /\ Asked(r, t) \subseteq Nat
           /\ IsFiniteSet(Owed(r, t)) /\ Owed(r, t) \subseteq Nat
<1> DEFINE A == {d \in Co : r.request[d].ses > 0 /\ r.request[d].from = t}
           f == [c \in A |-> r.request[c].ses]
           B == {i \in r.unresponse : i.from = t /\ t \notin r.dead_service}
           g == [j \in B |-> j.ses]
<1>1. /\ r.request \in [Co -> [from : Who, ses : Int]] /\ IsFiniteSet(r.unresponse)
      /\ r.unresponse \subseteq Promises
    BY DEF Counts
<1>2. Asked(r, t) = {f[c] : c \in A} /\ Owed(r, t) = {g[j] : j \in B}
    BY DEF Asked, Owed
<1>3. IsFiniteSet(Co)
    BY SchedulerAssumption, FS_Interval DEF Co
<1>4. IsFiniteSet(A) /\ IsFiniteSet(B)
    <2>1. A \subseteq Co /\ B \subseteq r.unresponse
        OBVIOUS
    <2> QED BY <1>1, <1>3, <2>1, FS_Subset
<1>5. Asked(r, t) \subseteq Nat
    BY <1>1 DEF Asked
<1>6. Owed(r, t) \subseteq Nat
    BY <1>1 DEF Owed, Promises
<1>7. DOMAIN f = A /\ DOMAIN g = B
    OBVIOUS
<1> HIDE DEF A, B, f, g
<1>8. IsFiniteSet({f[c] : c \in A}) /\ IsFiniteSet({g[j] : j \in B})
    BY <1>4, <1>7, FiniteValues
<1> QED BY <1>2, <1>5, <1>6, <1>8

\* What skynet.exit reports to a service.
Reported(e, s, t) ==
    /\ e \in Seq(Nat)
    /\ \A n \in Asked(st[s], t) \cup Owed(st[s], t) : \E i \in DOMAIN e : e[i] = n
    /\ t \in Range(st[s].watching_session) => \E i \in DOMAIN e : e[i] = 0

\* What skynet.exit sends to a service is such a list.
LEMMA ReportsListed ==
    ASSUME SessionInv, NEW s \in Services, NEW t \in Services, NEW e \in Reports(s, t)
    PROVE  Reported(e, s, t)
<1> DEFINE r == st[s]
           w == t \in Range(r.watching_session)
           called == IF w THEN <<0>> ELSE <<>>
<1>1. Counts(r)
    BY Before
<1>2. PICK x \in SetToSeqs(Asked(r, t)), y \in SetToSeqs(Owed(r, t)) : e = x \o y \o called
    BY DEF Reports
<1>3. /\ IsFiniteSet(Asked(r, t)) /\ Asked(r, t) \subseteq Nat
      /\ IsFiniteSet(Owed(r, t)) /\ Owed(r, t) \subseteq Nat
    BY <1>1, AskedOwed
<1>4. /\ x \in Seq(Asked(r, t)) /\ \A n \in Asked(r, t) : \E i \in DOMAIN x : x[i] = n
    BY <1>3, ListedAll
<1>5. /\ y \in Seq(Owed(r, t)) /\ \A n \in Owed(r, t) : \E i \in DOMAIN y : y[i] = n
    BY <1>3, ListedAll
<1>6. x \in Seq(Nat) /\ y \in Seq(Nat) /\ called \in Seq(Nat)
    BY <1>3, <1>4, <1>5
<1>7. w => \E i \in DOMAIN called : called[i] = 0
    <2>1. w => called = <<0>>
        OBVIOUS
    <2>2. 1 \in DOMAIN <<0>> /\ <<0>>[1] = 0
        OBVIOUS
    <2> QED BY <2>1, <2>2
<1> DEFINE z == x \o y
<1> HIDE DEF called, w, r
<1>8. z \in Seq(Nat) /\ Joins(z, x, y)
    BY <1>6, Joined
<1> HIDE DEF z
<1>9. e = z \o called
    BY <1>2 DEF z
<1>10. e \in Seq(Nat) /\ Joins(e, z, called)
    BY <1>6, <1>8, <1>9, Joined
<1>11. Grows(x, e) /\ Grows(y, e) /\ Grows(called, e)
    BY <1>8, <1>10 DEF Joins, Grows
<1> QED BY <1>4, <1>5, <1>7, <1>10, <1>11 DEF Reported, Grows, r, w

\* skynet.exit
LEMMA ExitMail ==
    ASSUME SessionInv, NEW s \in Services, Exit(s)
    PROVE  /\ Mailed' /\ \A t \in Services : Grows(q[t], q'[t])
           /\ \A t \in Services : st[t].alive =>
                \E e : /\ Reported(e, s, t)
                       /\ \A i \in DOMAIN e : \E j \in DOMAIN q'[t] : q'[t][j] = Msg("err", s, e[i])
           /\ \A t \in Services : \A j \in DOMAIN q'[t] :
                \/ \E i \in DOMAIN q[t] : q'[t][j] = q[t][i]
                \/ \E n : q'[t][j] = Msg("err", s, n)
<1>1. PICK e : /\ \A t \in Services : e[t] \in Reports(s, t)
               /\ q' = [t \in Services |-> IF st[t].alive
                          THEN q[t] \o [i \in 1..Len(e[t]) |-> Msg("err", s, e[t][i])]
                          ELSE q[t]]
    BY DEF Exit
<1>2. Mailed
    BY Before
<1>3. ASSUME NEW t \in Services, st[t].alive
      PROVE  /\ q'[t] \in Seq(Messages) /\ Grows(q[t], q'[t]) /\ Reported(e[t], s, t)
             /\ \A i \in DOMAIN e[t] : \E j \in DOMAIN q'[t] : q'[t][j] = Msg("err", s, e[t][i])
             /\ \A j \in DOMAIN q'[t] : \/ \E i \in DOMAIN q[t] : q'[t][j] = q[t][i]
                                       \/ \E n : q'[t][j] = Msg("err", s, n)
    <2> DEFINE d == e[t]
               b == q[t]
               g == [i \in 1..Len(d) |-> Msg("err", s, d[i])]
    <2>1. Reported(d, s, t)
        BY <1>1, ReportsListed
    <2>2. d \in Seq(Nat)
        BY <2>1 DEF Reported
    <2>3. q'[t] = b \o g
        BY <1>1, <1>3
    <2>4. b \in Seq(Messages)
        BY <1>2 DEF Mailed
    <2> HIDE DEF d, b
    <2>5. \A n \in Nat : Msg("err", s, n) \in Messages
        BY DEF Msg, Messages, Who
    <2>6. /\ DOMAIN d = 1..Len(d) /\ DOMAIN g = DOMAIN d /\ Len(d) \in Nat
          /\ \A i \in DOMAIN d : g[i] = Msg("err", s, d[i]) /\ d[i] \in Nat
        BY <2>2
    <2>7. g \in Seq(Messages)
        <3>1. g \in [1..Len(d) -> Messages]
            BY <2>5, <2>6
        <3> QED BY <2>6, <3>1
    <2> HIDE DEF g
    <2>8. q'[t] \in Seq(Messages) /\ Joins(q'[t], b, g)
        BY <2>3, <2>4, <2>7, Joined
    <2>9. \A i \in DOMAIN d : \E j \in DOMAIN q'[t] : q'[t][j] = Msg("err", s, d[i])
        BY <2>6, <2>8 DEF Joins, Grows
    <2>10. \A j \in DOMAIN q'[t] : \/ \E i \in DOMAIN b : q'[t][j] = b[i]
                                  \/ \E n : q'[t][j] = Msg("err", s, n)
        BY <2>6, <2>8 DEF Joins
    <2> QED BY <2>1, <2>8, <2>9, <2>10 DEF Joins, b, d
<1>4. ASSUME NEW t \in Services, ~st[t].alive PROVE q'[t] = q[t]
    BY <1>1, <1>4
<1>5. \A t \in Services : q'[t] \in Seq(Messages) /\ Grows(q[t], q'[t])
    <2>1. \A t \in Services : q[t] \in Seq(Messages) /\ Grows(q[t], q[t])
        BY <1>2 DEF Mailed, Grows
    <2> QED BY <1>3, <1>4, <2>1
<1>6. Mailed'
    <2>1. q' = [t \in Services |-> q'[t]]
        BY <1>1
    <2> QED BY <1>5, <2>1 DEF Mailed
<1>7. \A t \in Services : st[t].alive =>
         \E d : /\ Reported(d, s, t)
                /\ \A i \in DOMAIN d : \E j \in DOMAIN q'[t] : q'[t][j] = Msg("err", s, d[i])
    BY <1>3
<1>8. \A t \in Services : \A j \in DOMAIN q'[t] :
         (\E i \in DOMAIN q[t] : q'[t][j] = q[t][i]) \/ (\E n : q'[t][j] = Msg("err", s, n))
    BY <1>3, <1>4
<1> QED BY <1>5, <1>6, <1>7, <1>8

\* skynet.exit: the closures are given up and all who wait are told.
LEMMA ExitInv ==
    ASSUME SessionInv, SchedulerInv', NEW s \in Services, Exit(s)
    PROVE  SessionInv'
<1> DEFINE r == st[s]
           w == [a \in DOMAIN r.watching_service |->
                   r.watching_service[a] - Cardinality({j \in r.unresponse : j.from = a})]
           p == [r EXCEPT !.mode = "exit", !.fork_queue = {}, !.unresponse = {},
                          !.watching_service = w]
<1>1. /\ Kept(r) /\ Counts(r) /\ DOMAIN r = Fields
      /\ r.thread_queue \in Seq(Co) /\ r.wakeup_queue \in Seq(Co)
    BY Before DEF Kept, Shape
<1>2. timers' = timers /\ r.mode = "run" /\ Set(s, p)
    BY DEF Exit, Running
<1>3. Mailed' /\ \A u \in Services : Grows(q[u], q'[u])
    BY ExitMail
<1> HIDE DEF r, w
<1>4. /\ Keeps(p, r, Fields \ {"mode", "fork_queue", "unresponse", "watching_service"})
      /\ p.mode = "exit" /\ p.fork_queue = {} /\ p.unresponse = {} /\ p.watching_service = w
    BY <1>1 DEF Keeps, Fields
<1> HIDE DEF p
<1>5. Idles(p, r)
    BY <1>1, <1>2, <1>4 DEF Keeps, Fields, Idles, Modes
<1>6. p.request = r.request
    BY <1>4 DEF Keeps, Fields
<1>7. Counts(p)
    BY <1>1, <1>4, <1>6, ExitCounts DEF w
<1> QED BY <1>2, <1>3, <1>5, <1>7, PlainInv DEF r

\* A state that has just been made, or that is closed.
Fresh(p) ==
    /\ Keeps(p, Empty, Fields \ {"mode", "alive", "mute"})
    /\ p.mode \in {"idle", "closed"}

\* The tables of a Lua state that is not started.
LEMMA EmptyFields ==
    /\ DOMAIN Empty = Fields /\ Empty.mode = "idle" /\ Empty.sesid = 0 /\ Empty.alive = TRUE
    /\ Empty.at = [c \in Co |-> "pool"] /\ Empty.on = [c \in Co |-> Nil]
    /\ Empty.coroutine_pool = [i \in Co |-> NCo + 1 - i]
    /\ Empty.session_id_coroutine = <<>> /\ Empty.request = [c \in Co |-> None]
    /\ Empty.session_response = {} /\ Empty.unresponse = {} /\ Empty.wakeup_queue = <<>>
    /\ Empty.sleep_session = <<>>
    /\ Empty.watching_service = [a \in Services \cup {Outside} |-> 0]
    /\ Empty.watching_session = <<>> /\ Empty.dead_service = {} /\ Empty.error_queue = <<>>
    /\ Empty.fork_queue = {} /\ Empty.thread_queue = <<>> /\ Empty.mute = {}
BY DEF Empty, Fields

\* Such tables are sound.
LEMMA FreshKept ==
    ASSUME NEW p, Fresh(p)
    PROVE  Kept(p) /\ Poised(p) /\ Counts(p) /\ \A s, tm, b : Due(s, p, tm, b)
<1>1. /\ DOMAIN p = Fields /\ p.mode \in {"idle", "closed"} /\ p.sesid = 0
      /\ p.at = [c \in Co |-> "pool"] /\ p.on = [c \in Co |-> Nil]
      /\ p.coroutine_pool = [i \in Co |-> NCo + 1 - i]
      /\ p.session_id_coroutine = <<>> /\ p.request = [c \in Co |-> None]
      /\ p.unresponse = {} /\ p.wakeup_queue = <<>> /\ p.sleep_session = <<>>
      /\ p.watching_service = [a \in Services \cup {Outside} |-> 0]
      /\ p.watching_session = <<>> /\ p.error_queue = <<>>
      /\ p.fork_queue = {} /\ p.thread_queue = <<>>
    BY EmptyFields DEF Fresh, Keeps, Fields
<1>2. DOMAIN <<>> = {} /\ \A A : <<>> \in [{} -> A] /\ <<>> \in Seq(A)
    OBVIOUS
<1>3. p.coroutine_pool \in Seq(Co) /\ \A i, j \in DOMAIN p.coroutine_pool :
         p.coroutine_pool[i] = p.coroutine_pool[j] => i = j
    BY <1>1, SchedulerAssumption DEF Co
<1>4. Shape(p)
    BY <1>1, <1>2, <1>3 DEF Shape, Modes, States, Nil
<1>5. Roles(p)
    <2>1. \A i \in DOMAIN p.coroutine_pool : p.coroutine_pool[i] \in Co
        BY <1>3
    <2> QED BY <1>1, <1>3, <2>1 DEF Roles
<1>6. Sessions(p)
    BY <1>1, <1>2 DEF Sessions, Yielded, Sleeping
<1>7. Errors(p)
    BY <1>1, <1>2 DEF Errors
<1>8. Poised(p)
    BY <1>1 DEF Poised
<1>9. \A s, tm, b : Due(s, p, tm, b)
    BY <1>1, <1>2 DEF Due
<1>10. Counts(p)
    <2>1. IsFiniteSet({}) /\ Cardinality({}) = 0
        BY FS_EmptySet
    <2>2. None \in [from : Who, ses : Int]
        BY DEF None, Who
    <2>3. p.watching_service \in [Who -> Int] /\ \A x \in Who : p.watching_service[x] = 0
        BY <1>1 DEF Who
    <2>4. p.request \in [Co -> [from : Who, ses : Int]]
        BY <1>1, <2>2
    <2>5. \A x \in Who : Handlers(p, x) = {} /\ Closures(p, x) = {}
        BY <1>1 DEF Handlers, Closures
    <2>6. \A x \in Who : p.watching_service[x] >=
             Cardinality(Handlers(p, x)) + Cardinality(Closures(p, x))
        <3>1. \A x \in Who : /\ Cardinality(Handlers(p, x)) = 0
                             /\ Cardinality(Closures(p, x)) = 0
            BY <2>1, <2>5
        <3> QED BY <2>3, <3>1
    <2>7. IsFiniteSet(p.unresponse) /\ p.unresponse \subseteq Promises
        BY <1>1, <2>1
    <2> QED BY <2>3, <2>4, <2>6, <2>7, CountsBy
<1> QED BY <1>4, <1>5, <1>6, <1>7, <1>8, <1>9, <1>10 DEF Kept

\* The mailbox of a closed context is drained.
LEMMA DropMail ==
    ASSUME Mailed, NEW s \in Services, Drop(s)
    PROVE  /\ Mailed' /\ OthersGrow(s) /\ q'[s] = <<>>
           /\ \A t \in Services \ {s} : \A j \in DOMAIN q'[t] :
                (\E i \in DOMAIN q[t] : q'[t][j] = q[t][i]) \/ q'[t][j] = Msg("err", s, 0)
           /\ \A t \in Services \ {s} : \A k \in DOMAIN q[s] :
                st[t].alive /\ q[s][k].from = t =>
                  \E j \in DOMAIN q'[t] : q'[t][j] = Msg("err", s, 0)
<1> DEFINE K(t) == {k \in DOMAIN q[s] : q[s][k].from = t}
           N(t) == Cardinality(K(t))
           g(t) == [i \in 1..N(t) |-> Msg("err", s, 0)]
<1>1. q' = [t \in Services |-> IF t = s THEN <<>> ELSE IF ~st[t].alive THEN q[t]
                                 ELSE q[t] \o g(t)]
    BY DEF Drop
<1>2. Msg("err", s, 0) \in Messages
    BY DEF Msg, Messages, Who
<1>3. \A t \in Services : q[t] \in Seq(Messages)
    BY DEF Mailed
<1>4. \A t : IsFiniteSet(K(t)) /\ N(t) \in Nat /\ (N(t) = 0 <=> K(t) = {})
    <2>1. Len(q[s]) \in Nat /\ DOMAIN q[s] = 1..Len(q[s])
        BY <1>3
    <2>2. IsFiniteSet(DOMAIN q[s])
        BY <2>1, FS_Interval
    <2>3. \A t : IsFiniteSet(K(t))
        BY <2>2, FS_Subset
    <2> QED BY <2>3, FS_CardinalityType, FS_EmptySet
<1>5. ASSUME NEW t \in Services \ {s}
      PROVE  /\ q'[t] \in Seq(Messages) /\ Grows(q[t], q'[t])
             /\ \A j \in DOMAIN q'[t] :
                  (\E i \in DOMAIN q[t] : q'[t][j] = q[t][i]) \/ q'[t][j] = Msg("err", s, 0)
             /\ \A k \in DOMAIN q[s] : st[t].alive /\ q[s][k].from = t =>
                  \E j \in DOMAIN q'[t] : q'[t][j] = Msg("err", s, 0)
    <2>1. CASE ~st[t].alive
        <3>1. q'[t] = q[t]
            BY <1>1, <2>1
        <3> QED BY <1>3, <2>1, <3>1 DEF Grows
    <2>2. CASE st[t].alive
        <3> DEFINE n == N(t)
                   m == Msg("err", s, 0)
                   b == q[t]
                   h == g(t)
        <3>1. q'[t] = b \o h
            BY <1>1, <2>2
        <3>2. /\ n \in Nat /\ b \in Seq(Messages) /\ h = [i \in 1..n |-> m] /\ m \in Messages
              /\ (n = 0 <=> K(t) = {})
            BY <1>2, <1>3, <1>4
        <3> HIDE DEF n, m, b, h
        <3>3. h \in Seq(Messages) /\ DOMAIN h = 1..n /\ \A i \in DOMAIN h : h[i] = m
            BY <3>2
        <3>4. q'[t] \in Seq(Messages) /\ Joins(q'[t], b, h)
            BY <3>1, <3>2, <3>3, Joined
        <3>5. ASSUME NEW k \in DOMAIN q[s], q[s][k].from = t
              PROVE  \E j \in DOMAIN q'[t] : q'[t][j] = m
            <4>1. n # 0
                BY <3>2, <3>5
            <4>2. 1 \in DOMAIN h
                BY <3>2, <3>3, <4>1
            <4> QED BY <3>3, <3>4, <4>2 DEF Joins, Grows
        <3> QED BY <3>3, <3>4, <3>5 DEF Joins, b, m
    <2> QED BY <2>1, <2>2
<1>6. q'[s] = <<>>
    BY <1>1
<1>7. Mailed'
    <2>1. q' = [t \in Services |-> q'[t]]
        BY <1>1
    <2>2. \A t \in Services : q'[t] \in Seq(Messages)
        <3>1. <<>> \in Seq(Messages)
            OBVIOUS
        <3> QED BY <1>5, <1>6, <3>1
    <2> QED BY <2>1, <2>2 DEF Mailed
<1>8. OthersGrow(s)
    <2>1. \A t \in Services \ {s} : \A n : <<t, n>> \in timers => <<t, n>> \in timers'
        BY DEF Drop
    <2> QED BY <1>5, <2>1 DEF OthersGrow
<1> QED BY <1>5, <1>6, <1>7, <1>8

\* The mailbox of a dead service is drained.
LEMMA DropInv ==
    ASSUME SessionInv, SchedulerInv', NEW s \in Services, Drop(s)
    PROVE  SessionInv'
<1> DEFINE p == [Empty EXCEPT !.alive = FALSE, !.mode = "closed", !.mute = st[s].mute]
<1>1. st' = [st EXCEPT ![s] = p] /\ st = [t \in Services |-> st[t]]
    BY DEF Drop, SessionInv, SchedulerInv
<1>2. Mailed' /\ OthersGrow(s)
    BY DropMail DEF SessionInv
<1>3. Fresh(p)
    BY EmptyFields DEF Fresh, Keeps, Fields
<1>4. Kept(p) /\ Poised(p) /\ Counts(p) /\ Due(s, p, timers', q'[s])
    BY <1>3, FreshKept
<1> HIDE DEF p
<1>5. st'[s] = p /\ \A t \in Services : t # s => st'[t] = st[t]
    BY <1>1
<1> SUFFICES ASSUME NEW t \in Services
             PROVE  Kept(st'[t]) /\ Poised(st'[t]) /\ Counts(st'[t])
                    /\ Due(t, st'[t], timers', q'[t])
    BY <1>2 DEF SessionInv
<1>6. CASE t = s
    BY <1>4, <1>5, <1>6
<1>7. CASE t # s
    <2>1. st'[t] = st[t]
        BY <1>5, <1>7
    <2>2. Kept(st[t]) /\ Poised(st[t]) /\ Counts(st[t]) /\ Due(t, st[t], timers, q[t])
        BY DEF SessionInv
    <2>3. Due(t, st[t], timers', q'[t])
        BY <1>2, <1>7, <2>2, DueGrows DEF OthersGrow
    <2> QED BY <2>1, <2>2, <2>3
<1> QED BY <1>6, <1>7

\* A service is killed: its tables stay, its timers are nobody's.
LEMMA KillInv ==
    ASSUME SessionInv, SchedulerInv', NEW s \in Services, Kill(s)
    PROVE  SessionInv'
<1> DEFINE r == st[s]
           l == r.mute \cup {Request(j) : j \in Unanswered(r)}
           p == [r EXCEPT !.alive = FALSE, !.mute = l]
<1>1. /\ st' = [st EXCEPT ![s] = p] /\ UNCHANGED <<q, timers>>
      /\ st = [t \in Services |-> st[t]]
    BY DEF Kill, SessionInv, SchedulerInv
<1>2. Kept(r) /\ Poised(r) /\ Counts(r)
    BY DEF SessionInv
<1>3. /\ DOMAIN r = Fields /\ r.mode \in Modes
      /\ r.thread_queue \in Seq(Co) /\ r.wakeup_queue \in Seq(Co)
    BY <1>2 DEF Kept, Shape
<1> HIDE DEF r, l
<1>4. Keeps(p, r, Fields \ {"alive", "mute"}) /\ p.alive = FALSE
    BY <1>3 DEF Keeps, Fields
<1> HIDE DEF p
<1>5. Kept(p)
    <2>1. /\ DOMAIN p = Fields /\ p.mode = r.mode /\ p.cur = r.cur /\ p.sesid = r.sesid
          /\ p.at = r.at /\ p.on = r.on /\ p.coroutine_pool = r.coroutine_pool
          /\ p.session_id_coroutine = r.session_id_coroutine
          /\ p.sleep_session = r.sleep_session /\ p.watching_session = r.watching_session
          /\ p.error_queue = r.error_queue /\ p.wakeup_queue = r.wakeup_queue
          /\ p.thread_queue = r.thread_queue /\ p.fork_queue = r.fork_queue
        BY <1>4 DEF Keeps, Fields
    <2> QED BY <1>2, <1>3, <2>1, SameKept
<1>6. Poised(p)
    BY <1>2, <1>4 DEF Poised, Keeps, Fields
<1>7. Counts(p)
    <2>1. /\ p.watching_service = r.watching_service /\ p.request = r.request
          /\ p.unresponse = r.unresponse
        BY <1>4 DEF Keeps, Fields
    <2> QED BY <1>2, <2>1, SameCounts
<1>8. Due(s, p, timers', q'[s])
    BY <1>4 DEF Due
<1>9. st'[s] = p /\ \A t \in Services : t # s => st'[t] = st[t]
    BY <1>1
<1>10. Mailed'
    BY <1>1 DEF SessionInv, Mailed
<1> SUFFICES ASSUME NEW t \in Services
             PROVE  Kept(st'[t]) /\ Poised(st'[t]) /\ Counts(st'[t])
                    /\ Due(t, st'[t], timers', q'[t])
    BY <1>10 DEF SessionInv
<1>11. CASE t = s
    BY <1>5, <1>6, <1>7, <1>8, <1>9, <1>11
<1>12. CASE t # s
    BY <1>1, <1>9, <1>12 DEF SessionInv
<1> QED BY <1>11, <1>12

\* A message nobody waits for, and a timer that fires.
LEMMA ArriveInv ==
    ASSUME SessionInv, SchedulerInv', UNCHANGED st, Mailed',
           \A t \in Services : Grows(q[t], q'[t]),
           \A t \in Services : \A n : <<t, n>> \in timers /\ st[t].alive =>
             \/ <<t, n>> \in timers'
             \/ \E i \in DOMAIN q'[t] : q'[t][i] = Msg("resp", Outside, n)
    PROVE  SessionInv'
<1> SUFFICES ASSUME NEW t \in Services
             PROVE  Kept(st[t]) /\ Poised(st[t]) /\ Counts(st[t])
                    /\ Due(t, st[t], timers', q'[t])
    BY DEF SessionInv
<1>1. Kept(st[t]) /\ Poised(st[t]) /\ Counts(st[t]) /\ Due(t, st[t], timers, q[t])
    BY DEF SessionInv
<1>2. Due(t, st[t], timers', q'[t])
    <2> SUFFICES ASSUME st[t].alive, NEW n \in DOMAIN st[t].session_id_coroutine,
                        Awaits(st[t], n)
                 PROVE  \/ <<t, n>> \in timers'
                        \/ \E i \in DOMAIN q'[t] : q'[t][i] = Msg("resp", Outside, n)
        BY DEF Due, Awaits
    <2>1. \/ <<t, n>> \in timers
          \/ \E i \in DOMAIN q[t] : q[t][i] = Msg("resp", Outside, n)
        BY <1>1 DEF Due, Awaits
    <2> QED BY <2>1 DEF Grows
<1> QED BY <1>1, <1>2

\* A request from outside arrives.
LEMMA JobInv ==
    ASSUME SessionInv, SchedulerInv', NEW s \in Services, Job(s)
    PROVE  SessionInv'
<1>1. /\ UNCHANGED <<st, timers>> /\ q' = Post(s, Msg("req", Outside, 0))
    BY DEF Job
<1>2. Msg("req", Outside, 0) \in Messages
    BY DEF Msg, Messages, Who
<1>3. Mailed' /\ \A t \in Services : Grows(q[t], q'[t])
    BY <1>1, <1>2, PostGrows DEF SessionInv
<1> QED BY <1>1, <1>3, ArriveInv

\* The timers are those of sessions of services.
Timed == timers \subseteq Services \X Nat

\* A timer fires: its answer is in the mailbox.
LEMMA FireInv ==
    ASSUME SessionInv, Timed, SchedulerInv', NEW x \in timers, Fire(x[1], x[2])
    PROVE  SessionInv'
<1> DEFINE s == x[1]
           k == x[2]
           m == Msg("resp", Outside, k)
<1>1. /\ UNCHANGED st /\ q' = Post(s, m) /\ timers' = timers \ {<<s, k>>}
    BY DEF Fire
<1>2. s \in Services /\ k \in Nat
    BY DEF Timed
<1> HIDE DEF s, k
<1>3. m \in Messages
    BY <1>2 DEF Msg, Messages, Who
<1>4. /\ Mailed' /\ (\A t \in Services : Grows(q[t], q'[t]))
      /\ (st[s].alive => \E i \in DOMAIN q'[s] : q'[s][i] = m)
    BY <1>1, <1>2, <1>3, PostGrows DEF SessionInv
<1>5. ASSUME NEW t \in Services, NEW n, <<t, n>> \in timers, st[t].alive
      PROVE  \/ <<t, n>> \in timers'
             \/ \E i \in DOMAIN q'[t] : q'[t][i] = Msg("resp", Outside, n)
    BY <1>1, <1>4, <1>5
<1> QED BY <1>1, <1>4, <1>5, ArriveInv

\* Where timers come from.
LEMMA TimedNext ==
    ASSUME SessionInv, Timed, [Next]_vars PROVE Timed'
<1>1. CASE timers' \subseteq timers
    BY <1>1 DEF Timed
<1>2. ASSUME NEW s \in Services, Dispatch(s) PROVE timers' = timers
    BY <1>2 DEF Dispatch, Take, DispatchWakeup, DispatchError, RunForks
<1>3. ASSUME NEW s \in Services, Sleep(s) \/ Timeout(s) PROVE Timed'
    <2>1. timers' = timers \cup {<<s, st[s].sesid + 1>>}
        BY <1>3 DEF Sleep, Timeout
    <2>2. st[s].sesid + 1 \in Nat
        BY Before DEF Kept, Shape
    <2> QED BY <2>1, <2>2 DEF Timed
<1>4. ASSUME NEW s \in Services, Code(s), ~Sleep(s), ~Timeout(s) PROVE timers' = timers
    BY <1>4 DEF Code, Call, Wait, Fork, Wakeup, AnswerTwice, Ret, Defer, Respond, Enter,
                Leave, Return, Raise, FailAssert, Died, Exit, Retire
<1>5. ASSUME NEW s \in Services, Drop(s) PROVE timers' \subseteq timers
    BY <1>5 DEF Drop
<1>6. ASSUME NEW s \in Services, Kill(s) \/ Job(s) \/ Tick(s) PROVE timers' = timers
    BY <1>6 DEF Kill, Job, Tick
<1>7. ASSUME NEW x \in timers, Fire(x[1], x[2]) PROVE timers' \subseteq timers
    BY <1>7 DEF Fire
<1>8. UNCHANGED vars => timers' = timers
    BY DEF vars
<1> QED BY <1>1, <1>2, <1>3, <1>4, <1>5, <1>6, <1>7, <1>8 DEF Next

\* The invariant of the sessions holds at first.
LEMMA SessionInit == Init => SessionInv /\ Timed
<1> SUFFICES ASSUME Init PROVE SessionInv /\ Timed
    OBVIOUS
<1>1. SchedulerInv
    BY InvInit
<1>2. Mailed
    BY DEF Init, Mailed
<1>3. Fresh(Empty)
    BY EmptyFields DEF Fresh, Keeps
<1>4. \A s \in Services : st[s] = Empty
    BY DEF Init
<1>5. Timed
    BY DEF Init, Timed
<1>6. Kept(Empty) /\ Poised(Empty) /\ Counts(Empty) /\ \A s, tm, b : Due(s, Empty, tm, b)
    BY <1>3, FreshKept
<1> QED BY <1>1, <1>2, <1>4, <1>5, <1>6 DEF SessionInv

\* Every step keeps it.
LEMMA SessionNext ==
    ASSUME SessionInv, Timed, [Next]_vars PROVE SessionInv'
<1>1. SchedulerInv'
    BY InvNext DEF SessionInv
<1>2. CASE UNCHANGED vars
    BY <1>1, <1>2 DEF vars, SessionInv, Mailed
<1>3. ASSUME NEW s \in Services, Dispatch(s) PROVE SessionInv'
    <2>1. CASE Take(s)
        <3>1. TakeHead(s)
            BY <2>1 DEF Take, TakeHead
        <3> QED BY <1>1, <2>1, <3>1, TakeResponseInv, TakeRequestInv, TakeErrorInv DEF Take
    <2> QED BY <1>1, <1>3, <2>1, DispatchWakeupInv, DispatchErrorInv, RunForksInv DEF Dispatch
<1>4. ASSUME NEW s \in Services, Code(s) PROVE SessionInv'
    <2>1. CASE Raise(s) \/ FailAssert(s)
        <3>1. st[s].mode = "run" /\ Died(s, st[s])
            BY <2>1 DEF Raise, FailAssert, Running
        <3> QED BY <1>1, <3>1, DiedInv
    <2> QED BY <1>1, <1>4, <2>1, ParkInv, CreateInv, WakeupInv, AnswerTwiceInv, RetInv, DeferInv,
               RespondInv, EnterInv, LeaveInv, ReturnInv, ExitInv, RetireInv DEF Code
<1> QED BY <1>1, <1>2, <1>3, <1>4, DropInv, KillInv, JobInv, TickInv, FireInv DEF Next

\* The types, from the invariant.
LEMMA SessionTypes ==
    ASSUME SessionInv PROVE TypeOK
<1>1. DOMAIN st = Services /\ DOMAIN q = Services
    BY DEF SessionInv, SchedulerInv, Mailed
<1>2. ASSUME NEW s \in Services
      PROVE  LET r == st[s] IN
             /\ r.mode \in {"idle", "run", "wake", "err", "fork", "exit", "closed"}
             /\ r.mode = "run" => r.cur \in Co
             /\ r.on \in [Co -> Nat]
             /\ r.session_id_coroutine \in [DOMAIN r.session_id_coroutine -> Co \cup {BREAK}]
             /\ Range(r.wakeup_queue) \cup Range(r.thread_queue) \cup Range(r.coroutine_pool)
                  \subseteq Co
             /\ r.ref \in Nat
    <2> DEFINE r == st[s]
    <2>1. Kept(r) /\ Sound(r)
        BY DEF SessionInv, SchedulerInv
    <2> HIDE DEF r
    <2>2. \A a \in Seq(Co) : Range(a) \subseteq Co
        BY DEF Range
    <2>3. Range(r.wakeup_queue) \cup Range(r.thread_queue) \cup Range(r.coroutine_pool) \subseteq Co
        BY <2>1, <2>2 DEF Kept, Shape
    <2>4. r.ref \in Nat
        BY <2>1 DEF Sound, Section
    <2> QED BY <2>1, <2>3, <2>4 DEF Kept, Shape, Modes, r
<1> QED BY <1>1, <1>2 DEF TypeOK

\* What it says of sessions and coroutines.
LEMMA SessionsFollow ==
    ASSUME SessionInv PROVE SessionsSound
<1>1. TypeOK
    BY SessionTypes
<1>2. ASSUME NEW s \in Services
      PROVE  LET r == st[s] IN
      /\ WatchCounts(r)
      /\ \A c \in Co :
           /\ r.at[c] \in Sleeping \cup {"call"} =>
                r.on[c] \in DOMAIN r.session_id_coroutine
                /\ r.session_id_coroutine[r.on[c]] = c
           /\ c \in DOMAIN r.sleep_session <=> r.at[c] \in Sleeping
           /\ c \in DOMAIN r.sleep_session => r.sleep_session[c] = r.on[c]
      /\ \A n \in DOMAIN r.session_id_coroutine :
           LET c == r.session_id_coroutine[n]
           IN  IF c = BREAK
               THEN r.alive => <<s, n>> \in timers \/ Msg("resp", Outside, n) \in Range(q[s])
               ELSE r.on[c] = n /\ r.at[c] \in Sleeping \cup {"call", "ready"}
      /\ \A n \in DOMAIN r.watching_session :
           \E c \in Co : r.at[c] = "call" /\ r.on[c] = n
    <2> DEFINE r == st[s]
    <2>1. Kept(r) /\ Counts(r) /\ Due(s, r, timers, q[s])
        BY Before
    <2> HIDE DEF r
    <2>2. WatchCounts(r)
        BY <2>1 DEF Counts
    <2>3. \A c \in Co :
            /\ r.at[c] \in Sleeping \cup {"call"} =>
                 r.on[c] \in DOMAIN r.session_id_coroutine
                 /\ r.session_id_coroutine[r.on[c]] = c
            /\ c \in DOMAIN r.sleep_session <=> r.at[c] \in Sleeping
            /\ c \in DOMAIN r.sleep_session => r.sleep_session[c] = r.on[c]
        BY <2>1 DEF Kept, Sessions, Yielded
    <2>4. ASSUME NEW n \in DOMAIN r.session_id_coroutine
          PROVE  LET c == r.session_id_coroutine[n]
                 IN  IF c = BREAK
                     THEN r.alive => <<s, n>> \in timers \/ Msg("resp", Outside, n) \in Range(q[s])
                     ELSE r.on[c] = n /\ r.at[c] \in Sleeping \cup {"call", "ready"}
        <3>1. CASE r.session_id_coroutine[n] = BREAK
            BY <2>1, <3>1 DEF Due, Range
        <3>2. CASE r.session_id_coroutine[n] # BREAK
            BY <2>1, <3>2 DEF Kept, Sessions, Yielded
        <3> QED BY <3>1, <3>2
    <2>5. \A n \in DOMAIN r.watching_session : \E c \in Co : r.at[c] = "call" /\ r.on[c] = n
        BY <2>1 DEF Kept, Sessions
    <2> QED BY <2>2, <2>3, <2>4, <2>5 DEF r
<1> QED BY <1>1, <1>2 DEF SessionsSound

\* Sessions and coroutines agree (SessionsSound): whatever services call, sleep,
\* wake and fork, and whoever fails or exits, the tables session_id_coroutine,
\* sleep_session and watching_session of skynet.lua name the coroutine that
\* waits, and watching_service never runs short.
THEOREM SessionsAgree == Spec => []SessionsSound
<1>1. Init => SessionInv /\ Timed
    BY SessionInit
<1>2. SessionInv /\ Timed /\ [Next]_vars => (SessionInv /\ Timed)'
    BY SessionNext, TimedNext
<1>3. SessionInv => SessionsSound
    BY SessionsFollow
<1> QED BY <1>1, <1>2, <1>3, PTL DEF Spec

-----------------------------------------------------------------------------
(* No call is forgotten.  A step of service u, which makes its record p, is *)
(* honest if it loses no answer.                                            *)

\* What r owes to session n of s.
Owes(r, s, n) ==
    \/ [from |-> s, ses |-> n] \in r.unresponse
    \/ \E c \in Co : r.request[c] = [from |-> s, ses |-> n] /\ c \notin r.session_response

\* A session is in the error queue.
Failing(r, n) == \E i \in DOMAIN r.error_queue : r.error_queue[i] = n

\* The message x was taken, and what it says is now in p.
Served(p, x) ==
    /\ \A n \in DOMAIN p.watching_session :
         LET t == p.watching_session[n]
         IN  x \in {Msg("resp", t, n), Msg("err", t, n), Msg("err", t, 0)} => Failing(p, n)
    /\ \A s \in Services, n \in Nat :
         x = Msg("req", s, n) => x \in p.mute \/ (~Over(p) /\ Owes(p, s, n))

\* A call that p waits for was waited for before, and has not lost an error,
\* or its request was just sent.
Watchful(u, p) ==
    \A n \in DOMAIN p.watching_session :
      LET t == p.watching_session[n]
      IN  \/ /\ n \in DOMAIN st[u].watching_session /\ st[u].watching_session[n] = t
             /\ Failing(st[u], n) => Failing(p, n)
          \/ \E i \in DOMAIN q'[t] : q'[t][i] = Msg("req", u, n)

\* A message that was in a mailbox is in it, or was taken by u.
OldMail(u, p) ==
    \A t \in Services : \A i \in DOMAIN q[t] :
      (\E j \in DOMAIN q'[t] : q'[t][j] = q[t][i]) \/ (t = u /\ Served(p, q[t][i]))

\* A new report of an end is of u, which has ended.
NewMail(u, p) ==
    \A t, x \in Services : \A j \in DOMAIN q'[t] :
      q'[t][j] = Msg("err", x, 0) =>
        (\E i \in DOMAIN q[t] : q[t][i] = q'[t][j]) \/ (x = u /\ Over(p))

\* An answer that u owed it still owes, or has just sent, or will not send.
Answering(u, p) ==
    \A s \in Services, n \in Nat \ {0} : ~Gone(s) /\ ~Gone(u) /\ Owes(st[u], s, n) =>
      \/ ~Over(p) /\ Owes(p, s, n)
      \/ \E j \in DOMAIN q'[s] : q'[s][j] \in {Msg("resp", u, n), Msg("err", u, n)}
      \/ Msg("req", s, n) \in p.mute

\* The step of u to p forgets nothing.
Honest(u, p) ==
    /\ DOMAIN p = Fields /\ p.mode \in Modes
    /\ Debts(p) /\ (Gone(u) => Over(p))
    /\ \A t \in Services : t \in p.dead_service => t \in st[u].dead_service \/ Gone(t)
    /\ st[u].mute \subseteq p.mute
    /\ Watchful(u, p) /\ OldMail(u, p) /\ NewMail(u, p) /\ Answering(u, p)

\* Honest steps forget no call, whatever phases of dispatch_message follow.
LEMMA HonestChange ==
    ASSUME CallInv, SessionInv', NEW u \in Services, NEW p, NEW k, Honest(u, p),
           st' = [st EXCEPT ![u] = k], Keeps(k, p, Fields \ {"mode", "depth"}),
           k.mode \in {"run", "exit"} <=> p.mode \in {"run", "exit"},
           p.mode \in {"run", "exit"} => k.mode = p.mode
    PROVE  CallInv'
<1>1. st'[u] = k /\ \A t \in Services : t # u => st'[t] = st[t]
    BY DEF CallInv, SessionInv, SchedulerInv
<1>2. /\ Keeps(k, p, Fields \ {"mode", "depth"})
      /\ k.mode \in {"run", "exit"} <=> p.mode \in {"run", "exit"}
      /\ p.mode \in {"run", "exit"} => k.mode = p.mode
    OBVIOUS
<1>3. /\ k.alive = p.alive /\ k.watching_session = p.watching_session
      /\ k.session_response = p.session_response /\ k.at = p.at
      /\ k.request = p.request /\ k.unresponse = p.unresponse
      /\ k.dead_service = p.dead_service /\ k.error_queue = p.error_queue
      /\ k.mute = p.mute
    BY <1>2 DEF Keeps, Fields
<1>4. Over(st'[u]) <=> Over(p)
    BY <1>1, <1>2, <1>3 DEF Over
<1>5. \A t \in Services : t # u => (Over(st'[t]) <=> Gone(t))
    BY <1>1 DEF Gone
<1>6. \A t \in Services : Gone(t) => Over(st'[t])
    BY <1>4, <1>5 DEF Honest
<1>7. \A s \in Services : Debts(st'[s])
    <2>1. Debts(k)
        BY <1>3 DEF Honest, Debts
    <2> QED BY <1>1, <2>1 DEF CallInv
<1>8. DeadGone'
    <2> SUFFICES ASSUME NEW s \in Services, NEW t \in Services
                 PROVE  /\ t \in st'[s].dead_service => Over(st'[t])
                        /\ \A i \in DOMAIN q'[s] : q'[s][i] = Msg("err", t, 0) => Over(st'[t])
        BY DEF DeadGone, Gone
    <2>1. /\ t \in st[s].dead_service => Gone(t)
          /\ \A i \in DOMAIN q[s] : q[s][i] = Msg("err", t, 0) => Gone(t)
        BY DEF CallInv, DeadGone
    <2>2. t \in st'[s].dead_service => Over(st'[t])
        BY <1>1, <1>3, <1>6, <2>1 DEF Honest
    <2>3. \A i \in DOMAIN q'[s] : q'[s][i] = Msg("err", t, 0) => Over(st'[t])
        BY <1>4, <1>6, <2>1 DEF Honest, NewMail
    <2> QED BY <2>2, <2>3
<1>9. ASSUME NEW s \in Services, ~Over(st'[s]), NEW n \in DOMAIN st'[s].watching_session
      PROVE  (OnItsWay(s, st[s].watching_session[n], n))'
    <2> DEFINE t == st'[s].watching_session[n]
    <2>1. ~Gone(s)
        BY <1>6, <1>9
    <2>2. t \in Services
        BY <1>7 DEF Debts
    <2> HIDE DEF t
    <2> SUFFICES
            \/ \E i \in DOMAIN st'[s].error_queue : st'[s].error_queue[i] = n
            \/ \E i \in DOMAIN q'[s] :
                 q'[s][i] \in {Msg("resp", t, n), Msg("err", t, n), Msg("err", t, 0)}
            \/ \E i \in DOMAIN q'[t] : q'[t][i] = Msg("req", s, n)
            \/ Msg("req", s, n) \in st'[t].mute
            \/ ~Over(st'[t]) /\ Owes(st'[t], s, n)
        BY DEF OnItsWay, Owes, t, Gone
    <2>3. \/ \E i \in DOMAIN q'[t] : q'[t][i] = Msg("req", s, n)
          \/ /\ n \in DOMAIN st[s].watching_session /\ st[s].watching_session[n] = t
             /\ Failing(st[s], n) => Failing(st'[s], n)
        <3>1. CASE s = u
            BY <1>1, <1>3, <3>1 DEF Honest, Watchful, t, Failing
        <3>2. CASE s # u
            BY <1>1, <1>9, <3>2 DEF t
        <3> QED BY <3>1, <3>2
    <2>4. CASE /\ n \in DOMAIN st[s].watching_session /\ st[s].watching_session[n] = t
               /\ Failing(st[s], n) => Failing(st'[s], n)
        <3>1. n \in Nat \ {0}
            <4>1. Kept(st[s])
                BY Before DEF CallInv
            <4> QED BY <2>4, <4>1 DEF Kept, Shape
        <3>2. \/ \E i \in DOMAIN st[s].error_queue : st[s].error_queue[i] = n
              \/ \E i \in DOMAIN q[s] :
                   q[s][i] \in {Msg("resp", t, n), Msg("err", t, n), Msg("err", t, 0)}
              \/ \E i \in DOMAIN q[t] : q[t][i] = Msg("req", s, n)
              \/ Msg("req", s, n) \in st[t].mute
              \/ ~Gone(t) /\ Owes(st[t], s, n)
            BY <2>1, <2>4 DEF CallInv, OnItsWay, Owes
        <3>3. CASE \E i \in DOMAIN st[s].error_queue : st[s].error_queue[i] = n
            BY <2>4, <3>3 DEF Failing
        <3>4. CASE \E i \in DOMAIN q[s] :
                     q[s][i] \in {Msg("resp", t, n), Msg("err", t, n), Msg("err", t, 0)}
            <4>1. PICK i \in DOMAIN q[s] :
                     q[s][i] \in {Msg("resp", t, n), Msg("err", t, n), Msg("err", t, 0)}
                BY <3>4
            <4>2. CASE \E j \in DOMAIN q'[s] : q'[s][j] = q[s][i]
                BY <4>1, <4>2
            <4>3. CASE s = u /\ Served(p, q[s][i])
                <5>1. n \in DOMAIN p.watching_session /\ p.watching_session[n] = t
                    BY <1>1, <1>3, <1>9, <4>3 DEF t
                <5>2. Failing(p, n)
                    BY <4>1, <4>3, <5>1 DEF Served
                <5> QED BY <1>1, <1>3, <4>3, <5>2 DEF Failing
            <4> QED BY <4>2, <4>3 DEF Honest, OldMail
        <3>5. CASE \E i \in DOMAIN q[t] : q[t][i] = Msg("req", s, n)
            <4>1. PICK i \in DOMAIN q[t] : q[t][i] = Msg("req", s, n)
                BY <3>5
            <4>2. CASE \E j \in DOMAIN q'[t] : q'[t][j] = q[t][i]
                BY <4>1, <4>2
            <4>3. CASE t = u /\ Served(p, q[t][i])
                <5>1. Msg("req", s, n) \in p.mute \/ (~Over(p) /\ Owes(p, s, n))
                    BY <3>1, <4>1, <4>3 DEF Served
                <5>2. Owes(p, s, n) => Owes(st'[t], s, n)
                    BY <1>1, <1>3, <4>3 DEF Owes
                <5> QED BY <1>1, <1>3, <1>4, <4>3, <5>1, <5>2
            <4> QED BY <2>2, <4>2, <4>3 DEF Honest, OldMail
        <3>6. CASE Msg("req", s, n) \in st[t].mute
            BY <1>1, <1>3, <2>2, <3>6 DEF Honest
        <3>7. CASE ~Gone(t) /\ Owes(st[t], s, n)
            <4>1. CASE t # u
                BY <1>1, <1>5, <2>2, <3>7, <4>1
            <4>2. CASE t = u
                <5>1. \/ ~Over(p) /\ Owes(p, s, n)
                      \/ \E j \in DOMAIN q'[s] : q'[s][j] \in {Msg("resp", u, n), Msg("err", u, n)}
                      \/ Msg("req", s, n) \in p.mute
                    BY <2>1, <3>1, <3>7, <4>2 DEF Honest, Answering
                <5>2. Owes(p, s, n) => Owes(st'[t], s, n)
                    BY <1>1, <1>3, <4>2 DEF Owes
                <5> QED BY <1>1, <1>3, <1>4, <4>2, <5>1, <5>2
            <4> QED BY <4>1, <4>2
        <3> QED BY <3>2, <3>3, <3>4, <3>5, <3>6, <3>7
    <2> QED BY <2>3, <2>4
<1> QED BY <1>7, <1>8, <1>9 DEF CallInv, Gone

\* A step that is honest before the empty phases are skipped is honest.
LEMMA HonestStep ==
    ASSUME CallInv, SessionInv', NEW u \in Services, NEW p, Set(u, p), Honest(u, p)
    PROVE  CallInv'
<1> DEFINE k == Settled(p)
<1>1. st' = [st EXCEPT ![u] = k]
    BY DEF Set
<1>2. /\ Keeps(k, p, Fields \ {"mode", "depth"})
      /\ k.mode \in {"run", "exit"} <=> p.mode \in {"run", "exit"}
      /\ p.mode \in {"run", "exit"} => k.mode = p.mode
    BY SettledFields DEF Honest
<1> HIDE DEF k
<1> QED BY <1>1, <1>2, HonestChange

\* A step that answers nobody.
DebtFields == {"alive", "request", "session_response", "unresponse", "dead_service", "mute"}

\* A step of u that touches no debts, no end and frees no coroutine.
Calm(u, p) ==
    /\ Keeps(p, st[u], DebtFields) /\ p.mode \in Modes
    /\ p.mode = "exit" <=> st[u].mode = "exit"
    /\ \A c \in Co : p.at[c] = "pool" => st[u].at[c] = "pool"

\* Such a step forgets nothing.
LEMMA CalmHonest ==
    ASSUME CallInv, NEW u \in Services, NEW p, Calm(u, p),
           p.watching_session \in [DOMAIN p.watching_session -> Services],
           Watchful(u, p), OldMail(u, p), NewMail(u, p)
    PROVE  Honest(u, p)
<1> DEFINE r == st[u]
<1>1. Debts(r)
    BY DEF CallInv
<1>2. /\ p.alive = r.alive /\ p.request = r.request /\ p.unresponse = r.unresponse
      /\ p.session_response = r.session_response /\ p.dead_service = r.dead_service
      /\ p.mute = r.mute /\ DOMAIN p = Fields
    BY DEF Calm, Keeps, DebtFields
<1>3. Debts(p)
    BY <1>1, <1>2 DEF Debts, Calm
<1>4. Over(p) <=> Over(r)
    BY <1>2 DEF Over, Calm
<1>5. Answering(u, p)
    BY <1>2, <1>4 DEF Answering, Owes, Gone
<1> QED BY <1>2, <1>3, <1>4, <1>5 DEF Honest, Calm, Gone

\* Calls that end are no longer watched.
LEMMA Watched ==
    ASSUME CallInv, NEW u \in Services, NEW p,
           \/ p.watching_session = st[u].watching_session
           \/ \E n : p.watching_session = Without(st[u].watching_session, n),
           \A n \in DOMAIN p.watching_session : Failing(st[u], n) => Failing(p, n)
    PROVE  Watchful(u, p) /\ p.watching_session \in [DOMAIN p.watching_session -> Services]
<1> DEFINE w == st[u].watching_session
           x == p.watching_session
<1>1. w \in [DOMAIN w -> Services]
    BY DEF CallInv, Debts
<1>2. /\ DOMAIN x \subseteq DOMAIN w /\ \A n \in DOMAIN x : x[n] = w[n]
      /\ x \in [DOMAIN x -> Services]
    BY <1>1 DEF Without
<1> QED BY <1>2 DEF Watchful

\* The mailboxes stay as they are.
LEMMA SameMail ==
    ASSUME NEW u, NEW p, q' = q PROVE OldMail(u, p) /\ NewMail(u, p)
BY DEF OldMail, NewMail

\* A message is sent.
LEMMA SentMail ==
    ASSUME Mailed, NEW u, NEW p, NEW a, NEW m \in Messages, q' = Post(a, m),
           m.type = "err" => m.ses # 0
    PROVE  OldMail(u, p) /\ NewMail(u, p)
<1>1. /\ \A t \in Services : Grows(q[t], q'[t])
      /\ \A t \in Services : \A i \in DOMAIN q'[t] :
           q'[t][i] = m \/ \E j \in DOMAIN q[t] : q[t][j] = q'[t][i]
    BY PostGrows
<1>2. \A x : m # Msg("err", x, 0)
    BY DEF Msg
<1>3. OldMail(u, p)
    BY <1>1 DEF OldMail, Grows
<1>4. NewMail(u, p)
    BY <1>1, <1>2 DEF NewMail
<1> QED BY <1>3, <1>4

\* A message is taken.
LEMMA TookMail ==
    ASSUME Mailed, NEW u \in Services, NEW p, TakeHead(u), Served(p, Head(q[u]))
    PROVE  OldMail(u, p) /\ NewMail(u, p)
<1>1. /\ \A i \in DOMAIN q[u] :
           q[u][i] = Head(q[u]) \/ \E j \in DOMAIN q'[u] : q'[u][j] = q[u][i]
      /\ \A j \in DOMAIN q'[u] : \E i \in DOMAIN q[u] : q'[u][j] = q[u][i]
      /\ \A t \in Services : t # u => q'[t] = q[t]
    BY TakenMail
<1>2. OldMail(u, p)
    BY <1>1 DEF OldMail
<1>3. NewMail(u, p)
    BY <1>1 DEF NewMail
<1> QED BY <1>2, <1>3

\* A session that is watched has its coroutine in session_id_coroutine.
LEMMA WatchedCall ==
    ASSUME NEW r, Kept(r), NEW n \in DOMAIN r.watching_session
    PROVE  LET c == r.session_id_coroutine[n]
           IN  /\ n \in DOMAIN r.session_id_coroutine /\ c \in Co /\ c # BREAK
               /\ r.at[c] = "call" /\ r.on[c] = n /\ n # 0
<1>1. PICK c \in Co : r.at[c] = "call" /\ r.on[c] = n
    BY DEF Kept, Sessions
<1>2. n \in DOMAIN r.session_id_coroutine /\ r.session_id_coroutine[n] = c
    BY <1>1 DEF Kept, Sessions, Yielded
<1>3. c # BREAK /\ n # 0
    BY DEF Co, BREAK, Kept, Shape
<1> QED BY <1>1, <1>2, <1>3

\* A coroutine is resumed; its session fails no more.
LEMMA ResumedCalm ==
    ASSUME CallInv, NEW u \in Services, NEW x, NEW c \in Co, DOMAIN x = Fields,
           Keeps(x, st[u], DebtFields), x.watching_session = st[u].watching_session,
           x.at = st[u].at, x.on = st[u].on, st[u].mode # "exit",
           \A n \in DOMAIN st[u].watching_session : Failing(st[u], n) =>
             Failing(x, n) \/ (st[u].at[c] = "call" /\ st[u].on[c] = n)
    PROVE  LET p == Resumed(x, c)
           IN  /\ Calm(u, p) /\ Watchful(u, p)
               /\ p.watching_session \in [DOMAIN p.watching_session -> Services]
               /\ p.watching_session = IF st[u].at[c] = "call"
                                       THEN Without(st[u].watching_session, st[u].on[c])
                                       ELSE st[u].watching_session
<1> DEFINE r == st[u]
           p == Resumed(x, c)
<1>1. ResumedFrom(p, x, c)
    BY ResumedFields
<1>2. Kept(r)
    BY Before DEF CallInv
<1> HIDE DEF p
<1>3. /\ p.mode = "run" /\ (\E v \in {"run", "failed"} : p.at = [r.at EXCEPT ![c] = v])
      /\ p.watching_session = IF r.at[c] = "call" THEN Without(r.watching_session, r.on[c])
                              ELSE r.watching_session
      /\ p.error_queue = x.error_queue
    BY <1>1 DEF ResumedFrom, Keeps, Fields
<1>4. Keeps(p, r, DebtFields)
    BY <1>1 DEF ResumedFrom, Keeps, Fields, DebtFields
<1>5. Calm(u, p)
    <2>1. r.at \in [Co -> States]
        BY <1>2 DEF Kept, Shape
    <2> QED BY <1>3, <1>4, <2>1 DEF Calm, Modes
<1>6. \A n \in DOMAIN p.watching_session : Failing(r, n) => Failing(p, n)
    BY <1>3 DEF Failing, Without
<1>7. Watchful(u, p) /\ p.watching_session \in [DOMAIN p.watching_session -> Services]
    BY <1>3, <1>6, Watched
<1> QED BY <1>3, <1>5, <1>7 DEF p

\* A calm step forgets no call.
LEMMA CalmStep ==
    ASSUME CallInv, SessionInv', NEW u \in Services, NEW p, Set(u, p), Calm(u, p),
           p.watching_session \in [DOMAIN p.watching_session -> Services],
           Watchful(u, p), OldMail(u, p), NewMail(u, p)
    PROVE  CallInv'
BY CalmHonest, HonestStep

\* A step that leaves the tables of calls alone.
LEMMA QuietStep ==
    ASSUME CallInv, SessionInv', NEW u \in Services, NEW p, Set(u, p), Calm(u, p),
           p.watching_session = st[u].watching_session,
           \A n \in DOMAIN p.watching_session : Failing(st[u], n) => Failing(p, n),
           OldMail(u, p), NewMail(u, p)
    PROVE  CallInv'
BY Watched, CalmStep

\* What is known of a service before a step.
LEMMA BeforeCall ==
    ASSUME CallInv, NEW u \in Services
    PROVE  /\ Mailed /\ Kept(st[u]) /\ Counts(st[u]) /\ Debts(st[u]) /\ DOMAIN st[u] = Fields
           /\ st[u].mode \in Modes
BY Before DEF CallInv, Kept, Shape

\* An answer: the call it ends is no longer watched.
LEMMA TakeResponseCall ==
    ASSUME CallInv, SessionInv', NEW u \in Services, TakeHead(u), TakeResponse(u)
    PROVE  CallInv'
<1> DEFINE r == st[u]
           m == Head(q[u])
           n == m.ses
           f == r.session_id_coroutine
           c == f[n]
           gone == [r EXCEPT !.session_id_coroutine = Without(@, n)]
<1>1. Mailed /\ Kept(r) /\ Debts(r) /\ DOMAIN r = Fields /\ r.mode = "idle"
    BY BeforeCall DEF TakeHead
<1>2. /\ m.type = "resp"
      /\ \/ n \in DOMAIN f /\ c # BREAK /\ Set(u, Resumed(gone, c))
         \/ n \in DOMAIN f /\ c = BREAK /\ Set(u, [gone EXCEPT !.mode = "fork"])
         \/ n \notin DOMAIN f /\ Set(u, Thrown(r))
    BY DEF TakeResponse
<1>3. ASSUME NEW p, n \notin DOMAIN p.watching_session
      PROVE  Served(p, m)
    BY <1>2, <1>3 DEF Served, Msg
<1>4. n \in DOMAIN r.watching_session =>
        n \in DOMAIN f /\ c # BREAK /\ r.at[c] = "call" /\ r.on[c] = n
    BY <1>1, WatchedCall
<1> HIDE DEF r, m
<1>5. Keeps(gone, r, Fields \ {"session_id_coroutine"})
    BY <1>1 DEF Keeps, Fields
<1>6. /\ gone.watching_session = r.watching_session /\ gone.at = r.at /\ gone.on = r.on
      /\ gone.error_queue = r.error_queue /\ DOMAIN gone = Fields
      /\ Keeps(gone, r, DebtFields)
    BY <1>5 DEF Keeps, Fields, DebtFields
<1> HIDE DEF gone
<1>7. CASE n \in DOMAIN f /\ c # BREAK /\ Set(u, Resumed(gone, c))
    <2> DEFINE p == Resumed(gone, c)
    <2>1. c \in Co
        BY <1>1, <1>7 DEF Kept, Shape
    <2> HIDE DEF c
    <2>2. \A k \in DOMAIN r.watching_session : Failing(r, k) => Failing(gone, k)
        BY <1>6 DEF Failing
    <2>3. /\ Calm(u, p) /\ Watchful(u, p)
          /\ p.watching_session \in [DOMAIN p.watching_session -> Services]
          /\ p.watching_session = IF r.at[c] = "call" THEN Without(r.watching_session, r.on[c])
                                  ELSE r.watching_session
        BY <1>1, <1>6, <2>1, <2>2, ResumedCalm DEF r
    <2> HIDE DEF p
    <2>4. n \notin DOMAIN p.watching_session
        BY <1>4, <2>3 DEF Without, c
    <2>5. OldMail(u, p) /\ NewMail(u, p)
        BY <1>1, <1>3, <2>4, TookMail DEF m
    <2> QED BY <1>7, <2>3, <2>5, CalmStep DEF p, c
<1>8. ASSUME NEW p, Set(u, p), p.mode = "fork", n \notin DOMAIN r.watching_session,
             Keeps(p, r, Fields \ {"mode", "cur", "depth", "session_id_coroutine"})
      PROVE  CallInv'
    <2>1. /\ p.watching_session = r.watching_session /\ p.at = r.at
          /\ p.error_queue = r.error_queue /\ Keeps(p, r, DebtFields)
        BY <1>8 DEF Keeps, Fields, DebtFields
    <2>2. Calm(u, p)
        BY <1>1, <1>8, <2>1 DEF Calm, Modes, r
    <2>3. OldMail(u, p) /\ NewMail(u, p)
        BY <1>1, <1>3, <1>8, <2>1, TookMail DEF m
    <2> QED BY <1>8, <2>1, <2>2, <2>3, QuietStep DEF Failing, r
<1>9. CASE n \in DOMAIN f /\ c = BREAK /\ Set(u, [gone EXCEPT !.mode = "fork"])
    <2> DEFINE p == [gone EXCEPT !.mode = "fork"]
    <2>1. /\ p.mode = "fork"
          /\ Keeps(p, r, Fields \ {"mode", "cur", "depth", "session_id_coroutine"})
        BY <1>5 DEF Keeps, Fields
    <2> HIDE DEF p
    <2> QED BY <1>4, <1>8, <1>9, <2>1 DEF p
<1>10. CASE n \notin DOMAIN f /\ Set(u, Thrown(r))
    <2> DEFINE p == Thrown(r)
    <2>1. Keeps(p, r, Fields \ {"mode", "cur", "depth"}) /\ p.mode = "fork"
        BY <1>1, ThrownFields
    <2> HIDE DEF p
    <2>2. Keeps(p, r, Fields \ {"mode", "cur", "depth", "session_id_coroutine"})
        BY <2>1 DEF Keeps
    <2> QED BY <1>4, <1>8, <1>10, <2>1, <2>2 DEF p
<1> QED BY <1>2, <1>7, <1>9, <1>10

\* A request: its handler owes the answer, unless the service has exited.
LEMMA TakeRequestCall ==
    ASSUME CallInv, SessionInv', NEW u \in Services, TakeHead(u), TakeRequest(u)
    PROVE  CallInv'
<1> DEFINE r == st[u]
           m == Head(q[u])
           c == NewCo(r)
           j == [from |-> m.from, ses |-> m.ses]
           k == Created(r, "run")
           l == IF r.alive THEN k.mute ELSE k.mute \cup {m}
           p == [k EXCEPT !.mode = "run", !.cur = c, !.request[c] = j,
                          !.watching_service[m.from] = @ + 1, !.mute = l]
<1>1. Mailed /\ Kept(r) /\ Counts(r) /\ Debts(r) /\ DOMAIN r = Fields /\ r.mode = "idle"
    BY BeforeCall DEF TakeHead
<1>2. r.coroutine_pool # << >> /\ m.type = "req" /\ Set(u, p)
    BY DEF TakeRequest
<1>3. /\ Keeps(k, r, Fields \ {"at", "coroutine_pool"})
      /\ k.at = [r.at EXCEPT ![c] = "run"]
    BY <1>1, CreatedFields
<1>4. c \in Co /\ r.at[c] = "pool"
    BY <1>1, <1>2, PoolKept
<1>5. \A s, n : m = Msg("req", s, n) => j = [from |-> s, ses |-> n]
    BY DEF Msg
<1> HIDE DEF r, m, c, j, k, l
<1>6. /\ Keeps(p, k, Fields \ {"mode", "cur", "request", "watching_service", "mute"})
      /\ p.mode = "run" /\ p.request = [k.request EXCEPT ![c] = j] /\ p.mute = l
    BY <1>3 DEF Keeps, Fields
<1> HIDE DEF p
<1>7. /\ DOMAIN p = Fields /\ p.alive = r.alive
      /\ p.at = [r.at EXCEPT ![c] = "run"] /\ p.request = [r.request EXCEPT ![c] = j]
      /\ p.session_response = r.session_response /\ p.unresponse = r.unresponse
      /\ p.watching_session = r.watching_session /\ p.error_queue = r.error_queue
      /\ p.dead_service = r.dead_service
      /\ p.mute = IF r.alive THEN r.mute ELSE r.mute \cup {m}
    BY <1>3, <1>6 DEF Keeps, Fields, l
<1>8. /\ r.at \in [Co -> States] /\ r.request \in [Co -> [from : Who, ses : Int]]
      /\ r.request[c] = None /\ c \notin r.session_response
    BY <1>1, <1>4 DEF Kept, Shape, Counts, Debts
<1>9. Debts(p)
    BY <1>1, <1>4, <1>7, <1>8 DEF Debts
<1>10. Over(p) <=> Gone(u)
    BY <1>1, <1>6, <1>7 DEF Over, Gone, r
<1>11. \A s, n : m = Msg("req", s, n) => Owes(p, s, n)
    BY <1>4, <1>5, <1>7, <1>8 DEF Owes
<1>12. Served(p, m)
    <2>1. \A t, n : m \notin {Msg("resp", t, n), Msg("err", t, n), Msg("err", t, 0)}
        BY <1>2 DEF Msg
    <2>2. ~r.alive => m \in p.mute
        BY <1>7
    <2>3. r.alive => ~Over(p)
        BY <1>6, <1>7 DEF Over
    <2> QED BY <1>11, <2>1, <2>2, <2>3 DEF Served
<1>13. OldMail(u, p) /\ NewMail(u, p)
    BY <1>1, <1>12, TookMail DEF m
<1>14. Watchful(u, p)
    BY <1>7, Watched DEF Failing, r
<1>15. ASSUME NEW s, NEW n \in Nat, Owes(r, s, n) PROVE Owes(p, s, n)
    <2>1. CASE [from |-> s, ses |-> n] \in r.unresponse
        BY <1>7, <2>1 DEF Owes
    <2>2. CASE \E d \in Co : r.request[d] = [from |-> s, ses |-> n] /\ d \notin r.session_response
        <3>1. PICK d \in Co : r.request[d] = [from |-> s, ses |-> n] /\ d \notin r.session_response
            BY <2>2
        <3>2. d # c
            BY <1>8, <3>1 DEF None
        <3> QED BY <1>7, <1>8, <3>1, <3>2 DEF Owes
    <2> QED BY <1>15, <2>1, <2>2 DEF Owes
<1>16. Answering(u, p)
    BY <1>10, <1>15 DEF Answering, r
<1>17. st[u].mute \subseteq p.mute
    BY <1>7 DEF r
<1>18. \A t \in Services : t \in p.dead_service => t \in st[u].dead_service \/ Gone(t)
    BY <1>7 DEF r
<1>19. Honest(u, p)
    BY <1>6, <1>7, <1>9, <1>10, <1>13, <1>14, <1>16, <1>17, <1>18 DEF Honest, Modes
<1> QED BY <1>2, <1>19, HonestStep

\* An error message: the calls that fail are queued.
LEMMA TakeErrorCall ==
    ASSUME CallInv, SessionInv', NEW u \in Services, TakeHead(u), TakeError(u)
    PROVE  CallInv'
<1> DEFINE r == st[u]
           m == Head(q[u])
           w == DOMAIN r.watching_session
<1>1. Mailed /\ Kept(r) /\ Counts(r) /\ Debts(r) /\ DOMAIN r = Fields /\ r.mode = "idle"
    BY BeforeCall DEF TakeHead
<1>2. m \in Messages /\ m.type = "err" /\ \E i \in DOMAIN q[u] : q[u][i] = m
    BY <1>1, TakenMail DEF TakeError
<1>3. w \subseteq Nat \ {0} /\ IsFiniteSet(w) /\ r.error_queue \in Seq(Nat)
    <2>1. w \subseteq 1..r.sesid /\ r.sesid \in Nat /\ r.error_queue \in Seq(Nat)
        BY <1>1 DEF Kept, Shape
    <2>2. IsFiniteSet(1..r.sesid)
        BY <2>1, FS_Interval
    <2> QED BY <2>1, <2>2, FS_Subset
<1>4. ASSUME NEW p, Set(u, p), p.mode = "wake",
             Keeps(p, r, Fields \ {"mode", "error_queue", "dead_service"}),
             p.dead_service = r.dead_service
               \/ (m.ses = 0 /\ p.dead_service = r.dead_service \cup {m.from}),
             Grows(r.error_queue, p.error_queue),
             \A n \in w : m.ses = n \/ (m.ses = 0 /\ r.watching_session[n] = m.from)
                            => Failing(p, n)
      PROVE  CallInv'
    <2>1. /\ DOMAIN p = Fields /\ p.alive = r.alive /\ p.at = r.at /\ p.request = r.request
          /\ p.session_response = r.session_response /\ p.unresponse = r.unresponse
          /\ p.watching_session = r.watching_session /\ p.mute = r.mute
        BY <1>4 DEF Keeps, Fields
    <2>2. Debts(p)
        BY <1>1, <2>1 DEF Debts
    <2>3. Over(p) <=> Gone(u)
        BY <1>1, <1>4, <2>1 DEF Over, Gone
    <2>4. Answering(u, p)
        BY <2>1, <2>3 DEF Answering, Owes
    <2>5. Watchful(u, p)
        BY <1>4, <2>1, Watched DEF Failing, Grows
    <2>6. Served(p, m)
        BY <1>2, <1>4, <2>1 DEF Served, Msg
    <2>7. OldMail(u, p) /\ NewMail(u, p)
        BY <1>1, <2>6, TookMail
    <2>8. ASSUME NEW t \in Services, t \in p.dead_service, t \notin r.dead_service PROVE Gone(t)
        <3>1. m = Msg("err", t, 0)
            BY <1>2, <1>4, <2>8 DEF Msg, Messages
        <3> QED BY <1>2, <3>1 DEF CallInv, DeadGone
    <2>9. Honest(u, p)
        BY <1>4, <2>1, <2>2, <2>3, <2>4, <2>5, <2>7, <2>8 DEF Honest, Modes
    <2> QED BY <1>4, <2>9, HonestStep
<1>5. CASE m.ses = 0
    <2> DEFINE S == {n \in w : r.watching_session[n] = m.from}
    <2>1. PICK e \in SetToSeqs(S) :
              Set(u, [r EXCEPT !.mode = "wake", !.error_queue = @ \o e,
                               !.dead_service = @ \cup {m.from}])
        BY <1>5 DEF TakeError, Watching
    <2>2. IsFiniteSet(S) /\ S \subseteq w
        BY <1>3, FS_Subset
    <2>3. \A n \in w : r.watching_session[n] = m.from => n \in S
        OBVIOUS
    <2> HIDE DEF S
    <2>4. e \in Seq(S) /\ \A n \in S : \E i \in DOMAIN e : e[i] = n
        BY <2>2, ListedAll
    <2>5. e \in Seq(Nat)
        BY <1>3, <2>2, <2>4
    <2> DEFINE b == r.error_queue
               d == b \o e
               p == [r EXCEPT !.mode = "wake", !.error_queue = d,
                              !.dead_service = @ \cup {m.from}]
    <2>6. Set(u, p)
        BY <2>1
    <2>7. b \in Seq(Nat)
        BY <1>3
    <2> HIDE DEF b
    <2>8. Joins(d, b, e)
        BY <2>5, <2>7, Joined
    <2> HIDE DEF r, w, m, d
    <2>9. /\ p.mode = "wake" /\ p.error_queue = d
          /\ p.dead_service = r.dead_service \cup {m.from}
          /\ Keeps(p, r, Fields \ {"mode", "error_queue", "dead_service"})
        BY <1>1 DEF Keeps, Fields
    <2> HIDE DEF p
    <2>10. \A n \in S : Failing(p, n)
        BY <2>4, <2>8, <2>9 DEF Failing, Joins, Grows
    <2>11. \A n \in w : m.ses = n \/ (m.ses = 0 /\ r.watching_session[n] = m.from)
                          => Failing(p, n)
        BY <1>3, <1>5, <2>3, <2>10
    <2>12. Grows(r.error_queue, p.error_queue)
        BY <2>8, <2>9 DEF Joins, b
    <2> QED BY <1>4, <1>5, <2>6, <2>9, <2>11, <2>12
<1>6. CASE m.ses # 0
    <2> DEFINE b == r.error_queue
               d == IF m.ses \in w THEN Append(b, m.ses) ELSE b
               p == [r EXCEPT !.mode = "wake", !.error_queue = d]
    <2>1. Set(u, p)
        BY <1>6 DEF TakeError
    <2>2. b \in Seq(Nat) /\ (m.ses \in w => m.ses \in Nat)
        BY <1>3
    <2> HIDE DEF b, w, r, m
    <2>3. Grows(b, d)
        <3>1. CASE m.ses \in w
            <4>1. \A i \in DOMAIN b : i \in DOMAIN d /\ d[i] = b[i]
                BY <2>2, <3>1
            <4> QED BY <4>1 DEF Grows
        <3>2. CASE m.ses \notin w
            BY <3>2 DEF Grows
        <3> QED BY <3>1, <3>2
    <2>4. m.ses \in w => \E i \in DOMAIN d : d[i] = m.ses
        <3> SUFFICES ASSUME m.ses \in w PROVE \E i \in DOMAIN d : d[i] = m.ses
            OBVIOUS
        <3>1. Len(b) + 1 \in DOMAIN d /\ d[Len(b) + 1] = m.ses
            BY <2>2
        <3> QED BY <3>1
    <2> HIDE DEF d
    <2>5. /\ p.mode = "wake" /\ p.error_queue = d /\ p.dead_service = r.dead_service
          /\ Keeps(p, r, Fields \ {"mode", "error_queue", "dead_service"})
        BY <1>1 DEF Keeps, Fields
    <2> HIDE DEF p
    <2>6. \A n \in w : m.ses = n \/ (m.ses = 0 /\ r.watching_session[n] = m.from)
                         => Failing(p, n)
        BY <1>6, <2>4, <2>5 DEF Failing
    <2>7. Grows(r.error_queue, p.error_queue)
        BY <2>3, <2>5 DEF b
    <2> QED BY <1>4, <2>1, <2>5, <2>6, <2>7
<1> QED BY <1>5, <1>6

\* A coroutine is woken: calls are not touched.
LEMMA DispatchWakeupCall ==
    ASSUME CallInv, SessionInv', NEW u \in Services, DispatchWakeup(u)
    PROVE  CallInv'
<1> DEFINE r == st[u]
           a == r.wakeup_queue
           c == Head(a)
           d == Tail(a)
           popped == [r EXCEPT !.wakeup_queue = d]
           x == [popped EXCEPT !.depth = @ + 1,
                               !.session_id_coroutine[r.sleep_session[c]] = BREAK]
<1>1. Kept(r) /\ Debts(r) /\ DOMAIN r = Fields /\ Poised(r)
    BY BeforeCall DEF CallInv, SessionInv
<1>2. r.mode = "wake" /\ q' = q
    BY DEF DispatchWakeup
<1>3. c \in Co
    BY <1>1, <1>2 DEF Kept, Shape, Poised
<1>4. Set(u, [popped EXCEPT !.mode = "err"]) \/ Set(u, Resumed(x, c))
    BY DEF DispatchWakeup
<1> HIDE DEF r, c, d
<1>5. CASE Set(u, [popped EXCEPT !.mode = "err"])
    <2> DEFINE p == [popped EXCEPT !.mode = "err"]
    <2>1. /\ p.mode = "err" /\ p.watching_session = r.watching_session /\ p.at = r.at
          /\ p.error_queue = r.error_queue /\ Keeps(p, r, DebtFields)
        BY <1>1 DEF Keeps, Fields, DebtFields
    <2> HIDE DEF p
    <2>2. Calm(u, p)
        BY <1>2, <2>1 DEF Calm, Modes, r
    <2>3. OldMail(u, p) /\ NewMail(u, p)
        BY <1>2, SameMail
    <2> QED BY <1>5, <2>1, <2>2, <2>3, QuietStep DEF Failing, p, r
<1>6. CASE Set(u, Resumed(x, c))
    <2> DEFINE p == Resumed(x, c)
    <2>1. /\ x.watching_session = r.watching_session /\ x.at = r.at /\ x.on = r.on
          /\ x.error_queue = r.error_queue /\ DOMAIN x = Fields /\ Keeps(x, r, DebtFields)
        BY <1>1 DEF Keeps, Fields, DebtFields
    <2> HIDE DEF x
    <2>2. \A k \in DOMAIN r.watching_session : Failing(r, k) => Failing(x, k)
        BY <2>1 DEF Failing
    <2>3. /\ Calm(u, p) /\ Watchful(u, p)
          /\ p.watching_session \in [DOMAIN p.watching_session -> Services]
        BY <1>2, <1>3, <2>1, <2>2, ResumedCalm DEF r
    <2>4. OldMail(u, p) /\ NewMail(u, p)
        BY <1>2, SameMail
    <2> QED BY <1>6, <2>3, <2>4, CalmStep
<1> QED BY <1>4, <1>5, <1>6

\* A call fails: it leaves the error queue and is no longer watched.
LEMMA DispatchErrorCall ==
    ASSUME CallInv, SessionInv', NEW u \in Services, DispatchError(u)
    PROVE  CallInv'
<1> DEFINE r == st[u]
           a == r.error_queue
           n == Head(a)
           d == Tail(a)
           f == r.session_id_coroutine
           c == f[n]
           popped == [r EXCEPT !.error_queue = d]
           x == [popped EXCEPT !.session_id_coroutine = Without(@, n)]
<1>1. Kept(r) /\ Debts(r) /\ DOMAIN r = Fields /\ Poised(r)
    BY BeforeCall DEF CallInv, SessionInv
<1>2. r.mode = "err" /\ q' = q
    BY DEF DispatchError
<1>3. a \in Seq(Nat) /\ a # << >>
    BY <1>1, <1>2 DEF Kept, Shape, Poised
<1>4. \A i \in DOMAIN a : a[i] = n \/ \E j \in DOMAIN d : d[j] = a[i]
    BY <1>3, Popped
<1>5. (n \notin DOMAIN f /\ Set(u, Thrown(popped))) \/ (n \in DOMAIN f /\ Set(u, Resumed(x, c)))
    BY DEF DispatchError
<1>6. n \in DOMAIN r.watching_session =>
        n \in DOMAIN f /\ c \in Co /\ c # BREAK /\ r.at[c] = "call" /\ r.on[c] = n
    BY <1>1, WatchedCall
<1>7. n \in DOMAIN f => c \in Co
    <2>1. \E i \in DOMAIN a : a[i] = n
        BY <1>3, Popped
    <2> QED BY <1>1, <2>1 DEF Kept, Errors, Shape
<1> HIDE DEF r, n, d
<1>8. CASE n \notin DOMAIN f /\ Set(u, Thrown(popped))
    <2> DEFINE p == Thrown(popped)
    <2>1. /\ p.mode = "fork" /\ p.watching_session = r.watching_session /\ p.at = r.at
          /\ p.error_queue = d /\ Keeps(p, r, DebtFields)
        BY <1>1 DEF Keeps, Fields, DebtFields, Thrown
    <2> HIDE DEF p
    <2>2. Calm(u, p)
        BY <1>2, <2>1 DEF Calm, Modes, r
    <2>3. OldMail(u, p) /\ NewMail(u, p)
        BY <1>2, SameMail
    <2>4. \A k \in DOMAIN p.watching_session : Failing(r, k) => Failing(p, k)
        BY <1>4, <1>6, <1>8, <2>1 DEF Failing
    <2> QED BY <1>8, <2>1, <2>2, <2>3, <2>4, QuietStep DEF p, r
<1>9. CASE n \in DOMAIN f /\ Set(u, Resumed(x, c))
    <2> DEFINE p == Resumed(x, c)
    <2>1. /\ x.watching_session = r.watching_session /\ x.at = r.at /\ x.on = r.on
          /\ x.error_queue = d /\ DOMAIN x = Fields /\ Keeps(x, r, DebtFields)
        BY <1>1 DEF Keeps, Fields, DebtFields
    <2> HIDE DEF x, c
    <2>2. \A k \in DOMAIN r.watching_session : Failing(r, k) =>
            Failing(x, k) \/ (r.at[c] = "call" /\ r.on[c] = k)
        BY <1>4, <1>6, <2>1 DEF Failing
    <2>3. /\ Calm(u, p) /\ Watchful(u, p)
          /\ p.watching_session \in [DOMAIN p.watching_session -> Services]
        BY <1>2, <1>7, <1>9, <2>1, <2>2, ResumedCalm DEF r
    <2>4. OldMail(u, p) /\ NewMail(u, p)
        BY <1>2, SameMail
    <2> QED BY <1>9, <2>3, <2>4, CalmStep
<1> QED BY <1>5, <1>8, <1>9

\* A fork starts.
LEMMA RunForksCall ==
    ASSUME CallInv, SessionInv', NEW u \in Services, RunForks(u)
    PROVE  CallInv'
<1> DEFINE r == st[u]
<1>1. Kept(r) /\ Debts(r) /\ DOMAIN r = Fields
    BY BeforeCall
<1>2. r.mode = "fork" /\ q' = q
    BY DEF RunForks
<1>3. PICK c \in r.fork_queue : Set(u, Resumed([r EXCEPT !.fork_queue = @ \ {c}], c))
    BY DEF RunForks
<1> DEFINE x == [r EXCEPT !.fork_queue = @ \ {c}]
           p == Resumed(x, c)
<1>4. c \in Co
    BY <1>1 DEF Kept, Shape
<1> HIDE DEF r
<1>5. /\ x.watching_session = r.watching_session /\ x.at = r.at /\ x.on = r.on
      /\ x.error_queue = r.error_queue /\ DOMAIN x = Fields /\ Keeps(x, r, DebtFields)
    BY <1>1 DEF Keeps, Fields, DebtFields
<1> HIDE DEF x
<1>6. \A k \in DOMAIN r.watching_session : Failing(r, k) => Failing(x, k)
    BY <1>5 DEF Failing
<1>7. /\ Calm(u, p) /\ Watchful(u, p)
      /\ p.watching_session \in [DOMAIN p.watching_session -> Services]
    BY <1>2, <1>4, <1>5, <1>6, ResumedCalm DEF r
<1>8. OldMail(u, p) /\ NewMail(u, p)
    BY <1>2, SameMail
<1> QED BY <1>3, <1>7, <1>8, CalmStep DEF x

\* Steps of service code that neither call nor answer.
LEMMA IdleCall ==
    ASSUME CallInv, SessionInv', NEW u \in Services, NEW p, Set(u, p), q' = q,
           Keeps(p, st[u], DebtFields \cup {"watching_session", "error_queue"}),
           p.mode \in Modes, p.mode = "exit" <=> st[u].mode = "exit",
           \A c \in Co : p.at[c] = "pool" => st[u].at[c] = "pool"
    PROVE  CallInv'
<1>1. /\ p.watching_session = st[u].watching_session /\ p.error_queue = st[u].error_queue
      /\ Keeps(p, st[u], DebtFields)
    BY DEF Keeps
<1>2. Calm(u, p)
    BY <1>1 DEF Calm
<1>3. OldMail(u, p) /\ NewMail(u, p)
    BY SameMail
<1> QED BY <1>1, <1>2, <1>3, QuietStep DEF Failing

\* skynet.sleep, skynet.wait and the line of a critical section.
LEMMA ParkCall ==
    ASSUME CallInv, SessionInv', NEW u \in Services, Running(u), q' = q,
           NEW how \in Sleeping, NEW n, NEW p, Set(u, p),
           LET k == Parked(st[u], how, n)
           IN  p = [k EXCEPT !.sesid = n]
               \/ p = [k EXCEPT !.sesid = n, !.thread_queue = Append(@, st[u].cur)]
    PROVE  CallInv'
<1> DEFINE r == st[u]
           k == Parked(r, how, n)
<1>1. Kept(r) /\ DOMAIN r = Fields /\ r.mode = "run" /\ r.at \in [Co -> States]
    BY BeforeCall DEF Running, Kept, Shape
<1>2. ParkedFrom(k, r, how, n)
    BY <1>1, ParkedFields
<1>3. p = [k EXCEPT !.sesid = n] \/ p = [k EXCEPT !.sesid = n, !.thread_queue = Append(@, r.cur)]
    OBVIOUS
<1> DEFINE a == Append(k.thread_queue, r.cur)
<1>4. p = [k EXCEPT !.sesid = n] \/ p = [k EXCEPT !.sesid = n, !.thread_queue = a]
    BY <1>3
<1> HIDE DEF r, k, a
<1>5. DOMAIN k = Fields
    BY <1>2 DEF ParkedFrom, Keeps
<1>6. /\ Keeps(p, k, DebtFields \cup {"watching_session", "error_queue"})
      /\ p.mode = k.mode /\ p.at = k.at
    <2>1. CASE p = [k EXCEPT !.sesid = n]
        BY <1>5, <2>1 DEF Keeps, Fields, DebtFields
    <2>2. CASE p = [k EXCEPT !.sesid = n, !.thread_queue = a]
        BY <1>5, <2>2 DEF Keeps, Fields, DebtFields
    <2> QED BY <1>4, <2>1, <2>2
<1>7. /\ Keeps(p, r, DebtFields \cup {"watching_session", "error_queue"})
      /\ p.mode = "wake" /\ p.at = [r.at EXCEPT ![r.cur] = how]
    BY <1>2, <1>6 DEF ParkedFrom, Keeps, Fields, DebtFields
<1>8. \A c \in Co : p.at[c] = "pool" => r.at[c] = "pool"
    <2>1. how # "pool"
        BY DEF Sleeping
    <2> QED BY <1>1, <1>7, <2>1
<1>9. p.mode \in Modes /\ (p.mode = "exit" <=> r.mode = "exit")
    BY <1>1, <1>7 DEF Modes
<1> QED BY ONLY <1>7, <1>8, <1>9, IdleCall, CallInv, SessionInv', u \in Services, Set(u, p),
                q' = q DEF r

\* skynet.sleep and skynet.wait.
LEMMA SleepCall ==
    ASSUME CallInv, SessionInv', NEW u \in Services, Sleep(u) \/ Wait(u)
    PROVE  CallInv'
<1>1. CASE Sleep(u)
    BY <1>1, ParkCall DEF Sleep, Sleeping
<1>2. CASE Wait(u)
    BY <1>2, ParkCall DEF Wait, Sleeping
<1> QED BY <1>1, <1>2

\* A coroutine enters a critical section or its line.
LEMMA EnterCall ==
    ASSUME CallInv, SessionInv', NEW u \in Services, Enter(u)
    PROVE  CallInv'
<1> DEFINE r == st[u]
           n == r.sesid + 1
           p == [r EXCEPT !.current_thread = r.cur, !.ref = @ + 1, !.inside = @ \cup {r.cur}]
           k == [Parked(r, "line", n) EXCEPT !.sesid = n, !.thread_queue = Append(@, r.cur)]
<1>1. DOMAIN r = Fields /\ Running(u) /\ r.mode = "run" /\ q' = q
    BY BeforeCall DEF Enter, Running
<1>2. Set(u, p) \/ Set(u, k)
    BY DEF Enter
<1>3. CASE Set(u, p)
    <2>1. /\ Keeps(p, r, DebtFields \cup {"watching_session", "error_queue"})
          /\ p.mode = r.mode /\ p.at = r.at
        BY <1>1 DEF Keeps, Fields, DebtFields
    <2> HIDE DEF p
    <2> QED BY <1>1, <1>3, <2>1, IdleCall DEF Modes
<1>4. CASE Set(u, k)
    BY <1>1, <1>4, ParkCall DEF Sleeping
<1> QED BY <1>2, <1>3, <1>4

\* skynet.call: the request is in the mailbox of the service called.
LEMMA CallCall ==
    ASSUME CallInv, SessionInv', NEW u \in Services, NEW t \in Services, Call(u, t)
    PROVE  CallInv'
<1> DEFINE r == st[u]
           n == r.sesid + 1
           m == Msg("req", u, n)
           k == Parked(r, "call", n)
           w == With(k.watching_session, n, t)
           p == [k EXCEPT !.sesid = n, !.watching_session = w]
<1>1. /\ Kept(r) /\ Debts(r) /\ DOMAIN r = Fields /\ r.mode = "run" /\ Mailed
      /\ r.at \in [Co -> States] /\ r.sesid \in Nat
      /\ r.watching_session \in [DOMAIN r.watching_session -> Services]
    BY BeforeCall DEF Call, Running, Kept, Shape, Debts
<1>2. Set(u, p) /\ st[t].alive /\ q' = Post(t, m)
    BY DEF Call
<1>3. ParkedFrom(k, r, "call", n)
    BY <1>1, ParkedFields
<1>4. m \in Messages /\ m.type = "req"
    BY <1>1 DEF Messages, Msg, Who
<1> HIDE DEF r, n, k, w
<1>5. /\ Keeps(p, k, DebtFields \cup {"error_queue"})
      /\ p.mode = k.mode /\ p.at = k.at /\ p.watching_session = w
    BY <1>3 DEF ParkedFrom, Keeps, Fields, DebtFields
<1> HIDE DEF p
<1>6. /\ Keeps(p, r, DebtFields) /\ p.error_queue = r.error_queue
      /\ p.mode = "wake" /\ p.at = [r.at EXCEPT ![r.cur] = "call"]
      /\ k.watching_session = r.watching_session
    BY <1>3, <1>5 DEF ParkedFrom, Keeps, Fields, DebtFields
<1>7. Calm(u, p)
    <2>1. \A c \in Co : p.at[c] = "pool" => r.at[c] = "pool"
        BY <1>1, <1>6
    <2> QED BY <1>1, <1>6, <2>1 DEF Calm, Modes, r
<1>8. /\ DOMAIN w = DOMAIN r.watching_session \cup {n} /\ w[n] = t
      /\ \A i \in DOMAIN r.watching_session : i # n => w[i] = r.watching_session[i]
      /\ w \in [DOMAIN w -> Services]
    BY <1>1, <1>6 DEF With, w
<1>9. \E i \in DOMAIN q'[t] : q'[t][i] = m
    BY <1>1, <1>2, <1>4, PostGrows
<1>10. Watchful(u, p)
    BY <1>5, <1>6, <1>8, <1>9 DEF Watchful, Failing, r
<1>11. OldMail(u, p) /\ NewMail(u, p)
    <2> HIDE DEF m
    <2>1. m.type # "err"
        BY <1>4
    <2> QED BY <1>1, <1>2, <1>4, <2>1, SentMail
<1> QED BY <1>2, <1>5, <1>7, <1>8, <1>10, <1>11, CalmStep

\* skynet.fork and skynet.timeout
LEMMA CreateCall ==
    ASSUME CallInv, SessionInv', NEW u \in Services, Fork(u) \/ Timeout(u)
    PROVE  CallInv'
<1> DEFINE r == st[u]
           c == NewCo(r)
           n == r.sesid + 1
           k == Created(r, "ready")
           a == [k EXCEPT !.fork_queue = @ \cup {c}]
           b == [k EXCEPT !.sesid = n, !.on[c] = n,
                          !.session_id_coroutine = With(@, n, c)]
<1>1. /\ DOMAIN r = Fields /\ r.mode = "run" /\ q' = q /\ r.at \in [Co -> States]
    BY BeforeCall DEF Fork, Timeout, Running, Kept, Shape
<1>2. Set(u, a) \/ Set(u, b)
    BY DEF Fork, Timeout
<1>3. Keeps(k, r, Fields \ {"at", "coroutine_pool"}) /\ k.at = [r.at EXCEPT ![c] = "ready"]
    BY <1>1, CreatedFields
<1> HIDE DEF r, c, n, k
<1>4. \A d \in Co : k.at[d] = "pool" => r.at[d] = "pool"
    BY <1>1, <1>3
<1>5. /\ Keeps(k, r, DebtFields \cup {"watching_session", "error_queue"})
      /\ k.mode = r.mode /\ DOMAIN k = Fields
    BY <1>3 DEF Keeps, Fields, DebtFields
<1>6. ASSUME NEW p \in {a, b}, Set(u, p) PROVE CallInv'
    <2>1. /\ Keeps(p, k, DebtFields \cup {"watching_session", "error_queue"})
          /\ p.mode = k.mode /\ p.at = k.at
        BY <1>5, <1>6 DEF Keeps, Fields, DebtFields
    <2> HIDE DEF a, b
    <2>2. Keeps(p, r, DebtFields \cup {"watching_session", "error_queue"})
        BY <1>5, <2>1 DEF Keeps
    <2> QED BY <1>1, <1>4, <1>5, <1>6, <2>1, <2>2, IdleCall DEF Modes, r
<1> QED BY <1>2, <1>6

\* skynet.wakeup, and the next message
LEMMA WakeupCall ==
    ASSUME CallInv, SessionInv', NEW u \in Services, (\E c \in Co : Wakeup(u, c)) \/ Tick(u)
    PROVE  CallInv'
<1> DEFINE r == st[u]
<1>1. DOMAIN r = Fields /\ r.mode \in Modes
    BY BeforeCall
<1>2. CASE \E c \in Co : Wakeup(u, c)
    <2>1. PICK c \in Co : Wakeup(u, c)
        BY <1>2
    <2> DEFINE d == Append(r.wakeup_queue, c)
               p == [r EXCEPT !.wakeup_queue = d]
    <2>2. Set(u, p) /\ q' = q
        BY <2>1 DEF Wakeup
    <2> HIDE DEF r, d
    <2>3. /\ Keeps(p, r, DebtFields \cup {"watching_session", "error_queue"})
          /\ p.mode = r.mode /\ p.at = r.at
        BY <1>1 DEF Keeps, Fields, DebtFields
    <2> HIDE DEF p
    <2> QED BY <1>1, <2>2, <2>3, IdleCall DEF r
<1>3. CASE Tick(u)
    <2> DEFINE p == [r EXCEPT !.mode = "wake"]
    <2>1. Set(u, p) /\ q' = q /\ r.mode = "idle"
        BY <1>3 DEF Tick
    <2> HIDE DEF r
    <2>2. /\ Keeps(p, r, DebtFields \cup {"watching_session", "error_queue"})
          /\ p.mode = "wake" /\ p.at = r.at
        BY <1>1 DEF Keeps, Fields, DebtFields
    <2> HIDE DEF p
    <2> QED BY <2>1, <2>2, IdleCall DEF r, Modes
<1> QED BY <1>2, <1>3

\* The section is left.
LEMMA LeaveCall ==
    ASSUME CallInv, SessionInv', NEW u \in Services, Leave(u)
    PROVE  CallInv'
<1> DEFINE r == st[u]
<1>1. /\ DOMAIN r = Fields /\ r.mode = "run" /\ q' = q
      /\ r.thread_queue \in Seq(Co) /\ r.wakeup_queue \in Seq(Co)
      /\ DOMAIN r.sleep_session \subseteq Co
    BY BeforeCall DEF Leave, Running, Kept, Shape, Sessions
<1>2. Set(u, HandOver(r)) \/ Set(u, [r EXCEPT !.ref = @ - 1])
    BY DEF Leave
<1> HIDE DEF r
<1>3. Keeps(HandOver(r), r, Fields \ {"ref", "inside", "current_thread", "thread_queue",
                                     "wakeup_queue"})
    BY <1>1, HandOverFields
<1>4. Keeps([r EXCEPT !.ref = @ - 1], r, Fields \ {"ref", "inside", "current_thread",
                                                  "thread_queue", "wakeup_queue"})
    BY <1>1 DEF Keeps, Fields
<1>5. ASSUME NEW p, Set(u, p), Keeps(p, r, Fields \ {"ref", "inside", "current_thread",
                                                  "thread_queue", "wakeup_queue"})
      PROVE  CallInv'
    <2>1. /\ Keeps(p, r, DebtFields \cup {"watching_session", "error_queue"})
          /\ p.mode = r.mode /\ p.at = r.at
        BY <1>5 DEF Keeps, Fields, DebtFields
    <2>2. /\ p.mode \in Modes /\ (p.mode = "exit" <=> r.mode = "exit")
          /\ \A c \in Co : p.at[c] = "pool" => r.at[c] = "pool"
        BY <1>1, <2>1 DEF Modes
    <2> QED BY <1>1, <1>5, <2>1, <2>2, IdleCall DEF r
<1> QED BY <1>2, <1>3, <1>4, <1>5

\* A second answer: the first one was given.
LEMMA AnswerTwiceCall ==
    ASSUME CallInv, SessionInv', NEW u \in Services, AnswerTwice(u)
    PROVE  CallInv'
<1> DEFINE r == st[u]
           k == [r EXCEPT !.at[r.cur] = "lost"]
           p == Thrown(k)
<1>1. /\ DOMAIN r = Fields /\ r.mode = "run" /\ q' = q /\ Set(u, p) /\ r.at \in [Co -> States]
    BY BeforeCall DEF AnswerTwice, Running, Kept, Shape
<1> HIDE DEF r
<1>2. /\ Keeps(p, r, DebtFields \cup {"watching_session", "error_queue"})
      /\ p.mode = "fork" /\ p.at = [r.at EXCEPT ![r.cur] = "lost"]
    BY <1>1 DEF Keeps, Fields, DebtFields, Thrown
<1> HIDE DEF p
<1>3. \A c \in Co : p.at[c] = "pool" => r.at[c] = "pool"
    BY <1>1, <1>2
<1> QED BY <1>1, <1>2, <1>3, IdleCall DEF r, Modes

-----------------------------------------------------------------------------
(* Answers *)

\* The answer to session n of a is sent, unless a is known to be dead.
Answered(u, a, n) ==
    \/ a \in st[u].dead_service /\ q' = q
    \/ \E x \in Answers : q' = Post(a, Msg(x, u, n))

\* Session n of s finds the answer of u in its mailbox.
Informed(u, s, n) ==
    \E j \in DOMAIN q'[s] : q'[s][j] \in {Msg("resp", u, n), Msg("err", u, n)}

\* The answer reaches who asked, if that service still waits.
LEMMA AnswerMail ==
    ASSUME CallInv, NEW u \in Services, NEW p, NEW a, NEW n \in Nat \ {0}, Answered(u, a, n)
    PROVE  /\ OldMail(u, p) /\ NewMail(u, p)
           /\ a \in Services /\ ~Gone(a) => Informed(u, a, n)
<1>1. Mailed
    BY BeforeCall
<1>2. CASE a \in st[u].dead_service /\ q' = q
    <2>1. a \in Services => Gone(a)
        BY <1>2 DEF CallInv, DeadGone
    <2> QED BY <1>2, <2>1, SameMail
<1>3. ASSUME NEW x \in Answers, q' = Post(a, Msg(x, u, n))
      PROVE  /\ OldMail(u, p) /\ NewMail(u, p)
             /\ a \in Services /\ ~Gone(a) => Informed(u, a, n)
    <2> DEFINE m == Msg(x, u, n)
    <2>1. m \in Messages /\ m \in {Msg("resp", u, n), Msg("err", u, n)} /\ m.ses # 0
        BY DEF Msg, Messages, Who, Answers
    <2> HIDE DEF m
    <2>2. OldMail(u, p) /\ NewMail(u, p)
        BY <1>1, <1>3, <2>1, SentMail DEF m
    <2>3. a \in Services /\ st[a].alive => \E i \in DOMAIN q'[a] : q'[a][i] = m
        BY <1>1, <1>3, <2>1, PostGrows DEF m
    <2>4. a \in Services /\ ~Gone(a) => Informed(u, a, n)
        BY <2>1, <2>3 DEF Informed, Gone, Over
    <2> QED BY <2>2, <2>4
<1> QED BY <1>2, <1>3 DEF Answered

\* A step in which a debt is paid, or handed on, or left for good.
LEMMA PaidHonest ==
    ASSUME CallInv, NEW u \in Services, NEW p, Debts(p), OldMail(u, p), NewMail(u, p),
           Keeps(p, st[u], {"alive", "watching_session", "error_queue", "dead_service"}),
           st[u].mute \subseteq p.mute,
           p.mode \in Modes, st[u].mode # "exit", p.mode # "exit",
           \A s \in Services, n \in Nat \ {0} : Owes(st[u], s, n) =>
             \/ Owes(p, s, n) \/ (~Gone(s) => Informed(u, s, n))
             \/ Msg("req", s, n) \in p.mute
    PROVE  Honest(u, p)
<1> DEFINE r == st[u]
<1>1. /\ p.alive = r.alive /\ p.watching_session = r.watching_session
      /\ p.error_queue = r.error_queue /\ p.dead_service = r.dead_service
      /\ r.mute \subseteq p.mute /\ DOMAIN p = Fields
    BY DEF Keeps
<1>2. Over(p) <=> Gone(u)
    BY <1>1 DEF Over, Gone
<1>3. Watchful(u, p)
    BY <1>1, Watched DEF Failing
<1>4. Answering(u, p)
    BY <1>2 DEF Answering, Informed
<1> QED BY <1>1, <1>2, <1>3, <1>4 DEF Honest

\* skynet.ret
LEMMA RetCall ==
    ASSUME CallInv, SessionInv', NEW u \in Services, Ret(u)
    PROVE  CallInv'
<1> DEFINE r == st[u]
           c == r.cur
           p == [r EXCEPT !.session_response = @ \cup {c}]
           a == Mine(u).from
           n == Mine(u).ses
<1>1. /\ Kept(r) /\ Counts(r) /\ Debts(r) /\ DOMAIN r = Fields /\ r.mode = "run"
      /\ r.at[c] = "run"
    BY BeforeCall DEF Ret, Running
<1>2. Set(u, p) /\ Answered(u, a, n) /\ n > 0
    BY DEF Ret, Answered
<1>3. c \in Co /\ n \in Nat \ {0} /\ r.request[c].from = a /\ r.request[c].ses = n
    BY <1>1, <1>2, MineType DEF Mine, CallInv
<1> HIDE DEF r, c, a, n
<1>4. /\ Keeps(p, r, Fields \ {"session_response"})
      /\ p.session_response = r.session_response \cup {c}
    BY <1>1 DEF Keeps, Fields
<1> HIDE DEF p
<1>5. /\ Keeps(p, r, {"alive", "watching_session", "error_queue", "dead_service"})
      /\ r.mute \subseteq p.mute
      /\ p.alive = r.alive /\ p.watching_session = r.watching_session
      /\ p.request = r.request /\ p.unresponse = r.unresponse /\ p.at = r.at
      /\ p.mode = "run"
    BY <1>1, <1>4 DEF Keeps, Fields
<1>6. Debts(p)
    BY <1>1, <1>3, <1>4, <1>5 DEF Debts
<1>7. /\ OldMail(u, p) /\ NewMail(u, p)
      /\ a \in Services /\ ~Gone(a) => Informed(u, a, n)
    BY <1>2, <1>3, AnswerMail
<1>8. ASSUME NEW s \in Services, NEW i \in Nat \ {0}, Owes(r, s, i)
      PROVE  Owes(p, s, i) \/ (~Gone(s) => Informed(u, s, i))
    <2>1. CASE [from |-> s, ses |-> i] \in r.unresponse
        BY <1>5, <2>1 DEF Owes
    <2>2. CASE \E d \in Co : r.request[d] = [from |-> s, ses |-> i] /\ d \notin r.session_response
        <3>1. PICK d \in Co : r.request[d] = [from |-> s, ses |-> i] /\ d \notin r.session_response
            BY <2>2
        <3>2. CASE d = c
            BY <1>3, <1>7, <3>1, <3>2
        <3>3. CASE d # c
            BY <1>4, <1>5, <3>1, <3>3 DEF Owes
        <3> QED BY <3>2, <3>3
    <2> QED BY <1>8, <2>1, <2>2 DEF Owes
<1>9. Honest(u, p)
    BY <1>1, <1>5, <1>6, <1>7, <1>8, PaidHonest DEF r, Modes
<1> QED BY <1>2, <1>9, HonestStep

\* skynet.response: the closure takes the debt over.
LEMMA DeferCall ==
    ASSUME CallInv, SessionInv', NEW u \in Services, Defer(u)
    PROVE  CallInv'
<1> DEFINE r == st[u]
           c == r.cur
           j == Mine(u)
           p == [r EXCEPT !.session_response = @ \cup {c},
                          !.unresponse = @ \cup {j}, !.watching_service[j.from] = @ + 1]
<1>1. /\ Kept(r) /\ Counts(r) /\ Debts(r) /\ DOMAIN r = Fields /\ r.mode = "run"
      /\ r.at[c] = "run"
    BY BeforeCall DEF Defer, Running
<1>2. Set(u, p) /\ q' = q
    BY DEF Defer
<1>3. c \in Co /\ r.request[c] = j
    BY <1>1, MineType DEF Mine, CallInv
<1> HIDE DEF r, c, j
<1>4. /\ Keeps(p, r, Fields \ {"session_response", "unresponse", "watching_service"})
      /\ p.session_response = r.session_response \cup {c}
      /\ p.unresponse = r.unresponse \cup {j}
    BY <1>1 DEF Keeps, Fields
<1> HIDE DEF p
<1>5. /\ Keeps(p, r, {"alive", "watching_session", "error_queue", "dead_service"})
      /\ r.mute \subseteq p.mute
      /\ p.alive = r.alive /\ p.watching_session = r.watching_session
      /\ p.request = r.request /\ p.at = r.at /\ p.mode = "run"
    BY <1>1, <1>4 DEF Keeps, Fields
<1>6. Debts(p)
    BY <1>1, <1>3, <1>4, <1>5 DEF Debts
<1>7. OldMail(u, p) /\ NewMail(u, p)
    BY <1>2, SameMail
<1>8. \A s \in Services, i \in Nat \ {0} : Owes(r, s, i) => Owes(p, s, i)
    BY <1>3, <1>4, <1>5 DEF Owes
<1>9. Honest(u, p)
    BY <1>1, <1>5, <1>6, <1>7, <1>8, PaidHonest DEF r, Modes
<1> QED BY <1>2, <1>9, HonestStep

\* A closure of skynet.response is called.
LEMMA RespondCall ==
    ASSUME CallInv, SessionInv', NEW u \in Services, NEW j \in st[u].unresponse, Respond(u, j)
    PROVE  CallInv'
<1> DEFINE r == st[u]
           k == [r EXCEPT !.unresponse = @ \ {j}]
           p == Released(k, j.from)
<1>1. /\ Kept(r) /\ Counts(r) /\ Debts(r) /\ DOMAIN r = Fields /\ r.mode = "run"
    BY BeforeCall DEF Respond, Running
<1>2. Set(u, p) /\ Answered(u, j.from, j.ses)
    BY DEF Respond, Answered
<1>3. j.ses \in Nat \ {0} /\ j.from \in Who
    BY <1>1 DEF Counts, Promises
<1> HIDE DEF r
<1>4. Keeps(k, r, Fields \ {"unresponse"}) /\ k.unresponse = r.unresponse \ {j}
    BY <1>1 DEF Keeps, Fields
<1> HIDE DEF k
<1>5. Keeps(p, k, Fields \ {"watching_service"})
    <2>1. DOMAIN k = Fields
        BY <1>4 DEF Keeps
    <2> QED BY <2>1, ReleasedFields
<1> HIDE DEF p
<1>6. /\ Keeps(p, r, {"alive", "watching_session", "error_queue", "dead_service"})
      /\ r.mute \subseteq p.mute
      /\ p.alive = r.alive /\ p.watching_session = r.watching_session
      /\ p.session_response = r.session_response /\ p.unresponse = r.unresponse \ {j}
      /\ p.request = r.request /\ p.at = r.at /\ p.mode = "run"
    BY <1>1, <1>4, <1>5 DEF Keeps, Fields
<1>7. Debts(p)
    BY <1>1, <1>6 DEF Debts
<1>8. /\ OldMail(u, p) /\ NewMail(u, p)
      /\ j.from \in Services /\ ~Gone(j.from) => Informed(u, j.from, j.ses)
    BY <1>2, <1>3, AnswerMail
<1>9. ASSUME NEW s \in Services, NEW i \in Nat \ {0}, Owes(r, s, i)
      PROVE  Owes(p, s, i) \/ (~Gone(s) => Informed(u, s, i))
    <2>1. CASE [from |-> s, ses |-> i] \in r.unresponse
        <3>1. CASE j = [from |-> s, ses |-> i]
            BY <1>8, <3>1
        <3>2. CASE j # [from |-> s, ses |-> i]
            BY <1>6, <2>1, <3>2 DEF Owes
        <3> QED BY <3>1, <3>2
    <2>2. CASE \E d \in Co : r.request[d] = [from |-> s, ses |-> i] /\ d \notin r.session_response
        BY <1>6, <2>2 DEF Owes
    <2> QED BY <1>9, <2>1, <2>2 DEF Owes
<1>10. Honest(u, p)
    BY <1>1, <1>6, <1>7, <1>8, <1>9, PaidHonest DEF r, Modes
<1> QED BY <1>2, <1>10, HonestStep

\* A handler returns: it has answered, or it never will.
LEMMA ReturnCall ==
    ASSUME CallInv, SessionInv', NEW u \in Services, Return(u)
    PROVE  CallInv'
<1> DEFINE r == st[u]
           c == r.cur
           a == Append(r.coroutine_pool, c)
           l == IF Mine(u).ses > 0 /\ c \notin r.session_response
                THEN r.mute \cup {Request(Mine(u))} ELSE r.mute
           done == [r EXCEPT !.mode = "wake", !.cur = Nil, !.at[c] = "pool",
                      !.coroutine_pool = a, !.request[c] = None,
                      !.session_response = @ \ {c}, !.mute = l]
           b == Mine(u).from
<1>1. /\ Kept(r) /\ Counts(r) /\ Debts(r) /\ DOMAIN r = Fields /\ r.mode = "run"
    BY BeforeCall DEF Return, Running
<1>2. q' = q /\ (Set(u, done) \/ Set(u, Released(done, b)))
    BY DEF Return
<1>3. /\ c \in Co /\ r.request[c].ses \in Int /\ r.mute \subseteq l
      /\ r.request[c].ses > 0 /\ c \notin r.session_response =>
           Msg("req", r.request[c].from, r.request[c].ses) \in l
    BY <1>1, MineType DEF Mine, CallInv, Request
<1> HIDE DEF r, a, c, b, l
<1>4. /\ Keeps(done, r, Fields \ {"mode", "cur", "at", "coroutine_pool", "request",
                                 "session_response", "mute"})
      /\ done.mode = "wake" /\ done.at = [r.at EXCEPT ![c] = "pool"]
      /\ done.request = [r.request EXCEPT ![c] = None]
      /\ done.session_response = r.session_response \ {c} /\ done.mute = l
    BY <1>1 DEF Keeps, Fields
<1> HIDE DEF done
<1>5. DOMAIN done = Fields
    BY <1>4 DEF Keeps
<1>6. Keeps(Released(done, b), done, Fields \ {"watching_service"})
    BY <1>5, ReleasedFields
<1>7. Keeps(done, done, Fields \ {"watching_service"})
    BY <1>5 DEF Keeps
<1>8. ASSUME NEW p, Set(u, p), Keeps(p, done, Fields \ {"watching_service"})
      PROVE  CallInv'
    <2>1. /\ p.mode = "wake" /\ p.at = [r.at EXCEPT ![c] = "pool"]
          /\ p.request = [r.request EXCEPT ![c] = None]
          /\ p.session_response = r.session_response \ {c} /\ p.mute = l
          /\ Keeps(p, done, {"alive", "watching_session", "error_queue", "dead_service",
                             "unresponse"})
        BY <1>4, <1>8 DEF Keeps, Fields
    <2>2. /\ Keeps(p, r, {"alive", "watching_session", "error_queue", "dead_service"})
          /\ r.mute \subseteq p.mute
          /\ p.alive = r.alive /\ p.watching_session = r.watching_session
          /\ p.unresponse = r.unresponse
        BY <1>3, <1>4, <2>1 DEF Keeps, Fields
    <2>3. r.at \in [Co -> States] /\ r.request \in [Co -> [from : Who, ses : Int]]
        BY <1>1 DEF Kept, Shape, Counts
    <2>4. Debts(p)
        BY <1>1, <1>3, <2>1, <2>2, <2>3 DEF Debts
    <2>5. OldMail(u, p) /\ NewMail(u, p)
        BY <1>2, SameMail
    <2>6. ASSUME NEW s \in Services, NEW i \in Nat \ {0}, Owes(r, s, i)
          PROVE  Owes(p, s, i) \/ Msg("req", s, i) \in p.mute
        <3>1. CASE [from |-> s, ses |-> i] \in r.unresponse
            BY <2>2, <3>1 DEF Owes
        <3>2. CASE \E d \in Co :
                     r.request[d] = [from |-> s, ses |-> i] /\ d \notin r.session_response
            <4>1. PICK d \in Co :
                     r.request[d] = [from |-> s, ses |-> i] /\ d \notin r.session_response
                BY <3>2
            <4>2. CASE d = c
                BY <1>3, <2>1, <4>1, <4>2
            <4>3. CASE d # c
                BY <2>1, <2>3, <4>1, <4>3 DEF Owes
            <4> QED BY <4>2, <4>3
        <3> QED BY <2>6, <3>1, <3>2 DEF Owes
    <2>7. Honest(u, p)
        BY <1>1, <2>1, <2>2, <2>4, <2>5, <2>6, PaidHonest DEF r, Modes
    <2> QED BY <1>8, <2>7, HonestStep
<1> QED BY <1>2, <1>6, <1>7, <1>8

\* A handler fails: its caller is told.
LEMMA DiedCall ==
    ASSUME CallInv, SessionInv', NEW u \in Services, st[u].mode = "run", Died(u, st[u])
    PROVE  CallInv'
<1> DEFINE r == st[u]
           c == r.cur
           open == IF c \in r.inside THEN HandOver(r) ELSE r
           k == [open EXCEPT !.at[c] = "dead", !.request[c] = None]
           p == Thrown(k)
           n == Mine(u).ses
           a == Mine(u).from
<1>1. /\ Kept(r) /\ Counts(r) /\ Debts(r) /\ DOMAIN r = Fields
      /\ r.thread_queue \in Seq(Co) /\ r.wakeup_queue \in Seq(Co)
      /\ DOMAIN r.sleep_session \subseteq Co /\ r.mode = "run"
    BY BeforeCall DEF Kept, Shape, Sessions
<1>2. Set(u, p) /\ q' = IF n > 0 THEN Post(a, Msg("err", u, n)) ELSE q
    BY DEF Died
<1>3. c \in Co /\ n \in Int /\ r.request[c].from = a /\ r.request[c].ses = n
    BY MineType DEF Mine, CallInv
<1> HIDE DEF r, c, n, a
<1>4. Keeps(open, r, Fields \ {"ref", "inside", "current_thread", "thread_queue",
                               "wakeup_queue"})
    <2>1. Keeps(HandOver(r), r, Fields \ {"ref", "inside", "current_thread",
                                         "thread_queue", "wakeup_queue"})
        BY <1>1, HandOverFields
    <2>2. Keeps(r, r, Fields \ {"ref", "inside", "current_thread", "thread_queue",
                                "wakeup_queue"})
        BY <1>1 DEF Keeps
    <2> QED BY <2>1, <2>2
<1> HIDE DEF open
<1>5. /\ Keeps(k, open, Fields \ {"at", "request"})
      /\ k.at = [open.at EXCEPT ![c] = "dead"] /\ k.request = [open.request EXCEPT ![c] = None]
    BY <1>4 DEF Keeps, Fields
<1> HIDE DEF k
<1>6. Keeps(p, k, Fields \ {"mode", "cur", "depth"}) /\ p.mode = "fork"
    BY <1>5, ThrownFields DEF Keeps
<1> HIDE DEF p
<1>7. /\ Keeps(p, r, {"alive", "watching_session", "error_queue", "dead_service"})
      /\ r.mute \subseteq p.mute
      /\ p.at = [r.at EXCEPT ![c] = "dead"] /\ p.request = [r.request EXCEPT ![c] = None]
      /\ p.alive = r.alive /\ p.watching_session = r.watching_session
      /\ p.session_response = r.session_response /\ p.unresponse = r.unresponse
    BY <1>4, <1>5, <1>6 DEF Keeps, Fields
<1>8. r.at \in [Co -> States] /\ r.request \in [Co -> [from : Who, ses : Int]]
    BY <1>1 DEF Kept, Shape, Counts
<1>9. Debts(p)
    BY <1>1, <1>3, <1>7, <1>8 DEF Debts
<1>10. /\ OldMail(u, p) /\ NewMail(u, p)
       /\ n > 0 /\ a \in Services /\ ~Gone(a) => Informed(u, a, n)
    <2>1. CASE n > 0
        <3>1. Answered(u, a, n) /\ n \in Nat \ {0}
            BY <1>2, <1>3, <2>1 DEF Answered, Answers
        <3> QED BY <3>1, AnswerMail
    <2>2. CASE ~(n > 0)
        BY <1>2, <2>2, SameMail
    <2> QED BY <2>1, <2>2
<1>11. ASSUME NEW s \in Services, NEW i \in Nat \ {0}, Owes(r, s, i)
       PROVE  Owes(p, s, i) \/ (~Gone(s) => Informed(u, s, i))
    <2>1. CASE [from |-> s, ses |-> i] \in r.unresponse
        BY <1>7, <2>1 DEF Owes
    <2>2. CASE \E d \in Co : r.request[d] = [from |-> s, ses |-> i] /\ d \notin r.session_response
        <3>1. PICK d \in Co : r.request[d] = [from |-> s, ses |-> i] /\ d \notin r.session_response
            BY <2>2
        <3>2. CASE d = c
            BY <1>3, <1>10, <3>1, <3>2
        <3>3. CASE d # c
            BY <1>7, <1>8, <3>1, <3>3 DEF Owes
        <3> QED BY <3>2, <3>3
    <2> QED BY <1>11, <2>1, <2>2 DEF Owes
<1>12. Honest(u, p)
    BY <1>1, <1>6, <1>7, <1>9, <1>10, <1>11, PaidHonest DEF r, Modes
<1> QED BY <1>2, <1>12, HonestStep

\* skynet.exit: everybody who waits for an answer is told.
LEMMA ExitCall ==
    ASSUME CallInv, SessionInv', NEW u \in Services, Exit(u)
    PROVE  CallInv'
<1> DEFINE r == st[u]
           w == [a \in DOMAIN r.watching_service |->
                   r.watching_service[a] - Cardinality({j \in r.unresponse : j.from = a})]
           p == [r EXCEPT !.mode = "exit", !.fork_queue = {}, !.unresponse = {},
                          !.watching_service = w]
<1>1. /\ Kept(r) /\ Counts(r) /\ Debts(r) /\ DOMAIN r = Fields /\ r.mode = "run"
    BY BeforeCall DEF Exit, Running
<1>2. Set(u, p)
    BY DEF Exit
<1>3. /\ \A t \in Services : Grows(q[t], q'[t])
      /\ \A t \in Services : st[t].alive =>
           \E e : /\ Reported(e, u, t)
                  /\ \A i \in DOMAIN e : \E j \in DOMAIN q'[t] : q'[t][j] = Msg("err", u, e[i])
      /\ \A t \in Services : \A j \in DOMAIN q'[t] :
           \/ \E i \in DOMAIN q[t] : q'[t][j] = q[t][i]
           \/ \E n : q'[t][j] = Msg("err", u, n)
    BY ExitMail DEF CallInv
<1> HIDE DEF r, w
<1>4. /\ Keeps(p, r, Fields \ {"mode", "fork_queue", "unresponse", "watching_service"})
      /\ p.mode = "exit"
    BY <1>1 DEF Keeps, Fields
<1> HIDE DEF p
<1>5. /\ DOMAIN p = Fields /\ p.alive = r.alive /\ p.at = r.at /\ p.request = r.request
      /\ p.session_response = r.session_response /\ p.dead_service = r.dead_service
      /\ p.watching_session = r.watching_session /\ p.error_queue = r.error_queue
      /\ p.mute = r.mute
    BY <1>4 DEF Keeps, Fields
<1>6. Debts(p) /\ Over(p)
    BY <1>1, <1>4, <1>5 DEF Debts, Over
<1>7. Watchful(u, p)
    BY <1>5, Watched DEF Failing, r
<1>8. OldMail(u, p)
    BY <1>3 DEF OldMail, Grows
<1>9. NewMail(u, p)
    <2>1. \A x, n : Msg("err", u, n) = Msg("err", x, 0) => x = u
        BY DEF Msg
    <2> QED BY <1>3, <1>6, <2>1 DEF NewMail
<1>10. ASSUME NEW s \in Services, NEW n \in Nat \ {0}, ~Gone(s), Owes(r, s, n)
       PROVE  \E j \in DOMAIN q'[s] : q'[s][j] = Msg("err", u, n)
    <2>1. st[s].alive
        BY <1>10 DEF Gone, Over
    <2>2. s \notin r.dead_service
        BY <1>10 DEF CallInv, DeadGone, r
    <2>3. n \in Asked(r, s) \cup Owed(r, s)
        <3>1. CASE [from |-> s, ses |-> n] \in r.unresponse
            <4>1. [from |-> s, ses |-> n].ses = n /\ [from |-> s, ses |-> n].from = s
                OBVIOUS
            <4> QED BY <2>2, <3>1, <4>1 DEF Owed
        <3>2. CASE \E d \in Co :
                     r.request[d] = [from |-> s, ses |-> n] /\ d \notin r.session_response
            <4>1. PICK d \in Co : r.request[d] = [from |-> s, ses |-> n]
                BY <3>2
            <4>2. r.request[d].ses = n /\ r.request[d].from = s /\ n > 0
                BY <4>1
            <4> QED BY <4>2 DEF Asked
        <3> QED BY <1>10, <3>1, <3>2 DEF Owes
    <2>4. PICK e : /\ Reported(e, u, s)
                   /\ \A i \in DOMAIN e : \E j \in DOMAIN q'[s] : q'[s][j] = Msg("err", u, e[i])
        BY <1>3, <2>1
    <2>5. PICK i \in DOMAIN e : e[i] = n
        BY <2>3, <2>4 DEF Reported, r
    <2> QED BY <2>4, <2>5
<1>11. Answering(u, p)
    BY <1>10 DEF Answering, r
<1>12. Honest(u, p)
    BY <1>4, <1>5, <1>6, <1>7, <1>8, <1>9, <1>11 DEF Honest, Modes, r
<1> QED BY <1>2, <1>12, HonestStep

\* The handle is retired: all reports were sent.
LEMMA RetireCall ==
    ASSUME CallInv, SessionInv', NEW u \in Services, Retire(u)
    PROVE  CallInv'
<1> DEFINE r == st[u]
           m == IF r.depth > 0 THEN "err" ELSE "fork"
           p == [r EXCEPT !.alive = FALSE, !.at[r.cur] = "lost", !.cur = Nil, !.mode = m,
                          !.depth = IF @ > 0 THEN @ - 1 ELSE 0]
<1>1. /\ Kept(r) /\ Debts(r) /\ DOMAIN r = Fields /\ r.mode = "exit" /\ r.at \in [Co -> States]
    BY BeforeCall DEF Retire, Kept, Shape
<1>2. Set(u, p) /\ q' = q
    BY DEF Retire
<1>3. m \in Modes
    BY DEF Modes
<1> HIDE DEF r, m
<1>4. /\ DOMAIN p = Fields /\ p.alive = FALSE /\ p.mode = m
      /\ p.at = [r.at EXCEPT ![r.cur] = "lost"] /\ p.request = r.request
      /\ p.session_response = r.session_response /\ p.dead_service = r.dead_service
      /\ p.watching_session = r.watching_session /\ p.error_queue = r.error_queue
      /\ p.mute = r.mute
    BY <1>1 DEF Fields
<1> HIDE DEF p
<1>5. Debts(p) /\ Over(p)
    BY <1>1, <1>4 DEF Debts, Over
<1>6. Watchful(u, p)
    BY <1>4, Watched DEF Failing, r
<1>7. OldMail(u, p) /\ NewMail(u, p)
    BY <1>2, SameMail
<1>8. Answering(u, p)
    BY <1>1 DEF Answering, Gone, Over, r
<1>9. Honest(u, p)
    BY <1>3, <1>4, <1>5, <1>6, <1>7, <1>8 DEF Honest, r
<1> QED BY <1>2, <1>9, HonestStep

\* A service is killed: what it owes it will never answer.
LEMMA KillCall ==
    ASSUME CallInv, SessionInv', NEW u \in Services, Kill(u)
    PROVE  CallInv'
<1> DEFINE r == st[u]
           l == r.mute \cup {Request(j) : j \in Unanswered(r)}
           p == [r EXCEPT !.alive = FALSE, !.mute = l]
<1>1. st' = [st EXCEPT ![u] = p] /\ q' = q
    BY DEF Kill
<1>2. /\ Debts(r) /\ DOMAIN r = Fields /\ r.mode \in Modes
    BY BeforeCall
<1>3. \A s, n : n \in Nat \ {0} /\ Owes(r, s, n) => Msg("req", s, n) \in l
    <2> SUFFICES ASSUME NEW s, NEW n \in Nat \ {0}, Owes(r, s, n)
                 PROVE  Msg("req", s, n) \in l
        OBVIOUS
    <2> DEFINE j == [from |-> s, ses |-> n]
    <2>1. j.from = s /\ j.ses = n /\ n > 0
        OBVIOUS
    <2>2. j \in Unanswered(r)
        BY <2>1 DEF Owes, Unanswered
    <2>3. Request(j) = Msg("req", s, n)
        BY <2>1 DEF Request
    <2> QED BY <2>2, <2>3
<1>4. r.mute \subseteq l
    OBVIOUS
<1> HIDE DEF r, l
<1>5. /\ Keeps(p, r, Fields \ {"alive", "mute"}) /\ p.alive = FALSE /\ p.mute = l
    BY <1>2 DEF Keeps, Fields
<1> HIDE DEF p
<1>6. /\ DOMAIN p = Fields /\ p.mode = r.mode /\ p.at = r.at /\ p.request = r.request
      /\ p.session_response = r.session_response /\ p.dead_service = r.dead_service
      /\ p.watching_session = r.watching_session /\ p.error_queue = r.error_queue
    BY <1>5 DEF Keeps, Fields
<1>7. Debts(p) /\ Over(p)
    BY <1>2, <1>5, <1>6 DEF Debts, Over
<1>8. Watchful(u, p)
    BY <1>6, Watched DEF Failing, r
<1>9. OldMail(u, p) /\ NewMail(u, p)
    BY <1>1, SameMail
<1>10. Answering(u, p)
    BY <1>3, <1>5 DEF Answering, r
<1>11. Honest(u, p)
    BY <1>2, <1>4, <1>5, <1>6, <1>7, <1>8, <1>9, <1>10 DEF Honest, r
<1>12. Keeps(p, p, Fields \ {"mode", "depth"})
    BY <1>6 DEF Keeps
<1> QED BY <1>1, <1>11, <1>12, HonestChange

\* Where the answer to a call is to come from, with the debts named.
LEMMA Expected ==
    ASSUME NEW s, NEW t, NEW n
    PROVE  OnItsWay(s, t, n) <=>
             \/ Failing(st[s], n)
             \/ \E i \in DOMAIN q[s] :
                  q[s][i] \in {Msg("resp", t, n), Msg("err", t, n), Msg("err", t, 0)}
             \/ \E i \in DOMAIN q[t] : q[t][i] = Msg("req", s, n)
             \/ Msg("req", s, n) \in st[t].mute
             \/ ~Gone(t) /\ Owes(st[t], s, n)
BY DEF OnItsWay, Failing, Owes

\* A context is deleted: who has sent to it gets an error.
LEMMA DropCall ==
    ASSUME CallInv, SessionInv', NEW u \in Services, Drop(u)
    PROVE  CallInv'
<1> DEFINE p == [Empty EXCEPT !.alive = FALSE, !.mode = "closed", !.mute = st[u].mute]
<1>1. st' = [st EXCEPT ![u] = p] /\ st = [t \in Services |-> st[t]]
    BY DEF Drop, CallInv, SessionInv, SchedulerInv
<1>2. /\ OthersGrow(u) /\ q'[u] = <<>>
      /\ \A t \in Services \ {u} : \A j \in DOMAIN q'[t] :
           (\E i \in DOMAIN q[t] : q'[t][j] = q[t][i]) \/ q'[t][j] = Msg("err", u, 0)
      /\ \A t \in Services \ {u} : \A k \in DOMAIN q[u] :
           st[t].alive /\ q[u][k].from = t =>
             \E j \in DOMAIN q'[t] : q'[t][j] = Msg("err", u, 0)
    BY DropMail DEF CallInv, SessionInv
<1>3. /\ DOMAIN p = Fields /\ p.alive = FALSE /\ p.mute = st[u].mute
      /\ p.at = [c \in Co |-> "pool"] /\ p.request = [c \in Co |-> None]
      /\ p.session_response = {} /\ p.watching_session = <<>> /\ p.dead_service = {}
    BY EmptyFields DEF Fields
<1> HIDE DEF p
<1>4. st'[u] = p /\ \A t \in Services : t # u => st'[t] = st[t]
    BY <1>1
<1>5. Gone(u) /\ Over(st'[u])
    BY <1>3, <1>4 DEF Drop, Gone, Over
<1>6. \A t \in Services : Over(st'[t]) <=> Gone(t)
    BY <1>4, <1>5 DEF Gone
<1>7. \A s \in Services : Debts(st'[s])
    <2>1. DOMAIN <<>> = {} /\ <<>> \in [{} -> Services]
        OBVIOUS
    <2>2. Debts(p)
        BY <1>3, <2>1 DEF Debts
    <2> QED BY <1>4, <2>2 DEF CallInv
<1>8. DeadGone'
    <2> SUFFICES ASSUME NEW s \in Services, NEW t \in Services
                 PROVE  /\ t \in st'[s].dead_service => Over(st'[t])
                        /\ \A i \in DOMAIN q'[s] : q'[s][i] = Msg("err", t, 0) => Over(st'[t])
        BY DEF DeadGone, Gone
    <2>1. /\ t \in st[s].dead_service => Gone(t)
          /\ \A i \in DOMAIN q[s] : q[s][i] = Msg("err", t, 0) => Gone(t)
        BY DEF CallInv, DeadGone
    <2>2. CASE s = u
        BY <1>2, <1>3, <1>4, <2>2
    <2>3. CASE s # u
        <3>1. Msg("err", u, 0) = Msg("err", t, 0) => t = u
            BY DEF Msg
        <3> QED BY <1>2, <1>4, <1>5, <1>6, <2>1, <2>3, <3>1
    <2> QED BY <2>2, <2>3
<1>9. ASSUME NEW s \in Services, ~Over(st'[s]), NEW n \in DOMAIN st'[s].watching_session
      PROVE  (OnItsWay(s, st[s].watching_session[n], n))'
    <2> DEFINE t == st'[s].watching_session[n]
    <2>1. s # u /\ st'[s] = st[s] /\ ~Gone(s) /\ st[s].alive
        BY <1>4, <1>5, <1>6, <1>9 DEF Gone, Over
    <2>2. t \in Services
        BY <1>7 DEF Debts
    <2>3. OnItsWay(s, t, n)
        BY <1>9, <2>1 DEF CallInv
    <2> HIDE DEF t
    <2>4. \/ Failing(st[s], n)
          \/ \E i \in DOMAIN q[s] :
               q[s][i] \in {Msg("resp", t, n), Msg("err", t, n), Msg("err", t, 0)}
          \/ \E i \in DOMAIN q[t] : q[t][i] = Msg("req", s, n)
          \/ Msg("req", s, n) \in st[t].mute
          \/ ~Gone(t) /\ Owes(st[t], s, n)
        BY <2>3, Expected
    <2> SUFFICES
            \/ Failing(st'[s], n)
            \/ \E i \in DOMAIN q'[s] :
                 q'[s][i] \in {Msg("resp", t, n), Msg("err", t, n), Msg("err", t, 0)}
            \/ \E i \in DOMAIN q'[t] : q'[t][i] = Msg("req", s, n)
            \/ Msg("req", s, n) \in st'[t].mute
            \/ ~Over(st'[t]) /\ Owes(st'[t], s, n)
        BY DEF OnItsWay, Owes, Failing, Gone, t
    <2>5. Grows(q[s], q'[s]) /\ (t # u => Grows(q[t], q'[t]))
        BY <1>2, <2>1, <2>2 DEF OthersGrow
    <2>6. CASE \E i \in DOMAIN q[t] : q[t][i] = Msg("req", s, n)
        <3>1. CASE t # u
            BY <2>5, <2>6, <3>1 DEF Grows
        <3>2. CASE t = u
            <4>1. PICK i \in DOMAIN q[u] : q[u][i] = Msg("req", s, n)
                BY <2>6, <3>2
            <4>2. q[u][i].from = s
                BY <4>1 DEF Msg
            <4> QED BY <1>2, <2>1, <3>2, <4>2
        <3> QED BY <3>1, <3>2
    <2>7. CASE \E i \in DOMAIN q[s] :
                 q[s][i] \in {Msg("resp", t, n), Msg("err", t, n), Msg("err", t, 0)}
        BY <2>5, <2>7 DEF Grows
    <2>8. CASE Msg("req", s, n) \in st[t].mute
        BY <1>3, <1>4, <2>2, <2>8
    <2>9. CASE ~Gone(t) /\ Owes(st[t], s, n)
        BY <1>4, <1>5, <1>6, <2>2, <2>9
    <2> QED BY <2>1, <2>4, <2>6, <2>7, <2>8, <2>9
<1> QED BY <1>7, <1>8, <1>9 DEF CallInv, Gone

\* A message nobody waits for, and a timer that fires.
LEMMA ArriveCall ==
    ASSUME CallInv, SessionInv', UNCHANGED st, NEW a, NEW m \in Messages, m.type # "err",
           q' = Post(a, m)
    PROVE  CallInv'
<1>1. /\ \A t \in Services : Grows(q[t], q'[t])
      /\ \A t \in Services : \A i \in DOMAIN q'[t] :
           q'[t][i] = m \/ \E j \in DOMAIN q[t] : q[t][j] = q'[t][i]
    BY PostGrows DEF CallInv, SessionInv
<1>2. \A t : m # Msg("err", t, 0)
    BY DEF Msg
<1>3. DeadGone'
    BY <1>1, <1>2 DEF DeadGone, Gone, CallInv
<1>4. ASSUME NEW s \in Services, ~Gone(s), NEW n \in DOMAIN st[s].watching_session
      PROVE  (OnItsWay(s, st[s].watching_session[n], n))'
    <2> DEFINE t == st[s].watching_session[n]
    <2>1. OnItsWay(s, t, n) /\ t \in Services
        BY <1>4 DEF CallInv, Debts
    <2> HIDE DEF t
    <2>2. Grows(q[s], q'[s]) /\ Grows(q[t], q'[t])
        BY <1>1, <2>1
    <2>3. /\ \A x : (\E i \in DOMAIN q[s] : q[s][i] = x) => \E i \in DOMAIN q'[s] : q'[s][i] = x
          /\ \A x : (\E i \in DOMAIN q[t] : q[t][i] = x) => \E i \in DOMAIN q'[t] : q'[t][i] = x
        BY <2>2 DEF Grows
    <2> SUFFICES
            \/ \E i \in DOMAIN st[s].error_queue : st[s].error_queue[i] = n
            \/ \E i \in DOMAIN q'[s] :
                 q'[s][i] \in {Msg("resp", t, n), Msg("err", t, n), Msg("err", t, 0)}
            \/ \E i \in DOMAIN q'[t] : q'[t][i] = Msg("req", s, n)
            \/ Msg("req", s, n) \in st[t].mute
            \/ ~Gone(t) /\ Owes(st[t], s, n)
        BY DEF OnItsWay, Owes, Gone, t
    <2> QED BY <2>1, <2>3 DEF OnItsWay, Owes
<1> QED BY <1>3, <1>4 DEF CallInv, Gone

\* A request from outside is nobody's call.
LEMMA JobCall ==
    ASSUME CallInv, SessionInv', NEW u \in Services, Job(u)
    PROVE  CallInv'
<1>1. Msg("req", Outside, 0) \in Messages /\ Msg("req", Outside, 0).type # "err"
    BY DEF Msg, Messages, Who
<1>2. UNCHANGED st /\ q' = Post(u, Msg("req", Outside, 0))
    BY DEF Job
<1> QED BY <1>1, <1>2, ArriveCall

\* An answer of a timer is to no call.
LEMMA FireCall ==
    ASSUME CallInv, Timed, SessionInv', NEW x \in timers, Fire(x[1], x[2])
    PROVE  CallInv'
<1> DEFINE m == Msg("resp", Outside, x[2])
<1>1. m \in Messages /\ m.type # "err"
    BY DEF Msg, Messages, Who, Timed
<1>2. UNCHANGED st /\ q' = Post(x[1], m)
    BY DEF Fire
<1> HIDE DEF m
<1> QED BY <1>1, <1>2, ArriveCall

-----------------------------------------------------------------------------
(* The theorem about calls *)

\* At first nobody waits.
LEMMA CallInit == Init => CallInv
<1> SUFFICES ASSUME Init PROVE CallInv
    OBVIOUS
<1>1. SessionInv
    BY SessionInit
<1>2. \A s \in Services : st[s] = Empty /\ q[s] = <<>>
    BY DEF Init
<1>3. /\ Empty.alive = TRUE /\ Empty.at = [c \in Co |-> "pool"]
      /\ Empty.request = [c \in Co |-> None] /\ Empty.session_response = {}
      /\ Empty.watching_session = <<>> /\ Empty.dead_service = {}
    BY EmptyFields
<1>4. DOMAIN <<>> = {} /\ <<>> \in [{} -> Services]
    OBVIOUS
<1> HIDE DEF Empty
<1>5. Debts(Empty)
    BY <1>3, <1>4 DEF Debts
<1>6. DeadGone
    BY <1>2, <1>3, <1>4 DEF DeadGone
<1> QED BY <1>1, <1>2, <1>3, <1>4, <1>5, <1>6 DEF CallInv

\* Every step keeps the invariant.
LEMMA CallNext ==
    ASSUME CallInv, Timed, [Next]_vars PROVE CallInv'
<1>1. SessionInv'
    BY SessionNext DEF CallInv
<1>2. CASE UNCHANGED vars
    <2>1. UNCHANGED <<st, q, timers>>
        BY <1>2 DEF vars
    <2>2. DeadGone'
        BY <2>1 DEF CallInv, DeadGone, Gone
    <2>3. \A s \in Services : Debts(st'[s])
        BY <2>1 DEF CallInv
    <2>4. ASSUME NEW s \in Services, ~Gone(s), NEW n \in DOMAIN st[s].watching_session
          PROVE  (OnItsWay(s, st[s].watching_session[n], n))'
        <3>1. OnItsWay(s, st[s].watching_session[n], n)
            BY <2>4 DEF CallInv
        <3> QED BY <2>1, <3>1 DEF OnItsWay, Gone
    <2> QED BY <1>1, <2>1, <2>2, <2>3, <2>4 DEF CallInv, Gone
<1>3. ASSUME NEW s \in Services, Dispatch(s) PROVE CallInv'
    <2>1. CASE Take(s)
        <3>1. TakeHead(s)
            BY <2>1 DEF Take, TakeHead
        <3> QED BY <1>1, <2>1, <3>1, TakeResponseCall, TakeRequestCall, TakeErrorCall DEF Take
    <2> QED BY <1>1, <1>3, <2>1, DispatchWakeupCall, DispatchErrorCall, RunForksCall DEF Dispatch
<1>4. ASSUME NEW s \in Services, Code(s) PROVE CallInv'
    <2>1. CASE Raise(s) \/ FailAssert(s)
        <3>1. st[s].mode = "run" /\ Died(s, st[s])
            BY <2>1 DEF Raise, FailAssert, Running
        <3> QED BY <1>1, <3>1, DiedCall
    <2> QED BY <1>1, <1>4, <2>1, CallCall, SleepCall, CreateCall, WakeupCall, AnswerTwiceCall,
               RetCall, DeferCall, RespondCall, EnterCall, LeaveCall, ReturnCall, ExitCall,
               RetireCall DEF Code
<1> QED BY <1>1, <1>2, <1>3, <1>4, DropCall, KillCall, JobCall, WakeupCall, FireCall DEF Next

\* The property, from the invariant.
LEMMA CallFollow ==
    ASSUME CallInv PROVE NoCallForgotten
<1> SUFFICES ASSUME NEW s \in Services, st[s].alive /\ st[s].mode # "exit",
                    NEW n \in DOMAIN st[s].watching_session
             PROVE  LET r == st[s]
                        t == r.watching_session[n]
                        j == [from |-> s, ses |-> n]
                    IN  \/ n \in Range(r.error_queue)
                        \/ {Msg("resp", t, n), Msg("err", t, n), Msg("err", t, 0)}
                             \cap Range(q[s]) # {}
                        \/ Msg("req", s, n) \in Range(q[t]) \cup st[t].mute
                        \/ st[t].alive /\ (j \in st[t].unresponse
                             \/ \E c \in Co : st[t].request[c] = j
                                                /\ c \notin st[t].session_response)
    BY DEF NoCallForgotten
<1> DEFINE t == st[s].watching_session[n]
<1>1. OnItsWay(s, t, n)
    BY DEF CallInv, Gone, Over
<1> HIDE DEF t
<1>2. \/ Failing(st[s], n)
      \/ \E i \in DOMAIN q[s] :
           q[s][i] \in {Msg("resp", t, n), Msg("err", t, n), Msg("err", t, 0)}
      \/ \E i \in DOMAIN q[t] : q[t][i] = Msg("req", s, n)
      \/ Msg("req", s, n) \in st[t].mute
      \/ ~Gone(t) /\ Owes(st[t], s, n)
    BY <1>1, Expected
<1>3. \A f : \A i \in DOMAIN f : f[i] \in Range(f)
    BY DEF Range
<1>4. Failing(st[s], n) => n \in Range(st[s].error_queue)
    BY <1>3 DEF Failing
<1>5. ~Gone(t) => st[t].alive
    BY DEF Gone, Over
<1> QED BY <1>2, <1>3, <1>4, <1>5 DEF Owes, t

\* No call is forgotten (NoCallForgotten): while a service waits for an answer,
\* the request, the debt of a handler or of a response() closure, or the answer
\* or an error still exists, for every number of services, coroutines and
\* messages, through errors, skynet.exit and dropped mailboxes.  Excepted are
\* the requests the code does forget (mute): those whose handler returned without
\* answering, those a killed service had not answered, and those a service took
\* after its own exit.
THEOREM CallsRemembered == Spec => []NoCallForgotten
<1>1. Init => CallInv /\ Timed
    BY CallInit, SessionInit
<1>2. CallInv /\ Timed /\ [Next]_vars => (CallInv /\ Timed)'
    BY CallNext, TimedNext DEF CallInv
<1>3. CallInv => NoCallForgotten
    BY CallFollow
<1> QED BY <1>1, <1>2, <1>3, PTL DEF Spec

=============================================================================
