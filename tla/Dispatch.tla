------------------------------ MODULE Dispatch ------------------------------
(***************************************************************************)
(* The heart of skynet: worker threads that move service mailboxes between *)
(* the global run queue and themselves, and the reference-counted life of  *)
(* a service (skynet_server.c, with the mailbox flags of skynet_mq.c and   *)
(* the lookups of skynet_handle.c).                                        *)
(*                                                                         *)
(* A service is a context (struct skynet_context), an entry of the handle  *)
(* table and a mailbox (struct message_queue).  The three have different   *)
(* lifetimes: retiring the handle hides the service, the last reference    *)
(* deletes the context and marks the mailbox, and the worker that next     *)
(* meets the marked mailbox in the run queue drains and frees it.          *)
(*                                                                         *)
(* One step is one critical section (a spin-locked or rw-locked region) or *)
(* one atomic instruction.  A handle is not reused here (the handle table  *)
(* has a module of its own), so a service stands for its handle, context   *)
(* and mailbox at once.  Mailboxes are sequences; that the ring buffer     *)
(* behaves like one is shown in MailboxRing.                               *)
(***************************************************************************)
EXTENDS Integers, Sequences, FiniteSets

CONSTANTS
    Services,   \* every service that is ever launched
    Boot,       \* those launched by skynet_start, in that order
    BootMail,   \* what their init functions sent (snlua: one message to itself)
    Workers,    \* the worker threads
    Outside,    \* the timer, socket and monitor threads, which only push
    Weight,     \* worker_parm.weight of each worker
    MaxSend,    \* bound: sends and timer/socket events in a behaviour
    NoService   \* source 0, NULL queue

Threads == Workers \cup Outside

BootSet == {Boot[i] : i \in 1..Len(Boot)}

Maybe == Services \cup {NoService}
Message == [src : Maybe, type : {"request", "error"}]

ASSUME DispatchAssumption ==
    /\ NoService \notin Services
    /\ IsFiniteSet(Threads)
    /\ Workers \cap Outside = {}
    /\ Boot \in Seq(Services)
    /\ \A i, j \in 1..Len(Boot) : Boot[i] = Boot[j] => i = j
    /\ BootMail \in [Services -> Seq(Message)]
    /\ \A s \in Services : BootMail[s] # <<>> => s \in BootSet
    /\ Weight \in [Workers -> {-1, 0, 1, 2, 3}]
    /\ MaxSend \in Nat

VARIABLES
    slot,      \* handles present in the handle table
    ref,       \* ctx->ref
    ctxMem,    \* is the context allocated?
    mqMem,     \* is the mailbox allocated?
    mailbox,   \* the messages of the mailbox, oldest first
    inGlobal,  \* mq->in_global = MQ_IN_GLOBAL
    marked,    \* mq->release
    runq,      \* the global queue Q, head first
    total,     \* G_NODE.total
    sent,      \* sends so far
    pc,        \* what each thread does next
    cur,       \* worker: the mailbox q it owns
    nxt,       \* worker: the mailbox nq it popped while owning q
    left,      \* worker: messages left in this turn (n - i)
    tgt,       \* the context an operation works on
    out,       \* the message an operation is about to push
    ret,       \* where the operation returns to
    new        \* the service a thread is launching

kernel == <<slot, ref, ctxMem, mqMem, mailbox, inGlobal, marked, runq, total, sent>>
thread == <<pc, cur, nxt, left, tgt, out, ret, new>>
vars == <<kernel, thread>>

NoMessage == [src |-> NoService, type |-> "request"]

\* pcs of the worker loop (skynet_context_message_dispatch)
LoopPCs == {"fetch", "grab", "orphan", "drop", "pop", "length", "cb", "next", "putback"}
\* pcs of skynet_context_new while the new mailbox is in the launcher's hand
LaunchPCs == {"init", "setInit", "publish", "publishGone", "retire", "orphanNew", "dropNew"}
\* pcs of skynet_context_new and cmd_launch once the mailbox is in the run queue
AfterPCs == {"log", "answer"}
\* where the launcher uses the context although its reference is given back
LatePCs == {"setInit"} \cup AfterPCs
\* pcs of a push, of a reference release and of delete_context
OpPCs == {"bounce", "push", "unref", "mark"}
PCs == LoopPCs \cup LaunchPCs \cup AfterPCs \cup OpPCs \cup {"idle"}

\* where service code runs: in a callback, in an init function, or (for the
\* timer and the socket thread) in the loop of an outside thread
CodePCs == {"cb", "init", "idle"}

\* the service whose code thread t runs
Self(t) == CASE pc[t] = "cb" -> cur[t]
             [] pc[t] = "init" -> new[t]
             [] OTHER -> NoService

Set(f, t, v) == [f EXCEPT ![t] = v]
Pow2(k) == CASE k = 0 -> 1 [] k = 1 -> 2 [] k = 2 -> 4 [] k = 3 -> 8

\* Start a release of the reference to s that continues at pc r.
Unref(t, s, r) ==
    /\ pc' = Set(pc, t, "unref")
    /\ tgt' = Set(tgt, t, s)
    /\ ret' = Set(ret, t, r)

-----------------------------------------------------------------------------
(* Initial state: skynet_start has launched the Boot services. *)

Init ==
    /\ slot = BootSet
    /\ ref = [s \in Services |-> IF s \in BootSet THEN 1 ELSE 0]
    /\ ctxMem = [s \in Services |-> IF s \in BootSet THEN "live" ELSE "none"]
    /\ mqMem = [s \in Services |-> IF s \in BootSet THEN "live" ELSE "none"]
    /\ mailbox = BootMail
    /\ inGlobal = [s \in Services |-> s \in BootSet]
    /\ marked = [s \in Services |-> FALSE]
    /\ runq = Boot
    /\ total = Len(Boot)
    /\ sent = 0
    /\ pc = [t \in Threads |-> IF t \in Workers THEN "fetch" ELSE "idle"]
    /\ cur = [t \in Threads |-> NoService]
    /\ nxt = [t \in Threads |-> NoService]
    /\ left = [t \in Threads |-> 0]
    /\ tgt = [t \in Threads |-> NoService]
    /\ out = [t \in Threads |-> NoMessage]
    /\ ret = [t \in Threads |-> "idle"]
    /\ new = [t \in Threads |-> NoService]

-----------------------------------------------------------------------------
(* The worker loop: skynet_context_message_dispatch *)

\* q = skynet_globalmq_pop()
Fetch(t) ==
    /\ pc[t] = "fetch"
    /\ runq # <<>>
    /\ cur' = Set(cur, t, Head(runq))
    /\ runq' = Tail(runq)
    /\ pc' = Set(pc, t, "grab")
    /\ UNCHANGED <<slot, ref, ctxMem, mqMem, mailbox, inGlobal, marked, total, sent,
                   nxt, left, tgt, out, ret, new>>

\* ctx = skynet_handle_grab(handle)
Grab(t) ==
    /\ pc[t] = "grab"
    /\ \/ /\ cur[t] \in slot
          /\ ref' = Set(ref, cur[t], ref[cur[t]] + 1)
          /\ pc' = Set(pc, t, "pop")
          /\ left' = Set(left, t, -1)
       \/ /\ cur[t] \notin slot
          /\ pc' = Set(pc, t, "orphan")
          /\ UNCHANGED <<ref, left>>
    /\ UNCHANGED <<slot, ctxMem, mqMem, mailbox, inGlobal, marked, runq, total, sent,
                   cur, nxt, tgt, out, ret, new>>

\* Faulty form: the mailbox of a retired service is drained at once.
Orphan_Eager(t) ==
    /\ pc[t] = "orphan"
    /\ pc' = Set(pc, t, "drop")
    /\ UNCHANGED <<kernel, cur, nxt, left, tgt, out, ret, new>>

\* skynet_mq_release of the mailbox of a retired service: drain it when the
\* context is gone, else put it back until the last reference goes
Orphan(t) ==
    /\ pc[t] = "orphan"
    /\ \/ /\ marked[cur[t]]
          /\ pc' = Set(pc, t, "drop")
          /\ UNCHANGED <<runq, cur>>
       \/ /\ ~marked[cur[t]]
          /\ runq' = Append(runq, cur[t])
          /\ cur' = Set(cur, t, NoService)
          /\ pc' = Set(pc, t, "fetch")
    /\ UNCHANGED <<slot, ref, ctxMem, mqMem, mailbox, inGlobal, marked, total, sent,
                   nxt, left, tgt, out, ret, new>>

\* One round of _drop_queue on mailbox s: pop a message and answer its source
\* with an error (drop_message), or free the emptied mailbox.
DropRound(t, s, done) ==
    \/ /\ mailbox[s] # <<>>
       /\ mailbox' = Set(mailbox, s, Tail(mailbox[s]))
       /\ \/ /\ Head(mailbox[s]).src = NoService
             /\ UNCHANGED <<pc, tgt, out, ret>>
          \/ /\ Head(mailbox[s]).src # NoService
             /\ pc' = Set(pc, t, "bounce")
             /\ tgt' = Set(tgt, t, Head(mailbox[s]).src)
             /\ out' = Set(out, t, [src |-> s, type |-> "error"])
             /\ ret' = Set(ret, t, pc[t])
       /\ UNCHANGED <<inGlobal, mqMem, cur, new>>
    \/ /\ mailbox[s] = <<>>
       /\ inGlobal' = Set(inGlobal, s, FALSE)
       /\ mqMem' = Set(mqMem, s, "freed")
       /\ pc' = Set(pc, t, done)
       /\ cur' = IF done = "fetch" THEN Set(cur, t, NoService) ELSE cur
       /\ new' = IF done = "fetch" THEN new ELSE Set(new, t, NoService)
       /\ UNCHANGED <<mailbox, tgt, out, ret>>

Drop(t) ==
    /\ pc[t] = "drop"
    /\ DropRound(t, cur[t], "fetch")
    /\ UNCHANGED <<slot, ref, ctxMem, marked, runq, total, sent, nxt, left>>

\* Faulty form: the early return for an empty mailbox keeps the reference.
Pop_KeepsRef(t) ==
    /\ pc[t] = "pop"
    /\ \/ /\ mailbox[cur[t]] = <<>>
          /\ inGlobal' = Set(inGlobal, cur[t], FALSE)
          /\ pc' = Set(pc, t, "fetch")
          /\ cur' = Set(cur, t, NoService)
          /\ UNCHANGED <<mailbox, left>>
       \/ /\ mailbox[cur[t]] # <<>>
          /\ mailbox' = Set(mailbox, cur[t], Tail(mailbox[cur[t]]))
          /\ pc' = Set(pc, t, "cb")
          /\ left' = Set(left, t, 1)
          /\ UNCHANGED <<inGlobal, cur>>
    /\ UNCHANGED <<slot, ref, ctxMem, mqMem, marked, runq, total, sent, nxt, tgt, ret, out, new>>

\* skynet_mq_pop: an empty mailbox leaves the run queue (in_global = 0) and
\* the worker gives its reference back
Pop(t) ==
    /\ pc[t] = "pop"
    /\ \/ /\ mailbox[cur[t]] = <<>>
          /\ inGlobal' = Set(inGlobal, cur[t], FALSE)
          /\ Unref(t, cur[t], "fetch")
          /\ cur' = Set(cur, t, NoService)
          /\ UNCHANGED <<mailbox, left>>
       \/ /\ mailbox[cur[t]] # <<>>
          /\ mailbox' = Set(mailbox, cur[t], Tail(mailbox[cur[t]]))
          /\ pc' = Set(pc, t, IF left[t] = -1 /\ Weight[t] >= 0 THEN "length" ELSE "cb")
          /\ left' = IF left[t] = -1 THEN Set(left, t, 1) ELSE left
          /\ UNCHANGED <<inGlobal, tgt, ret, cur>>
    /\ UNCHANGED <<slot, ref, ctxMem, mqMem, marked, runq, total, sent, nxt, out, new>>

\* n = skynet_mq_length(q) >> weight, read when the first message is out
Length(t) ==
    /\ pc[t] = "length"
    /\ left' = Set(left, t, Len(mailbox[cur[t]]) \div Pow2(Weight[t]))
    /\ pc' = Set(pc, t, "cb")
    /\ UNCHANGED <<kernel, cur, nxt, tgt, out, ret, new>>

\* the callback returns; the turn goes on while i < n
CbReturn(t) ==
    /\ pc[t] = "cb"
    /\ left' = Set(left, t, left[t] - 1)
    /\ pc' = Set(pc, t, IF left[t] - 1 > 0 THEN "pop" ELSE "next")
    /\ UNCHANGED <<kernel, cur, nxt, tgt, out, ret, new>>

\* nq = skynet_globalmq_pop(): with nothing else to run, keep q
NextQueue(t) ==
    /\ pc[t] = "next"
    /\ \/ /\ runq # <<>>
          /\ nxt' = Set(nxt, t, Head(runq))
          /\ runq' = Tail(runq)
          /\ pc' = Set(pc, t, "putback")
          /\ UNCHANGED <<tgt, ret>>
       \/ /\ runq = <<>>
          /\ Unref(t, cur[t], "grab")
          /\ UNCHANGED <<runq, nxt>>
    /\ UNCHANGED <<slot, ref, ctxMem, mqMem, mailbox, inGlobal, marked, total, sent,
                   cur, left, out, new>>

\* skynet_globalmq_push(q); q = nq
PutBack(t) ==
    /\ pc[t] = "putback"
    /\ runq' = Append(runq, cur[t])
    /\ Unref(t, cur[t], "grab")
    /\ cur' = Set(cur, t, nxt[t])
    /\ nxt' = Set(nxt, t, NoService)
    /\ UNCHANGED <<slot, ref, ctxMem, mqMem, mailbox, inGlobal, marked, total, sent,
                   left, out, new>>

-----------------------------------------------------------------------------
(* Operations of service code and of the outside threads *)

\* Faulty form: the lookup takes no reference.
Send_NoGrab(t, d) ==
    /\ pc[t] \in CodePCs
    /\ sent < MaxSend
    /\ d \in slot
    /\ sent' = sent + 1
    /\ pc' = Set(pc, t, "push")
    /\ tgt' = Set(tgt, t, d)
    /\ out' = Set(out, t, [src |-> Self(t), type |-> "request"])
    /\ ret' = Set(ret, t, pc[t])
    /\ UNCHANGED <<slot, ref, ctxMem, mqMem, mailbox, inGlobal, marked, runq, total,
                   cur, nxt, left, new>>

\* skynet_send / skynet_context_push: the lookup.  A send to a retired
\* handle fails at once and changes nothing.
Send(t, d) ==
    /\ pc[t] \in CodePCs
    /\ sent < MaxSend
    /\ d \in slot
    /\ ref' = Set(ref, d, ref[d] + 1)
    /\ sent' = sent + 1
    /\ pc' = Set(pc, t, "push")
    /\ tgt' = Set(tgt, t, d)
    /\ out' = Set(out, t, [src |-> Self(t), type |-> "request"])
    /\ ret' = Set(ret, t, pc[t])
    /\ UNCHANGED <<slot, ctxMem, mqMem, mailbox, inGlobal, marked, runq, total,
                   cur, nxt, left, new>>

\* the lookup of drop_message's error reply
Bounce(t) ==
    /\ pc[t] = "bounce"
    /\ \/ /\ tgt[t] \in slot
          /\ ref' = Set(ref, tgt[t], ref[tgt[t]] + 1)
          /\ pc' = Set(pc, t, "push")
       \/ /\ tgt[t] \notin slot
          /\ pc' = Set(pc, t, ret[t])
          /\ UNCHANGED ref
    /\ UNCHANGED <<slot, ctxMem, mqMem, mailbox, inGlobal, marked, runq, total, sent,
                   cur, nxt, left, tgt, out, ret, new>>

\* skynet_mq_push: append, and enter the run queue if not in it already
Push(t) ==
    /\ pc[t] = "push"
    /\ mailbox' = Set(mailbox, tgt[t], Append(mailbox[tgt[t]], out[t]))
    /\ inGlobal' = Set(inGlobal, tgt[t], TRUE)
    /\ runq' = IF inGlobal[tgt[t]] THEN runq ELSE Append(runq, tgt[t])
    /\ pc' = Set(pc, t, "unref")
    /\ UNCHANGED <<slot, ref, ctxMem, mqMem, marked, total, sent,
                   cur, nxt, left, tgt, out, ret, new>>

\* Faulty form: the value before the decrement is tested.
Release_OldValue(t) ==
    /\ pc[t] = "unref"
    /\ ref' = Set(ref, tgt[t], ref[tgt[t]] - 1)
    /\ pc' = Set(pc, t, IF ref[tgt[t]] = 0 THEN "mark" ELSE ret[t])
    /\ UNCHANGED <<slot, ctxMem, mqMem, mailbox, inGlobal, marked, runq, total, sent,
                   cur, nxt, left, tgt, out, ret, new>>

\* skynet_context_release: ATOM_DEC(&ctx->ref), the last one deletes
Release(t) ==
    /\ pc[t] = "unref"
    /\ ref' = Set(ref, tgt[t], ref[tgt[t]] - 1)
    /\ pc' = Set(pc, t, IF ref[tgt[t]] = 1 THEN "mark" ELSE ret[t])
    /\ UNCHANGED <<slot, ctxMem, mqMem, mailbox, inGlobal, marked, runq, total, sent,
                   cur, nxt, left, tgt, out, ret, new>>

\* delete_context: mark the mailbox (skynet_mq_mark_release), which enters
\* the run queue if it is not in it, free the context, context_dec.  The
\* release then returns NULL, which only skynet_context_new looks at.
Delete(t) ==
    /\ pc[t] = "mark"
    /\ marked' = Set(marked, tgt[t], TRUE)
    /\ runq' = IF inGlobal[tgt[t]] THEN runq ELSE Append(runq, tgt[t])
    /\ ctxMem' = Set(ctxMem, tgt[t], "freed")
    /\ total' = total - 1
    /\ pc' = Set(pc, t, IF ret[t] = "setInit" THEN "publishGone" ELSE ret[t])
    /\ UNCHANGED <<slot, ref, mqMem, mailbox, inGlobal, sent,
                   cur, nxt, left, tgt, out, ret, new>>

\* skynet_handle_retire of a handle that is in the table (EXIT, KILL, ABORT)
Kill(t, h) ==
    /\ pc[t] \in {"cb", "init"}
    /\ h \in slot
    /\ slot' = slot \ {h}
    /\ Unref(t, h, pc[t])
    /\ UNCHANGED <<ref, ctxMem, mqMem, mailbox, inGlobal, marked, runq, total, sent,
                   cur, nxt, left, out, new>>

-----------------------------------------------------------------------------
(* skynet_context_new (LAUNCH) *)

\* Faulty form: the mailbox is created with in_global = 0.
Launch_NotInGlobal(t, s) ==
    /\ pc[t] = "cb"
    /\ ctxMem[s] = "none"
    /\ slot' = slot \cup {s}
    /\ ref' = Set(ref, s, 2)
    /\ ctxMem' = Set(ctxMem, s, "live")
    /\ mqMem' = Set(mqMem, s, "live")
    /\ total' = total + 1
    /\ new' = Set(new, t, s)
    /\ pc' = Set(pc, t, "init")
    /\ UNCHANGED <<mailbox, inGlobal, marked, runq, sent, cur, nxt, left, tgt, out, ret>>

\* register the handle, create the mailbox with in_global set, context_inc.
\* This is one step although the handle is in the table before ctx->queue is
\* set: the handle is a new number that no other thread has been told, so
\* only skynet_handle_retireall can meet the context in between, and it does
\* not touch the mailbox of a context that its creator still references.
Launch(t, s) ==
    /\ pc[t] = "cb"
    /\ ctxMem[s] = "none"
    /\ slot' = slot \cup {s}
    /\ ref' = Set(ref, s, 2)
    /\ ctxMem' = Set(ctxMem, s, "live")
    /\ mqMem' = Set(mqMem, s, "live")
    /\ inGlobal' = Set(inGlobal, s, TRUE)
    /\ total' = total + 1
    /\ new' = Set(new, t, s)
    /\ pc' = Set(pc, t, "init")
    /\ UNCHANGED <<mailbox, marked, runq, sent, cur, nxt, left, tgt, out, ret>>

\* the module's init function returns 0, or fails: in both cases the
\* creator's reference is released, ret = skynet_context_release(ctx)
InitReturn(t) ==
    /\ pc[t] = "init"
    /\ \E r \in {"setInit", "retire"} : Unref(t, new[t], r)
    /\ UNCHANGED <<kernel, cur, nxt, left, out, new>>

\* if (ret) ctx->init = true: a write without a reference.  The callbacks of
\* the service cannot see it missing (assert(ctx->init) of dispatch_message),
\* because the mailbox is still in the launcher's hand.
SetInit(t) ==
    /\ pc[t] = "setInit"
    /\ pc' = Set(pc, t, "publish")
    /\ UNCHANGED <<kernel, cur, nxt, left, tgt, out, ret, new>>

\* Faulty form: the mailbox of a launched service does not enter the run queue.
Publish_NoPush(t) ==
    /\ pc[t] \in {"publish", "publishGone"}
    /\ new' = Set(new, t, NoService)
    /\ pc' = Set(pc, t, IF pc[t] = "publish" THEN "log" ELSE "cb")
    /\ UNCHANGED <<kernel, cur, nxt, left, tgt, out, ret>>

\* success: skynet_globalmq_push(queue), even when init has already exited
\* and the creator's reference was the last one (ret is NULL)
Publish(t) ==
    /\ pc[t] \in {"publish", "publishGone"}
    /\ runq' = Append(runq, new[t])
    /\ new' = Set(new, t, NoService)
    /\ pc' = Set(pc, t, IF pc[t] = "publish" THEN "log" ELSE "cb")
    /\ UNCHANGED <<slot, ref, ctxMem, mqMem, mailbox, inGlobal, marked, total, sent,
                   cur, nxt, left, tgt, out, ret>>

\* if (ret) skynet_error(ret, "LAUNCH ..."): reads the context without a
\* reference
LogLaunch(t) ==
    /\ pc[t] = "log"
    /\ pc' = Set(pc, t, "answer")
    /\ UNCHANGED <<kernel, cur, nxt, left, tgt, out, ret, new>>

\* cmd_launch formats inst->handle: so does this
AnswerLaunch(t) ==
    /\ pc[t] = "answer"
    /\ pc' = Set(pc, t, "cb")
    /\ UNCHANGED <<kernel, cur, nxt, left, tgt, out, ret, new>>

\* failure: skynet_handle_retire(handle)
RetireNew(t) ==
    /\ pc[t] = "retire"
    /\ \/ /\ new[t] \in slot
          /\ slot' = slot \ {new[t]}
          /\ Unref(t, new[t], "orphanNew")
       \/ /\ new[t] \notin slot
          /\ pc' = Set(pc, t, "orphanNew")
          /\ UNCHANGED <<slot, tgt, ret>>
    /\ UNCHANGED <<ref, ctxMem, mqMem, mailbox, inGlobal, marked, runq, total, sent,
                   cur, nxt, left, out, new>>

\* failure: skynet_mq_release(queue)
OrphanNew(t) ==
    /\ pc[t] = "orphanNew"
    /\ \/ /\ marked[new[t]]
          /\ pc' = Set(pc, t, "dropNew")
          /\ UNCHANGED <<runq, new>>
       \/ /\ ~marked[new[t]]
          /\ runq' = Append(runq, new[t])
          /\ new' = Set(new, t, NoService)
          /\ pc' = Set(pc, t, "cb")
    /\ UNCHANGED <<slot, ref, ctxMem, mqMem, mailbox, inGlobal, marked, total, sent,
                   cur, nxt, left, tgt, out, ret>>

DropNew(t) ==
    /\ pc[t] = "dropNew"
    /\ DropRound(t, new[t], "cb")
    /\ UNCHANGED <<slot, ref, ctxMem, marked, runq, total, sent, nxt, left>>

-----------------------------------------------------------------------------

\* the steps a thread takes by itself once it is inside an operation
Run(t) ==
    \/ Fetch(t) \/ Grab(t) \/ Orphan(t) \/ Drop(t) \/ Pop(t) \/ Length(t)
    \/ CbReturn(t) \/ NextQueue(t) \/ PutBack(t)
    \/ Bounce(t) \/ Push(t) \/ Release(t) \/ Delete(t)
    \/ InitReturn(t) \/ SetInit(t) \/ Publish(t) \/ LogLaunch(t) \/ AnswerLaunch(t)
    \/ RetireNew(t) \/ OrphanNew(t) \/ DropNew(t)

\* the steps service code chooses to take
Choose(t) == \E s \in Services : Send(t, s) \/ Kill(t, s) \/ Launch(t, s)

Next == \E t \in Threads : Run(t) \/ Choose(t)

Spec == Init /\ [][Next]_vars

\* Every thread keeps running: callbacks and init functions return, and the
\* operating system schedules every thread.
FairSpec == Spec /\ \A t \in Threads : WF_vars(Run(t))

-----------------------------------------------------------------------------
(* Properties *)

Base(t) == IF pc[t] \in OpPCs THEN ret[t] ELSE pc[t]

\* the code inside a callback, a launch in it included
InCallback == {"cb"} \cup LaunchPCs \cup AfterPCs

\* the references thread t holds to context s: the one of the worker loop,
\* the one of a push or of a release under way, the one of a creator
Tokens(s) ==
    {<<"slot">> : h \in slot \cap {s}}
    \cup {<<"loop", t>> : t \in {u \in Workers :
             cur[u] = s /\ Base(u) \in InCallback \cup {"pop", "length", "next", "putback"}}}
    \cup {<<"op", t>> : t \in {u \in Threads : tgt[u] = s /\ pc[u] \in {"push", "unref"}}}
    \cup {<<"new", t>> : t \in {u \in Workers : new[u] = s /\ Base(u) = "init"}}

\* the threads that have mailbox s in hand, and its places in the run queue
Hands(s) ==
    {<<t, "cur">> : t \in {u \in Workers : cur[u] = s}}
    \cup {<<t, "nxt">> : t \in {u \in Workers : nxt[u] = s}}
    \cup {<<t, "new">> : t \in {u \in Workers : new[u] = s}}
    \cup {<<"runq", i>> : i \in {j \in 1..Len(runq) : runq[j] = s}}

\* the services whose code runs on thread t: the callback's, and the init
\* function of a service being launched from it
Running(t) ==
    (IF Base(t) \in InCallback THEN {cur[t]} ELSE {})
    \cup (IF Base(t) = "init" THEN {new[t]} ELSE {})

\* Type invariant of the kernel's and the threads' state.
TypeOK ==
    /\ slot \subseteq Services
    /\ ref \in [Services -> Nat]
    /\ ctxMem \in [Services -> {"none", "live", "freed"}]
    /\ mqMem \in [Services -> {"none", "live", "freed"}]
    /\ mailbox \in [Services -> Seq(Message)]
    /\ inGlobal \in [Services -> BOOLEAN]
    /\ marked \in [Services -> BOOLEAN]
    /\ runq \in Seq(Services)
    /\ total \in Int
    /\ sent \in 0..MaxSend
    /\ pc \in [Threads -> PCs]
    /\ cur \in [Threads -> Maybe]
    /\ nxt \in [Threads -> Maybe]
    /\ left \in [Threads -> Int]
    /\ tgt \in [Threads -> Maybe]
    /\ out \in [Threads -> Message]
    /\ ret \in [Threads -> PCs \ OpPCs]
    /\ new \in [Threads -> Maybe]

\* A mailbox is in one place, and never nowhere while it has messages: not
\* twice in the run queue (the assertion queue->next == NULL of
\* skynet_globalmq_push), not in the run queue while a worker has it, not
\* with two workers; and a mailbox with messages is in the run queue or with
\* a thread that will look at it again.
OnePlace ==
    \A s \in Services :
        /\ Cardinality(Hands(s)) <= 1
        /\ mailbox[s] # <<>> => Hands(s) # {}

\* ctx->ref is the number of references held, by the table, the workers, the
\* senders and the creators.
RefCounts == TypeOK /\ \A s \in Services : ref[s] = Cardinality(Tokens(s))

\* What is held is allocated, and nothing is freed twice: a context with a
\* reference is allocated, and so is a mailbox that is in some hand or that
\* belongs to an allocated context; a context is deleted once
\* (skynet_mq_mark_release asserts release == 0), and the node counts a
\* service from context_inc to context_dec.  The three uses of a context
\* without a reference, by the thread that launched it (LatePCs), are of
\* allocated memory unless the service was retired meanwhile: LaunchSafe says
\* what this does not.
MemorySafe ==
    /\ \A s \in Services :
        /\ Tokens(s) # {} => ctxMem[s] = "live"
        /\ Hands(s) # {} \/ ctxMem[s] = "live" => mqMem[s] = "live"
    /\ \A t \in Threads : pc[t] \in LatePCs => ctxMem[tgt[t]] = "live" \/ tgt[t] \notin slot
    /\ \A t \in Threads : pc[t] = "mark" => ~marked[tgt[t]] /\ ctxMem[tgt[t]] = "live"
    /\ total = Cardinality({s \in Services : ctxMem[s] = "live"})

\* The launcher's late uses of the context are of allocated memory.  This is
\* NOT so, and no run lists it: the new service may end, or be killed, and be
\* deleted by whoever holds its last reference between the launcher's release
\* and its write of ctx->init, its log line or its answer (README,
\* Observations).
LaunchSafe == \A t \in Threads : pc[t] \in LatePCs => ctxMem[tgt[t]] = "live"

\* The services whose code runs, with the message it takes already out.
Busy == (UNION {Running(t) : t \in Threads}) \cup {cur[t] : t \in {u \in Workers : pc[u] = "length"}}

Actor == INSTANCE Actors WITH
    Initial <- BootSet,
    Mail <- BootMail,
    born <- {s \in Services : ctxMem[s] # "none"},
    known <- slot,
    box <- mailbox,
    busy <- Busy,
    closed <- {s \in Services : marked[s]}

\* The dispatcher implements the actors of module Actors: one message at a
\* time per service and in order, none before init is done, and none dropped
\* before the service can never run again, however workers, senders, kills
\* and launches interleave.
ActorSpec == Actor!Spec

\* A mailbox that has messages is emptied again, each of them handled or
\* dropped: no interleaving leaves it out of every worker's sight.
Served == \A s \in Services : []<>(mailbox[s] = <<>>)

\* A retired service is reclaimed: its context is deleted and its mailbox
\* drained and freed, whoever held references to it when it was retired.
Reclaimed ==
    []<>(\A s \in Services : ctxMem[s] # "none" /\ s \notin slot => mqMem[s] = "freed")

=============================================================================
