--------------------------- MODULE DispatchProofs ---------------------------
(***************************************************************************)
(* Proofs about module Dispatch, for every set of services, workers and    *)
(* outside threads: a mailbox is in one place, ctx->ref is the number of   *)
(* references, nothing is used after it is freed, and the services are the *)
(* actors of module Actors.                                                *)
(*                                                                         *)
(* All of it follows from one inductive invariant, DispatchInv.  None of   *)
(* the properties is inductive by itself, and they need each other:        *)
(*   - Control: where a thread is decides which mailboxes it has;          *)
(*   - Placed: no mailbox is in two places.  A push or a mark that finds   *)
(*     in_global clear may enter the mailbox in the run queue only since   *)
(*   - Mailboxes: a mailbox is in some place exactly when it is allocated  *)
(*     and in_global or the release flag is set;                           *)
(*   - References: ref is the number of references, a context that has one *)
(*     is allocated, and at most one thread has seen a context's last      *)
(*     reference go and not deleted the context yet;                       *)
(*   - Counted: total is the number of allocated contexts.                 *)
(* A sender holds a reference, so the context it pushes to is not deleted, *)
(* so the mailbox is not released, so it is not freed.                     *)
(*                                                                         *)
(* A step changes the locals of one thread only (Frame).  The references   *)
(* are therefore counted by looking at those of the acting thread and of   *)
(* the handle table (MoveTokens), and each action that moves one is shown  *)
(* to be one of seven moves (TakeLoop, TakeOp, ... SlotToOp).              *)
(***************************************************************************)
EXTENDS Dispatch, FiniteSetTheorems, SequenceTheorems, TLAPS

-----------------------------------------------------------------------------
(* The inductive invariant *)

\* the elements of queue q
Elems(q) == {q[i] : i \in 1..Len(q)}
\* the mailboxes in the run queue
Queued == Elems(runq)

\* no mailbox is twice in queue q
NoRepeat(q) == \A i, j \in 1..Len(q) : q[i] = q[j] => i = j

\* mailbox s is in the run queue or in the hands of a thread
InHand(s) == s \in Queued \/ \E t \in Threads : s \in {cur[t], nxt[t], new[t]}

\* the contexts that are allocated
Live == {s \in Services : ctxMem[s] = "live"}

\* What thread t has in its hands is decided by where it is.
ControlOf(t) ==
    /\ t \in Outside <=> Base(t) = "idle"
    /\ cur[t] = NoService <=> Base(t) \in {"fetch", "idle"}
    /\ nxt[t] = NoService <=> Base(t) # "putback"
    /\ new[t] = NoService <=> Base(t) \notin LaunchPCs
    /\ pc[t] \in OpPCs => tgt[t] # NoService /\ ret[t] # "length"
    /\ Base(t) = "length" => Weight[t] >= 0
    /\ Base(t) = "drop" => marked[cur[t]]
    /\ Base(t) = "dropNew" => marked[new[t]]

\* Every thread is where its hands say.
Control == \A t \in Threads : ControlOf(t)

\* No mailbox is in two places.
Placed ==
    /\ NoRepeat(runq)
    /\ \A t \in Threads : cur[t] \notin Queued /\ nxt[t] \notin Queued /\ new[t] \notin Queued
    /\ \A t, u \in Threads :
        /\ cur[t] = cur[u] => t = u \/ cur[t] = NoService
        /\ nxt[t] = nxt[u] => t = u \/ nxt[t] = NoService
        /\ new[t] = new[u] => t = u \/ new[t] = NoService
        /\ cur[t] = nxt[u] => cur[t] = NoService
        /\ cur[t] = new[u] => cur[t] = NoService
        /\ nxt[t] = new[u] => nxt[t] = NoService

\* A mailbox is in a hand exactly when its flags say so, and its memory and
\* its context's follow each other.
Mailboxes ==
    \A s \in Services :
        /\ mqMem[s] = "none" <=> ctxMem[s] = "none"
        /\ marked[s] <=> ctxMem[s] = "freed"
        /\ mqMem[s] = "freed" => marked[s]
        /\ InHand(s) <=> mqMem[s] = "live" /\ (inGlobal[s] \/ marked[s])
        /\ mailbox[s] # <<>> => inGlobal[s] /\ mqMem[s] = "live"

\* thread t has given up the last reference to s and deletes its context
Deleting(t, s) == pc[t] = "mark" /\ tgt[t] = s

\* ref is the number of references, and only one thread sees the last one go.
References ==
    /\ \A s \in Services :
        /\ ref[s] = Cardinality(Tokens(s))
        /\ Tokens(s) # {} => ctxMem[s] = "live"
    /\ \A t \in Threads, s \in Services :
        Deleting(t, s) => /\ ctxMem[s] = "live" /\ Tokens(s) = {}
                          /\ \A u \in Threads : Deleting(u, s) => u = t

\* The node counts its services.
Counted == IsFiniteSet(Live) /\ total = Cardinality(Live)

\* The inductive invariant.
DispatchInv == TypeOK /\ Control /\ Placed /\ Mailboxes /\ References /\ Counted

-----------------------------------------------------------------------------

\* the locals of thread u are as they were
Same(u) ==
    /\ pc'[u] = pc[u] /\ cur'[u] = cur[u] /\ nxt'[u] = nxt[u] /\ left'[u] = left[u]
    /\ tgt'[u] = tgt[u] /\ out'[u] = out[u] /\ ret'[u] = ret[u] /\ new'[u] = new[u]

\* A step of thread t leaves the locals of every other thread alone.
LEMMA Frame ==
    ASSUME TypeOK, NEW t \in Threads, Run(t) \/ Choose(t)
    PROVE  \A u \in Threads : u # t => Same(u)
<1> USE DEF TypeOK, Same, Set
<1>1. CASE Fetch(t)
    BY <1>1 DEF Fetch
<1>2. CASE Grab(t)
    BY <1>2 DEF Grab
<1>3. CASE Orphan(t)
    BY <1>3 DEF Orphan
<1>4. CASE Drop(t)
    BY <1>4 DEF Drop, DropRound
<1>5. CASE Pop(t)
    BY <1>5 DEF Pop, Unref
<1>6. CASE Length(t)
    BY <1>6 DEF Length
<1>7. CASE CbReturn(t)
    BY <1>7 DEF CbReturn
<1>8. CASE NextQueue(t)
    BY <1>8 DEF NextQueue, Unref
<1>9. CASE PutBack(t)
    BY <1>9 DEF PutBack, Unref
<1>10. CASE Bounce(t)
    BY <1>10 DEF Bounce
<1>11. CASE Push(t)
    BY <1>11 DEF Push
<1>12. CASE Release(t)
    BY <1>12 DEF Release
<1>13. CASE Delete(t)
    BY <1>13 DEF Delete
<1>14. CASE InitReturn(t)
    BY <1>14 DEF InitReturn, Unref
<1>15. CASE Publish(t)
    BY <1>15 DEF Publish
<1>22. CASE SetInit(t) \/ LogLaunch(t) \/ AnswerLaunch(t)
    BY <1>22 DEF SetInit, LogLaunch, AnswerLaunch, kernel
<1>16. CASE RetireNew(t)
    BY <1>16 DEF RetireNew, Unref
<1>17. CASE OrphanNew(t)
    BY <1>17 DEF OrphanNew
<1>18. CASE DropNew(t)
    BY <1>18 DEF DropNew, DropRound
<1>19. ASSUME NEW s \in Services, Send(t, s)
       PROVE  \A u \in Threads : u # t => Same(u)
    BY <1>19 DEF Send
<1>20. ASSUME NEW s \in Services, Kill(t, s)
       PROVE  \A u \in Threads : u # t => Same(u)
    BY <1>20 DEF Kill, Unref
<1>21. ASSUME NEW s \in Services, Launch(t, s)
       PROVE  \A u \in Threads : u # t => Same(u)
    BY <1>21 DEF Launch
<1> QED
    BY <1>1, <1>2, <1>3, <1>4, <1>5, <1>6, <1>7, <1>8, <1>9, <1>10, <1>11, <1>12, <1>13, <1>14, <1>15,
       <1>16, <1>17, <1>18, <1>19, <1>20, <1>21, <1>22 DEF Run, Choose

\* What the invariant says of one thread: the form in which the proofs use
\* it.
LEMMA ThreadFacts ==
    ASSUME TypeOK, Control, NEW t \in Threads
    PROVE  /\ ControlOf(t) /\ NoService \notin Services
           /\ t \in Workers <=> t \notin Outside
           /\ pc[t] \in PCs /\ ret[t] \in PCs \ OpPCs /\ cur[t] \in Maybe /\ nxt[t] \in Maybe
           /\ new[t] \in Maybe /\ tgt[t] \in Maybe
           /\ runq # <<>> => Head(runq) \in Services
           /\ DOMAIN pc = Threads /\ DOMAIN ret = Threads /\ DOMAIN cur = Threads /\ DOMAIN nxt = Threads
           /\ DOMAIN new = Threads /\ DOMAIN tgt = Threads
BY DispatchAssumption DEF Control, TypeOK, Threads

\* A step leaves the thread that takes it with the mailboxes, the target and
\* the return address its new place in the code calls for.
LEMMA ControlSelf ==
    ASSUME TypeOK, Control, NEW t \in Threads, Run(t) \/ Choose(t)
    PROVE  ControlOf(t)'
<1> USE ThreadFacts DEF ControlOf, Base, PCs, LoopPCs, LaunchPCs, AfterPCs, OpPCs, CodePCs, Maybe, Set
<1>1. CASE Fetch(t)
    BY <1>1 DEF Fetch
<1>2. CASE Grab(t)
    BY <1>2 DEF Grab
<1>3. CASE Orphan(t)
    BY <1>3 DEF Orphan
<1>4. CASE Drop(t)
    BY <1>4 DEF Drop, DropRound
<1>5. CASE Pop(t)
    BY <1>5 DEF Pop, Unref
<1>6. CASE Length(t)
    BY <1>6 DEF Length
<1>7. CASE CbReturn(t)
    BY <1>7 DEF CbReturn
<1>8. CASE NextQueue(t)
    BY <1>8 DEF NextQueue, Unref
<1>9. CASE PutBack(t)
    BY <1>9 DEF PutBack, Unref
<1>10. CASE Bounce(t)
    BY <1>10 DEF Bounce
<1>11. CASE Push(t)
    BY <1>11 DEF Push
<1>12. CASE Release(t)
    BY <1>12 DEF Release
<1>13. CASE Delete(t)
    BY <1>13 DEF Delete
<1>14. CASE InitReturn(t)
    BY <1>14 DEF InitReturn, Unref
<1>15. CASE Publish(t)
    BY <1>15 DEF Publish
<1>22. CASE SetInit(t) \/ LogLaunch(t) \/ AnswerLaunch(t)
    BY <1>22 DEF SetInit, LogLaunch, AnswerLaunch, kernel
<1>16. CASE RetireNew(t)
    BY <1>16 DEF RetireNew, Unref
<1>17. CASE OrphanNew(t)
    BY <1>17 DEF OrphanNew
<1>18. CASE DropNew(t)
    BY <1>18 DEF DropNew, DropRound
<1>19. ASSUME NEW s \in Services, Send(t, s)
       PROVE  ControlOf(t)'
    BY <1>19 DEF Send
<1>20. ASSUME NEW s \in Services, Kill(t, s)
       PROVE  ControlOf(t)'
    BY <1>20 DEF Kill, Unref
<1>21. ASSUME NEW s \in Services, Launch(t, s)
       PROVE  ControlOf(t)'
    BY <1>21 DEF Launch
<1> QED
    BY <1>1, <1>2, <1>3, <1>4, <1>5, <1>6, <1>7, <1>8, <1>9, <1>10, <1>11, <1>12, <1>13, <1>14, <1>15,
       <1>16, <1>17, <1>18, <1>19, <1>20, <1>21, <1>22 DEF Run, Choose

-----------------------------------------------------------------------------
(* References *)

\* thread u holds a reference to s: the one of its loop, of a push or release
\* under way, of a launch
LoopRef(u, s) ==
    u \in Workers /\ cur[u] = s /\ Base(u) \in InCallback \cup {"pop", "length", "next", "putback"}
OpRef(u, s) == u \in Threads /\ tgt[u] = s /\ pc[u] \in {"push", "unref"}
NewRef(u, s) == u \in Workers /\ new[u] = s /\ Base(u) = "init"

\* A context has finitely many references.
LEMMA TokensFinite ==
    ASSUME NEW s
    PROVE  IsFiniteSet(Tokens(s)) /\ Cardinality(Tokens(s)) \in Nat
<1> DEFINE All == ({"loop", "op", "new"} \X Threads) \cup {<<"slot">>}
<1>1. IsFiniteSet({"loop", "op", "new"})
    <2>1. {"loop", "op", "new"} = (({} \cup {"loop"}) \cup {"op"}) \cup {"new"}
        OBVIOUS
    <2>2. IsFiniteSet({} \cup {"loop"})
        BY FS_EmptySet, FS_AddElement
    <2>3. IsFiniteSet(({} \cup {"loop"}) \cup {"op"})
        BY <2>2, FS_AddElement
    <2> QED BY <2>1, <2>3, FS_AddElement
<1>2. IsFiniteSet(All)
    <2>1. IsFiniteSet({"loop", "op", "new"} \X Threads)
        BY <1>1, FS_Product, DispatchAssumption
    <2> QED BY <2>1, FS_AddElement
<1>3. Tokens(s) \in SUBSET All
    BY DEF Tokens, Threads
<1>4. IsFiniteSet(Tokens(s))
    BY <1>2, <1>3, FS_Subset
<1> QED BY <1>4, FS_CardinalityType

\* The references to s, one by one.
LEMMA TokensIff ==
    ASSUME NEW s, NEW x
    PROVE  x \in Tokens(s) <=>
              \/ x = <<"slot">> /\ s \in slot
              \/ \E u \in Threads : x = <<"loop", u>> /\ LoopRef(u, s)
              \/ \E u \in Threads : x = <<"op", u>> /\ OpRef(u, s)
              \/ \E u \in Threads : x = <<"new", u>> /\ NewRef(u, s)
BY DEF Tokens, LoopRef, OpRef, NewRef, Threads

\* The same of the next state.
LEMMA TokensIffNext ==
    ASSUME NEW s, NEW x
    PROVE  x \in Tokens(s)' <=>
              \/ x = <<"slot">> /\ s \in slot'
              \/ \E u \in Threads : x = <<"loop", u>> /\ LoopRef(u, s)'
              \/ \E u \in Threads : x = <<"op", u>> /\ OpRef(u, s)'
              \/ \E u \in Threads : x = <<"new", u>> /\ NewRef(u, s)'
BY DEF Tokens, LoopRef, OpRef, NewRef, Threads

\* the references that a step of thread t can touch
Own(t) == {<<"slot">>, <<"loop", t>>, <<"op", t>>, <<"new", t>>}

\* References of different kinds or of different threads are different.
LEMMA TupleNames ==
    ASSUME NEW t, NEW u
    PROVE  /\ <<"slot">> \notin {<<"loop", t>>, <<"op", t>>, <<"new", t>>}
           /\ <<"loop", t>> \notin {<<"op", u>>, <<"new", u>>}
           /\ <<"op", t>> # <<"new", u>>
           /\ <<"loop", t>> = <<"loop", u>> => t = u
           /\ <<"op", t>> = <<"op", u>> => t = u
           /\ <<"new", t>> = <<"new", u>> => t = u
<1>1. <<"slot">> # <<"loop", t>> /\ <<"slot">> # <<"op", t>> /\ <<"slot">> # <<"new", t>>
    <2>1. Len(<<"slot">>) = 1 /\ Len(<<"loop", t>>) = 2 /\ Len(<<"op", t>>) = 2 /\ Len(<<"new", t>>) = 2
        OBVIOUS
    <2> QED BY <2>1
<1> QED BY <1>1

\* Whether one of those references is held, read off the state of the thread.
LEMMA OwnTokens ==
    ASSUME NEW s, NEW t \in Threads
    PROVE  /\ <<"slot">> \in Tokens(s) <=> s \in slot
           /\ <<"loop", t>> \in Tokens(s) <=> LoopRef(t, s)
           /\ <<"op", t>> \in Tokens(s) <=> OpRef(t, s)
           /\ <<"new", t>> \in Tokens(s) <=> NewRef(t, s)
BY TokensIff, TupleNames

\* The same of the next state.
LEMMA OwnTokensNext ==
    ASSUME NEW s, NEW t \in Threads
    PROVE  /\ <<"slot">> \in Tokens(s)' <=> s \in slot'
           /\ <<"loop", t>> \in Tokens(s)' <=> LoopRef(t, s)'
           /\ <<"op", t>> \in Tokens(s)' <=> OpRef(t, s)'
           /\ <<"new", t>> \in Tokens(s)' <=> NewRef(t, s)'
BY TokensIffNext, TupleNames

\* The references of other threads stay as they are.
LEMMA OtherTokens ==
    ASSUME NEW t \in Threads, \A u \in Threads : u # t => Same(u),
           NEW s, NEW x, x \notin Own(t)
    PROVE  x \in Tokens(s)' <=> x \in Tokens(s)
<1>1. ASSUME NEW u \in Threads, u # t
      PROVE  /\ LoopRef(u, s)' <=> LoopRef(u, s)
             /\ OpRef(u, s)' <=> OpRef(u, s)
             /\ NewRef(u, s)' <=> NewRef(u, s)
    BY <1>1 DEF Same, LoopRef, OpRef, NewRef, Base
<1> QED
    BY <1>1, TokensIff, TokensIffNext DEF Own

\* The references of thread t and the table as they are before and after.
LEMMA KeepTokens ==
    ASSUME NEW t \in Threads, \A u \in Threads : u # t => Same(u), NEW s,
           s \in slot' <=> s \in slot,
           LoopRef(t, s)' <=> LoopRef(t, s),
           OpRef(t, s)' <=> OpRef(t, s),
           NewRef(t, s)' <=> NewRef(t, s)
    PROVE  Tokens(s)' = Tokens(s)
<1>1. ASSUME NEW x PROVE x \in Tokens(s)' <=> x \in Tokens(s)
    <2>1. CASE x \in Own(t)
        BY <2>1, OwnTokens, OwnTokensNext DEF Own
    <2>2. CASE x \notin Own(t)
        BY <2>2, OtherTokens
    <2> QED BY <2>1, <2>2
<1> QED BY <1>1

\* A step that does not touch references: those that neither look a handle
\* up, nor release, retire or launch.
LEMMA QuietTokens ==
    ASSUME TypeOK, Control, NEW t \in Threads, NEW s \in Services,
           \/ Fetch(t) \/ Orphan(t) \/ Drop(t) \/ Length(t) \/ CbReturn(t) \/ Push(t) \/ Delete(t)
           \/ SetInit(t) \/ Publish(t) \/ LogLaunch(t) \/ AnswerLaunch(t) \/ OrphanNew(t) \/ DropNew(t)
           \/ Grab(t) /\ cur[t] \notin slot
           \/ Pop(t) /\ mailbox[cur[t]] # <<>>
           \/ NextQueue(t) /\ runq # <<>>
           \/ Bounce(t) /\ tgt[t] \notin slot
           \/ RetireNew(t) /\ new[t] \notin slot
    PROVE  Tokens(s)' = Tokens(s)
<1> USE ThreadFacts DEF ControlOf, Base, PCs, LoopPCs, LaunchPCs, AfterPCs, OpPCs, CodePCs, InCallback, Maybe, Set,
           LoopRef, OpRef, NewRef
<1> DEFINE Goal ==
        /\ s \in slot' <=> s \in slot
        /\ LoopRef(t, s)' <=> LoopRef(t, s)
        /\ OpRef(t, s)' <=> OpRef(t, s)
        /\ NewRef(t, s)' <=> NewRef(t, s)
<1>1. ASSUME Fetch(t) PROVE Goal
    BY <1>1 DEF Fetch
<1>2. ASSUME Orphan(t) PROVE Goal
    BY <1>2 DEF Orphan
<1>3. ASSUME Drop(t) PROVE Goal
    BY <1>3 DEF Drop, DropRound
<1>4. ASSUME Length(t) PROVE Goal
    BY <1>4 DEF Length, kernel
<1>5. ASSUME CbReturn(t) PROVE Goal
    BY <1>5 DEF CbReturn, kernel
<1>6. ASSUME Push(t) PROVE Goal
    BY <1>6 DEF Push
<1>7. ASSUME Delete(t) PROVE Goal
    BY <1>7 DEF Delete
<1>8. ASSUME Publish(t) PROVE Goal
    BY <1>8 DEF Publish
<1>18. ASSUME SetInit(t) \/ LogLaunch(t) \/ AnswerLaunch(t) PROVE Goal
    BY <1>18 DEF SetInit, LogLaunch, AnswerLaunch, kernel
<1>9. ASSUME OrphanNew(t) PROVE Goal
    BY <1>9 DEF OrphanNew
<1>10. ASSUME DropNew(t) PROVE Goal
    BY <1>10 DEF DropNew, DropRound
<1>11. ASSUME Grab(t) /\ cur[t] \notin slot PROVE Goal
    BY <1>11 DEF Grab
<1>12. ASSUME Pop(t) /\ mailbox[cur[t]] # <<>> PROVE Goal
    BY <1>12 DEF Pop, Unref
<1>13. ASSUME NextQueue(t) /\ runq # <<>> PROVE Goal
    BY <1>13 DEF NextQueue, Unref
<1>14. ASSUME Bounce(t) /\ tgt[t] \notin slot PROVE Goal
    BY <1>14 DEF Bounce
<1>15. ASSUME RetireNew(t) /\ new[t] \notin slot PROVE Goal
    BY <1>15 DEF RetireNew, Unref
<1>16. Goal
    BY <1>1, <1>2, <1>3, <1>4, <1>5, <1>6, <1>7, <1>8, <1>9, <1>10, <1>11, <1>12, <1>13, <1>14, <1>15,
       <1>18
<1>17. \A u \in Threads : u # t => Same(u)
    BY Frame DEF Run
<1> QED
    BY <1>16, <1>17, KeepTokens

\* References change hands: those of A to service d are given up and those of
\* B are taken, and the references to every other service stay.
Moves(d, A, B) ==
    /\ A \subseteq Tokens(d) /\ B \cap Tokens(d) = {}
    /\ Tokens(d)' = (Tokens(d) \ A) \cup B
    /\ \A s \in Services : s # d => Tokens(s)' = Tokens(s)

\* It suffices to look at the references of the table and of the thread that
\* moves.
LEMMA MoveTokens ==
    ASSUME NEW t \in Threads, \A u \in Threads : u # t => Same(u), NEW d,
           NEW A \in SUBSET Own(t), NEW B \in SUBSET Own(t),
           \A x \in Own(t) : /\ x \in A => x \in Tokens(d)
                             /\ x \in B => x \notin Tokens(d)
                             /\ x \in Tokens(d)' <=> (x \in Tokens(d) /\ x \notin A) \/ x \in B,
           \A s \in Services : s # d =>
               \A x \in Own(t) : x \in Tokens(s)' <=> x \in Tokens(s)
    PROVE  Moves(d, A, B)
<1>1. ASSUME NEW x PROVE x \in Tokens(d)' <=> x \in (Tokens(d) \ A) \cup B
    <2>1. CASE x \in Own(t)
        BY <2>1
    <2>2. CASE x \notin Own(t)
        BY <2>2, OtherTokens
    <2> QED BY <2>1, <2>2
<1>2. ASSUME NEW s \in Services, s # d, NEW x PROVE x \in Tokens(s)' <=> x \in Tokens(s)
    <2>1. CASE x \in Own(t)
        BY <1>2, <2>1
    <2>2. CASE x \notin Own(t)
        BY <2>2, OtherTokens
    <2> QED BY <2>1, <2>2
<1>3. Tokens(d)' = (Tokens(d) \ A) \cup B
    BY <1>1
<1>4. \A s \in Services : s # d => Tokens(s)' = Tokens(s)
    BY <1>2
<1> QED
    BY <1>3, <1>4 DEF Moves

\* A worker takes the reference of its loop.
LEMMA TakeLoop ==
    ASSUME NEW t \in Threads, \A u \in Threads : u # t => Same(u), NEW d \in Services, ~LoopRef(t, d),
           \A s \in Services :
               /\ s \in slot' <=> s \in slot
               /\ LoopRef(t, s)' <=> LoopRef(t, s) \/ s = d
               /\ OpRef(t, s)' <=> OpRef(t, s)
               /\ NewRef(t, s)' <=> NewRef(t, s)
    PROVE  Moves(d, {}, {<<"loop", t>>})
<1>1. ASSUME NEW s \in Services, s # d, NEW x \in Own(t)
      PROVE  x \in Tokens(s)' <=> x \in Tokens(s)
    BY <1>1, OwnTokens, OwnTokensNext DEF Own
<1>2. ASSUME NEW x \in Own(t)
      PROVE  /\ x \in {} => x \in Tokens(d)
             /\ x \in {<<"loop", t>>} => x \notin Tokens(d)
             /\ x \in Tokens(d)' <=> (x \in Tokens(d) /\ x \notin {}) \/ x \in {<<"loop", t>>}
    <2>1. /\ <<"slot">> \in Tokens(d) <=> d \in slot
          /\ <<"slot">> \in Tokens(d)' <=> d \in slot'
          /\ <<"loop", t>> \in Tokens(d) <=> LoopRef(t, d)
          /\ <<"loop", t>> \in Tokens(d)' <=> LoopRef(t, d)'
          /\ <<"op", t>> \in Tokens(d) <=> OpRef(t, d)
          /\ <<"op", t>> \in Tokens(d)' <=> OpRef(t, d)'
          /\ <<"new", t>> \in Tokens(d) <=> NewRef(t, d)
          /\ <<"new", t>> \in Tokens(d)' <=> NewRef(t, d)'
        BY OwnTokens, OwnTokensNext
    <2>2. x = <<"slot">> \/ x = <<"loop", t>> \/ x = <<"op", t>> \/ x = <<"new", t>>
        BY DEF Own
    <2> QED BY <2>1, <2>2, TupleNames
<1>3. {} \in SUBSET Own(t) /\ {<<"loop", t>>} \in SUBSET Own(t)
    BY DEF Own
<1> QED
    BY <1>1, <1>2, <1>3, MoveTokens

\* A push takes a reference.
LEMMA TakeOp ==
    ASSUME NEW t \in Threads, \A u \in Threads : u # t => Same(u), NEW d \in Services, ~OpRef(t, d),
           \A s \in Services :
               /\ s \in slot' <=> s \in slot
               /\ LoopRef(t, s)' <=> LoopRef(t, s)
               /\ OpRef(t, s)' <=> OpRef(t, s) \/ s = d
               /\ NewRef(t, s)' <=> NewRef(t, s)
    PROVE  Moves(d, {}, {<<"op", t>>})
<1>1. ASSUME NEW s \in Services, s # d, NEW x \in Own(t)
      PROVE  x \in Tokens(s)' <=> x \in Tokens(s)
    BY <1>1, OwnTokens, OwnTokensNext DEF Own
<1>2. ASSUME NEW x \in Own(t)
      PROVE  /\ x \in {} => x \in Tokens(d)
             /\ x \in {<<"op", t>>} => x \notin Tokens(d)
             /\ x \in Tokens(d)' <=> (x \in Tokens(d) /\ x \notin {}) \/ x \in {<<"op", t>>}
    <2>1. /\ <<"slot">> \in Tokens(d) <=> d \in slot
          /\ <<"slot">> \in Tokens(d)' <=> d \in slot'
          /\ <<"loop", t>> \in Tokens(d) <=> LoopRef(t, d)
          /\ <<"loop", t>> \in Tokens(d)' <=> LoopRef(t, d)'
          /\ <<"op", t>> \in Tokens(d) <=> OpRef(t, d)
          /\ <<"op", t>> \in Tokens(d)' <=> OpRef(t, d)'
          /\ <<"new", t>> \in Tokens(d) <=> NewRef(t, d)
          /\ <<"new", t>> \in Tokens(d)' <=> NewRef(t, d)'
        BY OwnTokens, OwnTokensNext
    <2>2. x = <<"slot">> \/ x = <<"loop", t>> \/ x = <<"op", t>> \/ x = <<"new", t>>
        BY DEF Own
    <2> QED BY <2>1, <2>2, TupleNames
<1>3. {} \in SUBSET Own(t) /\ {<<"op", t>>} \in SUBSET Own(t)
    BY DEF Own
<1> QED
    BY <1>1, <1>2, <1>3, MoveTokens

\* A reference under release is given up.
LEMMA DropOp ==
    ASSUME NEW t \in Threads, \A u \in Threads : u # t => Same(u), NEW d \in Services, OpRef(t, d),
           \A s \in Services :
               /\ s \in slot' <=> s \in slot
               /\ LoopRef(t, s)' <=> LoopRef(t, s)
               /\ OpRef(t, s)' <=> OpRef(t, s) /\ s # d
               /\ NewRef(t, s)' <=> NewRef(t, s)
    PROVE  Moves(d, {<<"op", t>>}, {})
<1>1. ASSUME NEW s \in Services, s # d, NEW x \in Own(t)
      PROVE  x \in Tokens(s)' <=> x \in Tokens(s)
    BY <1>1, OwnTokens, OwnTokensNext DEF Own
<1>2. ASSUME NEW x \in Own(t)
      PROVE  /\ x \in {<<"op", t>>} => x \in Tokens(d)
             /\ x \in {} => x \notin Tokens(d)
             /\ x \in Tokens(d)' <=> (x \in Tokens(d) /\ x \notin {<<"op", t>>}) \/ x \in {}
    <2>1. /\ <<"slot">> \in Tokens(d) <=> d \in slot
          /\ <<"slot">> \in Tokens(d)' <=> d \in slot'
          /\ <<"loop", t>> \in Tokens(d) <=> LoopRef(t, d)
          /\ <<"loop", t>> \in Tokens(d)' <=> LoopRef(t, d)'
          /\ <<"op", t>> \in Tokens(d) <=> OpRef(t, d)
          /\ <<"op", t>> \in Tokens(d)' <=> OpRef(t, d)'
          /\ <<"new", t>> \in Tokens(d) <=> NewRef(t, d)
          /\ <<"new", t>> \in Tokens(d)' <=> NewRef(t, d)'
        BY OwnTokens, OwnTokensNext
    <2>2. x = <<"slot">> \/ x = <<"loop", t>> \/ x = <<"op", t>> \/ x = <<"new", t>>
        BY DEF Own
    <2> QED BY <2>1, <2>2, TupleNames
<1>3. {<<"op", t>>} \in SUBSET Own(t) /\ {} \in SUBSET Own(t)
    BY DEF Own
<1> QED
    BY <1>1, <1>2, <1>3, MoveTokens

\* The loop's reference comes under release.
LEMMA LoopToOp ==
    ASSUME NEW t \in Threads, \A u \in Threads : u # t => Same(u), NEW d \in Services, LoopRef(t, d), ~OpRef(t, d),
           \A s \in Services :
               /\ s \in slot' <=> s \in slot
               /\ LoopRef(t, s)' <=> LoopRef(t, s) /\ s # d
               /\ OpRef(t, s)' <=> OpRef(t, s) \/ s = d
               /\ NewRef(t, s)' <=> NewRef(t, s)
    PROVE  Moves(d, {<<"loop", t>>}, {<<"op", t>>})
<1>1. ASSUME NEW s \in Services, s # d, NEW x \in Own(t)
      PROVE  x \in Tokens(s)' <=> x \in Tokens(s)
    BY <1>1, OwnTokens, OwnTokensNext DEF Own
<1>2. ASSUME NEW x \in Own(t)
      PROVE  /\ x \in {<<"loop", t>>} => x \in Tokens(d)
             /\ x \in {<<"op", t>>} => x \notin Tokens(d)
             /\ x \in Tokens(d)' <=> (x \in Tokens(d) /\ x \notin {<<"loop", t>>}) \/ x \in {<<"op", t>>}
    <2>1. /\ <<"slot">> \in Tokens(d) <=> d \in slot
          /\ <<"slot">> \in Tokens(d)' <=> d \in slot'
          /\ <<"loop", t>> \in Tokens(d) <=> LoopRef(t, d)
          /\ <<"loop", t>> \in Tokens(d)' <=> LoopRef(t, d)'
          /\ <<"op", t>> \in Tokens(d) <=> OpRef(t, d)
          /\ <<"op", t>> \in Tokens(d)' <=> OpRef(t, d)'
          /\ <<"new", t>> \in Tokens(d) <=> NewRef(t, d)
          /\ <<"new", t>> \in Tokens(d)' <=> NewRef(t, d)'
        BY OwnTokens, OwnTokensNext
    <2>2. x = <<"slot">> \/ x = <<"loop", t>> \/ x = <<"op", t>> \/ x = <<"new", t>>
        BY DEF Own
    <2> QED BY <2>1, <2>2, TupleNames
<1>3. {<<"loop", t>>} \in SUBSET Own(t) /\ {<<"op", t>>} \in SUBSET Own(t)
    BY DEF Own
<1> QED
    BY <1>1, <1>2, <1>3, MoveTokens

\* The creator's reference comes under release.
LEMMA NewToOp ==
    ASSUME NEW t \in Threads, \A u \in Threads : u # t => Same(u), NEW d \in Services, NewRef(t, d), ~OpRef(t, d),
           \A s \in Services :
               /\ s \in slot' <=> s \in slot
               /\ LoopRef(t, s)' <=> LoopRef(t, s)
               /\ OpRef(t, s)' <=> OpRef(t, s) \/ s = d
               /\ NewRef(t, s)' <=> NewRef(t, s) /\ s # d
    PROVE  Moves(d, {<<"new", t>>}, {<<"op", t>>})
<1>1. ASSUME NEW s \in Services, s # d, NEW x \in Own(t)
      PROVE  x \in Tokens(s)' <=> x \in Tokens(s)
    BY <1>1, OwnTokens, OwnTokensNext DEF Own
<1>2. ASSUME NEW x \in Own(t)
      PROVE  /\ x \in {<<"new", t>>} => x \in Tokens(d)
             /\ x \in {<<"op", t>>} => x \notin Tokens(d)
             /\ x \in Tokens(d)' <=> (x \in Tokens(d) /\ x \notin {<<"new", t>>}) \/ x \in {<<"op", t>>}
    <2>1. /\ <<"slot">> \in Tokens(d) <=> d \in slot
          /\ <<"slot">> \in Tokens(d)' <=> d \in slot'
          /\ <<"loop", t>> \in Tokens(d) <=> LoopRef(t, d)
          /\ <<"loop", t>> \in Tokens(d)' <=> LoopRef(t, d)'
          /\ <<"op", t>> \in Tokens(d) <=> OpRef(t, d)
          /\ <<"op", t>> \in Tokens(d)' <=> OpRef(t, d)'
          /\ <<"new", t>> \in Tokens(d) <=> NewRef(t, d)
          /\ <<"new", t>> \in Tokens(d)' <=> NewRef(t, d)'
        BY OwnTokens, OwnTokensNext
    <2>2. x = <<"slot">> \/ x = <<"loop", t>> \/ x = <<"op", t>> \/ x = <<"new", t>>
        BY DEF Own
    <2> QED BY <2>1, <2>2, TupleNames
<1>3. {<<"new", t>>} \in SUBSET Own(t) /\ {<<"op", t>>} \in SUBSET Own(t)
    BY DEF Own
<1> QED
    BY <1>1, <1>2, <1>3, MoveTokens

\* The table's reference comes under release.
LEMMA SlotToOp ==
    ASSUME NEW t \in Threads, \A u \in Threads : u # t => Same(u), NEW d \in Services, d \in slot, ~OpRef(t, d),
           \A s \in Services :
               /\ s \in slot' <=> s \in slot /\ s # d
               /\ LoopRef(t, s)' <=> LoopRef(t, s)
               /\ OpRef(t, s)' <=> OpRef(t, s) \/ s = d
               /\ NewRef(t, s)' <=> NewRef(t, s)
    PROVE  Moves(d, {<<"slot">>}, {<<"op", t>>})
<1>1. ASSUME NEW s \in Services, s # d, NEW x \in Own(t)
      PROVE  x \in Tokens(s)' <=> x \in Tokens(s)
    BY <1>1, OwnTokens, OwnTokensNext DEF Own
<1>2. ASSUME NEW x \in Own(t)
      PROVE  /\ x \in {<<"slot">>} => x \in Tokens(d)
             /\ x \in {<<"op", t>>} => x \notin Tokens(d)
             /\ x \in Tokens(d)' <=> (x \in Tokens(d) /\ x \notin {<<"slot">>}) \/ x \in {<<"op", t>>}
    <2>1. /\ <<"slot">> \in Tokens(d) <=> d \in slot
          /\ <<"slot">> \in Tokens(d)' <=> d \in slot'
          /\ <<"loop", t>> \in Tokens(d) <=> LoopRef(t, d)
          /\ <<"loop", t>> \in Tokens(d)' <=> LoopRef(t, d)'
          /\ <<"op", t>> \in Tokens(d) <=> OpRef(t, d)
          /\ <<"op", t>> \in Tokens(d)' <=> OpRef(t, d)'
          /\ <<"new", t>> \in Tokens(d) <=> NewRef(t, d)
          /\ <<"new", t>> \in Tokens(d)' <=> NewRef(t, d)'
        BY OwnTokens, OwnTokensNext
    <2>2. x = <<"slot">> \/ x = <<"loop", t>> \/ x = <<"op", t>> \/ x = <<"new", t>>
        BY DEF Own
    <2> QED BY <2>1, <2>2, TupleNames
<1>3. {<<"slot">>} \in SUBSET Own(t) /\ {<<"op", t>>} \in SUBSET Own(t)
    BY DEF Own
<1> QED
    BY <1>1, <1>2, <1>3, MoveTokens

\* A launch makes the references of the table and of the creator.
LEMMA TakeNew ==
    ASSUME NEW t \in Threads, \A u \in Threads : u # t => Same(u), NEW d \in Services, d \notin slot, ~NewRef(t, d),
           \A s \in Services :
               /\ s \in slot' <=> s \in slot \/ s = d
               /\ LoopRef(t, s)' <=> LoopRef(t, s)
               /\ OpRef(t, s)' <=> OpRef(t, s)
               /\ NewRef(t, s)' <=> NewRef(t, s) \/ s = d
    PROVE  Moves(d, {}, {<<"slot">>, <<"new", t>>})
<1>1. ASSUME NEW s \in Services, s # d, NEW x \in Own(t)
      PROVE  x \in Tokens(s)' <=> x \in Tokens(s)
    BY <1>1, OwnTokens, OwnTokensNext DEF Own
<1>2. ASSUME NEW x \in Own(t)
      PROVE  /\ x \in {} => x \in Tokens(d)
             /\ x \in {<<"slot">>, <<"new", t>>} => x \notin Tokens(d)
             /\ x \in Tokens(d)' <=> (x \in Tokens(d) /\ x \notin {}) \/ x \in {<<"slot">>, <<"new", t>>}
    <2>1. /\ <<"slot">> \in Tokens(d) <=> d \in slot
          /\ <<"slot">> \in Tokens(d)' <=> d \in slot'
          /\ <<"loop", t>> \in Tokens(d) <=> LoopRef(t, d)
          /\ <<"loop", t>> \in Tokens(d)' <=> LoopRef(t, d)'
          /\ <<"op", t>> \in Tokens(d) <=> OpRef(t, d)
          /\ <<"op", t>> \in Tokens(d)' <=> OpRef(t, d)'
          /\ <<"new", t>> \in Tokens(d) <=> NewRef(t, d)
          /\ <<"new", t>> \in Tokens(d)' <=> NewRef(t, d)'
        BY OwnTokens, OwnTokensNext
    <2>2. x = <<"slot">> \/ x = <<"loop", t>> \/ x = <<"op", t>> \/ x = <<"new", t>>
        BY DEF Own
    <2> QED BY <2>1, <2>2, TupleNames
<1>3. {} \in SUBSET Own(t) /\ {<<"slot">>, <<"new", t>>} \in SUBSET Own(t)
    BY DEF Own
<1> QED
    BY <1>1, <1>2, <1>3, MoveTokens

\* skynet_handle_grab of the worker's mailbox.
LEMMA GrabMoves ==
    ASSUME TypeOK, Control, NEW t \in Threads, NEW d \in Services, d = cur[t], Grab(t), cur[t] \in slot
    PROVE  Moves(d, {}, {<<"loop", t>>})
<1>1. \A u \in Threads : u # t => Same(u)
    BY Frame DEF Run, Choose
<1>2. ASSUME NEW s \in Services
      PROVE  /\ s \in slot' <=> s \in slot
             /\ LoopRef(t, s)' <=> LoopRef(t, s) \/ s = d
             /\ OpRef(t, s)' <=> OpRef(t, s)
             /\ NewRef(t, s)' <=> NewRef(t, s)
    BY <1>2, ThreadFacts DEF Grab, LoopRef, OpRef, NewRef,
        ControlOf, Base, PCs, LoopPCs, LaunchPCs, AfterPCs, OpPCs, CodePCs, InCallback, Maybe, Set
<1>3. ~LoopRef(t, d)
    BY ThreadFacts DEF Grab, LoopRef, OpRef, NewRef,
        ControlOf, Base, PCs, LoopPCs, LaunchPCs, AfterPCs, OpPCs, CodePCs, InCallback, Maybe, Set
<1> QED
    BY <1>1, <1>2, <1>3, TakeLoop

\* skynet_handle_grab of a send's destination.
LEMMA SendMoves ==
    ASSUME TypeOK, Control, NEW t \in Threads, NEW d \in Services, Send(t, d)
    PROVE  Moves(d, {}, {<<"op", t>>})
<1>1. \A u \in Threads : u # t => Same(u)
    BY Frame DEF Run, Choose
<1>2. ASSUME NEW s \in Services
      PROVE  /\ s \in slot' <=> s \in slot
             /\ LoopRef(t, s)' <=> LoopRef(t, s)
             /\ OpRef(t, s)' <=> OpRef(t, s) \/ s = d
             /\ NewRef(t, s)' <=> NewRef(t, s)
    BY <1>2, ThreadFacts DEF Send, LoopRef, OpRef, NewRef,
        ControlOf, Base, PCs, LoopPCs, LaunchPCs, AfterPCs, OpPCs, CodePCs, InCallback, Maybe, Set
<1>3. ~OpRef(t, d)
    BY ThreadFacts DEF Send, LoopRef, OpRef, NewRef,
        ControlOf, Base, PCs, LoopPCs, LaunchPCs, AfterPCs, OpPCs, CodePCs, InCallback, Maybe, Set
<1> QED
    BY <1>1, <1>2, <1>3, TakeOp

\* skynet_handle_grab of a dropped message's source.
LEMMA BounceMoves ==
    ASSUME TypeOK, Control, NEW t \in Threads, NEW d \in Services, d = tgt[t], Bounce(t), tgt[t] \in slot
    PROVE  Moves(d, {}, {<<"op", t>>})
<1>1. \A u \in Threads : u # t => Same(u)
    BY Frame DEF Run, Choose
<1>2. ASSUME NEW s \in Services
      PROVE  /\ s \in slot' <=> s \in slot
             /\ LoopRef(t, s)' <=> LoopRef(t, s)
             /\ OpRef(t, s)' <=> OpRef(t, s) \/ s = d
             /\ NewRef(t, s)' <=> NewRef(t, s)
    BY <1>2, ThreadFacts DEF Bounce, LoopRef, OpRef, NewRef,
        ControlOf, Base, PCs, LoopPCs, LaunchPCs, AfterPCs, OpPCs, CodePCs, InCallback, Maybe, Set
<1>3. ~OpRef(t, d)
    BY ThreadFacts DEF Bounce, LoopRef, OpRef, NewRef,
        ControlOf, Base, PCs, LoopPCs, LaunchPCs, AfterPCs, OpPCs, CodePCs, InCallback, Maybe, Set
<1> QED
    BY <1>1, <1>2, <1>3, TakeOp

\* skynet_context_release.
LEMMA ReleaseMoves ==
    ASSUME TypeOK, Control, NEW t \in Threads, NEW d \in Services, d = tgt[t], Release(t)
    PROVE  Moves(d, {<<"op", t>>}, {})
<1>1. \A u \in Threads : u # t => Same(u)
    BY Frame DEF Run, Choose
<1>2. ASSUME NEW s \in Services
      PROVE  /\ s \in slot' <=> s \in slot
             /\ LoopRef(t, s)' <=> LoopRef(t, s)
             /\ OpRef(t, s)' <=> OpRef(t, s) /\ s # d
             /\ NewRef(t, s)' <=> NewRef(t, s)
    BY <1>2, ThreadFacts DEF Release, LoopRef, OpRef, NewRef,
        ControlOf, Base, PCs, LoopPCs, LaunchPCs, AfterPCs, OpPCs, CodePCs, InCallback, Maybe, Set
<1>3. OpRef(t, d)
    BY ThreadFacts DEF Release, LoopRef, OpRef, NewRef,
        ControlOf, Base, PCs, LoopPCs, LaunchPCs, AfterPCs, OpPCs, CodePCs, InCallback, Maybe, Set
<1> QED
    BY <1>1, <1>2, <1>3, DropOp

\* The worker leaves an empty mailbox.
LEMMA PopMoves ==
    ASSUME TypeOK, Control, NEW t \in Threads, NEW d \in Services, d = cur[t], Pop(t), mailbox[cur[t]] = <<>>
    PROVE  Moves(d, {<<"loop", t>>}, {<<"op", t>>})
<1>1. \A u \in Threads : u # t => Same(u)
    BY Frame DEF Run, Choose
<1>2. ASSUME NEW s \in Services
      PROVE  /\ s \in slot' <=> s \in slot
             /\ LoopRef(t, s)' <=> LoopRef(t, s) /\ s # d
             /\ OpRef(t, s)' <=> OpRef(t, s) \/ s = d
             /\ NewRef(t, s)' <=> NewRef(t, s)
    BY <1>2, ThreadFacts DEF Pop, Unref, LoopRef, OpRef, NewRef,
        ControlOf, Base, PCs, LoopPCs, LaunchPCs, AfterPCs, OpPCs, CodePCs, InCallback, Maybe, Set
<1>3. LoopRef(t, d) /\ ~OpRef(t, d)
    BY ThreadFacts DEF Pop, Unref, LoopRef, OpRef, NewRef,
        ControlOf, Base, PCs, LoopPCs, LaunchPCs, AfterPCs, OpPCs, CodePCs, InCallback, Maybe, Set
<1> QED
    BY <1>1, <1>2, <1>3, LoopToOp

\* The turn is over and nothing else is to run.
LEMMA NextQueueMoves ==
    ASSUME TypeOK, Control, NEW t \in Threads, NEW d \in Services, d = cur[t], NextQueue(t), runq = <<>>
    PROVE  Moves(d, {<<"loop", t>>}, {<<"op", t>>})
<1>1. \A u \in Threads : u # t => Same(u)
    BY Frame DEF Run, Choose
<1>2. ASSUME NEW s \in Services
      PROVE  /\ s \in slot' <=> s \in slot
             /\ LoopRef(t, s)' <=> LoopRef(t, s) /\ s # d
             /\ OpRef(t, s)' <=> OpRef(t, s) \/ s = d
             /\ NewRef(t, s)' <=> NewRef(t, s)
    BY <1>2, ThreadFacts DEF NextQueue, Unref, LoopRef, OpRef, NewRef,
        ControlOf, Base, PCs, LoopPCs, LaunchPCs, AfterPCs, OpPCs, CodePCs, InCallback, Maybe, Set
<1>3. LoopRef(t, d) /\ ~OpRef(t, d)
    BY ThreadFacts DEF NextQueue, Unref, LoopRef, OpRef, NewRef,
        ControlOf, Base, PCs, LoopPCs, LaunchPCs, AfterPCs, OpPCs, CodePCs, InCallback, Maybe, Set
<1> QED
    BY <1>1, <1>2, <1>3, LoopToOp

\* The turn is over and the next mailbox's begins.
LEMMA PutBackMoves ==
    ASSUME TypeOK, Control, NEW t \in Threads, NEW d \in Services, d = cur[t], PutBack(t)
    PROVE  Moves(d, {<<"loop", t>>}, {<<"op", t>>})
<1>1. \A u \in Threads : u # t => Same(u)
    BY Frame DEF Run, Choose
<1>2. ASSUME NEW s \in Services
      PROVE  /\ s \in slot' <=> s \in slot
             /\ LoopRef(t, s)' <=> LoopRef(t, s) /\ s # d
             /\ OpRef(t, s)' <=> OpRef(t, s) \/ s = d
             /\ NewRef(t, s)' <=> NewRef(t, s)
    BY <1>2, ThreadFacts DEF PutBack, Unref, LoopRef, OpRef, NewRef,
        ControlOf, Base, PCs, LoopPCs, LaunchPCs, AfterPCs, OpPCs, CodePCs, InCallback, Maybe, Set
<1>3. LoopRef(t, d) /\ ~OpRef(t, d)
    BY ThreadFacts DEF PutBack, Unref, LoopRef, OpRef, NewRef,
        ControlOf, Base, PCs, LoopPCs, LaunchPCs, AfterPCs, OpPCs, CodePCs, InCallback, Maybe, Set
<1> QED
    BY <1>1, <1>2, <1>3, LoopToOp

\* The init function has returned.
LEMMA InitReturnMoves ==
    ASSUME TypeOK, Control, NEW t \in Threads, NEW d \in Services, d = new[t], InitReturn(t)
    PROVE  Moves(d, {<<"new", t>>}, {<<"op", t>>})
<1>1. \A u \in Threads : u # t => Same(u)
    BY Frame DEF Run, Choose
<1>2. ASSUME NEW s \in Services
      PROVE  /\ s \in slot' <=> s \in slot
             /\ LoopRef(t, s)' <=> LoopRef(t, s)
             /\ OpRef(t, s)' <=> OpRef(t, s) \/ s = d
             /\ NewRef(t, s)' <=> NewRef(t, s) /\ s # d
    BY <1>2, ThreadFacts DEF InitReturn, Unref, kernel, LoopRef, OpRef, NewRef,
        ControlOf, Base, PCs, LoopPCs, LaunchPCs, AfterPCs, OpPCs, CodePCs, InCallback, Maybe, Set
<1>3. NewRef(t, d) /\ ~OpRef(t, d)
    BY ThreadFacts DEF InitReturn, Unref, kernel, LoopRef, OpRef, NewRef,
        ControlOf, Base, PCs, LoopPCs, LaunchPCs, AfterPCs, OpPCs, CodePCs, InCallback, Maybe, Set
<1> QED
    BY <1>1, <1>2, <1>3, NewToOp

\* skynet_handle_retire by service code.
LEMMA KillMoves ==
    ASSUME TypeOK, Control, NEW t \in Threads, NEW d \in Services, Kill(t, d)
    PROVE  Moves(d, {<<"slot">>}, {<<"op", t>>})
<1>1. \A u \in Threads : u # t => Same(u)
    BY Frame DEF Run, Choose
<1>2. ASSUME NEW s \in Services
      PROVE  /\ s \in slot' <=> s \in slot /\ s # d
             /\ LoopRef(t, s)' <=> LoopRef(t, s)
             /\ OpRef(t, s)' <=> OpRef(t, s) \/ s = d
             /\ NewRef(t, s)' <=> NewRef(t, s)
    BY <1>2, ThreadFacts DEF Kill, Unref, LoopRef, OpRef, NewRef,
        ControlOf, Base, PCs, LoopPCs, LaunchPCs, AfterPCs, OpPCs, CodePCs, InCallback, Maybe, Set
<1>3. d \in slot /\ ~OpRef(t, d)
    BY ThreadFacts DEF Kill, Unref, LoopRef, OpRef, NewRef,
        ControlOf, Base, PCs, LoopPCs, LaunchPCs, AfterPCs, OpPCs, CodePCs, InCallback, Maybe, Set
<1> QED
    BY <1>1, <1>2, <1>3, SlotToOp

\* skynet_handle_retire after a failed init.
LEMMA RetireNewMoves ==
    ASSUME TypeOK, Control, NEW t \in Threads, NEW d \in Services, d = new[t], RetireNew(t), new[t] \in slot
    PROVE  Moves(d, {<<"slot">>}, {<<"op", t>>})
<1>1. \A u \in Threads : u # t => Same(u)
    BY Frame DEF Run, Choose
<1>2. ASSUME NEW s \in Services
      PROVE  /\ s \in slot' <=> s \in slot /\ s # d
             /\ LoopRef(t, s)' <=> LoopRef(t, s)
             /\ OpRef(t, s)' <=> OpRef(t, s) \/ s = d
             /\ NewRef(t, s)' <=> NewRef(t, s)
    BY <1>2, ThreadFacts DEF RetireNew, Unref, LoopRef, OpRef, NewRef,
        ControlOf, Base, PCs, LoopPCs, LaunchPCs, AfterPCs, OpPCs, CodePCs, InCallback, Maybe, Set
<1>3. d \in slot /\ ~OpRef(t, d)
    BY ThreadFacts DEF RetireNew, Unref, LoopRef, OpRef, NewRef,
        ControlOf, Base, PCs, LoopPCs, LaunchPCs, AfterPCs, OpPCs, CodePCs, InCallback, Maybe, Set
<1> QED
    BY <1>1, <1>2, <1>3, SlotToOp

\* skynet_context_new of a service nobody refers to yet.
LEMMA LaunchMoves ==
    ASSUME TypeOK, Control, NEW t \in Threads, NEW d \in Services, Launch(t, d), Tokens(d) = {}
    PROVE  Moves(d, {}, {<<"slot">>, <<"new", t>>})
<1>1. \A u \in Threads : u # t => Same(u)
    BY Frame DEF Run, Choose
<1>2. ASSUME NEW s \in Services
      PROVE  /\ s \in slot' <=> s \in slot \/ s = d
             /\ LoopRef(t, s)' <=> LoopRef(t, s)
             /\ OpRef(t, s)' <=> OpRef(t, s)
             /\ NewRef(t, s)' <=> NewRef(t, s) \/ s = d
    BY <1>2, ThreadFacts DEF Launch, LoopRef, OpRef, NewRef,
        ControlOf, Base, PCs, LoopPCs, LaunchPCs, AfterPCs, OpPCs, CodePCs, InCallback, Maybe, Set
<1>3. d \notin slot /\ ~NewRef(t, d)
    BY OwnTokens
<1> QED
    BY <1>1, <1>2, <1>3, TakeNew

-----------------------------------------------------------------------------
(* Counting references *)

\* One more, one fewer, or as many as before.
LEMMA CountMoves ==
    ASSUME NEW d, NEW A, NEW B, Moves(d, A, B)
    PROVE  /\ \A x : A = {} /\ B = {x} => Cardinality(Tokens(d)') = Cardinality(Tokens(d)) + 1
           /\ \A x : A = {x} /\ B = {} => Cardinality(Tokens(d)') = Cardinality(Tokens(d)) - 1
           /\ \A x, y : A = {x} /\ B = {y} => Cardinality(Tokens(d)') = Cardinality(Tokens(d))
<1> DEFINE T == Tokens(d)
           N == Tokens(d)'
<1>1. IsFiniteSet(T) /\ Cardinality(T) \in Nat
    BY TokensFinite
<1>2. A \subseteq T /\ B \cap T = {} /\ N = (T \ A) \cup B
    BY DEF Moves
<1> HIDE DEF T, N
<1>3. ASSUME NEW x, A = {}, B = {x} PROVE Cardinality(N) = Cardinality(T) + 1
    <2>1. N = T \cup {x} /\ x \notin T
        BY <1>2, <1>3
    <2> QED BY <1>1, <2>1, FS_AddElement
<1>4. ASSUME NEW x, A = {x} PROVE IsFiniteSet(T \ {x}) /\ Cardinality(T \ {x}) = Cardinality(T) - 1
    BY <1>1, <1>2, <1>4, FS_RemoveElement
<1>5. ASSUME NEW x, A = {x}, B = {} PROVE Cardinality(N) = Cardinality(T) - 1
    <2>1. N = T \ {x}
        BY <1>2, <1>5
    <2> QED BY <1>4, <1>5, <2>1
<1>6. ASSUME NEW x, NEW y, A = {x}, B = {y} PROVE Cardinality(N) = Cardinality(T)
    <2>1. N = (T \ {x}) \cup {y} /\ y \notin T \ {x}
        BY <1>2, <1>6
    <2>2. IsFiniteSet(T \ {x}) /\ Cardinality(T \ {x}) = Cardinality(T) - 1
        BY <1>4, <1>6
    <2>3. Cardinality((T \ {x}) \cup {y}) = Cardinality(T \ {x}) + 1
        BY <2>1, <2>2, FS_AddElement
    <2> QED BY <1>1, <2>1, <2>2, <2>3
<1> QED
    BY <1>3, <1>5, <1>6 DEF T, N

\* A step that makes no reference out of nothing and deletes no context.
LEMMA KeepReferences ==
    ASSUME References, NEW t \in Threads, \A u \in Threads : u # t => Same(u),
           pc'[t] # "mark",
           \A s \in Services : /\ ref'[s] = Cardinality(Tokens(s)')
                               /\ ctxMem'[s] = ctxMem[s]
                               /\ Tokens(s) = {} => Tokens(s)' = {}
    PROVE  References'
<1>1. ASSUME NEW u \in Threads, NEW s \in Services, Deleting(u, s)'
      PROVE  Deleting(u, s)
    BY <1>1 DEF Deleting, Same
<1>2. ASSUME NEW s \in Services
      PROVE  ref'[s] = Cardinality(Tokens(s)') /\ (Tokens(s)' # {} => ctxMem'[s] = "live")
    BY DEF References
<1>3. ASSUME NEW u \in Threads, NEW s \in Services, Deleting(u, s)'
      PROVE  /\ ctxMem'[s] = "live" /\ Tokens(s)' = {}
             /\ \A v \in Threads : Deleting(v, s)' => v = u
    BY <1>1, <1>3 DEF References
<1> QED
    BY <1>2, <1>3 DEF References

\* The pc of a thread whose step is not a release.
LEMMA NotMark ==
    ASSUME TypeOK, Control, NEW t \in Threads, Run(t) \/ Choose(t), ~Release(t)
    PROVE  pc'[t] # "mark"
<1> USE ThreadFacts DEF PCs, LoopPCs, LaunchPCs, AfterPCs, OpPCs, CodePCs, Set
<1>1. Fetch(t) \/ Grab(t) \/ Orphan(t) => pc'[t] # "mark"
    BY DEF Fetch, Grab, Orphan
<1>2. Drop(t) \/ DropNew(t) => pc'[t] # "mark"
    BY DEF Drop, DropNew, DropRound
<1>3. Pop(t) \/ Length(t) \/ CbReturn(t) \/ NextQueue(t) \/ PutBack(t) => pc'[t] # "mark"
    BY DEF Pop, Length, CbReturn, NextQueue, PutBack, Unref
<1>4. Bounce(t) \/ Push(t) \/ Delete(t) => pc'[t] # "mark"
    BY DEF Bounce, Push, Delete
<1>5. \/ InitReturn(t) \/ SetInit(t) \/ Publish(t) \/ LogLaunch(t) \/ AnswerLaunch(t) \/ RetireNew(t) \/ OrphanNew(t)
      => pc'[t] # "mark"
    BY DEF InitReturn, SetInit, Publish, LogLaunch, AnswerLaunch, RetireNew, OrphanNew, Unref
<1>6. Choose(t) => pc'[t] # "mark"
    BY DEF Choose, Send, Kill, Launch, Unref
<1> QED
    BY <1>1, <1>2, <1>3, <1>4, <1>5, <1>6 DEF Run

\* The count follows the references.
LEMMA MovesReferences ==
    ASSUME TypeOK, References, NEW t \in Threads, \A u \in Threads : u # t => Same(u), pc'[t] # "mark",
           ctxMem' = ctxMem, NEW d \in Services, Tokens(d) # {}, NEW A, NEW y, Moves(d, A, {y}),
           \/ A = {} /\ ref' = Set(ref, d, ref[d] + 1)
           \/ (\E x : A = {x}) /\ ref' = ref
    PROVE  References'
<1>1. Cardinality(Tokens(d)') = ref'[d]
    <2>1. CASE A = {} /\ ref' = Set(ref, d, ref[d] + 1)
        <3>1. Cardinality(Tokens(d)') = Cardinality(Tokens(d)) + 1
            BY <2>1, CountMoves
        <3>2. ref'[d] = ref[d] + 1 /\ ref[d] = Cardinality(Tokens(d))
            BY <2>1 DEF Set, TypeOK, References
        <3> QED BY <3>1, <3>2
    <2>2. ASSUME NEW x, A = {x}, ref' = ref PROVE Cardinality(Tokens(d)') = ref'[d]
        <3>1. Cardinality(Tokens(d)') = Cardinality(Tokens(d))
            BY <2>2, CountMoves
        <3> QED BY <2>2, <3>1 DEF References
    <2> QED BY <2>1, <2>2
<1>2. ASSUME NEW s \in Services, s # d
      PROVE  Tokens(s)' = Tokens(s) /\ ref'[s] = Cardinality(Tokens(s)')
    <2>1. Tokens(s)' = Tokens(s)
        BY <1>2 DEF Moves
    <2>2. ref'[s] = ref[s]
        BY <1>2 DEF Set, TypeOK
    <2> QED BY <2>1, <2>2 DEF References
<1>3. \A s \in Services : /\ ref'[s] = Cardinality(Tokens(s)')
                          /\ ctxMem'[s] = ctxMem[s]
                          /\ Tokens(s) = {} => Tokens(s)' = {}
    BY <1>1, <1>2
<1> QED
    BY <1>3, KeepReferences

\* A step that moves no reference and leaves the counts alone.
LEMMA QuietReferences ==
    ASSUME TypeOK, References, NEW t \in Threads, \A u \in Threads : u # t => Same(u), pc'[t] # "mark",
           ctxMem' = ctxMem, ref' = ref, \A s \in Services : Tokens(s)' = Tokens(s)
    PROVE  References'
<1>1. \A s \in Services : /\ ref'[s] = Cardinality(Tokens(s)')
                          /\ ctxMem'[s] = ctxMem[s]
                          /\ Tokens(s) = {} => Tokens(s)' = {}
    BY DEF References
<1> QED
    BY <1>1, KeepReferences

\* A reference seen by a lookup or held by a thread is one.
LEMMA HasToken ==
    ASSUME NEW d \in Services, NEW t \in Threads, d \in slot \/ LoopRef(t, d) \/ OpRef(t, d) \/ NewRef(t, d)
    PROVE  Tokens(d) # {}
BY OwnTokens

\* skynet_context_release: the thread that takes the count to zero is alone.
LEMMA ReleaseReferences ==
    ASSUME TypeOK, Control, References, NEW t \in Threads, Release(t)
    PROVE  References' /\ ref' \in [Services -> Nat]
<1>1. PICK d \in Services : d = tgt[t]
    BY ThreadFacts DEF Release, ControlOf, Maybe, OpPCs
<1>2. Moves(d, {<<"op", t>>}, {}) /\ <<"op", t>> \in Tokens(d)
    BY <1>1, ReleaseMoves, ThreadFacts, OwnTokens DEF Release, OpRef
<1>3. Cardinality(Tokens(d)') = ref[d] - 1 /\ ref[d] = Cardinality(Tokens(d)) /\ ctxMem[d] = "live"
    BY <1>2, CountMoves DEF References
<1>4. ref' = Set(ref, d, ref[d] - 1) /\ ctxMem' = ctxMem
      /\ pc'[t] = (IF ref[d] = 1 THEN "mark" ELSE ret[t]) /\ tgt' = tgt
    BY <1>1 DEF Release, Set, TypeOK
<1>5. \A u \in Threads : u # t => Same(u)
    BY Frame DEF Run
<1>6. Cardinality(Tokens(d)') \in Nat /\ (Cardinality(Tokens(d)') = 0 <=> Tokens(d)' = {})
    <2>1. IsFiniteSet(Tokens(d)) /\ Tokens(d)' = Tokens(d) \ {<<"op", t>>}
        BY <1>2, TokensFinite DEF Moves
    <2>2. IsFiniteSet(Tokens(d) \ {<<"op", t>>})
        BY <2>1, FS_RemoveElement
    <2>3. /\ Cardinality(Tokens(d) \ {<<"op", t>>}) \in Nat
          /\ Cardinality(Tokens(d) \ {<<"op", t>>}) = 0 <=> Tokens(d) \ {<<"op", t>>} = {}
        BY <2>2, FS_CardinalityType, FS_EmptySet
    <2> QED BY <2>1, <2>3
<1>7. \A s \in Services : s # d => Tokens(s)' = Tokens(s)
    BY <1>2 DEF Moves
<1>8. ref' \in [Services -> Nat]
    BY <1>3, <1>4, <1>6 DEF TypeOK, Set
<1>9. \A s \in Services : ref'[s] = Cardinality(Tokens(s)') /\ (Tokens(s)' # {} => ctxMem'[s] = "live")
    BY <1>3, <1>4, <1>7 DEF TypeOK, Set, References
<1>10. \A u \in Threads : ~Deleting(u, d)
    BY <1>2 DEF References
<1>11. ASSUME NEW u \in Threads, NEW s \in Services, Deleting(u, s)'
       PROVE  /\ ctxMem'[s] = "live" /\ Tokens(s)' = {}
              /\ \A v \in Threads : Deleting(v, s)' => v = u
    <2>1. CASE s = d
        <3>1. \A v \in Threads : Deleting(v, s)' => v = t
            BY <1>5, <1>10, <2>1 DEF Deleting, Same
        <3>2. u = t
            BY <1>11, <3>1
        <3>3. ret[t] # "mark"
            BY DEF TypeOK, OpPCs
        <3>4. ref[d] = 1
            BY <1>4, <1>11, <3>2, <3>3 DEF Deleting
        <3>5. Tokens(d)' = {}
            BY <1>3, <1>6, <3>4
        <3> QED BY <1>3, <1>4, <2>1, <3>1, <3>2, <3>5
    <2>2. CASE s # d
        <3>1. \A v \in Threads : Deleting(v, s)' => v # t /\ Deleting(v, s)
            BY <1>1, <1>4, <1>5, <2>2 DEF Deleting, Same
        <3> QED BY <1>4, <1>7, <1>11, <2>2, <3>1 DEF References
    <2> QED BY <2>1, <2>2
<1> QED
    BY <1>8, <1>9, <1>11 DEF References

\* delete_context: nobody refers to the context it frees.
LEMMA DeleteReferences ==
    ASSUME TypeOK, Control, References, NEW t \in Threads, Delete(t)
    PROVE  References'
<1>1. PICK d \in Services : d = tgt[t] /\ Deleting(t, d)
    BY ThreadFacts DEF Delete, Deleting, ControlOf, Maybe, OpPCs
<1>2. ctxMem' = Set(ctxMem, d, "freed") /\ ref' = ref /\ pc'[t] # "mark"
    BY <1>1, NotMark DEF Delete, Release, Run
<1>3. \A s \in Services : Tokens(s)' = Tokens(s)
    BY QuietTokens
<1>4. \A u \in Threads : u # t => Same(u)
    BY Frame DEF Run
<1>5. \A s \in Services : ref'[s] = Cardinality(Tokens(s)') /\ (Tokens(s)' # {} => ctxMem'[s] = "live")
    BY <1>1, <1>2, <1>3 DEF TypeOK, Set, References
<1>6. ASSUME NEW u \in Threads, NEW s \in Services, Deleting(u, s)'
      PROVE  /\ ctxMem'[s] = "live" /\ Tokens(s)' = {}
             /\ \A v \in Threads : Deleting(v, s)' => v = u
    <2>1. \A v \in Threads : Deleting(v, s)' => Deleting(v, s) /\ v # t
        BY <1>2, <1>4 DEF Deleting, Same
    <2>2. s # d
        BY <1>1, <1>6, <2>1 DEF References
    <2>3. ctxMem'[s] = ctxMem[s]
        BY <1>2, <2>2 DEF Set, TypeOK
    <2> QED BY <1>3, <1>6, <2>1, <2>3 DEF References
<1> QED
    BY <1>5, <1>6 DEF References

\* skynet_context_new: the count starts with the table and the creator.
LEMMA LaunchReferences ==
    ASSUME TypeOK, Control, References, NEW t \in Threads, NEW d \in Services, Launch(t, d)
    PROVE  References'
<1>1. ctxMem[d] = "none" /\ ctxMem' = Set(ctxMem, d, "live") /\ ref' = Set(ref, d, 2) /\ pc'[t] # "mark"
    BY NotMark DEF Launch, Release, Choose
<1>2. Tokens(d) = {}
    BY <1>1 DEF References
<1>3. Moves(d, {}, {<<"slot">>, <<"new", t>>})
    BY <1>2, LaunchMoves
<1>4. Cardinality(Tokens(d)') = 2
    <2>1. Tokens(d)' = {<<"slot">>} \cup {<<"new", t>>}
        BY <1>2, <1>3 DEF Moves
    <2>2. IsFiniteSet({<<"slot">>}) /\ Cardinality({<<"slot">>}) = 1 /\ <<"new", t>> \notin {<<"slot">>}
        BY FS_Singleton, TupleNames
    <2>3. Cardinality({<<"slot">>} \cup {<<"new", t>>}) = Cardinality({<<"slot">>}) + 1
        BY <2>2, FS_AddElement
    <2> QED BY <2>1, <2>2, <2>3
<1>5. \A u \in Threads : u # t => Same(u)
    BY Frame DEF Choose
<1>6. \A s \in Services : s # d => Tokens(s)' = Tokens(s)
    BY <1>3 DEF Moves
<1>7. \A s \in Services : ref'[s] = Cardinality(Tokens(s)') /\ (Tokens(s)' # {} => ctxMem'[s] = "live")
    BY <1>1, <1>4, <1>6 DEF TypeOK, Set, References
<1>8. ASSUME NEW u \in Threads, NEW s \in Services, Deleting(u, s)'
      PROVE  /\ ctxMem'[s] = "live" /\ Tokens(s)' = {}
             /\ \A v \in Threads : Deleting(v, s)' => v = u
    <2>1. \A v \in Threads : Deleting(v, s)' => Deleting(v, s)
        BY <1>1, <1>5 DEF Deleting, Same
    <2>2. s # d
        BY <1>1, <1>8, <2>1 DEF References
    <2>3. ctxMem'[s] = ctxMem[s]
        BY <1>1, <2>2 DEF Set, TypeOK
    <2> QED BY <1>6, <1>8, <2>1, <2>2, <2>3 DEF References
<1> QED
    BY <1>7, <1>8 DEF References

\* Every step keeps the counts right and the deletions unique.
LEMMA ReferencesNext ==
    ASSUME TypeOK, Control, References, NEW t \in Threads, Run(t) \/ Choose(t)
    PROVE  References'
<1>1. \A u \in Threads : u # t => Same(u)
    BY Frame
<1>2. CASE Release(t)
    BY <1>2, ReleaseReferences
<1>3. CASE Delete(t)
    BY <1>3, DeleteReferences
<1>4. ASSUME NEW d \in Services, Launch(t, d) PROVE References'
    BY <1>4, LaunchReferences
<1>5. CASE \/ Fetch(t) \/ Orphan(t) \/ Drop(t) \/ Length(t) \/ CbReturn(t) \/ Push(t)
           \/ SetInit(t) \/ Publish(t) \/ LogLaunch(t) \/ AnswerLaunch(t) \/ OrphanNew(t) \/ DropNew(t)
           \/ Grab(t) /\ cur[t] \notin slot
           \/ Pop(t) /\ mailbox[cur[t]] # <<>>
           \/ NextQueue(t) /\ runq # <<>>
           \/ Bounce(t) /\ tgt[t] \notin slot
           \/ RetireNew(t) /\ new[t] \notin slot
    <2>1. \A s \in Services : Tokens(s)' = Tokens(s)
        BY <1>5, QuietTokens
    <2>2. ref' = ref /\ ctxMem' = ctxMem
        BY <1>5 DEF Fetch, Orphan, Drop, Length, CbReturn, Push, SetInit, Publish, LogLaunch, AnswerLaunch, OrphanNew,
                    DropNew, Grab, Pop,
                    NextQueue, Bounce, RetireNew, kernel
    <2>3. ~Release(t)
        BY <1>5 DEF Fetch, Orphan, Drop, Length, CbReturn, Push, SetInit, Publish, LogLaunch, AnswerLaunch, OrphanNew,
                    DropNew, Grab, Pop,
                    NextQueue, Bounce, RetireNew, Release, AfterPCs
    <2> QED BY <1>1, <2>1, <2>2, <2>3, NotMark, QuietReferences
<1>6. ASSUME NEW d \in Services, Send(t, d) PROVE References'
    <2>1. ref' = Set(ref, d, ref[d] + 1) /\ ctxMem' = ctxMem /\ ~Release(t) /\ d \in slot
        BY <1>6 DEF Send, Release, CodePCs
    <2>2. Tokens(d) # {} /\ Moves(d, {}, {<<"op", t>>})
        BY <1>6, <2>1, HasToken, SendMoves
    <2> QED BY <1>1, <2>1, <2>2, NotMark, MovesReferences
<1>7. CASE Bounce(t) /\ tgt[t] \in slot
    <2>1. PICK d \in Services : d = tgt[t] /\ d \in slot
        BY <1>7 DEF TypeOK
    <2>2. ref' = Set(ref, d, ref[d] + 1) /\ ctxMem' = ctxMem /\ ~Release(t)
        BY <1>7, <2>1 DEF Bounce, Release
    <2>3. Tokens(d) # {} /\ Moves(d, {}, {<<"op", t>>})
        BY <1>7, <2>1, HasToken, BounceMoves
    <2> QED BY <1>1, <2>2, <2>3, NotMark, MovesReferences
<1>8. CASE Grab(t) /\ cur[t] \in slot
    <2>1. PICK d \in Services : d = cur[t] /\ d \in slot
        BY <1>8 DEF TypeOK
    <2>2. ref' = Set(ref, d, ref[d] + 1) /\ ctxMem' = ctxMem /\ ~Release(t)
        BY <1>8, <2>1 DEF Grab, Release
    <2>3. Tokens(d) # {} /\ Moves(d, {}, {<<"loop", t>>})
        BY <1>8, <2>1, HasToken, GrabMoves
    <2> QED BY <1>1, <2>2, <2>3, NotMark, MovesReferences
<1>9. CASE \/ Pop(t) /\ mailbox[cur[t]] = <<>>
           \/ NextQueue(t) /\ runq = <<>>
           \/ PutBack(t)
    <2>1. PICK d \in Services : d = cur[t]
        BY <1>9, ThreadFacts DEF ControlOf, Maybe, Base, OpPCs, Pop, NextQueue, PutBack
    <2>2. ref' = ref /\ ctxMem' = ctxMem /\ ~Release(t)
        BY <1>9 DEF Pop, NextQueue, PutBack, Release
    <2>3. Moves(d, {<<"loop", t>>}, {<<"op", t>>})
        BY <1>9, <2>1, PopMoves, NextQueueMoves, PutBackMoves
    <2>4. Tokens(d) # {}
        BY <2>3 DEF Moves
    <2> QED BY <1>1, <2>2, <2>3, <2>4, NotMark, MovesReferences
<1>10. CASE InitReturn(t)
    <2>1. PICK d \in Services : d = new[t]
        BY <1>10, ThreadFacts DEF ControlOf, Maybe, Base, OpPCs, LaunchPCs, AfterPCs, InitReturn
    <2>2. ref' = ref /\ ctxMem' = ctxMem /\ ~Release(t)
        BY <1>10 DEF InitReturn, Release, kernel
    <2>3. Moves(d, {<<"new", t>>}, {<<"op", t>>})
        BY <1>10, <2>1, InitReturnMoves
    <2>4. Tokens(d) # {}
        BY <2>3 DEF Moves
    <2> QED BY <1>1, <2>2, <2>3, <2>4, NotMark, MovesReferences
<1>11. ASSUME NEW d \in Services, Kill(t, d) \/ (RetireNew(t) /\ d = new[t] /\ d \in slot)
       PROVE  References'
    <2>1. ref' = ref /\ ctxMem' = ctxMem /\ ~Release(t)
        BY <1>11 DEF Kill, RetireNew, Release
    <2>2. Moves(d, {<<"slot">>}, {<<"op", t>>})
        BY <1>11, KillMoves, RetireNewMoves
    <2>3. Tokens(d) # {}
        BY <2>2 DEF Moves
    <2> QED BY <1>1, <2>1, <2>2, <2>3, NotMark, MovesReferences
<1>12. CASE Choose(t)
    BY <1>4, <1>6, <1>11, <1>12 DEF Choose
<1>13. CASE RetireNew(t) /\ new[t] \in slot
    <2>1. new[t] \in Services
        BY <1>13 DEF TypeOK
    <2> QED BY <1>11, <1>13, <2>1
<1>14. CASE Run(t)
    BY <1>2, <1>3, <1>5, <1>7, <1>8, <1>9, <1>10, <1>13, <1>14 DEF Run
<1> QED
    BY <1>12, <1>14

-----------------------------------------------------------------------------
(* Types *)

\* A step of thread t writes no variable of another thread.
Updates(t) ==
    /\ pc' = Set(pc, t, pc'[t]) /\ cur' = Set(cur, t, cur'[t]) /\ nxt' = Set(nxt, t, nxt'[t])
    /\ left' = Set(left, t, left'[t]) /\ tgt' = Set(tgt, t, tgt'[t]) /\ out' = Set(out, t, out'[t])
    /\ ret' = Set(ret, t, ret'[t]) /\ new' = Set(new, t, new'[t])

\* the types of the locals of one thread
Values(t) ==
    /\ pc[t] \in PCs /\ ret[t] \in PCs \ OpPCs
    /\ cur[t] \in Maybe /\ nxt[t] \in Maybe /\ tgt[t] \in Maybe /\ new[t] \in Maybe
    /\ left[t] \in Int /\ out[t] \in Message

\* A step assigns to the locals of its thread only.
LEMMA UpdatesOnly ==
    ASSUME TypeOK, Control, NEW t \in Threads, Run(t) \/ Choose(t)
    PROVE  Updates(t)
<1> USE ThreadFacts DEF TypeOK, Updates, Set
<1>1. CASE Fetch(t)
    BY <1>1 DEF Fetch
<1>2. CASE Grab(t)
    BY <1>2 DEF Grab
<1>3. CASE Orphan(t)
    BY <1>3 DEF Orphan
<1>4. CASE Drop(t)
    BY <1>4 DEF Drop, DropRound
<1>5. CASE Pop(t)
    BY <1>5 DEF Pop, Unref
<1>6. CASE Length(t)
    BY <1>6 DEF Length, kernel
<1>7. CASE CbReturn(t)
    BY <1>7 DEF CbReturn, kernel
<1>8. CASE NextQueue(t)
    BY <1>8 DEF NextQueue, Unref
<1>9. CASE PutBack(t)
    BY <1>9 DEF PutBack, Unref
<1>10. CASE Bounce(t)
    BY <1>10 DEF Bounce
<1>11. CASE Push(t)
    BY <1>11 DEF Push
<1>12. CASE Delete(t)
    BY <1>12 DEF Delete
<1>13. CASE InitReturn(t)
    BY <1>13 DEF InitReturn, Unref, kernel
<1>14. CASE Publish(t)
    BY <1>14 DEF Publish
<1>22. CASE SetInit(t) \/ LogLaunch(t) \/ AnswerLaunch(t)
    BY <1>22 DEF SetInit, LogLaunch, AnswerLaunch, kernel
<1>15. CASE RetireNew(t)
    BY <1>15 DEF RetireNew, Unref
<1>16. CASE OrphanNew(t)
    BY <1>16 DEF OrphanNew
<1>17. CASE DropNew(t)
    BY <1>17 DEF DropNew, DropRound
<1>18. CASE Release(t)
    BY <1>18 DEF Release
<1>19. ASSUME NEW s \in Services, Send(t, s)
       PROVE  Updates(t)
    BY <1>19 DEF Send
<1>20. ASSUME NEW s \in Services, Kill(t, s)
       PROVE  Updates(t)
    BY <1>20 DEF Kill, Unref
<1>21. ASSUME NEW s \in Services, Launch(t, s)
       PROVE  Updates(t)
    BY <1>21 DEF Launch
<1> QED
    BY <1>1, <1>2, <1>3, <1>4, <1>5, <1>6, <1>7, <1>8, <1>9, <1>10, <1>11, <1>12, <1>13, <1>14, <1>15,
       <1>16, <1>17, <1>18, <1>19, <1>20, <1>21, <1>22 DEF Run, Choose

\* What it assigns has the right type.
LEMMA ValuesNext ==
    ASSUME TypeOK, Control, NEW t \in Threads, Run(t) \/ Choose(t)
    PROVE  Values(t)'
<1>a. /\ left[t] \in Int /\ out[t] \in Message
      /\ DOMAIN left = Threads /\ DOMAIN out = Threads /\ mailbox \in [Services -> Seq(Message)]
    BY DEF TypeOK
<1>b. ASSUME NEW s \in Services, mailbox[s] # <<>> PROVE Head(mailbox[s]).src \in Maybe
    <2>1. Head(mailbox[s]) \in Message
        BY <1>a, <1>b
    <2> QED BY <2>1 DEF Message
<1>c. pc[t] = "length" => Len(mailbox[cur[t]]) \div Pow2(Weight[t]) \in Int
    <2> SUFFICES ASSUME pc[t] = "length" PROVE Len(mailbox[cur[t]]) \div Pow2(Weight[t]) \in Int
        OBVIOUS
    <2>1. cur[t] \in Services /\ t \in Workers /\ Weight[t] >= 0
        BY ThreadFacts DEF ControlOf, Base, OpPCs, Maybe
    <2>2. Weight[t] = 0 \/ Weight[t] = 1 \/ Weight[t] = 2 \/ Weight[t] = 3
        BY <2>1, DispatchAssumption
    <2>3. Pow2(Weight[t]) \in {1, 2, 4, 8}
        BY <2>2 DEF Pow2
    <2>4. Len(mailbox[cur[t]]) \in Nat
        BY <1>a, <2>1
    <2> QED BY <2>3, <2>4
<1> USE ThreadFacts, <1>a, <1>b, <1>c DEF Values, ControlOf, Base, PCs, LoopPCs, LaunchPCs, AfterPCs, OpPCs, CodePCs,
           Maybe, Message, Set, NoMessage, Self
<1>1. CASE Fetch(t)
    BY <1>1 DEF Fetch
<1>2. CASE Grab(t)
    BY <1>2 DEF Grab
<1>3. CASE Orphan(t)
    BY <1>3 DEF Orphan
<1>4. CASE Drop(t)
    BY <1>4 DEF Drop, DropRound
<1>5. CASE Pop(t)
    BY <1>5 DEF Pop, Unref
<1>6. CASE Length(t)
    BY <1>6 DEF Length, kernel
<1>7. CASE CbReturn(t)
    BY <1>7 DEF CbReturn, kernel
<1>8. CASE NextQueue(t)
    BY <1>8 DEF NextQueue, Unref
<1>9. CASE PutBack(t)
    BY <1>9 DEF PutBack, Unref
<1>10. CASE Bounce(t)
    BY <1>10 DEF Bounce
<1>11. CASE Push(t)
    BY <1>11 DEF Push
<1>12. CASE Delete(t)
    BY <1>12 DEF Delete
<1>13. CASE InitReturn(t)
    BY <1>13 DEF InitReturn, Unref, kernel
<1>14. CASE Publish(t)
    BY <1>14 DEF Publish
<1>22. CASE SetInit(t) \/ LogLaunch(t) \/ AnswerLaunch(t)
    BY <1>22 DEF SetInit, LogLaunch, AnswerLaunch, kernel
<1>15. CASE RetireNew(t)
    BY <1>15 DEF RetireNew, Unref
<1>16. CASE OrphanNew(t)
    BY <1>16 DEF OrphanNew
<1>17. CASE DropNew(t)
    BY <1>17 DEF DropNew, DropRound
<1>18. CASE Release(t)
    BY <1>18 DEF Release
<1>19. ASSUME NEW s \in Services, Send(t, s)
       PROVE  Values(t)'
    BY <1>19 DEF Send
<1>20. ASSUME NEW s \in Services, Kill(t, s)
       PROVE  Values(t)'
    BY <1>20 DEF Kill, Unref
<1>21. ASSUME NEW s \in Services, Launch(t, s)
       PROVE  Values(t)'
    BY <1>21 DEF Launch
<1> QED
    BY <1>1, <1>2, <1>3, <1>4, <1>5, <1>6, <1>7, <1>8, <1>9, <1>10, <1>11, <1>12, <1>13, <1>14, <1>15,
       <1>16, <1>17, <1>18, <1>19, <1>20, <1>21, <1>22 DEF Run, Choose

\* the types of what the threads share
KernelType ==
    /\ slot \subseteq Services
    /\ ref \in [Services -> Nat]
    /\ ctxMem \in [Services -> {"none", "live", "freed"}]
    /\ mqMem \in [Services -> {"none", "live", "freed"}]
    /\ mailbox \in [Services -> Seq(Message)]
    /\ inGlobal \in [Services -> BOOLEAN]
    /\ marked \in [Services -> BOOLEAN]
    /\ runq \in Seq(Services)
    /\ total \in Int
    /\ sent \in 0..MaxSend

\* Every step keeps the shared state well typed; that ref stays a natural
\* rests on the reference released being counted.
LEMMA KernelNext ==
    ASSUME TypeOK, Control, References, NEW t \in Threads, Run(t) \/ Choose(t)
    PROVE  KernelType'
<1>a. KernelType /\ out[t] \in Message
    BY DEF TypeOK, KernelType
<1>b. ASSUME NEW s \in Services, mailbox[s] # <<>> PROVE Tail(mailbox[s]) \in Seq(Message)
    BY <1>a, <1>b, HeadTailProperties DEF KernelType
<1>c. runq # <<>> => Tail(runq) \in Seq(Services)
    BY <1>a, HeadTailProperties DEF KernelType
<1>d. Release(t) => ref' \in [Services -> Nat]
    BY ReleaseReferences
<1>e. MaxSend \in Nat
    BY DispatchAssumption
<1>f. \A s \in Services : Append(runq, s) \in Seq(Services)
    BY <1>a DEF KernelType
<1>g. /\ Base(t) \in LaunchPCs => new[t] \in Services
      /\ Base(t) \notin {"fetch", "idle"} => cur[t] \in Services
    BY ThreadFacts DEF ControlOf, Maybe
<1>2. CASE Grab(t)
    <2>1. ref' \in [Services -> Nat]
        BY <1>2, <1>a DEF Grab, KernelType, Set
    <2> QED BY <1>2, <1>a, <2>1 DEF Grab, KernelType
<1>3. CASE Orphan(t)
    <2>1. cur[t] \in Services
        BY <1>3, <1>g DEF Orphan, Base, OpPCs
    <2>2. runq' \in Seq(Services)
        BY <1>3, <1>a, <1>f, <2>1 DEF Orphan, KernelType
    <2> QED BY <1>3, <1>a, <2>2 DEF Orphan, KernelType
<1>16. CASE OrphanNew(t)
    <2>1. new[t] \in Services
        BY <1>16, <1>g DEF OrphanNew, Base, OpPCs, LaunchPCs, AfterPCs
    <2>2. runq' \in Seq(Services)
        BY <1>16, <1>a, <1>f, <2>1 DEF OrphanNew, KernelType
    <2> QED BY <1>16, <1>a, <2>2 DEF OrphanNew, KernelType
<1>5. CASE Pop(t)
    <2>1. cur[t] \in Services
        BY <1>5, <1>g DEF Pop, Base, OpPCs
    <2>2. mailbox' \in [Services -> Seq(Message)] /\ inGlobal' \in [Services -> BOOLEAN]
        BY <1>5, <1>a, <1>b, <2>1 DEF Pop, KernelType, Set
    <2> QED BY <1>5, <1>a, <2>2 DEF Pop, KernelType
<1>h. ASSUME NEW d \in Services, NEW done, DropRound(t, d, done)
      PROVE  /\ mailbox' \in [Services -> Seq(Message)] /\ inGlobal' \in [Services -> BOOLEAN]
             /\ mqMem' \in [Services -> {"none", "live", "freed"}]
    <2>1. CASE mailbox[d] # <<>>
        <3>1. mailbox' = Set(mailbox, d, Tail(mailbox[d])) /\ inGlobal' = inGlobal /\ mqMem' = mqMem
            BY <1>h, <2>1 DEF DropRound
        <3> QED BY <1>a, <1>b, <2>1, <3>1 DEF KernelType, Set
    <2>2. CASE mailbox[d] = <<>>
        <3>1. mailbox' = mailbox /\ inGlobal' = Set(inGlobal, d, FALSE) /\ mqMem' = Set(mqMem, d, "freed")
            BY <1>h, <2>2 DEF DropRound
        <3> QED BY <1>a, <3>1 DEF KernelType, Set
    <2> QED BY <2>1, <2>2
<1>4. CASE Drop(t)
    <2>1. cur[t] \in Services
        BY <1>4, <1>g DEF Drop, Base, OpPCs
    <2> QED BY <1>4, <1>a, <1>h, <2>1 DEF Drop, KernelType
<1>17. CASE DropNew(t)
    <2>1. new[t] \in Services
        BY <1>17, <1>g DEF DropNew, Base, OpPCs, LaunchPCs, AfterPCs
    <2> QED BY <1>17, <1>a, <1>h, <2>1 DEF DropNew, KernelType
<1>10. CASE Bounce(t)
    <2>1. ref' \in [Services -> Nat]
        BY <1>a, <1>10 DEF Bounce, KernelType, Set
    <2>2. UNCHANGED <<slot, ctxMem, mqMem, mailbox, inGlobal, marked, runq, total, sent>>
        BY <1>10 DEF Bounce
    <2> QED BY <1>a, <2>1, <2>2 DEF KernelType
<1> USE ThreadFacts, <1>a, <1>b, <1>c, <1>d, <1>e, <1>f, <1>g DEF KernelType, ControlOf, Base, LaunchPCs, AfterPCs,
           OpPCs, Maybe, Set
<1>1. CASE Fetch(t)
    BY <1>1 DEF Fetch
<1>6. CASE Length(t)
    BY <1>6 DEF Length, kernel
<1>7. CASE CbReturn(t)
    BY <1>7 DEF CbReturn, kernel
<1>8. CASE NextQueue(t)
    BY <1>8 DEF NextQueue, Unref
<1>9. CASE PutBack(t)
    BY <1>9 DEF PutBack, Unref
<1>11. CASE Push(t)
    BY <1>11 DEF Push
<1>12. CASE Delete(t)
    BY <1>12 DEF Delete
<1>13. CASE InitReturn(t)
    BY <1>13 DEF InitReturn, Unref, kernel
<1>14. CASE Publish(t)
    BY <1>14 DEF Publish
<1>22. CASE SetInit(t) \/ LogLaunch(t) \/ AnswerLaunch(t)
    BY <1>22 DEF SetInit, LogLaunch, AnswerLaunch, kernel
<1>15. CASE RetireNew(t)
    BY <1>15 DEF RetireNew, Unref
<1>18. CASE Release(t)
    BY <1>18 DEF Release
<1>19. ASSUME NEW s \in Services, Send(t, s)
       PROVE  KernelType'
    BY <1>19 DEF Send
<1>20. ASSUME NEW s \in Services, Kill(t, s)
       PROVE  KernelType'
    BY <1>20 DEF Kill, Unref
<1>21. ASSUME NEW s \in Services, Launch(t, s)
       PROVE  KernelType'
    BY <1>21 DEF Launch
<1> QED
    BY <1>1, <1>2, <1>3, <1>4, <1>5, <1>6, <1>7, <1>8, <1>9, <1>10, <1>11, <1>12, <1>13, <1>14, <1>15,
       <1>16, <1>17, <1>18, <1>19, <1>20, <1>21, <1>22 DEF Run, Choose

\* Every step preserves the type invariant.
LEMMA TypeNext ==
    ASSUME TypeOK, Control, References, NEW t \in Threads, Run(t) \/ Choose(t)
    PROVE  TypeOK'
<1>1. Updates(t) /\ Values(t)' /\ KernelType'
    BY UpdatesOnly, ValuesNext, KernelNext
<1>2. pc' \in [Threads -> PCs] /\ ret' \in [Threads -> PCs \ OpPCs]
    BY <1>1 DEF Updates, Values, TypeOK, Set
<1>3. /\ cur' \in [Threads -> Maybe] /\ nxt' \in [Threads -> Maybe]
      /\ tgt' \in [Threads -> Maybe] /\ new' \in [Threads -> Maybe]
    BY <1>1 DEF Updates, Values, TypeOK, Set
<1>4. left' \in [Threads -> Int] /\ out' \in [Threads -> Message]
    BY <1>1 DEF Updates, Values, TypeOK, Set
<1> QED
    BY <1>1, <1>2, <1>3, <1>4 DEF TypeOK, KernelType

\* What a thread has in hand follows its pc in the next state too.
LEMMA ControlNext ==
    ASSUME TypeOK, Control, NEW t \in Threads, Run(t) \/ Choose(t)
    PROVE  Control'
<1>1. ControlOf(t)'
    BY ControlSelf
<1>2. ASSUME NEW s \in Services, marked[s] PROVE marked'[s]
    BY <1>2 DEF Run, Choose, Fetch, Grab, Orphan, Drop, DropRound, Pop, Length, CbReturn, NextQueue, PutBack,
        Bounce, Push, Release, Delete, InitReturn, SetInit, Publish, LogLaunch, AnswerLaunch, RetireNew, OrphanNew, DropNew,
        Send, Kill,
        Launch, kernel, Set, TypeOK
<1>3. ASSUME NEW u \in Threads, u # t PROVE ControlOf(u)'
    <2>1. Same(u)
        BY <1>3, Frame
    <2>2. Base(u)' = Base(u)
        BY <2>1 DEF Same, Base
    <2>3. cur[u] \in Maybe /\ new[u] \in Maybe /\ ControlOf(u)
        BY DEF TypeOK, Control
    <2> QED BY <1>2, <2>1, <2>2, <2>3 DEF Same, ControlOf, Maybe, LaunchPCs, AfterPCs
<1> QED
    BY <1>1, <1>3 DEF Control

-----------------------------------------------------------------------------
(* Hands *)

\* skynet_globalmq_push of a mailbox that is not in the queue.
LEMMA QueueAppend ==
    ASSUME NEW q \in Seq(Services), NEW s \in Services
    PROVE  /\ Elems(Append(q, s)) = Elems(q) \cup {s}
           /\ NoRepeat(q) /\ s \notin Elems(q) => NoRepeat(Append(q, s))
<1>1. /\ Len(Append(q, s)) = Len(q) + 1 /\ Len(q) \in Nat
      /\ \A i \in 1..Len(q) : Append(q, s)[i] = q[i]
      /\ Append(q, s)[Len(q) + 1] = s
    OBVIOUS
<1>2. Elems(Append(q, s)) = Elems(q) \cup {s}
    BY <1>1 DEF Elems
<1>3. NoRepeat(q) /\ s \notin Elems(q) => NoRepeat(Append(q, s))
    BY <1>1 DEF NoRepeat, Elems
<1> QED BY <1>2, <1>3

\* skynet_globalmq_pop.
LEMMA QueueTail ==
    ASSUME NEW q \in Seq(Services), q # <<>>, NoRepeat(q)
    PROVE  /\ Head(q) \in Services /\ Head(q) \in Elems(q)
           /\ Elems(Tail(q)) = Elems(q) \ {Head(q)}
           /\ NoRepeat(Tail(q))
<1>1. /\ Len(Tail(q)) = Len(q) - 1 /\ Len(q) \in Nat /\ Len(q) >= 1 /\ Head(q) = q[1]
      /\ \A i \in 1..(Len(q) - 1) : Tail(q)[i] = q[i + 1]
    BY HeadTailProperties
<1>2. NoRepeat(Tail(q))
    BY <1>1 DEF NoRepeat
<1>3. Head(q) \in Services /\ Head(q) \in Elems(q)
    BY <1>1 DEF Elems
<1>4. \A x : x \in Elems(Tail(q)) => x \in Elems(q) /\ x # Head(q)
    BY <1>1 DEF Elems, NoRepeat
<1>5. ASSUME NEW x, x \in Elems(q), x # Head(q) PROVE x \in Elems(Tail(q))
    <2>1. PICK i \in 1..Len(q) : x = q[i]
        BY <1>5 DEF Elems
    <2>2. i # 1
        BY <1>1, <1>5, <2>1
    <2>3. i - 1 \in 1..Len(Tail(q)) /\ Tail(q)[i - 1] = x
        BY <1>1, <2>1, <2>2
    <2> QED BY <2>3 DEF Elems
<1> QED BY <1>2, <1>3, <1>4, <1>5

\* what a step of thread t can move: the run queue and its own hands
At(t) == (Queued \cup {cur[t], nxt[t], new[t]}) \ {NoService}

\* the mailboxes that thread t has are different
Distinct(t) ==
    /\ cur[t] # NoService => cur[t] # nxt[t] /\ cur[t] # new[t] /\ cur[t] \notin Queued
    /\ nxt[t] # NoService => nxt[t] # new[t] /\ nxt[t] \notin Queued
    /\ new[t] # NoService => new[t] \notin Queued

\* A step that brings at most mailboxes nobody has into the reach of t.
LEMMA HandsStep ==
    ASSUME TypeOK, runq' \in Seq(Services), Placed, NEW t \in Threads, \A u \in Threads : u # t => Same(u),
           NoRepeat(runq'), Distinct(t)',
           \A s \in Services : s \in At(t)' => s \in At(t) \/ ~InHand(s)
    PROVE  /\ Placed'
           /\ \A s \in Services : InHand(s)' <=> s \in At(t)' \/ (InHand(s) /\ s \notin At(t))
<1>1. NoService \notin Queued' /\ NoService \notin Queued
    <2>1. NoService \notin Services /\ runq \in Seq(Services)
        BY DispatchAssumption DEF TypeOK
    <2>2. \A q \in Seq(Services) : \A i \in 1..Len(q) : q[i] \in Services
        OBVIOUS
    <2>3. Queued \subseteq Services /\ Queued' \subseteq Services
        BY <2>1, <2>2 DEF Queued, Elems
    <2> QED BY <2>1, <2>3
<1>2. ASSUME NEW u \in Threads, u # t, NEW s \in Services, s \in {cur[u], nxt[u], new[u]}
      PROVE  s \notin At(t) /\ InHand(s) /\ s \notin At(t)'
    BY <1>2 DEF Placed, At, InHand
<1>3. ASSUME NEW s \in Services
      PROVE  /\ s \in At(t) <=> s \in Queued \cup {cur[t], nxt[t], new[t]}
             /\ s \in At(t)' <=> s \in Queued' \cup {cur'[t], nxt'[t], new'[t]}
    BY DispatchAssumption DEF At
<1>4. ASSUME NEW s \in Services
      PROVE  InHand(s)' <=> s \in At(t)' \/ (InHand(s) /\ s \notin At(t))
    <2>1. InHand(s)' => s \in At(t)' \/ (InHand(s) /\ s \notin At(t))
        BY <1>2, <1>3 DEF InHand, Same
    <2>2. s \in At(t)' => InHand(s)'
        BY <1>3 DEF InHand
    <2>3. InHand(s) /\ s \notin At(t) => InHand(s)'
        BY <1>3 DEF InHand, Same
    <2> QED BY <2>1, <2>2, <2>3
<1>5. ASSUME NEW u \in Threads
      PROVE  cur'[u] \notin Queued' /\ nxt'[u] \notin Queued' /\ new'[u] \notin Queued'
    <2>1. CASE u = t
        BY <1>1, <2>1 DEF Distinct
    <2>2. CASE u # t
        <3>1. /\ cur'[u] = cur[u] /\ nxt'[u] = nxt[u] /\ new'[u] = new[u]
              /\ cur[u] \in Maybe /\ nxt[u] \in Maybe /\ new[u] \in Maybe
            BY <2>2 DEF Same, TypeOK
        <3> QED BY <1>1, <1>2, <1>3, <2>2, <3>1 DEF Maybe
    <2> QED BY <2>1, <2>2
<1>6. ASSUME NEW u \in Threads, NEW v \in Threads
      PROVE  /\ cur'[u] = cur'[v] => u = v \/ cur'[u] = NoService
             /\ nxt'[u] = nxt'[v] => u = v \/ nxt'[u] = NoService
             /\ new'[u] = new'[v] => u = v \/ new'[u] = NoService
             /\ cur'[u] = nxt'[v] => cur'[u] = NoService
             /\ cur'[u] = new'[v] => cur'[u] = NoService
             /\ nxt'[u] = new'[v] => nxt'[u] = NoService
    <2>1. CASE u # t /\ v # t
        BY <2>1 DEF Same, Placed
    <2>2. CASE u = t /\ v = t
        BY <2>2 DEF Distinct
    <2>3. ASSUME NEW w \in Threads, w # t, NEW s \in {cur'[w], nxt'[w], new'[w]}, s # NoService
          PROVE  s \notin {cur'[t], nxt'[t], new'[t]}
        <3>1. s \in Services /\ s \in {cur[w], nxt[w], new[w]}
            BY <2>3 DEF Same, TypeOK, Maybe
        <3> QED BY <1>2, <1>3, <2>3, <3>1
    <2>4. CASE u = t /\ v # t
        BY <2>3, <2>4
    <2>5. CASE u # t /\ v = t
        BY <2>3, <2>5
    <2> QED BY <2>1, <2>2, <2>4, <2>5
<1> QED
    BY <1>4, <1>5, <1>6 DEF Placed

\* the same mailboxes are in hand as before
HandsKept == Placed' /\ \A s \in Services : InHand(s)' <=> InHand(s)

\* A step that moves no mailbox.
LEMMA UnmovedHands ==
    ASSUME Placed, UNCHANGED <<runq, cur, nxt, new>>
    PROVE  HandsKept
<1>1. Queued' = Queued
    BY DEF Queued
<1> QED
    BY <1>1 DEF Placed, InHand, HandsKept

\* A step that moves a mailbox between the run queue and the hands of t.
LEMMA MovedHands ==
    ASSUME TypeOK, runq' \in Seq(Services), Placed, NEW t \in Threads, \A u \in Threads : u # t => Same(u),
           NoRepeat(runq'), Distinct(t)', \A s \in Services : s \in At(t)' <=> s \in At(t)
    PROVE  HandsKept
<1>1. /\ Placed'
      /\ \A s \in Services : InHand(s)' <=> s \in At(t)' \/ (InHand(s) /\ s \notin At(t))
    BY HandsStep
<1>2. ASSUME NEW s \in Services, s \in At(t) PROVE InHand(s)
    BY <1>2 DEF At, InHand
<1> QED
    BY <1>1, <1>2 DEF HandsKept

\* skynet_globalmq_pop moves the first mailbox of the run queue into a hand.
LEMMA TakeHands ==
    ASSUME TypeOK, Control, Placed, NEW t \in Threads, Fetch(t) \/ (NextQueue(t) /\ runq # <<>>)
    PROVE  HandsKept
<1>1. /\ runq \in Seq(Services) /\ runq # <<>> /\ NoRepeat(runq) /\ runq' = Tail(runq)
    BY DEF Fetch, NextQueue, Placed, TypeOK
<1>2. /\ Head(runq) \in Queued /\ Queued' = Queued \ {Head(runq)} /\ NoRepeat(runq')
      /\ Head(runq) \in Services
    BY <1>1, QueueTail DEF Queued
<1>3. runq' \in Seq(Services)
    BY <1>1, HeadTailProperties
<1>4. \A u \in Threads : u # t => Same(u)
    BY Frame DEF Run
<1>5. NoService \notin Queued /\ NoService \notin Services
    BY <1>1, DispatchAssumption DEF Queued, Elems
<1>6. /\ cur[t] \notin Queued /\ nxt[t] \notin Queued /\ new[t] \notin Queued
      /\ cur[t] # NoService => cur[t] # nxt[t] /\ cur[t] # new[t]
      /\ nxt[t] # NoService => nxt[t] # new[t]
    BY DEF Placed
<1>7. CASE Fetch(t)
    <2>1. cur[t] = NoService /\ cur'[t] = Head(runq) /\ nxt'[t] = nxt[t] /\ new'[t] = new[t]
        BY <1>7, ThreadFacts DEF Fetch, ControlOf, Base, OpPCs, Set
    <2>2. Distinct(t)'
        BY <1>2, <1>5, <1>6, <2>1 DEF Distinct
    <2>3. \A s \in Services : s \in At(t)' <=> s \in At(t)
        BY <1>2, <1>5, <2>1 DEF At
    <2> QED BY <1>2, <1>3, <1>4, <2>2, <2>3, MovedHands
<1>8. CASE NextQueue(t)
    <2>1. nxt[t] = NoService /\ nxt'[t] = Head(runq) /\ cur'[t] = cur[t] /\ new'[t] = new[t]
        BY <1>1, <1>8, ThreadFacts DEF NextQueue, ControlOf, Base, OpPCs, Set
    <2>2. Distinct(t)'
        BY <1>2, <1>5, <1>6, <2>1 DEF Distinct
    <2>3. \A s \in Services : s \in At(t)' <=> s \in At(t)
        BY <1>2, <1>5, <2>1 DEF At
    <2> QED BY <1>2, <1>3, <1>4, <2>2, <2>3, MovedHands
<1> QED BY <1>7, <1>8

\* skynet_globalmq_push moves the mailbox in a hand of t to the run queue.
LEMMA PutHands ==
    ASSUME TypeOK, Control, Placed, NEW t \in Threads,
           \/ PutBack(t) \/ Publish(t)
           \/ Orphan(t) /\ ~marked[cur[t]]
           \/ OrphanNew(t) /\ ~marked[new[t]]
    PROVE  HandsKept
<1>1. \A u \in Threads : u # t => Same(u)
    BY Frame DEF Run
<1>2. /\ runq \in Seq(Services) /\ NoRepeat(runq)
      /\ cur[t] \notin Queued /\ nxt[t] \notin Queued /\ new[t] \notin Queued
      /\ cur[t] # NoService => cur[t] # nxt[t] /\ cur[t] # new[t]
      /\ nxt[t] # NoService => nxt[t] # new[t]
    BY DEF Placed, TypeOK
<1>3. NoService \notin Queued /\ NoService \notin Services
    BY <1>2, DispatchAssumption DEF Queued, Elems
<1>4. ASSUME NEW d \in Services, d \notin Queued, runq' = Append(runq, d)
      PROVE  Queued' = Queued \cup {d} /\ NoRepeat(runq') /\ runq' \in Seq(Services)
    BY <1>2, <1>4, QueueAppend DEF Queued
<1>5. CASE PutBack(t)
    <2>1. /\ cur[t] \in Services /\ cur'[t] = nxt[t] /\ nxt'[t] = NoService /\ new'[t] = new[t]
          /\ runq' = Append(runq, cur[t])
        BY <1>5, ThreadFacts DEF PutBack, ControlOf, Base, OpPCs, Set, Maybe
    <2>2. Queued' = Queued \cup {cur[t]} /\ NoRepeat(runq') /\ runq' \in Seq(Services)
        BY <1>2, <1>4, <2>1
    <2>3. Distinct(t)'
        BY <1>2, <1>3, <2>1, <2>2 DEF Distinct
    <2>4. \A s \in Services : s \in At(t)' <=> s \in At(t)
        BY <1>3, <2>1, <2>2 DEF At
    <2> QED BY <1>1, <2>2, <2>3, <2>4, MovedHands
<1>6. CASE Orphan(t) /\ ~marked[cur[t]]
    <2>1. /\ cur[t] \in Services /\ cur'[t] = NoService /\ nxt'[t] = nxt[t] /\ new'[t] = new[t]
          /\ runq' = Append(runq, cur[t])
        BY <1>6, ThreadFacts DEF Orphan, ControlOf, Base, OpPCs, Set, Maybe
    <2>2. Queued' = Queued \cup {cur[t]} /\ NoRepeat(runq') /\ runq' \in Seq(Services)
        BY <1>2, <1>4, <2>1
    <2>3. Distinct(t)'
        BY <1>2, <1>3, <2>1, <2>2 DEF Distinct
    <2>4. \A s \in Services : s \in At(t)' <=> s \in At(t)
        BY <1>3, <2>1, <2>2 DEF At
    <2> QED BY <1>1, <2>2, <2>3, <2>4, MovedHands
<1>7. CASE Publish(t) \/ (OrphanNew(t) /\ ~marked[new[t]])
    <2>1. /\ new[t] \in Services /\ new'[t] = NoService /\ nxt'[t] = nxt[t] /\ cur'[t] = cur[t]
          /\ runq' = Append(runq, new[t])
        BY <1>7, ThreadFacts DEF Publish, OrphanNew, ControlOf, Base, OpPCs, LaunchPCs, AfterPCs, Set, Maybe
    <2>2. Queued' = Queued \cup {new[t]} /\ NoRepeat(runq') /\ runq' \in Seq(Services)
        BY <1>2, <1>4, <2>1
    <2>3. Distinct(t)'
        BY <1>2, <1>3, <2>1, <2>2 DEF Distinct
    <2>4. \A s \in Services : s \in At(t)' <=> s \in At(t)
        BY <1>3, <2>1, <2>2 DEF At
    <2> QED BY <1>1, <2>2, <2>3, <2>4, MovedHands
<1> QED BY <1>5, <1>6, <1>7

\* A mailbox that leaves the hands of t is in no hand.
LEMMA LostHands ==
    ASSUME TypeOK, Placed, NEW t \in Threads, \A u \in Threads : u # t => Same(u), runq' = runq, nxt' = nxt,
           NEW d \in Services,
           \/ d = cur[t] /\ cur'[t] = NoService /\ new' = new
           \/ d = new[t] /\ new'[t] = NoService /\ cur' = cur
    PROVE  Placed' /\ \A s \in Services : InHand(s)' <=> InHand(s) /\ s # d
<1>1. /\ runq \in Seq(Services) /\ NoRepeat(runq) /\ Queued' = Queued
      /\ cur[t] \notin Queued /\ nxt[t] \notin Queued /\ new[t] \notin Queued
      /\ cur[t] # NoService => cur[t] # nxt[t] /\ cur[t] # new[t]
      /\ nxt[t] # NoService => nxt[t] # new[t]
    BY DEF Placed, TypeOK, Queued
<1>2. NoService \notin Services
    BY DispatchAssumption
<1>3. Distinct(t)'
    BY <1>1 DEF Distinct
<1>4. \A s \in Services : s \in At(t)' <=> s \in At(t) /\ s # d
    BY <1>1, <1>2 DEF At
<1>5. \A s \in Services : s \in At(t) => InHand(s)
    BY DEF At, InHand
<1>6. d \in At(t)
    BY <1>2 DEF At
<1>7. /\ Placed'
      /\ \A s \in Services : InHand(s)' <=> s \in At(t)' \/ (InHand(s) /\ s \notin At(t))
    BY <1>1, <1>3, <1>4, HandsStep
<1> QED
    BY <1>4, <1>5, <1>6, <1>7

\* A mailbox nobody has comes into the run queue.
LEMMA PushedHands ==
    ASSUME TypeOK, Placed, NEW t \in Threads, \A u \in Threads : u # t => Same(u),
           UNCHANGED <<cur, nxt, new>>, NEW d \in Services, ~InHand(d), runq' = Append(runq, d)
    PROVE  Placed' /\ \A s \in Services : InHand(s)' <=> InHand(s) \/ s = d
<1>1. /\ runq \in Seq(Services) /\ NoRepeat(runq)
      /\ cur[t] \notin Queued /\ nxt[t] \notin Queued /\ new[t] \notin Queued
      /\ cur[t] # NoService => cur[t] # nxt[t] /\ cur[t] # new[t]
      /\ nxt[t] # NoService => nxt[t] # new[t]
    BY DEF Placed, TypeOK
<1>2. NoService \notin Services /\ d \notin Queued /\ d \notin {cur[t], nxt[t], new[t]}
    BY DispatchAssumption DEF InHand
<1>3. Queued' = Queued \cup {d} /\ NoRepeat(runq') /\ runq' \in Seq(Services)
    BY <1>1, <1>2, QueueAppend DEF Queued
<1>4. Distinct(t)'
    BY <1>1, <1>2, <1>3 DEF Distinct
<1>5. \A s \in Services : s \in At(t)' <=> s \in At(t) \/ s = d
    BY <1>2, <1>3 DEF At
<1>6. \A s \in Services : s \in At(t) => InHand(s)
    BY DEF At, InHand
<1>7. /\ Placed'
      /\ \A s \in Services : InHand(s)' <=> s \in At(t)' \/ (InHand(s) /\ s \notin At(t))
    BY <1>3, <1>4, <1>5, HandsStep
<1> QED
    BY <1>5, <1>6, <1>7

\* A mailbox nobody has comes into the hand of its creator.
LEMMA NewHands ==
    ASSUME TypeOK, Placed, NEW t \in Threads, \A u \in Threads : u # t => Same(u),
           UNCHANGED <<cur, nxt, runq>>, NEW d \in Services, ~InHand(d), new[t] = NoService, new'[t] = d
    PROVE  Placed' /\ \A s \in Services : InHand(s)' <=> InHand(s) \/ s = d
<1>1. /\ runq \in Seq(Services) /\ NoRepeat(runq) /\ Queued' = Queued
      /\ cur[t] \notin Queued /\ nxt[t] \notin Queued
      /\ cur[t] # NoService => cur[t] # nxt[t]
    BY DEF Placed, TypeOK, Queued
<1>2. NoService \notin Services /\ d \notin Queued /\ d \notin {cur[t], nxt[t], new[t]}
    BY DispatchAssumption DEF InHand
<1>3. Distinct(t)'
    BY <1>1, <1>2 DEF Distinct
<1>4. \A s \in Services : s \in At(t)' <=> s \in At(t) \/ s = d
    BY <1>1, <1>2 DEF At
<1>5. \A s \in Services : s \in At(t) => InHand(s)
    BY DEF At, InHand
<1>6. /\ Placed'
      /\ \A s \in Services : InHand(s)' <=> s \in At(t)' \/ (InHand(s) /\ s \notin At(t))
    BY <1>1, <1>3, <1>4, HandsStep
<1> QED
    BY <1>4, <1>5, <1>6

-----------------------------------------------------------------------------
(* Mailboxes *)

\* A step that changes no flag and no memory, and takes no mailbox out of
\* sight.
LEMMA KeptMailboxes ==
    ASSUME Mailboxes, HandsKept, UNCHANGED <<ctxMem, mqMem, marked, inGlobal, mailbox>>
    PROVE  Placed' /\ Mailboxes'
BY DEF Mailboxes, HandsKept

\* Draining a marked mailbox, and freeing it when it is empty.
LEMMA DropMailboxes ==
    ASSUME TypeOK, Control, Placed, Mailboxes, NEW t \in Threads, Drop(t) \/ DropNew(t)
    PROVE  Placed' /\ Mailboxes'
<1>1. \A u \in Threads : u # t => Same(u)
    BY Frame DEF Run
<1>2. PICK d \in Services, done \in {"fetch", "cb"} :
        /\ DropRound(t, d, done) /\ marked[d]
        /\ done = "fetch" => d = cur[t]
        /\ done = "cb" => d = new[t]
    BY ThreadFacts DEF Drop, DropNew, ControlOf, Base, OpPCs, LaunchPCs, AfterPCs, Maybe
<1>3. UNCHANGED <<ctxMem, marked, runq, nxt>>
    BY DEF Drop, DropNew
<1>4. CASE mailbox[d] # <<>>
    <2>1. mailbox' = Set(mailbox, d, Tail(mailbox[d])) /\ UNCHANGED <<inGlobal, mqMem, cur, new>>
        BY <1>2, <1>4 DEF DropRound
    <2>2. HandsKept
        BY <1>3, <2>1, UnmovedHands
    <2>3. \A s \in Services : mailbox'[s] # <<>> => mailbox[s] # <<>>
        BY <1>4, <2>1 DEF TypeOK, Set
    <2> QED BY <1>3, <2>1, <2>2, <2>3 DEF Mailboxes, HandsKept
<1>5. CASE mailbox[d] = <<>>
    <2>1. /\ inGlobal' = Set(inGlobal, d, FALSE) /\ mqMem' = Set(mqMem, d, "freed") /\ mailbox' = mailbox
          /\ \/ d = cur[t] /\ cur'[t] = NoService /\ new' = new
             \/ d = new[t] /\ new'[t] = NoService /\ cur' = cur
        BY <1>2, <1>5 DEF DropRound, Set, TypeOK
    <2>2. Placed' /\ \A s \in Services : InHand(s)' <=> InHand(s) /\ s # d
        BY <1>1, <1>3, <2>1, LostHands
    <2>3. ASSUME NEW s \in Services, s # d
          PROVE  UNCHANGED <<ctxMem[s], mqMem[s], marked[s], inGlobal[s], mailbox[s]>>
        BY <1>3, <2>1, <2>3 DEF Set, TypeOK
    <2>4. ctxMem'[d] = "freed" /\ mqMem'[d] = "freed" /\ marked'[d] /\ ~InHand(d)' /\ mailbox'[d] = <<>>
        BY <1>2, <1>3, <1>5, <2>1, <2>2 DEF Set, TypeOK, Mailboxes
    <2> QED BY <2>2, <2>3, <2>4 DEF Mailboxes
<1> QED BY <1>4, <1>5

\* A message is taken, or the empty mailbox leaves the run queue.
LEMMA PopMailboxes ==
    ASSUME TypeOK, Control, Placed, Mailboxes, References, NEW t \in Threads, Pop(t)
    PROVE  Placed' /\ Mailboxes'
<1>1. \A u \in Threads : u # t => Same(u)
    BY Frame DEF Run
<1>2. PICK d \in Services : d = cur[t] /\ LoopRef(t, d)
    BY ThreadFacts DEF Pop, ControlOf, Base, OpPCs, Maybe, LoopRef
<1>3. ctxMem[d] = "live" /\ ~marked[d]
    BY <1>2, HasToken DEF References, Mailboxes
<1>4. UNCHANGED <<ctxMem, mqMem, marked, runq, nxt, new>>
    BY DEF Pop
<1>5. CASE mailbox[d] # <<>>
    <2>1. mailbox' = Set(mailbox, d, Tail(mailbox[d])) /\ UNCHANGED <<inGlobal, cur>>
        BY <1>2, <1>5 DEF Pop
    <2>2. HandsKept
        BY <1>4, <2>1, UnmovedHands
    <2>3. \A s \in Services : mailbox'[s] # <<>> => mailbox[s] # <<>>
        BY <1>5, <2>1 DEF TypeOK, Set
    <2> QED BY <1>4, <2>1, <2>2, <2>3 DEF Mailboxes, HandsKept
<1>6. CASE mailbox[d] = <<>>
    <2>1. /\ inGlobal' = Set(inGlobal, d, FALSE) /\ mailbox' = mailbox
          /\ d = cur[t] /\ cur'[t] = NoService
        BY <1>2, <1>6 DEF Pop, Set, TypeOK
    <2>2. Placed' /\ \A s \in Services : InHand(s)' <=> InHand(s) /\ s # d
        BY <1>1, <1>4, <2>1, LostHands
    <2>3. ASSUME NEW s \in Services, s # d
          PROVE  UNCHANGED <<ctxMem[s], mqMem[s], marked[s], inGlobal[s], mailbox[s]>>
        BY <1>4, <2>1, <2>3 DEF Set, TypeOK
    <2>4. UNCHANGED <<ctxMem[d], mqMem[d], marked[d], mailbox[d]>> /\ ~inGlobal'[d] /\ ~InHand(d)'
        BY <1>4, <2>1, <2>2 DEF Set, TypeOK
    <2> QED BY <1>3, <1>6, <2>2, <2>3, <2>4 DEF Mailboxes
<1> QED BY <1>5, <1>6

\* A message is appended, and the mailbox enters the run queue once.
LEMMA PushMailboxes ==
    ASSUME TypeOK, Control, Placed, Mailboxes, References, NEW t \in Threads, Push(t)
    PROVE  Placed' /\ Mailboxes'
<1>1. \A u \in Threads : u # t => Same(u)
    BY Frame DEF Run
<1>2. PICK d \in Services : d = tgt[t] /\ OpRef(t, d)
    BY ThreadFacts DEF Push, ControlOf, OpPCs, Maybe, OpRef
<1>3. ctxMem[d] = "live" /\ ~marked[d] /\ mqMem[d] = "live"
    <2>1. ctxMem[d] = "live"
        BY <1>2, HasToken DEF References
    <2> QED BY <2>1 DEF Mailboxes, TypeOK
<1>4. /\ UNCHANGED <<ctxMem, mqMem, marked, cur, nxt, new>>
      /\ mailbox' = Set(mailbox, d, Append(mailbox[d], out[t]))
      /\ inGlobal' = Set(inGlobal, d, TRUE)
      /\ runq' = IF inGlobal[d] THEN runq ELSE Append(runq, d)
    BY <1>2 DEF Push
<1>5. Placed' /\ \A s \in Services : InHand(s)' <=> InHand(s) \/ s = d
    <2>1. CASE inGlobal[d]
        <3>1. HandsKept
            BY <1>4, <2>1, UnmovedHands
        <3>2. InHand(d)
            BY <1>3, <2>1 DEF Mailboxes
        <3> QED BY <3>1, <3>2 DEF HandsKept
    <2>2. CASE ~inGlobal[d]
        <3>1. ~InHand(d)
            BY <1>3, <2>2 DEF Mailboxes
        <3> QED BY <1>1, <1>4, <2>2, <3>1, PushedHands
    <2> QED BY <2>1, <2>2
<1>6. ASSUME NEW s \in Services, s # d
      PROVE  UNCHANGED <<ctxMem[s], mqMem[s], marked[s], inGlobal[s], mailbox[s]>>
    BY <1>4, <1>6 DEF Set, TypeOK
<1>7. UNCHANGED <<ctxMem[d], mqMem[d], marked[d]>> /\ inGlobal'[d] /\ InHand(d)'
    BY <1>4, <1>5 DEF Set, TypeOK
<1> QED BY <1>3, <1>5, <1>6, <1>7 DEF Mailboxes

\* The marked mailbox enters the run queue if it is not there.
LEMMA DeleteMailboxes ==
    ASSUME TypeOK, Control, Placed, Mailboxes, References, NEW t \in Threads, Delete(t)
    PROVE  Placed' /\ Mailboxes'
<1>1. \A u \in Threads : u # t => Same(u)
    BY Frame DEF Run
<1>2. PICK d \in Services : d = tgt[t] /\ Deleting(t, d)
    BY ThreadFacts DEF Delete, ControlOf, OpPCs, Maybe, Deleting
<1>3. ctxMem[d] = "live" /\ ~marked[d] /\ mqMem[d] = "live"
    BY <1>2 DEF References, Mailboxes, TypeOK
<1>4. /\ UNCHANGED <<mqMem, inGlobal, mailbox, cur, nxt, new>>
      /\ marked' = Set(marked, d, TRUE)
      /\ ctxMem' = Set(ctxMem, d, "freed")
      /\ runq' = IF inGlobal[d] THEN runq ELSE Append(runq, d)
    BY <1>2 DEF Delete
<1>5. Placed' /\ \A s \in Services : InHand(s)' <=> InHand(s) \/ s = d
    <2>1. CASE inGlobal[d]
        <3>1. HandsKept
            BY <1>4, <2>1, UnmovedHands
        <3>2. InHand(d)
            BY <1>3, <2>1 DEF Mailboxes
        <3> QED BY <3>1, <3>2 DEF HandsKept
    <2>2. CASE ~inGlobal[d]
        <3>1. ~InHand(d)
            BY <1>3, <2>2 DEF Mailboxes
        <3> QED BY <1>1, <1>4, <2>2, <3>1, PushedHands
    <2> QED BY <2>1, <2>2
<1>6. ASSUME NEW s \in Services, s # d
      PROVE  UNCHANGED <<ctxMem[s], mqMem[s], marked[s], inGlobal[s], mailbox[s]>>
    BY <1>4, <1>6 DEF Set, TypeOK
<1>7. UNCHANGED <<mqMem[d], inGlobal[d], mailbox[d]>> /\ marked'[d] /\ ctxMem'[d] = "freed" /\ InHand(d)'
    BY <1>4, <1>5 DEF Set, TypeOK
<1> QED BY <1>3, <1>5, <1>6, <1>7 DEF Mailboxes

\* A mailbox begins in the hand of its creator, with in_global set.
LEMMA LaunchMailboxes ==
    ASSUME TypeOK, Control, Placed, Mailboxes, NEW t \in Threads, NEW d \in Services, Launch(t, d)
    PROVE  Placed' /\ Mailboxes'
<1>1. \A u \in Threads : u # t => Same(u)
    BY Frame DEF Choose
<1>2. /\ ctxMem[d] = "none" /\ new[t] = NoService /\ new'[t] = d
      /\ UNCHANGED <<marked, mailbox, cur, nxt, runq>>
      /\ ctxMem' = Set(ctxMem, d, "live") /\ mqMem' = Set(mqMem, d, "live")
      /\ inGlobal' = Set(inGlobal, d, TRUE)
    BY ThreadFacts DEF Launch, ControlOf, Base, OpPCs, LaunchPCs, AfterPCs, Set
<1>3. mqMem[d] = "none" /\ ~marked[d] /\ ~InHand(d)
    BY <1>2 DEF Mailboxes
<1>4. Placed' /\ \A s \in Services : InHand(s)' <=> InHand(s) \/ s = d
    BY <1>1, <1>2, <1>3, NewHands
<1>5. ASSUME NEW s \in Services, s # d
      PROVE  UNCHANGED <<ctxMem[s], mqMem[s], marked[s], inGlobal[s], mailbox[s]>>
    BY <1>2, <1>5 DEF Set, TypeOK
<1>6. /\ ctxMem'[d] = "live" /\ mqMem'[d] = "live" /\ ~marked'[d] /\ inGlobal'[d] /\ InHand(d)'
    BY <1>2, <1>3, <1>4 DEF Set, TypeOK
<1> QED BY <1>4, <1>5, <1>6 DEF Mailboxes

\* Every step keeps each mailbox in at most one place, in one exactly when
\* its flags say so.
LEMMA MailboxesNext ==
    ASSUME TypeOK, Control, Placed, Mailboxes, References, NEW t \in Threads, Run(t) \/ Choose(t)
    PROVE  Placed' /\ Mailboxes'
<1>1. CASE Drop(t) \/ DropNew(t)
    BY <1>1, DropMailboxes
<1>2. CASE Pop(t)
    BY <1>2, PopMailboxes
<1>3. CASE Push(t)
    BY <1>3, PushMailboxes
<1>4. CASE Delete(t)
    BY <1>4, DeleteMailboxes
<1>5. ASSUME NEW d \in Services, Launch(t, d) PROVE Placed' /\ Mailboxes'
    BY <1>5, LaunchMailboxes
<1>6. CASE Fetch(t) \/ PutBack(t) \/ Publish(t)
    <2>1. HandsKept
        BY <1>6, TakeHands, PutHands
    <2> QED BY <1>6, <2>1, KeptMailboxes DEF Fetch, PutBack, Publish
<1>7. CASE NextQueue(t)
    <2>1. CASE runq # <<>>
        <3>1. HandsKept
            BY <1>7, <2>1, TakeHands
        <3> QED BY <1>7, <3>1, KeptMailboxes DEF NextQueue
    <2>2. CASE runq = <<>>
        <3>1. UNCHANGED <<runq, cur, nxt, new>>
            BY <1>7, <2>2 DEF NextQueue
        <3> QED BY <1>7, <3>1, UnmovedHands, KeptMailboxes DEF NextQueue
    <2> QED BY <2>1, <2>2
<1>8. CASE Orphan(t)
    <2>1. CASE ~marked[cur[t]]
        <3>1. HandsKept
            BY <1>8, <2>1, PutHands
        <3> QED BY <1>8, <3>1, KeptMailboxes DEF Orphan
    <2>2. CASE marked[cur[t]]
        <3>1. UNCHANGED <<runq, cur, nxt, new>>
            BY <1>8, <2>2 DEF Orphan
        <3> QED BY <1>8, <3>1, UnmovedHands, KeptMailboxes DEF Orphan
    <2> QED BY <2>1, <2>2
<1>9. CASE OrphanNew(t)
    <2>1. CASE ~marked[new[t]]
        <3>1. HandsKept
            BY <1>9, <2>1, PutHands
        <3> QED BY <1>9, <3>1, KeptMailboxes DEF OrphanNew
    <2>2. CASE marked[new[t]]
        <3>1. UNCHANGED <<runq, cur, nxt, new>>
            BY <1>9, <2>2 DEF OrphanNew
        <3> QED BY <1>9, <3>1, UnmovedHands, KeptMailboxes DEF OrphanNew
    <2> QED BY <2>1, <2>2
<1>10. CASE \/ Grab(t) \/ Length(t) \/ CbReturn(t) \/ Bounce(t) \/ Release(t) \/ InitReturn(t)
            \/ SetInit(t) \/ LogLaunch(t) \/ AnswerLaunch(t) \/ RetireNew(t)
    <2>1. UNCHANGED <<runq, cur, nxt, new, ctxMem, mqMem, marked, inGlobal, mailbox>>
        BY <1>10 DEF Grab, Length, CbReturn, Bounce, Release, InitReturn, SetInit, LogLaunch, AnswerLaunch, RetireNew, kernel
    <2> QED BY <2>1, UnmovedHands, KeptMailboxes
<1>11. ASSUME NEW d \in Services, Send(t, d) \/ Kill(t, d) PROVE Placed' /\ Mailboxes'
    <2>1. UNCHANGED <<runq, cur, nxt, new, ctxMem, mqMem, marked, inGlobal, mailbox>>
        BY <1>11 DEF Send, Kill
    <2> QED BY <2>1, UnmovedHands, KeptMailboxes
<1> QED
    BY <1>1, <1>2, <1>3, <1>4, <1>5, <1>6, <1>7, <1>8, <1>9, <1>10, <1>11 DEF Run, Choose

-----------------------------------------------------------------------------
(* The count of services *)

\* G_NODE.total follows the contexts.
LEMMA CountedNext ==
    ASSUME TypeOK, Control, References, Counted, NEW t \in Threads, Run(t) \/ Choose(t)
    PROVE  Counted'
<1>1. CASE Delete(t)
    <2>1. PICK d \in Services : d = tgt[t] /\ Deleting(t, d)
        BY <1>1, ThreadFacts DEF Delete, ControlOf, OpPCs, Maybe, Deleting
    <2>2. ctxMem[d] = "live" /\ ctxMem' = Set(ctxMem, d, "freed") /\ total' = total - 1
        BY <1>1, <2>1 DEF References, Delete
    <2>3. d \in Live /\ Live' = Live \ {d}
        BY <2>2 DEF Live, Set, TypeOK
    <2>4. IsFiniteSet(Live \ {d}) /\ Cardinality(Live \ {d}) = Cardinality(Live) - 1
        BY <2>3, FS_RemoveElement DEF Counted
    <2> QED BY <2>2, <2>3, <2>4 DEF Counted
<1>2. ASSUME NEW d \in Services, Launch(t, d) PROVE Counted'
    <2>1. ctxMem[d] = "none" /\ ctxMem' = Set(ctxMem, d, "live") /\ total' = total + 1
        BY <1>2 DEF Launch
    <2>2. d \notin Live /\ Live' = Live \cup {d}
        BY <2>1 DEF Live, Set, TypeOK
    <2>3. IsFiniteSet(Live \cup {d}) /\ Cardinality(Live \cup {d}) = Cardinality(Live) + 1
        BY <2>2, FS_AddElement DEF Counted
    <2> QED BY <2>1, <2>2, <2>3 DEF Counted
<1>3. CASE UNCHANGED <<ctxMem, total>>
    <2>1. Live' = Live
        BY <1>3 DEF Live
    <2> QED BY <1>3, <2>1 DEF Counted
<1>4. \/ Delete(t) \/ UNCHANGED <<ctxMem, total>>
      \/ \E d \in Services : Launch(t, d)
    BY DEF Run, Choose, Fetch, Grab, Orphan, Drop, Pop, Length, CbReturn, NextQueue, PutBack,
        Bounce, Push, Release, InitReturn, SetInit, Publish, LogLaunch, AnswerLaunch, RetireNew, OrphanNew, DropNew,
        Send, Kill, kernel
<1> QED
    BY <1>1, <1>2, <1>3, <1>4

-----------------------------------------------------------------------------
(* Theorems *)

\* The boot services are in the table and in the run queue, each with the
\* reference of the table.
LEMMA InitDispatchInv == Init => DispatchInv
<1> SUFFICES ASSUME Init PROVE DispatchInv
    OBVIOUS
<1>1. \A t \in Threads : Base(t) = IF t \in Workers THEN "fetch" ELSE "idle"
    BY DEF Init, Base, OpPCs
<1>2. Boot \in Seq(Services) /\ NoRepeat(Boot) /\ BootSet = Elems(Boot) /\ BootSet \subseteq Services
    BY DispatchAssumption DEF NoRepeat, BootSet, Elems
<1>3. TypeOK
    <2>1. pc \in [Threads -> PCs] /\ ret \in [Threads -> PCs \ OpPCs]
        BY DEF Init, PCs, LoopPCs, LaunchPCs, AfterPCs, OpPCs
    <2>2. NoMessage \in Message
        BY DEF NoMessage, Message, Maybe
    <2>3. sent \in 0..MaxSend /\ total \in Int
        BY <1>2, DispatchAssumption DEF Init
    <2> QED BY <1>2, <2>1, <2>2, <2>3, DispatchAssumption DEF Init, TypeOK, Maybe
<1>4. Control
    <2>1. ASSUME NEW t \in Threads PROVE ControlOf(t)
        BY <1>1, DispatchAssumption DEF Init, ControlOf, LaunchPCs, AfterPCs, OpPCs, Threads
    <2> QED BY <2>1 DEF Control
<1>5. \A s \in Services : Tokens(s) = IF s \in BootSet THEN {<<"slot">>} ELSE {}
    BY <1>1 DEF Tokens, Init, InCallback, LaunchPCs, AfterPCs, Threads
<1>6. References
    <2>1. ASSUME NEW s \in Services PROVE ref[s] = Cardinality(Tokens(s)) /\ (Tokens(s) # {} => ctxMem[s] = "live")
        BY <1>5, FS_EmptySet, FS_Singleton DEF Init
    <2>2. \A t \in Threads, s \in Services : ~Deleting(t, s)
        BY DEF Init, Deleting
    <2> QED BY <2>1, <2>2 DEF References
<1>7. Queued = BootSet /\ NoService \notin Services
    BY <1>2, DispatchAssumption DEF Queued, Init
<1>8. Placed
    BY <1>2, <1>7 DEF Init, Placed
<1>9. Mailboxes
    <2>1. \A s \in Services : InHand(s) <=> s \in BootSet
        BY <1>7 DEF InHand, Init
    <2> QED BY <2>1, DispatchAssumption DEF Mailboxes, Init
<1>10. Counted
    <2>1. Live = BootSet
        BY <1>2 DEF Live, Init
    <2>2. DOMAIN Boot = 1..Len(Boot) /\ Len(Boot) \in Nat
        BY <1>2
    <2>3. Boot \in Bijection(1..Len(Boot), BootSet)
        <3>1. Boot \in [1..Len(Boot) -> BootSet]
            BY <1>2 DEF BootSet
        <3>2. Boot \in Injection(1..Len(Boot), BootSet)
            BY <1>2, <3>1 DEF Injection, IsInjective, NoRepeat
        <3>3. Boot \in Surjection(1..Len(Boot), BootSet)
            BY <3>1 DEF Surjection, BootSet
        <3> QED BY <3>2, <3>3 DEF Bijection
    <2>4. IsFiniteSet(1..Len(Boot)) /\ Cardinality(1..Len(Boot)) = Len(Boot)
        <3>1. /\ IsFiniteSet(1..Len(Boot))
              /\ Cardinality(1..Len(Boot)) = IF 1 > Len(Boot) THEN 0 ELSE Len(Boot) - 1 + 1
            <4>1. 1 \in Int /\ Len(Boot) \in Int
                BY <2>2
            <4> QED BY <4>1, FS_Interval
        <3> QED BY <2>2, <3>1
    <2>5. IsFiniteSet(BootSet) /\ Cardinality(BootSet) = Len(Boot)
        BY <2>3, <2>4, FS_Bijection DEF ExistsBijection
    <2> QED BY <2>1, <2>5 DEF Counted, Init
<1> QED
    BY <1>3, <1>4, <1>6, <1>8, <1>9, <1>10 DEF DispatchInv

\* Every step of every thread preserves the invariant.
LEMMA NextDispatchInv == DispatchInv /\ [Next]_vars => DispatchInv'
<1> SUFFICES ASSUME DispatchInv, [Next]_vars PROVE DispatchInv'
    OBVIOUS
<1>1. ASSUME NEW t \in Threads, Run(t) \/ Choose(t) PROVE DispatchInv'
    BY <1>1, TypeNext, ControlNext, MailboxesNext, ReferencesNext, CountedNext DEF DispatchInv
<1>2. CASE UNCHANGED vars
    <2>1. UNCHANGED <<slot, ref, ctxMem, mqMem, mailbox, inGlobal, marked, runq, total, sent,
                      pc, cur, nxt, left, tgt, out, ret, new>>
        BY <1>2 DEF vars, kernel, thread
    <2>2. TypeOK' /\ Control'
        BY <2>1 DEF DispatchInv, TypeOK, Control, ControlOf, Base
    <2>3. Placed' /\ Mailboxes'
        BY <2>1, UnmovedHands, KeptMailboxes DEF DispatchInv
    <2>4. \A s : Tokens(s)' = Tokens(s)
        BY <2>1 DEF Tokens, Base
    <2>5. References'
        BY <2>1, <2>4 DEF DispatchInv, References, Deleting
    <2>6. Live' = Live
        BY <2>1 DEF Live
    <2> QED BY <2>1, <2>2, <2>3, <2>5, <2>6 DEF DispatchInv, Counted
<1> QED
    BY <1>1, <1>2 DEF Next

\* DispatchInv holds in every reachable state of the dispatcher.
THEOREM DispatchInvariance == Spec => []DispatchInv
BY InitDispatchInv, NextDispatchInv, PTL DEF Spec

\* The places of a mailbox that the property counts are the hands of the
\* invariant: threads other than workers have none.
LEMMA HandsIff ==
    ASSUME DispatchInv, NEW s \in Services
    PROVE  /\ Hands(s) # {} <=> InHand(s)
           /\ \A a, b \in Hands(s) : a = b
<1>1. \A t \in Threads : t \notin Workers => cur[t] = NoService /\ nxt[t] = NoService /\ new[t] = NoService
    BY DEF DispatchInv, Control, ControlOf, Threads, LaunchPCs, AfterPCs
<1>2. NoService # s
    BY DispatchAssumption
<1>3. Hands(s) # {} <=> InHand(s)
    <2>1. Hands(s) # {} => InHand(s)
        BY DEF Hands, InHand, Queued, Elems, Threads
    <2>2. ASSUME InHand(s) PROVE Hands(s) # {}
        <3>1. CASE s \in Queued
            BY <3>1 DEF Hands, Queued, Elems
        <3>2. ASSUME NEW t \in Threads, s \in {cur[t], nxt[t], new[t]} PROVE Hands(s) # {}
            <4>1. t \in Workers
                BY <1>1, <1>2, <3>2
            <4> QED BY <3>2, <4>1 DEF Hands
        <3> QED BY <2>2, <3>1, <3>2 DEF InHand
    <2> QED BY <2>1, <2>2
<1>4. ASSUME NEW a \in Hands(s), NEW b \in Hands(s) PROVE a = b
    BY <1>2 DEF DispatchInv, Placed, NoRepeat, Queued, Elems, Hands, Threads
<1> QED BY <1>3, <1>4

\* A mailbox is never in the run queue twice, never with two workers, never
\* both, and never nowhere while it has messages, whatever the number of
\* services, workers and senders: the assertion queue->next == NULL of
\* skynet_globalmq_push cannot fail.
THEOREM MailboxInOnePlace == Spec => []OnePlace
<1>1. DispatchInv => OnePlace
    <2> SUFFICES ASSUME DispatchInv, NEW s \in Services
                 PROVE  Cardinality(Hands(s)) <= 1 /\ (mailbox[s] # <<>> => Hands(s) # {})
        BY DEF OnePlace
    <2>1. mailbox[s] # <<>> => Hands(s) # {}
        BY HandsIff DEF DispatchInv, Mailboxes
    <2>2. Hands(s) = {} \/ \E a : Hands(s) = {a}
        BY HandsIff
    <2>3. CASE Hands(s) = {}
        BY <2>1, <2>3, FS_EmptySet
    <2>4. ASSUME NEW a, Hands(s) = {a}
          PROVE  Cardinality(Hands(s)) = 1
        BY <2>4, FS_Singleton
    <2> QED BY <2>1, <2>2, <2>3, <2>4
<1> QED BY <1>1, DispatchInvariance, PTL

\* ctx->ref is the number of references the table, the workers, the senders
\* and the creators hold.
THEOREM ReferencesCounted == Spec => []RefCounts
<1>1. DispatchInv => RefCounts
    BY DEF DispatchInv, References, RefCounts
<1> QED BY <1>1, DispatchInvariance, PTL

\* No context is freed while somebody holds a reference to it, none is deleted
\* twice, and no mailbox is freed while a thread or the run queue has it.  The
\* launcher's uses of a context it has released (skynet_server.c:166, 170,
\* 494) hold no reference: they are covered only while the service is in the
\* table.
THEOREM HeldIsAllocated == Spec => []MemorySafe
<1>1. DispatchInv => MemorySafe
    <2> SUFFICES ASSUME DispatchInv PROVE MemorySafe
        OBVIOUS
    <2>1. ASSUME NEW s \in Services
          PROVE  /\ Tokens(s) # {} => ctxMem[s] = "live"
                 /\ Hands(s) # {} \/ ctxMem[s] = "live" => mqMem[s] = "live"
        <3>1. Hands(s) # {} => mqMem[s] = "live"
            BY HandsIff DEF DispatchInv, Mailboxes
        <3>2. ctxMem[s] = "live" => mqMem[s] = "live"
            BY DEF DispatchInv, Mailboxes, TypeOK
        <3> QED BY <3>1, <3>2 DEF DispatchInv, References
    <2>2. ASSUME NEW t \in Threads, pc[t] = "mark"
          PROVE  ~marked[tgt[t]] /\ ctxMem[tgt[t]] = "live"
        <3>1. tgt[t] \in Services
            BY <2>2, ThreadFacts DEF DispatchInv, ControlOf, OpPCs, Maybe
        <3>2. ctxMem[tgt[t]] = "live"
            BY <2>2, <3>1 DEF DispatchInv, References, Deleting
        <3> QED BY <3>1, <3>2 DEF DispatchInv, Mailboxes
    <2>3. ASSUME NEW t \in Threads, tgt[t] \in slot
          PROVE  ctxMem[tgt[t]] = "live"
        <3>1. tgt[t] \in Services /\ <<"slot">> \in Tokens(tgt[t])
            BY <2>3 DEF DispatchInv, TypeOK, Tokens
        <3> QED BY <2>1, <3>1
    <2> QED BY <2>1, <2>2, <2>3 DEF MemorySafe, DispatchInv, Counted, Live
<1> QED BY <1>1, DispatchInvariance, PTL

-----------------------------------------------------------------------------
(* The refinement: the services are the actors of module Actors *)

\* the services whose code thread t runs, one whose message it has taken out
\* and has yet to call included
Mine(t) ==
    (IF Base(t) \in InCallback THEN {cur[t]} ELSE {})
    \cup (IF Base(t) = "init" THEN {new[t]} ELSE {})
    \cup (IF t \in Workers /\ pc[t] = "length" THEN {cur[t]} ELSE {})

\* A service is busy when a thread runs its code.
LEMMA BusyIff ==
    ASSUME NEW s
    PROVE  s \in Busy <=> \E u \in Threads : s \in Mine(u)
<1>1. s \in UNION {Running(t) : t \in Threads} <=> \E u \in Threads : s \in Running(u)
    OBVIOUS
<1>2. s \in {cur[t] : t \in {u \in Workers : pc[u] = "length"}}
          <=> \E u \in Threads : (u \in Workers /\ pc[u] = "length" /\ s = cur[u])
    BY DEF Threads
<1>3. \A u \in Threads : s \in Mine(u)
          <=> s \in Running(u) \/ (u \in Workers /\ pc[u] = "length" /\ s = cur[u])
    BY DEF Mine, Running
<1>4. s \in Busy <=> \/ s \in UNION {Running(t) : t \in Threads}
                    \/ s \in {cur[t] : t \in {u \in Workers : pc[u] = "length"}}
    BY DEF Busy
<1> HIDE DEF Mine, Running
<1>5. s \in Busy <=> \E u \in Threads :
          s \in Running(u) \/ (u \in Workers /\ pc[u] = "length" /\ s = cur[u])
    BY <1>1, <1>2, <1>4
<1> QED BY <1>3, <1>5

\* The same of the next state.
LEMMA BusyIffNext ==
    ASSUME NEW s
    PROVE  s \in Busy' <=> \E u \in Threads : s \in Mine(u)'
<1>1. s \in UNION {Running(t) : t \in Threads}' <=> \E u \in Threads : s \in Running(u)'
    OBVIOUS
<1>2. s \in {cur[t] : t \in {u \in Workers : pc[u] = "length"}}'
          <=> \E u \in Threads : (u \in Workers /\ pc[u] = "length" /\ s = cur[u])'
    BY DEF Threads
<1>3. \A u \in Threads : s \in Mine(u)'
          <=> s \in Running(u)' \/ (u \in Workers /\ pc[u] = "length" /\ s = cur[u])'
    BY DEF Mine, Running
<1>4. s \in Busy' <=> \/ s \in UNION {Running(t) : t \in Threads}'
                    \/ s \in {cur[t] : t \in {u \in Workers : pc[u] = "length"}}'
    BY DEF Busy
<1> HIDE DEF Mine, Running
<1>5. s \in Busy' <=> \E u \in Threads :
          s \in Running(u)' \/ (u \in Workers /\ pc[u] = "length" /\ s = cur[u])'
    BY <1>1, <1>2, <1>4
<1> QED BY <1>3, <1>5

\* The code of a service runs on one thread, which holds a reference to it.
LEMMA MineAlone ==
    ASSUME DispatchInv, NEW t \in Threads, NEW s \in Mine(t)
    PROVE  /\ s \in Services /\ Tokens(s) # {}
           /\ \A u \in Threads : s \in Mine(u) => u = t
<1>1. ASSUME NEW u \in Threads, NEW x \in Mine(u)
      PROVE  /\ x \in Services /\ x \in {cur[u], new[u]}
             /\ LoopRef(u, x) \/ NewRef(u, x)
    BY <1>1, ThreadFacts
       DEF DispatchInv, ControlOf, Mine, LoopRef, NewRef, InCallback, LaunchPCs, AfterPCs, Base, OpPCs, Maybe, Threads
<1>2. s \in Services /\ Tokens(s) # {}
    BY <1>1, HasToken
<1>3. ASSUME NEW u \in Threads, s \in Mine(u) PROVE u = t
    <2>1. s \in {cur[u], new[u]} /\ s \in {cur[t], new[t]} /\ s # NoService
        BY <1>1, <1>3, DispatchAssumption
    <2> QED BY <2>1 DEF DispatchInv, Placed
<1> QED BY <1>2, <1>3

\* What a step of t does to the set of busy services it does to its own.
LEMMA BusyStep ==
    ASSUME DispatchInv, NEW t \in Threads, Run(t) \/ Choose(t)
    PROVE  /\ Mine(t)' = Mine(t) => Busy' = Busy
           /\ \A s : Mine(t)' = Mine(t) \cup {s} => Busy' = Busy \cup {s}
           /\ \A s \in Mine(t) : Mine(t)' = Mine(t) \ {s} => Busy' = Busy \ {s}
<1>1. \A u \in Threads : u # t => Same(u)
    BY Frame DEF DispatchInv
<1>2. \A u \in Threads : u # t => Mine(u)' = Mine(u)
    BY <1>1 DEF Same, Mine, Base
<1>3. Mine(t)' = Mine(t) => Busy' = Busy
    BY <1>2, BusyIff, BusyIffNext
<1>4. ASSUME NEW s, Mine(t)' = Mine(t) \cup {s} PROVE Busy' = Busy \cup {s}
    BY <1>2, <1>4, BusyIff, BusyIffNext
<1>5. ASSUME NEW s \in Mine(t), Mine(t)' = Mine(t) \ {s} PROVE Busy' = Busy \ {s}
    BY <1>2, <1>5, BusyIff, BusyIffNext, MineAlone
<1> QED BY <1>3, <1>4, <1>5

\* The steps that leave the code a thread runs as it is: those of the loop
\* outside a callback, and the operations a callback or an init function
\* starts, which return to it.
LEMMA MineKept ==
    ASSUME DispatchInv, NEW t \in Threads,
           \/ Fetch(t) \/ Grab(t) \/ Orphan(t) \/ Drop(t) \/ (Pop(t) /\ mailbox[cur[t]] = <<>>)
           \/ Length(t) \/ NextQueue(t) \/ PutBack(t) \/ Bounce(t) \/ Push(t) \/ Release(t) \/ Delete(t)
           \/ SetInit(t) \/ Publish(t) \/ LogLaunch(t) \/ AnswerLaunch(t) \/ RetireNew(t) \/ OrphanNew(t) \/ DropNew(t)
           \/ \E s \in Services : Send(t, s) \/ Kill(t, s)
    PROVE  Mine(t)' = Mine(t)
<1> USE ThreadFacts DEF DispatchInv, Mine, Base, Set, Unref, ControlOf, PCs, LoopPCs, LaunchPCs, AfterPCs, OpPCs,
           InCallback
<1>1. CASE Fetch(t)
    BY <1>1 DEF Fetch
<1>2. CASE Grab(t)
    BY <1>2 DEF Grab
<1>3. CASE Orphan(t)
    BY <1>3 DEF Orphan
<1>4. CASE Drop(t)
    BY <1>4 DEF Drop, DropRound
<1>5. CASE Pop(t) /\ mailbox[cur[t]] = <<>>
    BY <1>5 DEF Pop
<1>6. CASE Length(t)
    BY <1>6 DEF Length
<1>7. CASE NextQueue(t)
    BY <1>7 DEF NextQueue
<1>8. CASE PutBack(t)
    BY <1>8 DEF PutBack
<1>9. CASE Bounce(t)
    BY <1>9 DEF Bounce
<1>10. CASE Push(t)
    BY <1>10 DEF Push
<1>11. CASE Release(t)
    BY <1>11 DEF Release
<1>12. CASE Delete(t)
    BY <1>12 DEF Delete
<1>13. CASE Publish(t)
    BY <1>13 DEF Publish
<1>19. CASE SetInit(t) \/ LogLaunch(t) \/ AnswerLaunch(t)
    BY <1>19 DEF SetInit, LogLaunch, AnswerLaunch
<1>14. CASE RetireNew(t)
    BY <1>14 DEF RetireNew
<1>15. CASE OrphanNew(t)
    BY <1>15 DEF OrphanNew
<1>16. CASE DropNew(t)
    BY <1>16 DEF DropNew, DropRound
<1>17. ASSUME NEW s \in Services, Send(t, s) PROVE Mine(t)' = Mine(t)
    BY <1>17 DEF Send, CodePCs
<1>18. ASSUME NEW s \in Services, Kill(t, s) PROVE Mine(t)' = Mine(t)
    BY <1>18 DEF Kill
<1> QED BY <1>1, <1>2, <1>3, <1>4, <1>5, <1>6, <1>7, <1>8, <1>9, <1>10, <1>11, <1>12, <1>13, <1>14, <1>15,
           <1>16, <1>17, <1>18, <1>19

\* A callback begins with skynet_mq_pop and ends with its return; an init
\* function begins with the launch and ends with its return.
LEMMA MineChanged ==
    ASSUME DispatchInv, NEW t \in Threads
    PROVE  /\ Pop(t) /\ mailbox[cur[t]] # <<>> => Mine(t) = {} /\ Mine(t)' = Mine(t) \cup {cur[t]}
           /\ CbReturn(t) => cur[t] \in Mine(t) /\ Mine(t)' = Mine(t) \ {cur[t]}
           /\ InitReturn(t) => new[t] \in Mine(t) /\ Mine(t)' = Mine(t) \ {new[t]}
           /\ \A s \in Services : Launch(t, s) => Mine(t)' = Mine(t) \cup {s}
<1> USE ThreadFacts DEF DispatchInv, Mine, Base, Set, Unref, ControlOf, PCs, LoopPCs, LaunchPCs, AfterPCs, OpPCs,
           InCallback
<1>1. ASSUME Pop(t), mailbox[cur[t]] # <<>>
      PROVE  Mine(t) = {} /\ Mine(t)' = Mine(t) \cup {cur[t]}
    BY <1>1 DEF Pop, Threads
<1>2. ASSUME CbReturn(t) PROVE cur[t] \in Mine(t) /\ Mine(t)' = Mine(t) \ {cur[t]}
    BY <1>2 DEF CbReturn
<1>3. ASSUME InitReturn(t) PROVE new[t] \in Mine(t) /\ Mine(t)' = Mine(t) \ {new[t]}
    <2>1. cur[t] # new[t]
        BY <1>3 DEF InitReturn, Placed
    <2> QED BY <1>3, <2>1 DEF InitReturn
<1>4. ASSUME NEW s \in Services, Launch(t, s) PROVE Mine(t)' = Mine(t) \cup {s}
    BY <1>4 DEF Launch
<1> QED BY <1>1, <1>2, <1>3, <1>4

\* the services born and the services closed, as the mapping gives them
Born == {s \in Services : ctxMem[s] # "none"}
Closed == {s \in Services : marked[s]}

\* A service that has a reference, or whose last one has just gone, is born
\* and not closed.
LEMMA HeldOpen ==
    ASSUME DispatchInv, NEW s \in Services, Tokens(s) # {} \/ \E t \in Threads : Deleting(t, s)
    PROVE  s \in Born \ Closed
BY DEF DispatchInv, References, Mailboxes, Born, Closed

\* A step after which the abstract state is as it was.
LEMMA ActorStutter ==
    ASSUME UNCHANGED <<slot, ctxMem, mailbox, marked>>, Busy' = Busy
    PROVE  UNCHANGED Actor!vars
BY DEF Actor!vars

\* The steps between the messages of a service.
LEMMA LoopActor ==
    ASSUME DispatchInv, NEW t \in Threads,
           \/ Fetch(t) \/ Grab(t) \/ Orphan(t) \/ (Pop(t) /\ mailbox[cur[t]] = <<>>)
           \/ Length(t) \/ NextQueue(t) \/ PutBack(t) \/ Bounce(t) \/ Release(t)
           \/ SetInit(t) \/ Publish(t) \/ LogLaunch(t) \/ AnswerLaunch(t) \/ OrphanNew(t)
           \/ (Drop(t) /\ mailbox[cur[t]] = <<>>) \/ (DropNew(t) /\ mailbox[new[t]] = <<>>)
           \/ \E s \in Services : Send(t, s)
    PROVE  UNCHANGED Actor!vars
<1>1. Mine(t)' = Mine(t)
    BY MineKept
<1>2. Busy' = Busy
    BY <1>1, BusyStep DEF Run, Choose
<1>3. UNCHANGED <<slot, ctxMem, mailbox, marked>>
    BY DEF Fetch, Grab, Orphan, Pop, Length, NextQueue, PutBack, Bounce, Release, SetInit, Publish, LogLaunch, AnswerLaunch,
       OrphanNew, Drop, DropNew, DropRound, Send, kernel
<1> QED BY <1>2, <1>3, ActorStutter

\* skynet_mq_pop takes the oldest message of a service that is at rest.
LEMMA PopActor ==
    ASSUME DispatchInv, NEW t \in Threads, Pop(t), mailbox[cur[t]] # <<>>
    PROVE  \E s \in Services : Actor!Accept(s)
<1>1. PICK d \in Services : d = cur[t] /\ LoopRef(t, d)
    BY ThreadFacts DEF DispatchInv, Pop, ControlOf, LoopRef, Base, OpPCs, Maybe, Threads
<1>2. d \in Born \ Closed
    BY <1>1, HasToken, HeldOpen
<1>3. Mine(t) = {} /\ Mine(t)' = Mine(t) \cup {d}
    BY <1>1, MineChanged
<1>4. Busy' = Busy \cup {d}
    BY <1>3, BusyStep DEF Run
<1>5. d \notin Busy
    <2>1. ASSUME NEW u \in Threads, d \in Mine(u) PROVE FALSE
        <3>1. d \in {cur[u], new[u]} /\ d # NoService
            BY <2>1, DispatchAssumption DEF Mine
        <3>2. u = t
            BY <1>1, <3>1 DEF DispatchInv, Placed
        <3> QED BY <1>3, <2>1, <3>2
    <2> QED BY <2>1, BusyIff
<1>6. mailbox' = [mailbox EXCEPT ![d] = Tail(@)] /\ mailbox[d] # <<>> /\ UNCHANGED <<slot, ctxMem, marked>>
    BY <1>1 DEF Pop, Set
<1>7. Actor!Accept(d)
    BY <1>2, <1>4, <1>5, <1>6 DEF Actor!Accept, Born, Closed
<1> QED BY <1>7

\* A callback or an init function returns.
LEMMA ReturnActor ==
    ASSUME DispatchInv, NEW t \in Threads, CbReturn(t) \/ InitReturn(t)
    PROVE  \E s \in Services : Actor!Finish(s)
<1>1. PICK d \in Mine(t) : Mine(t)' = Mine(t) \ {d}
    BY MineChanged
<1>2. d \in Services /\ d \in Busy
    BY <1>1, MineAlone, BusyIff
<1>3. Busy' = Busy \ {d}
    BY <1>1, BusyStep DEF Run
<1>4. UNCHANGED <<slot, ctxMem, mailbox, marked>>
    BY DEF CbReturn, InitReturn, kernel
<1>5. Actor!Finish(d)
    BY <1>2, <1>3, <1>4 DEF Actor!Finish
<1> QED BY <1>2, <1>5

\* skynet_mq_push appends to the mailbox of a service that is not closed: the
\* sender has a reference.
LEMMA PushActor ==
    ASSUME DispatchInv, NEW t \in Threads, Push(t)
    PROVE  \E s \in Services, m \in Message : Actor!Deliver(s, m)
<1>1. PICK d \in Services : d = tgt[t] /\ OpRef(t, d)
    BY ThreadFacts DEF DispatchInv, Push, ControlOf, OpRef, OpPCs, Maybe
<1>2. d \in Born \ Closed
    BY <1>1, HasToken, HeldOpen
<1>3. Busy' = Busy
    BY MineKept, BusyStep DEF Run
<1>4. /\ mailbox' = [mailbox EXCEPT ![d] = Append(@, out[t])] /\ out[t] \in Message
      /\ UNCHANGED <<slot, ctxMem, marked>>
    BY <1>1 DEF Push, Set, DispatchInv, TypeOK
<1>5. Actor!Deliver(d, out[t])
    BY <1>2, <1>3, <1>4 DEF Actor!Deliver, Born, Closed
<1> QED BY <1>4, <1>5

\* A handle leaves the table.
LEMMA RetireActor ==
    ASSUME DispatchInv, NEW t \in Threads,
           RetireNew(t) \/ \E s \in Services : Kill(t, s)
    PROVE  (\E s \in Services : Actor!Retire(s)) \/ UNCHANGED Actor!vars
<1>1. Busy' = Busy
    <2>1. Mine(t)' = Mine(t)
        BY MineKept
    <2> QED BY <2>1, BusyStep DEF Run, Choose
<1>2. UNCHANGED <<ctxMem, mailbox, marked>>
    BY DEF RetireNew, Kill
<1>3. UNCHANGED slot \/ \E d \in slot : slot' = slot \ {d}
    BY DEF RetireNew, Kill
<1>4. CASE UNCHANGED slot
    BY <1>1, <1>2, <1>4, ActorStutter
<1>5. ASSUME NEW d \in slot, slot' = slot \ {d} PROVE d \in Services /\ Actor!Retire(d)
    BY <1>1, <1>2, <1>5 DEF Actor!Retire, DispatchInv, TypeOK
<1> QED BY <1>3, <1>4, <1>5

\* delete_context closes a service nobody runs and nobody can look up.
LEMMA DeleteActor ==
    ASSUME DispatchInv, NEW t \in Threads, Delete(t)
    PROVE  \E s \in Services : Actor!Close(s)
<1>1. PICK d \in Services : d = tgt[t] /\ Deleting(t, d)
    BY ThreadFacts DEF DispatchInv, Delete, ControlOf, Deleting, OpPCs, Maybe
<1>2. d \in Born \ Closed
    BY <1>1, HeldOpen
<1>3. Busy' = Busy
    BY MineKept, BusyStep DEF Run
<1>4. Tokens(d) = {}
    BY <1>1 DEF DispatchInv, References
<1>5. d \notin Busy /\ d \notin slot
    BY <1>4, MineAlone, BusyIff, HasToken
<1>6. /\ marked' = [marked EXCEPT ![d] = TRUE] /\ ctxMem' = [ctxMem EXCEPT ![d] = "freed"]
      /\ UNCHANGED <<slot, mailbox>>
    BY <1>1 DEF Delete, Set
<1>7. Born' = Born /\ Closed' = Closed \cup {d}
    BY <1>2, <1>6 DEF Born, Closed, DispatchInv, TypeOK
<1>8. Actor!Close(d)
    BY <1>2, <1>3, <1>5, <1>6, <1>7 DEF Actor!Close, Born, Closed
<1> QED BY <1>8

\* _drop_queue throws away messages of closed services only.
LEMMA DropActor ==
    ASSUME DispatchInv, NEW t \in Threads,
           \/ Drop(t) /\ mailbox[cur[t]] # <<>>
           \/ DropNew(t) /\ mailbox[new[t]] # <<>>
    PROVE  \E s \in Services : Actor!Discard(s)
<1>1. Busy' = Busy
    BY MineKept, BusyStep DEF Run
<1>2. PICK d \in Services : marked[d] /\ mailbox[d] # <<>> /\ mailbox' = Set(mailbox, d, Tail(mailbox[d]))
    BY ThreadFacts DEF DispatchInv, Drop, DropNew, DropRound, ControlOf, Base, OpPCs, LaunchPCs, AfterPCs, Maybe
<1>3. UNCHANGED <<slot, ctxMem, marked>>
    BY DEF Drop, DropNew
<1>4. Actor!Discard(d)
    BY <1>1, <1>2, <1>3 DEF Actor!Discard, Set
<1> QED BY <1>4

\* A launched service is new, and its init function runs.
LEMMA LaunchActor ==
    ASSUME DispatchInv, NEW t \in Threads, NEW s \in Services, Launch(t, s)
    PROVE  Actor!Launch(s)
<1>1. Busy' = Busy \cup {s}
    BY MineChanged, BusyStep DEF Choose
<1>2. /\ ctxMem' = [ctxMem EXCEPT ![s] = "live"] /\ ctxMem[s] = "none"
      /\ slot' = slot \cup {s} /\ UNCHANGED <<mailbox, marked>>
    BY DEF Launch, Set
<1>3. Born' = Born \cup {s}
    BY <1>2 DEF Born, DispatchInv, TypeOK
<1> QED BY <1>1, <1>2, <1>3 DEF Actor!Launch, Born

\* Every step of a thread is a step of the actors, or none.
LEMMA StepActor ==
    ASSUME DispatchInv, [Next]_vars
    PROVE  [Actor!Next]_(Actor!vars)
<1>1. CASE UNCHANGED vars
    BY <1>1 DEF vars, kernel, thread, Actor!vars, Busy, Running, Base
<1>2. ASSUME NEW t \in Threads, Run(t) PROVE [Actor!Next]_(Actor!vars)
    <2>1. CASE CbReturn(t) \/ InitReturn(t)
        BY <2>1, ReturnActor DEF Actor!Next
    <2>2. CASE Pop(t) /\ mailbox[cur[t]] # <<>>
        BY <2>2, PopActor DEF Actor!Next
    <2>3. CASE Push(t)
        BY <2>3, PushActor DEF Actor!Next
    <2>4. CASE Delete(t)
        BY <2>4, DeleteActor DEF Actor!Next
    <2>5. CASE RetireNew(t)
        BY <2>5, RetireActor DEF Actor!Next
    <2>6. CASE (Drop(t) /\ mailbox[cur[t]] # <<>>) \/ (DropNew(t) /\ mailbox[new[t]] # <<>>)
        BY <2>6, DropActor DEF Actor!Next
    <2>7. CASE \/ Fetch(t) \/ Grab(t) \/ Orphan(t) \/ (Pop(t) /\ mailbox[cur[t]] = <<>>)
               \/ Length(t) \/ NextQueue(t) \/ PutBack(t) \/ Bounce(t) \/ Release(t)
               \/ SetInit(t) \/ Publish(t) \/ LogLaunch(t) \/ AnswerLaunch(t) \/ OrphanNew(t)
               \/ (Drop(t) /\ mailbox[cur[t]] = <<>>) \/ (DropNew(t) /\ mailbox[new[t]] = <<>>)
        BY <2>7, LoopActor
    <2> QED BY <1>2, <2>1, <2>2, <2>3, <2>4, <2>5, <2>6, <2>7 DEF Run
<1>3. ASSUME NEW t \in Threads, NEW s \in Services, Send(t, s) \/ Kill(t, s) \/ Launch(t, s)
      PROVE  [Actor!Next]_(Actor!vars)
    <2>1. CASE Send(t, s)
        BY <2>1, LoopActor
    <2>2. CASE Kill(t, s)
        BY <2>2, RetireActor DEF Actor!Next
    <2>3. CASE Launch(t, s)
        BY <2>3, LaunchActor DEF Actor!Next
    <2> QED BY <1>3, <2>1, <2>2, <2>3
<1> QED BY <1>1, <1>2, <1>3 DEF Next, Choose

\* The boot services are the first actors, at rest, with their mail.
LEMMA InitActor == Init => Actor!Init
<1> SUFFICES ASSUME Init PROVE Actor!Init
    OBVIOUS
<1>1. BootSet \subseteq Services
    BY DispatchAssumption DEF BootSet
<1>2. {s \in Services : ctxMem[s] # "none"} = BootSet /\ {s \in Services : marked[s]} = {}
    BY <1>1 DEF Init
<1>3. Busy = {}
    BY DispatchAssumption DEF Init, Busy, Running, Base, OpPCs, InCallback, LaunchPCs, AfterPCs, Threads
<1> QED BY <1>2, <1>3 DEF Init, Actor!Init

\* Services are actors, whatever the number of services, workers and senders:
\* one message at a time and in order, none before the init function has
\* returned, and none thrown away before the service can never run again.
THEOREM DispatchImplementsActors == Spec => ActorSpec
<1>1. DispatchInv /\ [Next]_vars => [Actor!Next]_(Actor!vars)
    BY StepActor
<1> QED BY <1>1, InitActor, DispatchInvariance, PTL DEF Spec, ActorSpec, Actor!Spec

=============================================================================
