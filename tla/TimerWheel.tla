----------------------------- MODULE TimerWheel -----------------------------
(***************************************************************************)
(* The hierarchical timing wheel of a node (skynet_timer.c): a near wheel  *)
(* of TIME_NEAR lists and levels of TIME_LEVEL lists for timers further    *)
(* away, on a clock that wraps at 2^32.  Threads add timers under the      *)
(* lock; the timer thread advances the clock tick by tick under the lock,  *)
(* but sends the messages of a list with the lock released, so timers are  *)
(* added while a list is dispatched.                                       *)
(*                                                                         *)
(* The sizes are constants, so that the clock wraps within the bounds of a *)
(* run.                                                                    *)
(***************************************************************************)
EXTENDS Integers, Sequences, FiniteSets, FiniteSetsExt, SequencesExt

CONSTANTS
    Timers,    \* timer nodes
    Near,      \* TIME_NEAR, 2^8
    Level,     \* TIME_LEVEL, 2^6
    Levels,    \* 4
    MaxDelay   \* the longest delay, half the clock: INT_MAX ticks

\* ticks in one turn of level i: near is level 0 and t[i - 1] is level i
Span[i \in 0..Levels] == IF i = 0 THEN Near ELSE Level * Span[i - 1]
Clock == Span[Levels]          \* the clock counts modulo this, 2^32

ASSUME WheelAssumption ==
    /\ {Near, Level, Levels} \subseteq Nat \ {0, 1}
    /\ MaxDelay \in 1..(Clock \div 2 - 1)

VARIABLES
    time,      \* T->time
    wheel,     \* the lists: <<0, j>> is near[j], <<i + 1, j>> is t[i][j]
    expire,    \* node->expire
    due,       \* ticks skynet_updatetime has still to run
    pc,        \* the timer thread: outside timer_update, or in which part
    batch,     \* the list it dispatches
    remain,    \* ticks from now to the moment each pending timer was set for,
               \* -1 once it is late
    order      \* pending timers, in the order they were added

vars == <<time, wheel, expire, due, pc, batch, remain, order>>

Lists == ({0} \X (0..(Near - 1))) \cup ((1..Levels) \X (0..(Level - 1)))

Init ==
    /\ time \in 0..(Clock - 1)     \* an idle node has ticked for any time
    /\ wheel = [l \in Lists |-> <<>>]
    /\ expire = [n \in Timers |-> 0]
    /\ due = 0
    /\ pc = "idle"
    /\ batch = <<>>
    /\ remain = [n \in Timers |-> 0]
    /\ order = <<>>

-----------------------------------------------------------------------------
(* add_node and timer_add *)

\* Faulty form: near is used for everything less than TIME_NEAR ticks away.
Home_ByDistance(ex, now) ==
    LET i == Min({k \in 0..Levels : ex \div Span[k] = now \div Span[k]})
    IN  IF (ex - now) % Clock <= Near
        THEN <<0, ex % Near>>
        ELSE <<i, (ex \div Span[i - 1]) % Level>>

\* the list for a timer that expires at ex, at time now: the lowest level on
\* which both are in the same turn (on the last one they always are)
Home(ex, now) ==
    LET i == Min({k \in 0..Levels : ex \div Span[k] = now \div Span[k]})
    IN  IF i = 0 THEN <<0, ex % Near>> ELSE <<i, (ex \div Span[i - 1]) % Level>>

AddNode(w, n, ex, now) == [w EXCEPT ![Home(ex, now)] = Append(@, n)]

\* timer_add: skynet_timeout with a positive time
Add(n, d) ==
    /\ n \notin ToSet(order)
    /\ expire' = [expire EXCEPT ![n] = (time + d) % Clock]
    /\ wheel' = AddNode(wheel, n, (time + d) % Clock, time)
    /\ remain' = [remain EXCEPT ![n] = d]
    /\ order' = Append(order, n)
    /\ UNCHANGED <<time, due, pc, batch>>

-----------------------------------------------------------------------------
(* timer_shift *)

\* Faulty form: the nodes are moved newest first.
MoveList_Reversed(w, l, now) ==
    LET moved[k \in 0..Len(w[l])] ==
            IF k = 0 THEN [w EXCEPT ![l] = <<>>]
            ELSE LET n == w[l][Len(w[l]) + 1 - k] IN AddNode(moved[k - 1], n, expire[n], now)
    IN  moved[Len(w[l])]

\* Faulty form: the list keeps its nodes.
MoveList_NoClear(w, l, now) ==
    LET moved[k \in 0..Len(w[l])] ==
            IF k = 0 THEN w ELSE AddNode(moved[k - 1], w[l][k], expire[w[l][k]], now)
    IN  moved[Len(w[l])]

\* move_list: take the list apart and add its nodes again, one by one
MoveList(w, l, now) ==
    LET moved[k \in 0..Len(w[l])] ==
            IF k = 0 THEN [w EXCEPT ![l] = <<>>]
            ELSE AddNode(moved[k - 1], w[l][k], expire[w[l][k]], now)
    IN  moved[Len(w[l])]

\* Faulty form: the list of the wrapped clock is not moved.
Shifted_NoWrap(ct) ==
    LET digit(i) == (ct \div Span[i]) % Level
        i == Min({k \in 0..(Levels - 1) : digit(k) # 0})
    IN  IF ct # 0 /\ ct % Near = 0 THEN MoveList(wheel, <<i + 1, digit(i)>>, ct) ELSE wheel

\* the lists when the clock has moved to ct
Shifted(ct) ==
    LET digit(i) == (ct \div Span[i]) % Level
        i == Min({k \in 0..(Levels - 1) : digit(k) # 0})
    IN  CASE ct = 0 -> MoveList(wheel, <<Levels, 0>>, ct)
          [] ct # 0 /\ ct % Near = 0 -> MoveList(wheel, <<i + 1, digit(i)>>, ct)
          [] OTHER -> wheel

-----------------------------------------------------------------------------
(* The timer thread: skynet_updatetime, timer_update, timer_execute *)

Current == <<0, time % Near>>

\* skynet_updatetime reads the clock: some ticks have passed
UpdateTime(diff) ==
    /\ due = 0
    /\ due' = diff
    /\ UNCHANGED <<time, wheel, expire, pc, batch, remain, order>>

\* timer_update: lock, and the first timer_execute
Lock ==
    /\ pc = "idle" /\ due > 0
    /\ pc' = "before"
    /\ UNCHANGED <<time, wheel, expire, due, batch, remain, order>>

\* timer_execute finds timers: take the list and unlock
Execute ==
    /\ pc \in {"before", "after"}
    /\ batch = <<>>
    /\ wheel[Current] # <<>>
    /\ batch' = wheel[Current]
    /\ wheel' = [wheel EXCEPT ![Current] = <<>>]
    /\ UNCHANGED <<time, expire, due, pc, remain, order>>

\* dispatch_list: send one message and free the node
Fire ==
    /\ batch # <<>>
    /\ batch' = Tail(batch)
    /\ order' = RemoveAt(order, CHOOSE k \in 1..Len(order) : order[k] = Head(batch))
    /\ UNCHANGED <<time, wheel, expire, due, pc, remain>>

\* the first timer_execute is over: timer_shift
Shift ==
    /\ pc = "before"
    /\ batch = <<>> /\ wheel[Current] = <<>>
    /\ time' = (time + 1) % Clock
    /\ wheel' = Shifted((time + 1) % Clock)
    /\ remain' = [n \in Timers |-> IF n \notin ToSet(order) THEN 0
                               ELSE IF remain[n] > 0 THEN remain[n] - 1 ELSE -1]
    /\ pc' = "after"
    /\ UNCHANGED <<expire, due, batch, order>>

\* the second timer_execute is over: unlock, one tick done
Unlock ==
    /\ pc = "after"
    /\ batch = <<>> /\ wheel[Current] = <<>>
    /\ pc' = "idle"
    /\ due' = due - 1
    /\ UNCHANGED <<time, wheel, expire, batch, remain, order>>

\* the lock of T is free: threads may add timers
Unlocked == pc = "idle" \/ batch # <<>>

Thread == Lock \/ Execute \/ Fire \/ Shift \/ Unlock

Next ==
    \/ Thread
    \/ \E diff \in 1..2 : UpdateTime(diff)
    \/ Unlocked /\ \E n \in Timers, d \in 1..MaxDelay : Add(n, d)

Spec == Init /\ [][Next]_vars

\* The timer thread keeps running and the clock keeps going.
FairSpec == Spec /\ WF_vars(Thread) /\ WF_vars(\E diff \in 1..2 : UpdateTime(diff))

-----------------------------------------------------------------------------
(* Properties *)

\* Type invariant of the wheel.
TypeOK ==
    /\ time \in 0..(Clock - 1)
    /\ wheel \in [Lists -> Seq(Timers)]
    /\ expire \in [Timers -> 0..(Clock - 1)]
    /\ due \in 0..2
    /\ pc \in {"idle", "before", "after"}
    /\ batch \in Seq(Timers)
    /\ remain \in [Timers -> -1..MaxDelay]
    /\ order \in Seq(Timers)

\* the timers of all lists
InWheel == UNION {ToSet(wheel[l]) : l \in Lists}

\* A pending timer is in one list and once in it, or in the batch: the moves
\* between the lists lose and duplicate none.
NoneLost ==
    /\ TypeOK
    /\ ToSet(order) = InWheel \cup ToSet(batch)
    /\ InWheel \cap ToSet(batch) = {}
    /\ \A l, m \in Lists : l # m => ToSet(wheel[l]) \cap ToSet(wheel[m]) = {}
    /\ \A l \in Lists : IsInjective(wheel[l])

\* A timer fires at its tick: not before, and not after it, although it may
\* have crossed several levels and the wrap of the clock on its way.
OnTime ==
    /\ \A n \in ToSet(batch) : remain[n] = 0
    /\ \A n \in InWheel : remain[n] > 0 \/ (remain[n] = 0 /\ pc = "after" /\ n \in ToSet(wheel[Current]))

\* Timers that expire at the same tick fire in the order they were set, from
\* whatever lists they come.
FireInOrder ==
    [][batch # <<>> /\ batch' = Tail(batch) =>
          \A n \in ToSet(order) :
             remain[n] = 0 => n = Head(batch) \/ \E i, j \in 1..Len(order) :
                                   i < j /\ order[i] = Head(batch) /\ order[j] = n]_vars

\* Every timer fires.
EveryTimerFires == \A n \in Timers : n \in ToSet(order) ~> n \notin ToSet(order)

=============================================================================
