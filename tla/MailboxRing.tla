---------------------------- MODULE MailboxRing -----------------------------
(***************************************************************************)
(* The ring buffer of a mailbox (struct message_queue, skynet_mq.c).  Every *)
(* operation runs under the mailbox's spin lock, so each is one action.    *)
(* The array doubles when a push fills it, so head = tail always means     *)
(* empty.  The overload mark is raised by a pop that leaves more messages  *)
(* than a threshold, which then doubles, and is taken by the worker that   *)
(* prints the warning.                                                     *)
(***************************************************************************)
EXTENDS Integers, Sequences

CONSTANTS
    Message,         \* the messages
    NoMessage,       \* nothing: a cell not written yet, a pop that fails
    DefaultSize,     \* DEFAULT_QUEUE_SIZE, 64
    OverloadAt,      \* MQ_OVERLOAD, 1024
    MaxLength        \* bound: messages in the mailbox

ASSUME RingAssumption ==
    /\ DefaultSize \in Nat \ {0}
    /\ OverloadAt \in Nat \ {0}
    /\ NoMessage \notin Message
    /\ MaxLength \in Nat

VARIABLES
    cap, head, tail,     \* q->cap, q->head, q->tail
    queue,               \* q->queue, the cells 0 .. cap-1
    overload, threshold, \* q->overload, q->overload_threshold
    popped,              \* *message of the last skynet_mq_pop
    warned               \* what the last skynet_mq_overload returned

ringVars == <<cap, head, tail, queue, overload, threshold, popped, warned>>

\* skynet_mq_create
RingInit ==
    /\ cap = DefaultSize
    /\ head = 0
    /\ tail = 0
    /\ queue = [i \in 0..(DefaultSize - 1) |-> NoMessage]
    /\ overload = 0
    /\ threshold = OverloadAt
    /\ popped = NoMessage
    /\ warned = 0

\* skynet_mq_length
Length == IF head <= tail THEN tail - head ELSE tail + cap - head

\* Raise the mark for a length and double the threshold until it holds it:
\* the threshold is OverloadAt doubled some number of times.
Doubled(th, len) ==
    LET up[k \in 0..len] == IF k = 0 THEN th
                            ELSE IF up[k - 1] < len THEN 2 * up[k - 1] ELSE up[k - 1]
    IN  up[len]

\* Faulty form: the length of a wrapped mailbox is not corrected.
Pop_NoWrapLength ==
    LET next == IF head + 1 >= cap THEN 0 ELSE head + 1
        len  == IF tail - next < 0 THEN 0 ELSE tail - next
    IN  /\ head # tail
        /\ popped' = queue[head]
        /\ head' = next
        /\ threshold' = Doubled(threshold, len)
        /\ overload' = IF len > threshold THEN len ELSE overload
        /\ UNCHANGED <<cap, tail, queue, warned>>

\* skynet_mq_pop of a mailbox with a message
Pop ==
    LET next == IF head + 1 >= cap THEN 0 ELSE head + 1
        len  == IF tail - next < 0 THEN tail - next + cap ELSE tail - next
    IN  /\ head # tail
        /\ popped' = queue[head]
        /\ head' = next
        /\ threshold' = Doubled(threshold, len)
        /\ overload' = IF len > threshold THEN len ELSE overload
        /\ UNCHANGED <<cap, tail, queue, warned>>

\* skynet_mq_pop of an empty mailbox: the threshold is reset
PopEmpty ==
    /\ head = tail
    /\ popped' = NoMessage
    /\ threshold' = OverloadAt
    /\ UNCHANGED <<cap, head, tail, queue, overload, warned>>

\* Faulty form: the copy starts at cell 0 instead of at the head.
Expanded_FromZero(q, h, c) ==
    [i \in 0..(2 * c - 1) |-> IF i < c THEN q[i] ELSE NoMessage]

\* Faulty form: the copy loop stops one cell early.
Expanded_Short(q, h, c) ==
    [i \in 0..(2 * c - 1) |-> IF i < c - 1 THEN q[(h + i) % c] ELSE NoMessage]

\* expand_queue: the messages, oldest first, in an array twice as large
Expanded(q, h, c) ==
    [i \in 0..(2 * c - 1) |-> IF i < c THEN q[(h + i) % c] ELSE NoMessage]

\* skynet_mq_push: write the cell, move the tail, grow when it meets the head
Push(m) ==
    LET written == [queue EXCEPT ![tail] = m]
        next    == IF tail + 1 >= cap THEN 0 ELSE tail + 1
    IN  /\ Length < MaxLength
        /\ \/ /\ next # head
              /\ queue' = written
              /\ tail' = next
              /\ UNCHANGED <<cap, head>>
           \/ /\ next = head
              /\ queue' = Expanded(written, head, cap)
              /\ head' = 0
              /\ tail' = cap
              /\ cap' = 2 * cap
        /\ UNCHANGED <<overload, threshold, popped, warned>>

\* skynet_mq_overload: read the mark and clear it
Overload ==
    /\ warned' = overload
    /\ overload' = 0
    /\ UNCHANGED <<cap, head, tail, queue, threshold, popped>>

RingNext == Pop \/ PopEmpty \/ Overload \/ \E m \in Message : Push(m)

RingSpec == RingInit /\ [][RingNext]_ringVars

-----------------------------------------------------------------------------
(* Properties *)

\* the cell of the i-th message
Cell(i) == IF head + i - 1 < cap THEN head + i - 1 ELSE head + i - 1 - cap

Contents == [i \in 1..Length |-> queue[Cell(i)]]

\* The indices are cells of the array, so head = tail only when it is empty.
CellsOK ==
    /\ cap \in Nat \ {0}
    /\ head \in 0..(cap - 1)
    /\ tail \in 0..(cap - 1)
    /\ queue \in [0..(cap - 1) -> Message \cup {NoMessage}]
    /\ popped \in Message \cup {NoMessage}

\* Type invariant of the mailbox.
RingTypeOK ==
    /\ CellsOK
    /\ overload \in Nat
    /\ threshold \in Nat \ {0}
    /\ warned \in Nat

\* No pop hands out a cell that was never written: every cell between head
\* and tail holds a pushed message, after any number of wraps and growths.
Filled == \A i \in 1..Length : queue[Cell(i)] \in Message

Queue == INSTANCE Fifo WITH contents <- Contents, taken <- popped

\* The ring behaves as an unbounded first-in first-out queue, through wraps
\* of both indices and through the doublings of the array.
FifoSpec == Queue!Spec

\* A backlog is always reported: after a pop the threshold covers what is
\* left, it moves up only together with the mark of that backlog and by less
\* than twice it, so that the next warning comes when the backlog has doubled,
\* and it moves down only when a pop finds the mailbox empty.
BacklogWarned ==
    [][/\ Len(Contents') < Len(Contents) => Len(Contents') <= threshold'
       /\ threshold' > threshold => overload' = Len(Contents') /\ threshold' < 2 * overload'
       /\ threshold' < threshold => Contents = <<>> /\ popped' = NoMessage]_ringVars

=============================================================================
