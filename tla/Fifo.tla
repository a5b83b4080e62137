-------------------------------- MODULE Fifo --------------------------------
(* An unbounded first-in first-out queue: what a mailbox promises. *)
EXTENDS Sequences

CONSTANTS Message, NoMessage

VARIABLES
    contents,  \* the messages, oldest first
    taken      \* the message the last Pop took out, NoMessage if none

Init == contents = <<>> /\ taken = NoMessage

Push(m) ==
    /\ contents' = Append(contents, m)
    /\ UNCHANGED taken

Pop ==
    \/ /\ contents # <<>>
       /\ taken' = Head(contents)
       /\ contents' = Tail(contents)
    \/ /\ contents = <<>>
       /\ taken' = NoMessage
       /\ UNCHANGED contents

Next == Pop \/ \E m \in Message : Push(m)

Spec == Init /\ [][Next]_<<contents, taken>>

=============================================================================
