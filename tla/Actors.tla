------------------------------- MODULE Actors -------------------------------
(***************************************************************************)
(* What the message dispatcher promises to the code of a service: services *)
(* are actors.  A service handles one message at a time, in the order the  *)
(* messages were delivered; its init function comes before its first       *)
(* message; and only the messages of a service that is closed, retired and *)
(* at rest for good, are thrown away.  Dispatch implements this.           *)
(***************************************************************************)
EXTENDS Sequences

CONSTANTS
    Services, Message,
    Initial,  \* the services there from the start
    Mail      \* and the messages they have

VARIABLES
    born,    \* services launched so far
    known,   \* services a message can be addressed to
    box,     \* undelivered messages of every service
    busy,    \* services whose code runs
    closed   \* services that will never run again

vars == <<born, known, box, busy, closed>>

Init ==
    /\ born = Initial
    /\ known = Initial
    /\ box = Mail
    /\ busy = {}
    /\ closed = {}

Launch(s) ==
    /\ s \notin born
    /\ born' = born \cup {s}
    /\ known' = known \cup {s}
    /\ busy' = busy \cup {s}
    /\ UNCHANGED <<box, closed>>

\* a sender may have looked s up before s was retired
Deliver(s, m) ==
    /\ s \in born \ closed
    /\ box' = [box EXCEPT ![s] = Append(@, m)]
    /\ UNCHANGED <<born, known, busy, closed>>

Accept(s) ==
    /\ s \in born \ (busy \cup closed)
    /\ box[s] # <<>>
    /\ box' = [box EXCEPT ![s] = Tail(@)]
    /\ busy' = busy \cup {s}
    /\ UNCHANGED <<born, known, closed>>

Finish(s) ==
    /\ s \in busy
    /\ busy' = busy \ {s}
    /\ UNCHANGED <<born, known, box, closed>>

Retire(s) ==
    /\ s \in known
    /\ known' = known \ {s}
    /\ UNCHANGED <<born, box, busy, closed>>

Close(s) ==
    /\ s \in born \ (known \cup busy \cup closed)
    /\ closed' = closed \cup {s}
    /\ UNCHANGED <<born, known, box, busy>>

Discard(s) ==
    /\ s \in closed
    /\ box[s] # <<>>
    /\ box' = [box EXCEPT ![s] = Tail(@)]
    /\ UNCHANGED <<born, known, busy, closed>>

Next ==
    \E s \in Services :
        \/ Launch(s) \/ Accept(s) \/ Finish(s)
        \/ Retire(s) \/ Close(s) \/ Discard(s)
        \/ \E m \in Message : Deliver(s, m)

Spec == Init /\ [][Next]_vars

=============================================================================
