----------------------------- MODULE MCDispatch -----------------------------
(* Instances of Dispatch for TLC. *)
EXTENDS Dispatch

CONSTANTS snlua, gate, w1, w2, timer, None

MCBoot == <<snlua>>
MCBootMail == [s \in Services |-> IF s = snlua THEN <<[src |-> snlua, type |-> "request"]>> ELSE <<>>]
MCWeight == [t \in Workers |-> IF t = w1 THEN 0 ELSE -1]

=============================================================================
