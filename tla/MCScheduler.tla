---------------------------- MODULE MCScheduler -----------------------------
(* Instances of Scheduler for TLC. *)
EXTENDS Scheduler

CONSTANTS a, b, outside

(* What service code does in a behaviour: three kinds of work. *)
Talk == [any |-> 6, job |-> 2, call |-> 2, sleep |-> 1, wait |-> 0, wakeup |-> 0,
         fork |-> 1, defer |-> 1, enter |-> 0, raise |-> 1, exit |-> 1, kill |-> 0]
Park == [any |-> 8, job |-> 2, call |-> 0, sleep |-> 2, wait |-> 1, wakeup |-> 2,
         fork |-> 0, defer |-> 0, enter |-> 2, raise |-> 1, exit |-> 0, kill |-> 0]
Fatal == [any |-> 5, job |-> 2, call |-> 2, sleep |-> 0, wait |-> 0, wakeup |-> 0,
          fork |-> 0, defer |-> 1, enter |-> 0, raise |-> 0, exit |-> 1, kill |-> 1]
AnyWork == {Talk, Park, Fatal}

=============================================================================
