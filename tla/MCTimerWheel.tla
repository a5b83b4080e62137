---------------------------- MODULE MCTimerWheel ----------------------------
(* Instances of TimerWheel for TLC. *)
EXTENDS TimerWheel

CONSTANTS t1, t2

=============================================================================
