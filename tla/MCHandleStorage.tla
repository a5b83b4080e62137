-------------------------- MODULE MCHandleStorage ---------------------------
(* Instances of HandleStorage for TLC. *)
EXTENDS HandleStorage

CONSTANTS c1, c2, c3, l1, l2, l3, main, none

=============================================================================
