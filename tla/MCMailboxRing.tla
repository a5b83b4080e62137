--------------------------- MODULE MCMailboxRing ----------------------------
(* Instances of MailboxRing for TLC. *)
EXTENDS MailboxRing

CONSTANTS a, b, none

=============================================================================
