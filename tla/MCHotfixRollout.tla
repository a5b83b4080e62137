-------------------------- MODULE MCHotfixRollout ---------------------------
(* Instances of HotfixRollout, with the Launcher in it, for TLC. *)
EXTENDS HotfixRollout

CONSTANTS s1, s2, s3, main, u1, c1, c2, nil

Quota(m, u, f) == [k \in Askers \cup {"fault"} |-> CASE k = Main -> m [] k = u1 -> u [] k = "fault" -> f]

\* main.lua launches two services, or two unique ones are wanted, or one of each
MCQuotas == {Quota(2, 0, 1), Quota(0, 2, 2), Quota(1, 1, 0)}

=============================================================================
