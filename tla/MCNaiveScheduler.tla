-------------------------- MODULE MCNaiveScheduler --------------------------
(* One process, two reminders whose users have up to two tokens each.      *)
EXTENDS NaiveScheduler

CONSTANTS n1, r1, r2, t1, t2, k1, k2
=============================================================================
