----------------------------- MODULE MCRowLocks -----------------------------
(* RowLocks for TLC, over two casts: whoever locks the token's rows, with  *)
(* one reminder, and whoever locks the reminders and the days, with two.   *)
EXTENDS RowLocks, TLC

CONSTANTS r1, r2, u1, u2, w1, w2, w3, s1, s2, f1, q1, q2, d1, d2

VARIABLE cast   \* the processes that take part

Casts == {{w1, w2, s1, f1, q1, q2, Seed}, {w3, s1, s2, Seed}}

MCInit ==
    /\ LocksInit
    /\ cast \in Casts
    /\ s2 \notin cast => reminder[r2] = "gone" /\ reminder[r1] = "pending"
    /\ s2 \in cast => \A r \in Reminders : reminder[r] = "pending"

\* Only the cast acts, and with one scheduler nothing can be materialised twice.
MCNext ==
    /\ LocksNext
    /\ \A p \in Processes \ cast : doing'[p] = Idle
    /\ s2 \notin cast => doing'[s1] # <<"materialize", Nothing>>
    /\ UNCHANGED cast

MCSpec == MCInit /\ [][MCNext]_<<lockVars, cast>>

\* Names that no cast tells apart.
Symmetry ==
    Permutations({w1, w2}) \cup Permutations({q1, q2}) \cup Permutations({d1, d2})
        \cup Permutations({u1, u2})
=============================================================================
