-------------------------- MODULE RowTransactions --------------------------
(***************************************************************************)
(* The transactions as the other modules take them: each one step, at its  *)
(* commit, over the rows as they are then.  No statement of it runs beside *)
(* another, no lock is held and nothing is read before it is used.         *)
(* RowLocks implements this specification.                                 *)
(***************************************************************************)
CONSTANTS
    Reminders,      \* the fixture reminders of the population being replaced
    OrdinaryUsers,  \* ordinary users, whose local day is materialised
    Receipts        \* pending receipts of pushes to the token

VARIABLES
    days,           \* the ordinary users that have a reminder for their local day
    reminder,       \* reminders.state, or "gone"
    job,            \* the reminder's row of jobs: "none", open, done or "gone"
    token,          \* whether the push_tokens row exists
    linked          \* receipts whose push_token_id is not null

vars == <<days, reminder, job, token, linked>>

Init ==
    /\ days = {}
    /\ \E seeded \in SUBSET Reminders :
          reminder = [r \in Reminders |-> IF r \in seeded THEN "pending" ELSE "gone"]
    /\ job = [r \in Reminders |-> "none"]
    /\ token = TRUE
    /\ linked = Receipts

\* Every ordinary user without a reminder for the day gets one.
Materialize ==
    /\ days' = OrdinaryUsers
    /\ UNCHANGED <<reminder, job, token, linked>>

\* Every pending reminder is queued and gets its job, none of the others.
Enqueue ==
    /\ reminder' = [r \in Reminders |-> IF reminder[r] = "pending" THEN "queued" ELSE reminder[r]]
    /\ job' = [r \in Reminders |-> IF reminder[r] = "pending" THEN "open" ELSE job[r]]
    /\ UNCHANGED <<days, token, linked>>

\* An open job is done, and its reminder, which is queued, is decided.
Complete(r) ==
    /\ job[r] = "open" /\ reminder[r] = "queued"
    /\ job' = [job EXCEPT ![r] = "done"]
    /\ reminder' = [reminder EXCEPT ![r] = "decided"]
    /\ UNCHANGED <<days, token, linked>>

\* The population goes, and with it every job there is, and no other row.
Reseed ==
    /\ reminder' = [r \in Reminders |-> "gone"]
    /\ job' = [r \in Reminders |-> IF job[r] = "none" THEN "none" ELSE "gone"]
    /\ UNCHANGED <<days, token, linked>>

\* The token goes, by a sign-out or a prune, and every link to it.
RemoveToken ==
    /\ token' = FALSE
    /\ linked' = {}
    /\ UNCHANGED <<days, reminder, job>>

RegisterToken ==
    /\ token' = TRUE
    /\ UNCHANGED <<days, reminder, job, linked>>

Next ==
    \/ Materialize
    \/ Enqueue
    \/ \E r \in Reminders : Complete(r)
    \/ Reseed
    \/ RemoveToken
    \/ RegisterToken

Spec == Init /\ [][Next]_vars
=============================================================================
