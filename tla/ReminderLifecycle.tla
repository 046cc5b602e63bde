------------------------- MODULE ReminderLifecycle -------------------------
(***************************************************************************)
(* What the fan-out promises about one reminder, with no job table, no     *)
(* worker, no lock and no clock: a reminder is written once, is queued     *)
(* once, collects fewer than MaxAttempts failed attempts while it is       *)
(* queued, and gets exactly one verdict, which stays.  JobQueue implements *)
(* this specification (the mapping is at the end of that module).          *)
(***************************************************************************)
EXTENDS Naturals

CONSTANTS
    Reminders,      \* every reminder row the system will ever hold
    Seeded,         \* those of the fixture population
    MaxAttempts     \* WORKER_MAX_ATTEMPTS

VARIABLES
    state,          \* reminders.state, or that there is no such row
    failures        \* failed attempts counted while the reminder is queued

vars == <<state, failures>>

Verdicts == {"sent", "failed", "skipped"}

States == {"absent", "pending", "queued", "gone"} \cup Verdicts

Init ==
    /\ state = [r \in Reminders |-> IF r \in Seeded THEN "pending" ELSE "absent"]
    /\ failures = [r \in Reminders |-> 0]

Moved(S, s) == [r \in Reminders |-> IF r \in S THEN s ELSE state[r]]

\* A daily snapshot is inserted for an ordinary user, at most once.
Materialize(S) ==
    /\ \A r \in S : r \notin Seeded /\ state[r] = "absent"
    /\ state' = Moved(S, "pending")
    /\ UNCHANGED failures

\* Reminders get their job: only a pending one, hence at most once.
Enqueue(S) ==
    /\ \A r \in S : state[r] = "pending"
    /\ state' = Moved(S, "queued")
    /\ UNCHANGED failures

\* Every target of one attempt accepted the push.
Send(r) ==
    /\ state[r] = "queued"
    /\ state' = [state EXCEPT ![r] = "sent"]
    /\ UNCHANGED failures

\* The ordinary user had no device.
Skip(r) ==
    /\ state[r] = "queued"
    /\ r \notin Seeded
    /\ state' = [state EXCEPT ![r] = "skipped"]
    /\ UNCHANGED failures

\* One attempt failed and the ceiling is not reached: it will be retried.
Retry(r) ==
    /\ state[r] = "queued"
    /\ failures[r] + 1 < MaxAttempts
    /\ failures' = [failures EXCEPT ![r] = @ + 1]
    /\ UNCHANGED state

\* The attempt that reaches the ceiling decides the reminder.
GiveUp(r) ==
    /\ state[r] = "queued"
    /\ failures[r] + 1 = MaxAttempts
    /\ failures' = [failures EXCEPT ![r] = @ + 1]
    /\ state' = [state EXCEPT ![r] = "failed"]

\* A re-seed deletes the whole fixture population and its history.
Replace ==
    /\ state' = Moved(Seeded, "gone")
    /\ failures' = [r \in Reminders |-> IF r \in Seeded THEN 0 ELSE failures[r]]

Next ==
    \/ \E S \in SUBSET Reminders : Materialize(S) \/ Enqueue(S)
    \/ \E r \in Reminders : Send(r) \/ Skip(r) \/ Retry(r) \/ GiveUp(r)
    \/ Replace

Spec == Init /\ [][Next]_vars
=============================================================================
