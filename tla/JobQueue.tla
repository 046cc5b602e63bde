------------------------------ MODULE JobQueue ------------------------------
(***************************************************************************)
(* The fan-out: the enqueue scheduler, the jobs table, and the workers     *)
(* that claim, send and record, as statements and transactions on the      *)
(* shared Postgres tables interleave.  A committed statement or            *)
(* transaction is one action; everything a process holds between two of    *)
(* them (the ids a tick read, the snapshot a claim loaded, the outcomes of *)
(* an attempt) is state that may be stale when it is used.                 *)
(*                                                                         *)
(* Time is abstract: a lock is younger or older than the lease, a run_at   *)
(* is due or later, and time passing is an action.  Each reminder stands   *)
(* for a user with one reminder, so a user's tokens are its reminder's.    *)
(***************************************************************************)
EXTENDS Integers, FiniteSets

CONSTANTS
    Reminders,      \* every reminder row that is ever written
    Seeded,         \* the reminders of users.seeded fixture users
    Unreadable,     \* fixtures whose timezone the runtime may not know
    Workers,        \* worker processes, one at a time under each name
    Schedulers,     \* scheduler processes in SCHEDULER_MODE=enqueue
    Tokens,         \* push tokens that installations register
    NoToken,        \* the null target of a fixture without a device
    Nobody,         \* locked_by is null or names a process that has exited
    SeededOnly,     \* SCHEDULER_SEEDED_ONLY and WORKER_SEEDED_ONLY
    BatchSize,      \* WORKER_BATCH_SIZE
    MaxAttempts,    \* WORKER_MAX_ATTEMPTS
    MaxFaults       \* bound: kills, signals, outages and lost records

ASSUME SeededAssumption == Seeded \subseteq Reminders /\ Unreadable \subseteq Seeded
ASSUME NamesAssumption == NoToken \notin Tokens /\ Nobody \notin Workers
ASSUME ModeAssumption == SeededOnly \in BOOLEAN
\* readWorkerConfig refuses anything but positive integers.
WorkerConfig == BatchSize \in Nat \ {0} /\ MaxAttempts \in Nat \ {0}
ASSUME PolicyAssumption == WorkerConfig
ASSUME BoundAssumption == MaxFaults \in Nat
ASSUME TableAssumption == IsFiniteSet(Reminders)

VARIABLES
    \* The database.
    reminder,       \* reminders.state per row, "absent" or "gone" without a row
    due,            \* reminders whose scheduled_at has passed
    tokens,         \* push_tokens: the tokens of each reminder's user
    row,            \* jobs row: "none", open, done, dead, or deleted
    attempts,       \* jobs.attempts
    runAt,          \* jobs.run_at: "due" or "later"
    lock,           \* jobs.locked_at: "free" (null), "live" or "stale"
    lockedBy,       \* jobs.locked_by
    sentTo,         \* targets with a `sent` deliveries row, per reminder
    failures,       \* attempts recorded with a `failed` deliveries row
    \* Each scheduler process.
    tick,           \* where its tick is
    held,           \* the ids dueReminderIds returned
    \* Each worker process.
    phase,          \* where runWorkerLoop is
    stop,           \* shutdown.aborted
    tripped,        \* failedRead is not null
    stage,          \* per job of the batch: how far attempt(job) has come
    to,             \* the targets in the claim's snapshot
    failed,         \* the targets whose send failed
    \* The surroundings.
    readsUp,        \* whether the card read's query can be answered
    faults,         \* faults so far
    \* History, read by no action of the program.
    credit,         \* claims a job may still take: see ClaimsAccountedFor
    fresh           \* jobs a worker is attempting on a claim within its lease

reminderVars == <<reminder, due>>
jobVars == <<row, attempts, runAt, lock, lockedBy, credit>>
deliveryVars == <<sentTo, failures>>
tickVars == <<tick, held>>
attemptVars == <<stage, to, failed, fresh>>
loopVars == <<phase, stop, tripped>>
faultVars == <<readsUp, faults>>

vars == <<reminderVars, tokens, jobVars, deliveryVars, tickVars, attemptVars,
          loopVars, faultVars>>

-----------------------------------------------------------------------------
\* One row more per reminder than there should ever be.
Copies == {1, 2}

Jobs == Reminders \X Copies

\* jobs.payload.reminder_id
ReminderOf(j) == j[1]

Targets == Tokens \cup {NoToken}

Verdicts == {"sent", "failed", "skipped"}

ReminderStates == {"absent", "pending", "queued", "gone"} \cup Verdicts

RowStates == {"none", "open", "done", "dead", "deleted"}

TickStates == {"idle", "materialized", "due"}

Phases == {"down", "top", "claiming", "claimed", "batch"}

\* attempt(job) has been started or is about to be, and has not settled.
InFlight == {"claimed", "noTarget", "loaded", "sending", "answered"}

Stages == {"none", "recorded", "rejected", "skipped", "unread"} \cup InFlight

\* What the worker's transaction reported back to it: done, or an error.
Replies == {"recorded", "rejected"}

Init ==
    /\ reminder = [r \in Reminders |-> IF r \in Seeded THEN "pending" ELSE "absent"]
    /\ due = {}
    /\ tokens = [r \in Reminders |-> {}]
    /\ row = [j \in Jobs |-> "none"]
    /\ attempts = [j \in Jobs |-> 0]
    /\ runAt = [j \in Jobs |-> "due"]
    /\ lock = [j \in Jobs |-> "free"]
    /\ lockedBy = [j \in Jobs |-> Nobody]
    /\ credit = [j \in Jobs |-> 0]
    /\ sentTo = [r \in Reminders |-> {}]
    /\ failures = [r \in Reminders |-> 0]
    /\ tick = [s \in Schedulers |-> "idle"]
    /\ held = [s \in Schedulers |-> {}]
    /\ phase = [w \in Workers |-> "top"]
    /\ stop = [w \in Workers |-> FALSE]
    /\ tripped = [w \in Workers |-> FALSE]
    /\ stage = [w \in Workers |-> [j \in Jobs |-> "none"]]
    /\ to = [w \in Workers |-> [j \in Jobs |-> {}]]
    /\ failed = [w \in Workers |-> [j \in Jobs |-> {}]]
    /\ fresh = [w \in Workers |-> {}]
    /\ readsUp = TRUE
    /\ faults = 0

\* One more of the bounded faults.
Fault ==
    /\ faults < MaxFaults
    /\ faults' = faults + 1

-----------------------------------------------------------------------------
(* The enqueue scheduler.  A tick never overlaps another of its process    *)
(* (createNonOverlappingTick); ticks of two processes interleave freely.   *)

\* materializeOrdinary: whichever ordinary users have no row for their
\* current local day get one; ON CONFLICT keeps the rows that exist.
TickMaterialize(s) ==
    /\ tick[s] = "idle"
    /\ ~SeededOnly
    /\ \E S \in SUBSET {r \in Reminders \ Seeded : reminder[r] = "absent"} :
          reminder' = [r \in Reminders |-> IF r \in S THEN "pending" ELSE reminder[r]]
    /\ tick' = [tick EXCEPT ![s] = "materialized"]
    /\ UNCHANGED <<due, tokens, jobVars, deliveryVars, held, attemptVars,
                   loopVars, faultVars>>

DuePending ==
    {r \in due : reminder[r] = "pending" /\ (SeededOnly => r \in Seeded)}

\* dueReminderIds, then the early return when nothing is due.
TickReadDue(s) ==
    /\ tick[s] = IF SeededOnly THEN "idle" ELSE "materialized"
    /\ held' = [held EXCEPT ![s] = DuePending]
    /\ tick' = [tick EXCEPT ![s] = IF DuePending = {} THEN "idle" ELSE "due"]
    /\ UNCHANGED <<reminderVars, tokens, jobVars, deliveryVars, attemptVars,
                   loopVars, faultVars>>

\* Mutant: the update without `state = 'pending'`.
EnqueuedUnguarded(s) == held[s]

\* The reminders of the held ids that the update's predicate still moves.
Enqueued(s) == {r \in held[s] : reminder[r] = "pending"}

\* The row an insert for r creates.
NewJob(r) == IF row[<<r, 1>>] = "none" THEN <<r, 1>> ELSE <<r, 2>>

\* enqueue: one statement moves the reminders and inserts their jobs.
TickEnqueue(s) ==
    LET moved == Enqueued(s)
        new == {NewJob(r) : r \in moved}
    IN  /\ tick[s] = "due"
        /\ reminder' = [r \in Reminders |-> IF r \in moved THEN "queued" ELSE reminder[r]]
        /\ row' = [j \in Jobs |-> IF j \in new THEN "open" ELSE row[j]]
        /\ attempts' = [j \in Jobs |-> IF j \in new THEN 0 ELSE attempts[j]]
        /\ runAt' = [j \in Jobs |-> IF j \in new THEN "due" ELSE runAt[j]]
        /\ lock' = [j \in Jobs |-> IF j \in new THEN "free" ELSE lock[j]]
        /\ lockedBy' = [j \in Jobs |-> IF j \in new THEN Nobody ELSE lockedBy[j]]
        /\ credit' = [j \in Jobs |-> IF j \in new THEN 1 ELSE credit[j]]
        /\ tick' = [tick EXCEPT ![s] = "idle"]
        /\ held' = [held EXCEPT ![s] = {}]
        /\ UNCHANGED <<due, tokens, deliveryVars, attemptVars, loopVars, faultVars>>

\* The tick threw, or its process was killed and started again.
TickDies(s) ==
    /\ tick[s] # "idle"
    /\ Fault
    /\ tick' = [tick EXCEPT ![s] = "idle"]
    /\ held' = [held EXCEPT ![s] = {}]
    /\ UNCHANGED <<reminderVars, tokens, jobVars, deliveryVars, attemptVars,
                   loopVars, readsUp>>

-----------------------------------------------------------------------------
(* The worker loop.                                                        *)

\* The process is gone: what it held in memory with it.  Its locks stay,
\* under the name of a process that no longer runs.
Exit(w) ==
    /\ phase' = [phase EXCEPT ![w] = "down"]
    /\ stop' = [stop EXCEPT ![w] = FALSE]
    /\ tripped' = [tripped EXCEPT ![w] = FALSE]
    /\ stage' = [stage EXCEPT ![w] = [j \in Jobs |-> "none"]]
    /\ to' = [to EXCEPT ![w] = [j \in Jobs |-> {}]]
    /\ failed' = [failed EXCEPT ![w] = [j \in Jobs |-> {}]]
    /\ fresh' = [fresh EXCEPT ![w] = {}]
    /\ lockedBy' = [j \in Jobs |-> IF lockedBy[j] = w THEN Nobody ELSE lockedBy[j]]

\* A new worker process.
Start(w) ==
    /\ phase[w] = "down"
    /\ phase' = [phase EXCEPT ![w] = "top"]
    /\ UNCHANGED <<reminderVars, tokens, jobVars, deliveryVars, tickVars,
                   attemptVars, stop, tripped, faultVars>>

\* SIGKILL, a crash, a second signal, or a claim that threw: the batch in
\* flight is abandoned, its pushes made or not.
Crash(w) ==
    /\ phase[w] # "down"
    /\ Fault
    /\ Exit(w)
    /\ UNCHANGED <<reminderVars, tokens, row, attempts, runAt, lock, credit,
                   deliveryVars, tickVars, readsUp>>

\* The first SIGTERM or SIGINT.
Signal(w) ==
    /\ phase[w] # "down"
    /\ ~stop[w]
    /\ Fault
    /\ stop' = [stop EXCEPT ![w] = TRUE]
    /\ UNCHANGED <<reminderVars, tokens, jobVars, deliveryVars, tickVars,
                   attemptVars, phase, tripped, readsUp>>

\* Mutant: the signal is looked at only when the breaker is closed.
SeesStopUnlessTripped(w) == stop[w] /\ ~tripped[w]

\* while (!shutdown.aborted), checked before the breaker is.
SeesStop(w) == stop[w]

\* The loop's condition is false: the loop returns and the process exits.
StopAtTop(w) ==
    /\ phase[w] = "top"
    /\ SeesStop(w)
    /\ Exit(w)
    /\ UNCHANGED <<reminderVars, tokens, row, attempts, runAt, lock, credit,
                   deliveryVars, tickVars, faultVars>>

\* readsAgain(failedRead) succeeded: the worker claims again.  A probe that
\* fails changes nothing.
Probe(w) ==
    /\ phase[w] = "top"
    /\ ~stop[w]
    /\ tripped[w]
    /\ readsUp
    /\ tripped' = [tripped EXCEPT ![w] = FALSE]
    /\ stage' = [stage EXCEPT ![w] =
                    [j \in Jobs |-> IF @[j] = "unread" THEN "skipped" ELSE @[j]]]
    /\ UNCHANGED <<reminderVars, tokens, jobVars, deliveryVars, tickVars, to,
                   failed, fresh, phase, stop, faultVars>>

\* Mutant: a failed read does not stop the claims.
MayClaimTripped(w) == ~stop[w]

\* The checks at the loop's top.
MayClaim(w) == ~stop[w] /\ ~tripped[w]

\* The claim statement is on its way.
GoClaim(w) ==
    /\ phase[w] = "top"
    /\ MayClaim(w)
    /\ phase' = [phase EXCEPT ![w] = "claiming"]
    /\ UNCHANGED <<reminderVars, tokens, jobVars, deliveryVars, tickVars,
                   attemptVars, stop, tripped, faultVars>>

\* Mutant: the lease disjunction is dropped, so a lock keeps nobody out.
ClaimableLocked(j) ==
    /\ row[j] = "open"
    /\ runAt[j] = "due"
    /\ SeededOnly => ReminderOf(j) \in Seeded

\* Mutant: a lock older than the lease is not taken over.
ClaimableOnce(j) ==
    /\ row[j] = "open"
    /\ runAt[j] = "due"
    /\ lock[j] = "free"
    /\ SeededOnly => ReminderOf(j) \in Seeded

\* The predicate of the claim statement.
Claimable(j) ==
    /\ row[j] = "open"
    /\ runAt[j] = "due"
    /\ lock[j] \in {"free", "stale"}
    /\ SeededOnly => ReminderOf(j) \in Seeded

\* The claim statement commits a batch.  ORDER BY run_at is left out and
\* SKIP LOCKED may pass over rows, so any small enough set may be taken.
Claim(w, S) ==
    /\ phase[w] = "claiming"
    /\ S # {}
    /\ Cardinality(S) <= BatchSize
    /\ \A j \in S : Claimable(j)
    /\ phase' = [phase EXCEPT ![w] = "claimed"]
    /\ lock' = [j \in Jobs |-> IF j \in S THEN "live" ELSE lock[j]]
    /\ lockedBy' = [j \in Jobs |-> IF j \in S THEN w ELSE lockedBy[j]]
    /\ credit' = [j \in Jobs |-> IF j \in S THEN credit[j] - 1 ELSE credit[j]]
    /\ stage' = [stage EXCEPT ![w] = [j \in Jobs |-> IF j \in S THEN "claimed" ELSE @[j]]]
    /\ fresh' = [fresh EXCEPT ![w] = @ \cup S]
    /\ UNCHANGED <<reminderVars, tokens, row, attempts, runAt, deliveryVars,
                   tickVars, to, failed, stop, tripped, faultVars>>

\* The claim returned nothing; the poll sleep leads back to the top.
ClaimNothing(w) ==
    /\ phase[w] = "claiming"
    /\ phase' = [phase EXCEPT ![w] = "top"]
    /\ UNCHANGED <<reminderVars, tokens, jobVars, deliveryVars, tickVars,
                   attemptVars, stop, tripped, faultVars>>

\* sendTargets: an empty list becomes the null target.
SendTargets(r) == IF tokens[r] = {} THEN {NoToken} ELSE tokens[r]

\* Mutant: an ordinary user without a device is sent like a fixture.
OpenedAlikeForAll(r) == IF reminder[r] = "gone" THEN "skipped" ELSE "loaded"

\* attempt(job) up to its first await: a job whose reminder is gone is
\* skipped, an ordinary user without a token leads to skipNoTarget.
Opened(r) ==
    IF reminder[r] = "gone" THEN "skipped"
    ELSE IF r \notin Seeded /\ tokens[r] = {} THEN "noTarget" ELSE "loaded"

\* The claim's second select: the batch's reminders, users and tokens.
Load(w) ==
    /\ phase[w] = "claimed"
    /\ phase' = [phase EXCEPT ![w] = "batch"]
    /\ stage' = [stage EXCEPT ![w] =
          [j \in Jobs |-> IF @[j] = "claimed" THEN Opened(ReminderOf(j)) ELSE @[j]]]
    /\ to' = [to EXCEPT ![w] =
          [j \in Jobs |-> IF stage[w][j] = "claimed" /\ Opened(ReminderOf(j)) = "loaded"
                          THEN SendTargets(ReminderOf(j)) ELSE @[j]]]
    /\ fresh' = [fresh EXCEPT ![w] =
          {j \in @ : stage[w][j] = "claimed" => Opened(ReminderOf(j)) # "skipped"}]
    /\ UNCHANGED <<reminderVars, tokens, jobVars, deliveryVars, tickVars, failed,
                   stop, tripped, faultVars>>

\* The attempt of w at j settles as s.
Settle(w, j, s) ==
    /\ stage' = [stage EXCEPT ![w][j] = s]
    /\ to' = [to EXCEPT ![w][j] = {}]
    /\ failed' = [failed EXCEPT ![w][j] = {}]
    /\ fresh' = [fresh EXCEPT ![w] = @ \ {j}]

\* readCards succeeded (from the database or the cache), every send starts.
ReadCards(w, j) ==
    /\ stage[w][j] = "loaded"
    /\ phase[w] = "batch"
    /\ stage' = [stage EXCEPT ![w][j] = "sending"]
    /\ UNCHANGED <<reminderVars, tokens, jobVars, deliveryVars, tickVars, to,
                   failed, fresh, loopVars, faultVars>>

\* CardsReadError: the job is skipped and the breaker trips.
ReadFails(w, j) ==
    /\ stage[w][j] = "loaded"
    /\ phase[w] = "batch"
    /\ ~readsUp
    /\ Settle(w, j, "unread")
    /\ tripped' = [tripped EXCEPT ![w] = TRUE]
    /\ UNCHANGED <<reminderVars, tokens, jobVars, deliveryVars, tickVars, phase,
                   stop, faultVars>>

\* localDate refuses the fixture's timezone: that job alone is skipped.
InputFails(w, j) ==
    /\ stage[w][j] = "loaded"
    /\ phase[w] = "batch"
    /\ ReminderOf(j) \in Unreadable
    /\ Settle(w, j, "skipped")
    /\ UNCHANGED <<reminderVars, tokens, jobVars, deliveryVars, tickVars,
                   loopVars, faultVars>>

\* Promise.all over the targets: every send has been answered.
SendsAnswered(w, j) ==
    /\ stage[w][j] = "sending"
    /\ \E F \in SUBSET to[w][j] : failed' = [failed EXCEPT ![w][j] = F]
    /\ stage' = [stage EXCEPT ![w][j] = "answered"]
    /\ UNCHANGED <<reminderVars, tokens, jobVars, deliveryVars, tickVars, to,
                   fresh, loopVars, faultVars>>

\* A reply the worker never gets is one of the bounded faults.
Replied(reply) ==
    IF reply = "rejected" THEN Fault ELSE UNCHANGED faults

\* Mutant: a verdict overwrites whatever state the reminder has.
DecideUnguarded(r, verdict) == reminder' = [reminder EXCEPT ![r] = verdict]

\* `state = 'queued'` guards every update a worker makes of a reminder.
Decide(r, verdict) ==
    reminder' = [reminder EXCEPT ![r] = IF @ = "queued" THEN verdict ELSE @]

\* skipNoTarget, one transaction.
SkipNoTarget(w, j, reply) ==
    /\ stage[w][j] = "noTarget"
    /\ IF row[j] = "open"
       THEN /\ row' = [row EXCEPT ![j] = "done"]
            /\ Decide(ReminderOf(j), "skipped")
       ELSE UNCHANGED <<row, reminder>>
    /\ Settle(w, j, reply)
    /\ Replied(reply)
    /\ UNCHANGED <<due, tokens, attempts, runAt, lock, lockedBy, credit,
                   deliveryVars, tickVars, loopVars, readsUp>>

\* recordWorkerSends: one deliveries row per target of the attempt.
RecordSends(w, j) ==
    sentTo' = [sentTo EXCEPT ![ReminderOf(j)] = @ \cup (to[w][j] \ failed[w][j])]

\* complete, one transaction.
Complete(w, j, reply) ==
    /\ stage[w][j] = "answered"
    /\ failed[w][j] = {}
    /\ reminder[ReminderOf(j)] # "gone"
    /\ RecordSends(w, j)
    /\ row' = [row EXCEPT ![j] = IF @ = "open" THEN "done" ELSE @]
    /\ Decide(ReminderOf(j), "sent")
    /\ Settle(w, j, reply)
    /\ Replied(reply)
    /\ UNCHANGED <<due, tokens, attempts, runAt, lock, lockedBy, credit, failures,
                   tickVars, loopVars, readsUp>>

\* Mutant: the ceiling is compared with the count before the increment.
RetriesAtCeiling(j) == attempts[j] < MaxAttempts

\* Mutant: the first failure is the last.
NeverRetries(j) == FALSE

\* decideFailure over the live count: whether the failure is retried.
Retries(j) == attempts[j] + 1 < MaxAttempts

\* Mutant: a worker whose job was reclaimed counts from what it read before
\* the failure of the other was recorded.
CountedAtClaim(w, j) == IF lockedBy[j] = w THEN attempts[j] + 1 ELSE attempts[j]

\* attempts, read under FOR UPDATE and incremented.
Counted(w, j) == attempts[j] + 1

\* retryOrDeadLetter, one transaction.  The rows of the attempt are written
\* whatever the job row says; locked_at is cleared whoever holds the lock.
RetryOrDeadLetter(w, j, reply) ==
    /\ stage[w][j] = "answered"
    /\ failed[w][j] # {}
    /\ reminder[ReminderOf(j)] # "gone"
    /\ RecordSends(w, j)
    /\ failures' = [failures EXCEPT ![ReminderOf(j)] = @ + 1]
    /\ IF row[j] # "open"
       THEN UNCHANGED <<reminder, row, attempts, runAt, lock, credit>>
       ELSE /\ attempts' = [attempts EXCEPT ![j] = Counted(w, j)]
            /\ IF Retries(j)
               THEN /\ runAt' = [runAt EXCEPT ![j] = "later"]
                    /\ lock' = [lock EXCEPT ![j] = "free"]
                    /\ credit' = [credit EXCEPT ![j] = @ + 1]
                    /\ UNCHANGED <<reminder, row>>
               ELSE /\ row' = [row EXCEPT ![j] = "dead"]
                    /\ Decide(ReminderOf(j), "failed")
                    /\ UNCHANGED <<runAt, lock, credit>>
    /\ Settle(w, j, reply)
    /\ Replied(reply)
    /\ UNCHANGED <<due, tokens, lockedBy, tickVars, loopVars, readsUp>>

\* A recording transaction that rolls back: the database failed, or the
\* deliveries insert met a reminder a re-seed has deleted.
RecordFails(w, j) ==
    /\ stage[w][j] \in {"noTarget", "answered"}
    /\ IF stage[w][j] = "answered" /\ reminder[ReminderOf(j)] = "gone"
       THEN UNCHANGED faults ELSE Fault
    /\ Settle(w, j, "rejected")
    /\ UNCHANGED <<reminderVars, tokens, jobVars, deliveryVars, tickVars,
                   loopVars, readsUp>>

\* Mutant: the attempts are started and not awaited.
BatchStarted(w) == phase[w] = "batch"

\* Promise.allSettled over the batch.
BatchSettled(w) ==
    phase[w] = "batch" /\ \A j \in Jobs : stage[w][j] \notin InFlight

\* Back to the top, remembering nothing of the batch
\* but (as history) the jobs it left to the lease.
EndBatch(w) ==
    /\ BatchSettled(w)
    /\ \A j \in Jobs : stage[w][j] # "rejected"
    /\ phase' = [phase EXCEPT ![w] = "top"]
    /\ stage' = [stage EXCEPT ![w] =
          [j \in Jobs |-> IF @[j] = "recorded" THEN "none" ELSE @[j]]]
    /\ UNCHANGED <<reminderVars, tokens, jobVars, deliveryVars, tickVars, to,
                   failed, fresh, stop, tripped, faultVars>>

\* A job could not be recorded: the batch has settled, the error is thrown.
ThrowBatch(w) ==
    /\ BatchSettled(w)
    /\ \E j \in Jobs : stage[w][j] = "rejected"
    /\ Exit(w)
    /\ UNCHANGED <<reminderVars, tokens, row, attempts, runAt, lock, credit,
                   deliveryVars, tickVars, faultVars>>

-----------------------------------------------------------------------------
(* The other writers of these tables, and time.                            *)

\* PUT /me/push-token: a token belongs to the last user that registered it.
Register(r, t) ==
    /\ r \notin Seeded
    /\ tokens' = [x \in Reminders |-> IF x = r THEN tokens[x] \cup {t} ELSE tokens[x] \ {t}]
    /\ UNCHANGED <<reminderVars, jobVars, deliveryVars, tickVars, attemptVars,
                   loopVars, faultVars>>

\* DELETE /me/push-token, or a pruned registration.
Unregister(r, t) ==
    /\ t \in tokens[r]
    /\ tokens' = [tokens EXCEPT ![r] = @ \ {t}]
    /\ UNCHANGED <<reminderVars, jobVars, deliveryVars, tickVars, attemptVars,
                   loopVars, faultVars>>

\* deleteSeededPopulation: the fixture reminders, their deliveries (by the
\* cascade) and their jobs go in one transaction.
Reseed ==
    LET swept == {j \in Jobs : ReminderOf(j) \in Seeded /\ row[j] # "none"}
    IN  /\ \E r \in Seeded : reminder[r] # "gone"
        /\ reminder' = [r \in Reminders |-> IF r \in Seeded THEN "gone" ELSE reminder[r]]
        /\ sentTo' = [r \in Reminders |-> IF r \in Seeded THEN {} ELSE sentTo[r]]
        /\ failures' = [r \in Reminders |-> IF r \in Seeded THEN 0 ELSE failures[r]]
        /\ row' = [j \in Jobs |-> IF j \in swept THEN "deleted" ELSE row[j]]
        /\ attempts' = [j \in Jobs |-> IF j \in swept THEN 0 ELSE attempts[j]]
        /\ runAt' = [j \in Jobs |-> IF j \in swept THEN "due" ELSE runAt[j]]
        /\ lock' = [j \in Jobs |-> IF j \in swept THEN "free" ELSE lock[j]]
        /\ lockedBy' = [j \in Jobs |-> IF j \in swept THEN Nobody ELSE lockedBy[j]]
        /\ credit' = [j \in Jobs |-> IF j \in swept THEN 0 ELSE credit[j]]
        /\ UNCHANGED <<due, tokens, tickVars, attemptVars, loopVars, faultVars>>

\* The wall clock passes a reminder's scheduled_at.
ScheduledTimeArrives(r) ==
    /\ r \notin due
    /\ due' = due \cup {r}
    /\ UNCHANGED <<reminder, tokens, jobVars, deliveryVars, tickVars, attemptVars,
                   loopVars, faultVars>>

\* now() passes run_at.
BackoffElapses(j) ==
    /\ runAt[j] = "later"
    /\ runAt' = [runAt EXCEPT ![j] = "due"]
    /\ UNCHANGED <<reminderVars, tokens, row, attempts, lock, lockedBy, credit,
                   deliveryVars, tickVars, attemptVars, loopVars, faultVars>>

\* locked_at falls behind now() - lease on an open job.
LockAges(j) ==
    /\ row[j] = "open"
    /\ lock[j] = "live"
    /\ lock' = [lock EXCEPT ![j] = "stale"]
    /\ credit' = [credit EXCEPT ![j] = @ + 1]
    /\ fresh' = [w \in Workers |-> IF w = lockedBy[j] THEN fresh[w] \ {j} ELSE fresh[w]]
    /\ UNCHANGED <<reminderVars, tokens, row, attempts, runAt, lockedBy,
                   deliveryVars, tickVars, stage, to, failed, loopVars, faultVars>>

\* A claim whose lock has meanwhile been taken from it gets older too.
ClaimAges(w, j) ==
    /\ row[j] = "open"
    /\ j \in fresh[w]
    /\ ~(lock[j] = "live" /\ lockedBy[j] = w)
    /\ fresh' = [fresh EXCEPT ![w] = @ \ {j}]
    /\ UNCHANGED <<reminderVars, tokens, jobVars, deliveryVars, tickVars, stage,
                   to, failed, loopVars, faultVars>>

\* The database (or the replica) the cards are read from goes away.
ReadsGoDown ==
    /\ readsUp
    /\ Fault
    /\ readsUp' = FALSE
    /\ UNCHANGED <<reminderVars, tokens, jobVars, deliveryVars, tickVars,
                   attemptVars, loopVars>>

ReadsComeBack ==
    /\ ~readsUp
    /\ readsUp' = TRUE
    /\ UNCHANGED <<reminderVars, tokens, jobVars, deliveryVars, tickVars,
                   attemptVars, loopVars, faults>>

-----------------------------------------------------------------------------
Tick(s) == TickMaterialize(s) \/ TickReadDue(s) \/ TickEnqueue(s)

Record(w, j) ==
    \E reply \in Replies :
        SkipNoTarget(w, j, reply) \/ Complete(w, j, reply) \/ RetryOrDeadLetter(w, j, reply)

Attempt(w, j) ==
    \/ ReadCards(w, j) \/ ReadFails(w, j) \/ InputFails(w, j)
    \/ SendsAnswered(w, j)
    \/ Record(w, j) \/ RecordFails(w, j)

Loop(w) ==
    \/ Start(w) \/ StopAtTop(w) \/ Probe(w) \/ GoClaim(w) \/ ClaimNothing(w)
    \/ \E S \in SUBSET Jobs : Claim(w, S)
    \/ Load(w) \/ EndBatch(w) \/ ThrowBatch(w)

Interference ==
    \/ \E s \in Schedulers : TickDies(s)
    \/ \E w \in Workers : Crash(w) \/ Signal(w)
    \/ \E r \in Reminders, t \in Tokens : Register(r, t) \/ Unregister(r, t)
    \/ Reseed
    \/ ReadsGoDown

Time ==
    \/ \E r \in Reminders : ScheduledTimeArrives(r)
    \/ \E j \in Jobs : BackoffElapses(j) \/ LockAges(j)
    \/ \E w \in Workers, j \in Jobs : ClaimAges(w, j)
    \/ ReadsComeBack

Next ==
    \/ \E s \in Schedulers : Tick(s)
    \/ \E w \in Workers : Loop(w)
    \/ \E w \in Workers, j \in Jobs : Attempt(w, j)
    \/ Interference
    \/ Time

Spec == Init /\ [][Next]_vars

\* What the processes are trusted to do in the end: schedulers tick, a dead
\* worker is started again, every await returns, time passes, an outage
\* ends; and, the claim being ordered by run_at, a job that is claimable
\* again and again is claimed.
Fairness ==
    /\ \A s \in Schedulers : WF_vars(Tick(s))
    /\ \A w \in Workers : WF_vars(Loop(w))
    /\ \A w \in Workers, j \in Jobs : WF_vars(Attempt(w, j))
    /\ \A j \in Jobs :
          /\ SF_vars(\E w \in Workers, S \in SUBSET Jobs : j \in S /\ Claim(w, S))
          /\ WF_vars(BackoffElapses(j))
          /\ WF_vars(LockAges(j))
    /\ WF_vars(ReadsComeBack)

FairSpec == Spec /\ Fairness

-----------------------------------------------------------------------------
(* Properties.                                                             *)

\* Every variable keeps the type its column or local variable has.
TypeOK ==
    /\ reminder \in [Reminders -> ReminderStates]
    /\ due \subseteq Reminders
    /\ tokens \in [Reminders -> SUBSET Tokens]
    /\ row \in [Jobs -> RowStates]
    /\ attempts \in [Jobs -> 0..MaxAttempts]
    /\ runAt \in [Jobs -> {"due", "later"}]
    /\ lock \in [Jobs -> {"free", "live", "stale"}]
    /\ lockedBy \in [Jobs -> Workers \cup {Nobody}]
    /\ credit \in [Jobs -> Int]
    /\ sentTo \in [Reminders -> SUBSET Targets]
    /\ failures \in [Reminders -> Nat]
    /\ tick \in [Schedulers -> TickStates]
    /\ held \in [Schedulers -> SUBSET Reminders]
    /\ phase \in [Workers -> Phases]
    /\ stop \in [Workers -> BOOLEAN]
    /\ tripped \in [Workers -> BOOLEAN]
    /\ stage \in [Workers -> [Jobs -> Stages]]
    /\ to \in [Workers -> [Jobs -> SUBSET Targets]]
    /\ failed \in [Workers -> [Jobs -> SUBSET Targets]]
    /\ fresh \in [Workers -> SUBSET Jobs]
    /\ readsUp \in BOOLEAN
    /\ faults \in 0..MaxFaults

\* The reminder and its job never disagree, whichever worker recorded what:
\* a reminder is queued exactly while it has one open job, has a done job
\* exactly when it was sent or skipped, and a dead one exactly when it
\* failed; no reminder is ever given a second job.
JobsAgree ==
    \A r \in Reminders :
        LET job == row[<<r, 1>>]
        IN  /\ row[<<r, 2>>] = "none"
            /\ reminder[r] \in {"absent", "pending"} => job = "none"
            /\ reminder[r] = "queued" <=> job = "open"
            /\ reminder[r] \in {"sent", "skipped"} <=> job = "done"
            /\ reminder[r] = "failed" <=> job = "dead"
            /\ job = "deleted" => reminder[r] = "gone"

\* The ceiling holds however stale workers and retries interleave: an open
\* job is never left with attempts at the ceiling, where no failure would
\* retry it, and a job is dead exactly when its attempts reached it.
CeilingHolds ==
    \A j \in Jobs : IF row[j] = "dead" THEN attempts[j] = MaxAttempts
                                       ELSE attempts[j] < MaxAttempts

\* attempts counts each recorded failure of an open job once: no update is
\* lost when two workers fail the same reclaimed job, and neither a reclaim
\* nor a worker's death is counted.
AttemptsAreFailures ==
    \A r \in Reminders : reminder[r] \in {"queued", "failed"} =>
        LET counted == attempts[<<r, 1>>]
        IN  IF reminder[r] = "queued" THEN failures[r] = counted ELSE failures[r] >= counted

\* A verdict has the deliveries rows it was decided from, in the database.
VerdictsHaveEvidence ==
    \A r \in Reminders :
        /\ reminder[r] = "sent" => sentTo[r] # {}
        /\ reminder[r] = "failed" => failures[r] >= MaxAttempts

\* A job is sent again only for a cause: the claims of a job never exceed
\* one for its enqueue, one per recorded failure and one per expired lease.
\* (credit is those causes minus the claims.)
ClaimsAccountedFor ==
    \A j \in Jobs :
        /\ credit[j] >= 0
        /\ row[j] = "open" /\ lock[j] # "live" => credit[j] >= 1

\* Two workers attempt one job within their leases only after a failure of
\* it was recorded: until then the lock keeps every other worker away.
SharedOnlyAfterFailure ==
    \A v, w \in Workers : \A j \in fresh[v] \cap fresh[w] :
        v # w /\ row[j] = "open" => attempts[j] > 0

\* A worker back at its loop's top holds no open job it has not skipped on
\* purpose: allSettled leaves nothing claimed, unsent and unrecorded, so a
\* graceful stop strands nothing but skips.
NoJobForgotten ==
    \A w \in Workers : \A j \in Jobs :
        /\ row[j] = "open"
        /\ lock[j] # "free"
        /\ lockedBy[j] = w
        => \/ stage[w][j] \in {"skipped", "unread"}
           \/ phase[w] \in {"claimed", "batch"} /\ stage[w][j] \in InFlight \cup {"rejected"}

\* A worker whose reads fail locks one batch and no more: what it skipped
\* unread fits in one batch, and it is probing as long as it holds any.
BreakerHoldsOneBatch ==
    \A w \in Workers :
        LET unread == {j \in Jobs : stage[w][j] = "unread"}
        IN  /\ Cardinality(unread) <= BatchSize
            /\ unread # {} => tripped[w]

\* The simulated null target is the fixtures' alone: no ordinary reminder
\* is recorded as sent to nobody, whenever its user's tokens went away.
OrdinaryNeverSimulated ==
    \A r \in Reminders \ Seeded : NoToken \notin sentTo[r]

\* A verdict is final: only the re-seed that deletes the row changes it.
VerdictIsFinal ==
    [][\A r \in Reminders : reminder[r] \in Verdicts => reminder'[r] \in {reminder[r], "gone"}]_vars

\* No worker takes a job from another whose claim is within its lease
\* ("How old a lock has to be before another worker's claim takes the row").
LeaseHonoured ==
    \A v, w \in Workers : v # w => fresh[v] \cap fresh[w] = {}

\* A due reminder gets its verdict, through crashes, failed sends, lost
\* records and outages, unless its own input cannot be read.
DueReminderSettles ==
    \A r \in Reminders \ Unreadable :
        (reminder[r] = "pending" /\ r \in due /\ (SeededOnly => r \in Seeded))
            ~> reminder[r] \in Verdicts \cup {"gone"}

\* A shutdown request is honoured: the process exits, whatever its batch
\* and its breaker are doing.
StopIsHonoured == \A w \in Workers : stop[w] ~> phase[w] = "down"

\* The queue of reminders implements the life one reminder is promised.
Lifecycle == INSTANCE ReminderLifecycle WITH
    state <- reminder,
    failures <- [r \in Reminders |-> attempts[<<r, 1>>]]

ImplementsLifecycle == Lifecycle!Spec
=============================================================================
