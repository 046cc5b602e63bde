# Verification of peak-fanout

TLA+ models of the reminder fan-out, of the services around it and of the
mobile app's registration and session code; TLC runs that check them on small
instances; and proofs, checked by TLAPS, of the properties that matter most for
every instance. Paths are relative to the repository root. The code is the
reference, not `design.md`; where the two disagree there is a finding below.

- [The system](#the-system)
- [Modules and code](#modules-and-code)
- [Runs](#runs)
- [Fairness](#fairness)
- [What is proved](#what-is-proved)
- [What the code and its documents disagree on](#what-the-code-and-its-documents-disagree-on)
- [Abstractions and bounds](#abstractions-and-bounds)
- [Not modelled](#not-modelled)
- [Plan](#plan)

## The system

One Postgres database is shared by all processes of the back end. Nothing else
is shared: every interaction between schedulers, workers, pollers, the seed,
the API and the load harness is a row one of them writes and another reads.

| Component | State it keeps | Operations | Hard part |
| --- | --- | --- | --- |
| Enqueue scheduler (`apps/api/src/scheduler/enqueue.ts`, `reminders-drizzle.ts`) | `reminders` | materialise the local day, read the due ids, queue them and insert their jobs | several schedulers; the ids are stale when they are queued |
| Job table (`worker/jobs-drizzle.ts`) | `jobs`, `deliveries`, `reminders.state` | claim with a lease, load tokens, skip, complete, retry or dead-letter | reclaimed leases; two workers record one job; a reply is lost after the commit |
| Worker loop (`worker/loop.ts`, `worker/index.ts`) | batch in memory, card breaker, shutdown flag | claim, read cards, send, record, probe, stop | one attempt of a batch throws; stop while the breaker is open; kill at any point |
| Reminder days (`reminders-drizzle.ts`, `timezone-links.ts`, `packages/db/src/time.ts`, `PUT /me/reminder`) | `users.reminder_time`, `users.timezone`, `reminders` | change the settings, materialise the local day, select, enqueue | two conversions of one zone; skipped and repeated times; a user who moves between zones around midnight |
| Cards cache (`cards/cache.ts`, `cards/service.ts`, `cards/pick.ts`) | entries, LRU order, loads in flight | get, load settles, load fails | stale-while-revalidate, single flight, eviction under concurrent reads |
| Push sink (`push/sink.ts`, `simulated.ts`, `expo.ts`) | none | send | its answers only |
| Push receipts (`push/receipts*.ts`, `record-receipts-drizzle.ts`) | `push_receipts` | record a ticket, claim, ask, finish, prune | lease outrun while Expo is asked; the token was registered again since |
| Push tokens (`push-tokens-drizzle.ts`) | `push_tokens` | register (insert, renew, take over), remove | races with receipts and sends |
| Naive scheduler (`scheduler/tick.ts`, `runner.ts`) | `inFlight` flag, the running tick | tick, send, record | a timer that fires during a tick; failure between the send and its row |
| Seed (`packages/db/src/seed.ts`, `seed-plan.ts`) | the fixture population | plan it, replace it in one transaction | runs beside schedulers and workers; the peak must be exact across zones |
| Measured run (`load/m1.ts`, `load/restart.ts`) | advisory lock, API-load pool, poll results | lock, sweep, insert, poll, kill a worker, judge, clean up | reconnecting lock handle; pid reuse; the killed worker may hold nothing |
| Mobile lane (`apps/mobile/src/lib/push-token.ts`, `concurrency.ts`, `auth-callback.ts`, `sign-in.ts`) | session, remembered token, FIFO lane | register, sign out, follow a link, reconcile | steps abandoned at their bound that resume later; requests that land late |
| Session storage (`lib/large-secure-store.ts`) | an AES key in one store, the ciphertext in another, creations of a key in flight | write, read, remove | two stores and no transaction; overlapping writes; the app killed between two steps |
| Callback screen (`app/auth/callback.tsx`) | the link handled last, its error | open a link | an older link settles under a newer one |
| Me card, session provider (`app/(tabs)/index.tsx`, `hooks/use-session.tsx`) | attempt slot, query cache | press, load | the user changes under a running attempt |
| API (`apps/api/src/app.ts`, `auth.ts`, `users-drizzle.ts`) | `users` | session, me, reminder, push token, cards, queue | none of its own: one statement or two per request |

What makes each correct, in a sentence: a reminder is queued once and decided
once, by evidence that is in the database, and every due reminder is decided;
a cache never hands out older cards than before and loads a date once; a
receipt is decided once, by the newest claim, and removes only the
registration it was sent to; a user gets one reminder for each local day, at
the time the clocks of the zone show, and it is sent; transactions wait for each other without cycles
except where the seed is one of them; an account that is no longer signed in
keeps no registration of the installation but for a reason that can be named; the two stores of a session behave as one register; a measured run deletes only what is its own and is judged clean
only if it measured what it says.

The hazards, each at its line with the properties that watch it, are listed in
`PROJECT.json`.

## Modules and code

**ReminderLifecycle** is the abstract specification: the life of one reminder
without jobs, workers, locks or clocks. `JobQueue` implements it with
`state <- reminder` and `failures <- attempts of the reminder's job`
(`ImplementsLifecycle`).

**JobQueue** is the core. One action per committed statement or transaction;
whatever a process holds between two of them is a variable of that process and
may be stale.

| TLA+ | Code |
| --- | --- |
| `TickMaterialize`, `TickReadDue`, `TickEnqueue`, `TickDies` | `enqueueTick` and the statements it calls; a scheduler killed between them |
| `Claim`, `ClaimNothing`, `Load` | `claim`: the `FOR UPDATE SKIP LOCKED` statement, then the select of reminders and tokens |
| `ReadCards`, `ReadFails`, `InputFails`, `SendsAnswered` | the attempt of one job in `loop.ts`, up to the answers of its sends |
| `SkipNoTarget`, `Complete`, `RetryOrDeadLetter`, `RecordFails` | the recording transactions; `reply` is whether their answer arrives |
| `Start`, `StopAtTop`, `Probe`, `GoClaim`, `EndBatch`, `ThrowBatch` | the control flow of `runWorkerLoop` |
| `Crash`, `Signal`, `Reseed`, `Register`, `Unregister`, `ReadsGoDown` | the surroundings |
| `ScheduledTimeArrives`, `BackoffElapses`, `LockAges`, `ClaimAges`, `ReadsComeBack` | time |
| `row`, `attempts`, `runAt`, `lock`, `lockedBy` | `jobs.state`, `attempts`, `run_at` against now, the age of `locked_at` against the lease, `locked_by` |
| `stage`, `to`, `failed`, `fresh`, `phase`, `stop`, `tripped` | the worker's batch: where each attempt is, its targets, the refused ones, which claims are within their lease; the loop; the two flags |
| `credit`, `failures`, `sentTo` | causes for a claim not yet used; the `failed` and `sent` rows of `deliveries` |

**CardsCache**: `createSwrCache` and the load of `createCardsService`, a get
and the settling of a load being one callback each, the two statements of the
load being two actions with writers of `expressions` between them. **CardPick** is the
pick of `pick.ts`: the positions a date reads, with JavaScript's remainder.

**Receipts**: the recording of a ticket, the claim of due receipts, the
decision of `receipts.ts` and the fenced transaction of `receipts-drizzle.ts`,
with registrations moving meanwhile. `receipt[d].link` is `push_token_id`,
`claim[p][d]` what a poller holds of its batch, with the `attempts` value that
is its fence.

**ReminderDays**: ordinary users, the local days they go through, and the
enqueue tick that turns each into one row. `TickReadsClock`,
`MaterializeOrdinary`, `DueReminderIds` and `Enqueue` are the steps of a tick,
`PutReminder` is `PUT /me/reminder`, `Send` stands for the worker. The
conversion of the statement is there whole: the alias looked up in
`TIMEZONE_LINKS` (`NamedTimezone`), an offset name turned into an interval
(`UtcOffset`), and `AT TIME ZONE` there and back.

**LocalTime**: `time.ts` and PostgreSQL's `AT TIME ZONE` over a zone whose
offset changes once. **SeedPlan**: `seed-plan.ts`, which avoids the peak with
the first, and the materialised instants, which come from the second.

**SessionRegister** is the abstract specification of the session store: one
register, changed only when a write or a removal takes effect. **SecureStore**
is `LargeSecureStore` with one action per await: `loadOrCreateKey` and the
creations it shares (`pending`), the write and the removal of ciphertext and
key, and a kill at any point. It implements the register, what is stored being
the ciphertext's session while its key is there (`StoredOf`).

**RowTransactions** is the abstract specification of the transactions: each is
one step over the rows as they are at its commit, the form the other modules
give it. **RowLocks** has the same transactions lock by lock (`FOR KEY SHARE`,
`FOR NO KEY UPDATE`, `FOR UPDATE`, and the unique key of a user's day), with the
snapshot the seed's sweep works from, and implements the first
(`ImplementsTransactions`; the rows have the same names in both). That is what
entitles the other modules to take a transaction as one action. It also settles
the deadlock comments in the code and in `README.md:394`.
**RowLocksInvariants** has the definitions its proofs need: how far a
transaction is through its list of locks, what it can hold there and what it
may not have passed over.

**DeviceSession**: one installation and the rows the API keeps for it. A job is
a press, a link or a reconcile; `lane` is `sessionLane`, `links` the callback's
own chain, `slot` the attempt of the Me card, `screen` what the callback screen
shows. A link that `parseAuthCallback` refuses waits for nothing
(`OpenRefusedLink`): its error is on the screen at once, whatever an earlier
link is at. A bounded step that times out
leaves its request under way (`req = "sent"`) and, if it waited for a session
read, a continuation that may still resume (`at = "late"`).

**NaiveScheduler**: the tick of `SCHEDULER_MODE=naive` under
`createNonOverlappingTick`, one send and one recording at a time.

**MeasuredRun**: `withApiLoadPool`, the phases of a run in `m1.ts`, the choice
and the kill of a worker in `restart.ts`, and the verdict of the log; `phase`
is the statement or wait the run is at.

The `MC*` modules give the constants names and symmetry sets. Definitions
marked `Mutant` are changed forms of the definition that follows them, the kind
of slip a change to the code could make; each property is broken by one of
them, so that none is satisfied by the shape of the model.

## Runs

All with two workers of TLC; sizes are distinct states.

| Run | Question | Instance | States |
| --- | --- | --- | --- |
| `queue_race` | Do stale workers, lost replies and crashes keep reminder, job and deliveries in agreement, and is the lifecycle implemented? | 2 workers, 1 scheduler, 1 ordinary reminder, 1 token, 2 attempts, 2 faults | 156,074 |
| `queue_batch` | Do two schedulers, a re-seed, a batch with an unreadable fixture and the breaker strand anything? | 1 worker, 2 schedulers, a fixture and an ordinary reminder, batch of 1, 1 fault | 872,460 |
| `queue_live` | Is every due reminder decided and every stop honoured? | 1 worker, 1 scheduler, 1 ordinary reminder, 1 token, 2 attempts, 3 faults | 9,126 |
| `queue_lease` | Is a claim within its lease always respected? (No: see the finding.) | as `queue_race`, no fault | violated |
| `cards_cache` | LRU, single flight, monotonic reads | 2 readers, 2 dates, 1 entry, 3 names for loads, clock to 3, 2 edits; the pick over tables of up to 8 rows | 16,019 |
| `receipts_race` | Who decides a receipt, what may it prune, and does every receipt end? | 2 pollers, 2 users, 1 delivery, 1 token, clock to 3, 2 attempts, 2 faults | 105,416 |
| `reminder_days` | One reminder a day, at the right time, and sent, for users who move? | 1 user, 2 schedulers, 3 settings, days of 4 hours, clock from 4 to 10, 1 change, 1 fault | 201,642 |
| `row_locks` | Which transactions can deadlock; does a re-seed strand jobs; is each transaction one step? | two casts: 2 workers on one job, scheduler, seed, phone, 2 pollers, 2 receipts; and 2 schedulers, worker, seed, 2 reminders, 2 ordinary users | 670,458 |
| `device_session` | Does the lane keep registrations, remembered token and screens right, and what can hold it? | 2 accounts, 2 tokens, 3 jobs, 1 fault | 1,010,724 |
| `session_store` | Are the two stores one register? | 3 calls, 2 sessions, 5 keys, kills and refusals anywhere | 21,003 |
| `naive_tick` | First record decides; no resend without a fault; every due reminder tried | 2 reminders, up to 2 tokens each, 2 faults | 296,327 |
| `measured_run` | Does a run sweep only its own, judge truly, and end? | 2 runs (one a restart run), 2 workers, 2 jobs, 2 faults | 251,602 |

Why these bounds. A race over one job needs two workers and one reminder; two
attempts make the first failure a retry and the second a dead letter, so both
sides of the ceiling occur; two faults allow a lost record after a crash. The
liveness run has one worker, which takes over its own stale leases once it is
restarted, and three faults, so that a crash, an outage and a shutdown request
can meet. A batch of one with two reminders makes the breaker hold a batch
while more jobs wait. One cache entry and two dates force evictions; a third
name for a load is one more than single flight needs, so that a second load of
a date would have somewhere to go. Two receipts of one token are what lets one
poller's prune unlink the other's row (`row_locks`); who decides a receipt is
settled per delivery, so one is enough in `receipts_race`. A cycle among
enqueues or materialisers needs two schedulers and two rows in two orders; the
second cast has them, and both cycles do occur. Two jobs of the lane give every
pair of operations in every order; the third brings a late request of the first
under a second switch of accounts. Days of four hours are long enough for zones
two hours apart to be on different dates and for a change of offset to skip or
repeat times around midnight; the three settings are an offset zone, an alias
whose zone skips the very time that is set, at midnight, and a name that
repeats two hours over midnight. Three calls let a removal run beside a write
and the call that waits for it or reads; with five keys every call, the key
store and the ciphertext can each have its own. `MaxFaults` bounds what the
surroundings do, never what the program does; every process may take all its
own steps any number of times. `MaxClock` and `MaxVersion` bound registrations,
the clock and edits.

`MCReminderDays` and `MCCardsCache` also evaluate named assumptions, as
reference checks of pure functions: `ConversionsChecked` (`time.ts` and
PostgreSQL against what the clocks of 200 zones show), `PlanChecked`
(`seed-plan.ts` over pairs of zones, peak times and grids) and `PickChecked`.

`CHECK_DEADLOCK FALSE` stands in the configurations where everything may be
over: all receipts decided and no registration left to make, all jobs of the
lane spent, all runs ended.

## Fairness

- `JobQueue!Fairness`: schedulers tick and workers run (an interval and a loop;
  a dead process is started again, which is what the deployment does); every
  await of an attempt returns, since each statement and send has a timeout or
  an error; backoffs and leases elapse; an outage of the card reads ends. A job
  claimable again and again is claimed (`SF`): the claim is ordered by `run_at`
  and a batch is bounded, so no job is overtaken for ever. Nothing is assumed
  of signals, kills or re-seeds except that they are bounded.
- `Receipts`: the same for pollers, the claim being ordered by
  `next_check_at`; outrun leases are bounded, or two pollers could overtake
  each other for ever.
- `ReminderDays`: time passes, a scheduler's timer fires and a started
  statement ends (a failed one is bounded by `MaxFaults`), and what is queued
  is sent (`JobQueue` shows under what).
- `DeviceSession` has none. Nothing is assumed to answer, so that the lane
  always moves on is not claimed: `OnlyUnboundedCallsHold` says that with
  nothing answered the app or one of its timers can move the step at the head
  of the lane exactly when that step is not at one of three calls under no
  bound: the code exchange, the sign-out of the Me card, the sign-out of an
  undo. At those the lane stays until the call answers, as the finding on
  `concurrency.ts` below says.
- `NaiveScheduler`: `setInterval` keeps firing, the sink and the database
  answer (an error is an answer).
- `MeasuredRun`: a run takes its own steps, all of whose waits have deadlines,
  and the database answers what they ask of it; nothing is assumed of fleet,
  scheduler or API.

## What is proved

Each proof module proves its theorems of `Spec`, for every value of the
constants that satisfies the named assumptions of its module: names that must
differ do, bounds are numbers, configuration is what the code accepts at
start, and where something is counted or listed (the reminders of `JobQueue`
and `RowLocks`, the jobs of `MeasuredRun`, the processes and ticks of
`NaiveScheduler`, the users and receipts of `RowLocks`) there are finitely many,
as there are of rows and processes.

| Module | Theorem | Statement | Also run in |
| --- | --- | --- | --- |
| `JobQueueProofs` | `TypeCorrect` | `Spec => []TypeOK` | |
| | `CeilingAlwaysHolds` | `Spec => []CeilingHolds` | `queue_race` |
| | `JobsAlwaysAgree` | `Spec => []JobsAgree` | `queue_batch` |
| | `VerdictsAreFinal` | `Spec => VerdictIsFinal` | `queue_race` |
| | `ClaimsAlwaysAccountedFor` | `Spec => []ClaimsAccountedFor` | `queue_race` |
| | `AttemptsAlwaysFailures` | `Spec => []AttemptsAreFailures` | `queue_race` |
| | `VerdictsAlwaysHaveEvidence` | `Spec => []VerdictsHaveEvidence` | `queue_race` |
| | `OrdinaryAlwaysReal` | `Spec => []OrdinaryNeverSimulated` | `queue_race` |
| | `AlwaysSharedAfterFailure` | `Spec => []SharedOnlyAfterFailure` | `queue_race` |
| | `NeverForgotten` | `Spec => []NoJobForgotten` | `queue_batch` |
| | `BreakerAlwaysHoldsOne` | `Spec => []BreakerHoldsOneBatch` | `queue_batch` |
| | `QueueImplementsLifecycle` | `Spec => ImplementsLifecycle` | `queue_race` |
| `ReceiptsProofs` | `TypeCorrect` | `Spec => []TypeOK` | |
| | `LinksAlwaysExist` | `Spec => []LinksExist` | |
| | `TerminalStaysFinal` | `Spec => TerminalIsFinal` | `receipts_race` |
| | `AlwaysPrunesTheSent` | `Spec => PrunesOnlyTheSent` | `receipts_race` |
| | `NewestAlwaysDecides` | `Spec => NewestClaimDecides` | `receipts_race` |
| | `CyclesAlwaysNeedTheSeed` | `LocksSpec => []CyclesNeedTheSeed` | `row_locks` |
| | `NoJobOrphaned` | `LocksSpec => []NoOrphanJobs` | `row_locks` |
| | `TransactionsAreAtomic` | `LocksSpec => ImplementsTransactions` | `row_locks` |
| | `CommitsAreWhole` | a commit is the one step of its own transaction, done whole | |
| `CardsCacheProofs` | `TypeCorrect` | `Spec => []TypeOK` | |
| | `CacheAlwaysBounded` | `Spec => []CacheBounded` | `cards_cache` |
| | `AlwaysOneLoad` | `Spec => []OneLoadPerDate` | `cards_cache` |
| | `CardsNeverGoBack` | `Spec => NeverGoesBack` | `cards_cache` |
| | `PickIsAlwaysASet`, `PickAlwaysGoesOn`, `EveryCardAlwaysComes` | the pick of a day and of days in a row, for every date and table | (`PickChecked`) |
| `SecureStoreProofs` | `TypeCorrect` | `Spec => []TypeOK` | |
| | `CreationAlwaysShared` | `Spec => []CreationIsShared` | `session_store` |
| | `StoreImplementsRegister` | `Spec => ImplementsRegister` | `session_store` |
| `ReminderDaysProofs` | `TypeCorrect` | `Spec => []TypeOK` | |
| | `AlwaysOnItsDay` | `Spec => []FallsOnItsDay` | `reminder_days` |
| | `AlwaysOnceADay` | `Spec => []EachDayOnce` | `reminder_days` |
| | `ConversionsAgree`, `ConversionsRead` | the two conversions, for every zone, wall clock and day length | (`ConversionsChecked`) |
| | `PeakIsThePlans` | the peak instant is the peak segment's, for every population, zone and grid | (`PlanChecked`) |
| | `PeakAlwaysExact` | every user is in one segment and exactly `PeakUserCount` reminders are at the peak | (`PlanChecked`) |
| `DeviceSessionProofs` | `TypeCorrect` | `Spec => []TypeOK` | |
| | `NeverARowLeftBehind` | `Spec => []NoRowLeftBehind` | `device_session` |
| | `LinkAlwaysUndoesItself` | `Spec => []LinkUndoesItself` | `device_session` |
| | `ScreensAlwaysFollow` | `Spec => []ScreensFollowLatest` | `device_session` |
| | `OnlyPutsReplace` | `Spec => OnlyAPutReplaces` | `device_session` |
| | `PutsAlwaysInTheLane` | `Spec => PutsStayInTheLane` | `device_session` |
| | `LaneListsEachOnce` | `Spec => []LaneListsSteps` | |
| | `OnlyUnboundedHeadsStay` | the guards of `OnlyUnboundedCallsHold`, of the lane's head | (`OnlyUnboundedCallsHold`) |
| `NaiveSchedulerProofs` | `TypeCorrect` | `Spec => [](TypeOK /\ OneTick)` | |
| | `FirstRecordAlwaysDecides` | `Spec => []FirstRecordDecides` | `naive_tick` |
| | `SendsAlwaysAccountedFor` | `Spec => []SendsAccountedFor` | `naive_tick` |
| `MeasuredRunProofs` | `TypeCorrect` | `Spec => []TypeOK` | |
| | `CleanAlwaysMeasured` | `Spec => []CleanRunMeasured` | `measured_run` |
| | `AlwaysSweepsItsOwn` | `Spec => SweepsItsOwn` | `measured_run` |

**The queue** climbs a chain of inductive invariants:

1. `TypeInv == TypeOK /\ CeilingHolds`. `attempts` stays within `0..MaxAttempts`
   only because an open job is below the ceiling, so neither conjunct is
   inductive alone.
2. `AgreeInv` adds `JobsAgree` and that no attempt is ever made at the second
   row a reminder could be given (`OneRow`), so that whatever a stale worker
   records lands on the one job `JobsAgree` speaks of. `TableSteps` and
   `StageSteps` say which actions touch the tables and the attempts, so that the
   step proofs are about those alone.
3. `CreditInv` adds `ClaimsAccountedFor`: a free or expired lock has a cause
   left to be used.
4. `CountInv` adds `AttemptsAreFailures` and that nobody attempts a reminder
   that has no job.
5. `LifeInv` adds that only an ordinary user is ever found without a target;
   with it every step of the queue is a step of `ReminderLifecycle` or a
   stutter (`StepImplements`).
6. `EvidenceInv` stands on `CountInv`: an attempt that got as far as its sends
   loaded some target (`TargetsLoaded`), so completing it leaves a row; the
   failed rows of a dead job are the ceiling because `attempts` counts them.
7. `FreshInv` stands on `AgreeInv`: a claim within its lease on a job nobody
   has failed yet holds that job's lock (`FreshHolds`), so two of them would be
   the same worker's. Sharing therefore takes a recorded failure, which is what
   clears another's lock.
8. `HeldInv`: a lock of an open job in a worker's name is matched by an attempt
   that worker still has, or by one it set aside on purpose (`HoldsForAReason`),
   hence nothing is forgotten at the top of the loop.
9. `BatchInv` counts: the jobs a worker has in flight or unread are at most one
   batch, because only a claim adds to them and a worker claims with its breaker
   closed and nothing unread.

**The receipts** need to know that the identifier of a registration is given
once: whatever row has the identifier a message was sent to is that
registration (`RegistrationIds`, `SentIds`), and a receipt links to it or to
nothing (`ReceiptsOfSent`). Two claims of one delivery have different fences
and none is ahead of the receipt's (`ClaimsDistinct`, `ClaimsOfReceipts`); that
the newest decides follows from the comparison in the finishing statement.

**The cache**: first that a load which runs is the one its date shares, and the
other way round (`LoadInv`), hence one per date. Then `AgeInv`: a load past its
first statement has seen what is at least as new as the entry it will replace
and as anything served for its date. Were there two loads of a date, the older
could end last; that is why the second invariant needs the first. Evictions
matter to neither. The bound on the map is a third argument (`BoundInv`): the
order of the map names every entry exactly once, so deleting a key takes one
place out of it and its oldest end is always an entry to evict. The pick rests on one lemma, that JavaScript's remainder, taken
twice as the code does, is the one in `0..n-1` (`RemainderTwice`). That every card comes is division twice: the
distance from a day's first position to a row, divided by the cards of a day, is
the number of days to wait.

**The session store**: a key on its way to the key store replaces none and has
encrypted nothing (`FreshKey`), at most one creation is in flight and every
waiting write awaits it (`OneCreation`, `WaitersFollow`), and while a removal
runs no call counts as undisturbed (`RemovalsDisturb`). With these each step of
the store maps to one of the register or to a stutter. The register promises
little of a removal that runs beside other calls, because the code keeps
little: a write it overlaps may store a ciphertext whose key the removal then
deletes, which nobody can read.

**The days**: `FallsOnItsDay` follows from the arithmetic of `LocalTime`;
`EachDayOnce` is not inductive until a reminder that is not sent yet is known
to bring the cards of its own date when it is (`CardsAreTheDays`).

**The seed's plan**: the peak is exact if every assigned local time occurs once
on the target date (`AssignedTimesOccurOnce`). The header of `time.ts` says that
it does, and that where a time is skipped or repeated the module and PostgreSQL
choose different instants. That the count is exact too needs the recursive
functions of the plan, the segments' first indices and the counts they add up.
The library's induction takes an operator, so the proof goes by least elements
instead (`LeastOf`): of the places where a closed form could fail there is a
first one, and the step before it contradicts that. `CountsFromTheBase` gives
the closed form of the counts, and `FirstIndices` shows that a function with the
closed form solves the recursion, without which nothing would be known of the
recursive definition. Segments then lie one behind the other
(`SegmentsInOrder`), each index is in one of them (`OneSegment`), and the turn
of a user in its segment names one local time (`RanksAreTaken`).

**The row locks**: `LocksInv` says of each kind of transaction what it may hold
when a given rest of its list is left, and that no two processes hold
conflicting locks of one row. From it, for any cycle without the seed and with
one scheduler at most (`NoOtherCycles`): the scheduler is not in it, since what
it asks for only another scheduler or the seed holds against it, a worker that
still waits having `FOR KEY SHARE` of a reminder at most; nobody waits for a
receipt, since whoever could be waited for has the token, or found it gone and
the receipts unlinked; for the same reason as with the scheduler nobody waits
for a reminder; then nobody for the token, whose holder would wait for one of
these, nor for a job, whose holder is past its own. `SweepInv` adds that the
seed holds every reminder there is before it lists jobs, that a row stays as
its predicate found it while it is locked, and that the list is exactly the
jobs there are; so none is opened or missed between the cascade and the sweep's
commit. The theorems stand beside those of `Receipts`, whose `finish` is one
action because of these locks; `RowLocks` has a specification of its own,
`LocksSpec`.

**Transactions as single steps**: a statement chooses its rows from a snapshot,
waits for some of them, and works on what it finds when it has them. That this
comes to one step at the commit needs two facts in addition to `SweepInv`: a
reminder and its job agree between any two commits (`RowsAgree`), and whatever a
transaction would have to change, were it to commit now, it has locked or is
still to lock, although others have committed since it read (`NothingMissed`,
over `Needs`). The second is inductive because what a transaction needs only
shrinks while it runs: nothing makes a reminder pending again, a job is opened
once, and a day once there stays. `CommitsAreWhole` then says more than the
refinement, which commits that change nothing would satisfy too.

**The device**: `DeviceInv` is mostly about the lane: only the job at its head
has begun its step, links wait in order so that only the first of them is past
its exchange, and what a job carries (an account, a token, the account before)
fits its place. The types need it too, as settling a link takes the `Tail` of
the chain. `RowsInv` adds the accounts: a token some account owns is owned by
the one signed in, is about to be cleared by a step that is signed by the
account that leaves, or is excused for a reason named; a step about to end a
session has seen to its rows (`LeaversSee`), an undo only where its link found
the same account signed in; an arriving PUT is of the step that
signed it or it excuses its token. `ScreenFollows` ties the callback screen to
the link it shows, which waits, runs or has failed. `LaneInv` adds that the lane lists exactly
the jobs that wait for their step or are at it, each once (`LaneListsSteps`),
and where each kind of job can be (`AllPlaced`); so the head is at a place the
app or a timer takes it on from (`MovesUnanswered`), or in `Unbounded`.

**The naive scheduler**: `TickInv` has one tick per process, and a budget: a
send that may still begin again has begun at most once for each fault, and a
push that went out has its row, is in hand, or met a fault.

**The measured run**: `RunInv` ties the advisory lock to the handle that holds
it, and a verdict to its window. The restart's part is that a job on record
left the chosen worker only by its death (`RecordIsOfTheChosen`,
`DeadHoldWhatTheyStranded`), however often its pid is used again.

Only model-checked: all liveness (`DueReminderSettles`, `StopIsHonoured`,
`ReceiptSettles`, `DueReminderIsTried`, `EveryRunEnds`, `TodayIsKept`) and
`OnlyUnboundedCallsHold`, which is about `ENABLED`, all beyond the prover;
`OnlyUnboundedHeadsStay` proves of the latter what can be said without
`ENABLED`. No module uses a recursive operator.

## What the code and its documents disagree on

`apps/api/src/worker/loop.ts:45` says of `leaseMs` "How old a lock has to be
before another worker's claim takes the row." `retryOrDeadLetter`
(`worker/jobs-drizzle.ts:198`) clears `locked_at` of any open job, whoever holds
it: when worker A's lease runs out, B reclaims the job and A then records its
failure, B's live lock is gone and, once the backoff is over, a third claim
takes the job while B is still sending. `queue_lease` finds the sequence. The
consequence is one more duplicate push; `AttemptsAreFailures`,
`ClaimsAccountedFor` and `SharedOnlyAfterFailure` say what holds in spite of it.

`apps/mobile/src/lib/concurrency.ts:12-13` says "A job that never settles would
hold the lane forever, so every job that waits on the network runs under
`withTimeout`." Three calls that ask Supabase run in the lane under no bound:
`exchangeCode` (`auth-callback.ts:112`), `signOutLocal` of an undo (`:126`) and
`signOut` of the Me card (`:224`). While one of them does not answer, every
registration, sign-out and link behind it waits. `design.md:61` and
`design.md:112` say so of the exchange and of the sign-out of the Me card, so it is the
comment that is wrong. `OnlyUnboundedCallsHold` shows that it is these three
calls and no other.

The undo of a failed upsert can leave a row that no document names. A link
signs `b` in on a device where nobody or another account was; while its
`POST /auth/session` is under way, the Me card of `b` loads (which makes the
`users` row), the button is pressed and the `PUT` is applied. The `POST` then
fails. The undo makes no clear, because `previous` is absent or its clear was
attempted already (`auth-callback.ts:123`), and signs `b` out; `b`'s row stays and
the phone goes on getting `b`'s reminders. TLC finds the sequence, in 16 steps,
when the exception `Unclaimed` is dropped from `UndoLeaves`. `design.md` says that
the app clears "a kept previous-account registration when applicable", which is
what the code does, so this is no disagreement but an exception to
`NoRowLeftBehind`, listed with the others below.

The comment at `auth-callback.ts:149` says that `completeSignIn` "signs out when
either of its steps fails". A refused exchange signs nobody out
(`LinkRefused`), as `design.md` says.

One hazard is left without a property because the code does not exclude it: a
measured run whose lock connection drops while it waits for the first delivery
does not notice before its next use of the handle, and a second run may take
the lock and share the fan-out (`load/m1.ts:626`).

## Abstractions and bounds

- Time is abstract everywhere: due or later, younger or older than a lease,
  with time passing as an action. Backoff lengths, jitter and intervals vanish.
- `JobQueue`: each reminder stands for a user with one reminder; `ORDER BY` is
  dropped, so a claim may take any claimable set up to the batch size (more
  behaviours than the code has); the answers to the sends of one attempt arrive
  together; a worker that exited is `Nobody` in `lockedBy`, as its id is never
  used again; the prober's own cached result is not kept apart from the state of
  the reads.
- `CardsCache`: the table is its version, 0 being empty. A value is the pair of
  versions its two statements saw.
- `CardPick` has no behaviour of its own: it keeps no state.
- `ReminderDays`: an hour is one unit; what becomes of a queued reminder is
  `Send`. A zone that PostgreSQL cannot read fails the statement for every
  user, and the tick with it; that the table lists every alias PostgreSQL does
  not know is assumed (`ConvertedBy` is never `Nothing`). A time that a zone
  skips over midnight falls on the next date; its reminder still has its own
  local date.
- `SecureStore`: one storage key, since two share nothing. A ciphertext opens
  under its key or gives something unreadable; counters are left out.
- `Receipts`: a registration is its row; `id` and `created_at` come from one
  clock. At most one token in the runs.
- `RowLocks`: one token. The locks of the claim are not there, since `SKIP
  LOCKED` waits for nobody; a prune whose version check fails takes a prefix of
  the locks that are modelled. Rows are taken in any order where the statement
  names none, which is more than one plan of PostgreSQL does. `MCRowLocks` lets
  one cast act in a behaviour, so that the two instances share a run.
- `DeviceSession`: AsyncStorage answers in call order, so a write is in effect
  when issued; the upsert of the session and the first read after it are one
  action; the body of the PUT's answer is read when it is confirmed. The
  Me screen's copy of the remembered token is left out.
  A row an account leaves behind is `excused` only at an action that gives the
  reason:
  - a clear was lost, refused or abandoned (`ClearEnds`, `SignOutGivesUpClear`,
    `Kill`), or does not name the row, since nothing is remembered, the storage
    read failed or Expo has given another token since (`ClearSends`);
  - a `PUT` was applied after its step had been abandoned (`PutArrives`);
  - the session expired (`SessionExpires`), or the read of it failed or came too
    late for a sign-out or a link (`SignOutGivesUpClear`, `LinkMissesPrevious`);
  - the undo of a failed upsert signs out an account that registered since its
    link signed it in, and that it makes no clear for (`Unclaimed`).

  A new Expo token is taken where one is read (`Mints`), since nobody else sees
  it; a reconcile is a step only while nothing is remembered, since with a token
  remembered it answers that token and changes nothing.
- `NaiveScheduler`: which tokens a user has is chosen at the start.
- `MeasuredRun`: the pool is inserted and deleted whole, so one row stands for
  it; no send fails and a live worker never outruns its lease (`JobQueue` has
  both); the refusals before the lock (host name, flags, parsing) and the
  replica counters are left out.

`TypeOK` of every module with behaviours is proved (`RowLocks` has `LockTypes`
in `RowLocksInvariants`, part of the invariant proved there); the runs spend
their time on the other properties.

## Not modelled

`seed-guard.ts`, formatting and parsing, wire formats, the percentiles of
`metrics.ts` and the layout of the run log; the draws of the simulated sink,
whose answers are a choice in the models; read-only endpoints (queue snapshot,
deliveries, cards of the day); screens other than the Me card and the callback;
the EXPLAIN and M4 experiments; static pages and configuration. Nothing in them
is kept between two steps, or nothing is decided by it. Liveness of the
measured fleet is not stated, since nothing in the harness depends on it.

## Plan

Done, in this order: `ReminderLifecycle`, `JobQueue` and its proofs,
`CardsCache`, `Receipts`, `RowLocks`, `DeviceSession`, `NaiveScheduler`,
`MeasuredRun`; then `SecureStore` over `SessionRegister`, `LocalTime`,
`ReminderDays`, `SeedPlan`, `CardPick`, and the proofs of `Receipts`,
`CardsCache` and the new modules; then the proofs of every remaining safety
property of `JobQueue` and `CardsCache`, and of `MeasuredRun`, `NaiveScheduler`,
`DeviceSession` and `RowLocks`; then `RowTransactions` with the refinement, the
exact peak, the lane as a queue and the round of the cards. The proofs of
`LocalTime`, `SeedPlan` and `ReminderDays` share a module, as do those of
`Receipts` and `RowLocks`.

Next, modules: a composition of `Receipts` with the sends of `JobQueue`, so that
the registration a ticket is recorded for is the one the worker loaded.
