------------------------------ MODULE RowLocks ------------------------------
(***************************************************************************)
(* The row locks of the transactions, statement by statement: who can wait *)
(* for whom when a re-seed, the enqueue statement, the workers' recordings,*)
(* a sign-out and the receipt pollers run at once.  The other modules take *)
(* each of these transactions as one action; here is why they may, and     *)
(* which of them Postgres may have to abort as a deadlock.                 *)
(*                                                                         *)
(* A transaction is the list of row locks its statements ask for.  Its     *)
(* changes show when it commits; a predicate is evaluated when the lock is *)
(* granted (READ COMMITTED evaluates it again after a wait).  There is one *)
(* push token, and the receipts of pushes to it.                           *)
(***************************************************************************)
EXTENDS Integers, Sequences, FiniteSets

CONSTANTS
    Reminders,      \* the fixture reminders of the population being replaced
    OrdinaryUsers,  \* ordinary users, whose local day is materialised
    Receipts,       \* pending receipts of pushes to the token
    Workers,        \* worker processes; two may hold one reclaimed job
    Schedulers,     \* enqueue schedulers
    Phones,         \* API requests that delete or register the token
    ReceiptPollers, \* receipt pollers
    Seed,           \* the one seed process
    Nothing         \* what a transaction over many rows is about

ASSUME FiniteAssumption ==
    IsFiniteSet(Reminders) /\ IsFiniteSet(OrdinaryUsers) /\ IsFiniteSet(Receipts)

VARIABLES
    days,           \* the ordinary users that have a reminder for their local day
    reminder,       \* committed reminders.state, or "gone"
    job,            \* committed jobs row: "none", open, done or "gone"
    token,          \* whether the push_tokens row exists
    linked,         \* receipts whose push_token_id is not null
    doing,          \* per process: its transaction, and the row it is about
    plan,           \* per process: the locks its statements still ask for
    held,           \* per process: the locks it has been granted
    sees            \* the jobs the seed's sweep finds in its snapshot

lockVars == <<days, reminder, job, token, linked, doing, plan, held, sees>>

Idle == <<"idle", Nothing>>

Processes == Workers \cup Schedulers \cup Phones \cup ReceiptPollers \cup {Seed}

\* FOR KEY SHARE (a foreign key's check), what an UPDATE of no key column
\* takes, and FOR UPDATE or DELETE.
Modes == {"keyShare", "noKeyUpdate", "update"}

Conflicting(m, n) ==
    \/ "update" \in {m, n}
    \/ m = "noKeyUpdate" /\ n = "noKeyUpdate"

Ask(table, id, mode) == [table |-> table, id |-> id, mode |-> mode]

\* The lists that name every element of S once: as many places as elements.
Orders(S) == {o \in [1..Cardinality(S) -> S] : \A x \in S : \E i \in DOMAIN o : o[i] = x}

AskAll(table, order, mode) == [i \in DOMAIN order |-> Ask(table, order[i], mode)]

LocksInit ==
    /\ days = {}
    /\ \E seeded \in SUBSET Reminders :
          reminder = [r \in Reminders |-> IF r \in seeded THEN "pending" ELSE "gone"]
    /\ job = [r \in Reminders |-> "none"]
    /\ token = TRUE
    /\ linked = Receipts
    /\ doing = [p \in Processes |-> Idle]
    /\ plan = [p \in Processes |-> <<>>]
    /\ held = [p \in Processes |-> {}]
    /\ sees = {}

-----------------------------------------------------------------------------
(* The transactions.                                                       *)

\* complete: the job, the reminder through the deliveries foreign key, the
\* token (Expo only), and the reminder again for its state.
CompletePlan(r) ==
    << Ask("job", r, "update"), Ask("reminder", r, "keyShare"),
       Ask("token", 1, "keyShare"), Ask("reminder", r, "noKeyUpdate") >>

\* retryOrDeadLetter that retries, or that finds the job done.
RetryPlan(r) ==
    << Ask("job", r, "update"), Ask("reminder", r, "keyShare"), Ask("token", 1, "keyShare") >>

\* Mutant: the reminder is moved before the job is looked at.
SkipReminderFirst(r) == << Ask("reminder", r, "noKeyUpdate"), Ask("job", r, "update") >>

\* skipNoTarget.
SkipPlan(r) == << Ask("job", r, "update"), Ask("reminder", r, "noKeyUpdate") >>

\* removeForUser: the delete, then its SET NULL on every receipt.
RemovePlan(order) == << Ask("token", 1, "update") >> \o AskAll("receipt", order, "noKeyUpdate")

\* finish that prunes: the token before its receipt, then the delete's
\* SET NULL on the others.
PrunePlan(d, order) ==
    << Ask("token", 1, "update"), Ask("receipt", d, "noKeyUpdate") >>
       \o AskAll("receipt", order, "noKeyUpdate")

FinishPlan(d) == << Ask("receipt", d, "noKeyUpdate") >>

\* materializeOrdinary: one key of the unique index after the other.  A key
\* another transaction has inserted and not committed is waited for.
MaterializePlan(order) == AskAll("day", order, "update")

Begin(p, what, steps) ==
    /\ doing[p] = Idle
    /\ doing' = [doing EXCEPT ![p] = what]
    /\ plan' = [plan EXCEPT ![p] = steps]
    /\ UNCHANGED <<days, reminder, job, token, linked, held>>

\* A worker records an attempt of a job it has claimed, however long ago.
Record(w, r) ==
    /\ job[r] # "none"
    /\ \/ Begin(w, <<"complete", r>>, CompletePlan(r))
       \/ Begin(w, <<"retry", r>>, RetryPlan(r))
       \/ Begin(w, <<"complete", r>>, SkipPlan(r))
    /\ UNCHANGED sees

\* The users in the order the scan meets them.
Materialize(s) ==
    /\ \E o \in Orders(OrdinaryUsers \ days) :
          Begin(s, <<"materialize", Nothing>>, MaterializePlan(o))
    /\ UNCHANGED sees

\* enqueue: one UPDATE over the ids the tick read, in no order it chose.
Enqueue(s) ==
    LET pending == {r \in Reminders : reminder[r] = "pending"}
    IN  /\ pending # {}
        /\ \E o \in Orders(pending) :
              Begin(s, <<"enqueue", Nothing>>, AskAll("reminder", o, "noKeyUpdate"))
        /\ UNCHANGED sees

\* deleteSeededPopulation begins: the ids are captured, then DELETE FROM
\* users cascades to the reminders in the order it meets them.
SeedCascade ==
    LET rows == {r \in Reminders : reminder[r] # "gone"}
    IN  /\ rows # {}
        /\ \E o \in Orders(rows) :
              Begin(Seed, <<"cascade", Nothing>>, AskAll("reminder", o, "update"))
        /\ sees' = {r \in rows : job[r] # "none"}

SignOut(f) ==
    /\ \E o \in Orders(Receipts) : Begin(f, <<"remove", Nothing>>, RemovePlan(o))
    /\ UNCHANGED sees

\* registerForUser over an existing row, or anew.
RegisterToken(f) ==
    /\ Begin(f, <<"register", Nothing>>, << Ask("token", 1, "noKeyUpdate") >>)
    /\ UNCHANGED sees

PollerFinishes(q, d) ==
    /\ \/ /\ d \in linked
          /\ \E o \in Orders(Receipts \ {d}) : Begin(q, <<"prune", d>>, PrunePlan(d, o))
       \/ Begin(q, <<"finish", d>>, FinishPlan(d))
    /\ UNCHANGED sees

-----------------------------------------------------------------------------
(* Locks.                                                                  *)

Next1(p) == Head(plan[p])

\* Mutant: the enqueue moves the ids the tick read, whatever their state.
StillThere(a) == reminder[a.id] # "gone"

\* AND state = 'pending', of the enqueue.
StillPending(a) == reminder[a.id] = "pending"

\* Whether the row is there and the statement's predicate selects it.
Selects(p, a) ==
    CASE a.table = "job" -> job[a.id] \in {"open", "done"}
      [] a.table = "token" -> token
      [] a.table = "day" -> a.id \notin days
      [] a.table = "receipt" ->
            a.id \in linked \/ (doing[p][1] \in {"prune", "finish"} /\ doing[p][2] = a.id)
      [] a.table = "reminder" ->
            CASE doing[p][1] = "enqueue" -> StillPending(a)
              [] doing[p][1] # "enqueue" /\ a.mode = "noKeyUpdate" -> reminder[a.id] = "queued"
              [] OTHER -> reminder[a.id] # "gone"

\* Whom p's next statement waits for.
WaitsFor(p) ==
    IF plan[p] = <<>> \/ ~Selects(p, Next1(p)) THEN {}
    ELSE {q \in Processes \ {p} : \E h \in held[q] :
             /\ h.table = Next1(p).table
             /\ h.id = Next1(p).id
             /\ Conflicting(h.mode, Next1(p).mode)}

\* The delivery of a reminder that is gone violates its foreign key.
Violates(p) ==
    Next1(p).table = "reminder" /\ Next1(p).mode = "keyShare" /\ ~Selects(p, Next1(p))

\* The next statement gets its lock, or selects no row.
Lock(p) ==
    /\ plan[p] # <<>>
    /\ WaitsFor(p) = {}
    /\ ~Violates(p)
    /\ held' = [held EXCEPT ![p] =
          IF Selects(p, Next1(p)) THEN @ \cup {Next1(p)} ELSE @]
    /\ plan' = [plan EXCEPT ![p] = Tail(@)]
    /\ UNCHANGED <<days, reminder, job, token, linked, doing, sees>>

\* Mutant: the jobs to delete are listed before the cascade has waited.
SweepListedFirst == sees

\* The sweep is a statement of its own: it sees what committed meanwhile.
SweepSees == {r \in Reminders : job[r] \in {"open", "done"}}

\* The cascade has every reminder; now the jobs of the captured ids.
SeedSweep ==
    /\ doing[Seed][1] = "cascade"
    /\ plan[Seed] = <<>>
    /\ sees' = SweepSees
    /\ \E o \in Orders(SweepSees) : plan' = [plan EXCEPT ![Seed] = AskAll("job", o, "update")]
    /\ doing' = [doing EXCEPT ![Seed] = <<"sweep", Nothing>>]
    /\ UNCHANGED <<days, reminder, job, token, linked, held>>

Holds(p, table, mode) == {h.id : h \in {g \in held[p] : g.table = table /\ g.mode = mode}}

Over(p) ==
    /\ doing' = [doing EXCEPT ![p] = Idle]
    /\ plan' = [plan EXCEPT ![p] = <<>>]
    /\ held' = [held EXCEPT ![p] = {}]

\* Every statement has run.
Commit(p) ==
    /\ doing[p][1] \notin {"idle", "cascade"}
    /\ plan[p] = <<>>
    /\ LET what == doing[p][1]
           moved == Holds(p, "reminder", "noKeyUpdate")
       IN  /\ reminder' = [r \in Reminders |->
                 CASE what = "enqueue" /\ r \in moved -> "queued"
                   [] what = "complete" /\ r \in moved -> "decided"
                   [] what = "sweep" /\ r \in Holds(p, "reminder", "update") -> "gone"
                   [] OTHER -> reminder[r]]
           /\ job' = [r \in Reminders |->
                 CASE what = "enqueue" /\ r \in moved -> "open"
                   [] what = "complete" /\ r \in Holds(p, "job", "update") -> "done"
                   [] what = "sweep" /\ r \in sees /\ r \in Holds(p, "job", "update") -> "gone"
                   [] OTHER -> job[r]]
           /\ days' = days \cup Holds(p, "day", "update")
           /\ token' = IF what = "register" THEN TRUE
                        ELSE token /\ what # "remove" /\ ~(what = "prune" /\ doing[p][2] \in linked)
           /\ linked' = IF token' THEN linked ELSE {}
    /\ Over(p)
    /\ sees' = IF p = Seed THEN {} ELSE sees

\* The sets of transactions each of which waits for another of the set.
Deadlocks ==
    LET waits == [p \in Processes |-> WaitsFor(p)]
        waiting == {p \in Processes : waits[p] # {}}
    IN  {S \in SUBSET waiting : S # {} /\ \A p \in S : waits[p] \cap S # {}}

\* Postgres ends a deadlock by aborting one, or the statement fails: the
\* transaction leaves nothing behind.
Abort(p) ==
    /\ plan[p] # <<>>
    /\ Violates(p) \/ (WaitsFor(p) # {} /\ p \in UNION Deadlocks)
    /\ Over(p)
    /\ sees' = IF p = Seed THEN {} ELSE sees
    /\ UNCHANGED <<days, reminder, job, token, linked>>

LocksNext ==
    \/ \E w \in Workers, r \in Reminders : Record(w, r)
    \/ \E s \in Schedulers : Materialize(s) \/ Enqueue(s)
    \/ SeedCascade
    \/ SeedSweep
    \/ \E f \in Phones : SignOut(f) \/ RegisterToken(f)
    \/ \E q \in ReceiptPollers, d \in Receipts : PollerFinishes(q, d)
    \/ \E p \in Processes : Lock(p) \/ Commit(p) \/ Abort(p)

LocksSpec == LocksInit /\ [][LocksNext]_lockVars

-----------------------------------------------------------------------------
(* Properties.                                                             *)

\* The transactions a deadlock can be made of: workers, pollers, sign-outs and
\* one scheduler never wait in a cycle ("Postgres never has to abort one of
\* them"); only a re-seed, or two enqueues over the same reminders, can.
CyclesNeedTheSeed ==
    \A S \in Deadlocks : Seed \in S \/ \E s, t \in S \cap Schedulers : s # t

\* A re-seed beside a scheduler and workers strands no job: no open or done
\* job is left whose reminder is gone, whichever of them waited for whom.
NoOrphanJobs ==
    \A r \in Reminders : reminder[r] = "gone" => job[r] \in {"none", "gone"}

\* Interleaved, every transaction is one step over what is committed when it
\* commits, or no step: an enqueue moves every reminder that is pending then, a
\* worker's record the job and its reminder or neither, a re-seed everything,
\* whatever each of them read before it waited.
Atomic == INSTANCE RowTransactions

ImplementsTransactions == Atomic!Spec
=============================================================================
