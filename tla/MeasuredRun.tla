---------------------------- MODULE MeasuredRun ----------------------------
(***************************************************************************)
(* The load harness: measured runs that take the run lock of one database, *)
(* own the API-load pool while they hold it, watch the peak's fan-out and, *)
(* in a restart run, kill one worker in the middle of it.                  *)
(*                                                                         *)
(* A statement, an exchange with the API and a read of a process are one   *)
(* step each; between two of them the lock's connection may drop, another  *)
(* harness may start, and the fleet goes on.  The pool is inserted and     *)
(* deleted whole, so one users row stands for it.  The fleet is what the   *)
(* harness can see of it (JobQueue has the rest): no send fails, and a     *)
(* lease runs out only on a worker that is dead.                           *)
(***************************************************************************)
EXTENDS Integers, FiniteSets

CONSTANTS
    Runs,           \* harness processes, one measured run each
    RestartRuns,    \* those with LOAD_WORKER_RESTART=1
    Workers,        \* worker processes, each with its pid
    Jobs,           \* the peak's reminders, with the job each is given
    Nobody,         \* no row, no lock, no claim, no choice
    MaxFaults       \* bound: dropped connections, kills, deaths, sign-ups

ASSUME RunsAssumption == RestartRuns \subseteq Runs
ASSUME NamesAssumption ==
    /\ {Nobody, "ordinary"} \cap Runs = {}
    /\ Nobody \notin Workers \cup {"ordinary"}
ASSUME JobsAssumption == IsFiniteSet(Jobs)
ASSUME BoundAssumption == MaxFaults \in Nat

VARIABLES
    \* The database and the fleet.
    row,            \* users at the pool's addresses: a run's, "ordinary" or none
    lock,           \* whose backend holds the advisory lock
    job,            \* "pending", "open" or "done", with its reminder
    by,             \* jobs.locked_by
    process,        \* what runs at each worker's pid
    stranded,       \* history: the jobs each worker held when it died
    \* Each run.
    phase,          \* what the run is about to do
    handle,         \* its reserved connection: none, its lock's, a new one
    last,           \* the attempts its last poll read
    chosen,         \* the worker its restart procedure picked
    held,           \* the jobs its last reading found with that worker
    closed,         \* the jobs done when its window closed
    met,            \* whether the verdict of its log is met
    code,           \* "none" while it runs, then its exit: "clean" or "failed"
    faults

tables == <<row, lock>>
fleet == <<job, by, process, stranded>>
window == <<last, chosen, held, closed>>
vars == <<tables, fleet, phase, handle, window, met, code, faults>>

Phases == {"start", "checking", "sweeping", "inserting", "probing", "posting",
           "waiting", "polling", "choosing", "inspecting", "rereading", "killing",
           "deciding", "reporting", "cleaning", "unlocking", "ended"}

Init ==
    /\ row = Nobody /\ lock = Nobody
    /\ job = [j \in Jobs |-> "pending"]
    /\ by = [j \in Jobs |-> Nobody]
    /\ process = [w \in Workers |-> "worker"]
    /\ stranded = [w \in Workers |-> {}]
    /\ phase = [h \in Runs |-> "start"]
    /\ handle = [h \in Runs |-> "none"]
    /\ last = [h \in Runs |-> -1]
    /\ chosen = [h \in Runs |-> Nobody]
    /\ held = [h \in Runs |-> {}]
    /\ closed = [h \in Runs |-> {}]
    /\ met = [h \in Runs |-> FALSE]
    /\ code = [h \in Runs |-> "none"]
    /\ faults = 0

-----------------------------------------------------------------------------
Done == {j \in Jobs : job[j] = "done"}
Attempts == Cardinality(Done)
OpenClaims(w) == {j \in Jobs : job[j] = "open" /\ by[j] = w}

Alive == {w \in Workers : process[w] = "worker"}

Fault == faults < MaxFaults /\ faults' = faults + 1

At(h, p) == phase[h] = p
Goes(h, p) == phase' = [phase EXCEPT ![h] = p]

\* A throw after the pool may exist reaches withApiLoadPool's cleanup.
Throws(h) == Goes(h, "cleaning") /\ met' = [met EXCEPT ![h] = FALSE]

-----------------------------------------------------------------------------
(* The fleet.                                                              *)

Enqueue ==
    /\ \A j \in Jobs : job[j] = "pending"
    /\ job' = [j \in Jobs |-> "open"]
    /\ UNCHANGED <<tables, by, process, stranded, phase, handle, window, met, code, faults>>

\* A worker between batches claims open jobs that are free or whose lease ran out.
Claim(w) ==
    /\ w \in Alive /\ OpenClaims(w) = {}
    /\ \E S \in SUBSET {j \in Jobs : job[j] = "open"} :
           /\ S # {}
           /\ \A j \in S : by[j] \notin Alive
           /\ by' = [j \in Jobs |-> IF j \in S THEN w ELSE by[j]]
    /\ UNCHANGED <<tables, job, process, stranded, phase, handle, window, met, code, faults>>

Complete(w, j) ==
    /\ w \in Alive
    /\ j \in OpenClaims(w)
    /\ job' = [job EXCEPT ![j] = "done"]
    /\ UNCHANGED <<tables, by, process, stranded, phase, handle, window, met, code, faults>>

Killed(w) ==
    /\ process' = [process EXCEPT ![w] = "none"]
    /\ stranded' = [stranded EXCEPT ![w] = OpenClaims(w)]

Die(w) ==
    /\ w \in Alive
    /\ Killed(w)
    /\ Fault
    /\ UNCHANGED <<tables, job, by, phase, handle, window, met, code>>

\* The machine hands a dead worker's pid to something else.
PidReused(w) ==
    /\ process[w] = "none"
    /\ process' = [process EXCEPT ![w] = "other"]
    /\ Fault
    /\ UNCHANGED <<tables, job, by, stranded, phase, handle, window, met, code>>

-----------------------------------------------------------------------------
(* The run lock and the pool.                                              *)

\* pg_try_advisory_lock: no backend has the key.
LockFree == lock = Nobody

TryLock(h) ==
    /\ At(h, "start")
    /\ IF LockFree
       THEN /\ lock' = h
            /\ handle' = [handle EXCEPT ![h] = "locked"]
            /\ Goes(h, "checking")
            /\ UNCHANGED code
       ELSE /\ Goes(h, "ended")
            /\ code' = [code EXCEPT ![h] = "failed"]
            /\ UNCHANGED <<lock, handle>>
    /\ UNCHANGED <<row, fleet, window, met, faults>>

\* dueAtPeak: every reminder of the peak is due and pending still.
Untouched == \A j \in Jobs : job[j] = "pending"

\* The window has to be the peak alone, with nothing of it sent.
CheckPeak(h) ==
    /\ At(h, "checking")
    /\ IF Untouched THEN Goes(h, "sweeping") ELSE Goes(h, "unlocking")
    /\ UNCHANGED <<tables, fleet, handle, window, met, code, faults>>

\* Mutant: the handle still answers, so the lock is taken to be held.
AnswersWhileHeld(h) == handle[h] # "none"

\* What pg_locks says of the backend that runs the statement.
Held(h) == handle[h] = "locked"

\* sweepWhileHeld: the question and the delete are one statement.
Swept(h) == IF Held(h) /\ row \in Runs THEN Nobody ELSE row

Sweep(h) ==
    /\ At(h, "sweeping")
    /\ row' = Swept(h)
    /\ IF Held(h) THEN Goes(h, "inserting") /\ UNCHANGED met ELSE Throws(h)
    /\ UNCHANGED <<lock, fleet, handle, window, code, faults>>

\* The unique violation that describePoolInsertFailure words.
AddressTaken == row # Nobody

\* The unique index refuses the whole insert when an address is taken.
InsertPool(h) ==
    /\ At(h, "inserting")
    /\ IF AddressTaken
       THEN Throws(h) /\ UNCHANGED row
       ELSE row' = h /\ Goes(h, "probing") /\ UNCHANGED met
    /\ UNCHANGED <<lock, fleet, handle, window, code, faults>>

\* answerWithin: an exchange that fails or meets its bound refuses the run.
Unanswered(h) == Throws(h)

\* verifyPoolThroughApi: GET /me writes nothing.
Probe(h) ==
    /\ At(h, "probing")
    /\ \/ row # Nobody /\ Goes(h, "posting") /\ UNCHANGED met
       \/ Unanswered(h)
    /\ UNCHANGED <<tables, fleet, handle, window, code, faults>>

\* POST /auth/session upserts, and serves the run's own row or is refused.
Post(h) ==
    /\ At(h, "posting")
    /\ row' = IF row = Nobody THEN "ordinary" ELSE row
    /\ \/ row = h /\ Goes(h, "waiting") /\ UNCHANGED met
       \/ Unanswered(h)
    /\ UNCHANGED <<lock, fleet, handle, window, code, faults>>

\* The pool is deleted however the run ends; a failure to is the run's error
\* when it has no other.
CleanUp(h) ==
    /\ At(h, "cleaning")
    /\ row' = Swept(h)
    /\ met' = [met EXCEPT ![h] = @ /\ Held(h)]
    /\ Goes(h, "unlocking")
    /\ UNCHANGED <<lock, fleet, handle, window, code, faults>>

\* pg_advisory_unlock: on a connection that is not the lock's, it releases
\* nothing.
Released(h) == IF Held(h) THEN Nobody ELSE lock

\* process.exit(1) unless the verdict is met and the connections closed.
ExitCode(h, closes) == IF met[h] /\ closes THEN "clean" ELSE "failed"

Unlock(h) ==
    /\ At(h, "unlocking")
    /\ lock' = Released(h)
    /\ handle' = [handle EXCEPT ![h] = "none"]
    /\ \E closes \in BOOLEAN : code' = [code EXCEPT ![h] = ExitCode(h, closes)]
    /\ Goes(h, "ended")
    /\ UNCHANGED <<row, fleet, window, met, faults>>

-----------------------------------------------------------------------------
(* The window.                                                             *)

\* waitForFanoutStart: the first delivery, or the start timeout.
FanoutStarts(h) ==
    /\ At(h, "waiting")
    /\ Attempts > 0
    /\ Goes(h, "polling")
    /\ UNCHANGED <<tables, fleet, handle, window, met, code, faults>>

\* Mutant: a loop without a deadline.
NeverStarted(h) == FALSE
StartTimesOut(h) == At(h, "waiting")

GiveUpStart(h) ==
    /\ StartTimesOut(h)
    /\ Throws(h)
    /\ UNCHANGED <<tables, fleet, handle, window, code, faults>>

\* LOAD_WORKER_RESTART, as the run's configuration has it.
Restarts(h) == h \in RestartRuns

\* The first reading at or past the quarter runs the procedure, once.
Intervenes(h) == Restarts(h) /\ held[h] = {} /\ Attempts * 4 >= Cardinality(Jobs)

\* One reading of progress, the intervention, then the drain check on that
\* reading.  A reading like the last one changes nothing but the stall clock.
Poll(h) ==
    /\ At(h, "polling")
    /\ last[h] # Attempts \/ Intervenes(h)
    /\ last' = [last EXCEPT ![h] = Attempts]
    /\ Goes(h, IF Intervenes(h) THEN "choosing" ELSE "deciding")
    /\ UNCHANGED <<tables, fleet, handle, chosen, held, closed, met, code, faults>>

\* The worker holding the most; none between batches is waited out or given up.
Choose(h) ==
    /\ At(h, "choosing")
    /\ \E w \in Workers :
           /\ OpenClaims(w) # {}
           /\ \A v \in Workers : Cardinality(OpenClaims(v)) <= Cardinality(OpenClaims(w))
           /\ chosen' = [chosen EXCEPT ![h] = w]
    /\ Goes(h, "inspecting")
    /\ UNCHANGED <<tables, fleet, handle, last, held, closed, met, code, faults>>

GiveUpChoice(h) ==
    /\ At(h, "choosing")
    /\ Throws(h)
    /\ UNCHANGED <<tables, fleet, handle, window, code, faults>>

\* ps and lsof: the pid has to be a worker of this checkout.
PassesInspection(w) == process[w] = "worker"

Inspect(h) ==
    /\ At(h, "inspecting")
    /\ IF PassesInspection(chosen[h])
       THEN Goes(h, "rereading") /\ UNCHANGED met
       ELSE Throws(h)
    /\ UNCHANGED <<tables, fleet, handle, window, code, faults>>

\* The restart's record: the jobs the chosen worker held at this reading.
Recorded(h, jobs) == held' = [held EXCEPT ![h] = jobs]

\* The claims once more: the record is this reading.
Reread(h) ==
    /\ At(h, "rereading")
    /\ LET found == OpenClaims(chosen[h]) IN
       IF found = {}
       THEN Goes(h, "choosing") /\ UNCHANGED held
       ELSE Goes(h, "killing") /\ Recorded(h, found)
    /\ UNCHANGED <<tables, fleet, handle, last, chosen, closed, met, code, faults>>

\* SIGKILL goes to whatever has the pid by now; to nothing, it throws.
Kill(h) ==
    /\ At(h, "killing")
    /\ LET w == chosen[h] IN
       CASE process[w] = "worker" -> Killed(w) /\ Goes(h, "deciding") /\ UNCHANGED met
         [] process[w] = "other" -> /\ process' = [process EXCEPT ![w] = "none"]
                                    /\ Goes(h, "deciding")
                                    /\ UNCHANGED <<stranded, met>>
         [] OTHER -> Throws(h) /\ UNCHANGED <<process, stranded>>
    /\ UNCHANGED <<tables, job, by, handle, window, code, faults>>

\* The run is graded on what is done at the close, not on a later read.
CloseWindow(h) == closed' = [closed EXCEPT ![h] = Done]

\* Drained, on the reading that was polled before any kill.
Decide(h) ==
    /\ At(h, "deciding")
    /\ IF last[h] = Cardinality(Jobs)
       THEN Goes(h, "reporting") /\ CloseWindow(h)
       ELSE Goes(h, "polling") /\ UNCHANGED closed
    /\ UNCHANGED <<tables, fleet, handle, last, chosen, held, met, code, faults>>

\* No progress for the stall timeout: the window closes, and the run is logged.
Stall(h) ==
    /\ At(h, "polling")
    /\ last[h] = Attempts
    /\ CloseWindow(h)
    /\ Goes(h, "reporting")
    /\ UNCHANGED <<tables, fleet, handle, last, chosen, held, met, code, faults>>

\* What the held jobs came to: the ones that another worker finished and the
\* ones that are still open at the close.
Stranded(h) == {j \in held[h] : j \notin closed[h] \/ by[j] # chosen[h]}

\* Mutant: the refusal of a kill that stranded nothing is dropped.
ExercisesIfKilled(h) == Restarts(h) => held[h] # {}

\* killStrandedNothingReason: a restart run's log needs one such job.
ExercisedLease(h) == Restarts(h) => Stranded(h) # {}

\* The fan-out as it is recorded up to the close.
AllSent(h) == closed[h] = Jobs

\* The traffic's samples: every GET /me answered, or not every one.  The API
\* answers 404 once the pool is gone.
Served(h, answered) == answered => row = h

\* evaluateVerdict.  pinned: the sender was the pinned one at the pinned cost,
\* and the generator offered its rate.
Verdict(h, answered, pinned) == AllSent(h) /\ answered /\ pinned

\* The log, whatever its verdict.
Report(h) ==
    /\ At(h, "reporting")
    /\ IF ExercisedLease(h)
       THEN \E answered, pinned \in BOOLEAN :
            /\ Served(h, answered)
            /\ met' = [met EXCEPT ![h] = Verdict(h, answered, pinned)]
            /\ Goes(h, "cleaning")
       ELSE Throws(h)
    /\ UNCHANGED <<tables, fleet, handle, window, code, faults>>

-----------------------------------------------------------------------------
(* The surroundings.                                                       *)

\* The reserved connection drops: the lock goes with its backend, and the
\* handle answers from another.
Drop(h) ==
    /\ handle[h] = "locked"
    /\ handle' = [handle EXCEPT ![h] = "reconnected"]
    /\ lock' = Nobody
    /\ Fault
    /\ UNCHANGED <<row, fleet, phase, window, met, code>>

\* The harness is killed outright.
Abort(h) ==
    /\ phase[h] \notin {"start", "ended"}
    /\ Goes(h, "ended")
    /\ lock' = Released(h)
    /\ handle' = [handle EXCEPT ![h] = "none"]
    /\ code' = [code EXCEPT ![h] = "failed"]
    /\ Fault
    /\ UNCHANGED <<row, fleet, window, met>>

\* A login takes an address of the pool first.
SignUp ==
    /\ row = Nobody
    /\ row' = "ordinary"
    /\ Fault
    /\ UNCHANGED <<lock, fleet, phase, handle, window, met, code>>

Own(h) ==
    \/ CheckPeak(h) \/ Sweep(h) \/ InsertPool(h) \/ Probe(h) \/ Post(h)
    \/ FanoutStarts(h) \/ GiveUpStart(h) \/ Poll(h) \/ Choose(h) \/ GiveUpChoice(h)
    \/ Inspect(h) \/ Reread(h) \/ Kill(h) \/ Decide(h) \/ Stall(h) \/ Report(h)
    \/ CleanUp(h) \/ Unlock(h)

Next ==
    \/ Enqueue \/ SignUp
    \/ \E w \in Workers :
           Claim(w) \/ Die(w) \/ PidReused(w) \/ \E j \in Jobs : Complete(w, j)
    \/ \E h \in Runs : TryLock(h) \/ Own(h) \/ Drop(h) \/ Abort(h)

Spec == Init /\ [][Next]_vars

\* A run that started goes on; its waits have bounds.  Nothing is assumed of
\* the fleet, the scheduler or the API.
FairSpec == Spec /\ \A h \in Runs : WF_vars(Own(h))

-----------------------------------------------------------------------------
TypeOK ==
    /\ row \in Runs \cup {"ordinary", Nobody}
    /\ lock \in Runs \cup {Nobody}
    /\ job \in [Jobs -> {"pending", "open", "done"}]
    /\ by \in [Jobs -> Workers \cup {Nobody}]
    /\ process \in [Workers -> {"worker", "other", "none"}]
    /\ stranded \in [Workers -> SUBSET Jobs]
    /\ phase \in [Runs -> Phases]
    /\ handle \in [Runs -> {"none", "locked", "reconnected"}]
    /\ last \in [Runs -> -1..Cardinality(Jobs)]
    /\ chosen \in [Runs -> Workers \cup {Nobody}]
    /\ held \in [Runs -> SUBSET Jobs]
    /\ closed \in [Runs -> SUBSET Jobs]
    /\ met \in [Runs -> BOOLEAN]
    /\ code \in [Runs -> {"none", "clean", "failed"}]
    /\ faults \in 0..MaxFaults

\* A run's pool is deleted by itself, or by the next holder of a lock it has
\* lost, and a row the harness did not insert is never deleted: no sweep of a
\* run whose connection was replaced takes the pool of the run after it.
SweepsItsOwn ==
    [][/\ \A h \in Runs : row = h /\ row' # h /\ lock = h => CleanUp(h)
       /\ row = "ordinary" => row' = "ordinary"]_vars

\* A run that exits clean left no row behind, saw every job of the peak done
\* by its window's close and, with a restart, lost the worker it chose with a
\* job in hand (to its own signal, unless the pid had been used again).
CleanRunMeasured ==
    \A h \in Runs : code[h] = "clean" =>
        /\ row # h
        /\ closed[h] = Jobs
        /\ (Restarts(h) => held[h] \cap stranded[chosen[h]] # {})

\* Every run ends, whatever the fleet, the scheduler and the API do.
EveryRunEnds == \A h \in Runs : phase[h] = "checking" ~> phase[h] = "ended"
=============================================================================
