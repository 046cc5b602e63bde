--------------------------- MODULE NaiveScheduler ---------------------------
(***************************************************************************)
(* SCHEDULER_MODE=naive: a tick that selects the due fixture reminders     *)
(* once and then sends and records them one at a time, under a timer that  *)
(* fires whether or not the last tick is over.  A statement, a transaction *)
(* and a send are one step each; a database error ends the tick that meets *)
(* it, and a restart ends the process between any two steps.               *)
(*                                                                         *)
(* The population is the fixture one.  Which tokens its users have is      *)
(* chosen once; registrations that move under a send are in JobQueue.      *)
(***************************************************************************)
EXTENDS Integers, Sequences, FiniteSets

CONSTANTS
    Reminders,      \* reminders of fixture users
    Tokens,         \* push tokens their users may have
    NoToken,        \* the null target of a user without a token
    Schedulers,     \* scheduler processes in this mode
    Ticks,          \* names for the ticks one process may have running
    Nothing,        \* no tick under this name, no reminder under way
    MaxFaults       \* bound: database errors, restarts and re-seeds

ASSUME FiniteAssumption == IsFiniteSet(Schedulers) /\ IsFiniteSet(Ticks)
ASSUME BoundAssumption == MaxFaults \in Nat

VARIABLES
    \* The database.
    reminder,       \* reminders.state, or "gone" once a re-seed removed the row
    due,            \* reminders whose scheduled_at has passed
    tokens,         \* push_tokens of each reminder's user
    deliveries,     \* the statuses of each reminder's rows, oldest first
    \* Each scheduler process.
    inFlight,       \* createNonOverlappingTick: inFlight
    tick,           \* the ticks under way
    \* The surroundings.
    accepted,       \* history: pushes the sink accepted, per reminder
    refused,        \* history: sends the sink refused, per reminder
    began,          \* history: sends begun per process, reminder and target
    faults

database == <<reminder, due, tokens, deliveries>>
history == <<accepted, refused, began>>
vars == <<database, inFlight, tick, history, faults>>

Targets == Tokens \cup {NoToken}
Statuses == {"sent", "failed"}

\* rest: selected and not yet reached; at, left: the reminder under way and
\* its targets still to send to; target: the one being sent to.
Running == [stage : {"selecting", "next", "sending"} \cup Statuses,
            rest : SUBSET Reminders, at : Reminders \cup {Nothing},
            left : SUBSET Targets]

ASSUME NamesAssumption == NoToken \notin Tokens /\ Nothing \notin Reminders \cup Running

Init ==
    /\ reminder = [r \in Reminders |-> "pending"]
    /\ due = {}
    /\ tokens \in [Reminders -> SUBSET Tokens]
    /\ deliveries = [r \in Reminders |-> <<>>]
    /\ inFlight = [s \in Schedulers |-> FALSE]
    /\ tick = [s \in Schedulers |-> [k \in Ticks |-> Nothing]]
    /\ accepted = [r \in Reminders |-> 0]
    /\ refused = [r \in Reminders |-> 0]
    /\ began = [s \in Schedulers |-> [r \in Reminders |-> [x \in Targets |-> 0]]]
    /\ faults = 0

-----------------------------------------------------------------------------
\* sendTargets: every token, or one null target.
SendTargets(r) == IF tokens[r] = {} THEN {NoToken} ELSE tokens[r]

\* The timer's callback answers SKIPPED instead of starting a second tick.
MayTick(s) == ~inFlight[s]

\* Mutant: the flag is cleared after the await, not in a finally.
ReleasedUnlessThrown(s, threw) == IF threw THEN inFlight ELSE [inFlight EXCEPT ![s] = FALSE]

\* The `finally` of createNonOverlappingTick: also after a tick that threw.
Released(s, threw) == [inFlight EXCEPT ![s] = FALSE]

\* Mutant: the update without state = 'pending'.
DecidedUnguarded(r, status) == status

\* The guarded update of recordAttempt.
Decided(r, status) == IF reminder[r] = "pending" THEN status ELSE reminder[r]

Becomes(s, k, t) == tick' = [tick EXCEPT ![s][k] = t]

Ends(s, k, threw) ==
    /\ Becomes(s, k, Nothing)
    /\ inFlight' = Released(s, threw)

At(s, k, stage) == tick[s][k] # Nothing /\ tick[s][k].stage = stage

Fault == faults < MaxFaults /\ faults' = faults + 1

-----------------------------------------------------------------------------
\* startScheduler's immediate run and every setInterval after it.
Fire(s, k) ==
    /\ MayTick(s)
    /\ tick[s][k] = Nothing
    /\ inFlight' = [inFlight EXCEPT ![s] = TRUE]
    /\ Becomes(s, k, [stage |-> "selecting", rest |-> {}, at |-> Nothing, left |-> {}])
    /\ UNCHANGED <<database, history, faults>>

\* The timer fires while a tick is under way: skipped, not queued.
Skip(s) == ~MayTick(s) /\ UNCHANGED vars

\* dueReminders: one statement, the whole due set.
DueReminders(s, k) ==
    /\ At(s, k, "selecting")
    /\ Becomes(s, k, [tick[s][k] EXCEPT
           !.stage = "next", !.rest = {r \in due : reminder[r] = "pending"}])
    /\ UNCHANGED <<database, inFlight, history, faults>>

\* The two loops: the next target of this reminder, or the next reminder's first.
Send(s, k) ==
    /\ At(s, k, "next")
    /\ LET t == tick[s][k] IN
       \E r \in (IF t.left = {} THEN t.rest ELSE {t.at}) :
       LET targets == IF t.left = {} THEN SendTargets(r) ELSE t.left IN
       \E x \in targets :
           /\ Becomes(s, k, [stage |-> "sending", rest |-> t.rest \ {r},
                             at |-> r, left |-> targets \ {x}])
           /\ began' = [began EXCEPT ![s][r][x] = @ + 1]
    /\ UNCHANGED <<database, inFlight, accepted, refused, faults>>

\* Only the send is caught: either way there is an attempt to record.
Accepted(s, k) ==
    /\ At(s, k, "sending")
    /\ Becomes(s, k, [tick[s][k] EXCEPT !.stage = "sent"])
    /\ accepted' = [accepted EXCEPT ![tick[s][k].at] = @ + 1]
    /\ UNCHANGED <<database, inFlight, refused, began, faults>>

Refused(s, k) ==
    /\ At(s, k, "sending")
    /\ Becomes(s, k, [tick[s][k] EXCEPT !.stage = "failed"])
    /\ refused' = [refused EXCEPT ![tick[s][k].at] = @ + 1]
    /\ UNCHANGED <<database, inFlight, accepted, began, faults>>

\* recordAttempt: the row and the guarded update commit together.
RecordAttempt(s, k) ==
    \E status \in Statuses :
        LET r == tick[s][k].at IN
        /\ At(s, k, status)
        /\ reminder[r] # "gone"
        /\ deliveries' = [deliveries EXCEPT ![r] = Append(@, status)]
        /\ reminder' = [reminder EXCEPT ![r] = Decided(r, status)]
        /\ Becomes(s, k, [tick[s][k] EXCEPT !.stage = "next"])
        /\ UNCHANGED <<due, tokens, inFlight, history, faults>>

\* Mutant: recordAttempt inside the catch of the send.
RecordThrewInCatch(s, k) ==
    /\ Becomes(s, k, [tick[s][k] EXCEPT !.stage = "failed"])
    /\ UNCHANGED inFlight

\* What an error of recordAttempt leads to: it propagates out of runTick.
RecordThrew(s, k) == Ends(s, k, TRUE)

\* The row is gone and the foreign key refuses the insert.
RecordRefused(s, k) ==
    /\ \E status \in Statuses : At(s, k, status)
    /\ reminder[tick[s][k].at] = "gone"
    /\ Ends(s, k, TRUE)
    /\ UNCHANGED <<database, history, faults>>

\* The database cannot be reached, for the select or for the record.
SelectFails(s, k) ==
    /\ At(s, k, "selecting")
    /\ Ends(s, k, TRUE)
    /\ Fault
    /\ UNCHANGED <<database, history>>

RecordFails(s, k) ==
    /\ \E status \in Statuses : At(s, k, status)
    /\ RecordThrew(s, k)
    /\ Fault
    /\ UNCHANGED <<database, history>>

Finish(s, k) ==
    /\ At(s, k, "next")
    /\ tick[s][k].rest = {} /\ tick[s][k].left = {}
    /\ Ends(s, k, FALSE)
    /\ UNCHANGED <<database, history, faults>>

-----------------------------------------------------------------------------
\* Killed and started again: nothing of the process is left, nothing is undone.
Restart(s) ==
    /\ Fault
    /\ inFlight' = [inFlight EXCEPT ![s] = FALSE]
    /\ tick' = [tick EXCEPT ![s] = [k \in Ticks |-> Nothing]]
    /\ UNCHANGED <<database, history>>

TimePasses(r) ==
    /\ r \notin due
    /\ due' = due \cup {r}
    /\ UNCHANGED <<reminder, tokens, deliveries, inFlight, tick, history, faults>>

\* The seed replaces the population: rows and, by cascade, their deliveries.
ReSeed ==
    /\ Fault
    /\ reminder' = [r \in Reminders |-> "gone"]
    /\ deliveries' = [r \in Reminders |-> <<>>]
    /\ UNCHANGED <<due, tokens, inFlight, tick, history>>

Step(s, k) ==
    \/ DueReminders(s, k) \/ Send(s, k) \/ Accepted(s, k) \/ Refused(s, k)
    \/ RecordAttempt(s, k) \/ RecordRefused(s, k) \/ Finish(s, k)

Next ==
    \/ \E s \in Schedulers, k \in Ticks :
           Fire(s, k) \/ Step(s, k) \/ SelectFails(s, k) \/ RecordFails(s, k)
    \/ \E s \in Schedulers : Skip(s) \/ Restart(s)
    \/ \E r \in Reminders : TimePasses(r)
    \/ ReSeed

Spec == Init /\ [][Next]_vars

\* setInterval keeps firing, and the sink and the database answer in the end.
FairSpec ==
    /\ Spec
    /\ \A s \in Schedulers :
           /\ WF_vars(\E k \in Ticks : Fire(s, k))
           /\ \A k \in Ticks : WF_vars(Step(s, k))

-----------------------------------------------------------------------------
TypeOK ==
    /\ reminder \in [Reminders -> {"pending", "gone"} \cup Statuses]
    /\ due \subseteq Reminders
    /\ tokens \in [Reminders -> SUBSET Tokens]
    /\ deliveries \in [Reminders -> Seq(Statuses)]
    /\ inFlight \in [Schedulers -> BOOLEAN]
    /\ tick \in [Schedulers -> [Ticks -> Running \cup {Nothing}]]
    /\ accepted \in [Reminders -> Nat]
    /\ refused \in [Reminders -> Nat]
    /\ began \in [Schedulers -> [Reminders -> [Targets -> Nat]]]
    /\ faults \in 0..MaxFaults

Rows(r, status) == Cardinality({n \in 1..Len(deliveries[r]) : deliveries[r][n] = status})

InHand(r, status) ==
    Cardinality({sk \in Schedulers \X Ticks :
        At(sk[1], sk[2], status) /\ tick[sk[1]][sk[2]].at = r})

\* A reminder's state is what its first recorded send was, whatever its other
\* targets and other processes record after (design.md, "The scheduler").
FirstRecordDecides ==
    \A r \in Reminders : reminder[r] # "gone" =>
        reminder[r] = IF deliveries[r] = <<>> THEN "pending" ELSE Head(deliveries[r])

\* A process sends a reminder to a target again, and a push that went out has
\* no row, only for a fault: no tick overlaps another, and a database error
\* never turns a push that went out into a row that says it failed.
SendsAccountedFor ==
    \A r \in Reminders :
        /\ \A s \in Schedulers, x \in Targets : began[s][r][x] <= 1 + faults
        /\ reminder[r] # "gone" =>
               accepted[r] <= Rows(r, "sent") + InHand(r, "sent") + faults
        /\ Rows(r, "failed") <= refused[r]

\* Every due reminder is tried and decided, whatever the sink answers and
\* whichever ticks end half way: the next tick selects what is left.
DueReminderIsTried ==
    \A r \in Reminders : r \in due ~> reminder[r] # "pending"
=============================================================================
