--------------------------- MODULE JobQueueProofs ---------------------------
(***************************************************************************)
(* Theorems of JobQueue, for every population, fleet, batch size, ceiling  *)
(* and number of faults.                                                   *)
(***************************************************************************)
EXTENDS JobQueue, FiniteSetTheorems, TLAPS

USE SeededAssumption, NamesAssumption, ModeAssumption, PolicyAssumption, BoundAssumption
    DEF WorkerConfig, Verdicts, ReminderStates, RowStates, TickStates, Phases, InFlight, Stages,
        Replies

LEMMA JobFacts ==
  /\ \A j \in Jobs : ReminderOf(j) \in Reminders
  /\ \A r \in Reminders : NewJob(r) \in Jobs /\ ReminderOf(NewJob(r)) = r
  BY DEF Jobs, Copies, ReminderOf, NewJob

LEMMA TargetFacts ==
  ASSUME TypeOK, NEW r \in Reminders
  PROVE  SendTargets(r) \in SUBSET Targets
  BY DEF TypeOK, Targets, SendTargets

-----------------------------------------------------------------------------
(* Types.  attempts stays within its range only because an open job is     *)
(* below the ceiling, so the two are proved together.                      *)

TypeInv == TypeOK /\ CeilingHolds

LEMMA InitTypes == Init => TypeInv
  BY DEF Init, TypeInv, TypeOK, CeilingHolds

LEMMA ExitTypes ==
  ASSUME NEW w \in Workers, TypeInv, Exit(w)
  PROVE  /\ phase' \in [Workers -> Phases]
         /\ stop' \in [Workers -> BOOLEAN]
         /\ tripped' \in [Workers -> BOOLEAN]
         /\ stage' \in [Workers -> [Jobs -> Stages]]
         /\ to' \in [Workers -> [Jobs -> SUBSET Targets]]
         /\ failed' \in [Workers -> [Jobs -> SUBSET Targets]]
         /\ fresh' \in [Workers -> SUBSET Jobs]
         /\ lockedBy' \in [Jobs -> Workers \cup {Nobody}]
  BY DEF TypeInv, TypeOK, Exit

LEMMA SettleTypes ==
  ASSUME NEW w \in Workers, NEW j \in Jobs, NEW s \in Stages, TypeInv, Settle(w, j, s)
  PROVE  /\ stage' \in [Workers -> [Jobs -> Stages]]
         /\ to' \in [Workers -> [Jobs -> SUBSET Targets]]
         /\ failed' \in [Workers -> [Jobs -> SUBSET Targets]]
         /\ fresh' \in [Workers -> SUBSET Jobs]
  BY DEF TypeInv, TypeOK, Settle

LEMMA FaultTypes ==
  ASSUME TypeInv, Fault
  PROVE  faults' \in 0..MaxFaults
  BY DEF TypeInv, TypeOK, Fault

LEMMA RepliedTypes ==
  ASSUME TypeInv, NEW reply, Replied(reply)
  PROVE  faults' \in 0..MaxFaults
  BY FaultTypes DEF TypeInv, TypeOK, Replied

LEMMA DecideTypes ==
  ASSUME TypeInv, NEW r \in Reminders, NEW v \in Verdicts, Decide(r, v)
  PROVE  reminder' \in [Reminders -> ReminderStates]
  BY DEF TypeInv, TypeOK, Decide

LEMMA RecordSendsTypes ==
  ASSUME TypeInv, NEW w \in Workers, NEW j \in Jobs, RecordSends(w, j)
  PROVE  sentTo' \in [Reminders -> SUBSET Targets]
  BY JobFacts DEF TypeInv, TypeOK, RecordSends

LEMMA LastAttempt ==
  ASSUME NEW n \in 0..MaxAttempts, n < MaxAttempts, ~(n + 1 < MaxAttempts)
  PROVE  n + 1 = MaxAttempts
  OBVIOUS

LEMMA NextTypes == TypeInv /\ [Next]_vars => TypeInv'
<1> SUFFICES ASSUME TypeInv, [Next]_vars PROVE TypeInv'
  OBVIOUS
<1> USE DEF TypeInv, TypeOK, CeilingHolds, reminderVars, jobVars, deliveryVars,
            tickVars, attemptVars, loopVars, faultVars
<1>1. ASSUME NEW s \in Schedulers, TickMaterialize(s) PROVE TypeInv'
  BY <1>1 DEF TickMaterialize
<1>2. ASSUME NEW s \in Schedulers, TickReadDue(s) PROVE TypeInv'
  BY <1>2 DEF TickReadDue, DuePending
<1>3. ASSUME NEW s \in Schedulers, TickEnqueue(s) PROVE TypeInv'
  BY <1>3 DEF TickEnqueue, Enqueued
<1>4. ASSUME NEW s \in Schedulers, TickDies(s) PROVE TypeInv'
  BY <1>4, FaultTypes DEF TickDies
<1>5. ASSUME NEW w \in Workers, Start(w) PROVE TypeInv'
  BY <1>5 DEF Start
<1>6. ASSUME NEW w \in Workers, Crash(w) PROVE TypeInv'
  BY <1>6, ExitTypes, FaultTypes DEF Crash
<1>7. ASSUME NEW w \in Workers, Signal(w) PROVE TypeInv'
  BY <1>7, FaultTypes DEF Signal
<1>8. ASSUME NEW w \in Workers, StopAtTop(w) PROVE TypeInv'
  BY <1>8, ExitTypes DEF StopAtTop
<1>9. ASSUME NEW w \in Workers, Probe(w) PROVE TypeInv'
  BY <1>9 DEF Probe
<1>10. ASSUME NEW w \in Workers, GoClaim(w) PROVE TypeInv'
  BY <1>10 DEF GoClaim
<1>11. ASSUME NEW w \in Workers, NEW S \in SUBSET Jobs, Claim(w, S) PROVE TypeInv'
  BY <1>11 DEF Claim
<1>12. ASSUME NEW w \in Workers, ClaimNothing(w) PROVE TypeInv'
  BY <1>12 DEF ClaimNothing
<1>13. ASSUME NEW w \in Workers, Load(w) PROVE TypeInv'
  BY <1>13, JobFacts, TargetFacts DEF Load, Opened
<1>14. ASSUME NEW w \in Workers, NEW j \in Jobs, ReadCards(w, j) PROVE TypeInv'
  BY <1>14 DEF ReadCards
<1>15. ASSUME NEW w \in Workers, NEW j \in Jobs, ReadFails(w, j) PROVE TypeInv'
  BY <1>15, SettleTypes DEF ReadFails
<1>16. ASSUME NEW w \in Workers, NEW j \in Jobs, InputFails(w, j) PROVE TypeInv'
  BY <1>16, SettleTypes DEF InputFails
<1>17. ASSUME NEW w \in Workers, NEW j \in Jobs, SendsAnswered(w, j) PROVE TypeInv'
  BY <1>17 DEF SendsAnswered
<1>18. ASSUME NEW w \in Workers, NEW j \in Jobs, NEW reply \in Replies,
              SkipNoTarget(w, j, reply)
       PROVE  TypeInv'
  <2>1. CASE row[j] = "open"
    <3>1. row' = [row EXCEPT ![j] = "done"] /\ UNCHANGED attempts
      BY <1>18, <2>1 DEF SkipNoTarget
    <3>2. CeilingHolds'
      BY <2>1, <3>1
    <3>3. reminder' \in [Reminders -> ReminderStates]
      BY <1>18, <2>1, JobFacts, DecideTypes DEF SkipNoTarget
    <3> QED
      BY <1>18, <3>1, <3>2, <3>3, SettleTypes, RepliedTypes DEF SkipNoTarget
  <2>2. CASE row[j] # "open"
    BY <1>18, <2>2, SettleTypes, RepliedTypes DEF SkipNoTarget
  <2> QED
    BY <2>1, <2>2
<1>19. ASSUME NEW w \in Workers, NEW j \in Jobs, NEW reply \in Replies,
              Complete(w, j, reply)
       PROVE  TypeInv'
  BY <1>19, SettleTypes, JobFacts, RepliedTypes, DecideTypes, RecordSendsTypes
     DEF Complete
<1>20. ASSUME NEW w \in Workers, NEW j \in Jobs, NEW reply \in Replies,
              RetryOrDeadLetter(w, j, reply)
       PROVE  TypeInv'
  <2>1. failures' \in [Reminders -> Nat]
    BY <1>20, JobFacts DEF RetryOrDeadLetter
  <2>2. CASE row[j] # "open"
    BY <1>20, <2>1, <2>2, SettleTypes, RepliedTypes, RecordSendsTypes, ZenonT(60) DEF RetryOrDeadLetter
  <2>3. CASE row[j] = "open" /\ Retries(j)
    <3>1. attempts' = [attempts EXCEPT ![j] = @ + 1] /\ UNCHANGED row
      BY <1>20, <2>3 DEF RetryOrDeadLetter, Counted
    <3>2. attempts[j] + 1 \in 0..MaxAttempts /\ attempts[j] + 1 < MaxAttempts
      BY <2>3 DEF Retries
    <3>3. attempts' \in [Jobs -> 0..MaxAttempts] /\ CeilingHolds'
      BY <2>3, <3>1, <3>2
    <3>4. /\ runAt' \in [Jobs -> {"due", "later"}]
          /\ lock' \in [Jobs -> {"free", "live", "stale"}]
          /\ credit' \in [Jobs -> Int]
          /\ UNCHANGED <<reminder, row>>
      <4>1. /\ runAt' = [runAt EXCEPT ![j] = "later"]
            /\ lock' = [lock EXCEPT ![j] = "free"]
            /\ credit' = [credit EXCEPT ![j] = @ + 1]
            /\ reminder' = reminder
        BY <1>20, <2>3 DEF RetryOrDeadLetter
      <4> QED
        BY <3>1, <4>1
    <3> QED
      BY <1>20, <2>1, <3>3, <3>4, SettleTypes, RepliedTypes, RecordSendsTypes
         DEF RetryOrDeadLetter
  <2>4. CASE row[j] = "open" /\ ~Retries(j)
    <3>1. /\ attempts' = [attempts EXCEPT ![j] = @ + 1]
          /\ row' = [row EXCEPT ![j] = "dead"]
      BY <1>20, <2>4 DEF RetryOrDeadLetter, Counted
    <3>2. attempts[j] + 1 = MaxAttempts
      <4>1. attempts[j] \in 0..MaxAttempts /\ attempts[j] < MaxAttempts
        BY <2>4
      <4>2. ~(attempts[j] + 1 < MaxAttempts)
        BY <2>4 DEF Retries
      <4> QED
        BY <4>1, <4>2, LastAttempt
    <3>3. attempts' \in [Jobs -> 0..MaxAttempts] /\ CeilingHolds'
      BY <3>1, <3>2
    <3>4. reminder' \in [Reminders -> ReminderStates]
      BY <1>20, <2>4, JobFacts, DecideTypes DEF RetryOrDeadLetter
    <3> QED
      BY <1>20, <2>1, <2>4, <3>1, <3>3, <3>4, SettleTypes, RepliedTypes, RecordSendsTypes, ZenonT(60)
         DEF RetryOrDeadLetter
  <2> QED
    BY <2>2, <2>3, <2>4
<1>21. ASSUME NEW w \in Workers, NEW j \in Jobs, RecordFails(w, j) PROVE TypeInv'
  <2>1. faults' \in 0..MaxFaults
    BY <1>21, FaultTypes DEF RecordFails
  <2> QED
    BY <1>21, <2>1, SettleTypes DEF RecordFails
<1>22. ASSUME NEW w \in Workers, EndBatch(w) PROVE TypeInv'
  BY <1>22 DEF EndBatch
<1>23. ASSUME NEW w \in Workers, ThrowBatch(w) PROVE TypeInv'
  BY <1>23, ExitTypes DEF ThrowBatch
<1>24. ASSUME NEW r \in Reminders, NEW t \in Tokens, Register(r, t) \/ Unregister(r, t)
       PROVE  TypeInv'
  <2>1. CASE Register(r, t)
    BY <2>1 DEF Register
  <2>2. CASE Unregister(r, t)
    BY <2>2 DEF Unregister
  <2> QED
    BY <1>24, <2>1, <2>2
<1>25. ASSUME Reseed PROVE TypeInv'
  BY <1>25 DEF Reseed
<1>26. ASSUME NEW r \in Reminders, ScheduledTimeArrives(r) PROVE TypeInv'
  BY <1>26 DEF ScheduledTimeArrives
<1>27. ASSUME NEW j \in Jobs, BackoffElapses(j) \/ LockAges(j) PROVE TypeInv'
  <2>1. CASE BackoffElapses(j)
    BY <2>1 DEF BackoffElapses
  <2>2. CASE LockAges(j)
    BY <2>2 DEF LockAges
  <2> QED
    BY <1>27, <2>1, <2>2
<1>28. ASSUME NEW w \in Workers, NEW j \in Jobs, ClaimAges(w, j) PROVE TypeInv'
  BY <1>28 DEF ClaimAges
<1>29. ASSUME ReadsGoDown \/ ReadsComeBack PROVE TypeInv'
  <2>1. CASE ReadsGoDown
    BY <2>1, FaultTypes DEF ReadsGoDown
  <2>2. CASE ReadsComeBack
    BY <2>2 DEF ReadsComeBack
  <2> QED
    BY <1>29, <2>1, <2>2
<1>30. ASSUME UNCHANGED vars PROVE TypeInv'
  BY <1>30 DEF vars
<1> HIDE DEF TypeInv, TypeOK, CeilingHolds, reminderVars, jobVars, deliveryVars,
             tickVars, attemptVars, loopVars, faultVars
<1> QED
  BY <1>1, <1>2, <1>3, <1>4, <1>5, <1>6, <1>7, <1>8, <1>9, <1>10, <1>11, <1>12,
     <1>13, <1>14, <1>15, <1>16, <1>17, <1>18, <1>19, <1>20, <1>21, <1>22, <1>23,
     <1>24, <1>25, <1>26, <1>27, <1>28, <1>29, <1>30
     DEF Next, Tick, Loop, Attempt, Record, Interference, Time

\* Every variable keeps its type, and no open job reaches the ceiling
\* without being dead-lettered in the same transaction.
THEOREM TypeCorrect == Spec => []TypeOK
<1>1. TypeInv => TypeOK
  BY DEF TypeInv
<1> QED
  BY <1>1, InitTypes, NextTypes, PTL DEF Spec

-----------------------------------------------------------------------------
(* The reminder and its job.                                               *)

\* The steps that touch a reminder's state, a job row with its attempts and
\* its lock, or the deliveries: no other step of the system does.
Decisions(w, j, reply) ==
    \/ SkipNoTarget(w, j, reply)
    \/ Complete(w, j, reply)
    \/ RetryOrDeadLetter(w, j, reply)

tableVars == <<reminder, row, attempts, failures, sentTo, lock, credit>>

TableStep ==
    \/ \E s \in Schedulers : TickMaterialize(s) \/ TickEnqueue(s)
    \/ \E w \in Workers, j \in Jobs, reply \in Replies : Decisions(w, j, reply)
    \/ \E w \in Workers, S \in SUBSET Jobs : Claim(w, S)
    \/ \E j \in Jobs : LockAges(j)
    \/ Reseed

LEMMA TableSteps ==
  ASSUME [Next]_vars
  PROVE  TableStep \/ UNCHANGED tableVars
<1> USE DEF tableVars, reminderVars, jobVars, deliveryVars
<1>1. ASSUME NEW s \in Schedulers, TickReadDue(s) \/ TickDies(s)
      PROVE  UNCHANGED tableVars
  BY <1>1 DEF TickReadDue, TickDies
<1>2. ASSUME NEW w \in Workers, Start(w) \/ Crash(w) \/ Signal(w) \/ StopAtTop(w)
      PROVE  UNCHANGED tableVars
  BY <1>2 DEF Start, Crash, Signal, StopAtTop
<1>3. ASSUME NEW w \in Workers, Probe(w) \/ GoClaim(w) \/ ClaimNothing(w) \/ Load(w)
      PROVE  UNCHANGED tableVars
  BY <1>3 DEF Probe, GoClaim, ClaimNothing, Load
<1>4. ASSUME NEW w \in Workers, EndBatch(w) \/ ThrowBatch(w)
      PROVE  UNCHANGED tableVars
  BY <1>4 DEF EndBatch, ThrowBatch
<1>5. ASSUME NEW w \in Workers, NEW j \in Jobs,
             \/ ReadCards(w, j) \/ ReadFails(w, j) \/ InputFails(w, j)
             \/ SendsAnswered(w, j) \/ RecordFails(w, j) \/ ClaimAges(w, j)
      PROVE  UNCHANGED tableVars
  BY <1>5 DEF ReadCards, ReadFails, InputFails, SendsAnswered, RecordFails, ClaimAges
<1>6. ASSUME NEW r \in Reminders, NEW t \in Tokens, Register(r, t) \/ Unregister(r, t)
      PROVE  UNCHANGED tableVars
  BY <1>6 DEF Register, Unregister
<1>7. ASSUME NEW r \in Reminders, ScheduledTimeArrives(r)
      PROVE  UNCHANGED tableVars
  BY <1>7 DEF ScheduledTimeArrives
<1>8. ASSUME NEW j \in Jobs, BackoffElapses(j)
      PROVE  UNCHANGED tableVars
  BY <1>8 DEF BackoffElapses
<1>9. ASSUME ReadsGoDown \/ ReadsComeBack
       PROVE  UNCHANGED tableVars
  BY <1>9 DEF ReadsGoDown, ReadsComeBack
<1>10. ASSUME UNCHANGED vars
       PROVE  UNCHANGED tableVars
  BY <1>10 DEF vars
<1> HIDE DEF tableVars, reminderVars, jobVars, deliveryVars
<1> QED
  BY <1>1, <1>2, <1>3, <1>4, <1>5, <1>6, <1>7, <1>8, <1>9, <1>10
     DEF TableStep, Decisions, Next, Tick, Loop, Attempt, Record, Interference, Time

\* A worker starts an attempt at a job it has none at only by claiming it,
\* and finds no target only for an ordinary user.
LEMMA StageSteps ==
  ASSUME TypeInv, [Next]_vars
  PROVE  \A w \in Workers, j \in Jobs :
            /\ stage[w][j] = "none" /\ stage'[w][j] # "none" => row[j] = "open"
            /\ stage[w][j] # "noTarget" /\ stage'[w][j] = "noTarget"
               => ReminderOf(j) \notin Seeded
<1> DEFINE Claims == \A w \in Workers, j \in Jobs :
                        /\ stage[w][j] = "none" /\ stage'[w][j] # "none" => row[j] = "open"
                        /\ stage[w][j] # "noTarget" /\ stage'[w][j] = "noTarget"
                           => ReminderOf(j) \notin Seeded
<1>1. stage \in [Workers -> [Jobs -> Stages]]
  BY DEF TypeInv, TypeOK
<1>2. ASSUME UNCHANGED stage PROVE Claims
  BY <1>2
<1>3. ASSUME NEW w \in Workers, NEW S \in SUBSET Jobs, Claim(w, S) PROVE Claims
  BY <1>1, <1>3 DEF Claim, Claimable
<1>4. ASSUME NEW w \in Workers, Exit(w) PROVE Claims
  BY <1>1, <1>4 DEF Exit
<1>5. ASSUME NEW w \in Workers, Probe(w) \/ Load(w) \/ EndBatch(w) PROVE Claims
  BY <1>1, <1>5 DEF Probe, Load, EndBatch, Opened
<1>6. ASSUME NEW w \in Workers, NEW j \in Jobs, NEW s, stage[w][j] # "none",
             s # "noTarget", stage' = [stage EXCEPT ![w][j] = s]
      PROVE  Claims
  <2>1. \A v \in Workers, i \in Jobs :
           stage'[v][i] = stage[v][i] \/ (v = w /\ i = j /\ stage'[v][i] = s)
    BY <1>1, <1>6
  <2> QED
    BY <1>6, <2>1
<1>7. ASSUME NEW w \in Workers, NEW j \in Jobs,
             \/ ReadCards(w, j) \/ ReadFails(w, j) \/ InputFails(w, j)
             \/ SendsAnswered(w, j) \/ RecordFails(w, j)
      PROVE  Claims
  <2>1. stage[w][j] # "none"
    BY <1>7 DEF ReadCards, ReadFails, InputFails, SendsAnswered, RecordFails
  <2>2. PICK s \in {"sending", "unread", "skipped", "answered", "rejected"} :
           stage' = [stage EXCEPT ![w][j] = s]
    BY <1>7 DEF ReadCards, ReadFails, InputFails, SendsAnswered, RecordFails, Settle
  <2> QED
    BY <1>6, <2>1, <2>2
<1>8. ASSUME NEW w \in Workers, NEW j \in Jobs, NEW reply \in Replies,
             Decisions(w, j, reply)
      PROVE  Claims
  BY <1>6, <1>8, SMTT(30) DEF Decisions, SkipNoTarget, Complete, RetryOrDeadLetter, Settle
<1>9. ASSUME NEW s \in Schedulers, Tick(s) \/ TickDies(s) PROVE Claims
  BY <1>2, <1>9 DEF Tick, TickMaterialize, TickReadDue, TickEnqueue, TickDies, attemptVars
<1>10. ASSUME NEW w \in Workers, Start(w) \/ GoClaim(w) \/ ClaimNothing(w) \/ Signal(w)
       PROVE  Claims
  BY <1>2, <1>10 DEF Start, GoClaim, ClaimNothing, Signal, attemptVars
<1>11. ASSUME NEW r \in Reminders, NEW t \in Tokens,
              Register(r, t) \/ Unregister(r, t)
       PROVE  Claims
  BY <1>2, <1>11 DEF Register, Unregister, attemptVars
<1>12. ASSUME NEW j \in Jobs, BackoffElapses(j) \/ LockAges(j) PROVE Claims
  BY <1>2, <1>12 DEF BackoffElapses, LockAges, attemptVars
<1>13. ASSUME NEW w \in Workers, NEW j \in Jobs, ClaimAges(w, j) PROVE Claims
  BY <1>2, <1>13 DEF ClaimAges
<1>14. ASSUME Reseed \/ ReadsGoDown \/ ReadsComeBack \/ UNCHANGED vars PROVE Claims
  BY <1>2, <1>14 DEF Reseed, ReadsGoDown, ReadsComeBack, vars, attemptVars
<1>15. ASSUME NEW r \in Reminders, ScheduledTimeArrives(r) PROVE Claims
  BY <1>2, <1>15 DEF ScheduledTimeArrives, attemptVars
<1> HIDE DEF Claims
<1>16. Claims
  BY <1>3, <1>4, <1>5, <1>7, <1>8, <1>9, <1>10, <1>11, <1>12, <1>13, <1>14, <1>15
     DEF Next, Tick, Loop, Attempt, Record, Decisions, Interference, Time,
         Crash, StopAtTop, ThrowBatch
<1> QED
  BY <1>16 DEF Claims

-----------------------------------------------------------------------------
\* No attempt is ever made at the second row of a reminder.
OneRow == \A w \in Workers, r \in Reminders : stage[w][<<r, 2>>] = "none"

AgreeInv == TypeInv /\ JobsAgree /\ OneRow

LEMMA InitAgrees == Init => AgreeInv
  BY InitTypes DEF Init, AgreeInv, JobsAgree, OneRow, Jobs, Copies

LEMMA JobIsRow ==
  ASSUME NEW j \in Jobs
  PROVE  /\ j \in {<<ReminderOf(j), 1>>, <<ReminderOf(j), 2>>}
         /\ ReminderOf(j) \in Reminders
  BY DEF Jobs, Copies, ReminderOf

LEMMA RowIsJob ==
  ASSUME NEW r \in Reminders
  PROVE  /\ <<r, 1>> \in Jobs /\ <<r, 2>> \in Jobs
         /\ ReminderOf(<<r, 1>>) = r /\ ReminderOf(<<r, 2>>) = r
  BY DEF Jobs, Copies, ReminderOf

\* A recorded verdict moves the reminder and its row together.
LEMMA VerdictAgrees ==
  ASSUME AgreeInv, NEW j \in Jobs, NEW v \in Verdicts, NEW d \in {"done", "dead"},
         j = <<ReminderOf(j), 1>>,
         v \in {"sent", "skipped"} <=> d = "done",
         Decide(ReminderOf(j), v),
         row' = [row EXCEPT ![j] = IF @ = "open" THEN d ELSE @]
  PROVE  JobsAgree'
<1> DEFINE q == ReminderOf(j)
<1>1. q \in Reminders
  BY JobIsRow
<1>2. reminder \in [Reminders -> ReminderStates] /\ row \in [Jobs -> RowStates]
  BY DEF AgreeInv, TypeInv, TypeOK
<1> SUFFICES ASSUME NEW r \in Reminders
             PROVE  LET job == row[<<r, 1>>]
                    IN  (/\ row[<<r, 2>>] = "none"
                         /\ reminder[r] \in {"absent", "pending"} => job = "none"
                         /\ reminder[r] = "queued" <=> job = "open"
                         /\ reminder[r] \in {"sent", "skipped"} <=> job = "done"
                         /\ reminder[r] = "failed" <=> job = "dead"
                         /\ job = "deleted" => reminder[r] = "gone")'
  BY DEF JobsAgree
<1>3. /\ row[<<r, 2>>] = "none"
      /\ reminder[r] \in {"absent", "pending"} => row[<<r, 1>>] = "none"
      /\ reminder[r] = "queued" <=> row[<<r, 1>>] = "open"
      /\ reminder[r] \in {"sent", "skipped"} <=> row[<<r, 1>>] = "done"
      /\ reminder[r] = "failed" <=> row[<<r, 1>>] = "dead"
      /\ row[<<r, 1>>] = "deleted" => reminder[r] = "gone"
  BY DEF AgreeInv, JobsAgree
<1>4. row'[<<r, 2>>] = row[<<r, 2>>]
  <2>1. <<r, 2>> # j
    BY <1>1
  <2> QED
    BY <2>1, <1>2, RowIsJob
<1>5. CASE r # q
  <2>1. <<r, 1>> # j
    BY <1>5
  <2>2. row'[<<r, 1>>] = row[<<r, 1>>]
    BY <2>1, <1>2, RowIsJob
  <2>3. reminder'[r] = reminder[r]
    BY <1>2, <1>5 DEF Decide
  <2> QED
    BY <1>3, <1>4, <2>2, <2>3
<1>6. CASE r = q
  <2>1. row'[<<r, 1>>] = IF row[<<r, 1>>] = "open" THEN d ELSE row[<<r, 1>>]
    BY <1>2, <1>6, RowIsJob
  <2>2. reminder'[r] = IF reminder[r] = "queued" THEN v ELSE reminder[r]
    BY <1>2, <1>6 DEF Decide
  <2> QED
    BY <1>3, <1>4, <2>1, <2>2
<1> QED
  BY <1>5, <1>6

LEMMA NextAgrees == AgreeInv /\ [Next]_vars => AgreeInv'
<1> SUFFICES ASSUME AgreeInv, [Next]_vars PROVE AgreeInv'
  OBVIOUS
<1>1. TypeInv /\ TypeInv'
  BY NextTypes DEF AgreeInv
<1>2. /\ reminder \in [Reminders -> ReminderStates] /\ row \in [Jobs -> RowStates]
      /\ reminder' \in [Reminders -> ReminderStates] /\ row' \in [Jobs -> RowStates]
  BY <1>1 DEF TypeInv, TypeOK
<1>3. OneRow'
  <2> SUFFICES ASSUME NEW w \in Workers, NEW r \in Reminders
               PROVE  stage'[w][<<r, 2>>] = "none"
    BY DEF OneRow
  <2>1. row[<<r, 2>>] # "open" /\ stage[w][<<r, 2>>] = "none"
    BY DEF AgreeInv, JobsAgree, OneRow
  <2> QED
    BY <1>1, <2>1, StageSteps, RowIsJob
<1>4. ASSUME NEW s \in Schedulers, TickMaterialize(s) PROVE JobsAgree'
  <2>1. UNCHANGED row
    BY <1>4 DEF TickMaterialize, jobVars
  <2>2. PICK S \in SUBSET {r \in Reminders \ Seeded : reminder[r] = "absent"} :
           reminder' = [r \in Reminders |-> IF r \in S THEN "pending" ELSE reminder[r]]
    BY <1>4 DEF TickMaterialize
  <2> QED
    BY <2>1, <2>2 DEF AgreeInv, JobsAgree
<1>5. ASSUME NEW s \in Schedulers, TickEnqueue(s) PROVE JobsAgree'
  <2> DEFINE moved == Enqueued(s)
             new == {NewJob(r) : r \in moved}
  <2>1. \A r \in moved : r \in Reminders /\ reminder[r] = "pending"
    BY <1>1 DEF Enqueued, TypeInv, TypeOK
  <2>2. \A r \in moved : NewJob(r) = <<r, 1>>
    BY <2>1 DEF NewJob, AgreeInv, JobsAgree
  <2>3. new = {<<r, 1>> : r \in moved}
    BY <2>2
  <2>4. /\ reminder' = [r \in Reminders |-> IF r \in moved THEN "queued" ELSE reminder[r]]
        /\ row' = [j \in Jobs |-> IF j \in new THEN "open" ELSE row[j]]
    BY <1>5 DEF TickEnqueue
  <2> HIDE DEF moved, new
  <2>5. \A r \in Reminders : /\ row'[<<r, 1>>] = IF r \in moved THEN "open" ELSE row[<<r, 1>>]
                             /\ row'[<<r, 2>>] = row[<<r, 2>>]
    <3> TAKE r \in Reminders
    <3>1. <<r, 1>> \in new <=> r \in moved
      BY <2>3
    <3>2. <<r, 2>> \notin new
      BY <2>3
    <3> QED
      BY <2>4, <3>1, <3>2, RowIsJob
  <2>6. ASSUME NEW r \in Reminders
        PROVE  /\ row'[<<r, 2>>] = "none"
               /\ reminder'[r] \in {"absent", "pending"} => row'[<<r, 1>>] = "none"
               /\ reminder'[r] = "queued" <=> row'[<<r, 1>>] = "open"
               /\ reminder'[r] \in {"sent", "skipped"} <=> row'[<<r, 1>>] = "done"
               /\ reminder'[r] = "failed" <=> row'[<<r, 1>>] = "dead"
               /\ row'[<<r, 1>>] = "deleted" => reminder'[r] = "gone"
    <3>1. /\ row[<<r, 2>>] = "none"
          /\ reminder[r] \in {"absent", "pending"} => row[<<r, 1>>] = "none"
          /\ reminder[r] = "queued" <=> row[<<r, 1>>] = "open"
          /\ reminder[r] \in {"sent", "skipped"} <=> row[<<r, 1>>] = "done"
          /\ reminder[r] = "failed" <=> row[<<r, 1>>] = "dead"
          /\ row[<<r, 1>>] = "deleted" => reminder[r] = "gone"
      BY DEF AgreeInv, JobsAgree
    <3>2. reminder'[r] = IF r \in moved THEN "queued" ELSE reminder[r]
      BY <2>4
    <3> QED
      BY <2>1, <2>5, <3>1, <3>2
  <2> QED
    BY <2>6 DEF JobsAgree
<1>6. ASSUME Reseed PROVE JobsAgree'
  <2> DEFINE swept == {j \in Jobs : ReminderOf(j) \in Seeded /\ row[j] # "none"}
  <2>1. /\ reminder' = [r \in Reminders |-> IF r \in Seeded THEN "gone" ELSE reminder[r]]
        /\ row' = [j \in Jobs |-> IF j \in swept THEN "deleted" ELSE row[j]]
    BY <1>6 DEF Reseed
  <2>2. \A r \in Reminders, k \in {1, 2} :
           row'[<<r, k>>] = IF r \in Seeded /\ row[<<r, k>>] # "none"
                            THEN "deleted" ELSE row[<<r, k>>]
    BY <2>1, RowIsJob
  <2>3. ASSUME NEW r \in Reminders
        PROVE  /\ row[<<r, 2>>] = "none"
               /\ reminder[r] \in {"absent", "pending"} => row[<<r, 1>>] = "none"
               /\ reminder[r] = "queued" <=> row[<<r, 1>>] = "open"
               /\ reminder[r] \in {"sent", "skipped"} <=> row[<<r, 1>>] = "done"
               /\ reminder[r] = "failed" <=> row[<<r, 1>>] = "dead"
               /\ row[<<r, 1>>] = "deleted" => reminder[r] = "gone"
    BY DEF AgreeInv, JobsAgree
  <2> HIDE DEF swept
  <2>4. ASSUME NEW r \in Reminders
        PROVE  /\ row'[<<r, 2>>] = "none"
               /\ reminder'[r] \in {"absent", "pending"} => row'[<<r, 1>>] = "none"
               /\ reminder'[r] = "queued" <=> row'[<<r, 1>>] = "open"
               /\ reminder'[r] \in {"sent", "skipped"} <=> row'[<<r, 1>>] = "done"
               /\ reminder'[r] = "failed" <=> row'[<<r, 1>>] = "dead"
               /\ row'[<<r, 1>>] = "deleted" => reminder'[r] = "gone"
    <3>1. /\ row'[<<r, 1>>] = IF r \in Seeded /\ row[<<r, 1>>] # "none"
                               THEN "deleted" ELSE row[<<r, 1>>]
          /\ row'[<<r, 2>>] = IF r \in Seeded /\ row[<<r, 2>>] # "none"
                               THEN "deleted" ELSE row[<<r, 2>>]
      BY <2>2
    <3>2. reminder'[r] = IF r \in Seeded THEN "gone" ELSE reminder[r]
      BY <2>1
    <3> QED
      BY <2>3, <3>1, <3>2
  <2> QED
    BY <2>4 DEF JobsAgree
<1>7. ASSUME NEW w \in Workers, NEW j \in Jobs, NEW reply \in Replies,
             Decisions(w, j, reply)
      PROVE  JobsAgree'
  <2>1. stage[w][j] # "none"
    BY <1>7 DEF Decisions, SkipNoTarget, Complete, RetryOrDeadLetter
  <2>2. j = <<ReminderOf(j), 1>>
    BY <2>1, JobIsRow DEF AgreeInv, OneRow
  <2>3. CASE SkipNoTarget(w, j, reply) /\ row[j] = "open"
    BY <1>2, <2>2, <2>3, VerdictAgrees DEF SkipNoTarget
  <2>4. CASE Complete(w, j, reply)
    BY <2>2, <2>4, VerdictAgrees DEF Complete
  <2>5. CASE RetryOrDeadLetter(w, j, reply) /\ row[j] = "open" /\ ~Retries(j)
    BY <1>2, <2>2, <2>5, VerdictAgrees DEF RetryOrDeadLetter
  <2>6. CASE UNCHANGED <<reminder, row>>
    BY <2>6 DEF AgreeInv, JobsAgree
  <2>7. CASE SkipNoTarget(w, j, reply) /\ row[j] # "open"
    BY <2>6, <2>7 DEF SkipNoTarget
  <2>8. CASE RetryOrDeadLetter(w, j, reply) /\ (row[j] # "open" \/ Retries(j))
    BY <2>6, <2>8 DEF RetryOrDeadLetter
  <2> QED
    BY <1>7, <2>3, <2>4, <2>5, <2>7, <2>8 DEF Decisions
<1>8. ASSUME UNCHANGED <<reminder, row>> PROVE JobsAgree'
  BY <1>8 DEF AgreeInv, JobsAgree
<1>9. ASSUME NEW w \in Workers, NEW S \in SUBSET Jobs, Claim(w, S) PROVE JobsAgree'
  BY <1>8, <1>9 DEF Claim, reminderVars
<1>10. ASSUME NEW j \in Jobs, LockAges(j) PROVE JobsAgree'
  BY <1>8, <1>10 DEF LockAges, reminderVars
<1>11. ASSUME UNCHANGED tableVars PROVE JobsAgree'
  BY <1>8, <1>11 DEF tableVars
<1> QED
  BY <1>1, <1>3, <1>4, <1>5, <1>6, <1>7, <1>9, <1>10, <1>11, TableSteps
     DEF TableStep, AgreeInv

\* Whatever the interleaving of schedulers, workers, reclaims, crashes and
\* a re-seed, a reminder is queued exactly while it has one open job, and
\* its verdict and its job's end are the same.
THEOREM JobsAlwaysAgree == Spec => []JobsAgree
<1>1. AgreeInv => JobsAgree
  BY DEF AgreeInv
<1> QED
  BY <1>1, InitAgrees, NextAgrees, PTL DEF Spec

\* No open job is ever left at the ceiling of its attempts, and the dead
\* jobs are exactly those that reached it.
THEOREM CeilingAlwaysHolds == Spec => []CeilingHolds
<1>1. TypeInv => CeilingHolds
  BY DEF TypeInv
<1> QED
  BY <1>1, InitTypes, NextTypes, PTL DEF Spec

-----------------------------------------------------------------------------
(* Verdicts.                                                               *)

LEMMA StepKeepsVerdicts ==
  ASSUME TypeInv, [Next]_vars, NEW r \in Reminders, reminder[r] \in Verdicts
  PROVE  reminder'[r] \in {reminder[r], "gone"}
<1>1. reminder \in [Reminders -> ReminderStates]
  BY DEF TypeInv, TypeOK
<1>2. ASSUME NEW s \in Schedulers, TickMaterialize(s)
      PROVE  reminder'[r] \in {reminder[r], "gone"}
  BY <1>2 DEF TickMaterialize
<1>3. ASSUME NEW s \in Schedulers, TickEnqueue(s)
      PROVE  reminder'[r] \in {reminder[r], "gone"}
  BY <1>3 DEF TickEnqueue, Enqueued
<1>4. ASSUME NEW w \in Workers, NEW j \in Jobs, NEW reply \in Replies,
             Decisions(w, j, reply)
      PROVE  reminder'[r] \in {reminder[r], "gone"}
  <2>1. ASSUME NEW v, Decide(ReminderOf(j), v)
        PROVE  reminder'[r] = reminder[r]
    BY <1>1, <2>1 DEF Decide
  <2> QED
    BY <1>4, <2>1 DEF Decisions, SkipNoTarget, Complete, RetryOrDeadLetter
<1>5. ASSUME Reseed PROVE reminder'[r] \in {reminder[r], "gone"}
  BY <1>5 DEF Reseed
<1>6. ASSUME NEW w \in Workers, NEW S \in SUBSET Jobs, Claim(w, S)
      PROVE  reminder'[r] \in {reminder[r], "gone"}
  BY <1>6 DEF Claim, reminderVars
<1>7. ASSUME NEW j \in Jobs, LockAges(j) PROVE reminder'[r] \in {reminder[r], "gone"}
  BY <1>7 DEF LockAges, reminderVars
<1>8. CASE UNCHANGED tableVars
  BY <1>8 DEF tableVars
<1> QED
  BY <1>2, <1>3, <1>4, <1>5, <1>6, <1>7, <1>8, TableSteps DEF TableStep

\* A reminder with a job, or a deleted one, never waits for a job again.
LEMMA StepForward ==
  ASSUME TypeInv, [Next]_vars, NEW r \in Reminders, reminder[r] \in {"queued", "gone"}
  PROVE  reminder'[r] \notin {"absent", "pending"}
<1>1. reminder \in [Reminders -> ReminderStates]
  BY DEF TypeInv, TypeOK
<1>2. ASSUME NEW s \in Schedulers, TickMaterialize(s) \/ TickEnqueue(s)
      PROVE  reminder'[r] \notin {"absent", "pending"}
  BY <1>2 DEF TickMaterialize, TickEnqueue, Enqueued
<1>3. ASSUME NEW w \in Workers, NEW j \in Jobs, NEW reply \in Replies,
             Decisions(w, j, reply)
      PROVE  reminder'[r] \notin {"absent", "pending"}
  <2>1. ASSUME NEW v \in Verdicts, Decide(ReminderOf(j), v)
        PROVE  reminder'[r] \notin {"absent", "pending"}
    BY <1>1, <2>1 DEF Decide
  <2> QED
    BY <1>3, <2>1 DEF Decisions, SkipNoTarget, Complete, RetryOrDeadLetter
<1>4. ASSUME Reseed PROVE reminder'[r] \notin {"absent", "pending"}
  BY <1>4 DEF Reseed
<1>5. ASSUME NEW w \in Workers, NEW S \in SUBSET Jobs, Claim(w, S)
      PROVE  reminder'[r] \notin {"absent", "pending"}
  BY <1>5 DEF Claim, reminderVars
<1>6. ASSUME NEW j \in Jobs, LockAges(j) PROVE reminder'[r] \notin {"absent", "pending"}
  BY <1>6 DEF LockAges, reminderVars
<1>7. CASE UNCHANGED tableVars
  BY <1>7 DEF tableVars
<1> QED
  BY <1>2, <1>3, <1>4, <1>5, <1>6, <1>7, TableSteps DEF TableStep

\* A verdict is final, whoever records what and when: a stale worker's late
\* completion or failure never overturns it.
THEOREM VerdictsAreFinal == Spec => VerdictIsFinal
<1>1. TypeInv /\ [Next]_vars
      => [\A r \in Reminders : reminder[r] \in Verdicts => reminder'[r] \in {reminder[r], "gone"}]_vars
  BY StepKeepsVerdicts
<1> QED
  BY <1>1, InitTypes, NextTypes, PTL DEF Spec, VerdictIsFinal

-----------------------------------------------------------------------------
(* Claims.                                                                 *)

CreditInv == TypeInv /\ ClaimsAccountedFor

LEMMA NextCredit == CreditInv /\ [Next]_vars => CreditInv'
<1> SUFFICES ASSUME CreditInv, [Next]_vars PROVE CreditInv'
  OBVIOUS
<1>1. TypeInv /\ TypeInv'
  BY NextTypes DEF CreditInv
<1>2. /\ row \in [Jobs -> RowStates] /\ lock \in [Jobs -> {"free", "live", "stale"}]
      /\ credit \in [Jobs -> Int]
  BY <1>1 DEF TypeInv, TypeOK
<1>3. \A j \in Jobs : /\ credit[j] >= 0
                      /\ row[j] = "open" /\ lock[j] # "live" => credit[j] >= 1
  BY DEF CreditInv, ClaimsAccountedFor
<1>4. ASSUME NEW s \in Schedulers, TickMaterialize(s) PROVE ClaimsAccountedFor'
  BY <1>3, <1>4 DEF TickMaterialize, jobVars, ClaimsAccountedFor
<1>5. ASSUME NEW s \in Schedulers, TickEnqueue(s) PROVE ClaimsAccountedFor'
  BY <1>2, <1>3, <1>5 DEF TickEnqueue, ClaimsAccountedFor
<1>6. ASSUME NEW w \in Workers, NEW j \in Jobs, NEW reply \in Replies,
             Decisions(w, j, reply)
      PROVE  ClaimsAccountedFor'
  <2>1. CASE SkipNoTarget(w, j, reply)
    <3>1. UNCHANGED <<lock, credit>> /\ \A i \in Jobs : row'[i] = "open" => row[i] = "open"
      BY <1>2, <2>1 DEF SkipNoTarget
    <3> QED
      BY <1>3, <3>1 DEF ClaimsAccountedFor
  <2>2. CASE Complete(w, j, reply)
    <3>1. UNCHANGED <<lock, credit>> /\ \A i \in Jobs : row'[i] = "open" => row[i] = "open"
      BY <1>2, <2>2 DEF Complete
    <3> QED
      BY <1>3, <3>1 DEF ClaimsAccountedFor
  <2>3. CASE RetryOrDeadLetter(w, j, reply) /\ row[j] = "open" /\ Retries(j)
    <3>1. /\ lock' = [lock EXCEPT ![j] = "free"]
          /\ credit' = [credit EXCEPT ![j] = @ + 1]
          /\ UNCHANGED row
      BY <2>3 DEF RetryOrDeadLetter
    <3> QED
      BY <1>2, <1>3, <3>1 DEF ClaimsAccountedFor
  <2>4. CASE RetryOrDeadLetter(w, j, reply) /\ ~(row[j] = "open" /\ Retries(j))
    <3>1. UNCHANGED <<lock, credit>> /\ \A i \in Jobs : row'[i] = "open" => row[i] = "open"
      BY <1>2, <2>4 DEF RetryOrDeadLetter
    <3> QED
      BY <1>3, <3>1 DEF ClaimsAccountedFor
  <2> QED
    BY <1>6, <2>1, <2>2, <2>3, <2>4 DEF Decisions
<1>7. ASSUME NEW w \in Workers, NEW S \in SUBSET Jobs, Claim(w, S)
      PROVE  ClaimsAccountedFor'
  <2>1. \A j \in S : credit[j] >= 1
    BY <1>2, <1>3, <1>7 DEF Claim, Claimable
  <2>2. /\ lock' = [j \in Jobs |-> IF j \in S THEN "live" ELSE lock[j]]
        /\ credit' = [j \in Jobs |-> IF j \in S THEN credit[j] - 1 ELSE credit[j]]
        /\ UNCHANGED row
    BY <1>7 DEF Claim
  <2> QED
    BY <1>2, <1>3, <2>1, <2>2 DEF ClaimsAccountedFor
<1>8. ASSUME NEW j \in Jobs, LockAges(j) PROVE ClaimsAccountedFor'
  BY <1>2, <1>3, <1>8 DEF LockAges, ClaimsAccountedFor
<1>9. ASSUME Reseed PROVE ClaimsAccountedFor'
  BY <1>2, <1>3, <1>9 DEF Reseed, ClaimsAccountedFor
<1>10. ASSUME UNCHANGED tableVars PROVE ClaimsAccountedFor'
  BY <1>3, <1>10 DEF tableVars, ClaimsAccountedFor
<1> QED
  BY <1>1, <1>4, <1>5, <1>6, <1>7, <1>8, <1>9, <1>10, TableSteps DEF TableStep, CreditInv

\* A job is claimed, and so its reminder sent, at most once for its enqueue,
\* once more per recorded failure and once more per expired lease: the
\* duplicates of at-least-once delivery never lack one of these causes.
THEOREM ClaimsAlwaysAccountedFor == Spec => []ClaimsAccountedFor
<1>1. Init => CreditInv
  BY InitTypes DEF Init, CreditInv, ClaimsAccountedFor
<1>2. CreditInv => ClaimsAccountedFor
  BY DEF CreditInv
<1> QED
  BY <1>1, <1>2, NextCredit, PTL DEF Spec

-----------------------------------------------------------------------------
(* Failures are counted once.                                              *)

\* A row that was never inserted has no attempts; a reminder without a job
\* has no failures and nobody attempting it.
CountedOnce ==
  \A r \in Reminders :
    /\ row[<<r, 1>>] = "none" => attempts[<<r, 1>>] = 0
    /\ reminder[r] \in {"absent", "pending"}
       => failures[r] = 0 /\ \A w \in Workers : stage[w][<<r, 1>>] = "none"

CountInv == AgreeInv /\ CountedOnce /\ AttemptsAreFailures

LEMMA InitCounts == Init => CountInv
<1> SUFFICES ASSUME Init PROVE CountInv
  OBVIOUS
<1>1. /\ reminder = [r \in Reminders |-> IF r \in Seeded THEN "pending" ELSE "absent"]
      /\ attempts = [j \in Jobs |-> 0]
      /\ failures = [r \in Reminders |-> 0]
      /\ stage = [w \in Workers |-> [j \in Jobs |-> "none"]]
  BY DEF Init
<1> QED
  BY <1>1, InitAgrees, RowIsJob DEF CountInv, CountedOnce, AttemptsAreFailures

LEMMA NextCounts == CountInv /\ [Next]_vars => CountInv'
<1> SUFFICES ASSUME CountInv, [Next]_vars PROVE CountInv'
  OBVIOUS
<1> DEFINE Good(r) ==
      /\ row[<<r, 1>>] = "none" => attempts[<<r, 1>>] = 0
      /\ reminder[r] \in {"absent", "pending"} => failures[r] = 0
      /\ reminder[r] = "queued" => failures[r] = attempts[<<r, 1>>]
      /\ reminder[r] = "failed" => failures[r] >= attempts[<<r, 1>>]
<1>1. AgreeInv /\ AgreeInv'
  BY NextAgrees DEF CountInv
<1>2. /\ TypeInv
      /\ reminder \in [Reminders -> ReminderStates] /\ row \in [Jobs -> RowStates]
      /\ attempts \in [Jobs -> 0..MaxAttempts] /\ failures \in [Reminders -> Nat]
  BY <1>1 DEF AgreeInv, TypeInv, TypeOK
<1>3. \A r \in Reminders : Good(r)
  BY DEF CountInv, CountedOnce, AttemptsAreFailures
<1>4. \A r \in Reminders :
         /\ reminder[r] \in {"absent", "pending"} => row[<<r, 1>>] = "none"
         /\ reminder[r] = "queued" <=> row[<<r, 1>>] = "open"
         /\ row[<<r, 1>>] = "none" => reminder[r] \in {"absent", "pending", "gone"}
  BY <1>1, <1>2, ZenonT(60) DEF AgreeInv, JobsAgree
<1>5. \A w \in Workers, j \in Jobs :
         stage[w][j] # "none" =>
            /\ j = <<ReminderOf(j), 1>>
            /\ reminder[ReminderOf(j)] \notin {"absent", "pending"}
            /\ row[j] # "none" \/ reminder[ReminderOf(j)] = "gone"
  BY <1>1, <1>4, JobIsRow DEF AgreeInv, OneRow, CountInv, CountedOnce
<1> HIDE DEF Good
<1>6. ASSUME NEW s \in Schedulers, TickMaterialize(s)
      PROVE  (\A r \in Reminders : Good(r))'
  <2>1. UNCHANGED <<row, attempts, failures>>
    BY <1>6 DEF TickMaterialize, jobVars, deliveryVars
  <2>2. \A r \in Reminders : \/ reminder'[r] = reminder[r]
                             \/ reminder[r] = "absent" /\ reminder'[r] = "pending"
    BY <1>2, <1>6 DEF TickMaterialize
  <2> QED
    BY <1>3, <2>1, <2>2 DEF Good
<1>7. ASSUME NEW s \in Schedulers, TickEnqueue(s)
      PROVE  (\A r \in Reminders : Good(r))'
  <2> SUFFICES ASSUME NEW r \in Reminders PROVE Good(r)'
    OBVIOUS
  <2> DEFINE new == {NewJob(q) : q \in Enqueued(s)}
  <2>1. \A q \in Enqueued(s) : q \in Reminders /\ reminder[q] = "pending"
    BY <1>1 DEF Enqueued, AgreeInv, TypeInv, TypeOK
  <2>2. \A q \in Enqueued(s) : NewJob(q) = <<q, 1>>
    BY <1>4, <2>1 DEF NewJob
  <2>3. <<r, 1>> \in new <=> r \in Enqueued(s)
    BY <2>2
  <2>4. /\ reminder'[r] = IF r \in Enqueued(s) THEN "queued" ELSE reminder[r]
        /\ row'[<<r, 1>>] = IF <<r, 1>> \in new THEN "open" ELSE row[<<r, 1>>]
        /\ attempts'[<<r, 1>>] = IF <<r, 1>> \in new THEN 0 ELSE attempts[<<r, 1>>]
        /\ UNCHANGED failures
    BY <1>7, RowIsJob DEF TickEnqueue, deliveryVars
  <2> HIDE DEF new
  <2> QED
    BY <1>3, <2>1, <2>3, <2>4 DEF Good
<1>8. ASSUME NEW w \in Workers, NEW j \in Jobs, NEW reply \in Replies,
             Decisions(w, j, reply)
      PROVE  (\A r \in Reminders : Good(r))'
  <2> SUFFICES ASSUME NEW r \in Reminders PROVE Good(r)'
    OBVIOUS
  <2>1. j = <<ReminderOf(j), 1>> /\ ReminderOf(j) \in Reminders
    BY <1>5, <1>8, JobFacts DEF Decisions, SkipNoTarget, Complete, RetryOrDeadLetter
  <2>2. ASSUME NEW v \in {"sent", "skipped"}, Decide(ReminderOf(j), v)
        PROVE  reminder'[r] = reminder[r] \/ reminder'[r] = v
    BY <1>2, <2>2 DEF Decide
  <2>3. CASE SkipNoTarget(w, j, reply) \/ Complete(w, j, reply)
    <3>1. UNCHANGED <<attempts, failures>>
      BY <2>3 DEF SkipNoTarget, Complete, deliveryVars
    <3>2. reminder'[r] = reminder[r] \/ reminder'[r] \in {"sent", "skipped"}
      BY <2>2, <2>3 DEF SkipNoTarget, Complete
    <3>3. row'[<<r, 1>>] = "none" => row[<<r, 1>>] = "none"
      BY <1>2, <2>3, RowIsJob DEF SkipNoTarget, Complete
    <3> QED
      BY <1>3, <3>1, <3>2, <3>3 DEF Good
  <2>4. CASE RetryOrDeadLetter(w, j, reply)
    <3> DEFINE q == ReminderOf(j)
    <3>1. failures' = [failures EXCEPT ![q] = @ + 1]
      BY <2>4 DEF RetryOrDeadLetter
    <3>2. reminder[q] \notin {"absent", "pending", "gone"}
      BY <1>5, <2>4 DEF RetryOrDeadLetter
    <3>3. CASE row[j] # "open"
      <4>1. UNCHANGED <<reminder, row, attempts>>
        BY <2>4, <3>3 DEF RetryOrDeadLetter
      <4>2. reminder[q] # "queued"
        BY <1>4, <2>1, <3>3
      <4> QED
        BY <1>2, <1>3, <2>1, <3>1, <3>2, <4>1, <4>2, RowIsJob DEF Good
    <3>4. CASE row[j] = "open"
      <4>1. attempts' = [attempts EXCEPT ![j] = @ + 1]
        BY <2>4, <3>4 DEF RetryOrDeadLetter, Counted
      <4>2. reminder[q] = "queued" /\ failures[q] = attempts[<<q, 1>>]
        BY <1>3, <1>4, <2>1, <3>4 DEF Good
      <4>3. /\ reminder'[r] = reminder[r] \/ (r = q /\ reminder'[r] = "failed")
            /\ row'[<<r, 1>>] = "none" => row[<<r, 1>>] = "none"
        BY <1>2, <2>4, <3>4, RowIsJob, ZenonT(60) DEF RetryOrDeadLetter, Decide
      <4>4. CASE r = q
        <5>1. /\ failures'[r] = failures[r] + 1
              /\ attempts'[<<r, 1>>] = attempts[<<r, 1>>] + 1
          BY <1>2, <2>1, <3>1, <4>1, <4>4
        <5>2. failures[r] \in Nat /\ attempts[<<r, 1>>] \in Nat
          <6>1. attempts[<<r, 1>>] \in 0..MaxAttempts
            BY <1>2, RowIsJob
          <6> QED
            BY <1>2, <6>1
        <5>3. row'[<<r, 1>>] # "none"
          BY <2>1, <3>4, <4>3, <4>4
        <5> QED
          BY <4>2, <4>3, <4>4, <5>1, <5>2, <5>3 DEF Good
      <4>5. CASE r # q
        <5>1. <<r, 1>> # j
          BY <2>1, <4>5
        <5>2. failures'[r] = failures[r] /\ attempts'[<<r, 1>>] = attempts[<<r, 1>>]
          BY <1>2, <3>1, <4>1, <4>5, <5>1, RowIsJob
        <5> QED
          BY <1>3, <4>3, <4>5, <5>2 DEF Good
      <4> QED
        BY <4>4, <4>5
    <3> QED
      BY <3>3, <3>4
  <2> QED
    BY <1>8, <2>3, <2>4 DEF Decisions
<1>9. ASSUME Reseed PROVE (\A r \in Reminders : Good(r))'
  <2> SUFFICES ASSUME NEW r \in Reminders PROVE Good(r)'
    OBVIOUS
  <2>1. CASE r \in Seeded
    <3>1. reminder'[r] = "gone" /\ (row'[<<r, 1>>] = "none" => row[<<r, 1>>] = "none")
      BY <1>2, <1>9, <2>1, RowIsJob DEF Reseed
    <3>2. attempts'[<<r, 1>>] \in {0, attempts[<<r, 1>>]}
      BY <1>9, RowIsJob DEF Reseed
    <3> QED
      BY <1>3, <3>1, <3>2 DEF Good
  <2>2. CASE r \notin Seeded
    <3>1. /\ reminder'[r] = reminder[r] /\ failures'[r] = failures[r]
          /\ row'[<<r, 1>>] = row[<<r, 1>>] /\ attempts'[<<r, 1>>] = attempts[<<r, 1>>]
      BY <1>9, <2>2, RowIsJob DEF Reseed
    <3> QED
      BY <1>3, <3>1 DEF Good
  <2> QED
    BY <2>1, <2>2
<1>10. ASSUME UNCHANGED <<reminder, row, attempts, failures>>
       PROVE  (\A r \in Reminders : Good(r))'
  BY <1>3, <1>10 DEF Good
<1>11. ASSUME NEW w \in Workers, NEW S \in SUBSET Jobs, Claim(w, S)
       PROVE  (\A r \in Reminders : Good(r))'
  BY <1>10, <1>11 DEF Claim, reminderVars, deliveryVars
<1>12. ASSUME NEW j \in Jobs, LockAges(j) PROVE (\A r \in Reminders : Good(r))'
  BY <1>10, <1>12 DEF LockAges, reminderVars, deliveryVars
<1>13. ASSUME UNCHANGED tableVars PROVE (\A r \in Reminders : Good(r))'
  BY <1>10, <1>13 DEF tableVars
<1>14. (\A r \in Reminders : Good(r))'
  BY <1>6, <1>7, <1>8, <1>9, <1>11, <1>12, <1>13, TableSteps DEF TableStep
<1>15. ASSUME NEW r \in Reminders, NEW w \in Workers,
              reminder'[r] \in {"absent", "pending"}
       PROVE  stage'[w][<<r, 1>>] = "none"
  <2>1. reminder[r] \in {"absent", "pending"}
    <3>1. ASSUME reminder[r] \in Verdicts PROVE FALSE
      BY <1>2, <1>15, <3>1, StepKeepsVerdicts
    <3>2. ASSUME reminder[r] \in {"queued", "gone"} PROVE FALSE
      BY <1>2, <1>15, <3>2, StepForward
    <3> QED
      BY <1>2, <3>1, <3>2
  <2>2. row[<<r, 1>>] # "open" /\ stage[w][<<r, 1>>] = "none"
    BY <1>4, <2>1 DEF CountInv, CountedOnce
  <2> QED
    BY <1>2, <2>2, StageSteps, RowIsJob
<1> QED
  BY <1>1, <1>14, <1>15 DEF Good, CountInv, CountedOnce, AttemptsAreFailures

\* While a reminder is queued its attempts are exactly the failures that
\* were recorded: no failure is lost to a concurrent one of the same job,
\* and no reclaim or death of a worker counts as one.
THEOREM AttemptsAlwaysFailures == Spec => []AttemptsAreFailures
<1>1. CountInv => AttemptsAreFailures
  BY DEF CountInv
<1> QED
  BY <1>1, InitCounts, NextCounts, PTL DEF Spec

-----------------------------------------------------------------------------
(* The queue implements the life one reminder is promised.                 *)

\* Only an ordinary user is found without a target.
SkipsOrdinary ==
  \A w \in Workers, j \in Jobs : stage[w][j] = "noTarget" => ReminderOf(j) \notin Seeded

LifeInv == CountInv /\ SkipsOrdinary

LEMMA InitLife == Init => LifeInv
<1> SUFFICES ASSUME Init PROVE LifeInv
  OBVIOUS
<1>1. stage = [w \in Workers |-> [j \in Jobs |-> "none"]]
  BY DEF Init
<1> QED
  BY <1>1, InitCounts DEF LifeInv, SkipsOrdinary

LEMMA NextLife == LifeInv /\ [Next]_vars => LifeInv'
<1> SUFFICES ASSUME LifeInv, [Next]_vars PROVE LifeInv'
  OBVIOUS
<1>1. TypeInv /\ CountInv'
  BY NextCounts DEF LifeInv, CountInv, AgreeInv
<1>2. SkipsOrdinary'
  BY <1>1, StageSteps DEF LifeInv, SkipsOrdinary
<1> QED
  BY <1>1, <1>2 DEF LifeInv

Tried == [r \in Reminders |-> attempts[<<r, 1>>]]

LEMMA StepImplements ==
  ASSUME LifeInv, [Next]_vars
  PROVE  [Lifecycle!Next]_(Lifecycle!vars)
<1>1. /\ AgreeInv /\ TypeInv /\ CountedOnce
      /\ reminder \in [Reminders -> ReminderStates] /\ row \in [Jobs -> RowStates]
      /\ attempts \in [Jobs -> 0..MaxAttempts]
  BY DEF LifeInv, CountInv, AgreeInv, TypeInv, TypeOK
<1>2. Lifecycle!vars = <<reminder, Tried>>
  BY DEF Lifecycle!vars, Tried
<1>3. \A r \in Reminders :
         /\ reminder[r] \in {"absent", "pending"} => row[<<r, 1>>] = "none"
         /\ reminder[r] = "queued" <=> row[<<r, 1>>] = "open"
         /\ row[<<r, 1>>] = "none" => attempts[<<r, 1>>] = 0
  BY <1>1 DEF AgreeInv, JobsAgree, CountedOnce
<1>4. \A w \in Workers, j \in Jobs : stage[w][j] # "none" => j = <<ReminderOf(j), 1>>
  BY <1>1, JobIsRow DEF AgreeInv, OneRow
<1>5. ASSUME UNCHANGED <<reminder, attempts>> PROVE UNCHANGED Lifecycle!vars
  BY <1>5 DEF Lifecycle!vars
<1>6. ASSUME NEW s \in Schedulers, TickMaterialize(s) PROVE Lifecycle!Next
  <2>1. PICK S \in SUBSET {r \in Reminders \ Seeded : reminder[r] = "absent"} :
           reminder' = [r \in Reminders |-> IF r \in S THEN "pending" ELSE reminder[r]]
    BY <1>6 DEF TickMaterialize
  <2>2. Tried' = Tried
    BY <1>6 DEF TickMaterialize, jobVars, Tried
  <2>3. Lifecycle!Materialize(S)
    BY <2>1, <2>2 DEF Lifecycle!Materialize, Lifecycle!Moved, Tried
  <2> QED
    BY <2>3 DEF Lifecycle!Next
<1>7. ASSUME NEW s \in Schedulers, TickEnqueue(s) PROVE Lifecycle!Next
  <2> DEFINE new == {NewJob(q) : q \in Enqueued(s)}
  <2>1. \A q \in Enqueued(s) : q \in Reminders /\ reminder[q] = "pending"
    BY <1>1 DEF Enqueued, TypeInv, TypeOK
  <2>2. \A q \in Enqueued(s) : NewJob(q) = <<q, 1>>
    BY <1>3, <2>1 DEF NewJob
  <2>3. /\ reminder' = [r \in Reminders |-> IF r \in Enqueued(s) THEN "queued" ELSE reminder[r]]
        /\ attempts' = [j \in Jobs |-> IF j \in new THEN 0 ELSE attempts[j]]
    BY <1>7 DEF TickEnqueue
  <2> HIDE DEF new
  <2>4. ASSUME NEW r \in Reminders PROVE attempts'[<<r, 1>>] = attempts[<<r, 1>>]
    <3>1. <<r, 1>> \in new => attempts[<<r, 1>>] = 0
      BY <1>3, <2>1, <2>2 DEF new
    <3> QED
      BY <2>3, <3>1, RowIsJob
  <2>5. Tried' = Tried
    BY <2>4 DEF Tried
  <2>6. Lifecycle!Enqueue(Enqueued(s))
    BY <2>1, <2>3, <2>5 DEF Lifecycle!Enqueue, Lifecycle!Moved, Tried
  <2>7. Enqueued(s) \in SUBSET Reminders
    BY <2>1
  <2> QED
    BY <2>6, <2>7 DEF Lifecycle!Next
<1>8. ASSUME NEW w \in Workers, NEW j \in Jobs, NEW reply \in Replies,
             Decisions(w, j, reply)
      PROVE  Lifecycle!Next \/ UNCHANGED Lifecycle!vars
  <2> DEFINE q == ReminderOf(j)
  <2>1. j = <<q, 1>> /\ q \in Reminders
    BY <1>4, <1>8, JobFacts DEF Decisions, SkipNoTarget, Complete, RetryOrDeadLetter
  <2>2. reminder[q] = "queued" <=> row[j] = "open"
    BY <1>3, <2>1
  <2> HIDE DEF q
  <2>3. ASSUME Decide(q, "sent"), UNCHANGED attempts
        PROVE  Lifecycle!Next \/ UNCHANGED Lifecycle!vars
    <3>1. CASE reminder[q] = "queued"
      <4>1. Lifecycle!Send(q)
        BY <2>3, <3>1 DEF Decide, Lifecycle!Send
      <4> QED
        BY <2>1, <4>1 DEF Lifecycle!Next
    <3>2. CASE reminder[q] # "queued"
      <4>1. UNCHANGED reminder
        BY <1>1, <2>1, <2>3, <3>2 DEF Decide
      <4> QED
        BY <1>5, <2>3, <4>1
    <3> QED
      BY <3>1, <3>2
  <2>4. CASE Complete(w, j, reply)
    BY <2>3, <2>4 DEF Complete, q
  <2>5. CASE SkipNoTarget(w, j, reply)
    <3>1. CASE row[j] = "open"
      <4>1. q \notin Seeded
        BY <2>5 DEF LifeInv, SkipsOrdinary, SkipNoTarget, q
      <4>2. Decide(q, "skipped") /\ UNCHANGED attempts
        BY <2>5, <3>1 DEF SkipNoTarget, q
      <4>3. Lifecycle!Skip(q)
        BY <2>2, <3>1, <4>1, <4>2 DEF Decide, Lifecycle!Skip
      <4> QED
        BY <2>1, <4>3 DEF Lifecycle!Next
    <3>2. CASE row[j] # "open"
      BY <1>5, <2>5, <3>2 DEF SkipNoTarget
    <3> QED
      BY <3>1, <3>2
  <2>6. CASE RetryOrDeadLetter(w, j, reply)
    <3>1. CASE row[j] # "open"
      BY <1>5, <2>6, <3>1 DEF RetryOrDeadLetter
    <3>2. CASE row[j] = "open"
      <4>1. attempts' = [attempts EXCEPT ![j] = @ + 1]
        BY <2>6, <3>2 DEF RetryOrDeadLetter, Counted
      <4>2. ASSUME NEW r \in Reminders
            PROVE  attempts'[<<r, 1>>] = IF r = q THEN attempts[<<r, 1>>] + 1
                                                  ELSE attempts[<<r, 1>>]
        BY <1>1, <2>1, <4>1, RowIsJob
      <4>3. Tried' = [Tried EXCEPT ![q] = @ + 1] /\ Tried[q] = attempts[j]
        BY <2>1, <4>2 DEF Tried
      <4>4. CASE Retries(j)
        <5>1. UNCHANGED reminder
          BY <2>6, <3>2, <4>4 DEF RetryOrDeadLetter
        <5>2. Lifecycle!Retry(q)
          BY <2>2, <3>2, <4>3, <4>4, <5>1 DEF Lifecycle!Retry, Tried, Retries
        <5> QED
          BY <2>1, <5>2 DEF Lifecycle!Next
      <4>5. CASE ~Retries(j)
        <5>1. Decide(q, "failed")
          BY <2>6, <3>2, <4>5 DEF RetryOrDeadLetter, q
        <5>2. reminder' = [reminder EXCEPT ![q] = "failed"]
          BY <2>2, <3>2, <5>1 DEF Decide
        <5>3. Tried[q] + 1 = MaxAttempts
          <6>1. attempts[j] \in 0..MaxAttempts /\ attempts[j] < MaxAttempts
            BY <1>1, <3>2 DEF TypeInv, CeilingHolds
          <6>2. ~(attempts[j] + 1 < MaxAttempts)
            BY <4>5 DEF Retries
          <6> QED
            BY <4>3, <6>1, <6>2, LastAttempt
        <5>4. Lifecycle!GiveUp(q)
          BY <2>2, <3>2, <4>3, <5>2, <5>3 DEF Lifecycle!GiveUp, Tried
        <5> QED
          BY <2>1, <5>4 DEF Lifecycle!Next
      <4> QED
        BY <4>4, <4>5
    <3> QED
      BY <3>1, <3>2
  <2> QED
    BY <1>8, <2>4, <2>5, <2>6 DEF Decisions
<1>9. ASSUME Reseed PROVE Lifecycle!Next
  <2>1. reminder' = [r \in Reminders |-> IF r \in Seeded THEN "gone" ELSE reminder[r]]
    BY <1>9 DEF Reseed
  <2>2. ASSUME NEW r \in Reminders
        PROVE  attempts'[<<r, 1>>] = IF r \in Seeded THEN 0 ELSE attempts[<<r, 1>>]
    BY <1>3, <1>9, RowIsJob DEF Reseed
  <2>3. Tried' = [r \in Reminders |-> IF r \in Seeded THEN 0 ELSE Tried[r]]
    BY <2>2 DEF Tried
  <2>4. Lifecycle!Replace
    BY <2>1, <2>3 DEF Lifecycle!Replace, Lifecycle!Moved, Tried
  <2> QED
    BY <2>4 DEF Lifecycle!Next
<1>10. ASSUME NEW w \in Workers, NEW S \in SUBSET Jobs, Claim(w, S)
       PROVE  UNCHANGED Lifecycle!vars
  BY <1>5, <1>10 DEF Claim, reminderVars
<1>11. ASSUME NEW j \in Jobs, LockAges(j) PROVE UNCHANGED Lifecycle!vars
  BY <1>5, <1>11 DEF LockAges, reminderVars
<1>12. ASSUME UNCHANGED tableVars PROVE UNCHANGED Lifecycle!vars
  BY <1>5, <1>12 DEF tableVars
<1> QED
  BY <1>6, <1>7, <1>8, <1>9, <1>10, <1>11, <1>12, TableSteps DEF TableStep

\* Every run of the queue, its schedulers, workers, crashes and clocks, is
\* seen through the reminders table a run of ReminderLifecycle.
THEOREM QueueImplementsLifecycle == Spec => ImplementsLifecycle
<1>1. Init => Lifecycle!Init
  <2> SUFFICES ASSUME Init PROVE Lifecycle!Init
    OBVIOUS
  <2>1. /\ reminder = [r \in Reminders |-> IF r \in Seeded THEN "pending" ELSE "absent"]
        /\ attempts = [j \in Jobs |-> 0]
    BY DEF Init
  <2> QED
    BY <2>1, RowIsJob DEF Lifecycle!Init
<1>2. LifeInv /\ [Next]_vars => [Lifecycle!Next]_(Lifecycle!vars)
  BY StepImplements
<1> QED
  BY <1>1, <1>2, InitLife, NextLife, PTL DEF Spec, ImplementsLifecycle, Lifecycle!Spec

-----------------------------------------------------------------------------
(* What the attempts of a worker rest on.                                  *)

\* The steps that touch the batch of a worker, its loop, or the lock and
\* the attempts of a job.
AttemptMoves(w, j) ==
    \/ ReadCards(w, j) \/ ReadFails(w, j) \/ InputFails(w, j)
    \/ SendsAnswered(w, j) \/ RecordFails(w, j)
    \/ \E reply \in Replies : Decisions(w, j, reply)

LoopMoves(w) ==
    \/ Load(w) \/ Probe(w) \/ EndBatch(w)
    \/ Start(w) \/ GoClaim(w) \/ ClaimNothing(w)

workVars == <<stage, to, fresh, phase, tripped, row, attempts, lock, lockedBy>>

WorkStep ==
    \/ \E w \in Workers, S \in SUBSET Jobs : Claim(w, S)
    \/ \E w \in Workers : Exit(w) /\ UNCHANGED <<row, attempts, lock>>
    \/ \E w \in Workers : LoopMoves(w)
    \/ \E w \in Workers, j \in Jobs : AttemptMoves(w, j) \/ ClaimAges(w, j)
    \/ \E s \in Schedulers : TickEnqueue(s)
    \/ \E j \in Jobs : LockAges(j)
    \/ Reseed

LEMMA WorkSteps ==
  ASSUME [Next]_vars
  PROVE  WorkStep \/ UNCHANGED workVars
<1> USE DEF workVars, jobVars, attemptVars, loopVars
<1>1. ASSUME NEW s \in Schedulers, TickMaterialize(s) \/ TickReadDue(s) \/ TickDies(s)
      PROVE  UNCHANGED workVars
  BY <1>1 DEF TickMaterialize, TickReadDue, TickDies
<1>2. ASSUME NEW w \in Workers, Signal(w) PROVE UNCHANGED workVars
  BY <1>2 DEF Signal
<1>3. ASSUME NEW r \in Reminders, NEW t \in Tokens, Register(r, t) \/ Unregister(r, t)
      PROVE  UNCHANGED workVars
  BY <1>3 DEF Register, Unregister
<1>4. ASSUME NEW r \in Reminders, ScheduledTimeArrives(r) PROVE UNCHANGED workVars
  BY <1>4 DEF ScheduledTimeArrives
<1>5. ASSUME NEW j \in Jobs, BackoffElapses(j) PROVE UNCHANGED workVars
  BY <1>5 DEF BackoffElapses
<1>6. ASSUME ReadsGoDown \/ ReadsComeBack PROVE UNCHANGED workVars
  BY <1>6 DEF ReadsGoDown, ReadsComeBack
<1>7. ASSUME UNCHANGED vars PROVE UNCHANGED workVars
  BY <1>7 DEF vars
<1>8. ASSUME NEW w \in Workers, Crash(w) \/ StopAtTop(w) \/ ThrowBatch(w)
      PROVE  Exit(w) /\ UNCHANGED <<row, attempts, lock>>
  BY <1>8 DEF Crash, StopAtTop, ThrowBatch
<1> HIDE DEF workVars, jobVars, attemptVars, loopVars
<1> QED
  BY <1>1, <1>2, <1>3, <1>4, <1>5, <1>6, <1>7, <1>8
     DEF WorkStep, LoopMoves, AttemptMoves, Decisions,
         Next, Tick, Loop, Attempt, Record, Interference, Time

\* One attempt at a time moves, and only an attempt that is under way.
LEMMA AttemptAdvances ==
  ASSUME TypeInv, NEW w \in Workers, NEW j \in Jobs, AttemptMoves(w, j)
  PROVE  /\ stage[w][j] \in InFlight
         /\ \E s \in {"sending", "answered", "recorded", "rejected", "skipped", "unread"} :
               /\ stage' = [stage EXCEPT ![w][j] = s]
               /\ IF s \in {"sending", "answered"}
                  THEN /\ UNCHANGED to
                       /\ stage[w][j] \in {"loaded", "sending"}
                  ELSE to' = [to EXCEPT ![w][j] = {}]
               /\ IF s = "unread" THEN tripped' = [tripped EXCEPT ![w] = TRUE]
                                  ELSE UNCHANGED tripped
         /\ UNCHANGED phase
<1>1. CASE ReadCards(w, j)
  BY <1>1 DEF ReadCards, loopVars
<1>2. CASE ReadFails(w, j)
  BY <1>2 DEF ReadFails, Settle
<1>3. CASE InputFails(w, j)
  BY <1>3 DEF InputFails, Settle, loopVars
<1>4. CASE SendsAnswered(w, j)
  BY <1>4 DEF SendsAnswered, loopVars
<1>5. CASE RecordFails(w, j)
  BY <1>5 DEF RecordFails, Settle, loopVars
<1>6. ASSUME NEW reply \in Replies, Decisions(w, j, reply)
      PROVE  /\ stage[w][j] \in InFlight
             /\ reply \in {"recorded", "rejected"}
             /\ stage' = [stage EXCEPT ![w][j] = reply]
             /\ to' = [to EXCEPT ![w][j] = {}]
             /\ UNCHANGED <<phase, tripped>>
  <2>1. CASE SkipNoTarget(w, j, reply)
    BY <2>1 DEF SkipNoTarget, Settle, loopVars
  <2>2. CASE Complete(w, j, reply)
    BY <2>2 DEF Complete, Settle, loopVars
  <2>3. CASE RetryOrDeadLetter(w, j, reply)
    BY <2>3 DEF RetryOrDeadLetter, Settle, loopVars
  <2> QED
    BY <1>6, <2>1, <2>2, <2>3 DEF Decisions
<1>7. CASE \E reply \in Replies : Decisions(w, j, reply)
  <2>1. PICK reply \in Replies : Decisions(w, j, reply)
    BY <1>7
  <2> QED
    BY <1>6, <2>1
<1> QED
  BY <1>1, <1>2, <1>3, <1>4, <1>5, <1>7 DEF AttemptMoves

\* What is recorded of an attempt reopens no job, locks none, and leaves its
\* own job, if it is the worker that hears of it, settled or free.
LEMMA RecordReleases ==
  ASSUME TypeInv, NEW w \in Workers, NEW j \in Jobs, AttemptMoves(w, j)
  PROVE  /\ UNCHANGED lockedBy
         /\ stage'[w][j] = "recorded" => row'[j] # "open" \/ lock'[j] = "free"
         /\ \A i \in Jobs :
               /\ row'[i] \in {"none", "open"} => row[i] = row'[i]
               /\ lock'[i] \in {lock[i], "free"}
               /\ row'[i] = "open" /\ attempts'[i] = 0
                  => lock'[i] = lock[i] /\ attempts[i] = 0
         /\ \A v \in Workers : fresh'[v] \subseteq fresh[v]
<1>0. /\ row \in [Jobs -> RowStates] /\ lock \in [Jobs -> {"free", "live", "stale"}]
      /\ attempts \in [Jobs -> 0..MaxAttempts] /\ attempts \in [Jobs -> Nat]
      /\ stage \in [Workers -> [Jobs -> Stages]]
      /\ fresh \in [Workers -> SUBSET Jobs]
  BY DEF TypeInv, TypeOK
<1>1. ASSUME UNCHANGED jobVars, stage'[w][j] # "recorded",
             \A v \in Workers : fresh'[v] \subseteq fresh[v]
      PROVE  /\ UNCHANGED <<row, lock, lockedBy, attempts>>
             /\ stage'[w][j] # "recorded"
             /\ \A v \in Workers : fresh'[v] \subseteq fresh[v]
  BY <1>1 DEF jobVars
<1>2. CASE ReadCards(w, j) \/ SendsAnswered(w, j)
  <2>1. stage'[w][j] # "recorded" /\ UNCHANGED fresh
    BY <1>0, <1>2 DEF ReadCards, SendsAnswered
  <2> QED
    BY <1>1, <1>2, <2>1 DEF ReadCards, SendsAnswered
<1>3. CASE ReadFails(w, j) \/ InputFails(w, j) \/ RecordFails(w, j)
  <2>1. PICK s \in {"unread", "skipped", "rejected"} : Settle(w, j, s)
    BY <1>3 DEF ReadFails, InputFails, RecordFails
  <2>2. stage'[w][j] # "recorded" /\ \A v \in Workers : fresh'[v] \subseteq fresh[v]
    BY <1>0, <2>1 DEF Settle
  <2> QED
    BY <1>1, <1>3, <2>2 DEF ReadFails, InputFails, RecordFails
<1>4. ASSUME NEW reply \in Replies, SkipNoTarget(w, j, reply) \/ Complete(w, j, reply)
      PROVE  /\ UNCHANGED <<lock, lockedBy, attempts>>
             /\ row'[j] # "open"
             /\ \A i \in Jobs : row'[i] \in {"none", "open"} => row[i] = row'[i]
             /\ \A v \in Workers : fresh'[v] \subseteq fresh[v]
  <2>1. UNCHANGED <<lock, lockedBy, attempts>> /\ Settle(w, j, reply)
    BY <1>4 DEF SkipNoTarget, Complete
  <2>2. (UNCHANGED row /\ row[j] # "open") \/ row' = [row EXCEPT ![j] = "done"]
    BY <1>0, <1>4 DEF SkipNoTarget, Complete
  <2>3. \A v \in Workers : fresh'[v] \subseteq fresh[v]
    BY <1>0, <2>1 DEF Settle
  <2> QED
    BY <1>0, <2>1, <2>2, <2>3
<1>5. ASSUME NEW reply \in Replies, RetryOrDeadLetter(w, j, reply)
      PROVE  /\ UNCHANGED lockedBy
             /\ row'[j] # "open" \/ lock'[j] = "free"
             /\ \A i \in Jobs :
                   /\ row'[i] \in {"none", "open"} => row[i] = row'[i]
                   /\ lock'[i] \in {lock[i], "free"}
                   /\ row'[i] = "open" /\ attempts'[i] = 0
                      => lock'[i] = lock[i] /\ attempts[i] = 0
             /\ \A v \in Workers : fresh'[v] \subseteq fresh[v]
  <2>1. \A v \in Workers : fresh'[v] \subseteq fresh[v]
    BY <1>5 DEF RetryOrDeadLetter, Settle
  <2>2. UNCHANGED lockedBy
    BY <1>5 DEF RetryOrDeadLetter
  <2>3. CASE row[j] # "open"
    BY <1>5, <2>1, <2>2, <2>3 DEF RetryOrDeadLetter
  <2>4. CASE row[j] = "open" /\ Retries(j)
    <3>1. /\ attempts' = [attempts EXCEPT ![j] = @ + 1]
          /\ lock' = [lock EXCEPT ![j] = "free"]
          /\ UNCHANGED row
      BY <1>5, <2>4 DEF RetryOrDeadLetter, Counted
    <3>2. attempts'[j] # 0
      BY <1>0, <3>1
    <3> QED
      BY <1>0, <2>1, <2>2, <3>1, <3>2
  <2>5. CASE row[j] = "open" /\ ~Retries(j)
    <3>1. /\ attempts' = [attempts EXCEPT ![j] = @ + 1]
          /\ row' = [row EXCEPT ![j] = "dead"]
          /\ UNCHANGED lock
      BY <1>5, <2>5 DEF RetryOrDeadLetter, Counted
    <3> QED
      BY <1>0, <2>1, <2>2, <3>1
  <2> QED
    BY <2>3, <2>4, <2>5
<1>6. CASE \E reply \in Replies : Decisions(w, j, reply)
  <2>1. PICK reply \in Replies : Decisions(w, j, reply)
    BY <1>6
  <2> QED
    BY <1>4, <1>5, <2>1 DEF Decisions
<1> QED
  BY <1>1, <1>2, <1>3, <1>6 DEF AttemptMoves

-----------------------------------------------------------------------------
(* What is sent, and what a verdict rests on.                              *)

\* An attempt that has targets has at least one; the null target is never
\* among those of an ordinary user.
TargetsLoaded ==
  \A w \in Workers, j \in Jobs :
    /\ stage[w][j] \in {"loaded", "sending", "answered"} => to[w][j] # {}
    /\ ReminderOf(j) \notin Seeded => NoToken \notin to[w][j]

SentHaveRows == \A r \in Reminders : reminder[r] = "sent" => sentTo[r] # {}

EvidenceInv == CountInv /\ TargetsLoaded /\ SentHaveRows /\ OrdinaryNeverSimulated

LEMMA NextTargets ==
  ASSUME TypeInv, TargetsLoaded, [Next]_vars
  PROVE  TargetsLoaded'
<1>1. /\ stage \in [Workers -> [Jobs -> Stages]]
      /\ to \in [Workers -> [Jobs -> SUBSET Targets]]
      /\ tokens \in [Reminders -> SUBSET Tokens]
  BY DEF TypeInv, TypeOK
<1>2. \A w \in Workers, j \in Jobs :
         /\ stage[w][j] \in {"loaded", "sending", "answered"} => to[w][j] # {}
         /\ ReminderOf(j) \notin Seeded => NoToken \notin to[w][j]
  BY DEF TargetsLoaded
<1>3. ASSUME UNCHANGED to,
             \A w \in Workers, j \in Jobs :
                stage'[w][j] \in {"loaded", "sending", "answered"}
                => stage[w][j] \in {"loaded", "sending", "answered"}
      PROVE  TargetsLoaded'
  BY <1>2, <1>3 DEF TargetsLoaded
<1>4. ASSUME NEW w \in Workers, NEW S \in SUBSET Jobs, Claim(w, S) PROVE TargetsLoaded'
  BY <1>1, <1>3, <1>4 DEF Claim
<1>5. ASSUME NEW w \in Workers, Exit(w) PROVE TargetsLoaded'
  BY <1>1, <1>2, <1>5 DEF Exit, TargetsLoaded
<1>6. ASSUME NEW w \in Workers, Load(w) PROVE TargetsLoaded'
  <2> SUFFICES ASSUME NEW v \in Workers, NEW j \in Jobs
               PROVE  /\ stage'[v][j] \in {"loaded", "sending", "answered"} => to'[v][j] # {}
                      /\ ReminderOf(j) \notin Seeded => NoToken \notin to'[v][j]
    BY DEF TargetsLoaded
  <2>1. CASE v = w /\ stage[w][j] = "claimed"
    <3> DEFINE r == ReminderOf(j)
    <3>1. /\ stage'[w][j] = Opened(r)
          /\ to'[w][j] = IF Opened(r) = "loaded" THEN SendTargets(r) ELSE to[w][j]
      BY <1>1, <1>6, <2>1 DEF Load
    <3>2. SendTargets(r) # {}
      BY DEF SendTargets
    <3>3. r \in Reminders
      BY JobFacts
    <3>4. r \notin Seeded /\ Opened(r) = "loaded" => NoToken \notin SendTargets(r)
      BY <1>1, <3>3 DEF SendTargets, Opened
    <3>5. Opened(r) \in {"skipped", "noTarget", "loaded"}
      BY DEF Opened
    <3> HIDE DEF r
    <3> QED
      BY <1>2, <2>1, <3>1, <3>2, <3>4, <3>5 DEF r
  <2>2. CASE ~(v = w /\ stage[w][j] = "claimed")
    <3>1. stage'[v][j] = stage[v][j] /\ to'[v][j] = to[v][j]
      BY <1>1, <1>6, <2>2 DEF Load
    <3> QED
      BY <1>2, <3>1
  <2> QED
    BY <2>1, <2>2
<1>7. ASSUME NEW w \in Workers, Probe(w) \/ EndBatch(w) PROVE TargetsLoaded'
  <2>1. \A v \in Workers, j \in Jobs : stage'[v][j] \in {stage[v][j], "skipped", "none"}
    BY <1>1, <1>7 DEF Probe, EndBatch
  <2>2. UNCHANGED to
    BY <1>7 DEF Probe, EndBatch
  <2> QED
    BY <1>3, <2>1, <2>2
<1>8. ASSUME UNCHANGED <<stage, to>> PROVE TargetsLoaded'
  BY <1>3, <1>8
<1>9. ASSUME NEW w \in Workers, Start(w) \/ GoClaim(w) \/ ClaimNothing(w)
      PROVE  TargetsLoaded'
  BY <1>8, <1>9 DEF Start, GoClaim, ClaimNothing, attemptVars
<1>10. ASSUME NEW w \in Workers, NEW j \in Jobs, AttemptMoves(w, j) PROVE TargetsLoaded'
  <2>1. PICK s \in {"sending", "answered", "recorded", "rejected", "skipped", "unread"} :
           /\ stage' = [stage EXCEPT ![w][j] = s]
           /\ IF s \in {"sending", "answered"}
              THEN UNCHANGED to /\ stage[w][j] \in {"loaded", "sending"}
              ELSE to' = [to EXCEPT ![w][j] = {}]
    BY <1>10, AttemptAdvances
  <2>2. CASE s \in {"sending", "answered"}
    BY <1>1, <1>3, <2>1, <2>2
  <2>3. CASE s \notin {"sending", "answered"}
    <3>1. \A v \in Workers, i \in Jobs :
             \/ stage'[v][i] = stage[v][i] /\ to'[v][i] = to[v][i]
             \/ stage'[v][i] = s /\ to'[v][i] = {}
      BY <1>1, <2>1, <2>3
    <3> QED
      BY <1>2, <2>3, <3>1 DEF TargetsLoaded
  <2> QED
    BY <2>2, <2>3
<1>11. ASSUME NEW w \in Workers, NEW j \in Jobs, ClaimAges(w, j) PROVE TargetsLoaded'
  BY <1>8, <1>11 DEF ClaimAges
<1>12. ASSUME NEW s \in Schedulers, TickEnqueue(s) PROVE TargetsLoaded'
  BY <1>8, <1>12 DEF TickEnqueue, attemptVars
<1>13. ASSUME NEW j \in Jobs, LockAges(j) PROVE TargetsLoaded'
  BY <1>8, <1>13 DEF LockAges
<1>14. ASSUME Reseed PROVE TargetsLoaded'
  BY <1>8, <1>14 DEF Reseed, attemptVars
<1>15. ASSUME UNCHANGED workVars PROVE TargetsLoaded'
  BY <1>8, <1>15 DEF workVars
<1> QED
  BY <1>4, <1>5, <1>6, <1>7, <1>9, <1>10, <1>11, <1>12, <1>13, <1>14, <1>15, WorkSteps
     DEF WorkStep, LoopMoves

\* The deliveries of a reminder only grow, by targets of an attempt at it,
\* and a reminder becomes sent only with rows of its own.
LEMMA NextSent ==
  ASSUME TypeInv, TargetsLoaded, SentHaveRows, OrdinaryNeverSimulated, [Next]_vars
  PROVE  SentHaveRows' /\ OrdinaryNeverSimulated'
<1>1. /\ reminder \in [Reminders -> ReminderStates]
      /\ sentTo \in [Reminders -> SUBSET Targets]
  BY DEF TypeInv, TypeOK
<1>2. /\ \A r \in Reminders : reminder[r] = "sent" => sentTo[r] # {}
      /\ \A r \in Reminders \ Seeded : NoToken \notin sentTo[r]
  BY DEF SentHaveRows, OrdinaryNeverSimulated
<1>3. ASSUME \A r \in Reminders :
                /\ reminder'[r] = "sent" => reminder[r] = "sent"
                /\ sentTo'[r] = sentTo[r]
      PROVE  SentHaveRows' /\ OrdinaryNeverSimulated'
  BY <1>2, <1>3 DEF SentHaveRows, OrdinaryNeverSimulated
<1>4. ASSUME NEW s \in Schedulers, TickMaterialize(s) \/ TickEnqueue(s)
      PROVE  SentHaveRows' /\ OrdinaryNeverSimulated'
  <2>1. UNCHANGED sentTo
    BY <1>4 DEF TickMaterialize, TickEnqueue, deliveryVars
  <2>2. PICK S \in SUBSET Reminders, new \in {"pending", "queued"} :
           reminder' = [r \in Reminders |-> IF r \in S THEN new ELSE reminder[r]]
    <3>1. CASE TickMaterialize(s)
      BY <3>1 DEF TickMaterialize
    <3>2. CASE TickEnqueue(s)
      <4>1. Enqueued(s) \in SUBSET Reminders
        BY DEF Enqueued, TypeInv, TypeOK
      <4> QED
        BY <3>2, <4>1 DEF TickEnqueue
    <3> QED
      BY <1>4, <3>1, <3>2
  <2> QED
    BY <1>3, <2>1, <2>2
<1>5. ASSUME NEW w \in Workers, NEW j \in Jobs, RecordSends(w, j),
             \A r \in Reminders : reminder'[r] = "sent" /\ reminder[r] # "sent"
                                  => r = ReminderOf(j) /\ to[w][j] \ failed[w][j] # {}
      PROVE  SentHaveRows' /\ OrdinaryNeverSimulated'
  <2>1. ReminderOf(j) \in Reminders
    BY JobFacts
  <2>2. \A r \in Reminders :
           sentTo'[r] = IF r = ReminderOf(j) THEN sentTo[r] \cup (to[w][j] \ failed[w][j])
                                             ELSE sentTo[r]
    BY <1>1, <1>5, <2>1 DEF RecordSends
  <2>3. SentHaveRows'
    BY <1>2, <1>5, <2>2 DEF SentHaveRows
  <2>4. OrdinaryNeverSimulated'
    BY <1>2, <2>2 DEF OrdinaryNeverSimulated, TargetsLoaded
  <2> QED
    BY <2>3, <2>4
<1>6. ASSUME NEW w \in Workers, NEW j \in Jobs, NEW reply \in Replies,
             Decisions(w, j, reply)
      PROVE  SentHaveRows' /\ OrdinaryNeverSimulated'
  <2>1. ASSUME NEW v \in {"skipped", "failed"}, Decide(ReminderOf(j), v), NEW r \in Reminders
        PROVE  reminder'[r] = "sent" => reminder[r] = "sent"
    BY <1>1, <2>1 DEF Decide
  <2>2. CASE SkipNoTarget(w, j, reply)
    <3>1. UNCHANGED sentTo
      BY <2>2 DEF SkipNoTarget, deliveryVars
    <3>2. \A r \in Reminders : reminder'[r] = "sent" => reminder[r] = "sent"
      BY <2>1, <2>2 DEF SkipNoTarget
    <3> QED
      BY <1>3, <3>1, <3>2
  <2>3. CASE Complete(w, j, reply)
    <3>1. to[w][j] \ failed[w][j] # {}
      BY <2>3 DEF Complete, TargetsLoaded
    <3>2. \A r \in Reminders : reminder'[r] = "sent" /\ reminder[r] # "sent" => r = ReminderOf(j)
      BY <1>1, <2>3 DEF Complete, Decide
    <3>3. RecordSends(w, j)
      BY <2>3 DEF Complete
    <3> QED
      BY <1>5, <3>1, <3>2, <3>3
  <2>4. CASE RetryOrDeadLetter(w, j, reply)
    <3>1. \A r \in Reminders : reminder'[r] = "sent" => reminder[r] = "sent"
      BY <2>1, <2>4 DEF RetryOrDeadLetter
    <3>2. RecordSends(w, j)
      BY <2>4 DEF RetryOrDeadLetter
    <3> QED
      BY <1>5, <3>1, <3>2
  <2> QED
    BY <1>6, <2>2, <2>3, <2>4 DEF Decisions
<1>7. ASSUME Reseed PROVE SentHaveRows' /\ OrdinaryNeverSimulated'
  <2>1. \A r \in Reminders :
           \/ r \in Seeded /\ reminder'[r] = "gone"
           \/ reminder'[r] = reminder[r] /\ sentTo'[r] = sentTo[r]
    BY <1>7 DEF Reseed
  <2>2. \A r \in Reminders \ Seeded : sentTo'[r] = sentTo[r]
    BY <1>7 DEF Reseed
  <2> QED
    BY <1>2, <2>1, <2>2 DEF SentHaveRows, OrdinaryNeverSimulated
<1>8. ASSUME NEW w \in Workers, NEW S \in SUBSET Jobs, Claim(w, S)
      PROVE  SentHaveRows' /\ OrdinaryNeverSimulated'
  BY <1>3, <1>8 DEF Claim, reminderVars, deliveryVars
<1>9. ASSUME NEW j \in Jobs, LockAges(j)
      PROVE  SentHaveRows' /\ OrdinaryNeverSimulated'
  BY <1>3, <1>9 DEF LockAges, reminderVars, deliveryVars
<1>10. ASSUME UNCHANGED tableVars PROVE SentHaveRows' /\ OrdinaryNeverSimulated'
  BY <1>3, <1>10 DEF tableVars
<1> QED
  BY <1>4, <1>6, <1>7, <1>8, <1>9, <1>10, TableSteps DEF TableStep

LEMMA InitEvidence == Init => EvidenceInv
<1> SUFFICES ASSUME Init PROVE EvidenceInv
  OBVIOUS
<1>1. /\ reminder = [r \in Reminders |-> IF r \in Seeded THEN "pending" ELSE "absent"]
      /\ sentTo = [r \in Reminders |-> {}]
      /\ stage = [w \in Workers |-> [j \in Jobs |-> "none"]]
      /\ to = [w \in Workers |-> [j \in Jobs |-> {}]]
  BY DEF Init
<1> QED
  BY <1>1, InitCounts DEF EvidenceInv, TargetsLoaded, SentHaveRows, OrdinaryNeverSimulated

LEMMA NextEvidence == EvidenceInv /\ [Next]_vars => EvidenceInv'
<1> SUFFICES ASSUME EvidenceInv, [Next]_vars PROVE EvidenceInv'
  OBVIOUS
<1>1. TypeInv /\ CountInv'
  BY NextCounts DEF EvidenceInv, CountInv, AgreeInv
<1> QED
  BY <1>1, NextTargets, NextSent DEF EvidenceInv

\* A failed reminder's dead job is at the ceiling, and each of its attempts
\* was recorded as a failure.
LEMMA EvidenceOfVerdicts == EvidenceInv => VerdictsHaveEvidence
<1> SUFFICES ASSUME EvidenceInv, NEW r \in Reminders
             PROVE  /\ reminder[r] = "sent" => sentTo[r] # {}
                    /\ reminder[r] = "failed" => failures[r] >= MaxAttempts
  BY DEF VerdictsHaveEvidence
<1>1. ASSUME reminder[r] = "failed" PROVE failures[r] >= MaxAttempts
  <2>1. row[<<r, 1>>] = "dead"
    BY <1>1 DEF EvidenceInv, CountInv, AgreeInv, JobsAgree
  <2>2. attempts[<<r, 1>>] = MaxAttempts
    BY <2>1, RowIsJob DEF EvidenceInv, CountInv, AgreeInv, TypeInv, CeilingHolds
  <2>3. failures[r] >= attempts[<<r, 1>>]
    BY <1>1 DEF EvidenceInv, CountInv, AttemptsAreFailures
  <2> QED
    BY <2>2, <2>3
<1> QED
  BY <1>1 DEF EvidenceInv, SentHaveRows

\* A reminder is only ever called sent when a target of it was, and failed
\* only when as many failures as the ceiling are in the database: a reply
\* that is lost, a second worker's record or a crash never leave a verdict
\* without the rows it was decided from.
THEOREM VerdictsAlwaysHaveEvidence == Spec => []VerdictsHaveEvidence
  BY InitEvidence, NextEvidence, EvidenceOfVerdicts, PTL DEF Spec

\* No ordinary user's reminder is recorded as sent to the null target, even
\* if the user's last token goes away between the claim and the send.
THEOREM OrdinaryAlwaysReal == Spec => []OrdinaryNeverSimulated
<1>1. EvidenceInv => OrdinaryNeverSimulated
  BY DEF EvidenceInv
<1> QED
  BY <1>1, InitEvidence, NextEvidence, PTL DEF Spec

-----------------------------------------------------------------------------
(* Two workers at one job.                                                 *)

\* A claim within its lease is of a job that was inserted, and until a
\* failure of it is recorded the lock on the job is this claim's.
FreshHolds ==
  \A w \in Workers : \A j \in fresh[w] :
    /\ row[j] # "none"
    /\ row[j] = "open" /\ attempts[j] = 0 => lock[j] = "live" /\ lockedBy[j] = w

FreshInv == AgreeInv /\ FreshHolds

\* An insert finds no row of the job before it.
LEMMA NewJobsAreNew ==
  ASSUME AgreeInv, NEW s \in Schedulers, NEW j \in Jobs,
         j \in {NewJob(r) : r \in Enqueued(s)}
  PROVE  row[j] = "none"
<1>1. PICK r \in Enqueued(s) : j = NewJob(r)
  OBVIOUS
<1>2. r \in Reminders /\ reminder[r] = "pending"
  BY DEF Enqueued, AgreeInv, TypeInv, TypeOK
<1>3. row[<<r, 1>>] = "none"
  BY <1>2 DEF AgreeInv, JobsAgree
<1> QED
  BY <1>1, <1>3 DEF NewJob

LEMMA NextFresh == FreshInv /\ [Next]_vars => FreshInv'
<1> SUFFICES ASSUME FreshInv, [Next]_vars PROVE FreshInv'
  OBVIOUS
<1>1. AgreeInv /\ AgreeInv' /\ TypeInv /\ TypeInv'
  BY NextAgrees DEF FreshInv, AgreeInv
<1>2. /\ row \in [Jobs -> RowStates] /\ lock \in [Jobs -> {"free", "live", "stale"}]
      /\ lockedBy \in [Jobs -> Workers \cup {Nobody}] /\ attempts \in [Jobs -> 0..MaxAttempts]
      /\ fresh \in [Workers -> SUBSET Jobs]
  BY <1>1 DEF TypeInv, TypeOK
<1>3. \A w \in Workers : \A j \in fresh[w] :
         /\ row[j] # "none"
         /\ row[j] = "open" /\ attempts[j] = 0 => lock[j] = "live" /\ lockedBy[j] = w
  BY DEF FreshInv, FreshHolds
\* A step that only lets go of claims, settles jobs and counts failures.
<1>4. ASSUME \A w \in Workers : \A j \in fresh'[w] :
                /\ j \in fresh[w]
                /\ row'[j] = "none" => row[j] = "none"
                /\ row'[j] = "open" /\ attempts'[j] = 0 =>
                      /\ row[j] = "open" /\ attempts[j] = 0
                      /\ lock'[j] = lock[j] /\ lockedBy'[j] = lockedBy[j]
      PROVE  FreshHolds'
  BY <1>3, <1>4 DEF FreshHolds
<1>5. ASSUME NEW w \in Workers, NEW S \in SUBSET Jobs, Claim(w, S) PROVE FreshHolds'
  <2>1. \A j \in S : row[j] = "open" /\ lock[j] # "live"
    BY <1>5 DEF Claim, Claimable
  <2>2. /\ \A j \in Jobs : /\ lock'[j] = IF j \in S THEN "live" ELSE lock[j]
                           /\ lockedBy'[j] = IF j \in S THEN w ELSE lockedBy[j]
        /\ UNCHANGED <<row, attempts>>
    BY <1>5 DEF Claim
  <2>3. \A v \in Workers : fresh'[v] = IF v = w THEN fresh[w] \cup S ELSE fresh[v]
    BY <1>2, <1>5 DEF Claim
  <2> SUFFICES ASSUME NEW v \in Workers, NEW j \in fresh'[v]
               PROVE  /\ row'[j] # "none"
                      /\ row'[j] = "open" /\ attempts'[j] = 0
                         => lock'[j] = "live" /\ lockedBy'[j] = v
    BY DEF FreshHolds
  <2>4. j \in Jobs
    BY <1>2, <2>3
  <2>5. CASE j \in S /\ v = w
    BY <2>1, <2>2, <2>4, <2>5
  <2>6. CASE j \in S /\ v # w
    <3>1. j \in fresh[v]
      BY <2>3, <2>6
    <3>2. attempts[j] # 0
      BY <1>3, <2>1, <2>6, <3>1
    <3> QED
      BY <1>3, <2>2, <3>1, <3>2
  <2>7. CASE j \notin S
    <3>1. j \in fresh[v]
      BY <2>3, <2>7
    <3> QED
      BY <1>3, <2>2, <2>4, <2>7, <3>1
  <2> QED
    BY <2>5, <2>6, <2>7
<1>6. ASSUME NEW w \in Workers, Exit(w), UNCHANGED <<row, attempts, lock>>
      PROVE  FreshHolds'
  <2> SUFFICES ASSUME NEW v \in Workers, NEW j \in fresh'[v]
               PROVE  /\ row'[j] # "none"
                      /\ row'[j] = "open" /\ attempts'[j] = 0
                         => lock'[j] = "live" /\ lockedBy'[j] = v
    BY DEF FreshHolds
  <2>1. v # w /\ j \in fresh[v] /\ j \in Jobs
    BY <1>2, <1>6 DEF Exit
  <2>2. lockedBy'[j] = IF lockedBy[j] = w THEN Nobody ELSE lockedBy[j]
    BY <1>6, <2>1 DEF Exit
  <2> QED
    BY <1>3, <1>6, <2>1, <2>2
<1>7. ASSUME UNCHANGED jobVars, \A w \in Workers : fresh'[w] \subseteq fresh[w]
      PROVE  FreshHolds'
  BY <1>4, <1>7 DEF jobVars
<1>8. ASSUME NEW w \in Workers, LoopMoves(w) PROVE FreshHolds'
  <2>1. CASE Load(w)
    BY <1>2, <1>7, <2>1 DEF Load
  <2>2. CASE Probe(w) \/ EndBatch(w)
    BY <1>7, <2>2 DEF Probe, EndBatch
  <2>3. CASE Start(w) \/ GoClaim(w) \/ ClaimNothing(w)
    BY <1>7, <2>3 DEF Start, GoClaim, ClaimNothing, attemptVars
  <2> QED
    BY <1>8, <2>1, <2>2, <2>3 DEF LoopMoves
<1>9. ASSUME NEW w \in Workers, NEW j \in Jobs, AttemptMoves(w, j) PROVE FreshHolds'
  <2>1. UNCHANGED lockedBy /\ \A v \in Workers : fresh'[v] \subseteq fresh[v]
    BY <1>1, <1>9, RecordReleases
  <2>2. \A i \in Jobs :
           /\ row'[i] \in {"none", "open"} => row[i] = row'[i]
           /\ row'[i] = "open" /\ attempts'[i] = 0 => lock'[i] = lock[i] /\ attempts[i] = 0
    BY <1>1, <1>9, RecordReleases
  <2> QED
    BY <1>2, <1>4, <2>1, <2>2
<1>10. ASSUME NEW w \in Workers, NEW j \in Jobs, ClaimAges(w, j) PROVE FreshHolds'
  BY <1>2, <1>7, <1>10 DEF ClaimAges
<1>11. ASSUME NEW s \in Schedulers, TickEnqueue(s) PROVE FreshHolds'
  <2> DEFINE new == {NewJob(r) : r \in Enqueued(s)}
  <2>1. /\ UNCHANGED fresh
        /\ \A j \in Jobs : /\ row'[j] = IF j \in new THEN "open" ELSE row[j]
                           /\ attempts'[j] = IF j \in new THEN 0 ELSE attempts[j]
                           /\ lock'[j] = IF j \in new THEN "free" ELSE lock[j]
                           /\ lockedBy'[j] = IF j \in new THEN Nobody ELSE lockedBy[j]
    BY <1>11 DEF TickEnqueue, attemptVars
  <2>2. \A j \in Jobs : j \in new => row[j] = "none"
    BY <1>1, NewJobsAreNew
  <2> HIDE DEF new
  <2>3. \A w \in Workers : \A j \in fresh[w] : j \in Jobs /\ j \notin new
    BY <1>2, <1>3, <2>2
  <2> QED
    BY <1>4, <2>1, <2>3
<1>12. ASSUME NEW j \in Jobs, LockAges(j) PROVE FreshHolds'
  <2> SUFFICES ASSUME NEW v \in Workers, NEW i \in fresh'[v]
               PROVE  /\ row'[i] # "none"
                      /\ row'[i] = "open" /\ attempts'[i] = 0
                         => lock'[i] = "live" /\ lockedBy'[i] = v
    BY DEF FreshHolds
  <2>1. /\ lock' = [lock EXCEPT ![j] = "stale"]
        /\ UNCHANGED <<row, attempts, lockedBy>>
        /\ fresh'[v] = IF v = lockedBy[j] THEN fresh[v] \ {j} ELSE fresh[v]
    BY <1>12 DEF LockAges
  <2>2. i \in fresh[v] /\ i \in Jobs
    BY <1>2, <2>1
  <2>3. CASE i = j
    <3>1. v # lockedBy[j]
      BY <2>1, <2>3
    <3> QED
      BY <1>3, <2>1, <2>2, <2>3, <3>1
  <2>4. CASE i # j
    BY <1>2, <1>3, <2>1, <2>2, <2>4
  <2> QED
    BY <2>3, <2>4
<1>13. ASSUME Reseed PROVE FreshHolds'
  <2>1. UNCHANGED fresh
    BY <1>13 DEF Reseed, attemptVars
  <2>2. ASSUME NEW j \in Jobs
        PROVE  \/ row'[j] = "deleted"
               \/ /\ row'[j] = row[j] /\ attempts'[j] = attempts[j]
                  /\ lock'[j] = lock[j] /\ lockedBy'[j] = lockedBy[j]
    BY <1>13 DEF Reseed
  <2> QED
    BY <1>2, <1>4, <2>1, <2>2
<1>14. ASSUME UNCHANGED workVars PROVE FreshHolds'
  BY <1>4, <1>14 DEF workVars
<1> QED
  BY <1>1, <1>5, <1>6, <1>8, <1>9, <1>10, <1>11, <1>12, <1>13, <1>14, WorkSteps
     DEF WorkStep, FreshInv

\* A lock keeps every other worker from a job until a failure of it has been
\* recorded: only then, because a failure clears whoever's lock there is, may
\* two workers attempt one job within their leases.
THEOREM AlwaysSharedAfterFailure == Spec => []SharedOnlyAfterFailure
<1>1. Init => FreshInv
  BY InitAgrees DEF Init, FreshInv, FreshHolds
<1>2. FreshInv => SharedOnlyAfterFailure
  <2> SUFFICES ASSUME FreshInv, NEW v \in Workers, NEW w \in Workers,
                      NEW j \in fresh[v] \cap fresh[w], v # w, row[j] = "open"
               PROVE  attempts[j] > 0
    BY DEF SharedOnlyAfterFailure
  <2>1. attempts[j] # 0
    BY DEF FreshInv, FreshHolds
  <2>2. attempts[j] \in 0..MaxAttempts
    BY DEF FreshInv, AgreeInv, TypeInv, TypeOK
  <2> QED
    BY <2>1, <2>2
<1> QED
  BY <1>1, <1>2, NextFresh, PTL DEF Spec

-----------------------------------------------------------------------------
(* A worker and the batch it holds.                                        *)

\* A worker's lock on an open job comes with an attempt at it, a skip, or
\* a lost record; attempts are under way only while the loop is at a batch.
HoldsForAReason ==
  \A w \in Workers, j \in Jobs :
    /\ row[j] = "open" /\ lock[j] # "free" /\ lockedBy[j] = w
       => stage[w][j] \notin {"none", "recorded"}
    /\ stage[w][j] \in InFlight \cup {"recorded", "rejected"}
       => phase[w] \in {"claimed", "batch"}

HeldInv == TypeInv /\ HoldsForAReason

LEMMA NextHeld == HeldInv /\ [Next]_vars => HeldInv'
<1> SUFFICES ASSUME HeldInv, [Next]_vars PROVE HeldInv'
  OBVIOUS
<1> DEFINE Reason(w, j) ==
             row[j] = "open" /\ lock[j] # "free" /\ lockedBy[j] = w
             => stage[w][j] \notin {"none", "recorded"}
           Placed(w, j) ==
             stage[w][j] \in InFlight \cup {"recorded", "rejected"}
             => phase[w] \in {"claimed", "batch"}
           \* What the loop itself does to the attempts of its batch.
           Moved(w) ==
             \A v \in Workers, j \in Jobs :
                \/ stage'[v][j] = stage[v][j]
                \/ /\ v = w /\ stage[v][j] \in {"claimed", "unread"}
                   /\ stage'[v][j] \in {"skipped", "noTarget", "loaded"}
                \/ v = w /\ stage[v][j] = "recorded" /\ stage'[v][j] = "none"
           Over(w) ==
             \A j \in Jobs : stage'[w][j] \notin InFlight \cup {"recorded", "rejected"}
<1>1. TypeInv /\ TypeInv'
  BY NextTypes DEF HeldInv
<1>2. /\ row \in [Jobs -> RowStates] /\ lock \in [Jobs -> {"free", "live", "stale"}]
      /\ lockedBy \in [Jobs -> Workers \cup {Nobody}]
      /\ stage \in [Workers -> [Jobs -> Stages]] /\ phase \in [Workers -> Phases]
  BY <1>1 DEF TypeInv, TypeOK
<1>3. \A w \in Workers, j \in Jobs : Reason(w, j) /\ Placed(w, j)
  BY DEF HeldInv, HoldsForAReason
<1>4. (\A w \in Workers, j \in Jobs : Reason(w, j) /\ Placed(w, j))' => HoldsForAReason'
  BY DEF HoldsForAReason
<1>5. ASSUME NEW w \in Workers, NEW S \in SUBSET Jobs, Claim(w, S) PROVE HoldsForAReason'
  <2> SUFFICES ASSUME NEW v \in Workers, NEW j \in Jobs PROVE (Reason(v, j) /\ Placed(v, j))'
    BY <1>4
  <2>1. /\ UNCHANGED row
        /\ lock'[j] = IF j \in S THEN "live" ELSE lock[j]
        /\ lockedBy'[j] = IF j \in S THEN w ELSE lockedBy[j]
        /\ stage'[v][j] = IF v = w /\ j \in S THEN "claimed" ELSE stage[v][j]
        /\ phase'[v] = IF v = w THEN "claimed" ELSE phase[v]
    BY <1>2, <1>5 DEF Claim
  <2> QED
    BY <1>3, <2>1
<1>6. ASSUME NEW w \in Workers, Exit(w), UNCHANGED <<row, attempts, lock>>
      PROVE  HoldsForAReason'
  <2> SUFFICES ASSUME NEW v \in Workers, NEW j \in Jobs PROVE (Reason(v, j) /\ Placed(v, j))'
    BY <1>4
  <2>1. /\ lockedBy'[j] = IF lockedBy[j] = w THEN Nobody ELSE lockedBy[j]
        /\ stage'[v][j] = IF v = w THEN "none" ELSE stage[v][j]
        /\ phase'[v] = IF v = w THEN "down" ELSE phase[v]
    BY <1>2, <1>6 DEF Exit
  <2>2. lockedBy'[j] # w
    BY <2>1
  <2> QED
    BY <1>3, <1>6, <2>1, <2>2
<1>7. ASSUME NEW w \in Workers, NEW p \in Phases, UNCHANGED jobVars, Moved(w),
             phase' = [phase EXCEPT ![w] = p],
             p \in {"claimed", "batch"} \/ Over(w)
      PROVE  HoldsForAReason'
  <2> SUFFICES ASSUME NEW v \in Workers, NEW j \in Jobs PROVE (Reason(v, j) /\ Placed(v, j))'
    BY <1>4
  <2>1. /\ UNCHANGED <<row, lock, lockedBy>>
        /\ phase'[v] = IF v = w THEN p ELSE phase[v]
    BY <1>2, <1>7 DEF jobVars
  <2>2. Reason(v, j)'
    BY <1>3, <1>7, <2>1
  <2>3. Placed(v, j)'
    BY <1>3, <1>7, <2>1
  <2> QED
    BY <2>2, <2>3
<1>8. ASSUME NEW w \in Workers, LoopMoves(w) PROVE HoldsForAReason'
  <2> HIDE DEF Moved, Over
  <2>1. CASE Load(w)
    <3>1. \A r : Opened(r) \in {"skipped", "noTarget", "loaded"}
      BY DEF Opened
    <3>2. Moved(w)
      BY <1>2, <2>1, <3>1 DEF Load, Moved
    <3>3. UNCHANGED jobVars /\ phase' = [phase EXCEPT ![w] = "batch"]
      BY <2>1 DEF Load
    <3>4. "batch" \in Phases /\ "batch" \in {"claimed", "batch"}
      OBVIOUS
    <3> QED
      BY <1>7, <3>2, <3>3, <3>4
  <2>2. CASE Probe(w)
    <3>1. \A v \in Workers, j \in Jobs :
             \/ stage'[v][j] = stage[v][j]
             \/ v = w /\ stage[v][j] = "unread" /\ stage'[v][j] = "skipped"
      BY <1>2, <2>2 DEF Probe
    <3>2. /\ UNCHANGED jobVars /\ phase[w] = "top"
          /\ phase' = [phase EXCEPT ![w] = "top"]
      BY <1>2, <2>2 DEF Probe
    <3>3. Over(w)
      BY <1>3, <3>1, <3>2 DEF Over
    <3>4. Moved(w) /\ "top" \in Phases
      BY <3>1 DEF Moved
    <3> QED
      BY <1>7, <3>2, <3>3, <3>4
  <2>3. CASE EndBatch(w)
    <3>1. \A v \in Workers, j \in Jobs :
             stage'[v][j] = IF v = w /\ stage[v][j] = "recorded" THEN "none" ELSE stage[v][j]
      BY <1>2, <2>3 DEF EndBatch
    <3>2. \A j \in Jobs : stage[w][j] \notin InFlight \cup {"rejected"}
      BY <2>3 DEF EndBatch, BatchSettled
    <3>3. UNCHANGED jobVars /\ phase' = [phase EXCEPT ![w] = "top"]
      BY <2>3 DEF EndBatch
    <3>4. Over(w)
      BY <3>1, <3>2 DEF Over
    <3>5. Moved(w) /\ "top" \in Phases
      BY <3>1 DEF Moved
    <3> QED
      BY <1>7, <3>3, <3>4, <3>5
  <2>4. CASE Start(w) \/ GoClaim(w) \/ ClaimNothing(w)
    <3>1. PICK p \in {"top", "claiming"} : phase' = [phase EXCEPT ![w] = p]
      BY <2>4 DEF Start, GoClaim, ClaimNothing
    <3>2. UNCHANGED jobVars /\ UNCHANGED stage /\ phase[w] \notin {"claimed", "batch"}
      BY <2>4 DEF Start, GoClaim, ClaimNothing, attemptVars
    <3>3. Over(w)
      BY <1>3, <3>2 DEF Over
    <3>4. Moved(w) /\ p \in Phases
      BY <3>2 DEF Moved
    <3> QED
      BY <1>7, <3>1, <3>2, <3>3, <3>4
  <2> QED
    BY <1>8, <2>1, <2>2, <2>3, <2>4 DEF LoopMoves
<1>9. ASSUME NEW w \in Workers, NEW j \in Jobs, AttemptMoves(w, j) PROVE HoldsForAReason'
  <2>1. PICK s \in {"sending", "answered", "recorded", "rejected", "skipped", "unread"} :
           stage' = [stage EXCEPT ![w][j] = s]
    BY <1>1, <1>9, AttemptAdvances
  <2>2. stage[w][j] \in InFlight /\ UNCHANGED <<phase, lockedBy>>
    BY <1>1, <1>9, AttemptAdvances, RecordReleases
  <2>3. /\ stage'[w][j] = "recorded" => row'[j] # "open" \/ lock'[j] = "free"
        /\ \A i \in Jobs : /\ row'[i] = "open" => row[i] = "open"
                           /\ lock'[i] # "free" => lock[i] # "free"
    BY <1>1, <1>9, RecordReleases
  <2> SUFFICES ASSUME NEW v \in Workers, NEW i \in Jobs PROVE (Reason(v, i) /\ Placed(v, i))'
    BY <1>4
  <2>4. CASE v = w /\ i = j
    <3>1. stage'[w][j] = s
      BY <1>2, <2>1
    <3> QED
      BY <1>3, <2>2, <2>3, <2>4, <3>1
  <2>5. CASE ~(v = w /\ i = j)
    <3>1. stage'[v][i] = stage[v][i]
      BY <1>2, <2>1, <2>5
    <3> QED
      BY <1>3, <2>2, <2>3, <3>1
  <2> QED
    BY <2>4, <2>5
<1>10. ASSUME UNCHANGED <<stage, phase>>,
              \A j \in Jobs : row'[j] = "open" /\ lock'[j] # "free" =>
                 row[j] = "open" /\ lock[j] # "free" /\ lockedBy'[j] = lockedBy[j]
       PROVE  HoldsForAReason'
  BY <1>3, <1>4, <1>10
<1> HIDE DEF Reason, Placed
<1>11. ASSUME NEW w \in Workers, NEW j \in Jobs, ClaimAges(w, j) PROVE HoldsForAReason'
  BY <1>10, <1>11 DEF ClaimAges, jobVars, loopVars
<1>12. ASSUME NEW s \in Schedulers, TickEnqueue(s) PROVE HoldsForAReason'
  <2> DEFINE new == {NewJob(r) : r \in Enqueued(s)}
  <2>1. /\ UNCHANGED <<stage, phase>>
        /\ \A j \in Jobs : /\ row'[j] = IF j \in new THEN "open" ELSE row[j]
                           /\ lock'[j] = IF j \in new THEN "free" ELSE lock[j]
                           /\ lockedBy'[j] = IF j \in new THEN Nobody ELSE lockedBy[j]
    BY <1>12 DEF TickEnqueue, attemptVars, loopVars
  <2> HIDE DEF new
  <2> QED
    BY <1>10, <2>1
<1>13. ASSUME NEW j \in Jobs, LockAges(j) PROVE HoldsForAReason'
  BY <1>2, <1>10, <1>13 DEF LockAges, loopVars
<1>14. ASSUME Reseed PROVE HoldsForAReason'
  <2>1. UNCHANGED <<stage, phase>>
    BY <1>14 DEF Reseed, attemptVars, loopVars
  <2>2. ASSUME NEW j \in Jobs
        PROVE  \/ row'[j] = "deleted"
               \/ row'[j] = row[j] /\ lock'[j] = lock[j] /\ lockedBy'[j] = lockedBy[j]
    BY <1>14 DEF Reseed
  <2> QED
    BY <1>10, <2>1, <2>2
<1>15. ASSUME UNCHANGED workVars PROVE HoldsForAReason'
  BY <1>10, <1>15 DEF workVars
<1> QED
  BY <1>1, <1>5, <1>6, <1>8, <1>9, <1>11, <1>12, <1>13, <1>14, <1>15, WorkSteps
     DEF WorkStep, HeldInv

\* A batch that has settled leaves no open job behind that its worker still
\* locks, unless it was skipped on purpose: whatever throws, times out or is
\* lost, the worker is never back at the top of its loop, nor stopped, with a
\* job it claimed and forgot.
THEOREM NeverForgotten == Spec => []NoJobForgotten
<1>1. Init => HeldInv
  BY InitTypes DEF Init, HeldInv, HoldsForAReason
<1>2. HeldInv => NoJobForgotten
  <2> SUFFICES ASSUME HeldInv, NEW w \in Workers, NEW j \in Jobs,
                      row[j] = "open", lock[j] # "free", lockedBy[j] = w
               PROVE  \/ stage[w][j] \in {"skipped", "unread"}
                      \/ /\ phase[w] \in {"claimed", "batch"}
                         /\ stage[w][j] \in InFlight \cup {"rejected"}
    BY DEF NoJobForgotten
  <2>1. stage[w][j] \in Stages
    BY DEF HeldInv, TypeInv, TypeOK
  <2> QED
    BY <2>1 DEF HeldInv, HoldsForAReason
<1> QED
  BY <1>1, <1>2, NextHeld, PTL DEF Spec

-----------------------------------------------------------------------------
(* The breaker.                                                            *)

\* The jobs of w that are being attempted or that a failed read left.
Pending(w) == {j \in Jobs : stage[w][j] \in InFlight \cup {"unread"}}

\* Nothing but a claim adds to them, and a worker claims only while its
\* breaker is closed, when a batch has settled and no job is left unread.
OneBatchPending ==
  \A w \in Workers :
    /\ Cardinality(Pending(w)) <= BatchSize
    /\ (\E j \in Jobs : stage[w][j] = "unread") => tripped[w]
    /\ phase[w] = "claiming" => ~tripped[w]

BatchInv == HeldInv /\ OneBatchPending

LEMMA JobsFinite == IsFiniteSet(Jobs)
<1>1. IsFiniteSet({1, 2})
  <2>1. IsFiniteSet({1} \cup {2})
    BY FS_Singleton, FS_AddElement
  <2>2. {1} \cup {2} = {1, 2}
    OBVIOUS
  <2> QED
    BY <2>1, <2>2
<1> QED
  BY <1>1, TableAssumption, FS_Product DEF Jobs, Copies

LEMMA FewerPending ==
  ASSUME NEW S, IsFiniteSet(S), NEW T \in SUBSET S, Cardinality(S) <= BatchSize
  PROVE  Cardinality(T) <= BatchSize
<1>1. Cardinality(T) <= Cardinality(S)
  BY FS_Subset
<1>2. Cardinality(T) \in Nat /\ Cardinality(S) \in Nat
  BY FS_Subset, FS_CardinalityType
<1> QED
  BY <1>1, <1>2

LEMMA NextPending == BatchInv /\ [Next]_vars => BatchInv'
<1> SUFFICES ASSUME BatchInv, [Next]_vars PROVE BatchInv'
  OBVIOUS
<1>1. HeldInv /\ HeldInv' /\ TypeInv
  BY NextHeld DEF BatchInv, HeldInv
<1>2. /\ stage \in [Workers -> [Jobs -> Stages]] /\ phase \in [Workers -> Phases]
      /\ tripped \in [Workers -> BOOLEAN]
  BY <1>1 DEF TypeInv, TypeOK
<1>3. \A w \in Workers :
         /\ Cardinality(Pending(w)) <= BatchSize
         /\ (\E j \in Jobs : stage[w][j] = "unread") => tripped[w]
         /\ phase[w] = "claiming" => ~tripped[w]
  BY DEF BatchInv, OneBatchPending
\* A step that adds to no worker's jobs.
<1>4. ASSUME \A w \in Workers, j \in Jobs :
                stage'[w][j] \in InFlight \cup {"unread"}
                => stage[w][j] \in InFlight \cup {"unread"},
             \A w \in Workers :
                /\ (\E j \in Jobs : stage'[w][j] = "unread") => tripped'[w]
                /\ phase'[w] = "claiming" => ~tripped'[w]
      PROVE  OneBatchPending'
  <2> SUFFICES ASSUME NEW w \in Workers PROVE Cardinality(Pending(w)') <= BatchSize
    BY <1>4 DEF OneBatchPending
  <2>1. Pending(w)' \in SUBSET Pending(w)
    BY <1>4 DEF Pending
  <2>2. IsFiniteSet(Pending(w))
    BY JobsFinite, FS_Subset DEF Pending
  <2> QED
    BY <1>3, <2>1, <2>2, FewerPending
<1>5. ASSUME NEW w \in Workers, NEW S \in SUBSET Jobs, Claim(w, S) PROVE OneBatchPending'
  <2>1. \A j \in Jobs : stage[w][j] \notin InFlight \cup {"unread"}
    <3>1. phase[w] = "claiming"
      BY <1>5 DEF Claim
    <3>2. \A j \in Jobs : stage[w][j] \notin InFlight
      BY <1>1, <3>1 DEF HeldInv, HoldsForAReason
    <3>3. \A j \in Jobs : stage[w][j] # "unread"
      BY <1>3, <3>1
    <3> QED
      BY <3>2, <3>3
  <2>2. /\ UNCHANGED tripped /\ Cardinality(S) <= BatchSize
        /\ \A v \in Workers :
              /\ phase'[v] = IF v = w THEN "claimed" ELSE phase[v]
              /\ \A j \in Jobs :
                    stage'[v][j] = IF v = w /\ j \in S THEN "claimed" ELSE stage[v][j]
    BY <1>2, <1>5 DEF Claim
  <2> SUFFICES ASSUME NEW v \in Workers
               PROVE  /\ Cardinality(Pending(v)') <= BatchSize
                      /\ (\E j \in Jobs : stage'[v][j] = "unread") => tripped'[v]
                      /\ phase'[v] = "claiming" => ~tripped'[v]
    BY DEF OneBatchPending
  <2>3. CASE v = w
    <3>1. Pending(w)' = S
      BY <2>1, <2>2 DEF Pending
    <3> QED
      BY <2>1, <2>2, <2>3, <3>1
  <2>4. CASE v # w
    <3>1. Pending(v)' = Pending(v)
      BY <2>2, <2>4 DEF Pending
    <3> QED
      BY <1>3, <2>2, <2>4, <3>1
  <2> QED
    BY <2>3, <2>4
<1>6. ASSUME NEW w \in Workers, Exit(w) PROVE OneBatchPending'
  <2>1. \A v \in Workers :
           IF v = w THEN /\ phase'[v] = "down"
                         /\ \A j \in Jobs : stage'[v][j] = "none"
                    ELSE /\ phase'[v] = phase[v] /\ tripped'[v] = tripped[v]
                         /\ \A j \in Jobs : stage'[v][j] = stage[v][j]
    BY <1>2, <1>6 DEF Exit
  <2> QED
    BY <1>3, <1>4, <2>1
<1>7. ASSUME NEW w \in Workers, NEW p \in Phases, phase' = [phase EXCEPT ![w] = p],
             p = "claiming" => ~tripped[w],
             UNCHANGED tripped,
             \A v \in Workers, j \in Jobs :
                \/ stage'[v][j] = stage[v][j]
                \/ stage'[v][j] \notin InFlight \cup {"unread"}
                \/ stage[v][j] = "claimed" /\ stage'[v][j] \in {"noTarget", "loaded"}
      PROVE  OneBatchPending'
  <2>1. \A v \in Workers : phase'[v] = "claiming" => ~tripped'[v]
    BY <1>2, <1>3, <1>7
  <2>2. \A v \in Workers, j \in Jobs :
           /\ stage'[v][j] = "unread" => stage[v][j] = "unread"
           /\ stage'[v][j] \in InFlight \cup {"unread"}
              => stage[v][j] \in InFlight \cup {"unread"}
    BY <1>7
  <2> QED
    BY <1>3, <1>4, <1>7, <2>1, <2>2
<1>8. ASSUME NEW w \in Workers, LoopMoves(w) PROVE OneBatchPending'
  <2> DEFINE Moved == \A v \in Workers, j \in Jobs :
                        \/ stage'[v][j] = stage[v][j]
                        \/ stage'[v][j] \notin InFlight \cup {"unread"}
                        \/ stage[v][j] = "claimed" /\ stage'[v][j] \in {"noTarget", "loaded"}
  <2>0. ASSUME NEW p \in Phases, phase' = [phase EXCEPT ![w] = p],
               p = "claiming" => ~tripped[w], UNCHANGED tripped, Moved
        PROVE  OneBatchPending'
    BY <1>7, <2>0
  <2>1. CASE Load(w)
    <3>1. \A r : Opened(r) \in {"skipped", "noTarget", "loaded"}
      BY DEF Opened
    <3>2. Moved
      BY <1>2, <2>1, <3>1 DEF Load
    <3>3. UNCHANGED tripped /\ phase' = [phase EXCEPT ![w] = "batch"]
      BY <2>1 DEF Load
    <3> HIDE DEF Moved
    <3> QED
      BY <2>0, <3>2, <3>3
  <2>2. CASE Probe(w)
    <3>1. \A v \in Workers :
             /\ tripped'[v] = IF v = w THEN FALSE ELSE tripped[v]
             /\ \A j \in Jobs :
                   stage'[v][j] = IF v = w /\ stage[v][j] = "unread" THEN "skipped"
                                                                    ELSE stage[v][j]
      BY <1>2, <2>2 DEF Probe
    <3>2. UNCHANGED phase
      BY <2>2 DEF Probe
    <3>3. \A v \in Workers : /\ (\E j \in Jobs : stage'[v][j] = "unread") => tripped'[v]
                             /\ phase'[v] = "claiming" => ~tripped'[v]
      <4> TAKE v \in Workers
      <4>1. CASE v = w
        <5>1. \A j \in Jobs : stage'[v][j] # "unread"
          BY <3>1, <4>1
        <5>2. tripped'[v] = FALSE
          BY <3>1, <4>1
        <5> QED
          BY <5>1, <5>2
      <4>2. CASE v # w
        <5>1. tripped'[v] = tripped[v] /\ phase'[v] = phase[v]
          BY <3>1, <3>2, <4>2
        <5>2. \A j \in Jobs : stage'[v][j] = stage[v][j]
          BY <3>1, <4>2
        <5> QED
          BY <1>3, <5>1, <5>2
      <4> QED
        BY <4>1, <4>2
    <3>4. \A v \in Workers, j \in Jobs :
             stage'[v][j] \in InFlight \cup {"unread"} => stage[v][j] \in InFlight \cup {"unread"}
      BY <3>1
    <3> QED
      BY <1>4, <3>3, <3>4
  <2>3. CASE EndBatch(w)
    <3>1. Moved
      BY <1>2, <2>3 DEF EndBatch
    <3>2. UNCHANGED tripped /\ phase' = [phase EXCEPT ![w] = "top"]
      BY <2>3 DEF EndBatch
    <3> HIDE DEF Moved
    <3> QED
      BY <2>0, <3>1, <3>2
  <2>4. CASE Start(w) \/ GoClaim(w) \/ ClaimNothing(w)
    <3>1. PICK p \in {"top", "claiming"} : /\ phase' = [phase EXCEPT ![w] = p]
                                           /\ p = "claiming" => ~tripped[w]
      BY <2>4 DEF Start, GoClaim, MayClaim, ClaimNothing
    <3>2. UNCHANGED tripped /\ UNCHANGED stage
      BY <2>4 DEF Start, GoClaim, ClaimNothing, attemptVars
    <3>3. Moved /\ p \in Phases
      BY <3>2
    <3> HIDE DEF Moved
    <3> QED
      BY <2>0, <3>1, <3>2, <3>3
  <2> QED
    BY <1>8, <2>1, <2>2, <2>3, <2>4 DEF LoopMoves
<1>9. ASSUME NEW w \in Workers, NEW j \in Jobs, AttemptMoves(w, j) PROVE OneBatchPending'
  <2>1. PICK s \in {"sending", "answered", "recorded", "rejected", "skipped", "unread"} :
           /\ stage' = [stage EXCEPT ![w][j] = s]
           /\ IF s = "unread" THEN tripped' = [tripped EXCEPT ![w] = TRUE]
                              ELSE UNCHANGED tripped
    BY <1>1, <1>9, AttemptAdvances
  <2>2. stage[w][j] \in InFlight /\ UNCHANGED phase
    BY <1>1, <1>9, AttemptAdvances
  <2>3. phase[w] # "claiming"
    BY <1>1, <2>2 DEF HeldInv, HoldsForAReason
  <2>4. \A v \in Workers, i \in Jobs :
           stage'[v][i] = IF v = w /\ i = j THEN s ELSE stage[v][i]
    BY <1>2, <2>1
  <2>5. \A v \in Workers : tripped'[v] = IF v = w /\ s = "unread" THEN TRUE ELSE tripped[v]
    BY <1>2, <2>1
  <2>6. \A v \in Workers, i \in Jobs :
           stage'[v][i] \in InFlight \cup {"unread"} => stage[v][i] \in InFlight \cup {"unread"}
    BY <2>2, <2>4
  <2>7. \A v \in Workers : /\ (\E i \in Jobs : stage'[v][i] = "unread") => tripped'[v]
                           /\ phase'[v] = "claiming" => ~tripped'[v]
    <3> TAKE v \in Workers
    <3>1. CASE v = w /\ s = "unread"
      BY <2>2, <2>3, <2>5, <3>1
    <3>2. CASE ~(v = w /\ s = "unread")
      <4>1. tripped'[v] = tripped[v] /\ phase'[v] = phase[v]
        BY <2>2, <2>5, <3>2
      <4>2. \A i \in Jobs : stage'[v][i] = "unread" => stage[v][i] = "unread"
        BY <2>4, <3>2
      <4> QED
        BY <1>3, <4>1, <4>2
    <3> QED
      BY <3>1, <3>2
  <2> QED
    BY <1>4, <2>6, <2>7
<1>10. ASSUME UNCHANGED <<stage, phase, tripped>> PROVE OneBatchPending'
  BY <1>3, <1>4, <1>10
<1>11. ASSUME NEW w \in Workers, NEW j \in Jobs, ClaimAges(w, j) PROVE OneBatchPending'
  BY <1>10, <1>11 DEF ClaimAges, loopVars
<1>12. ASSUME NEW s \in Schedulers, TickEnqueue(s) PROVE OneBatchPending'
  BY <1>10, <1>12 DEF TickEnqueue, attemptVars, loopVars
<1>13. ASSUME NEW j \in Jobs, LockAges(j) PROVE OneBatchPending'
  BY <1>10, <1>13 DEF LockAges, loopVars
<1>14. ASSUME Reseed PROVE OneBatchPending'
  BY <1>10, <1>14 DEF Reseed, attemptVars, loopVars
<1>15. ASSUME UNCHANGED workVars PROVE OneBatchPending'
  BY <1>10, <1>15 DEF workVars
<1> QED
  BY <1>1, <1>5, <1>6, <1>8, <1>9, <1>11, <1>12, <1>13, <1>14, <1>15, WorkSteps
     DEF WorkStep, BatchInv

\* However long the cards cannot be read, a worker keeps at most one batch
\* locked that it left unread, and it probes as long as it keeps any.
THEOREM BreakerAlwaysHoldsOne == Spec => []BreakerHoldsOneBatch
<1>1. Init => BatchInv
  <2> SUFFICES ASSUME Init PROVE BatchInv
    OBVIOUS
  <2>1. HeldInv
    BY InitTypes DEF Init, HeldInv, HoldsForAReason
  <2>2. /\ stage = [w \in Workers |-> [j \in Jobs |-> "none"]]
        /\ phase = [w \in Workers |-> "top"]
    BY DEF Init
  <2>3. ASSUME NEW w \in Workers PROVE Pending(w) = {}
    BY <2>2 DEF Pending
  <2> QED
    BY <2>1, <2>2, <2>3, FS_EmptySet DEF BatchInv, OneBatchPending
<1>2. BatchInv => BreakerHoldsOneBatch
  <2> SUFFICES ASSUME BatchInv, NEW w \in Workers
               PROVE  /\ Cardinality({j \in Jobs : stage[w][j] = "unread"}) <= BatchSize
                      /\ {j \in Jobs : stage[w][j] = "unread"} # {} => tripped[w]
    BY DEF BreakerHoldsOneBatch
  <2>1. {j \in Jobs : stage[w][j] = "unread"} \in SUBSET Pending(w)
    BY DEF Pending
  <2>2. IsFiniteSet(Pending(w))
    BY JobsFinite, FS_Subset DEF Pending
  <2> QED
    BY <2>1, <2>2, FewerPending DEF BatchInv, OneBatchPending
<1> QED
  BY <1>1, <1>2, NextPending, PTL DEF Spec
=============================================================================
