-------------------------- MODULE MeasuredRunProofs --------------------------
(***************************************************************************)
(* The measured runs, for any number of them on one database, any fleet    *)
(* and any peak: what a clean exit vouches for, and whose row a sweep      *)
(* removes.                                                                *)
(***************************************************************************)
EXTENDS MeasuredRun, FiniteSetTheorems, TLAPS

\* The backend that has the lock is the one a run's handle still stands for.
LockIsItsHandles == \A h \in Runs : lock = h <=> handle[h] = "locked"

\* A run has a row only once it has inserted its pool.
RowsAreInserted ==
    \A h \in Runs : row = h => phase[h] \notin {"start", "checking", "sweeping", "inserting"}

\* Nobody has claimed a job that is not enqueued; a worker that is alive has
\* stranded nothing; what a dead one still holds, it held when it died.
DeadHoldWhatTheyStranded ==
    /\ \A j \in Jobs : job[j] = "pending" => by[j] = Nobody
    /\ \A w \in Workers :
           /\ process[w] = "worker" => stranded[w] = {}
           /\ process[w] # "worker" => OpenClaims(w) \subseteq stranded[w]

\* The worker is chosen before it is inspected and killed; nothing is on
\* record until it has been read again, and what is has left that worker only
\* by its death.
RecordIsOfTheChosen ==
    \A h \in Runs :
        /\ phase[h] \in {"inspecting", "rereading", "killing"} => chosen[h] \in Workers
        /\ phase[h] \in {"choosing", "inspecting", "rereading"} => held[h] = {}
        /\ held[h] # {} => chosen[h] \in Workers
        /\ \A j \in held[h] : by[j] = chosen[h] \/ j \in stranded[chosen[h]]

\* Measured == the whole peak done and, with a restart, a held job stranded.
Measured(h) ==
    /\ closed[h] = Jobs
    /\ Restarts(h) => held[h] \cap stranded[chosen[h]] # {}

\* A verdict is met on a window that has closed, and a run that goes on with
\* it past the cleanup has no row.
MetIsMeasured ==
    \A h \in Runs : met[h] =>
        /\ phase[h] \in {"cleaning", "unlocking", "ended"}
        /\ Measured(h)
        /\ phase[h] = "unlocking" => row # h

CleanIsMet == \A h \in Runs : code[h] = "clean" => met[h] /\ phase[h] = "ended" /\ row # h

RunInv ==
    /\ TypeOK /\ LockIsItsHandles /\ RowsAreInserted
    /\ DeadHoldWhatTheyStranded /\ RecordIsOfTheChosen
    /\ MetIsMeasured /\ CleanIsMet

-----------------------------------------------------------------------------
(* Types.                                                                  *)

\* What is done can be counted, and is at most the peak.
LEMMA AttemptsType ==
    /\ Attempts \in 0..Cardinality(Jobs)
    /\ Cardinality(Jobs) \in Nat
<1>1. Done \subseteq Jobs
  BY DEF Done
<1> QED
  BY <1>1, JobsAssumption, FS_Subset, FS_CardinalityType DEF Attempts

THEOREM InitType == Init => TypeOK
BY AttemptsType, BoundAssumption DEF Init, TypeOK, Phases

\* A step of the fleet or of the surroundings.
Elsewhere ==
    \/ Enqueue \/ SignUp
    \/ \E w \in Workers :
           Claim(w) \/ Die(w) \/ PidReused(w) \/ \E j \in Jobs : Complete(w, j)

LEMMA ElsewhereType == TypeOK /\ Elsewhere => TypeOK'
<1> SUFFICES ASSUME TypeOK, Elsewhere PROVE TypeOK'
  OBVIOUS
<1> USE BoundAssumption DEF TypeOK, Fault, tables, fleet, window, OpenClaims
<1>1. CASE Enqueue \/ SignUp
  BY <1>1 DEF Enqueue, SignUp
<1>2. ASSUME NEW w \in Workers, Claim(w) PROVE TypeOK'
  BY <1>2 DEF Claim
<1>3. ASSUME NEW w \in Workers, Die(w) PROVE TypeOK'
  BY <1>3 DEF Die, Killed
<1>4. ASSUME NEW w \in Workers, PidReused(w) PROVE TypeOK'
  BY <1>4 DEF PidReused
<1>5. ASSUME NEW w \in Workers, NEW j \in Jobs, Complete(w, j) PROVE TypeOK'
  BY <1>5 DEF Complete
<1> QED
  BY <1>1, <1>2, <1>3, <1>4, <1>5 DEF Elsewhere

LEMMA RunType ==
    ASSUME TypeOK, NEW h \in Runs, TryLock(h) \/ Own(h) \/ Drop(h) \/ Abort(h)
    PROVE  TypeOK'
<1> USE BoundAssumption
    DEF TypeOK, Phases, Goes, Throws, Fault, tables, fleet, window
<1>1. CASE TryLock(h)
  BY <1>1 DEF TryLock
<1>2. CASE CheckPeak(h)
  BY <1>2 DEF CheckPeak
<1>3. CASE Sweep(h)
  BY <1>3, ZenonT(60) DEF Sweep, Swept
<1>4. CASE InsertPool(h)
  BY <1>4, ZenonT(60) DEF InsertPool
<1>5. CASE Probe(h)
  BY <1>5, ZenonT(60) DEF Probe, Unanswered
<1>6. CASE Post(h)
  BY <1>6, ZenonT(60) DEF Post, Unanswered
<1>7. CASE CleanUp(h)
  BY <1>7 DEF CleanUp, Swept
<1>8. CASE Unlock(h)
  BY <1>8 DEF Unlock, Released, ExitCode
<1>9. CASE FanoutStarts(h)
  BY <1>9 DEF FanoutStarts
<1>10. CASE GiveUpStart(h)
  BY <1>10 DEF GiveUpStart
<1>11. CASE Poll(h)
  BY <1>11, AttemptsType DEF Poll
<1>12. CASE Choose(h)
  BY <1>12 DEF Choose
<1>13. CASE GiveUpChoice(h)
  BY <1>13 DEF GiveUpChoice
<1>14. CASE Inspect(h)
  BY <1>14, ZenonT(60) DEF Inspect
<1>15. CASE Reread(h)
  BY <1>15 DEF Reread, Recorded, OpenClaims
<1>16. CASE Kill(h)
  <2>1. /\ process' \in [Workers -> {"worker", "other", "none"}]
        /\ stranded' \in [Workers -> SUBSET Jobs]
        /\ phase' \in [Runs -> Phases]
    BY <1>16 DEF Kill, Killed, OpenClaims
  <2>2. met' \in [Runs -> BOOLEAN]
    BY <1>16 DEF Kill
  <2> QED
    BY <1>16, <2>1, <2>2 DEF Kill
<1>17. CASE Decide(h)
  BY <1>17 DEF Decide, CloseWindow, Done
<1>18. CASE Stall(h)
  BY <1>18 DEF Stall, CloseWindow, Done
<1>19. CASE Report(h)
  BY <1>19, ZenonT(60) DEF Report, Verdict, AllSent
<1>20. CASE Drop(h)
  BY <1>20 DEF Drop
<1>21. CASE Abort(h)
  BY <1>21 DEF Abort, Released
<1> QED
  BY <1>1, <1>2, <1>3, <1>4, <1>5, <1>6, <1>7, <1>8, <1>9, <1>10, <1>11,
     <1>12, <1>13, <1>14, <1>15, <1>16, <1>17, <1>18, <1>19, <1>20, <1>21 DEF Own

\* Every step is a run's, the fleet's or of the surroundings.
LEMMA StepOf ==
    ASSUME Next
    PROVE  Elsewhere \/ \E h \in Runs : TryLock(h) \/ Own(h) \/ Drop(h) \/ Abort(h)
BY DEF Next, Elsewhere

LEMMA NextType == TypeOK /\ [Next]_vars => TypeOK'
<1> SUFFICES ASSUME TypeOK, [Next]_vars PROVE TypeOK'
  OBVIOUS
<1>1. CASE Next
  BY <1>1, StepOf, ElsewhereType, RunType
<1>2. CASE UNCHANGED vars
  BY <1>2 DEF vars, tables, fleet, window, TypeOK
<1> QED
  BY <1>1, <1>2

\* Every variable keeps its type, for any runs, fleet and peak.
THEOREM TypeCorrect == Spec => []TypeOK
BY InitType, NextType, PTL DEF Spec

-----------------------------------------------------------------------------
(* What the steps have in common.                                          *)

\* A run's step changes nothing of another run.
OthersWait(h) ==
    \A g \in Runs \ {h} :
        /\ phase'[g] = phase[g] /\ handle'[g] = handle[g]
        /\ chosen'[g] = chosen[g] /\ held'[g] = held[g] /\ closed'[g] = closed[g]
        /\ met'[g] = met[g] /\ code'[g] = code[g]

LEMMA RunsAreApart ==
    ASSUME TypeOK, NEW h \in Runs, TryLock(h) \/ Own(h) \/ Drop(h) \/ Abort(h)
    PROVE  OthersWait(h)
<1> USE DEF TypeOK, OthersWait, Goes, Throws, tables, fleet, window
<1>1. CASE TryLock(h) \/ Drop(h) \/ Abort(h)
  BY <1>1 DEF TryLock, Drop, Abort
<1>2. CASE CheckPeak(h) \/ Probe(h) \/ Unlock(h) \/ Sweep(h) \/ CleanUp(h)
  BY <1>2 DEF CheckPeak, Probe, Unanswered, Unlock, Sweep, CleanUp
<1>3. CASE InsertPool(h) \/ Post(h) \/ FanoutStarts(h) \/ GiveUpStart(h) \/ Poll(h)
  BY <1>3 DEF InsertPool, Post, Unanswered, FanoutStarts, GiveUpStart, Poll
<1>4. CASE Choose(h) \/ GiveUpChoice(h) \/ Inspect(h) \/ Reread(h)
  BY <1>4 DEF Choose, GiveUpChoice, Inspect, Reread, Recorded
<1>5. CASE Kill(h)
  BY <1>5 DEF Kill
<1>6. CASE Decide(h) \/ Stall(h) \/ Report(h)
  BY <1>6 DEF Decide, Stall, CloseWindow, Report
<1> QED
  BY <1>1, <1>2, <1>3, <1>4, <1>5, <1>6 DEF Own

\* Nothing of a run changes in a step that is not a run's.
LEMMA RunsRest ==
    ASSUME Elsewhere
    PROVE  /\ UNCHANGED <<lock, phase, handle, window, met, code>>
           /\ row' = row \/ (row = Nobody /\ row' = "ordinary")
BY DEF Elsewhere, Enqueue, SignUp, Claim, Die, PidReused, Complete, tables, fleet, window

\* The steps of a run that leave its lock and its handle alone.
LEMMA LockRests ==
    ASSUME NEW h \in Runs, Own(h)
    PROVE  Unlock(h) \/ UNCHANGED <<lock, handle>>
BY DEF Own, CheckPeak, Sweep, InsertPool, Probe, Post, FanoutStarts, GiveUpStart, Poll,
       Choose, GiveUpChoice, Inspect, Reread, Kill, Decide, Stall, Report, CleanUp,
       tables, fleet, window

\* The steps of a run that leave the pool's row alone.
LEMMA RowRests ==
    ASSUME NEW h \in Runs, Own(h)
    PROVE  Sweep(h) \/ InsertPool(h) \/ Post(h) \/ CleanUp(h) \/ UNCHANGED row
BY DEF Own, CheckPeak, Probe, FanoutStarts, GiveUpStart, Poll,
       Choose, GiveUpChoice, Inspect, Reread, Kill, Decide, Stall, Report, Unlock,
       tables, fleet, window

-----------------------------------------------------------------------------
(* The lock and the rows.                                                  *)

LEMMA InitRun == Init => RunInv
<1> SUFFICES ASSUME Init PROVE RunInv
  OBVIOUS
<1>1. LockIsItsHandles /\ RowsAreInserted
  BY NamesAssumption DEF Init, LockIsItsHandles, RowsAreInserted
<1>2. DeadHoldWhatTheyStranded /\ RecordIsOfTheChosen
  BY DEF Init, DeadHoldWhatTheyStranded, RecordIsOfTheChosen
<1>3. MetIsMeasured /\ CleanIsMet
  BY DEF Init, MetIsMeasured, CleanIsMet
<1> QED
  BY <1>1, <1>2, <1>3, InitType DEF RunInv

LEMMA NextLock == TypeOK /\ LockIsItsHandles /\ [Next]_vars => LockIsItsHandles'
<1> SUFFICES ASSUME TypeOK, LockIsItsHandles, Next PROVE LockIsItsHandles'
  BY DEF vars, tables, LockIsItsHandles
<1>1. CASE Elsewhere
  BY <1>1, RunsRest DEF LockIsItsHandles
<1>2. ASSUME NEW h \in Runs, TryLock(h) PROVE LockIsItsHandles'
  BY <1>2, NamesAssumption DEF TryLock, LockFree, LockIsItsHandles, TypeOK
<1>3. ASSUME NEW h \in Runs, Own(h) PROVE LockIsItsHandles'
  <2>1. CASE Unlock(h)
    BY <2>1, NamesAssumption DEF Unlock, Released, Held, LockIsItsHandles, TypeOK
  <2> QED
    BY <1>3, <2>1, LockRests DEF LockIsItsHandles
<1>4. ASSUME NEW h \in Runs, Drop(h) \/ Abort(h) PROVE LockIsItsHandles'
  BY <1>4, NamesAssumption DEF Drop, Abort, Released, Held, LockIsItsHandles, TypeOK
<1> QED
  BY <1>1, <1>2, <1>3, <1>4, StepOf

\* A run past the insert has been through it, and no step leads back.
LEMMA NextRows == TypeOK /\ RowsAreInserted /\ [Next]_vars => RowsAreInserted'
<1> SUFFICES ASSUME TypeOK, RowsAreInserted, Next PROVE RowsAreInserted'
  BY DEF vars, tables, RowsAreInserted
<1> USE NamesAssumption DEF TypeOK, RowsAreInserted
<1>1. CASE Elsewhere
  BY <1>1, RunsRest
<1>2. ASSUME NEW h \in Runs, TryLock(h) \/ Own(h) \/ Drop(h) \/ Abort(h)
      PROVE  RowsAreInserted'
  <2>1. CASE TryLock(h) \/ Drop(h) \/ Abort(h)
    BY <2>1 DEF TryLock, Drop, Abort, Goes, At, tables
  <2>2. CASE CheckPeak(h)
    BY <2>2 DEF CheckPeak, Goes, At, tables
  <2>3. CASE Sweep(h) \/ CleanUp(h)
    BY <2>3 DEF Sweep, CleanUp, Swept, Goes, Throws, At
  <2>4. CASE InsertPool(h)
    BY <2>4 DEF InsertPool, AddressTaken, Goes, Throws
  <2>5. CASE Post(h)
    BY <2>5 DEF Post, Unanswered, Goes, Throws
  <2>6. CASE Probe(h) \/ FanoutStarts(h) \/ GiveUpStart(h) \/ Poll(h)
    BY <2>6 DEF Probe, Unanswered, FanoutStarts, GiveUpStart, Poll, Goes, Throws, tables
  <2>7. CASE Choose(h) \/ GiveUpChoice(h) \/ Inspect(h) \/ Reread(h) \/ Kill(h)
    BY <2>7 DEF Choose, GiveUpChoice, Inspect, Reread, Kill, Goes, Throws, tables
  <2>8. CASE Decide(h) \/ Stall(h) \/ Report(h) \/ Unlock(h)
    BY <2>8 DEF Decide, Stall, Report, Unlock, Goes, Throws, tables
  <2> QED
    BY <1>2, <2>1, <2>2, <2>3, <2>4, <2>5, <2>6, <2>7, <2>8 DEF Own
<1> QED
  BY <1>1, <1>2, StepOf

-----------------------------------------------------------------------------
(* The dead, and the record of a restart.                                  *)

\* Who dies has stranded what it holds; a dead worker is given nothing more.
LEMMA KilledStrands ==
    ASSUME TypeOK, DeadHoldWhatTheyStranded, NEW w \in Workers, process[w] = "worker",
           Killed(w), UNCHANGED <<job, by>>
    PROVE  DeadHoldWhatTheyStranded'
<1>1. \A v \in Workers : OpenClaims(v)' = OpenClaims(v)
  BY DEF OpenClaims
<1> QED
  BY <1>1 DEF Killed, DeadHoldWhatTheyStranded, TypeOK

LEMMA NextDead ==
    ASSUME TypeOK, DeadHoldWhatTheyStranded, RecordIsOfTheChosen, [Next]_vars
    PROVE  DeadHoldWhatTheyStranded'
<1>1. ASSUME UNCHANGED <<job, by, process, stranded>> PROVE DeadHoldWhatTheyStranded'
  BY <1>1 DEF DeadHoldWhatTheyStranded, OpenClaims
<1>2. CASE Enqueue
  BY <1>2, NamesAssumption DEF Enqueue, DeadHoldWhatTheyStranded, OpenClaims, TypeOK
<1>3. ASSUME NEW w \in Workers, Claim(w) PROVE DeadHoldWhatTheyStranded'
  BY <1>3 DEF Claim, Alive, DeadHoldWhatTheyStranded, OpenClaims, TypeOK
<1>4. ASSUME NEW w \in Workers, Die(w) PROVE DeadHoldWhatTheyStranded'
  BY <1>4, KilledStrands DEF Die, Alive
<1>5. ASSUME NEW w \in Workers, PidReused(w) PROVE DeadHoldWhatTheyStranded'
  BY <1>5 DEF PidReused, DeadHoldWhatTheyStranded, OpenClaims, TypeOK
<1>6. ASSUME NEW w \in Workers, NEW j \in Jobs, Complete(w, j)
      PROVE  DeadHoldWhatTheyStranded'
  BY <1>6 DEF Complete, DeadHoldWhatTheyStranded, OpenClaims, TypeOK
<1>7. ASSUME NEW h \in Runs, Kill(h) PROVE DeadHoldWhatTheyStranded'
  <2>1. chosen[h] \in Workers
    BY <1>7 DEF Kill, At, RecordIsOfTheChosen
  <2>2. CASE process[chosen[h]] = "worker"
    BY <1>7, <2>1, <2>2, KilledStrands DEF Kill
  <2>3. CASE process[chosen[h]] = "other"
    BY <1>7, <2>1, <2>3 DEF Kill, DeadHoldWhatTheyStranded, OpenClaims, TypeOK
  <2>4. CASE process[chosen[h]] \notin {"worker", "other"}
    BY <1>1, <1>7, <2>4 DEF Kill
  <2> QED
    BY <2>2, <2>3, <2>4
<1>8. ASSUME NEW h \in Runs, TryLock(h) \/ Own(h) \/ Drop(h) \/ Abort(h), ~Kill(h)
      PROVE  DeadHoldWhatTheyStranded'
  <2>1. UNCHANGED <<job, by, process, stranded>>
    BY <1>8 DEF Own, CheckPeak, Sweep, InsertPool, Probe, Post, FanoutStarts, GiveUpStart,
           Poll, Choose, GiveUpChoice, Inspect, Reread, Decide, Stall, Report, CleanUp,
           Unlock, TryLock, Drop, Abort, tables, fleet
  <2> QED
    BY <1>1, <2>1
<1>9. CASE SignUp \/ UNCHANGED vars
  BY <1>1, <1>9 DEF SignUp, vars, fleet
<1> QED
  BY <1>2, <1>3, <1>4, <1>5, <1>6, <1>7, <1>8, <1>9, StepOf DEF Elsewhere

\* What is on record for one run, in the words of the invariant.
RecordOf(h) ==
    /\ phase[h] \in {"inspecting", "rereading", "killing"} => chosen[h] \in Workers
    /\ phase[h] \in {"choosing", "inspecting", "rereading"} => held[h] = {}
    /\ held[h] # {} => chosen[h] \in Workers
    /\ \A j \in held[h] : by[j] = chosen[h] \/ j \in stranded[chosen[h]]

\* Claims and deaths leave every record right.
LEMMA FleetKeepsRecords ==
    ASSUME TypeOK, DeadHoldWhatTheyStranded, NEW h \in Runs, RecordOf(h),
           NEW w \in Workers,
           \/ Claim(w)
           \/ Killed(w) /\ process[w] = "worker" /\ UNCHANGED by,
           UNCHANGED <<held, chosen>>,
           phase'[h] \in {phase[h], "deciding"}
    PROVE  RecordOf(h)'
<1>1. CASE Claim(w)
  <2>1. ASSUME NEW j \in held[h] PROVE by'[j] = chosen[h] \/ j \in stranded[chosen[h]]
    <3>1. chosen[h] \in Workers /\ j \in Jobs
      BY DEF RecordOf, TypeOK
    <3>2. by'[j] # by[j] => job[j] = "open" /\ by[j] \notin Alive
      BY <1>1, <3>1 DEF Claim, TypeOK
    <3> QED
      BY <3>1, <3>2 DEF RecordOf, DeadHoldWhatTheyStranded, Alive, OpenClaims
  <2> QED
    BY <1>1, <2>1 DEF Claim, RecordOf
<1>2. CASE Killed(w) /\ process[w] = "worker" /\ UNCHANGED by
  BY <1>2 DEF Killed, RecordOf, DeadHoldWhatTheyStranded, TypeOK
<1> QED
  BY <1>1, <1>2

LEMMA NextRecord ==
    ASSUME TypeOK, DeadHoldWhatTheyStranded, RecordIsOfTheChosen, [Next]_vars
    PROVE  RecordIsOfTheChosen'
<1>1. RecordIsOfTheChosen <=> \A h \in Runs : RecordOf(h)
  BY DEF RecordIsOfTheChosen, RecordOf
<1>2. RecordIsOfTheChosen' <=> \A h \in Runs : RecordOf(h)'
  BY DEF RecordIsOfTheChosen, RecordOf
<1> SUFFICES ASSUME NEW g \in Runs, RecordOf(g) PROVE RecordOf(g)'
  BY <1>1, <1>2
<1>3. ASSUME phase'[g] = phase[g], held'[g] = held[g], chosen'[g] = chosen[g],
             UNCHANGED <<by, stranded>>
      PROVE  RecordOf(g)'
  BY <1>3 DEF RecordOf
<1>4. CASE Enqueue \/ SignUp \/ UNCHANGED vars
  BY <1>3, <1>4 DEF Enqueue, SignUp, vars, fleet, window
<1>5. ASSUME NEW w \in Workers, Claim(w) \/ Die(w) PROVE RecordOf(g)'
  BY <1>5, FleetKeepsRecords DEF Claim, Die, Alive, window
<1>6. ASSUME NEW w \in Workers, PidReused(w) \/ \E j \in Jobs : Complete(w, j)
      PROVE  RecordOf(g)'
  BY <1>3, <1>6 DEF PidReused, Complete, window
<1>7. ASSUME NEW h \in Runs, Kill(h) PROVE RecordOf(g)'
  <2>1. chosen[h] \in Workers
    <3>1. RecordOf(h)
      BY <1>1
    <3> QED
      BY <1>7, <3>1 DEF Kill, At, RecordOf
  <2>2. UNCHANGED <<by, held, chosen>>
    BY <1>7 DEF Kill, window
  <2>3. CASE process[chosen[h]] = "worker"
    <3>1. Killed(chosen[h]) /\ phase'[g] \in {phase[g], "deciding"}
      BY <1>7, <2>3 DEF Kill, Goes, TypeOK
    <3> QED
      BY <2>1, <2>2, <2>3, <3>1, FleetKeepsRecords
  <2>4. CASE process[chosen[h]] # "worker"
    <3>1. stranded' = stranded /\ phase'[g] \in {phase[g], "deciding", "cleaning"}
      BY <1>7, <2>4 DEF Kill, Goes, Throws, TypeOK
    <3> QED
      BY <2>2, <3>1 DEF RecordOf
  <2> QED
    BY <2>3, <2>4
<1>8. ASSUME NEW h \in Runs, TryLock(h) \/ Own(h) \/ Drop(h) \/ Abort(h), ~Kill(h)
      PROVE  RecordOf(g)'
  <2>1. UNCHANGED <<job, by, stranded>>
    BY <1>8 DEF Own, CheckPeak, Sweep, InsertPool, Probe, Post, FanoutStarts, GiveUpStart,
           Poll, Choose, GiveUpChoice, Inspect, Reread, Decide, Stall, Report, CleanUp,
           Unlock, TryLock, Drop, Abort, fleet
  <2>2. CASE g # h
    BY <1>3, <1>8, <2>1, <2>2, RunsAreApart DEF OthersWait
  <2>3. CASE g = h
    <3> USE <2>1, <2>3 DEF RecordOf, TypeOK, Goes, Throws, At, window
    <3>1. CASE TryLock(h) \/ Drop(h) \/ Abort(h)
      BY <3>1 DEF TryLock, Drop, Abort
    <3>2. CASE CheckPeak(h) \/ Sweep(h) \/ InsertPool(h) \/ Probe(h) \/ Post(h)
      BY <3>2 DEF CheckPeak, Sweep, InsertPool, Probe, Post, Unanswered
    <3>3. CASE FanoutStarts(h) \/ GiveUpStart(h) \/ Poll(h)
      BY <3>3 DEF FanoutStarts, GiveUpStart, Poll, Intervenes
    <3>4. CASE Choose(h)
      BY <3>4 DEF Choose
    <3>5. CASE GiveUpChoice(h) \/ Inspect(h)
      BY <3>5 DEF GiveUpChoice, Inspect
    <3>6. CASE Reread(h)
      BY <3>6 DEF Reread, Recorded, OpenClaims
    <3>7. CASE Decide(h) \/ Stall(h) \/ Report(h) \/ CleanUp(h) \/ Unlock(h)
      BY <3>7 DEF Decide, Stall, Report, CleanUp, Unlock
    <3> QED
      BY <1>8, <3>1, <3>2, <3>3, <3>4, <3>5, <3>6, <3>7 DEF Own
  <2> QED
    BY <2>2, <2>3
<1> QED
  BY <1>4, <1>5, <1>6, <1>7, <1>8, StepOf DEF Elsewhere

-----------------------------------------------------------------------------
(* The verdict and the exit.                                               *)

\* What a worker stranded is never taken off the record.
LEMMA StrandedStays ==
    ASSUME TypeOK, DeadHoldWhatTheyStranded, RecordIsOfTheChosen, [Next]_vars,
           NEW w \in Workers
    PROVE  stranded[w] \subseteq stranded'[w]
<1>1. ASSUME UNCHANGED stranded PROVE stranded[w] \subseteq stranded'[w]
  BY <1>1
<1>2. ASSUME NEW v \in Workers, process[v] = "worker", Killed(v)
      PROVE  stranded[w] \subseteq stranded'[w]
  BY <1>2 DEF Killed, DeadHoldWhatTheyStranded, TypeOK
<1>3. CASE Elsewhere
  BY <1>1, <1>2, <1>3
     DEF Elsewhere, Enqueue, SignUp, Claim, Die, PidReused, Complete, Alive, fleet
<1>4. ASSUME NEW h \in Runs, TryLock(h) \/ Own(h) \/ Drop(h) \/ Abort(h)
      PROVE  stranded[w] \subseteq stranded'[w]
  <2>1. CASE Kill(h)
    <3>1. chosen[h] \in Workers
      BY <2>1 DEF Kill, At, RecordIsOfTheChosen
    <3>2. CASE process[chosen[h]] = "worker"
      BY <1>2, <2>1, <3>1, <3>2 DEF Kill
    <3>3. CASE process[chosen[h]] # "worker"
      BY <1>1, <2>1, <3>3 DEF Kill
    <3> QED
      BY <3>2, <3>3
  <2>2. CASE ~Kill(h)
    BY <1>1, <1>4, <2>2
       DEF Own, CheckPeak, Sweep, InsertPool, Probe, Post, FanoutStarts, GiveUpStart,
           Poll, Choose, GiveUpChoice, Inspect, Reread, Decide, Stall, Report, CleanUp,
           Unlock, TryLock, Drop, Abort, fleet
  <2> QED
    BY <2>1, <2>2
<1> QED
  BY <1>1, <1>3, <1>4, StepOf DEF vars, fleet

\* A window once measured stays so while the run keeps its record.
LEMMA MeasuredStays ==
    ASSUME TypeOK, DeadHoldWhatTheyStranded, RecordIsOfTheChosen, [Next]_vars,
           NEW h \in Runs, Measured(h),
           closed'[h] = closed[h], held'[h] = held[h], chosen'[h] = chosen[h]
    PROVE  Measured(h)'
<1>1. CASE ~Restarts(h)
  BY <1>1 DEF Measured, Restarts
<1>2. CASE Restarts(h)
  <2>1. PICK j \in held[h] : j \in stranded[chosen[h]]
    BY <1>2 DEF Measured
  <2>2. chosen[h] \in Workers
    BY <2>1 DEF RecordIsOfTheChosen
  <2> QED
    BY <2>1, <2>2, StrandedStays DEF Measured
<1> QED
  BY <1>1, <1>2

\* A verdict that is met was the whole peak, and, for a restart, a job that
\* left the chosen worker: by the record, a stranded one.
LEMMA MetWhenMeasured ==
    ASSUME TypeOK, DeadHoldWhatTheyStranded, RecordIsOfTheChosen, NEW h \in Runs,
           Report(h), met'[h]
    PROVE  Measured(h)' /\ phase'[h] = "cleaning"
<1>1. ExercisedLease(h) /\ AllSent(h) /\ phase'[h] = "cleaning"
  BY DEF Report, Verdict, Throws, Goes, TypeOK
<1>2. Restarts(h) => held[h] \cap stranded[chosen[h]] # {}
  BY <1>1 DEF ExercisedLease, Stranded, AllSent, RecordIsOfTheChosen, TypeOK
<1>3. UNCHANGED <<stranded, held, chosen, closed>>
  BY DEF Report, fleet, window
<1> QED
  BY <1>1, <1>2, <1>3 DEF Measured, AllSent, Restarts

\* No other step meets a verdict.
LEMMA MetOnlyByReport ==
    ASSUME TypeOK, NEW h \in Runs, TryLock(h) \/ Own(h) \/ Drop(h) \/ Abort(h),
           ~Report(h), met'[h]
    PROVE  met[h]
<1> USE DEF TypeOK, Throws
<1>1. CASE TryLock(h) \/ Drop(h) \/ Abort(h) \/ CheckPeak(h) \/ Unlock(h)
  BY <1>1 DEF TryLock, Drop, Abort, CheckPeak, Unlock
<1>2. CASE Sweep(h) \/ InsertPool(h) \/ Probe(h) \/ Post(h) \/ CleanUp(h)
  BY <1>2 DEF Sweep, InsertPool, Probe, Post, Unanswered, CleanUp
<1>3. CASE FanoutStarts(h) \/ GiveUpStart(h) \/ Poll(h) \/ Choose(h) \/ GiveUpChoice(h)
  BY <1>3 DEF FanoutStarts, GiveUpStart, Poll, Choose, GiveUpChoice
<1>4. CASE Inspect(h) \/ Reread(h) \/ Decide(h) \/ Stall(h)
  BY <1>4 DEF Inspect, Reread, Decide, Stall
<1>5. CASE Kill(h)
  BY <1>5 DEF Kill
<1> QED
  BY <1>1, <1>2, <1>3, <1>4, <1>5 DEF Own

\* A run whose verdict is met cleans up, releases its lock and ends.
LEMMA StepsAfterTheLog ==
    ASSUME NEW h \in Runs, TryLock(h) \/ Own(h) \/ Drop(h) \/ Abort(h),
           phase[h] \in {"cleaning", "unlocking", "ended"}
    PROVE  \/ CleanUp(h) /\ phase[h] = "cleaning"
           \/ Unlock(h) /\ phase[h] = "unlocking"
           \/ Drop(h)
           \/ Abort(h) /\ phase[h] # "ended"
BY DEF Own, TryLock, CheckPeak, Sweep, InsertPool, Probe, Post, FanoutStarts, GiveUpStart,
       StartTimesOut, Poll, Choose, GiveUpChoice, Inspect, Reread, Kill, Decide, Stall, Report,
       CleanUp, Unlock, Abort, At

\* Only a run's own insert gives it a row.
LEMMA RowIsOnlyInserted ==
    ASSUME TypeOK, NEW g \in Runs, row' = g, row # g, Next
    PROVE  InsertPool(g)
<1>1. ~Elsewhere
  BY RunsRest, NamesAssumption
<1>2. PICK h \in Runs : TryLock(h) \/ Own(h) \/ Drop(h) \/ Abort(h)
  BY <1>1, StepOf
<1>3. Own(h)
  BY <1>2 DEF TryLock, Drop, Abort
<1>4. ~Sweep(h) /\ ~CleanUp(h) /\ ~Post(h)
  BY NamesAssumption DEF Sweep, CleanUp, Swept, Post
<1>5. InsertPool(h) /\ row' = h
  BY <1>3, <1>4, RowRests DEF InsertPool
<1> QED
  BY <1>5

LEMMA NextMet ==
    ASSUME TypeOK, DeadHoldWhatTheyStranded, RecordIsOfTheChosen,
           LockIsItsHandles, MetIsMeasured, [Next]_vars
    PROVE  MetIsMeasured'
<1> SUFFICES ASSUME NEW g \in Runs, met'[g]
             PROVE  /\ phase'[g] \in {"cleaning", "unlocking", "ended"}
                    /\ Measured(g)'
                    /\ phase'[g] = "unlocking" => row' # g
  BY DEF MetIsMeasured
<1>1. ASSUME met[g] PROVE phase[g] \in {"cleaning", "unlocking", "ended"} /\ Measured(g)
                          /\ (phase[g] = "unlocking" => row # g)
  BY <1>1 DEF MetIsMeasured
<1>2. ASSUME phase'[g] = phase[g], met'[g] = met[g],
             closed'[g] = closed[g], held'[g] = held[g], chosen'[g] = chosen[g]
      PROVE  /\ phase'[g] \in {"cleaning", "unlocking", "ended"}
             /\ Measured(g)'
             /\ phase'[g] = "unlocking" => row' # g
  <2>1. Measured(g)'
    BY <1>1, <1>2, MeasuredStays
  <2>2. phase[g] = "unlocking" => row' # g
    <3>1. ~InsertPool(g) \/ phase[g] # "unlocking"
      BY DEF InsertPool, At
    <3> QED
      BY <1>1, <1>2, <3>1, RowIsOnlyInserted DEF vars, tables
  <2> QED
    BY <1>1, <1>2, <2>1, <2>2
<1>3. CASE UNCHANGED vars
  BY <1>2, <1>3 DEF vars, window
<1>4. CASE Elsewhere
  BY <1>2, <1>4, RunsRest DEF window
<1>5. ASSUME NEW h \in Runs, TryLock(h) \/ Own(h) \/ Drop(h) \/ Abort(h), h # g
      PROVE  /\ phase'[g] \in {"cleaning", "unlocking", "ended"}
             /\ Measured(g)'
             /\ phase'[g] = "unlocking" => row' # g
  BY <1>2, <1>5, RunsAreApart DEF OthersWait
<1>6. CASE Report(g)
  BY <1>6, MetWhenMeasured
<1>7. ASSUME TryLock(g) \/ Own(g) \/ Drop(g) \/ Abort(g), ~Report(g)
      PROVE  /\ phase'[g] \in {"cleaning", "unlocking", "ended"}
             /\ Measured(g)'
             /\ phase'[g] = "unlocking" => row' # g
  <2>1. met[g]
    BY <1>7, MetOnlyByReport
  <2>2. \/ CleanUp(g) /\ phase[g] = "cleaning"
        \/ Unlock(g) /\ phase[g] = "unlocking"
        \/ Drop(g)
        \/ Abort(g) /\ phase[g] # "ended"
    BY <1>1, <1>7, <2>1, StepsAfterTheLog
  <2>3. UNCHANGED <<closed, held, chosen>>
    BY <2>2 DEF CleanUp, Unlock, Drop, Abort, window
  <2>4. Measured(g)'
    BY <1>1, <2>1, <2>3, MeasuredStays
  <2>5. CASE CleanUp(g)
    <3>1. Held(g) /\ phase'[g] = "unlocking"
      BY <2>5 DEF CleanUp, Goes, TypeOK
    <3>2. row' # g
      BY <2>5, <3>1, NamesAssumption DEF CleanUp, Swept
    <3> QED
      BY <2>4, <3>1, <3>2
  <2>6. CASE Unlock(g) \/ Abort(g)
    BY <2>4, <2>6 DEF Unlock, Abort, Goes, TypeOK
  <2>7. CASE Drop(g)
    BY <1>1, <2>1, <2>4, <2>7 DEF Drop
  <2> QED
    BY <2>2, <2>5, <2>6, <2>7
<1> QED
  BY <1>3, <1>4, <1>5, <1>6, <1>7, StepOf DEF Own

LEMMA NextClean ==
    ASSUME TypeOK, MetIsMeasured, CleanIsMet, [Next]_vars
    PROVE  CleanIsMet'
<1> SUFFICES ASSUME NEW g \in Runs, code'[g] = "clean"
             PROVE  met'[g] /\ phase'[g] = "ended" /\ row' # g
  BY DEF CleanIsMet
<1>1. ASSUME phase'[g] = phase[g], met'[g] = met[g], code'[g] = code[g]
      PROVE  met'[g] /\ phase'[g] = "ended" /\ row' # g
  <2>1. met[g] /\ phase[g] = "ended" /\ row # g
    BY <1>1 DEF CleanIsMet
  <2>2. row' # g
    BY <2>1, RowIsOnlyInserted DEF InsertPool, At, vars, tables
  <2> QED
    BY <1>1, <2>1, <2>2
<1>2. CASE Elsewhere \/ UNCHANGED vars
  BY <1>1, <1>2, RunsRest DEF vars
<1>3. ASSUME NEW h \in Runs, TryLock(h) \/ Own(h) \/ Drop(h) \/ Abort(h), h # g
      PROVE  met'[g] /\ phase'[g] = "ended" /\ row' # g
  BY <1>1, <1>3, RunsAreApart DEF OthersWait
<1>4. ASSUME TryLock(g) \/ Own(g) \/ Drop(g) \/ Abort(g)
      PROVE  met'[g] /\ phase'[g] = "ended" /\ row' # g
  <2>1. CASE Unlock(g)
    <3>1. met[g] /\ phase[g] = "unlocking"
      BY <2>1 DEF Unlock, ExitCode, At, TypeOK
    <3>2. UNCHANGED <<met, row>> /\ phase'[g] = "ended"
      BY <2>1 DEF Unlock, Goes, TypeOK
    <3> QED
      BY <3>1, <3>2 DEF MetIsMeasured
  <2>2. CASE ~Unlock(g)
    <3>1. ~TryLock(g) /\ ~Abort(g)
      BY <2>2 DEF TryLock, Abort, CleanIsMet, TypeOK, At
    <3>2. code' = code
      BY <1>4, <2>2, <3>1
         DEF Own, CheckPeak, Sweep, InsertPool, Probe, Post, FanoutStarts, GiveUpStart,
             Poll, Choose, GiveUpChoice, Inspect, Reread, Kill, Decide, Stall, Report,
             CleanUp, Drop
    <3>3. met[g] /\ phase[g] = "ended" /\ row # g
      BY <3>2 DEF CleanIsMet
    <3>4. Drop(g)
      BY <1>4, <3>1, <3>3, StepsAfterTheLog
    <3> QED
      BY <3>3, <3>4 DEF Drop
  <2> QED
    BY <2>1, <2>2
<1> QED
  BY <1>2, <1>3, <1>4, StepOf

-----------------------------------------------------------------------------
(* The theorems.                                                           *)

LEMMA RunInvariant == Spec => []RunInv
<1>1. RunInv /\ [Next]_vars => RunInv'
  BY NextType, NextLock, NextRows, NextDead, NextRecord, NextMet, NextClean DEF RunInv
<1> QED
  BY InitRun, <1>1, PTL DEF Spec

\* A harness that exits clean, among any number of them, left no row of its
\* pool, saw the whole peak done in its window and, restarting, stranded a job
\* it had on record.
THEOREM CleanAlwaysMeasured == Spec => []CleanRunMeasured
<1>1. RunInv => CleanRunMeasured
  BY DEF RunInv, CleanIsMet, MetIsMeasured, Measured, CleanRunMeasured
<1> QED
  BY RunInvariant, <1>1, PTL

\* No step takes the rows of the run that has the lock but its own cleanup,
\* and none a row the harness did not insert.
THEOREM AlwaysSweepsItsOwn == Spec => SweepsItsOwn
<1>1. RunInv /\ [Next]_vars =>
        [/\ \A h \in Runs : row = h /\ row' # h /\ lock = h => CleanUp(h)
         /\ row = "ordinary" => row' = "ordinary"]_vars
  <2> SUFFICES ASSUME RunInv, Next
               PROVE  /\ \A h \in Runs : row = h /\ row' # h /\ lock = h => CleanUp(h)
                      /\ row = "ordinary" => row' = "ordinary"
    OBVIOUS
  <2> USE NamesAssumption DEF RunInv
  <2>1. ASSUME NEW h \in Runs, row = h, row' # h, lock = h PROVE CleanUp(h)
    <3>1. ~Elsewhere
      BY <2>1, RunsRest
    <3>2. PICK g \in Runs : Own(g)
      BY <2>1, <3>1, StepOf DEF TryLock, Drop, Abort
    <3>3. Sweep(g) \/ CleanUp(g)
      BY <2>1, <3>2, RowRests DEF InsertPool, AddressTaken, Post, Throws
    <3>4. Held(g)
      BY <2>1, <3>3 DEF Sweep, CleanUp, Swept
    <3>5. g = h
      BY <2>1, <3>4 DEF Held, LockIsItsHandles
    <3>6. ~Sweep(h)
      BY <2>1 DEF Sweep, At, RowsAreInserted
    <3> QED
      BY <3>3, <3>5, <3>6
  <2>2. ASSUME row = "ordinary" PROVE row' = "ordinary"
    <3>1. CASE Elsewhere
      BY <2>2, <3>1, RunsRest
    <3>2. ASSUME NEW g \in Runs, TryLock(g) \/ Own(g) \/ Drop(g) \/ Abort(g)
          PROVE  row' = "ordinary"
      BY <2>2, <3>2, RowRests
         DEF TryLock, Drop, Abort, tables, Sweep, CleanUp, Swept, InsertPool, AddressTaken, Post
    <3> QED
      BY <3>1, <3>2, StepOf
  <2> QED
    BY <2>1, <2>2
<1> QED
  BY RunInvariant, <1>1, PTL DEF Spec, SweepsItsOwn
=============================================================================
