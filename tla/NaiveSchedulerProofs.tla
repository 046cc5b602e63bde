------------------------ MODULE NaiveSchedulerProofs ------------------------
(***************************************************************************)
(* The naive scheduler, for any processes, reminders and tokens: a         *)
(* reminder is what its first record says, and what is sent twice or has   *)
(* no row is a fault's.                                                    *)
(***************************************************************************)
EXTENDS NaiveScheduler, FiniteSetTheorems, TLAPS

\* createNonOverlappingTick: the flag is up exactly while a tick is under way,
\* and there is one.
OneTick ==
    \A s \in Schedulers :
        /\ inFlight[s] <=> \E k \in Ticks : tick[s][k] # Nothing
        /\ \A k, l \in Ticks : tick[s][k] # Nothing /\ tick[s][l] # Nothing => k = l

\* What a tick is at: nothing before its selection, a reminder it has taken
\* from the rest while it sends, and a decided one once it has recorded.
WellUnderWay(t) ==
    /\ t.stage = "selecting" => t.rest = {} /\ t.at = Nothing /\ t.left = {}
    /\ t.stage \in {"sending"} \cup Statuses => t.at \in Reminders
    /\ t.left # {} => t.at \in Reminders
    /\ t.at \notin t.rest
    /\ t.stage = "next" /\ t.at \in Reminders => reminder[t.at] # "pending"

TicksAreWell ==
    \A s \in Schedulers, k \in Ticks : tick[s][k] # Nothing => WellUnderWay(tick[s][k])

\* Process s may still begin a send of r to x: its tick has r or x before it,
\* or a later tick may select r.
Ahead(t, r, x) == r \in t.rest \/ (t.at = r /\ x \in t.left)

MayBegin(s, r, x) ==
    \/ \E k \in Ticks : tick[s][k] # Nothing /\ Ahead(tick[s][k], r, x)
    \/ /\ reminder[r] = "pending"
       /\ \A k \in Ticks : tick[s][k] # Nothing => tick[s][k].at # r

\* A send that may begin again has begun at most once for each fault.
BeginsAreBounded ==
    \A s \in Schedulers, r \in Reminders, x \in Targets :
        began[s][r][x] <= IF MayBegin(s, r, x) THEN faults ELSE 1 + faults

\* A push that went out has its row, is in hand, or met a fault; a row that
\* says failed, or will, is of a send that was refused.
PushesAreAccounted ==
    \A r \in Reminders :
        /\ reminder[r] # "gone" =>
               accepted[r] <= Rows(r, "sent") + InHand(r, "sent") + faults
        /\ Rows(r, "failed") + InHand(r, "failed") <= refused[r]

TickInv ==
    /\ TypeOK /\ OneTick /\ TicksAreWell
    /\ FirstRecordDecides /\ BeginsAreBounded /\ PushesAreAccounted

-----------------------------------------------------------------------------
(* Types.                                                                  *)

LEMMA InitType == Init => TypeOK
BY NamesAssumption, BoundAssumption DEF Init, TypeOK, Targets, Statuses

LEMMA TickTypes ==
    ASSUME TypeOK, NEW s \in Schedulers, NEW k \in Ticks, tick[s][k] # Nothing
    PROVE  /\ tick[s][k] \in Running
           /\ tick[s][k].stage \in {"selecting", "next", "sending"} \cup Statuses
           /\ tick[s][k].rest \subseteq Reminders
           /\ tick[s][k].at \in Reminders \cup {Nothing}
           /\ tick[s][k].left \subseteq Targets
BY DEF TypeOK, Running

LEMMA BecomesType ==
    ASSUME TypeOK, NEW s \in Schedulers, NEW k \in Ticks, NEW t \in Running \cup {Nothing},
           Becomes(s, k, t)
    PROVE  /\ tick' \in [Schedulers -> [Ticks -> Running \cup {Nothing}]]
           /\ tick'[s][k] = t
           /\ \A q \in Schedulers, l \in Ticks : q # s \/ l # k => tick'[q][l] = tick[q][l]
BY DEF TypeOK, Becomes

LEMMA EndsType ==
    ASSUME TypeOK, NEW s \in Schedulers, NEW k \in Ticks, NEW threw, Ends(s, k, threw)
    PROVE  /\ tick' \in [Schedulers -> [Ticks -> Running \cup {Nothing}]]
           /\ inFlight' \in [Schedulers -> BOOLEAN]
           /\ tick'[s][k] = Nothing /\ inFlight'[s] = FALSE
           /\ \A q \in Schedulers, l \in Ticks : q # s \/ l # k => tick'[q][l] = tick[q][l]
           /\ \A q \in Schedulers : q # s => inFlight'[q] = inFlight[q]
<1>1. Becomes(s, k, Nothing) /\ inFlight' = [inFlight EXCEPT ![s] = FALSE]
  BY DEF Ends, Released
<1> QED
  BY <1>1, BecomesType DEF TypeOK

\* What a tick under way becomes.
LEMMA StagedTick ==
    ASSUME NEW t \in Running, NEW x \in {"selecting", "next", "sending"} \cup Statuses
    PROVE  /\ [t EXCEPT !.stage = x].stage = x
           /\ [t EXCEPT !.stage = x].rest = t.rest
           /\ [t EXCEPT !.stage = x].at = t.at
           /\ [t EXCEPT !.stage = x].left = t.left
BY DEF Running

LEMMA SelectedTick ==
    ASSUME NEW t \in Running, NEW S \in SUBSET Reminders
    PROVE  /\ [t EXCEPT !.stage = "next", !.rest = S].stage = "next"
           /\ [t EXCEPT !.stage = "next", !.rest = S].rest = S
           /\ [t EXCEPT !.stage = "next", !.rest = S].at = t.at
           /\ [t EXCEPT !.stage = "next", !.rest = S].left = t.left
BY DEF Running

\* Every step of a tick keeps the types, and what it sends is sent to a
\* reminder.
LEMMA StepType ==
    ASSUME TypeOK, TicksAreWell, NEW s \in Schedulers, NEW k \in Ticks,
           Fire(s, k) \/ Step(s, k) \/ SelectFails(s, k) \/ RecordFails(s, k)
    PROVE  TypeOK'
<1> USE BoundAssumption DEF database, history
<1>1. CASE Fire(s, k)
  <2>1. [stage |-> "selecting", rest |-> {}, at |-> Nothing, left |-> {}] \in Running
    BY DEF Running
  <2> QED
    BY <1>1, <2>1, BecomesType DEF Fire, TypeOK
<1>2. CASE DueReminders(s, k)
  <2>1. tick[s][k] \in Running /\ {r \in due : reminder[r] = "pending"} \subseteq Reminders
    BY <1>2, TickTypes DEF DueReminders, At, TypeOK
  <2>2. [tick[s][k] EXCEPT !.stage = "next",
                           !.rest = {r \in due : reminder[r] = "pending"}] \in Running
    BY <2>1 DEF Running
  <2> QED
    BY <1>2, <2>2, BecomesType DEF DueReminders, TypeOK
<1>3. CASE Send(s, k)
  <2>1. tick[s][k] \in Running
    BY <1>3, TickTypes DEF Send, At
  <2>2. PICK r \in (IF tick[s][k].left = {} THEN tick[s][k].rest ELSE {tick[s][k].at}) :
          \E x \in (IF tick[s][k].left = {} THEN SendTargets(r) ELSE tick[s][k].left) :
            /\ Becomes(s, k, [stage |-> "sending", rest |-> tick[s][k].rest \ {r},
                 at |-> r,
                 left |-> (IF tick[s][k].left = {} THEN SendTargets(r) ELSE tick[s][k].left) \ {x}])
            /\ began' = [began EXCEPT ![s][r][x] = @ + 1]
    BY <1>3 DEF Send
  <2>3. r \in Reminders
    BY <1>3, <2>1, <2>2, TickTypes DEF Send, At, TicksAreWell, WellUnderWay
  <2>4. SendTargets(r) \subseteq Targets /\ tick[s][k].left \subseteq Targets
    BY <2>1, <2>3 DEF SendTargets, Targets, TypeOK, Running
  <2> DEFINE targets == IF tick[s][k].left = {} THEN SendTargets(r) ELSE tick[s][k].left
  <2>5. PICK x \in targets :
            /\ Becomes(s, k, [stage |-> "sending", rest |-> tick[s][k].rest \ {r},
                              at |-> r, left |-> targets \ {x}])
            /\ began' = [began EXCEPT ![s][r][x] = @ + 1]
    BY <2>2
  <2>6. targets \subseteq Targets
    BY <2>4
  <2> HIDE DEF targets
  <2>7. [stage |-> "sending", rest |-> tick[s][k].rest \ {r},
         at |-> r, left |-> targets \ {x}] \in Running
    BY <2>1, <2>3, <2>6 DEF Running
  <2>8. tick' \in [Schedulers -> [Ticks -> Running \cup {Nothing}]]
    BY <2>5, <2>7, BecomesType
  <2>9. began' \in [Schedulers -> [Reminders -> [Targets -> Nat]]]
    BY <2>3, <2>5, <2>6 DEF TypeOK
  <2> QED
    BY <1>3, <2>8, <2>9 DEF Send, TypeOK
<1>4. CASE Accepted(s, k)
  <2>1. tick[s][k] \in Running
    BY <1>4, TickTypes DEF Accepted, At
  <2>2. tick[s][k].at \in Reminders
    BY <1>4, <2>1 DEF Accepted, At, TicksAreWell, WellUnderWay
  <2>3. [tick[s][k] EXCEPT !.stage = "sent"] \in Running
    BY <2>1 DEF Running, Statuses
  <2>4. tick' \in [Schedulers -> [Ticks -> Running \cup {Nothing}]]
    BY <1>4, <2>3, BecomesType DEF Accepted
  <2> QED
    BY <1>4, <2>2, <2>4 DEF Accepted, TypeOK
<1>5. CASE Refused(s, k)
  <2>1. tick[s][k] \in Running
    BY <1>5, TickTypes DEF Refused, At
  <2>2. tick[s][k].at \in Reminders
    BY <1>5, <2>1 DEF Refused, At, TicksAreWell, WellUnderWay
  <2>3. [tick[s][k] EXCEPT !.stage = "failed"] \in Running
    BY <2>1 DEF Running, Statuses
  <2>4. tick' \in [Schedulers -> [Ticks -> Running \cup {Nothing}]]
    BY <1>5, <2>3, BecomesType DEF Refused
  <2> QED
    BY <1>5, <2>2, <2>4 DEF Refused, TypeOK
<1>6. CASE RecordAttempt(s, k)
  <2>1. PICK status \in Statuses :
          /\ At(s, k, status)
          /\ deliveries' = [deliveries EXCEPT ![tick[s][k].at] = Append(@, status)]
          /\ reminder' = [reminder EXCEPT ![tick[s][k].at] = Decided(tick[s][k].at, status)]
          /\ Becomes(s, k, [tick[s][k] EXCEPT !.stage = "next"])
    BY <1>6 DEF RecordAttempt
  <2>2. tick[s][k] \in Running /\ tick[s][k].at \in Reminders
    BY <2>1, TickTypes DEF At, TicksAreWell, WellUnderWay
  <2>3. tick' \in [Schedulers -> [Ticks -> Running \cup {Nothing}]]
    <3>1. [tick[s][k] EXCEPT !.stage = "next"] \in Running
      BY <2>2 DEF Running
    <3> QED
      BY <2>1, <3>1, BecomesType
  <2>4. /\ reminder' \in [Reminders -> {"pending", "gone"} \cup Statuses]
        /\ deliveries' \in [Reminders -> Seq(Statuses)]
    BY <2>1, <2>2 DEF TypeOK, Decided
  <2> QED
    BY <1>6, <2>3, <2>4 DEF RecordAttempt, TypeOK
<1>7. CASE RecordRefused(s, k) \/ Finish(s, k)
  BY <1>7, EndsType DEF RecordRefused, Finish, TypeOK
<1>8. CASE SelectFails(s, k) \/ RecordFails(s, k)
  <2>1. Ends(s, k, TRUE) /\ Fault /\ UNCHANGED <<database, history>>
    BY <1>8 DEF SelectFails, RecordFails, RecordThrew
  <2>2. faults' \in 0..MaxFaults
    BY <2>1 DEF Fault, TypeOK
  <2> QED
    BY <2>1, <2>2, EndsType DEF TypeOK
<1> QED
  BY <1>1, <1>2, <1>3, <1>4, <1>5, <1>6, <1>7, <1>8 DEF Step

LEMMA NextType == TypeOK /\ TicksAreWell /\ [Next]_vars => TypeOK'
<1> SUFFICES ASSUME TypeOK, TicksAreWell, [Next]_vars PROVE TypeOK'
  OBVIOUS
<1> USE BoundAssumption DEF TypeOK, database, history, Fault
<1>1. ASSUME NEW s \in Schedulers, Restart(s) PROVE TypeOK'
  BY <1>1 DEF Restart
<1>2. ASSUME NEW r \in Reminders, TimePasses(r) PROVE TypeOK'
  BY <1>2 DEF TimePasses
<1>3. CASE ReSeed
  BY <1>3 DEF ReSeed
<1>4. CASE UNCHANGED vars
  BY <1>4 DEF vars
<1> QED
  BY <1>1, <1>2, <1>3, <1>4, StepType DEF Next, Skip

-----------------------------------------------------------------------------
(* What each step of a tick does, point by point.                          *)

\* The tick k of process s goes on, and no other tick moves.
GoesOn(s, k) ==
    /\ tick[s][k] # Nothing /\ tick'[s][k] # Nothing
    /\ tick[s][k] \in Running /\ tick'[s][k] \in Running
    /\ \A q \in Schedulers, l \in Ticks : q # s \/ l # k => tick'[q][l] = tick[q][l]
    /\ inFlight' = inFlight

\* The tick k of process s is over.
IsOver(s, k) ==
    /\ tick[s][k] # Nothing /\ tick[s][k] \in Running
    /\ tick'[s][k] = Nothing /\ inFlight'[s] = FALSE
    /\ \A q \in Schedulers, l \in Ticks : q # s \/ l # k => tick'[q][l] = tick[q][l]
    /\ \A q \in Schedulers : q # s => inFlight'[q] = inFlight[q]
    /\ UNCHANGED <<reminder, deliveries, history>>

LEMMA FireMoves ==
    ASSUME TypeOK, NEW s \in Schedulers, NEW k \in Ticks, Fire(s, k)
    PROVE  /\ tick[s][k] = Nothing /\ tick'[s][k] # Nothing
           /\ tick'[s][k].stage = "selecting" /\ tick'[s][k].rest = {}
           /\ tick'[s][k].at = Nothing /\ tick'[s][k].left = {}
           /\ \A q \in Schedulers, l \in Ticks : q # s \/ l # k => tick'[q][l] = tick[q][l]
           /\ UNCHANGED <<reminder, deliveries, accepted, refused, began, faults>>
<1> DEFINE t == [stage |-> "selecting", rest |-> {}, at |-> Nothing, left |-> {}]
<1>1. t \in Running
  BY DEF Running
<1>2. t.stage = "selecting" /\ t.rest = {} /\ t.at = Nothing /\ t.left = {}
  OBVIOUS
<1>3. Becomes(s, k, t)
  BY DEF Fire
<1> HIDE DEF t
<1>4. /\ tick'[s][k] = t
      /\ \A q \in Schedulers, l \in Ticks : q # s \/ l # k => tick'[q][l] = tick[q][l]
  BY <1>1, <1>3, BecomesType
<1> QED
  BY <1>1, <1>2, <1>4, NamesAssumption DEF Fire, database, history

LEMMA FireRaises ==
    ASSUME TypeOK, NEW s \in Schedulers, NEW k \in Ticks, Fire(s, k)
    PROVE  /\ ~inFlight[s] /\ inFlight'[s]
           /\ \A q \in Schedulers : q # s => inFlight'[q] = inFlight[q]
BY DEF Fire, MayTick, TypeOK

LEMMA DueMoves ==
    ASSUME TypeOK, NEW s \in Schedulers, NEW k \in Ticks, DueReminders(s, k)
    PROVE  /\ GoesOn(s, k)
           /\ tick[s][k].stage = "selecting"
           /\ tick'[s][k].stage = "next"
           /\ tick'[s][k].rest = {r \in due : reminder[r] = "pending"}
           /\ tick'[s][k].at = tick[s][k].at /\ tick'[s][k].left = tick[s][k].left
           /\ UNCHANGED <<reminder, deliveries, accepted, refused, began, faults>>
<1> DEFINE S == {r \in due : reminder[r] = "pending"}
           t == [tick[s][k] EXCEPT !.stage = "next", !.rest = S]
<1>1. tick[s][k] \in Running /\ tick[s][k] # Nothing /\ S \in SUBSET Reminders
  BY TickTypes DEF DueReminders, At, TypeOK
<1>2. t \in Running
  BY <1>1 DEF Running
<1>3. Becomes(s, k, t)
  BY DEF DueReminders
<1>4. t.stage = "next" /\ t.rest = S /\ t.at = tick[s][k].at /\ t.left = tick[s][k].left
  BY <1>1, SelectedTick
<1> HIDE DEF t
<1>5. /\ tick'[s][k] = t
      /\ \A q \in Schedulers, l \in Ticks : q # s \/ l # k => tick'[q][l] = tick[q][l]
  BY <1>2, <1>3, BecomesType
<1> QED
  BY <1>1, <1>2, <1>4, <1>5, NamesAssumption DEF DueReminders, At, GoesOn, database, history

\* A tick moves on to the stage x and nothing else of it changes.
LEMMA StageMoves ==
    ASSUME TypeOK, NEW s \in Schedulers, NEW k \in Ticks, tick[s][k] # Nothing,
           NEW x \in {"selecting", "next", "sending"} \cup Statuses,
           Becomes(s, k, [tick[s][k] EXCEPT !.stage = x]), inFlight' = inFlight
    PROVE  /\ GoesOn(s, k)
           /\ tick'[s][k].stage = x
           /\ tick'[s][k].rest = tick[s][k].rest
           /\ tick'[s][k].at = tick[s][k].at /\ tick'[s][k].left = tick[s][k].left
<1> DEFINE t == [tick[s][k] EXCEPT !.stage = x]
<1>1. tick[s][k] \in Running
  BY TickTypes
<1>2. t \in Running
  BY <1>1 DEF Running
<1>3. t.stage = x /\ t.rest = tick[s][k].rest /\ t.at = tick[s][k].at /\ t.left = tick[s][k].left
  BY <1>1, StagedTick
<1> HIDE DEF t
<1>4. /\ tick'[s][k] = t
      /\ \A q \in Schedulers, l \in Ticks : q # s \/ l # k => tick'[q][l] = tick[q][l]
  BY <1>2, BecomesType DEF t
<1> QED
  BY <1>1, <1>2, <1>3, <1>4, NamesAssumption DEF GoesOn

\* One send of s begins, to the first target of the next reminder or to the
\* next of the one under way.
SendsTo(s, k, r, x) ==
    /\ tick[s][k].stage = "next"
    /\ IF tick[s][k].left = {} THEN r \in tick[s][k].rest
       ELSE r = tick[s][k].at /\ x \in tick[s][k].left /\ tick'[s][k].left \subseteq tick[s][k].left
    /\ tick'[s][k].stage = "sending" /\ tick'[s][k].at = r
    /\ tick'[s][k].rest = tick[s][k].rest \ {r}
    /\ tick'[s][k].left \subseteq Targets /\ x \notin tick'[s][k].left
    /\ began'[s][r][x] = began[s][r][x] + 1
    /\ \A q \in Schedulers, p \in Reminders, y \in Targets :
           q # s \/ p # r \/ y # x => began'[q][p][y] = began[q][p][y]

LEMMA SendMoves ==
    ASSUME TypeOK, TicksAreWell, NEW s \in Schedulers, NEW k \in Ticks, Send(s, k)
    PROVE  /\ GoesOn(s, k)
           /\ \E r \in Reminders, x \in Targets : SendsTo(s, k, r, x)
           /\ UNCHANGED <<reminder, deliveries, accepted, refused, faults>>
<1>1. tick[s][k] \in Running /\ tick[s][k] # Nothing /\ tick[s][k].stage = "next"
  BY TickTypes DEF Send, At
<1>2. PICK r \in (IF tick[s][k].left = {} THEN tick[s][k].rest ELSE {tick[s][k].at}) :
        \E x \in (IF tick[s][k].left = {} THEN SendTargets(r) ELSE tick[s][k].left) :
          /\ Becomes(s, k, [stage |-> "sending", rest |-> tick[s][k].rest \ {r},
               at |-> r,
               left |-> (IF tick[s][k].left = {} THEN SendTargets(r) ELSE tick[s][k].left) \ {x}])
          /\ began' = [began EXCEPT ![s][r][x] = @ + 1]
  BY DEF Send
<1>3. r \in Reminders
  BY <1>1, <1>2, TickTypes DEF TicksAreWell, WellUnderWay
<1> DEFINE targets == IF tick[s][k].left = {} THEN SendTargets(r) ELSE tick[s][k].left
<1>4. targets \subseteq Targets
  BY <1>1, <1>3 DEF SendTargets, Targets, TypeOK, Running
<1>5. PICK x \in targets :
          /\ Becomes(s, k, [stage |-> "sending", rest |-> tick[s][k].rest \ {r},
                            at |-> r, left |-> targets \ {x}])
          /\ began' = [began EXCEPT ![s][r][x] = @ + 1]
  BY <1>2
<1>6. tick[s][k].left # {} => targets = tick[s][k].left
  OBVIOUS
<1> HIDE DEF targets
<1> DEFINE t == [stage |-> "sending", rest |-> tick[s][k].rest \ {r},
                 at |-> r, left |-> targets \ {x}]
<1>7. t \in Running
  BY <1>1, <1>3, <1>4 DEF Running
<1>8. t.stage = "sending" /\ t.rest = tick[s][k].rest \ {r} /\ t.at = r /\ t.left = targets \ {x}
  OBVIOUS
<1> HIDE DEF t
<1>9. /\ tick'[s][k] = t
      /\ \A q \in Schedulers, l \in Ticks : q # s \/ l # k => tick'[q][l] = tick[q][l]
  BY <1>5, <1>7, BecomesType DEF t
<1>10. GoesOn(s, k)
  BY <1>1, <1>7, <1>9, NamesAssumption DEF GoesOn, Send
<1>11. x \in Targets
  BY <1>4
<1>12. /\ began'[s][r][x] = began[s][r][x] + 1
       /\ \A q \in Schedulers, p \in Reminders, y \in Targets :
              q # s \/ p # r \/ y # x => began'[q][p][y] = began[q][p][y]
  BY <1>3, <1>5, <1>11 DEF TypeOK
<1>13. SendsTo(s, k, r, x)
  BY <1>1, <1>2, <1>4, <1>6, <1>8, <1>9, <1>12 DEF SendsTo
<1> QED
  BY <1>3, <1>10, <1>11, <1>13 DEF Send, database

\* The sink answers, one way or the other.
LEMMA AnswerMoves ==
    ASSUME TypeOK, TicksAreWell, NEW s \in Schedulers, NEW k \in Ticks,
           Accepted(s, k) \/ Refused(s, k)
    PROVE  /\ GoesOn(s, k)
           /\ tick[s][k].stage = "sending" /\ tick[s][k].at \in Reminders
           /\ tick'[s][k].stage = IF Accepted(s, k) THEN "sent" ELSE "failed"
           /\ tick'[s][k].rest = tick[s][k].rest
           /\ tick'[s][k].at = tick[s][k].at /\ tick'[s][k].left = tick[s][k].left
           /\ \A r \in Reminders :
                  /\ accepted'[r] = accepted[r] +
                         (IF Accepted(s, k) /\ r = tick[s][k].at THEN 1 ELSE 0)
                  /\ refused'[r] = refused[r] +
                         (IF ~Accepted(s, k) /\ r = tick[s][k].at THEN 1 ELSE 0)
           /\ UNCHANGED <<reminder, deliveries, began, faults>>
<1>1. tick[s][k] # Nothing /\ tick[s][k].stage = "sending"
  BY DEF Accepted, Refused, At
<1>2. tick[s][k].at \in Reminders
  BY <1>1 DEF TicksAreWell, WellUnderWay
<1>3. CASE Accepted(s, k)
  <2>1. /\ GoesOn(s, k)
        /\ tick'[s][k].stage = "sent"
        /\ tick'[s][k].rest = tick[s][k].rest
        /\ tick'[s][k].at = tick[s][k].at /\ tick'[s][k].left = tick[s][k].left
    BY <1>1, <1>3, StageMoves DEF Accepted, Statuses
  <2>2. \A r \in Reminders :
            accepted'[r] = accepted[r] + (IF r = tick[s][k].at THEN 1 ELSE 0)
    BY <1>2, <1>3 DEF Accepted, TypeOK
  <2> QED
    BY <1>1, <1>2, <1>3, <2>1, <2>2 DEF Accepted, database, TypeOK
<1>4. CASE ~Accepted(s, k)
  <2>1. /\ GoesOn(s, k)
        /\ tick'[s][k].stage = "failed"
        /\ tick'[s][k].rest = tick[s][k].rest
        /\ tick'[s][k].at = tick[s][k].at /\ tick'[s][k].left = tick[s][k].left
    BY <1>1, <1>4, StageMoves DEF Refused, Statuses
  <2>2. \A r \in Reminders :
            refused'[r] = refused[r] + (IF r = tick[s][k].at THEN 1 ELSE 0)
    BY <1>2, <1>4 DEF Refused, TypeOK
  <2> QED
    BY <1>1, <1>2, <1>4, <2>1, <2>2 DEF Refused, database, TypeOK
<1> QED
  BY <1>3, <1>4

\* A send is recorded, as the status that is in hand.
LEMMA RecordMoves ==
    ASSUME TypeOK, TicksAreWell, NEW s \in Schedulers, NEW k \in Ticks, RecordAttempt(s, k)
    PROVE  /\ GoesOn(s, k)
           /\ tick[s][k].stage \in Statuses /\ tick[s][k].at \in Reminders
           /\ tick'[s][k].stage = "next"
           /\ tick'[s][k].rest = tick[s][k].rest
           /\ tick'[s][k].at = tick[s][k].at /\ tick'[s][k].left = tick[s][k].left
           /\ reminder[tick[s][k].at] # "gone"
           /\ deliveries'[tick[s][k].at] = Append(deliveries[tick[s][k].at], tick[s][k].stage)
           /\ reminder'[tick[s][k].at] = Decided(tick[s][k].at, tick[s][k].stage)
           /\ \A r \in Reminders : r # tick[s][k].at =>
                  reminder'[r] = reminder[r] /\ deliveries'[r] = deliveries[r]
           /\ UNCHANGED <<history, faults>>
<1>1. PICK status \in Statuses :
        /\ At(s, k, status)
        /\ reminder[tick[s][k].at] # "gone"
        /\ deliveries' = [deliveries EXCEPT ![tick[s][k].at] = Append(@, status)]
        /\ reminder' = [reminder EXCEPT ![tick[s][k].at] = Decided(tick[s][k].at, status)]
        /\ Becomes(s, k, [tick[s][k] EXCEPT !.stage = "next"])
        /\ UNCHANGED <<due, tokens, inFlight, history, faults>>
  BY DEF RecordAttempt
<1>2. tick[s][k] # Nothing /\ tick[s][k].stage = status
  BY <1>1 DEF At
<1>3. tick[s][k].at \in Reminders
  BY <1>2 DEF TicksAreWell, WellUnderWay
<1>4. /\ GoesOn(s, k)
      /\ tick'[s][k].stage = "next"
      /\ tick'[s][k].rest = tick[s][k].rest
      /\ tick'[s][k].at = tick[s][k].at /\ tick'[s][k].left = tick[s][k].left
  BY <1>1, <1>2, StageMoves
<1>5. /\ deliveries'[tick[s][k].at] = Append(deliveries[tick[s][k].at], status)
      /\ reminder'[tick[s][k].at] = Decided(tick[s][k].at, status)
      /\ \A r \in Reminders : r # tick[s][k].at =>
             reminder'[r] = reminder[r] /\ deliveries'[r] = deliveries[r]
  BY <1>1, <1>3 DEF TypeOK
<1> QED
  BY <1>1, <1>2, <1>3, <1>4, <1>5

\* A tick ends: with nothing left, for a reminder that is gone, or at a fault.
LEMMA OverMoves ==
    ASSUME TypeOK, TicksAreWell, NEW s \in Schedulers, NEW k \in Ticks,
           RecordRefused(s, k) \/ Finish(s, k) \/ SelectFails(s, k) \/ RecordFails(s, k)
    PROVE  /\ IsOver(s, k)
           /\ \/ /\ RecordRefused(s, k) /\ faults' = faults
                 /\ tick[s][k].stage \in Statuses
                 /\ tick[s][k].at \in Reminders /\ reminder[tick[s][k].at] = "gone"
              \/ /\ Finish(s, k) /\ faults' = faults
                 /\ tick[s][k].stage = "next"
                 /\ tick[s][k].rest = {} /\ tick[s][k].left = {}
              \/ faults' = faults + 1
<1>1. \E threw \in BOOLEAN : Ends(s, k, threw)
  BY DEF RecordRefused, Finish, SelectFails, RecordFails, RecordThrew
<1>2. tick[s][k] # Nothing
  BY DEF RecordRefused, Finish, SelectFails, RecordFails, At
<1>3. UNCHANGED <<database, history>>
  BY DEF RecordRefused, Finish, SelectFails, RecordFails
<1>4. IsOver(s, k)
  BY <1>1, <1>2, <1>3, EndsType, TickTypes DEF IsOver, database
<1>5. CASE RecordRefused(s, k)
  <2>1. tick[s][k].stage \in Statuses /\ reminder[tick[s][k].at] = "gone" /\ faults' = faults
    BY <1>5 DEF RecordRefused, At
  <2> QED
    BY <1>2, <1>4, <1>5, <2>1 DEF TicksAreWell, WellUnderWay
<1>6. CASE Finish(s, k)
  BY <1>4, <1>6 DEF Finish, At
<1>7. CASE SelectFails(s, k) \/ RecordFails(s, k)
  BY <1>4, <1>7 DEF SelectFails, RecordFails, Fault
<1> QED
  BY <1>5, <1>6, <1>7

\* The steps of a tick, by what they do.
LEMMA StepsOfATick ==
    ASSUME NEW s \in Schedulers, NEW k \in Ticks,
           Fire(s, k) \/ Step(s, k) \/ SelectFails(s, k) \/ RecordFails(s, k)
    PROVE  \/ Fire(s, k) \/ DueReminders(s, k) \/ Send(s, k)
           \/ Accepted(s, k) \/ Refused(s, k) \/ RecordAttempt(s, k)
           \/ RecordRefused(s, k) \/ Finish(s, k) \/ SelectFails(s, k) \/ RecordFails(s, k)
BY DEF Step

LEMMA RestartMoves ==
    ASSUME TypeOK, NEW s \in Schedulers, Restart(s)
    PROVE  /\ faults' = faults + 1
           /\ inFlight'[s] = FALSE
           /\ \A q \in Schedulers : q # s => inFlight'[q] = inFlight[q]
           /\ \A k \in Ticks : tick'[s][k] = Nothing
           /\ \A q \in Schedulers, k \in Ticks : q # s => tick'[q][k] = tick[q][k]
           /\ UNCHANGED <<reminder, deliveries, history>>
BY DEF Restart, Fault, TypeOK, database

-----------------------------------------------------------------------------
(* One tick at a time, and what it is at.                                  *)

LEMMA InitTicks == Init => OneTick /\ TicksAreWell
BY DEF Init, OneTick, TicksAreWell

LEMMA NextOneTick ==
    ASSUME TypeOK, TicksAreWell, OneTick, [Next]_vars
    PROVE  OneTick'
<1>1. ASSUME NEW s \in Schedulers, NEW k \in Ticks, GoesOn(s, k) PROVE OneTick'
  BY <1>1 DEF GoesOn, OneTick
<1>2. ASSUME NEW s \in Schedulers, NEW k \in Ticks, IsOver(s, k) PROVE OneTick'
  <2>1. \A l \in Ticks : tick'[s][l] = Nothing
    BY <1>2 DEF IsOver, OneTick
  <2> QED
    BY <1>2, <2>1 DEF IsOver, OneTick
<1>3. ASSUME NEW s \in Schedulers, NEW k \in Ticks, Fire(s, k) PROVE OneTick'
  <2>1. \A l \in Ticks : tick[s][l] = Nothing
    <3>1. ~inFlight[s]
      BY <1>3, FireRaises
    <3>2. inFlight[s] <=> \E l \in Ticks : tick[s][l] # Nothing
      BY DEF OneTick
    <3> QED
      BY <3>1, <3>2
  <2>2. \A l \in Ticks : l # k => tick'[s][l] = Nothing
    BY <1>3, <2>1, FireMoves
  <2>3. inFlight'[s] /\ tick'[s][k] # Nothing
    BY <1>3, FireMoves, FireRaises
  <2>4. ASSUME NEW q \in Schedulers, q # s
        PROVE  inFlight'[q] = inFlight[q] /\ \A l \in Ticks : tick'[q][l] = tick[q][l]
    BY <1>3, <2>4, FireMoves, FireRaises
  <2> QED
    BY <2>2, <2>3, <2>4 DEF OneTick
<1>4. ASSUME NEW s \in Schedulers, NEW k \in Ticks,
             Fire(s, k) \/ Step(s, k) \/ SelectFails(s, k) \/ RecordFails(s, k)
      PROVE  OneTick'
  BY <1>1, <1>2, <1>3, <1>4, StepsOfATick, DueMoves, SendMoves, AnswerMoves, RecordMoves,
     OverMoves
<1>5. ASSUME NEW s \in Schedulers, Restart(s) PROVE OneTick'
  <2>1. ~inFlight'[s] /\ \A l \in Ticks : tick'[s][l] = Nothing
    BY <1>5, RestartMoves
  <2>2. ASSUME NEW q \in Schedulers, q # s
        PROVE  inFlight'[q] = inFlight[q] /\ \A l \in Ticks : tick'[q][l] = tick[q][l]
    BY <1>5, <2>2, RestartMoves
  <2> QED
    BY <2>1, <2>2 DEF OneTick
<1>6. ASSUME UNCHANGED <<tick, inFlight>> PROVE OneTick'
  BY <1>6 DEF OneTick
<1> QED
  BY <1>4, <1>5, <1>6 DEF Next, Skip, TimePasses, ReSeed, vars

\* A decided reminder is not decided back.
LEMMA DecidedStays ==
    ASSUME TypeOK, TicksAreWell, [Next]_vars, NEW r \in Reminders, reminder[r] # "pending"
    PROVE  reminder'[r] # "pending"
<1>1. ASSUME NEW s \in Schedulers, NEW k \in Ticks,
             Fire(s, k) \/ Step(s, k) \/ SelectFails(s, k) \/ RecordFails(s, k)
      PROVE  reminder'[r] # "pending"
  <2>1. CASE RecordAttempt(s, k)
    BY <2>1, RecordMoves DEF Decided
  <2>2. CASE ~RecordAttempt(s, k)
    BY <1>1, <2>2, StepsOfATick, FireMoves, DueMoves, SendMoves, AnswerMoves, OverMoves
       DEF IsOver
  <2> QED
    BY <2>1, <2>2
<1>2. ASSUME NEW s \in Schedulers, Restart(s) PROVE reminder'[r] # "pending"
  BY <1>2, RestartMoves
<1>3. CASE ReSeed
  BY <1>3 DEF ReSeed
<1>4. ASSUME UNCHANGED reminder PROVE reminder'[r] # "pending"
  BY <1>4
<1> QED
  BY <1>1, <1>2, <1>3, <1>4 DEF Next, Skip, TimePasses, vars, database

LEMMA NextWell ==
    ASSUME TypeOK, TicksAreWell, [Next]_vars
    PROVE  TicksAreWell'
<1> SUFFICES ASSUME NEW q \in Schedulers, NEW l \in Ticks, tick'[q][l] # Nothing
             PROVE  WellUnderWay(tick[q][l])'
  BY DEF TicksAreWell
<1>1. ASSUME tick'[q][l] = tick[q][l] PROVE WellUnderWay(tick[q][l])'
  <2>1. WellUnderWay(tick[q][l])
    BY <1>1 DEF TicksAreWell
  <2> QED
    BY <1>1, <2>1, DecidedStays DEF WellUnderWay
<1>2. ASSUME NEW s \in Schedulers, NEW k \in Ticks,
             Fire(s, k) \/ Step(s, k) \/ SelectFails(s, k) \/ RecordFails(s, k)
      PROVE  WellUnderWay(tick[q][l])'
  <2>1. CASE Fire(s, k)
    <3>1. tick'[q][l] # tick[q][l] => q = s /\ l = k
      BY <2>1, FireMoves
    <3>2. CASE q = s /\ l = k
      <4>1. /\ tick'[q][l].stage = "selecting" /\ tick'[q][l].rest = {}
            /\ tick'[q][l].at = Nothing /\ tick'[q][l].left = {}
        BY <2>1, <3>2, FireMoves
      <4> QED
        BY <4>1 DEF WellUnderWay, Statuses
    <3> QED
      BY <1>1, <3>1, <3>2
  <2>2. CASE DueReminders(s, k)
    <3>1. tick[s][k].at = Nothing /\ tick[s][k].left = {}
      BY <2>2, DueMoves DEF GoesOn, TicksAreWell, WellUnderWay
    <3>2. {r \in due : reminder[r] = "pending"} \subseteq Reminders
      BY DEF TypeOK
    <3> QED
      BY <1>1, <2>2, <3>1, <3>2, DueMoves, NamesAssumption DEF GoesOn, WellUnderWay, Statuses
  <2>3. CASE Send(s, k)
    <3>1. PICK r \in Reminders, x \in Targets : SendsTo(s, k, r, x)
      BY <2>3, SendMoves
    <3> QED
      BY <1>1, <2>3, <3>1, SendMoves DEF SendsTo, GoesOn, WellUnderWay
  <2>4. CASE Accepted(s, k) \/ Refused(s, k)
    <3>1. tick[s][k].at \notin tick[s][k].rest
      BY <2>4, AnswerMoves DEF GoesOn, TicksAreWell, WellUnderWay
    <3> QED
      BY <1>1, <2>4, <3>1, AnswerMoves DEF GoesOn, WellUnderWay
  <2>5. CASE RecordAttempt(s, k)
    <3>1. tick[s][k].at \notin tick[s][k].rest
      BY <2>5, RecordMoves DEF GoesOn, TicksAreWell, WellUnderWay
    <3>2. reminder'[tick[s][k].at] # "pending"
      BY <2>5, RecordMoves DEF Decided, Statuses
    <3> QED
      BY <1>1, <2>5, <3>1, <3>2, RecordMoves DEF GoesOn, WellUnderWay, Statuses
  <2>6. CASE RecordRefused(s, k) \/ Finish(s, k) \/ SelectFails(s, k) \/ RecordFails(s, k)
    BY <1>1, <2>6, OverMoves, ZenonT(60) DEF IsOver
  <2> QED
    BY <1>2, <2>1, <2>2, <2>3, <2>4, <2>5, <2>6, StepsOfATick
<1>3. ASSUME NEW s \in Schedulers, Restart(s) PROVE WellUnderWay(tick[q][l])'
  BY <1>1, <1>3, RestartMoves
<1>4. ASSUME UNCHANGED tick PROVE WellUnderWay(tick[q][l])'
  BY <1>1, <1>4
<1> QED
  BY <1>2, <1>3, <1>4 DEF Next, Skip, TimePasses, ReSeed, vars

-----------------------------------------------------------------------------
(* The first record decides.                                               *)

LEMMA NextFirstRecord ==
    ASSUME TypeOK, TicksAreWell, FirstRecordDecides, [Next]_vars
    PROVE  FirstRecordDecides'
<1> SUFFICES ASSUME NEW r \in Reminders, reminder'[r] # "gone"
             PROVE  reminder'[r] = IF deliveries'[r] = <<>> THEN "pending"
                                                            ELSE Head(deliveries'[r])
  BY DEF FirstRecordDecides
<1>1. ASSUME reminder'[r] = reminder[r], deliveries'[r] = deliveries[r]
      PROVE  reminder'[r] = IF deliveries'[r] = <<>> THEN "pending"
                                                     ELSE Head(deliveries'[r])
  BY <1>1 DEF FirstRecordDecides
<1>2. ASSUME NEW s \in Schedulers, NEW k \in Ticks, RecordAttempt(s, k)
      PROVE  reminder'[r] = IF deliveries'[r] = <<>> THEN "pending"
                                                     ELSE Head(deliveries'[r])
  <2>1. CASE r # tick[s][k].at
    BY <1>1, <1>2, <2>1, RecordMoves
  <2>2. CASE r = tick[s][k].at
    <3>1. /\ deliveries[r] \in Seq(Statuses) /\ tick[s][k].stage \in Statuses
          /\ deliveries'[r] = Append(deliveries[r], tick[s][k].stage)
          /\ reminder'[r] = Decided(r, tick[s][k].stage) /\ reminder[r] # "gone"
      BY <1>2, <2>2, RecordMoves DEF TypeOK
    <3>2. reminder[r] = IF deliveries[r] = <<>> THEN "pending" ELSE Head(deliveries[r])
      BY <3>1 DEF FirstRecordDecides
    <3>3. CASE deliveries[r] = <<>>
      BY <3>1, <3>2, <3>3 DEF Decided
    <3>4. CASE deliveries[r] # <<>>
      <4>1. Head(deliveries[r]) \in Statuses
        BY <3>1, <3>4
      <4>2. Head(deliveries'[r]) = Head(deliveries[r]) /\ deliveries'[r] # <<>>
        BY <3>1, <3>4
      <4> QED
        BY <3>1, <3>2, <3>4, <4>1, <4>2 DEF Decided, Statuses
    <3> QED
      BY <3>3, <3>4
  <2> QED
    BY <2>1, <2>2
<1>3. ASSUME NEW s \in Schedulers, NEW k \in Ticks,
             Fire(s, k) \/ Step(s, k) \/ SelectFails(s, k) \/ RecordFails(s, k)
      PROVE  RecordAttempt(s, k) \/ UNCHANGED <<reminder, deliveries>>
  BY <1>3, StepsOfATick, FireMoves, DueMoves, SendMoves, AnswerMoves, OverMoves DEF IsOver
<1>4. ASSUME NEW s \in Schedulers, Restart(s) PROVE UNCHANGED <<reminder, deliveries>>
  BY <1>4, RestartMoves
<1>5. CASE ReSeed
  BY <1>5 DEF ReSeed
<1>6. CASE UNCHANGED vars \/ \E p \in Reminders : TimePasses(p)
  BY <1>1, <1>6 DEF vars, database, TimePasses
<1> QED
  BY <1>1, <1>2, <1>3, <1>4, <1>5, <1>6 DEF Next, Skip

-----------------------------------------------------------------------------
(* What a process begins again.                                            *)

\* While the tick k of s is under way, it alone says what s may begin.
LEMMA MayBeginOf ==
    ASSUME OneTick, NEW s \in Schedulers, NEW k \in Ticks, tick[s][k] # Nothing,
           NEW r \in Reminders, NEW x \in Targets
    PROVE  MayBegin(s, r, x) <=>
               \/ Ahead(tick[s][k], r, x)
               \/ (reminder[r] = "pending" /\ tick[s][k].at # r)
<1>1. \A l \in Ticks : tick[s][l] # Nothing => l = k
  BY DEF OneTick
<1> QED
  BY <1>1 DEF MayBegin

LEMMA MayBeginNext ==
    ASSUME OneTick', NEW s \in Schedulers, NEW k \in Ticks, tick'[s][k] # Nothing,
           NEW r \in Reminders, NEW x \in Targets
    PROVE  MayBegin(s, r, x)' <=>
               \/ Ahead(tick'[s][k], r, x)
               \/ (reminder'[r] = "pending" /\ tick'[s][k].at # r)
<1>1. \A l \in Ticks : tick'[s][l] # Nothing => l = k
  BY DEF OneTick
<1> QED
  BY <1>1 DEF MayBegin, Ahead

\* A send that is not begun in a step may not begin again unless it might have
\* before, or a fault came with the step.
LEMMA NothingNewAhead ==
    ASSUME TypeOK, OneTick, OneTick', TicksAreWell, [Next]_vars,
           NEW s \in Schedulers, NEW k \in Ticks,
           \/ Fire(s, k) \/ DueReminders(s, k) \/ Accepted(s, k) \/ Refused(s, k)
           \/ RecordAttempt(s, k) \/ RecordRefused(s, k) \/ Finish(s, k),
           faults' = faults,
           NEW q \in Schedulers, NEW r \in Reminders, NEW x \in Targets, MayBegin(q, r, x)'
    PROVE  MayBegin(q, r, x)
<1>0. reminder'[r] = "pending" => reminder[r] = "pending"
  BY DecidedStays
<1>1. CASE q # s
  <2>1. \A l \in Ticks : tick'[q][l] = tick[q][l]
    <3>1. CASE Fire(s, k)
      BY <1>1, <3>1, FireMoves
    <3>2. CASE DueReminders(s, k) \/ Accepted(s, k) \/ Refused(s, k) \/ RecordAttempt(s, k)
      BY <1>1, <3>2, DueMoves, AnswerMoves, RecordMoves DEF GoesOn
    <3>3. CASE RecordRefused(s, k) \/ Finish(s, k)
      <4>1. IsOver(s, k)
        BY <3>3, OverMoves
      <4> QED
        BY <1>1, <4>1 DEF IsOver
    <3> QED
      BY <3>1, <3>2, <3>3
  <2> QED
    BY <1>0, <2>1 DEF MayBegin, Ahead
<1>2. CASE q = s /\ Fire(s, k)
  <2>1. reminder'[r] = "pending"
    BY <1>2, FireMoves, MayBeginNext, NamesAssumption DEF Ahead
  <2>2. \A l \in Ticks : tick[s][l] = Nothing
    <3>1. ~inFlight[s]
      BY <1>2, FireRaises
    <3>2. inFlight[s] <=> \E l \in Ticks : tick[s][l] # Nothing
      BY DEF OneTick
    <3> QED
      BY <3>1, <3>2
  <2> QED
    BY <1>0, <1>2, <2>1, <2>2 DEF MayBegin
<1>3. CASE q = s /\ DueReminders(s, k)
  <2>1. tick[s][k] # Nothing /\ tick'[s][k] # Nothing
        /\ tick[s][k].at = Nothing /\ tick[s][k].left = {}
    BY <1>3, DueMoves DEF GoesOn, TicksAreWell, WellUnderWay
  <2>2. reminder[r] = "pending"
    BY <1>0, <1>3, <2>1, DueMoves, MayBeginNext DEF Ahead
  <2> QED
    BY <1>3, <2>1, <2>2, MayBeginOf, NamesAssumption
<1>4. CASE q = s /\ (Accepted(s, k) \/ Refused(s, k) \/ RecordAttempt(s, k))
  <2>1. /\ tick[s][k] # Nothing /\ tick'[s][k] # Nothing
        /\ tick'[s][k].rest = tick[s][k].rest
        /\ tick'[s][k].at = tick[s][k].at /\ tick'[s][k].left = tick[s][k].left
    BY <1>4, AnswerMoves, RecordMoves DEF GoesOn
  <2>2. \/ Ahead(tick'[s][k], r, x)
        \/ (reminder'[r] = "pending" /\ tick'[s][k].at # r)
    BY <1>4, <2>1, MayBeginNext
  <2> QED
    BY <1>0, <1>4, <2>1, <2>2, MayBeginOf DEF Ahead
<1>5. CASE q = s /\ (RecordRefused(s, k) \/ Finish(s, k))
  <2>1. IsOver(s, k)
    BY <1>5, OverMoves
  <2>2. \A l \in Ticks : tick'[s][l] = Nothing
    BY <2>1 DEF IsOver, OneTick
  <2>3. reminder'[r] = "pending"
    BY <1>5, <2>2 DEF MayBegin
  <2>4. tick[s][k].at # r
    <3>1. CASE RecordRefused(s, k)
      <4>1. reminder[tick[s][k].at] = "gone"
        BY <3>1 DEF RecordRefused
      <4> QED
        BY <1>0, <2>3, <4>1
    <3>2. CASE Finish(s, k)
      <4>1. tick[s][k] # Nothing /\ tick[s][k].stage = "next"
        BY <3>2 DEF Finish, At
      <4> QED
        BY <1>0, <2>3, <4>1 DEF TicksAreWell, WellUnderWay
    <3> QED
      BY <1>5, <3>1, <3>2
  <2> QED
    BY <1>0, <1>5, <2>1, <2>3, <2>4, MayBeginOf DEF IsOver
<1> QED
  BY <1>1, <1>2, <1>3, <1>4, <1>5

LEMMA NextBegins ==
    ASSUME TypeOK, OneTick, TicksAreWell, BeginsAreBounded, [Next]_vars
    PROVE  BeginsAreBounded'
<1>0. OneTick'
  BY NextOneTick
<1> SUFFICES ASSUME NEW q \in Schedulers, NEW r \in Reminders, NEW x \in Targets
             PROVE  began'[q][r][x] <= IF MayBegin(q, r, x)' THEN faults' ELSE 1 + faults'
  BY DEF BeginsAreBounded
<1>1. /\ began[q][r][x] \in Nat /\ faults \in Nat
      /\ began[q][r][x] <= IF MayBegin(q, r, x) THEN faults ELSE 1 + faults
  BY BoundAssumption DEF TypeOK, BeginsAreBounded
<1>2. ASSUME began' = began, faults' = faults + 1
      PROVE  began'[q][r][x] <= IF MayBegin(q, r, x)' THEN faults' ELSE 1 + faults'
  BY <1>1, <1>2
<1>3. ASSUME began'[q][r][x] = began[q][r][x], faults' = faults,
             MayBegin(q, r, x)' => MayBegin(q, r, x)
      PROVE  began'[q][r][x] <= IF MayBegin(q, r, x)' THEN faults' ELSE 1 + faults'
  BY <1>1, <1>3
<1>4. ASSUME NEW s \in Schedulers, NEW k \in Ticks, Send(s, k)
      PROVE  began'[q][r][x] <= IF MayBegin(q, r, x)' THEN faults' ELSE 1 + faults'
  <2>1. PICK p \in Reminders, y \in Targets : SendsTo(s, k, p, y)
    BY <1>4, SendMoves
  <2>2. GoesOn(s, k) /\ UNCHANGED <<reminder, faults>>
    BY <1>4, SendMoves
  <2>3. CASE q = s /\ r = p /\ x = y
    <3>1. MayBegin(q, r, x)
      BY <2>1, <2>2, <2>3, MayBeginOf DEF SendsTo, GoesOn, Ahead
    <3>2. ~MayBegin(q, r, x)'
      BY <1>0, <2>1, <2>2, <2>3, MayBeginNext DEF SendsTo, GoesOn, Ahead
    <3>3. began'[q][r][x] = began[q][r][x] + 1
      BY <2>1, <2>3 DEF SendsTo
    <3> QED
      BY <1>1, <2>2, <3>1, <3>2, <3>3
  <2>4. CASE q # s
    <3>1. \A l \in Ticks : tick'[q][l] = tick[q][l]
      BY <2>2, <2>4 DEF GoesOn
    <3> QED
      BY <1>3, <2>1, <2>2, <2>4, <3>1 DEF MayBegin, Ahead, SendsTo
  <2>5. CASE q = s /\ (r # p \/ x # y)
    <3>1. began'[q][r][x] = began[q][r][x]
      BY <2>1, <2>5 DEF SendsTo
    <3>2. tick[s][k].stage = "next" /\ WellUnderWay(tick[s][k])
      BY <2>1, <2>2 DEF SendsTo, GoesOn, TicksAreWell
    <3>3. ASSUME MayBegin(s, r, x)' PROVE MayBegin(s, r, x)
      <4>1. Ahead(tick'[s][k], r, x) \/ (reminder[r] = "pending" /\ tick'[s][k].at # r)
        BY <1>0, <2>2, <3>3, MayBeginNext DEF GoesOn
      <4>2. Ahead(tick[s][k], r, x) \/ (reminder[r] = "pending" /\ tick[s][k].at # r)
        BY <2>1, <3>2, <4>1 DEF Ahead, SendsTo, WellUnderWay
      <4> QED
        BY <2>2, <4>2, MayBeginOf DEF GoesOn
    <3> QED
      BY <1>3, <2>2, <2>5, <3>1, <3>3
  <2> QED
    BY <2>3, <2>4, <2>5
<1>5. ASSUME NEW s \in Schedulers, NEW k \in Ticks,
             Fire(s, k) \/ Step(s, k) \/ SelectFails(s, k) \/ RecordFails(s, k), ~Send(s, k)
      PROVE  began'[q][r][x] <= IF MayBegin(q, r, x)' THEN faults' ELSE 1 + faults'
  <2>1. began' = began /\ faults' \in {faults, faults + 1}
    BY <1>5, StepsOfATick, FireMoves, DueMoves, AnswerMoves, RecordMoves, OverMoves
       DEF IsOver, history
  <2>2. CASE faults' = faults
    <3>1. ~SelectFails(s, k) /\ ~RecordFails(s, k)
      <4>1. ~Fault
        BY <1>1, <2>2 DEF Fault
      <4> QED
        BY <4>1 DEF SelectFails, RecordFails
    <3>2. MayBegin(q, r, x)' => MayBegin(q, r, x)
      BY <1>0, <1>5, <2>2, <3>1, StepsOfATick, NothingNewAhead
    <3> QED
      BY <1>3, <2>1, <2>2, <3>2
  <2> QED
    BY <1>2, <2>1, <2>2
<1>6. ASSUME NEW s \in Schedulers, Restart(s)
      PROVE  began'[q][r][x] <= IF MayBegin(q, r, x)' THEN faults' ELSE 1 + faults'
  BY <1>2, <1>6, RestartMoves DEF history
<1>7. CASE ReSeed
  BY <1>2, <1>7 DEF ReSeed, Fault, history
<1>8. CASE UNCHANGED <<began, faults, tick, reminder>>
  BY <1>3, <1>8 DEF MayBegin, Ahead
<1> QED
  BY <1>4, <1>5, <1>6, <1>7, <1>8 DEF Next, Skip, TimePasses, vars, history, database

-----------------------------------------------------------------------------
(* What is in hand, and what is recorded.                                  *)

\* The ticks that have an answer for r in hand.
Hands(r, status) ==
    {sk \in Schedulers \X Ticks : At(sk[1], sk[2], status) /\ tick[sk[1]][sk[2]].at = r}

LEMMA HandsFinite ==
    ASSUME NEW r, NEW status
    PROVE  /\ IsFiniteSet(Hands(r, status)) /\ IsFiniteSet(Hands(r, status)')
           /\ InHand(r, status) = Cardinality(Hands(r, status)) /\ InHand(r, status) \in Nat
           /\ InHand(r, status)' = Cardinality(Hands(r, status)') /\ InHand(r, status)' \in Nat
<1>1. IsFiniteSet(Schedulers \X Ticks)
  BY FiniteAssumption, FS_Product
<1>2. Hands(r, status) \subseteq Schedulers \X Ticks
      /\ Hands(r, status)' \subseteq Schedulers \X Ticks
  BY DEF Hands
<1>3. /\ InHand(r, status) = Cardinality(Hands(r, status))
      /\ InHand(r, status)' = Cardinality(Hands(r, status)')
  BY DEF InHand, Hands
<1> QED
  BY <1>1, <1>2, <1>3, FS_Subset, FS_CardinalityType

Holds(s, k, r, status) == At(s, k, status) /\ tick[s][k].at = r

\* When one tick moves, what is in hand changes by what that tick holds.
LEMMA HandMoves ==
    ASSUME NEW r, NEW status, NEW s \in Schedulers, NEW k \in Ticks,
           \A q \in Schedulers, l \in Ticks : q # s \/ l # k => tick'[q][l] = tick[q][l]
    PROVE  InHand(r, status)' = InHand(r, status)
               + (IF Holds(s, k, r, status)' THEN 1 ELSE 0)
               - (IF Holds(s, k, r, status) THEN 1 ELSE 0)
<1> DEFINE H == Hands(r, status)
           G == Hands(r, status)'
           x == <<s, k>>
<1>1. /\ x \in H <=> Holds(s, k, r, status)
      /\ x \in G <=> Holds(s, k, r, status)'
  BY DEF Hands, At, Holds
<1>2. H \ {x} = G \ {x}
  <2>1. ASSUME NEW y \in Schedulers \X Ticks, y # x PROVE y \in H <=> y \in G
    <3>1. y[1] \in Schedulers /\ y[2] \in Ticks /\ (y[1] # s \/ y[2] # k)
      BY <2>1
    <3>2. tick'[y[1]][y[2]] = tick[y[1]][y[2]]
      BY <3>1
    <3> QED
      BY <3>1, <3>2 DEF Hands, At
  <2>2. H \subseteq Schedulers \X Ticks /\ G \subseteq Schedulers \X Ticks
    BY DEF Hands
  <2> QED
    BY <2>1, <2>2
<1>3. /\ IsFiniteSet(H) /\ IsFiniteSet(G)
      /\ InHand(r, status) = Cardinality(H) /\ InHand(r, status)' = Cardinality(G)
      /\ Cardinality(H) \in Nat /\ Cardinality(G) \in Nat
  BY HandsFinite
<1> HIDE DEF H, G, x
<1>4. /\ Cardinality(H \ {x}) = IF x \in H THEN Cardinality(H) - 1 ELSE Cardinality(H)
      /\ Cardinality(G \ {x}) = IF x \in G THEN Cardinality(G) - 1 ELSE Cardinality(G)
  BY <1>3, FS_RemoveElement
<1> QED
  BY <1>1, <1>2, <1>3, <1>4

\* The rows of a status among a reminder's.
CountOf(d, status) == Cardinality({n \in 1..Len(d) : d[n] = status})

LEMMA RowsAreCounted ==
    ASSUME NEW r, NEW status
    PROVE  /\ Rows(r, status) = CountOf(deliveries[r], status)
           /\ Rows(r, status)' = CountOf(deliveries'[r], status)
BY DEF Rows, CountOf

\* A row more of its own status, and of no other.
LEMMA RowsGrow ==
    ASSUME NEW d \in Seq(Statuses), NEW e \in Statuses, NEW status \in Statuses
    PROVE  /\ CountOf(d, status) \in Nat
           /\ CountOf(Append(d, e), status) =
                  CountOf(d, status) + (IF e = status THEN 1 ELSE 0)
<1> DEFINE S == {n \in 1..Len(d) : d[n] = status}
           T == {n \in 1..Len(Append(d, e)) : Append(d, e)[n] = status}
<1>1. Len(d) \in Nat /\ Len(Append(d, e)) = Len(d) + 1
      /\ \A n \in 1..(Len(d) + 1) : Append(d, e)[n] = IF n = Len(d) + 1 THEN e ELSE d[n]
  OBVIOUS
<1>2. S \subseteq 1..Len(d) /\ IsFiniteSet(S) /\ Cardinality(S) \in Nat
  <2>1. IsFiniteSet(1..Len(d)) /\ S \subseteq 1..Len(d)
    BY <1>1, FS_Interval
  <2> HIDE DEF S
  <2> QED
    BY <2>1, FS_Subset, FS_CardinalityType
<1>3. T = IF e = status THEN S \cup {Len(d) + 1} ELSE S
  BY <1>1
<1>4. Len(d) + 1 \notin S
  BY <1>1
<1> HIDE DEF S, T
<1>5. Cardinality(S \cup {Len(d) + 1}) = Cardinality(S) + 1
  BY <1>2, <1>4, FS_AddElement
<1>6. Cardinality(T) = Cardinality(S) + (IF e = status THEN 1 ELSE 0)
  BY <1>2, <1>3, <1>5
<1> QED
  BY <1>2, <1>6 DEF S, T, CountOf

\* The account of one reminder, in the words of the invariant.
Accounted(r) ==
    /\ reminder[r] # "gone" =>
           accepted[r] <= Rows(r, "sent") + InHand(r, "sent") + faults
    /\ Rows(r, "failed") + InHand(r, "failed") <= refused[r]

LEMMA CountTypes ==
    ASSUME TypeOK, TypeOK', NEW r \in Reminders, NEW status \in Statuses
    PROVE  /\ Rows(r, status) \in Nat /\ Rows(r, status)' \in Nat
           /\ InHand(r, status) \in Nat /\ InHand(r, status)' \in Nat
           /\ accepted[r] \in Nat /\ accepted'[r] \in Nat
           /\ refused[r] \in Nat /\ refused'[r] \in Nat
           /\ faults \in Nat /\ faults' \in Nat
<1>1. deliveries[r] \in Seq(Statuses) /\ deliveries'[r] \in Seq(Statuses)
  BY DEF TypeOK
<1>2. Rows(r, status) \in Nat /\ Rows(r, status)' \in Nat
  BY <1>1, RowsGrow, RowsAreCounted
<1> QED
  BY <1>2, HandsFinite, BoundAssumption DEF TypeOK

\* While nothing is answered or recorded of r, and at most one answer in hand
\* is lost, for which a fault is counted.
LEMMA AccountKept ==
    ASSUME TypeOK, TypeOK', NEW r \in Reminders, Accounted(r),
           reminder'[r] = reminder[r] \/ reminder'[r] = "gone",
           deliveries'[r] = deliveries[r],
           accepted'[r] = accepted[r], refused'[r] = refused[r],
           InHand(r, "failed")' <= InHand(r, "failed"),
           reminder'[r] = "gone" \/
               InHand(r, "sent")' + faults' >= InHand(r, "sent") + faults
    PROVE  Accounted(r)'
<1>1. \A status \in Statuses : Rows(r, status)' = Rows(r, status)
  BY DEF Rows
<1>2. "sent" \in Statuses /\ "failed" \in Statuses
  BY DEF Statuses
<1>3. /\ Rows(r, "sent")' = Rows(r, "sent") /\ Rows(r, "failed")' = Rows(r, "failed")
      /\ Rows(r, "sent") \in Nat /\ Rows(r, "failed") \in Nat
      /\ InHand(r, "sent") \in Nat /\ InHand(r, "failed") \in Nat
      /\ InHand(r, "sent")' \in Nat /\ InHand(r, "failed")' \in Nat
      /\ accepted[r] \in Nat /\ refused[r] \in Nat /\ faults \in Nat /\ faults' \in Nat
  BY <1>1, <1>2, CountTypes
<1> QED
  BY <1>3 DEF Accounted

\* A step of a tick that holds no answer before it and none after.
LEMMA HandsRest ==
    ASSUME NEW r \in Reminders, NEW status \in Statuses, NEW s \in Schedulers, NEW k \in Ticks,
           tick[s][k] = Nothing \/ tick[s][k].stage \notin Statuses,
           tick'[s][k] = Nothing \/ tick'[s][k].stage \notin Statuses,
           \A q \in Schedulers, l \in Ticks : q # s \/ l # k => tick'[q][l] = tick[q][l]
    PROVE  InHand(r, status)' = InHand(r, status)
<1>1. ~Holds(s, k, r, status) /\ ~Holds(s, k, r, status)'
  BY DEF Holds, At
<1>2. InHand(r, status) \in Nat
  BY HandsFinite
<1> QED
  BY <1>1, <1>2, HandMoves

LEMMA AnswerAccounted ==
    ASSUME TypeOK, TypeOK', TicksAreWell, NEW s \in Schedulers, NEW k \in Ticks,
           Accepted(s, k) \/ Refused(s, k), NEW r \in Reminders, Accounted(r)
    PROVE  Accounted(r)'
<1>1. /\ GoesOn(s, k) /\ tick[s][k].stage = "sending"
      /\ tick'[s][k].at = tick[s][k].at
      /\ tick'[s][k].stage = IF Accepted(s, k) THEN "sent" ELSE "failed"
      /\ UNCHANGED <<reminder, deliveries, faults>>
      /\ accepted'[r] = accepted[r] + (IF Accepted(s, k) /\ r = tick[s][k].at THEN 1 ELSE 0)
      /\ refused'[r] = refused[r] + (IF ~Accepted(s, k) /\ r = tick[s][k].at THEN 1 ELSE 0)
  BY AnswerMoves
<1>2. /\ ~Holds(s, k, r, "sent") /\ ~Holds(s, k, r, "failed")
      /\ Holds(s, k, r, "sent")' <=> Accepted(s, k) /\ r = tick[s][k].at
      /\ Holds(s, k, r, "failed")' <=> ~Accepted(s, k) /\ r = tick[s][k].at
  BY <1>1 DEF Holds, At, GoesOn
<1>3. /\ InHand(r, "sent")' = InHand(r, "sent")
             + (IF Holds(s, k, r, "sent")' THEN 1 ELSE 0)
             - (IF Holds(s, k, r, "sent") THEN 1 ELSE 0)
      /\ InHand(r, "failed")' = InHand(r, "failed")
             + (IF Holds(s, k, r, "failed")' THEN 1 ELSE 0)
             - (IF Holds(s, k, r, "failed") THEN 1 ELSE 0)
  BY <1>1, HandMoves DEF GoesOn
<1>4. /\ Rows(r, "sent")' = Rows(r, "sent") /\ Rows(r, "failed")' = Rows(r, "failed")
  BY <1>1 DEF Rows
<1>5. /\ Rows(r, "sent") \in Nat /\ Rows(r, "failed") \in Nat
      /\ InHand(r, "sent") \in Nat /\ InHand(r, "failed") \in Nat
      /\ accepted[r] \in Nat /\ refused[r] \in Nat /\ faults \in Nat
  BY CountTypes DEF Statuses
<1>6. CASE r # tick[s][k].at
  BY <1>1, <1>2, <1>3, <1>4, <1>5, <1>6 DEF Accounted
<1>7. CASE r = tick[s][k].at /\ Accepted(s, k)
  BY <1>1, <1>2, <1>3, <1>4, <1>5, <1>7 DEF Accounted
<1>8. CASE r = tick[s][k].at /\ ~Accepted(s, k)
  BY <1>1, <1>2, <1>3, <1>4, <1>5, <1>8 DEF Accounted
<1> QED
  BY <1>6, <1>7, <1>8

LEMMA RecordAccounted ==
    ASSUME TypeOK, TypeOK', TicksAreWell, NEW s \in Schedulers, NEW k \in Ticks,
           RecordAttempt(s, k), NEW r \in Reminders, Accounted(r)
    PROVE  Accounted(r)'
<1>1. /\ GoesOn(s, k) /\ tick[s][k].stage \in Statuses
      /\ tick'[s][k].at = tick[s][k].at /\ tick'[s][k].stage = "next"
      /\ UNCHANGED <<accepted, refused, faults>>
      /\ reminder[tick[s][k].at] # "gone"
      /\ r # tick[s][k].at => reminder'[r] = reminder[r] /\ deliveries'[r] = deliveries[r]
      /\ r = tick[s][k].at => deliveries'[r] = Append(deliveries[r], tick[s][k].stage)
  <2>1. CASE r # tick[s][k].at
    BY <2>1, RecordMoves DEF history
  <2>2. CASE r = tick[s][k].at
    BY <2>2, RecordMoves DEF history
  <2> QED
    BY <2>1, <2>2
<1>2. \A status \in Statuses :
          /\ ~Holds(s, k, r, status)'
          /\ Holds(s, k, r, status) <=> r = tick[s][k].at /\ status = tick[s][k].stage
  BY <1>1 DEF Holds, At, GoesOn, Statuses
<1>3. \A status \in Statuses :
          InHand(r, status)' = InHand(r, status)
             + (IF Holds(s, k, r, status)' THEN 1 ELSE 0)
             - (IF Holds(s, k, r, status) THEN 1 ELSE 0)
  BY <1>1, HandMoves DEF GoesOn
<1>4. \A status \in Statuses :
          Rows(r, status)' = Rows(r, status)
             + (IF r = tick[s][k].at /\ status = tick[s][k].stage THEN 1 ELSE 0)
  <2> SUFFICES ASSUME NEW status \in Statuses
               PROVE  Rows(r, status)' = Rows(r, status)
                         + (IF r = tick[s][k].at /\ status = tick[s][k].stage THEN 1 ELSE 0)
    OBVIOUS
  <2>1. deliveries[r] \in Seq(Statuses) /\ Rows(r, status) \in Nat
    BY CountTypes DEF TypeOK
  <2>2. CASE r = tick[s][k].at
    <3>1. CountOf(Append(deliveries[r], tick[s][k].stage), status)
              = CountOf(deliveries[r], status) + (IF tick[s][k].stage = status THEN 1 ELSE 0)
      BY <1>1, <2>1, RowsGrow
    <3>2. deliveries'[r] = Append(deliveries[r], tick[s][k].stage)
      BY <1>1, <2>2
    <3> QED
      BY <2>2, <3>1, <3>2, RowsAreCounted
  <2>3. CASE r # tick[s][k].at
    BY <1>1, <2>1, <2>3, RowsAreCounted
  <2> QED
    BY <2>2, <2>3
<1>5. \A status \in Statuses :
          /\ Rows(r, status) \in Nat /\ InHand(r, status) \in Nat
          /\ Rows(r, status)' + InHand(r, status)' = Rows(r, status) + InHand(r, status)
  <2> SUFFICES ASSUME NEW status \in Statuses
               PROVE  /\ Rows(r, status) \in Nat /\ InHand(r, status) \in Nat
                      /\ Rows(r, status)' + InHand(r, status)'
                             = Rows(r, status) + InHand(r, status)
    OBVIOUS
  <2>1. Rows(r, status) \in Nat /\ InHand(r, status) \in Nat
    BY CountTypes
  <2> QED
    BY <1>2, <1>3, <1>4, <2>1
<1>6. "sent" \in Statuses /\ "failed" \in Statuses
  BY DEF Statuses
<1>7. reminder[r] # "gone" \/ reminder'[r] = reminder[r]
  BY <1>1
<1>8. accepted[r] \in Nat /\ refused[r] \in Nat /\ faults \in Nat
      /\ \A status \in Statuses : Rows(r, status)' \in Nat /\ InHand(r, status)' \in Nat
  BY <1>6, CountTypes
<1> QED
  BY <1>1, <1>5, <1>6, <1>7, <1>8 DEF Accounted

LEMMA NextAccounts ==
    ASSUME TypeOK, TypeOK', OneTick, TicksAreWell, PushesAreAccounted, [Next]_vars
    PROVE  PushesAreAccounted'
<1>1. /\ PushesAreAccounted <=> \A r \in Reminders : Accounted(r)
      /\ PushesAreAccounted' <=> \A r \in Reminders : Accounted(r)'
  BY DEF PushesAreAccounted, Accounted
<1> SUFFICES ASSUME NEW r \in Reminders, Accounted(r) PROVE Accounted(r)'
  BY <1>1
<1>2. /\ "sent" \in Statuses /\ "failed" \in Statuses
      /\ InHand(r, "sent") \in Nat /\ InHand(r, "failed") \in Nat
      /\ InHand(r, "sent")' \in Nat /\ InHand(r, "failed")' \in Nat
      /\ faults \in Nat
  BY CountTypes DEF Statuses
<1>3. ASSUME UNCHANGED <<deliveries, accepted, refused, faults>>,
             reminder'[r] = reminder[r] \/ reminder'[r] = "gone",
             InHand(r, "sent")' = InHand(r, "sent"), InHand(r, "failed")' = InHand(r, "failed")
      PROVE  Accounted(r)'
  BY <1>2, <1>3, AccountKept
<1>4. ASSUME UNCHANGED <<deliveries, reminder, accepted, refused>>, faults' = faults + 1,
             NEW s \in Schedulers, NEW k \in Ticks,
             \A q \in Schedulers, l \in Ticks : q # s \/ l # k => tick'[q][l] = tick[q][l],
             tick'[s][k] = Nothing
      PROVE  Accounted(r)'
  <2>1. ~Holds(s, k, r, "sent")' /\ ~Holds(s, k, r, "failed")'
    BY <1>4 DEF Holds, At
  <2>2. /\ InHand(r, "sent")' >= InHand(r, "sent") - 1
        /\ InHand(r, "failed")' <= InHand(r, "failed")
    BY <1>2, <1>4, <2>1, HandMoves
  <2>3. InHand(r, "sent")' + faults' >= InHand(r, "sent") + faults
    BY <1>2, <1>4, <2>2
  <2> QED
    BY <1>4, <2>2, <2>3, AccountKept
<1>5. ASSUME NEW s \in Schedulers, NEW k \in Ticks, Fire(s, k) \/ DueReminders(s, k) \/ Send(s, k)
      PROVE  Accounted(r)'
  <2>1. /\ tick[s][k] = Nothing \/ tick[s][k].stage \notin Statuses
        /\ tick'[s][k] = Nothing \/ tick'[s][k].stage \notin Statuses
        /\ \A q \in Schedulers, l \in Ticks : q # s \/ l # k => tick'[q][l] = tick[q][l]
        /\ UNCHANGED <<reminder, deliveries, accepted, refused, faults>>
    <3>1. CASE Fire(s, k)
      BY <3>1, FireMoves DEF Statuses
    <3>2. CASE DueReminders(s, k)
      BY <3>2, DueMoves DEF GoesOn, Statuses
    <3>3. CASE Send(s, k)
      BY <3>3, SendMoves DEF GoesOn, SendsTo, Statuses
    <3> QED
      BY <1>5, <3>1, <3>2, <3>3
  <2>2. InHand(r, "sent")' = InHand(r, "sent") /\ InHand(r, "failed")' = InHand(r, "failed")
    BY <1>2, <2>1, HandsRest
  <2> QED
    BY <1>3, <2>1, <2>2
<1>6. ASSUME NEW s \in Schedulers, NEW k \in Ticks,
             RecordRefused(s, k) \/ Finish(s, k) \/ SelectFails(s, k) \/ RecordFails(s, k)
      PROVE  Accounted(r)'
  <2>1. IsOver(s, k)
    BY <1>6, OverMoves
  <2>2. /\ UNCHANGED <<deliveries, reminder, accepted, refused>>
        /\ tick'[s][k] = Nothing
        /\ \A q \in Schedulers, l \in Ticks : q # s \/ l # k => tick'[q][l] = tick[q][l]
    BY <2>1 DEF IsOver, history
  <2>3. CASE faults' = faults + 1
    BY <1>4, <2>2, <2>3
  <2>4. CASE /\ RecordRefused(s, k) /\ faults' = faults
             /\ tick[s][k].stage \in Statuses
             /\ tick[s][k].at \in Reminders /\ reminder[tick[s][k].at] = "gone"
    <3>1. ~Holds(s, k, r, "sent")' /\ ~Holds(s, k, r, "failed")'
      BY <2>2 DEF Holds, At
    <3>2. InHand(r, "failed")' <= InHand(r, "failed")
      BY <1>2, <2>2, <3>1, HandMoves
    <3>3. reminder[r] # "gone" => InHand(r, "sent")' = InHand(r, "sent")
      BY <1>2, <2>2, <2>4, <3>1, HandMoves DEF Holds
    <3>4. reminder'[r] = "gone" \/ InHand(r, "sent")' + faults' >= InHand(r, "sent") + faults
      BY <1>2, <2>2, <2>4, <3>3
    <3> QED
      BY <2>2, <3>2, <3>4, AccountKept
  <2>5. CASE /\ Finish(s, k) /\ faults' = faults
             /\ tick[s][k].stage = "next"
             /\ tick[s][k].rest = {} /\ tick[s][k].left = {}
    BY <1>2, <1>3, <2>2, <2>5, HandsRest DEF Statuses
  <2> QED
    BY <1>6, <2>3, <2>4, <2>5, OverMoves
<1>7. ASSUME NEW s \in Schedulers, Restart(s) PROVE Accounted(r)'
  <2>1. /\ UNCHANGED <<deliveries, reminder, accepted, refused>> /\ faults' = faults + 1
        /\ \A k \in Ticks : tick'[s][k] = Nothing
        /\ \A q \in Schedulers, k \in Ticks : q # s => tick'[q][k] = tick[q][k]
    BY <1>7, RestartMoves DEF history
  <2>2. CASE \E k \in Ticks : tick[s][k] # Nothing
    <3>1. PICK k \in Ticks : tick[s][k] # Nothing
      BY <2>2
    <3>2. \A l \in Ticks : l # k => tick[s][l] = Nothing
      BY <3>1 DEF OneTick
    <3>3. \A q \in Schedulers, l \in Ticks : q # s \/ l # k => tick'[q][l] = tick[q][l]
      BY <2>1, <3>2
    <3> QED
      BY <1>4, <2>1, <3>3
  <2>3. CASE \A k \in Ticks : tick[s][k] = Nothing
    <3>1. \A q \in Schedulers, k \in Ticks : tick'[q][k] = tick[q][k]
      BY <2>1, <2>3
    <3>2. \A status \in Statuses : Hands(r, status)' = Hands(r, status)
      BY <3>1 DEF Hands, At
    <3>3. /\ InHand(r, "sent")' = InHand(r, "sent")
          /\ InHand(r, "failed")' = InHand(r, "failed")
      BY <1>2, <3>2, HandsFinite
    <3> QED
      BY <1>2, <2>1, <3>3, AccountKept
  <2> QED
    BY <2>2, <2>3
<1>8. ASSUME UNCHANGED tick
      PROVE  InHand(r, "sent")' = InHand(r, "sent") /\ InHand(r, "failed")' = InHand(r, "failed")
  BY <1>8 DEF InHand, At
<1>9. CASE ReSeed
  <2>1. deliveries'[r] = <<>> /\ reminder'[r] = "gone" /\ UNCHANGED <<tick, history>>
    BY <1>9 DEF ReSeed
  <2>2. Rows(r, "failed")' = 0
    <3>1. {n \in 1..Len(deliveries'[r]) : deliveries'[r][n] = "failed"} = {}
      BY <2>1
    <3> QED
      BY <3>1, FS_EmptySet DEF Rows
  <2>3. Rows(r, "failed") \in Nat /\ refused[r] \in Nat
    BY <1>2, CountTypes
  <2> QED
    BY <1>2, <1>8, <2>1, <2>2, <2>3 DEF Accounted, history
<1>10. CASE UNCHANGED vars \/ \E p \in Reminders : TimePasses(p)
  <2>1. UNCHANGED <<reminder, deliveries, tick, accepted, refused, faults>>
    BY <1>10 DEF vars, database, history, TimePasses
  <2> QED
    BY <1>3, <1>8, <2>1
<1>11. ASSUME NEW s \in Schedulers, NEW k \in Ticks,
              Fire(s, k) \/ Step(s, k) \/ SelectFails(s, k) \/ RecordFails(s, k)
       PROVE  Accounted(r)'
  BY <1>5, <1>6, <1>11, StepsOfATick, AnswerAccounted, RecordAccounted
<1> QED
  BY <1>7, <1>9, <1>10, <1>11 DEF Next, Skip

-----------------------------------------------------------------------------
(* The theorems.                                                           *)

LEMMA InitTick == Init => TickInv
<1> SUFFICES ASSUME Init PROVE TickInv
  OBVIOUS
<1>1. FirstRecordDecides
  BY DEF Init, FirstRecordDecides
<1>2. BeginsAreBounded
  BY DEF Init, BeginsAreBounded
<1>3. PushesAreAccounted
  <2> SUFFICES ASSUME NEW r \in Reminders
               PROVE  /\ accepted[r] <= Rows(r, "sent") + InHand(r, "sent") + faults
                      /\ Rows(r, "failed") + InHand(r, "failed") <= refused[r]
    BY DEF PushesAreAccounted
  <2>1. \A status : Hands(r, status) = {}
    BY DEF Init, Hands, At
  <2>2. \A status : {n \in 1..Len(deliveries[r]) : deliveries[r][n] = status} = {}
    BY DEF Init
  <2>3. \A status : InHand(r, status) = 0 /\ Rows(r, status) = 0
    BY <2>1, <2>2, HandsFinite, FS_EmptySet DEF Rows
  <2>4. accepted[r] = 0 /\ refused[r] = 0 /\ faults = 0
    BY DEF Init
  <2> QED
    BY <2>3, <2>4
<1> QED
  BY <1>1, <1>2, <1>3, InitType, InitTicks DEF TickInv

LEMMA TickInvariant == Spec => []TickInv
<1>1. TickInv /\ [Next]_vars => TickInv'
  BY NextType, NextOneTick, NextWell, NextFirstRecord, NextBegins, NextAccounts DEF TickInv
<1> QED
  BY InitTick, <1>1, PTL DEF Spec

\* Every variable keeps its type, and a process has one tick under way at most
\* (createNonOverlappingTick), for any processes, reminders and tokens.
THEOREM TypeCorrect == Spec => [](TypeOK /\ OneTick)
<1>1. TickInv => TypeOK /\ OneTick
  BY DEF TickInv
<1> QED
  BY TickInvariant, <1>1, PTL

\* A reminder is what its first record says, for any number of targets,
\* processes, restarts and re-seeds.
THEOREM FirstRecordAlwaysDecides == Spec => []FirstRecordDecides
<1>1. TickInv => FirstRecordDecides
  BY DEF TickInv
<1> QED
  BY TickInvariant, <1>1, PTL

\* A second send of one process to one target, and a push without its row,
\* each have a fault behind them; a row that says failed has a refused send.
THEOREM SendsAlwaysAccountedFor == Spec => []SendsAccountedFor
<1>1. TickInv => SendsAccountedFor
  <2> SUFFICES ASSUME TickInv, NEW r \in Reminders
               PROVE  /\ \A s \in Schedulers, x \in Targets : began[s][r][x] <= 1 + faults
                      /\ reminder[r] # "gone" =>
                             accepted[r] <= Rows(r, "sent") + InHand(r, "sent") + faults
                      /\ Rows(r, "failed") <= refused[r]
    BY DEF SendsAccountedFor
  <2>1. TypeOK /\ BeginsAreBounded /\ PushesAreAccounted
    BY DEF TickInv
  <2>2. faults \in Nat /\ refused[r] \in Nat
    BY <2>1, BoundAssumption DEF TypeOK
  <2>3. \A s \in Schedulers, x \in Targets : began[s][r][x] \in Nat
    BY <2>1 DEF TypeOK
  <2>4. \A s \in Schedulers, x \in Targets : began[s][r][x] <= 1 + faults
    BY <2>1, <2>2, <2>3 DEF BeginsAreBounded
  <2>5. Rows(r, "failed") \in Nat /\ InHand(r, "failed") \in Nat
    <3>1. deliveries[r] \in Seq(Statuses) /\ "failed" \in Statuses
      BY <2>1 DEF TypeOK, Statuses
    <3> QED
      BY <3>1, HandsFinite, RowsGrow, RowsAreCounted
  <2> QED
    BY <2>1, <2>2, <2>4, <2>5 DEF PushesAreAccounted
<1> QED
  BY TickInvariant, <1>1, PTL
=============================================================================
