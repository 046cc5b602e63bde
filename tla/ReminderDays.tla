---------------------------- MODULE ReminderDays ----------------------------
(***************************************************************************)
(* The daily reminders of ordinary users across local days: scheduler      *)
(* processes that read the wall clock, materialise each user's current     *)
(* local day, select what is due and enqueue it, while the clock runs on   *)
(* and users change their reminder time and their time zone.  A statement  *)
(* is one step; a tick that meets a database error ends there.             *)
(*                                                                         *)
(* Rows of the seed and of the load harness are not eligible and left out. *)
(* What becomes of a queued reminder is in JobQueue; here it is sent once. *)
(***************************************************************************)
EXTENDS LocalTime, FiniteSets

CONSTANTS
    Users,          \* users with seeded = false and load_pool = false
    Settings,       \* pairs of a reminder time and a time zone that users choose
    Schedulers,     \* scheduler processes
    Nothing,        \* null
    Start,          \* the instant at which the model starts
    Horizon,        \* bound: the instant at which its clock stops
    MaxPuts,        \* bound: changes of settings
    MaxFaults       \* bound: ticks that a database error ends

\* How a zone is written: a name PostgreSQL knows, an alias of one, or a
\* numeric offset, which does not change.
Timezones ==
    {z \in [form : {"name", "link", "offset"}, before : Int, after : Int, at : Int] :
        z.form = "offset" => z.before = z.after}

\* isReminderTime and isKnownTimezone let nothing else in.
ValidSettings == Settings \subseteq [time : 0..(DayLength - 1), zone : Timezones]

ASSUME SettingsAssumption == ValidSettings
ASSUME NothingAssumption == \A s \in Settings : Nothing # s.zone
ASSUME BoundsAssumption ==
    Start \in Int /\ Horizon \in Int /\ MaxPuts \in Nat /\ MaxFaults \in Nat

VARIABLES
    clock,          \* the wall clock
    setting,        \* users: reminder_time and timezone
    rows,           \* reminders
    tick,           \* per scheduler, the tick under way
    puts,           \* changes of settings so far
    faults          \* failed ticks so far

vars == <<clock, setting, rows, tick, puts, faults>>

\* One row: local_date, scheduled_at, scheduled_timezone and state.  setting
\* and cards are history: what it was made from, the date its cards are for.
Rows == [user : Users, date : Int, at : Int, zone : {s.zone : s \in Settings},
         state : {"pending", "queued", "sent"}, setting : Settings, cards : Int \cup {Nothing}]

Idle == [stage |-> "idle", now |-> Start, due |-> {}]

Init ==
    /\ clock = Start
    /\ setting \in [Users -> Settings]
    /\ rows = {}
    /\ tick = [s \in Schedulers |-> Idle]
    /\ puts = 0
    /\ faults = 0

-----------------------------------------------------------------------------
(* The clock and the users.                                                *)

TimePasses ==
    /\ clock < Horizon
    /\ clock' = clock + 1
    /\ UNCHANGED <<setting, rows, tick, puts, faults>>

\* PUT /me/reminder: the row of the user and nothing else.
PutReminder(u, choice) ==
    /\ puts < MaxPuts
    /\ puts' = puts + 1
    /\ choice # setting[u]
    /\ setting' = [setting EXCEPT ![u] = choice]
    /\ UNCHANGED <<clock, rows, tick, faults>>

-----------------------------------------------------------------------------
(* The materialiser.                                                       *)

\* Mutant: a numeric offset is passed on as text.
OffsetNever(z) == Nothing

\* utc_offset: an interval, counted the way the user wrote it.
UtcOffset(z) == IF z.form = "offset" THEN z ELSE Nothing

\* Mutant: the zone's own name, without the links.
UnlinkedTimezone(z) == IF z.form = "name" THEN z ELSE Nothing

\* named_timezone: TIMEZONE_LINKS resolves an alias to a name PostgreSQL
\* knows; as text an offset would count the other way.
NamedTimezone(z) ==
    IF z.form = "offset"
    THEN [form |-> "offset", before |-> 0 - z.before, after |-> 0 - z.after, at |-> z.at]
    ELSE z

\* The zone that both AT TIME ZONE conversions of the statement use.
ConvertedBy(z) == IF UtcOffset(z) # Nothing THEN UtcOffset(z) ELSE NamedTimezone(z)

\* What the statement would insert for u at a tick's now.
RowFor(u, now) ==
    LET zone == ConvertedBy(setting[u].zone)
        date == LocalDate(now, zone)
    IN  [user |-> u, date |-> date, at |-> AtTimeZone(WallOf(date, setting[u].time), zone),
         zone |-> setting[u].zone, state |-> "pending", setting |-> setting[u],
         cards |-> Nothing]

\* Mutant: identity is the scheduled instant, as it is for fixtures.
SameInstant(r, new) == r.user = new.user /\ r.at = new.at

\* ON CONFLICT (user_id, local_date) DO NOTHING.
Conflicts(r, new) == r.user = new.user /\ r.date = new.date

Inserted(now) ==
    {new \in {RowFor(u, now) : u \in Users} : \A r \in rows : ~Conflicts(r, new)}

-----------------------------------------------------------------------------
(* enqueueTick.                                                            *)

TickReadsClock(s) ==
    /\ tick[s] = Idle
    /\ tick' = [tick EXCEPT ![s] = [stage |-> "materializing", now |-> clock, due |-> {}]]
    /\ UNCHANGED <<clock, setting, rows, puts, faults>>

\* One zone PostgreSQL does not know fails the statement for everybody.
MaterializeOrdinary(s) ==
    /\ tick[s].stage = "materializing"
    /\ IF \E u \in Users : ConvertedBy(setting[u].zone) = Nothing
       THEN tick' = [tick EXCEPT ![s] = Idle] /\ UNCHANGED rows
       ELSE /\ rows' = rows \cup Inserted(tick[s].now)
            /\ tick' = [tick EXCEPT ![s].stage = "selecting"]
    /\ UNCHANGED <<clock, setting, puts, faults>>

\* Mutant: only what is due on its own day.
DueToday(r, now) == r.state = "pending" /\ r.at <= now /\ LocalDate(now, r.zone) = r.date

Due(r, now) == r.state = "pending" /\ r.at <= now

DueReminderIds(s) ==
    /\ tick[s].stage = "selecting"
    /\ LET due == {<<r.user, r.date>> : r \in {q \in rows : Due(q, tick[s].now)}}
       IN  tick' = [tick EXCEPT ![s] = IF due = {} THEN Idle
                                       ELSE [@ EXCEPT !.stage = "enqueueing", !.due = due]]
    /\ UNCHANGED <<clock, setting, rows, puts, faults>>

Enqueue(s) ==
    /\ tick[s].stage = "enqueueing"
    /\ rows' = {IF r.state = "pending" /\ <<r.user, r.date>> \in tick[s].due
                THEN [r EXCEPT !.state = "queued"] ELSE r : r \in rows}
    /\ tick' = [tick EXCEPT ![s] = Idle]
    /\ UNCHANGED <<clock, setting, puts, faults>>

\* A database error ends the tick; the next one starts over.
TickFails(s) ==
    /\ tick[s] # Idle
    /\ faults < MaxFaults
    /\ faults' = faults + 1
    /\ tick' = [tick EXCEPT ![s] = Idle]
    /\ UNCHANGED <<clock, setting, rows, puts>>

-----------------------------------------------------------------------------
(* The worker.                                                             *)

\* Mutant: the cards of the day on which the push goes out.
CardsToday(r) == LocalDate(clock, r.zone)

\* cards.forDate(local_date), at whatever attempt.
CardsDate(r) == r.date

Send(r) ==
    /\ r.state = "queued"
    /\ rows' = (rows \ {r}) \cup {[r EXCEPT !.state = "sent", !.cards = CardsDate(r)]}
    /\ UNCHANGED <<clock, setting, tick, puts, faults>>

-----------------------------------------------------------------------------
TickStep(s) == MaterializeOrdinary(s) \/ DueReminderIds(s) \/ Enqueue(s)

Next ==
    \/ TimePasses
    \/ \E u \in Users, choice \in Settings : PutReminder(u, choice)
    \/ \E s \in Schedulers : TickReadsClock(s) \/ TickStep(s) \/ TickFails(s)
    \/ \E r \in rows : Send(r)

Spec == Init /\ [][Next]_vars

\* Time passes, timers fire, a statement ends, and workers take what is queued.
FairSpec ==
    /\ Spec
    /\ WF_vars(TimePasses)
    /\ \A s \in Schedulers : WF_vars(TickReadsClock(s)) /\ WF_vars(TickStep(s))
    /\ WF_vars(\E r \in rows : Send(r))

-----------------------------------------------------------------------------
(* Properties.                                                             *)

\* Every variable has the type of its columns.
TypeOK ==
    /\ clock \in Int
    /\ setting \in [Users -> Settings]
    /\ rows \subseteq Rows
    /\ tick \in [Schedulers -> [stage : {"idle", "materializing", "selecting", "enqueueing"},
                                now : Int, due : SUBSET (Users \X Int)]]
    /\ puts \in Nat
    /\ faults \in Nat

\* A reminder is for the reminder time of its day as the clocks of its zone
\* show it, whatever form the zone has and however late its tick; a time that
\* the zone skips comes later by what it skips.
FallsOnItsDay ==
    \A r \in rows :
        LET w == WallOf(r.date, r.setting.time)
            z == r.setting.zone
        IN  Wall(r.at, z) = w + (IF Occurs(w, z) THEN 0 ELSE z.after - z.before)

\* A user has one reminder for a local day, with two schedulers at it around
\* midnight and settings that move the day back or the time on; and no two
\* bring the cards of one day, however late each is sent.
EachDayOnce ==
    \A r, q \in rows : r.user = q.user /\ r # q =>
        /\ r.date # q.date
        /\ r.state = "sent" /\ q.state = "sent" => r.cards # q.cards

\* The current day of every user gets its reminder, and no reminder whose time
\* has come stays unsent, also when its day has passed meanwhile.
TodayIsKept ==
    \A u \in Users :
        <>[](/\ \E r \in rows : r.user = u /\ r.date = LocalDate(clock, setting[u].zone)
             /\ \A r \in rows : r.user = u /\ r.at <= clock => r.state = "sent")
=============================================================================
