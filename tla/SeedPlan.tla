------------------------------ MODULE SeedPlan ------------------------------
(***************************************************************************)
(* The fixture population: which time zone and local reminder time each    *)
(* seeded user gets, and the instant its reminder is materialised for.     *)
(* time.ts decides which local times an off-peak user must not have;       *)
(* PostgreSQL converts the ones it got.                                    *)
(***************************************************************************)
EXTENDS LocalTime, Sequences, FiniteSets

CONSTANTS
    SeedUserCount, TargetTimezoneUserCount, PeakUserCount,
    TargetTimezone,     \* the zone that holds the peak
    OtherTimezones,     \* the zones of the remaining users
    TargetLocalTime,    \* the local time that defines the peak
    TargetDate,
    LocalTimeGrid       \* the local times off-peak users pick from, ascending

ValidPlan ==
    /\ PeakUserCount \in 0..TargetTimezoneUserCount
    /\ TargetTimezoneUserCount \in 0..SeedUserCount /\ SeedUserCount \in Nat
    /\ TargetDate \in Int /\ TargetLocalTime \in Int
    /\ LocalTimeGrid \subseteq Int /\ IsFiniteSet(LocalTimeGrid)
    /\ IsZone(TargetTimezone)
    /\ OtherTimezones \in Seq([before : Int, after : Int, at : Int])
    /\ OtherTimezones # << >>

PeakInstant == LocalTimeToUtc(WallOf(TargetDate, TargetLocalTime), TargetTimezone)

OffPeakTimes(z) ==
    {t \in LocalTimeGrid : LocalTimeToUtc(WallOf(TargetDate, t), z) # PeakInstant}

\* Counts for the other zones, as even as the remainder allows.
OtherTimezoneCounts ==
    LET total == SeedUserCount - TargetTimezoneUserCount
        places == Len(OtherTimezones)
    IN  [p \in 1..places |->
            (total \div places) + (IF p <= total % places THEN 1 ELSE 0)]

\* seedSegments: the peak, the rest of its zone, then each other zone.
Segments == 1..(Len(OtherTimezones) + 2)

Timezone(s) == IF s <= 2 THEN TargetTimezone ELSE OtherTimezones[s - 2]

Count(s) ==
    CASE s = 1 -> PeakUserCount
      [] s = 2 -> TargetTimezoneUserCount - PeakUserCount
      [] OTHER -> OtherTimezoneCounts[s - 2]

LocalTimes(s) == IF s = 1 THEN {TargetLocalTime} ELSE OffPeakTimes(Timezone(s))

FirstIndex[s \in Segments \cup {Len(OtherTimezones) + 3}] ==
    IF s = 1 THEN 0 ELSE FirstIndex[s - 1] + Count(s - 1)

\* assignSeedUser: the segment of user i, and its time in turn.
SegmentOf(i) ==
    CHOOSE s \in Segments : FirstIndex[s] <= i /\ i < FirstIndex[s] + Count(s)

ReminderTime(i) ==
    LET s == SegmentOf(i)
        turn == (i - FirstIndex[s]) % Cardinality(LocalTimes(s))
    IN  CHOOSE t \in LocalTimes(s) : Cardinality({u \in LocalTimes(s) : u < t}) = turn

\* materializeReminders.
ScheduledAt(t, z) == AtTimeZone(WallOf(TargetDate, t), z)

AtPeak ==
    {i \in 0..(SeedUserCount - 1) :
        ScheduledAt(ReminderTime(i), Timezone(SegmentOf(i))) = PeakInstant}

-----------------------------------------------------------------------------
\* What time.ts says of the local times the seed assigns, of which every
\* segment has one.
AssignedTimesOccurOnce ==
    \A s \in Segments :
        /\ LocalTimes(s) # {}
        /\ \A t \in LocalTimes(s) : OccursOnce(WallOf(TargetDate, t), Timezone(s))

\* Whatever time of its segment a user gets, its reminder is at the peak
\* instant just when the segment is the peak's.
PeakIsItsSegments ==
    \A s \in Segments : \A t \in LocalTimes(s) :
        ScheduledAt(t, Timezone(s)) = PeakInstant <=> s = 1

\* The segments hold every user once, and exactly PeakUserCount reminders are
\* at the peak instant.
PeakIsExact ==
    /\ FirstIndex[Len(OtherTimezones) + 3] = SeedUserCount
    /\ \A i \in 0..(SeedUserCount - 1) :
          Cardinality({s \in Segments : FirstIndex[s] <= i /\ i < FirstIndex[s] + Count(s)}) = 1
    /\ Cardinality(AtPeak) = PeakUserCount
=============================================================================
