------------------------- MODULE ReminderDaysProofs -------------------------
(***************************************************************************)
(* Days and zones, for every value of the constants: what time.ts and      *)
(* PostgreSQL agree on, the seed's peak, and the daily reminders of any    *)
(* users, settings, schedulers and clock: each is at its local time, and a *)
(* user has one for a local day.                                           *)
(***************************************************************************)
EXTENDS ReminderDays, SeedPlan, SequenceTheorems, FiniteSetTheorems, TLAPS

-----------------------------------------------------------------------------
(* LocalTime.                                                              *)

\* A clock time has at most the two readings of the offsets around the change.
LEMMA ReadingsOf ==
    ASSUME NEW w \in Int, NEW z, IsZone(z)
    PROVE  /\ w - z.before \in Readings(w, z) <=> w - z.before < z.at \/ z.before = z.after
           /\ w - z.after \in Readings(w, z) <=> w - z.after >= z.at \/ z.before = z.after
           /\ Readings(w, z) \subseteq {w - z.before, w - z.after}
BY DEF IsZone, Readings, Wall, OffsetMs

\* A wall clock that was skipped lies behind the change with the offset before
\* it, and in front of it with the offset after.
LEMMA SkippedIsBetween ==
    ASSUME NEW w \in Int, NEW z, IsZone(z), ~Occurs(w, z)
    PROVE  w - z.before >= z.at /\ w - z.after < z.at
<1>1. Readings(w, z) = {}
  BY DEF Occurs
<1> QED
  BY <1>1, ReadingsOf DEF IsZone

\* A wall clock that occurs once is on one side of the change with either
\* offset.
LEMMA OnceIsOneSided ==
    ASSUME NEW w \in Int, NEW z, IsZone(z), OccursOnce(w, z)
    PROVE  \/ w - z.before < z.at /\ w - z.after < z.at
           \/ w - z.before >= z.at /\ w - z.after >= z.at
           \/ z.before = z.after
<1>1. PICK i \in Readings(w, z) : Readings(w, z) = {i}
  BY DEF OccursOnce
<1>2. z.before # z.after => ~(w - z.before < z.at /\ w - z.after >= z.at)
  <2> SUFFICES ASSUME z.before # z.after, w - z.before < z.at, w - z.after >= z.at
               PROVE  FALSE
    OBVIOUS
  <2>1. w - z.before \in Readings(w, z) /\ w - z.after \in Readings(w, z)
    BY ReadingsOf
  <2>2. w - z.before = w - z.after
    BY <1>1, <2>1
  <2> QED
    BY <2>2 DEF IsZone
<1>3. z.before # z.after => ~(w - z.before >= z.at /\ w - z.after < z.at)
  <2> SUFFICES ASSUME z.before # z.after, w - z.before >= z.at, w - z.after < z.at
               PROVE  FALSE
    OBVIOUS
  <2>1. w - z.before \notin Readings(w, z) /\ w - z.after \notin Readings(w, z)
    BY ReadingsOf DEF IsZone
  <2> QED
    BY <1>1, <2>1, ReadingsOf
<1> QED
  BY <1>2, <1>3 DEF IsZone

\* Both conversions answer one of the two readings with the zone's offsets.
LEMMA ConversionsType ==
    ASSUME NEW w \in Int, NEW z, IsZone(z)
    PROVE  /\ LocalTimeToUtc(w, z) \in {w - z.before, w - z.after}
           /\ AtTimeZone(w, z) \in {w - z.before, w - z.after}
           /\ LocalTimeToUtc(w, z) \in Int /\ AtTimeZone(w, z) \in Int
BY DEF IsZone, LocalTimeToUtc, AtTimeZone, OffsetMs

\* time.ts's header: localTimeToUtc and PostgreSQL's AT TIME ZONE agree on
\* every local time that occurs exactly once, and the clocks then read it.
THEOREM ConversionsAgree ==
    ASSUME NEW w \in Int, NEW z, IsZone(z), OccursOnce(w, z)
    PROVE  /\ LocalTimeToUtc(w, z) = AtTimeZone(w, z)
           /\ Wall(AtTimeZone(w, z), z) = w
BY OnceIsOneSided DEF IsZone, LocalTimeToUtc, AtTimeZone, OffsetMs, Wall

\* On a local time that occurs, once or twice, each conversion answers an
\* instant at which the clocks read it; PostgreSQL's answer for a skipped one
\* is read later by what the zone skips.
THEOREM ConversionsRead ==
    ASSUME NEW w \in Int, NEW z, IsZone(z)
    PROVE  /\ Occurs(w, z) => Wall(LocalTimeToUtc(w, z), z) = w
           /\ Wall(AtTimeZone(w, z), z) = w + (IF Occurs(w, z) THEN 0 ELSE z.after - z.before)
<1>1. CASE Occurs(w, z)
  <2>1. \/ w - z.before < z.at
        \/ w - z.after >= z.at
        \/ z.before = z.after
    BY <1>1, ReadingsOf DEF Occurs
  <2> QED
    BY <1>1, <2>1 DEF IsZone, LocalTimeToUtc, AtTimeZone, OffsetMs, Wall
<1>2. CASE ~Occurs(w, z)
  BY <1>2, SkippedIsBetween DEF IsZone, AtTimeZone, OffsetMs, Wall
<1> QED
  BY <1>1, <1>2

-----------------------------------------------------------------------------
(* SeedPlan.                                                               *)

LEMMA SegmentTypes ==
    ASSUME ValidPlan, NEW s \in Segments, NEW t \in LocalTimes(s)
    PROVE  IsZone(Timezone(s)) /\ WallOf(TargetDate, t) \in Int
<1>1. IsZone(Timezone(s))
  <2>1. CASE s <= 2
    BY <2>1 DEF ValidPlan, Timezone
  <2>2. CASE ~(s <= 2)
    <3>1. OtherTimezones \in Seq([before : Int, after : Int, at : Int])
      BY DEF ValidPlan
    <3>2. s - 2 \in 1..Len(OtherTimezones)
      BY <2>2, <3>1 DEF Segments
    <3>3. OtherTimezones[s - 2] \in [before : Int, after : Int, at : Int]
      BY <3>1, <3>2, ElementOfSeq
    <3>4. IsZone(OtherTimezones[s - 2])
      BY <3>3 DEF IsZone
    <3> QED
      BY <2>2, <3>4 DEF Timezone
  <2> QED
    BY <2>1, <2>2
<1>2. t \in Int
  BY DEF ValidPlan, LocalTimes, OffPeakTimes
<1> QED
  BY <1>1, <1>2, DayLengthAssumption DEF ValidPlan, WallOf

\* seedSegments avoids the peak by time.ts, materializeReminders converts by
\* PostgreSQL: while every local time that is assigned occurs once, the peak
\* instant carries the reminders of the peak's segment and no other.
THEOREM PeakIsThePlans ==
    ASSUME ValidPlan, AssignedTimesOccurOnce
    PROVE  PeakIsItsSegments
<1> SUFFICES ASSUME NEW s \in Segments, NEW t \in LocalTimes(s)
             PROVE  ScheduledAt(t, Timezone(s)) = PeakInstant <=> s = 1
  BY DEF PeakIsItsSegments
<1>1. ScheduledAt(t, Timezone(s)) = LocalTimeToUtc(WallOf(TargetDate, t), Timezone(s))
  BY SegmentTypes, ConversionsAgree DEF AssignedTimesOccurOnce, ScheduledAt
<1>2. CASE s = 1
  BY <1>1, <1>2 DEF LocalTimes, Timezone, PeakInstant
<1>3. CASE s # 1
  BY <1>1, <1>3 DEF LocalTimes, OffPeakTimes
<1> QED
  BY <1>2, <1>3

\* A set of naturals has a least element.
LEMMA LeastOf ==
    ASSUME NEW T \in SUBSET Nat, T # {}
    PROVE  \E x \in T : \A y \in T : x <= y
<1> DEFINE R == OpToRel(<, Nat)
<1>1. IsWellFoundedOn(R, Nat)
  BY NatLessThanWellFounded
<1>2. R = {ss \in Nat \X Nat : ss[1] < ss[2]}
  BY DEF OpToRel
<1> HIDE DEF R
<1>3. PICK x \in T : \A y \in T : ~ (<<y, x>> \in R)
  BY <1>1, WFMin
<1>4. ASSUME NEW y \in T
      PROVE  x <= y
  <2>1. <<y, x>> \in Nat \X Nat /\ ~(y < x)
    BY <1>2, <1>3
  <2> QED
    BY <2>1
<1> QED
  BY <1>4

\* Math.floor and the remainder, of naturals.
LEMMA QuotientOf ==
    ASSUME NEW d \in Nat, NEW n \in Nat \ {0}
    PROVE  /\ d \div n \in Nat /\ d % n \in 0..(n - 1)
           /\ d = n * (d \div n) + (d % n)
  OBVIOUS
LEMMA TimesNext ==
    ASSUME NEW k \in Int, NEW q \in Int
    PROVE (k+1) * q = k * q + q /\ k * q \in Int
  OBVIOUS

\* The plan's counts are naturals, and there is another zone.
LEMMA PlanTypes ==
    ASSUME ValidPlan
    PROVE  /\ Len(OtherTimezones) \in Nat \ {0}
           /\ SeedUserCount \in Nat /\ TargetTimezoneUserCount \in Nat /\ PeakUserCount \in Nat
           /\ SeedUserCount - TargetTimezoneUserCount \in Nat
           /\ TargetTimezoneUserCount - PeakUserCount \in Nat
           /\ Segments = 1..(Len(OtherTimezones) + 2)
<1>1. OtherTimezones \in Seq([before : Int, after : Int, at : Int]) /\ OtherTimezones # << >>
  BY DEF ValidPlan
<1>2. Len(OtherTimezones) \in Nat \ {0}
  BY <1>1, EmptySeq, LenProperties
<1> QED
  BY <1>2 DEF ValidPlan, Segments

\* otherTimezoneCounts in closed form: what the first k of the other zones
\* get, with the target's users, and all of them make up the population.
LEMMA CountsFromTheBase ==
    ASSUME ValidPlan
    PROVE  LET total == SeedUserCount - TargetTimezoneUserCount
               places == Len(OtherTimezones)
               First(k) == TargetTimezoneUserCount + k * (total \div places)
                              + (IF k <= total % places THEN k ELSE total % places)
           IN  /\ First(0) = TargetTimezoneUserCount
               /\ First(places) = SeedUserCount
               /\ \A k \in 0..places : First(k) \in Nat
               /\ \A s \in Segments : s > 2 =>
                     /\ Count(s) \in Nat
                     /\ First(s - 2) = First(s - 3) + Count(s)
<1> DEFINE total == SeedUserCount - TargetTimezoneUserCount
           places == Len(OtherTimezones)
           base == total \div places
           remainder == total % places
           First(k) == TargetTimezoneUserCount + k * base
                          + (IF k <= remainder THEN k ELSE remainder)
<1>1. /\ total \in Nat /\ places \in Nat \ {0} /\ TargetTimezoneUserCount \in Nat
      /\ TargetTimezoneUserCount + total = SeedUserCount
      /\ Segments = 1..(places + 2)
  BY PlanTypes
<1>2. base \in Nat /\ remainder \in 0..(places - 1) /\ total = places * base + remainder
  BY <1>1, QuotientOf
<1>3. \A s \in Segments : s > 2 => Count(s) = base + (IF s - 2 <= remainder THEN 1 ELSE 0)
  <2> SUFFICES ASSUME NEW s \in Segments, s > 2
               PROVE  Count(s) = base + (IF s - 2 <= remainder THEN 1 ELSE 0)
    OBVIOUS
  <2>1. s - 2 \in 1..places /\ s # 1 /\ s # 2
    BY <1>1
  <2>2. Count(s) = OtherTimezoneCounts[s - 2]
    BY <2>1 DEF Count
  <2> QED
    BY <2>1, <2>2 DEF OtherTimezoneCounts
<1> HIDE DEF total, places, base, remainder
<1>4. 0 * base = 0
  BY <1>2
<1>5. First(0) = TargetTimezoneUserCount /\ First(places) = SeedUserCount
  BY <1>1, <1>2, <1>4
<1>6. ASSUME NEW k \in 0..places
      PROVE  First(k) \in Nat
  <2>1. k * base \in Nat
    BY <1>1, <1>2
  <2> QED
    BY <1>1, <1>2, <2>1
<1>7. ASSUME NEW s \in Segments, s > 2
      PROVE  Count(s) \in Nat /\ First(s - 2) = First(s - 3) + Count(s)
  <2>1. s - 3 \in Nat /\ (s - 3) + 1 = s - 2
    BY <1>1, <1>7
  <2>2. (s - 2) * base = (s - 3) * base + base /\ (s - 3) * base \in Int
    BY <1>2, <2>1, TimesNext
  <2>3. Count(s) = base + (IF s - 2 <= remainder THEN 1 ELSE 0)
    BY <1>3, <1>7
  <2> HIDE DEF First
  <2>4. First(s - 2) = TargetTimezoneUserCount + (s - 2) * base
                          + (IF s - 2 <= remainder THEN s - 2 ELSE remainder)
    BY DEF First
  <2>5. First(s - 3) = TargetTimezoneUserCount + (s - 3) * base
                          + (IF s - 3 <= remainder THEN s - 3 ELSE remainder)
    BY DEF First
  <2> QED
    BY <1>1, <1>2, <2>1, <2>2, <2>3, <2>4, <2>5
<1> QED
  BY <1>5, <1>6, <1>7 DEF total, places, base, remainder

\* In a finite set of local times there is, for each turn, one with so many
\* before it: the turn is a bijection from the times to the turns.
LEMMA RanksAreTaken ==
    ASSUME NEW S \in SUBSET Int, IsFiniteSet(S), NEW k \in 0..(Cardinality(S) - 1)
    PROVE  \E t \in S : Cardinality({u \in S : u < t}) = k
<1> DEFINE Below(t) == {u \in S : u < t}
           n == Cardinality(S)
           rank == [t \in S |-> Cardinality(Below(t))]
<1>1. n \in Nat
  BY FS_CardinalityType
<1>2. ASSUME NEW t \in S
      PROVE  IsFiniteSet(Below(t)) /\ Cardinality(Below(t)) \in 0..(n - 1)
  <2>1. /\ IsFiniteSet(Below(t))
        /\ Cardinality(Below(t)) <= n
        /\ Cardinality(Below(t)) = n => S = Below(t)
    BY FS_Subset
  <2>2. t \notin Below(t)
    OBVIOUS
  <2>3. Cardinality(Below(t)) \in Nat
    BY <2>1, FS_CardinalityType
  <2> QED
    BY <1>1, <2>1, <2>2, <2>3
<1>3. ASSUME NEW t \in S, NEW v \in S, t < v
      PROVE  Cardinality(Below(t)) < Cardinality(Below(v))
  <2>1. Below(t) \subseteq Below(v)
    <3> SUFFICES ASSUME NEW u \in S, u < t PROVE u < v
      OBVIOUS
    <3>1. u \in Int /\ t \in Int /\ v \in Int
      OBVIOUS
    <3> QED
      BY <1>3, <3>1
  <2>5. t \in Below(v)
    BY <1>3
  <2>6. t \notin Below(t)
    OBVIOUS
  <2>2. IsFiniteSet(Below(v)) /\ IsFiniteSet(Below(t))
    BY <1>2
  <2>3. Cardinality(Below(t)) \in Nat /\ Cardinality(Below(v)) \in Nat
    BY <2>2, FS_CardinalityType
  <2> HIDE DEF Below
  <2>4. /\ Cardinality(Below(t)) <= Cardinality(Below(v))
        /\ Cardinality(Below(v)) = Cardinality(Below(t)) => Below(v) = Below(t)
    BY <2>1, <2>2, FS_Subset
  <2> QED
    BY <2>3, <2>4, <2>5, <2>6
<1> HIDE DEF Below
<1>4. rank \in [S -> 0..(n - 1)]
  BY <1>2
<1>5. ASSUME NEW t \in S, NEW v \in S, rank[t] = rank[v]
      PROVE  t = v
  <2>1. Cardinality(Below(t)) = Cardinality(Below(v)) /\ Cardinality(Below(t)) \in Nat
    BY <1>2, <1>5
  <2>2. ~(t < v) /\ ~(v < t)
    BY <1>3, <2>1
  <2> QED
    BY <2>2
<1>6. rank \in Injection(S, 0..(n - 1))
  BY <1>4, <1>5 DEF Injection, IsInjective
<1>7. IsFiniteSet(0..(n - 1)) /\ Cardinality(0..(n - 1)) = n
  BY <1>1, FS_Interval
<1>8. rank \in Surjection(S, 0..(n - 1))
  BY <1>6, <1>7, FS_Injection DEF n
<1>9. PICK t \in S : rank[t] = k
  BY <1>8 DEF Surjection
<1> QED
  BY <1>9 DEF Below

\* seedSegments: the first indices solve their recursion, which the closed form
\* shows to have a solution, and run from the peak to the population.
LEMMA FirstIndices ==
    ASSUME ValidPlan
    PROVE  LET last == Len(OtherTimezones) + 3
           IN  /\ \A s \in 1..last : FirstIndex[s] \in Nat
               /\ FirstIndex[1] = 0 /\ FirstIndex[2] = PeakUserCount
               /\ FirstIndex[last] = SeedUserCount
               /\ \A s \in Segments : Count(s) \in Nat /\ FirstIndex[s + 1] = FirstIndex[s] + Count(s)
<1> DEFINE total == SeedUserCount - TargetTimezoneUserCount
           places == Len(OtherTimezones)
           last == places + 3
           First(k) == TargetTimezoneUserCount + k * (total \div places)
                          + (IF k <= total % places THEN k ELSE total % places)
           closed == [s \in Segments \cup {last} |->
                         IF s = 1 THEN 0 ELSE IF s = 2 THEN PeakUserCount ELSE First(s - 3)]
           Steps(f) == [s \in Segments \cup {last} |-> IF s = 1 THEN 0 ELSE f[s - 1] + Count(s - 1)]
<1>1. /\ places \in Nat \ {0}
      /\ Segments = 1..(places + 2) /\ Segments \cup {last} = 1..last
      /\ PeakUserCount \in Nat /\ TargetTimezoneUserCount \in Nat
      /\ TargetTimezoneUserCount - PeakUserCount \in Nat
  BY PlanTypes
<1>2. Count(1) = PeakUserCount /\ Count(2) = TargetTimezoneUserCount - PeakUserCount
  BY DEF Count
<1>3. /\ First(0) = TargetTimezoneUserCount /\ First(places) = SeedUserCount
      /\ \A k \in 0..places : First(k) \in Nat
      /\ \A s \in Segments : s > 2 =>
            Count(s) \in Nat /\ First(s - 2) = First(s - 3) + Count(s)
  BY CountsFromTheBase
<1> HIDE DEF First, places
<1>4. ASSUME NEW s \in Segments
      PROVE  Count(s) \in Nat
  <2>1. s = 1 \/ s = 2 \/ s > 2
    BY <1>1
  <2> QED
    BY <1>1, <1>2, <1>3, <2>1
<1>5. \A s \in 1..last : closed[s] \in Nat
  BY <1>1, <1>3
<1>6. \A s \in Segments : closed[s + 1] = closed[s] + Count(s)
  <2> SUFFICES ASSUME NEW s \in Segments
               PROVE  closed[s + 1] = closed[s] + Count(s)
    OBVIOUS
  <2>1. s \in 1..last /\ s + 1 \in 1..last /\ s + 1 # 1
    BY <1>1
  <2>2. CASE s = 1
    BY <1>1, <1>2, <2>1, <2>2
  <2>3. CASE s = 2
    BY <1>1, <1>2, <1>3, <2>1, <2>3
  <2>4. CASE s > 2
    <3>1. s + 1 - 3 = s - 2
      BY <2>1
    <3>2. closed[s + 1] = First(s - 2)
      BY <1>1, <2>1, <2>4, <3>1
    <3>3. closed[s] = First(s - 3)
      BY <1>1, <2>1, <2>4
    <3> QED
      BY <1>3, <2>4, <3>2, <3>3
  <2> QED
    BY <1>1, <2>2, <2>3, <2>4
<1>7. closed = Steps(closed)
  <2>1. ASSUME NEW s \in 1..last
        PROVE  closed[s] = IF s = 1 THEN 0 ELSE closed[s - 1] + Count(s - 1)
    <3>1. CASE s = 1
      BY <1>1, <3>1
    <3>2. CASE s # 1
      <4>1. s - 1 \in Segments /\ (s - 1) + 1 = s
        BY <1>1, <2>1, <3>2
      <4> QED
        BY <1>6, <3>2, <4>1
    <3> QED
      BY <3>1, <3>2
  <2> QED
    BY <1>1, <2>1
<1>8. FirstIndex = Steps(FirstIndex)
  BY <1>7 DEF FirstIndex, last, places
<1>9. \A s \in 1..last : FirstIndex[s] = IF s = 1 THEN 0 ELSE FirstIndex[s - 1] + Count(s - 1)
  BY <1>1, <1>8
<1> HIDE DEF closed, Steps
<1>10. \A s \in 1..last : FirstIndex[s] = closed[s]
  <2> DEFINE Off == {s \in 1..last : FirstIndex[s] # closed[s]}
  <2> SUFFICES ASSUME Off # {} PROVE FALSE
    OBVIOUS
  <2>1. Off \in SUBSET Nat
    BY <1>1
  <2>2. PICK s \in Off : \A t \in Off : s <= t
    BY <2>1, LeastOf
  <2>3. s # 1
    BY <1>9, <1>1 DEF closed
  <2>4. s - 1 \in Segments /\ s - 1 \in 1..last /\ (s - 1) + 1 = s /\ s - 1 \notin Off
    BY <1>1, <2>2, <2>3
  <2>5. FirstIndex[s] = closed[s - 1] + Count(s - 1)
    BY <1>9, <2>3, <2>4
  <2> QED
    BY <1>6, <2>4, <2>5
<1>11. FirstIndex[1] = 0 /\ FirstIndex[2] = PeakUserCount /\ FirstIndex[last] = SeedUserCount
  <2>1. closed[1] = 0 /\ closed[2] = PeakUserCount
    BY <1>1 DEF closed
  <2>2. closed[last] = First(places)
    BY <1>1 DEF closed
  <2> QED
    BY <1>1, <1>3, <1>10, <2>1, <2>2
<1>12. ASSUME NEW s \in Segments
       PROVE  FirstIndex[s + 1] = FirstIndex[s] + Count(s)
  <2>1. s \in 1..last /\ s + 1 \in 1..last
    BY <1>1
  <2> QED
    BY <1>6, <1>10, <2>1
<1> QED
  BY <1>4, <1>5, <1>10, <1>11, <1>12 DEF last, places

\* A segment ends where the next begins or before.
LEMMA SegmentsInOrder ==
    ASSUME ValidPlan, NEW s \in Segments, NEW t \in Segments, s < t
    PROVE  FirstIndex[s] + Count(s) <= FirstIndex[t]
<1> DEFINE last == Len(OtherTimezones) + 3
           Bad == {v \in Segments : s < v /\ ~(FirstIndex[s] + Count(s) <= FirstIndex[v])}
<1>1. /\ \A v \in Segments : v \in 1..last /\ v \in Nat /\ v + 1 \in 1..last
      /\ \A v, w \in Segments : v < w => w - 1 \in Segments /\ (w - 1) + 1 = w
  <2> DEFINE places == Len(OtherTimezones)
  <2>1. places \in Nat /\ Segments = 1..(places + 2) /\ last = places + 3
    BY PlanTypes
  <2> HIDE DEF places, last
  <2> QED
    BY <2>1
<1>2. /\ \A v \in 1..last : FirstIndex[v] \in Nat
      /\ \A v \in Segments : Count(v) \in Nat /\ FirstIndex[v + 1] = FirstIndex[v] + Count(v)
  BY FirstIndices
<1> HIDE DEF last
<1> SUFFICES ASSUME Bad # {} PROVE FALSE
  OBVIOUS
<1>3. Bad \in SUBSET Nat
  BY <1>1
<1>4. PICK v \in Bad : \A w \in Bad : v <= w
  BY <1>3, LeastOf
<1>5. v \in Segments /\ s < v /\ ~(FirstIndex[s] + Count(s) <= FirstIndex[v])
  BY <1>4
<1>6. v - 1 \in Segments /\ (v - 1) + 1 = v /\ v \in Nat /\ v - 1 \in Nat /\ s \in Nat
  BY <1>1, <1>5
<1>7. v - 1 \notin Bad
  BY <1>4, <1>6
<1>8. FirstIndex[v] = FirstIndex[v - 1] + Count(v - 1)
  BY <1>2, <1>6
<1>9. /\ FirstIndex[v - 1] \in Nat /\ Count(v - 1) \in Nat
      /\ FirstIndex[s] \in Nat /\ Count(s) \in Nat
  BY <1>1, <1>2, <1>6
<1>10. CASE v - 1 = s
  BY <1>5, <1>8, <1>9, <1>10
<1>11. CASE v - 1 # s
  <2>1. s < v - 1
    BY <1>5, <1>6, <1>11
  <2>2. FirstIndex[s] + Count(s) <= FirstIndex[v - 1]
    BY <1>6, <1>7, <2>1
  <2> QED
    BY <1>5, <1>8, <1>9, <2>2
<1> QED
  BY <1>10, <1>11

\* assignSeedUser finds a segment for every index, and one only.
LEMMA OneSegment ==
    ASSUME ValidPlan, NEW i \in 0..(SeedUserCount - 1)
    PROVE  \E s \in Segments :
              {v \in Segments : FirstIndex[v] <= i /\ i < FirstIndex[v] + Count(v)} = {s}
<1> DEFINE last == Len(OtherTimezones) + 3
           Behind == {v \in 1..last : i < FirstIndex[v]}
<1>1. /\ last \in 1..last /\ SeedUserCount \in Nat
      /\ \A v \in Segments : v \in 1..last /\ v \in Nat /\ v + 1 \in 1..last
      /\ \A v \in 1..last : v \in Nat /\ (v # 1 => v - 1 \in Segments /\ (v - 1) + 1 = v)
  <2> DEFINE places == Len(OtherTimezones)
  <2>1. /\ places \in Nat /\ Segments = 1..(places + 2) /\ last = places + 3
        /\ SeedUserCount \in Nat
    BY PlanTypes
  <2> HIDE DEF places, last
  <2> QED
    BY <2>1
<1>2. /\ \A v \in 1..last : FirstIndex[v] \in Nat
      /\ FirstIndex[1] = 0 /\ FirstIndex[last] = SeedUserCount
      /\ \A v \in Segments : Count(v) \in Nat /\ FirstIndex[v + 1] = FirstIndex[v] + Count(v)
  BY FirstIndices
<1> HIDE DEF last
<1>3. last \in Behind /\ Behind \in SUBSET Nat
  <2>1. i \in Int /\ i < SeedUserCount
    BY <1>1
  <2>2. i < FirstIndex[last]
    BY <1>2, <2>1
  <2> QED
    BY <1>1, <2>2
<1>4. PICK w \in Behind : \A v \in Behind : w <= v
  BY <1>3, LeastOf
<1>5. w # 1
  BY <1>2, <1>4
<1> DEFINE s == w - 1
<1>6. s \in Segments /\ s + 1 = w /\ s \in 1..last /\ w \in Nat
  BY <1>1, <1>4, <1>5
<1>7. FirstIndex[s] <= i /\ i < FirstIndex[s] + Count(s)
  <2>1. s \notin Behind
    BY <1>4, <1>6
  <2>2. i < FirstIndex[s + 1]
    BY <1>4, <1>6
  <2> QED
    BY <1>2, <1>6, <2>1, <2>2
<1> HIDE DEF s
<1>8. ASSUME NEW v \in Segments, FirstIndex[v] <= i, i < FirstIndex[v] + Count(v)
      PROVE  v = s
  <2>1. /\ FirstIndex[v] \in Nat /\ Count(v) \in Nat /\ v \in Nat
        /\ FirstIndex[s] \in Nat /\ Count(s) \in Nat /\ s \in Nat
    BY <1>1, <1>2, <1>6
  <2>2. CASE v < s
    BY <1>6, <1>7, <1>8, <2>1, <2>2, SegmentsInOrder
  <2>3. CASE s < v
    BY <1>6, <1>7, <1>8, <2>1, <2>3, SegmentsInOrder
  <2> QED
    BY <2>1, <2>2, <2>3
<1> QED
  BY <1>6, <1>7, <1>8

\* assignSeedUser finds a local time in the segment.
LEMMA AssignedATime ==
    ASSUME ValidPlan, NEW s \in Segments, LocalTimes(s) # {}, NEW i \in Nat,
           FirstIndex[s] <= i
    PROVE  LET turn == (i - FirstIndex[s]) % Cardinality(LocalTimes(s))
           IN  \E t \in LocalTimes(s) : Cardinality({u \in LocalTimes(s) : u < t}) = turn
<1>1. LocalTimes(s) \in SUBSET Int /\ IsFiniteSet(LocalTimes(s))
  <2>1. CASE s = 1
    BY <2>1, FS_Singleton DEF ValidPlan, LocalTimes
  <2>2. CASE s # 1
    <3>1. OffPeakTimes(Timezone(s)) \in SUBSET LocalTimeGrid
      BY DEF OffPeakTimes
    <3> QED
      BY <2>2, <3>1, FS_Subset DEF ValidPlan, LocalTimes
  <2> QED
    BY <2>1, <2>2
<1>2. Cardinality(LocalTimes(s)) \in Nat \ {0}
  BY <1>1, FS_CardinalityType, FS_EmptySet
<1>3. i - FirstIndex[s] \in Nat
  <2>1. s \in 1..(Len(OtherTimezones) + 3)
    BY PlanTypes
  <2>2. FirstIndex[s] \in Nat
    BY <2>1, FirstIndices
  <2> QED
    BY <2>2
<1>4. (i - FirstIndex[s]) % Cardinality(LocalTimes(s)) \in 0..(Cardinality(LocalTimes(s)) - 1)
  BY <1>2, <1>3, QuotientOf
<1> QED
  BY <1>1, <1>4, RanksAreTaken

\* seed-plan.ts, of which every figure of the load tests is made: whatever the
\* counts, the zones and the grid, as long as every local time that is assigned
\* occurs once, each index below SeedUserCount is in one segment and exactly
\* PeakUserCount reminders are at the peak instant.
THEOREM PeakAlwaysExact ==
    ASSUME ValidPlan, AssignedTimesOccurOnce
    PROVE  PeakIsExact
<1> DEFINE Has(s, i) == FirstIndex[s] <= i /\ i < FirstIndex[s] + Count(s)
<1>1. /\ FirstIndex[Len(OtherTimezones) + 3] = SeedUserCount
      /\ FirstIndex[1] = 0 /\ Count(1) = PeakUserCount
      /\ 1 \in Segments /\ PeakUserCount \in Nat /\ SeedUserCount \in Nat
      /\ PeakUserCount <= SeedUserCount
  <2>1. 1 \in Segments /\ PeakUserCount \in Nat /\ SeedUserCount \in Nat /\ PeakUserCount <= SeedUserCount
    BY PlanTypes
  <2> QED
    BY <2>1, FirstIndices DEF Count
<1>2. ASSUME NEW i \in 0..(SeedUserCount - 1)
      PROVE  /\ Cardinality({s \in Segments : Has(s, i)}) = 1
             /\ i \in AtPeak <=> i < PeakUserCount
  <2>1. PICK s \in Segments : {v \in Segments : Has(v, i)} = {s}
    BY OneSegment
  <2>2. /\ Has(s, i)
        /\ \A v \in Segments : Has(v, i) => v = s
    BY <2>1
  <2>3. SegmentOf(i) = s
    BY <2>2 DEF SegmentOf
  <2>4. LocalTimes(s) # {}
    BY DEF AssignedTimesOccurOnce
  <2>5. i \in Nat
    BY <1>1
  <2>6. ReminderTime(i) \in LocalTimes(s)
    BY <2>2, <2>3, <2>4, <2>5, AssignedATime DEF ReminderTime
  <2>7. ScheduledAt(ReminderTime(i), Timezone(s)) = PeakInstant <=> s = 1
    BY <2>6, PeakIsThePlans DEF PeakIsItsSegments
  <2>8. Has(1, i) <=> i < PeakUserCount
    BY <1>1, <2>5
  <2>9. s = 1 <=> i < PeakUserCount
    BY <1>1, <2>2, <2>8
  <2>10. i \in AtPeak <=> i < PeakUserCount
    BY <2>3, <2>7, <2>9 DEF AtPeak
  <2>11. Cardinality({v \in Segments : Has(v, i)}) = 1
    BY <2>1, FS_Singleton
  <2> QED
    BY <2>10, <2>11
<1>3. AtPeak = 0..(PeakUserCount - 1)
  <2>1. AtPeak \subseteq 0..(SeedUserCount - 1)
    BY DEF AtPeak
  <2>2. \A i \in 0..(SeedUserCount - 1) : i \in AtPeak <=> i < PeakUserCount
    BY <1>2
  <2>3. \A i \in 0..(PeakUserCount - 1) : i \in 0..(SeedUserCount - 1) /\ i < PeakUserCount
    BY <1>1
  <2>4. \A i \in 0..(SeedUserCount - 1) : i < PeakUserCount => i \in 0..(PeakUserCount - 1)
    BY <1>1
  <2> QED
    BY <2>1, <2>2, <2>3, <2>4
<1>4. Cardinality(AtPeak) = PeakUserCount
  BY <1>1, <1>3, FS_Interval
<1> QED
  BY <1>1, <1>2, <1>4 DEF PeakIsExact

-----------------------------------------------------------------------------
(* ReminderDays.                                                           *)

\* One reminder for a user's local day, and the cards it brings are the day's.
OnePerDay == \A r, q \in rows : r.user = q.user /\ r.date = q.date => r = q

CardsAreTheDays == \A r \in rows : r.state = "sent" => r.cards = r.date

\* EachDayOnce alone is not inductive: a reminder that is not sent yet must
\* bring the cards of its own date when it is.
IInv == TypeOK /\ FallsOnItsDay /\ OnePerDay /\ CardsAreTheDays

-----------------------------------------------------------------------------
LEMMA SettingTypes ==
    ASSUME NEW s \in Settings
    PROVE  /\ s.time \in 0..(DayLength - 1) /\ s.time \in Int
           /\ IsZone(s.zone)
           /\ s.zone \in {q.zone : q \in Settings}
BY SettingsAssumption, DayLengthAssumption DEF ValidSettings, Timezones, IsZone

\* Whatever form a zone has, the statement converts by that zone.
LEMMA ConvertedByItself ==
    ASSUME NEW s \in Settings
    PROVE  ConvertedBy(s.zone) = s.zone
BY NothingAssumption DEF ConvertedBy, UtcOffset, NamedTimezone

LEMMA WallClocks ==
    ASSUME NEW i \in Int, NEW z, IsZone(z), NEW d \in Int, NEW t \in Int
    PROVE  LocalDate(i, z) \in Int /\ WallOf(d, t) \in Int
BY DayLengthAssumption DEF LocalDate, Wall, OffsetMs, WallOf, IsZone

\* What the statement would insert for a user has the type of a row and falls
\* on its day.
LEMMA RowForType ==
    ASSUME TypeOK, NEW u \in Users, NEW now \in Int
    PROVE  LET new == RowFor(u, now)
           IN  /\ new \in Rows
               /\ new.user = u /\ new.state = "pending" /\ new.setting = setting[u]
               /\ Wall(new.at, new.setting.zone) =
                     WallOf(new.date, new.setting.time) +
                        (IF Occurs(WallOf(new.date, new.setting.time), new.setting.zone) THEN 0
                         ELSE new.setting.zone.after - new.setting.zone.before)
<1> DEFINE zone == setting[u].zone
           date == LocalDate(now, zone)
           w == WallOf(date, setting[u].time)
<1>1. setting[u] \in Settings
  BY DEF TypeOK
<1>2. ConvertedBy(zone) = zone
  BY <1>1, ConvertedByItself
<1>3. IsZone(zone) /\ setting[u].time \in Int /\ zone \in {q.zone : q \in Settings}
  BY <1>1, SettingTypes
<1>4. date \in Int /\ w \in Int
  BY <1>3, WallClocks
<1>5. AtTimeZone(w, zone) \in Int
  BY <1>3, <1>4, ConversionsType
<1>6. Wall(AtTimeZone(w, zone), zone) =
         w + (IF Occurs(w, zone) THEN 0 ELSE zone.after - zone.before)
  BY <1>3, <1>4, ConversionsRead
<1>7. RowFor(u, now) =
         [user |-> u, date |-> date, at |-> AtTimeZone(w, zone), zone |-> zone,
          state |-> "pending", setting |-> setting[u], cards |-> Nothing]
  BY <1>2 DEF RowFor
<1> HIDE DEF date, w
<1>8. RowFor(u, now) \in Rows
  BY <1>1, <1>3, <1>4, <1>5, <1>7 DEF Rows
<1> QED
  BY <1>6, <1>7, <1>8 DEF w

LEMMA InitInv == Init => IInv
BY BoundsAssumption DEF Init, IInv, TypeOK, Idle, FallsOnItsDay, OnePerDay, CardsAreTheDays

\* A step that leaves rows alone has the types to preserve and nothing else.
LEMMA SameRows ==
    ASSUME IInv, TypeOK', UNCHANGED rows
    PROVE  IInv'
BY DEF IInv, FallsOnItsDay, OnePerDay, CardsAreTheDays

LEMMA MaterializeInv ==
    ASSUME IInv, NEW s \in Schedulers, MaterializeOrdinary(s)
    PROVE  IInv'
<1> DEFINE now == tick[s].now
<1>1. now \in Int /\ TypeOK
  BY DEF IInv, TypeOK
<1>2. CASE UNCHANGED rows
  <2>1. TypeOK'
    BY <1>1, <1>2, BoundsAssumption DEF MaterializeOrdinary, TypeOK, Idle
  <2> QED
    BY <1>2, <2>1, SameRows
<1>3. CASE rows' = rows \cup Inserted(now) /\ tick' = [tick EXCEPT ![s].stage = "selecting"]
  <2>1. \A r \in Inserted(now) : \E u \in Users : r = RowFor(u, now)
    BY DEF Inserted
  <2>2. \A r \in Inserted(now), q \in rows : ~(q.user = r.user /\ q.date = r.date)
    BY DEF Inserted, Conflicts
  <2>3. TypeOK'
    <3>1. rows' \subseteq Rows
      BY <1>1, <1>3, <2>1, RowForType DEF TypeOK
    <3> QED
      BY <1>1, <1>3, <3>1 DEF MaterializeOrdinary, TypeOK
  <2>4. FallsOnItsDay'
    <3> SUFFICES ASSUME NEW r \in rows'
                 PROVE  Wall(r.at, r.setting.zone) = WallOf(r.date, r.setting.time) +
                           (IF Occurs(WallOf(r.date, r.setting.time), r.setting.zone) THEN 0
                            ELSE r.setting.zone.after - r.setting.zone.before)
      BY DEF FallsOnItsDay
    <3>1. CASE r \in rows
      BY <3>1 DEF IInv, FallsOnItsDay
    <3>2. CASE r \in Inserted(now)
      BY <1>1, <2>1, <3>2, RowForType
    <3> QED
      BY <1>3, <3>1, <3>2
  <2>5. OnePerDay'
    <3> SUFFICES ASSUME NEW r \in rows', NEW q \in rows', r.user = q.user, r.date = q.date
                 PROVE  r = q
      BY DEF OnePerDay
    <3>1. r \in rows /\ q \in rows => r = q
      BY DEF IInv, OnePerDay
    <3>2. r \in Inserted(now) /\ q \in Inserted(now) => r = q
      BY <1>1, <2>1, RowForType
    <3> QED
      BY <1>3, <2>2, <3>1, <3>2
  <2>6. CardsAreTheDays'
    BY <1>1, <1>3, <2>1, RowForType DEF IInv, CardsAreTheDays
  <2> QED
    BY <2>3, <2>4, <2>5, <2>6 DEF IInv
<1> QED
  BY <1>2, <1>3 DEF MaterializeOrdinary

\* Rows that change in their state and their cards only, one for one.
LEMMA RowsKeepTheirDays ==
    ASSUME IInv, TypeOK',
           \A n \in rows' : \E r \in rows :
              /\ n.user = r.user /\ n.date = r.date /\ n.at = r.at /\ n.setting = r.setting
              /\ n.state = "sent" => n.cards = n.date,
           \A m, n \in rows' : m.user = n.user /\ m.date = n.date => m = n
    PROVE  IInv'
<1>1. FallsOnItsDay'
  BY DEF IInv, FallsOnItsDay
<1>2. OnePerDay' /\ CardsAreTheDays'
  BY DEF OnePerDay, CardsAreTheDays
<1> QED
  BY <1>1, <1>2 DEF IInv

LEMMA EnqueueInv ==
    ASSUME IInv, NEW s \in Schedulers, Enqueue(s)
    PROVE  IInv'
<1> DEFINE F(r) == IF r.state = "pending" /\ <<r.user, r.date>> \in tick[s].due
                   THEN [r EXCEPT !.state = "queued"] ELSE r
<1>1. rows' = {F(r) : r \in rows}
  BY DEF Enqueue
<1>2. \A r \in rows : /\ F(r) \in Rows
                      /\ F(r).user = r.user /\ F(r).date = r.date /\ F(r).at = r.at
                      /\ F(r).setting = r.setting
                      /\ F(r).state = "sent" => F(r).cards = r.date
  BY DEF IInv, TypeOK, Rows, CardsAreTheDays
<1> HIDE DEF F
<1>3. TypeOK'
  BY <1>1, <1>2, BoundsAssumption DEF IInv, TypeOK, Enqueue, Idle
<1>4. \A n \in rows' : \E r \in rows :
         /\ n.user = r.user /\ n.date = r.date /\ n.at = r.at /\ n.setting = r.setting
         /\ n.state = "sent" => n.cards = n.date
  BY <1>1, <1>2
<1>5. \A m, n \in rows' : m.user = n.user /\ m.date = n.date => m = n
  BY <1>1, <1>2 DEF IInv, OnePerDay
<1> QED
  BY <1>3, <1>4, <1>5, RowsKeepTheirDays

LEMMA SendInv ==
    ASSUME IInv, NEW r \in rows, Send(r)
    PROVE  IInv'
<1> DEFINE n == [r EXCEPT !.state = "sent", !.cards = CardsDate(r)]
<1>1. rows' = (rows \ {r}) \cup {n}
  BY DEF Send
<1>2. /\ n \in Rows
      /\ n.user = r.user /\ n.date = r.date /\ n.at = r.at /\ n.setting = r.setting
      /\ n.cards = n.date
  BY DEF IInv, TypeOK, Rows, CardsDate
<1> HIDE DEF n
<1>3. TypeOK'
  BY <1>1, <1>2 DEF IInv, TypeOK, Send
<1>4. \A m \in rows' : \E q \in rows :
         /\ m.user = q.user /\ m.date = q.date /\ m.at = q.at /\ m.setting = q.setting
         /\ m.state = "sent" => m.cards = m.date
  BY <1>1, <1>2 DEF IInv, CardsAreTheDays
<1>5. \A m, q \in rows' : m.user = q.user /\ m.date = q.date => m = q
  BY <1>1, <1>2 DEF IInv, OnePerDay
<1> QED
  BY <1>3, <1>4, <1>5, RowsKeepTheirDays

LEMMA StepInv == IInv /\ [Next]_vars => IInv'
<1> SUFFICES ASSUME IInv, [Next]_vars
             PROVE  IInv'
  OBVIOUS
<1>0. TypeOK
  BY DEF IInv
<1>1. CASE TimePasses
  <2>1. TypeOK' /\ UNCHANGED rows
    BY <1>0, <1>1 DEF TimePasses, TypeOK
  <2> QED
    BY <2>1, SameRows
<1>2. ASSUME NEW u \in Users, NEW choice \in Settings, PutReminder(u, choice)
      PROVE  IInv'
  <2>1. TypeOK' /\ UNCHANGED rows
    BY <1>0, <1>2 DEF PutReminder, TypeOK
  <2> QED
    BY <2>1, SameRows
<1>3. ASSUME NEW s \in Schedulers, TickReadsClock(s) \/ DueReminderIds(s) \/ TickFails(s)
      PROVE  IInv'
  <2>1. CASE TickReadsClock(s)
    <3>1. TypeOK' /\ UNCHANGED rows
      BY <1>0, <2>1 DEF TickReadsClock, TypeOK
    <3> QED
      BY <3>1, SameRows
  <2>2. CASE DueReminderIds(s)
    <3> DEFINE due == {<<r.user, r.date>> : r \in {q \in rows : Due(q, tick[s].now)}}
    <3>1. due \in SUBSET (Users \X Int)
      BY <1>0 DEF TypeOK, Rows
    <3>2. tick' = [tick EXCEPT ![s] = IF due = {} THEN Idle
                                      ELSE [@ EXCEPT !.stage = "enqueueing", !.due = due]]
          /\ UNCHANGED <<clock, setting, rows, puts, faults>>
      BY <2>2 DEF DueReminderIds
    <3> HIDE DEF due
    <3>3. TypeOK'
      BY <1>0, <3>1, <3>2, BoundsAssumption DEF TypeOK, Idle
    <3> QED
      BY <3>2, <3>3, SameRows
  <2>3. CASE TickFails(s)
    <3>1. TypeOK' /\ UNCHANGED rows
      BY <1>0, <2>3, BoundsAssumption DEF TickFails, TypeOK, Idle
    <3> QED
      BY <3>1, SameRows
  <2> QED
    BY <1>3, <2>1, <2>2, <2>3
<1>4. ASSUME NEW s \in Schedulers, MaterializeOrdinary(s)
      PROVE  IInv'
  BY <1>4, MaterializeInv
<1>5. ASSUME NEW s \in Schedulers, Enqueue(s)
      PROVE  IInv'
  BY <1>5, EnqueueInv
<1>6. ASSUME NEW r \in rows, Send(r)
      PROVE  IInv'
  BY <1>6, SendInv
<1>7. CASE UNCHANGED vars
  <2>1. TypeOK' /\ UNCHANGED rows
    BY <1>0, <1>7 DEF vars, TypeOK
  <2> QED
    BY <2>1, SameRows
<1> QED
  BY <1>1, <1>2, <1>3, <1>4, <1>5, <1>6, <1>7 DEF Next, TickStep

LEMMA Invariance == Spec => []IInv
<1> QED
  BY InitInv, StepInv, PTL DEF Spec

-----------------------------------------------------------------------------
\* Every variable of the daily reminders keeps the type of its columns.
THEOREM TypeCorrect == Spec => []TypeOK
<1>1. IInv => TypeOK
  BY DEF IInv
<1> QED
  BY <1>1, Invariance, PTL

\* For every zone, time and number of schedulers, materializeOrdinary puts a
\* reminder where the clocks of its zone show its local time, or later by what
\* the zone skips.
THEOREM AlwaysOnItsDay == Spec => []FallsOnItsDay
<1>1. IInv => FallsOnItsDay
  BY DEF IInv
<1> QED
  BY <1>1, Invariance, PTL

\* Whatever the schedulers, the clock and the users do, a user gets one
\* reminder and one set of cards for a local day.
THEOREM AlwaysOnceADay == Spec => []EachDayOnce
<1>1. IInv => EachDayOnce
  BY DEF IInv, EachDayOnce, OnePerDay, CardsAreTheDays
<1> QED
  BY <1>1, Invariance, PTL
=============================================================================
