----------------------------- MODULE LocalTime ------------------------------
(***************************************************************************)
(* Local times and instants, as time.ts and PostgreSQL convert them.       *)
(*                                                                         *)
(* An instant is an integer, and so is a wall clock: local date w \div     *)
(* DayLength, local time w % DayLength.  A zone is an offset that changes  *)
(* once, at an instant of its own: forwards it skips wall clocks, back it  *)
(* repeats them, by any amount, over a date line too.  Every conversion    *)
(* the program makes is about one date, and no zone changes twice there.   *)
(***************************************************************************)
EXTENDS Integers

CONSTANT DayLength      \* MS_PER_DAY

ASSUME DayLengthAssumption == DayLength \in Nat \ {0}

IsZone(z) == z.before \in Int /\ z.after \in Int /\ z.at \in Int

\* offsetMs: what is added to an instant to read it as a wall clock.
OffsetMs(i, z) == IF i < z.at THEN z.before ELSE z.after

Wall(i, z) == i + OffsetMs(i, z)

\* utcToLocalTime, localDate.
UtcToLocalTime(i, z) == Wall(i, z) % DayLength
LocalDate(i, z) == Wall(i, z) \div DayLength

\* The wall clock that local time t of local date d is.
WallOf(d, t) == d * DayLength + t

\* localTimeToUtc: the offset in force at the naive instant gives a first
\* guess, the offset in force there the answer.
LocalTimeToUtc(w, z) ==
    LET firstGuess == w - OffsetMs(w, z)
    IN  w - OffsetMs(firstGuess, z)

\* PostgreSQL's timestamp AT TIME ZONE: a wall clock that was skipped is read
\* with the offset before the change, one that was repeated with the one after.
AtTimeZone(w, z) ==
    LET b == w - z.before
        a == w - z.after
    IN  IF a < z.at THEN b ELSE a

\* The instants at which the clocks of z read w.
Readings(w, z) == {i \in {w - z.before, w - z.after} : Wall(i, z) = w}

Occurs(w, z) == Readings(w, z) # {}

OccursOnce(w, z) == \E i \in Readings(w, z) : Readings(w, z) = {i}
=============================================================================
