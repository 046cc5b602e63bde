------------------------------ MODULE CardPick ------------------------------
(***************************************************************************)
(* The pick of the day: which positions of the expressions table a local   *)
(* date reads, from its day number and the highest position alone.         *)
(***************************************************************************)
EXTENDS Integers

CONSTANT CardsPerDay    \* CARDS_PER_DAY

ASSUME CardsPerDayAssumption == CardsPerDay \in Nat \ {0}

\* The remainder of JavaScript, which has the sign of a.
Remainder(a, n) == IF a >= 0 THEN a % n ELSE -((-a) % n)

Cards(count) == IF count < CardsPerDay THEN count ELSE CardsPerDay

\* positionsForDay: consecutive positions, round the table, in pick order.
PositionsForDay(dayNumber, count) ==
    [i \in 1..Cards(count) |->
        LET first == dayNumber * CardsPerDay
        IN  Remainder(Remainder(first + i - 1, count) + count, count) + 1]

-----------------------------------------------------------------------------
\* Every card of a day is one the table has, and no two are the same.
PickIsASet(dayNumber, count) ==
    LET pick == PositionsForDay(dayNumber, count)
    IN  \A i, k \in 1..Cards(count) :
            /\ pick[i] \in 1..count
            /\ pick[i] = pick[k] => i = k

\* In a table of a day's cards at least, a day goes on where the day before
\* it stopped, so that days in a row pass over no position, before 1970 too.
PickGoesOn(dayNumber, count) ==
    count >= CardsPerDay =>
        PositionsForDay(dayNumber + 1, count)[1]
            = (PositionsForDay(dayNumber, count)[CardsPerDay] % count) + 1

\* From any day on, every card of the table has its day before the table has
\* been read through once: within as many days as its rows fill.
EveryCardComes(dayNumber, count) ==
    \A position \in 1..count :
        \E days \in 0..((count - 1) \div CardsPerDay) : \E i \in 1..Cards(count) :
            PositionsForDay(dayNumber + days, count)[i] = position
=============================================================================
