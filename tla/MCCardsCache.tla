---------------------------- MODULE MCCardsCache ----------------------------
(* CardsCache for TLC: one entry less than there are dates, so that the    *)
(* LRU evicts, and a name for a load more than single-flight ever uses.    *)
(* The pick of the day is evaluated over small tables as an assumption.    *)
EXTENDS CardsCache, CardPick, TLC

CONSTANTS c1, c2, d1, d2, l1, l2, l3

\* Nothing tells two readers, two dates or two names of loads apart.
Symmetry == Permutations({c1, c2}) \cup Permutations({d1, d2}) \cup Permutations({l1, l2, l3})

\* Small tables, with dates on both sides of 1970; an empty one has no cards.
ASSUME PickChecked ==
    \A dayNumber \in -8..8 :
        /\ PositionsForDay(dayNumber, 0) = <<>>
        /\ \A count \in 1..8 :
              /\ PickIsASet(dayNumber, count)
              /\ PickGoesOn(dayNumber, count)
              /\ EveryCardComes(dayNumber, count)
=============================================================================
