--------------------------- MODULE MCReminderDays ---------------------------
(* ReminderDays for TLC: days of four hours, three of them, and zones that *)
(* skip a time, repeat one over midnight, or are written as an alias or as *)
(* an offset.  The conversions, and the seed's plan that is made by them,  *)
(* are evaluated over many more zones as assumptions.                      *)
EXTENDS ReminderDays

Zone(form, before, after, at) == [form |-> form, before |-> before, after |-> after, at |-> at]

Choices ==
    {[time |-> 3, zone |-> Zone("offset", 1, 1, 0)],
     [time |-> 0, zone |-> Zone("link", 0, 1, 8)],
     [time |-> 3, zone |-> Zone("name", 2, 0, 7)]}

Near == [before : -2..2, after : -2..2, at : 2..9]

\* Both conversions against what the clocks of a zone show.
ASSUME ConversionsChecked ==
    \A z \in Near, w \in 4..7 :
        /\ OccursOnce(w, z) => LocalTimeToUtc(w, z) = AtTimeZone(w, z)
        /\ Occurs(w, z) => w \in {Wall(LocalTimeToUtc(w, z), z)} \cap {Wall(AtTimeZone(w, z), z)}
        /\ ~Occurs(w, z) => Wall(AtTimeZone(w, z), z) = w + z.after - z.before

Plan(target, other, time, grid) == INSTANCE SeedPlan
    WITH SeedUserCount <- 11, TargetTimezoneUserCount <- 6, PeakUserCount <- 2,
         TargetTimezone <- target, OtherTimezones <- <<other, target, other>>,
         TargetLocalTime <- time, TargetDate <- 1, LocalTimeGrid <- grid

\* The plan of the seed, with the whole day or half of it as the grid.
ASSUME PlanChecked ==
    \A target \in {z \in Near : z.before = z.after /\ z.at = 2}, other \in Near,
       time \in 0..3, grid \in {0..3, {1, 2}} :
        /\ Plan(target, other, time, grid)!ValidPlan
        /\ Plan(target, other, time, grid)!AssignedTimesOccurOnce =>
              /\ Plan(target, other, time, grid)!PeakIsItsSegments
              /\ Plan(target, other, time, grid)!PeakIsExact
=============================================================================
