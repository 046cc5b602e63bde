SPECIFICATION FairSpec
CONSTANTS
    DayLength = 4
    Users = {u1}
    Settings <- Choices
    Schedulers = {s1, s2}
    Nothing = Nothing
    Start = 4
    Horizon = 10
    MaxPuts = 1
    MaxFaults = 1
INVARIANTS FallsOnItsDay EachDayOnce
PROPERTIES TodayIsKept
