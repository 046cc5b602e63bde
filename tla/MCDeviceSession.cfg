SPECIFICATION Spec
CONSTANTS
    Users = {a, b}
    Tokens = {t1, t2}
    Jobs = {j1, j2, j3}
    Known = {a, b}
    None = None
    MaxFaults = 1
SYMMETRY Interchangeable
CHECK_DEADLOCK FALSE
INVARIANTS NoRowLeftBehind LinkUndoesItself ScreensFollowLatest OnlyUnboundedCallsHold
PROPERTIES OnlyAPutReplaces PutsStayInTheLane
