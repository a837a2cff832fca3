SPECIFICATION ReviewSpec
CONSTANTS
    Leagues <- MCLeagues
    Shared = "any"
    Day = 1440
    t1 = t1
    t2 = t2
    Tabs = {t1, t2}
    NoTab = NoTab
    NoList = NoList
    Reviewed <- MCReviewed
    Used <- MCUsed
    Calls <- MCCalls
    Leaving <- MCLeaving
INVARIANTS
    RoundRobinComplete
    GamesSound
    NothingBetterLeft
    SharedSpread
    ShownIsWhole
    RollbackRestores
CHECK_DEADLOCK FALSE
SYMMETRY MCAlike
