\* One request to the auto-scheduler, from the call to the answer.
SPECIFICATION ServiceSpec
CONSTANTS
    Teams <- MCTeams
    Slots <- MCSlots
    Capacity <- MCCapacity
    Coaches <- MCCoaches
    Overlap <- MCOverlap
    Unavailable <- MCUnavailable
    Locked <- MCLocked
    Fitness <- Score
    MaxIterations = 5
    StallLimit = 2
    MaxRestarts = 1
    YieldEvery = 3
INVARIANTS
    SeedIsFinal
    LeftOutFitNowhere
PROPERTY AnswersOffer
CHECK_DEADLOCK FALSE
