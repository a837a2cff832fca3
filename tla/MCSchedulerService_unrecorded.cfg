\* A run that gets as far as a progress report leaves no record.
SPECIFICATION ServiceSpec
CONSTANTS
    Teams <- MCTeams
    Slots <- MCSlots
    Capacity <- MCCapacity
    Coaches <- MCCoaches
    Overlap <- MCOverlap
    Unavailable <- MCUnavailable
    Locked <- MCLocked
    Fitness <- Score
    MaxIterations = 5
    StallLimit = 2
    MaxRestarts = 1
    YieldEvery = 3
INVARIANT EveryRunRecorded
CHECK_DEADLOCK FALSE
