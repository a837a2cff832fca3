\* The greedy construction, the help for teams left over, and the search.
SPECIFICATION Spec
CONSTANTS
    Teams <- MCTeams
    Slots <- MCSlots
    Capacity <- MCCapacity
    Coaches <- MCCoaches
    Overlap <- MCOverlap
    Unavailable <- MCUnavailable
    Locked <- MCLocked
    Early <- MCEarly
    Base <- MCBase
    Division <- MCDivision
    Fitness <- MCFitness
    MaxIterations = 5
    StallLimit = 2
    MaxRestarts = 1
INVARIANTS
    SchedulesSound
    PracticeInv
PROPERTY ImplementsScheduleOffer
CHECK_DEADLOCK FALSE
