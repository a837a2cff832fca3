SPECIFICATION Spec
CONSTANTS
    p1 = p1  p2 = p2  p3 = p3
    c1 = c1  c2 = c2
    Players = {p1, p2, p3}
    Coaches = {c1, c2}
    NoOne = NoOne
    Rosters <- SomeRosters
    Registrations <- SomeRegistrations
    Configs <- SomeConfigs
    Policies <- SomePolicies
    MaxChanges = 2
INVARIANTS
    GenerationSound
    OverflowIsReal
    OneAnchor
PROPERTY RunOnlyAdds
CHECK_DEADLOCK FALSE
