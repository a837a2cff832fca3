SPECIFICATION Spec
CONSTANTS
    s1 = s1
    s2 = s2
    s3 = s3
    ann = ann
    bob = bob
    i1 = i1
    i2 = i2
    Sessions = {s1, s2}
    Users = {ann, bob}
    Invites = {i1}
    Roles = {"admin", "coach"}
    Requests <- MemberCalls
    NoCall = NoCall
    Free = Free
SYMMETRY Symmetry
INVARIANT SomeAdminRemains
