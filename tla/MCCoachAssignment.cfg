\* Two sessions, one coach, two teams, any calls.
SPECIFICATION FairSpec
CONSTANTS
    c1 = c1
    c2 = c2
    t1 = t1
    t2 = t2
    Sessions = {s1, s2}
    Coaches = {c1}
    Teams = {t1, t2}
    Multi = {}
    NoCoach = NoCoach
    Free = Free
    Requests <- EveryCall
INVARIANTS HeadsSound UncontestedSound
PROPERTY CallsEnd
