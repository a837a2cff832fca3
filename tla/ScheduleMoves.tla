--------------------------- MODULE ScheduleMoves ---------------------------
(***************************************************************************)
(* What both practice schedulers - schedulePractices and its hill climber  *)
(* in packages/core, and the auto-scheduler Edge Function - share: when a  *)
(* team may be put in a slot, and the moves a search tries.  A schedule is *)
(* a function from the teams placed to their slots.                        *)
(***************************************************************************)
EXTENDS Integers, FiniteSets

CONSTANTS
    Teams,
    Slots,
    Capacity,       \* of a slot
    Coaches,        \* ids of the coaches of a team
    Overlap,        \* pairs of slots whose times overlap
    Unavailable,    \* slots a coach of the team cannot make
    Locked          \* slots of the teams that must not move

ASSUME ScheduleAssumption ==
    /\ IsFiniteSet(Teams)
    /\ Capacity \in [Slots -> Nat]
    /\ DOMAIN Coaches = Teams
    /\ Unavailable \in [Teams -> SUBSET Slots]
    /\ \A s1, s2 \in Slots : <<s1, s2>> \in Overlap => <<s2, s1>> \in Overlap
    /\ DOMAIN Locked \subseteq Teams
    /\ Locked \in [DOMAIN Locked -> Slots]

LockedTeams == DOMAIN Locked

Schedules == UNION {[D -> Slots] : D \in SUBSET Teams}

Used(a, s) == {t \in DOMAIN a : a[t] = s}

ShareCoach(t, u) == Coaches[t] \cap Coaches[u] # {}

\* The greedy constructions take the teams of busy coaches first.
BusiestCoachCount(t) ==
    LET count(c) == Cardinality({u \in Teams : c \in Coaches[u]})
    IN  IF Coaches[t] = {} THEN 0
        ELSE CHOOSE n \in {count(c) : c \in Coaches[t]} :
                 \A c \in Coaches[t] : count(c) <= n

\* Mutant: one coach may be wanted in two places.
FitsAnyCoach(a, t, s) ==
    /\ Cardinality(Used(a, s)) < Capacity[s]
    /\ s \notin Unavailable[t]

\* checkHardConstraints: room, availability and coaches, in that order
Fits(a, t, s) ==
    /\ Cardinality(Used(a, s)) < Capacity[s]
    /\ s \notin Unavailable[t]
    /\ \A u \in DOMAIN a : ShareCoach(t, u) => <<s, a[u]>> \notin Overlap

Put(a, t, s) == [u \in DOMAIN a \cup {t} |-> IF u = t THEN s ELSE a[u]]

Without(a, T) == [u \in DOMAIN a \ T |-> a[u]]

\* add: {} if the team does not fit
Added(A, t, s) == {Put(a, t, s) : a \in {b \in A : Fits(b, t, s)}}

Movable(a) == DOMAIN a \ LockedTeams

\* Mutant: two teams swap without a look at the second one's slot.
SwapsTrusting(a) ==
    UNION {{Put(b, p[2], a[p[1]]) : b \in Added({Without(a, {p[1], p[2]})}, p[1], a[p[2]])} :
               p \in {q \in Movable(a) \X Movable(a) : a[q[1]] # a[q[2]]}}

Swaps(a) ==
    UNION {Added(Added({Without(a, {p[1], p[2]})}, p[1], a[p[2]]), p[2], a[p[1]]) :
               p \in {q \in Movable(a) \X Movable(a) : a[q[1]] # a[q[2]]}}

Chains(a) ==
    UNION {Added(Added(Added({Without(a, {p[1], p[2], p[3]})},
                             p[1], a[p[2]]), p[2], a[p[3]]), p[3], a[p[1]]) :
               p \in {q \in Movable(a) \X Movable(a) \X Movable(a) :
                          a[q[1]] # a[q[2]] /\ a[q[2]] # a[q[3]] /\ a[q[1]] # a[q[3]]}}

\* Only unplaced teams are relocated, to a slot drawn from all slots.
Relocations(a) ==
    UNION {Added({a}, p[1], p[2]) : p \in (Teams \ DOMAIN a) \X Slots}

\* tryMutate, whatever is drawn; the draw may also come to nothing.
Moves(a) == Swaps(a) \cup Chains(a) \cup Relocations(a)

-----------------------------------------------------------------------------
\* A schedule keeps the locked teams in place, puts nobody where a coach
\* cannot be, and neither overfills a slot nor has a coach at two practices at
\* once - unless the locked assignments alone do, which are never checked.
Kept(a)      == \A t \in LockedTeams : t \in DOMAIN a /\ a[t] = Locked[t]
Available(a) == \A t \in Movable(a) : a[t] \notin Unavailable[t]
Roomy(a)     == \A s \in Slots : \/ Cardinality(Used(a, s)) <= Capacity[s]
                                 \/ Used(a, s) \subseteq LockedTeams
Clear(a)     == \A t, u \in DOMAIN a :
                    t # u /\ ShareCoach(t, u) /\ <<a[t], a[u]>> \in Overlap
                        => {t, u} \subseteq LockedTeams

Sound(a) == a \in Schedules /\ Kept(a) /\ Available(a) /\ Roomy(a) /\ Clear(a)
=============================================================================
