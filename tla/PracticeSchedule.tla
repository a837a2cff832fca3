-------------------------- MODULE PracticeSchedule --------------------------
(***************************************************************************)
(* packages/core/src/practiceScheduling.js and autoScheduler.js: teams are *)
(* placed one by one, those left over by moving one team out of a full     *)
(* slot, and a hill climber with restarts then looks for something better. *)
(* Which of the viable slots ranks first, and how fit a schedule is, are   *)
(* data: any viable slot may rank first, Fitness is a parameter.           *)
(***************************************************************************)
EXTENDS HillClimb, Sequences

CONSTANTS
    Early,          \* slots that start before the school day ends
    Base,           \* base slot of a slot; its day is kept count of alike
    Division        \* of a team

\* SlotSchema: a slot ends after it starts, so it overlaps itself.
ASSUME PracticeAssumption ==
    /\ \A s \in Slots : <<s, s>> \in Overlap
    /\ Early \subseteq Slots
    /\ DOMAIN Base = Slots /\ DOMAIN Division = Teams

\* Locked assignments without room or before the end of the school day throw.
ASSUME LockedFit ==
    \A t \in LockedTeams :
        /\ Locked[t] \notin Early
        /\ Cardinality(Used(Locked, Locked[t])) <= Capacity[Locked[t]]

VARIABLES
    phase,      \* "greedy", "resolve", "search" or "done"
    queue,      \* teams the greedy loop has yet to look at
    placed,     \* assignments
    unplaced,   \* unassigned, in the order the teams were given up
    unresolved, \* those of them that could not be helped
    room,       \* slotCapacityMap
    load,       \* divisionLoadByBaseSlot
    busy        \* coachAssignments: teams and slots of a coach

build    == <<placed, room, load, busy>>
left     == <<queue, unplaced, unresolved>>
practiceVars == <<phase, left, build, search>>

CoachIds == UNION {Coaches[t] : t \in Teams}
LoadKeys == {<<Base[s], Division[t]>> : s \in Slots, t \in Teams}

\* schedulePractices looks at no slot before the end of the school day.
Effective == Slots \ Early

-----------------------------------------------------------------------------
(* assignTeamToSlot and removeAssignmentForTeam keep four maps in step; b   *)
(* is a record of them, so that a step can take out, try and put back.      *)

Built == [placed |-> placed, room |-> room, load |-> load, busy |-> busy]

Assign(b, t, s) ==
    [placed |-> Put(b.placed, t, s),
     room   |-> [b.room EXCEPT ![s] = @ - 1],
     load   |-> [b.load EXCEPT ![<<Base[s], Division[t]>>] = @ + 1],
     busy   |-> [c \in CoachIds |-> IF c \in Coaches[t] THEN b.busy[c] \cup {<<t, s>>}
                                    ELSE b.busy[c]]]

\* Mutant: the load of the division is not taken back.
RemoveKeepingLoad(b, t) ==
    LET s == b.placed[t]
    IN  [placed |-> Without(b.placed, {t}),
         room   |-> [b.room EXCEPT ![s] = @ + 1],
         load   |-> b.load,
         busy   |-> [c \in CoachIds |-> b.busy[c] \ {<<t, s>>}]]

Remove(b, t) ==
    LET s == b.placed[t]
    IN  [placed |-> Without(b.placed, {t}),
         room   |-> [b.room EXCEPT ![s] = @ + 1],
         load   |-> [b.load EXCEPT ![<<Base[s], Division[t]>>] = @ - 1],
         busy   |-> [c \in CoachIds |-> b.busy[c] \ {<<t, s>>}]]

\* evaluateSlotsForTeam: what the maps say, full slots included or not
Viable(b, t, full) ==
    {s \in Effective :
        /\ full \/ b.room[s] > 0
        /\ s \notin Unavailable[t]
        /\ \A c \in Coaches[t] : \A e \in b.busy[c] : <<s, e[2]>> \notin Overlap}

Becomes(b) ==
    /\ placed' = b.placed
    /\ room' = b.room
    /\ load' = b.load
    /\ busy' = b.busy

\* What a recount of the placed teams would give
Recount(a) ==
    [placed |-> a,
     room   |-> [s \in Slots |-> Capacity[s] - Cardinality(Used(a, s))],
     load   |-> [k \in LoadKeys |->
                   Cardinality({t \in DOMAIN a : <<Base[a[t]], Division[t]>> = k})],
     busy   |-> [c \in CoachIds |-> {<<t, a[t]>> : t \in {u \in DOMAIN a : c \in Coaches[u]}}]]

-----------------------------------------------------------------------------
(* The greedy construction: teams whose coach has most teams come first.    *)

PlaceNext ==
    /\ phase = "greedy"
    /\ \E t \in queue :
          /\ \A u \in queue : BusiestCoachCount(u) <= BusiestCoachCount(t)
          /\ queue' = queue \ {t}
          /\ \/ /\ \E s \in Viable(Built, t, FALSE) : Becomes(Assign(Built, t, s))
                /\ UNCHANGED unplaced
             \/ /\ Viable(Built, t, FALSE) = {}
                /\ unplaced' = Append(unplaced, t)
                /\ UNCHANGED build
    /\ UNCHANGED <<phase, unresolved, search>>

GreedyDone ==
    /\ phase = "greedy" /\ queue = {}
    /\ phase' = "resolve"
    /\ UNCHANGED <<left, build, search>>

-----------------------------------------------------------------------------
(* attemptResolveUnassignedTeams: a slot with room, if there is one now, or  *)
(* a full slot one team of which, not locked, can go somewhere else.        *)

\* Outcomes of tryResolveTeamWithSwap; the slots that do not work leave b as
\* it was, the team moved out of them being put back.
Helped(b, t) ==
    {Assign(b, t, s) : s \in Viable(b, t, FALSE)}
    \cup UNION {{Assign(Assign(Remove(b, p[2]), p[2], alt), t, p[1]) :
                    alt \in Viable(Remove(b, p[2]), p[2], FALSE) \ {p[1]}} :
                p \in {q \in Viable(b, t, TRUE) \X (DOMAIN b.placed \ LockedTeams) :
                          b.placed[q[2]] = q[1] /\ b.room[q[1]] <= 0}}

ResolveNext ==
    /\ phase = "resolve" /\ unplaced # <<>>
    /\ unplaced' = Tail(unplaced)
    /\ \/ /\ \E b \in Helped(Built, Head(unplaced)) : Becomes(b)
          /\ UNCHANGED unresolved
       \/ /\ Helped(Built, Head(unplaced)) = {}
          /\ unresolved' = unresolved \cup {Head(unplaced)}
          /\ UNCHANGED build
    /\ UNCHANGED <<phase, queue, search>>

-----------------------------------------------------------------------------
(* optimizePracticeSchedule climbs from the schedule just built.             *)

StartSearch ==
    /\ phase = "resolve" /\ unplaced = <<>>
    /\ phase' = "search"
    /\ ClimbFrom(placed)
    /\ UNCHANGED <<left, build>>

Iterate == phase = "search" /\ Climb /\ UNCHANGED <<phase, left, build>>

\* At the last iteration, or at any other when the time budget is spent
Finish ==
    /\ phase = "search"
    /\ phase' = "done"
    /\ UNCHANGED <<left, build, search>>

Init ==
    /\ phase = "greedy"
    /\ queue = Teams \ LockedTeams
    /\ placed = Locked /\ room = Recount(Locked).room
    /\ load = Recount(Locked).load /\ busy = Recount(Locked).busy
    /\ unplaced = <<>> /\ unresolved = {}
    /\ ClimbInit

Next ==
    \/ PlaceNext \/ GreedyDone
    \/ ResolveNext \/ StartSearch
    \/ Iterate \/ Finish

Spec == Init /\ [][Next]_practiceVars

-----------------------------------------------------------------------------
PracticeTypeOK ==
    /\ phase \in {"greedy", "resolve", "search", "done"}
    /\ queue \subseteq Teams /\ unplaced \in Seq(Teams) /\ unresolved \subseteq Teams
    /\ placed \in Schedules
    /\ room \in [Slots -> Int] /\ load \in [LoadKeys -> Int]
    /\ busy \in [CoachIds -> SUBSET (Teams \X Slots)]
    /\ ClimbTypeOK

\* The maps the placement decides by never drift from the assignments they
\* summarise, however often a team is taken out, tried elsewhere and put back.
CountersAgree == Built = Recount(placed)

\* No schedule that is built, held or returned has two practices of a coach at
\* once, an overfull slot, a team where its coach cannot be, or a locked team
\* anywhere else: not the swap made to help a team, which checks the team it
\* moves and the team it places at different times, and not a move of the search.
SchedulesSound ==
    /\ Sound(placed)
    /\ phase \in {"search", "done"} => Sound(seed) /\ Sound(current) /\ Sound(best)

\* Each team is in exactly one place: waiting, placed, given up, or past help.
EachTeamOnce ==
    /\ DOMAIN placed \cup queue \cup {unplaced[i] : i \in DOMAIN unplaced} \cup unresolved
           = Teams
    /\ Cardinality(DOMAIN placed) + Cardinality(queue) + Len(unplaced)
           + Cardinality(unresolved) = Cardinality(Teams)

\* Well typed, with each team in one place and maps that say where.
PracticeInv == PracticeTypeOK /\ CountersAgree /\ EachTeamOnce

\* What the optimizer returns is an offer of one sound schedule, improved only
\* for the better, whatever the search gave up on its way.
Offers == INSTANCE ScheduleOffer WITH
    offer <- IF phase \in {"search", "done"} THEN {best} ELSE {}

ImplementsScheduleOffer == Offers!OfferSpec

=============================================================================
