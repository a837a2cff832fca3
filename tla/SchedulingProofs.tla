-------------------------- MODULE SchedulingProofs --------------------------
(***************************************************************************)
(* Proofs about the practice schedulers, for any teams, slots, coaches,    *)
(* locked assignments and search parameters.  First what Fits, the moves   *)
(* and an iteration of the search promise, whatever schedule the search    *)
(* starts from and however fitness is measured.  Then schedulePractices    *)
(* and optimizePracticeSchedule: the maps the placement decides by are     *)
(* what a recount of the assignments would give, and so every schedule     *)
(* built, held or returned is sound.  Last the Edge Function: the search   *)
(* never leaves the greedy seed, and that leaves out only teams that fit   *)
(* nowhere.  The two schedulers share no state; the first part cites the   *)
(* assumptions of ScheduleMoves and HillClimb, the others those and the    *)
(* assumptions of PracticeSchedule and of SchedulerService.                *)
(***************************************************************************)
EXTENDS PracticeSchedule, SchedulerService, FiniteSetTheorems, TLAPS

\* A schedule is a function from some of the teams to slots.
LEMMA ScheduleFacts ==
    ASSUME NEW a
    PROVE  a \in Schedules
             <=> /\ a = [t \in DOMAIN a |-> a[t]]
                 /\ DOMAIN a \subseteq Teams
                 /\ \A t \in DOMAIN a : a[t] \in Slots
<1>1. ASSUME a \in Schedules
      PROVE  /\ a = [t \in DOMAIN a |-> a[t]]
             /\ DOMAIN a \subseteq Teams
             /\ \A t \in DOMAIN a : a[t] \in Slots
  <2>1. PICK D \in SUBSET Teams : a \in [D -> Slots]
    BY <1>1 DEF Schedules
  <2>. QED  BY <2>1
<1>2. ASSUME a = [t \in DOMAIN a |-> a[t]],
             DOMAIN a \subseteq Teams,
             \A t \in DOMAIN a : a[t] \in Slots
      PROVE  a \in Schedules
  <2>1. a \in [DOMAIN a -> Slots]
    BY <1>2
  <2>. QED  BY <1>2, <2>1 DEF Schedules
<1>. QED  BY <1>1, <1>2

\* Only finitely many teams use a slot.
LEMMA UsedFinite ==
    ASSUME NEW a \in Schedules, NEW s
    PROVE  /\ IsFiniteSet(Used(a, s))
           /\ Cardinality(Used(a, s)) \in Nat
<1>1. Used(a, s) \in SUBSET Teams
  BY ScheduleFacts DEF Used
<1>. QED  BY <1>1, ScheduleAssumption, FS_Subset, FS_CardinalityType

\* Put and Without give schedules again, and who uses a slot after them.
LEMMA PutFacts ==
    ASSUME NEW a \in Schedules, NEW t \in Teams, NEW s \in Slots
    PROVE  /\ Put(a, t, s) \in Schedules
           /\ DOMAIN Put(a, t, s) = DOMAIN a \cup {t}
           /\ Put(a, t, s)[t] = s
           /\ \A u \in DOMAIN a : u # t => Put(a, t, s)[u] = a[u]
  BY ScheduleFacts DEF Put

LEMMA PutUsed ==
    ASSUME NEW a \in Schedules, NEW t \in Teams \ DOMAIN a, NEW s \in Slots, NEW v
    PROVE  Used(Put(a, t, s), v) = IF v = s THEN Used(a, v) \cup {t} ELSE Used(a, v)
<1> DEFINE b == Put(a, t, s)
<1>1. /\ DOMAIN b = DOMAIN a \cup {t} /\ b[t] = s
      /\ \A u \in DOMAIN a : u # t => b[u] = a[u]
  BY PutFacts
<1>. HIDE DEF b
<1>2. Used(b, v) = IF v = s THEN Used(a, v) \cup {t} ELSE Used(a, v)
  BY <1>1 DEF Used
<1>. QED  BY <1>2 DEF b

LEMMA WithoutFacts ==
    ASSUME NEW a \in Schedules, NEW T
    PROVE  /\ Without(a, T) \in Schedules
           /\ DOMAIN Without(a, T) = DOMAIN a \ T
           /\ \A u \in DOMAIN a \ T : Without(a, T)[u] = a[u]
           /\ \A v : Used(Without(a, T), v) = Used(a, v) \ T
<1>1. /\ DOMAIN Without(a, T) = DOMAIN a \ T
      /\ \A u \in DOMAIN a \ T : Without(a, T)[u] = a[u]
  BY DEF Without
<1>2. Without(a, T) \in Schedules
  <2>1. Without(a, T) = [u \in DOMAIN Without(a, T) |-> Without(a, T)[u]]
    BY DEF Without
  <2>. QED  BY <1>1, <2>1, ScheduleFacts
<1>. QED  BY <1>1, <1>2 DEF Used

\* The locked assignments alone are sound: nothing is asked of them.
LEMMA LockedSound == Sound(Locked)
<1>1. Locked \in Schedules
  BY ScheduleAssumption, ScheduleFacts
<1>. QED  BY <1>1 DEF Sound, Kept, Available, Roomy, Clear, Movable, LockedTeams, Used

\* A team that fits and has no place yet can be given the slot.
LEMMA PutSound ==
    ASSUME NEW a, Sound(a), NEW t \in Teams \ DOMAIN a, NEW s \in Slots, Fits(a, t, s)
    PROVE  Sound(Put(a, t, s))
<1> DEFINE b == Put(a, t, s)
<1>0. /\ a \in Schedules /\ Kept(a) /\ t \notin LockedTeams
      /\ DOMAIN a \subseteq Teams
  BY ScheduleFacts DEF Sound, Kept
<1>1. /\ b \in Schedules
      /\ DOMAIN b = DOMAIN a \cup {t} /\ b[t] = s
      /\ \A u \in DOMAIN a : u # t => b[u] = a[u]
  BY PutFacts DEF Sound
<1>2. \A v : Used(b, v) = IF v = s THEN Used(a, v) \cup {t} ELSE Used(a, v)
  BY <1>0, PutUsed
<1>. HIDE DEF b
<1>3. Kept(b)
  BY <1>0, <1>1 DEF Kept
<1>4. Available(b)
  BY <1>0, <1>1 DEF Sound, Available, Movable, Fits
<1>5. Roomy(b)
  <2>1. ASSUME NEW v \in Slots
        PROVE  Cardinality(Used(b, v)) <= Capacity[v] \/ Used(b, v) \subseteq LockedTeams
    <3>1. CASE v = s
      <4>1. Used(b, v) = Used(a, v) \cup {t}
        BY <1>2, <3>1
      <4>2. Cardinality(Used(b, v)) = IF t \in Used(a, v) THEN Cardinality(Used(a, v))
                                      ELSE Cardinality(Used(a, v)) + 1
        BY <1>0, <4>1, UsedFinite, FS_AddElement
      <4>3. Capacity[v] \in Nat /\ Cardinality(Used(a, v)) < Capacity[v]
        BY <3>1, ScheduleAssumption DEF Fits
      <4>4. Cardinality(Used(a, v)) \in Nat
        BY <1>0, UsedFinite
      <4>. QED  BY <4>2, <4>3, <4>4
    <3>2. CASE v # s
      BY <1>2, <3>2 DEF Sound, Roomy
    <3>. QED  BY <3>1, <3>2
  <2>. QED  BY <2>1 DEF Roomy
<1>6. Clear(b)
  <2>1. ASSUME NEW u \in DOMAIN b, NEW v \in DOMAIN b, u # v,
               ShareCoach(u, v), <<b[u], b[v]>> \in Overlap
        PROVE  {u, v} \subseteq LockedTeams
    <3>1. CASE u = t
      BY <1>1, <2>1, <3>1 DEF Fits
    <3>2. CASE v = t
      <4>1. ShareCoach(t, u)
        BY <2>1, <3>2 DEF ShareCoach
      <4>2. u \in DOMAIN a /\ a[u] \in Slots /\ <<a[u], s>> \in Overlap
        BY <1>0, <1>1, <2>1, <3>2, ScheduleFacts
      <4>3. <<s, a[u]>> \in Overlap
        BY <4>2, ScheduleAssumption
      <4>. QED  BY <4>1, <4>2, <4>3 DEF Fits
    <3>3. CASE u # t /\ v # t
      BY <1>1, <2>1, <3>3 DEF Sound, Clear
    <3>. QED  BY <3>1, <3>2, <3>3
  <2>. QED  BY <2>1 DEF Clear
<1>. QED  BY <1>1, <1>3, <1>4, <1>5, <1>6 DEF Sound, b

\* Teams that are not locked can be taken out.
LEMMA WithoutSound ==
    ASSUME NEW a, Sound(a), NEW T, T \cap LockedTeams = {}
    PROVE  Sound(Without(a, T))
<1> DEFINE b == Without(a, T)
<1>0. /\ a \in Schedules /\ b \in Schedules
      /\ DOMAIN b = DOMAIN a \ T
      /\ \A u \in DOMAIN b : b[u] = a[u]
      /\ \A v : Used(b, v) = Used(a, v) \ T
  BY WithoutFacts DEF Sound
<1>. HIDE DEF b
<1>1. Kept(b) /\ Available(b) /\ Clear(b)
  BY <1>0 DEF Sound, Kept, Available, Clear, Movable
<1>2. Roomy(b)
  <2>1. ASSUME NEW v \in Slots
        PROVE  Cardinality(Used(b, v)) <= Capacity[v] \/ Used(b, v) \subseteq LockedTeams
    <3>1. Used(b, v) \subseteq Used(a, v)
      BY <1>0
    <3>2. Cardinality(Used(b, v)) <= Cardinality(Used(a, v))
      BY <1>0, <3>1, UsedFinite, FS_Subset
    <3>3. /\ Capacity[v] \in Nat /\ Cardinality(Used(b, v)) \in Nat
          /\ Cardinality(Used(a, v)) \in Nat
      BY <1>0, UsedFinite, ScheduleAssumption
    <3>. QED  BY <3>1, <3>2, <3>3 DEF Sound, Roomy
  <2>. QED  BY <2>1 DEF Roomy
<1>. QED  BY <1>0, <1>1, <1>2 DEF Sound, b

\* add gives a team a slot it fits in; a set of schedules either way.
LEMMA AddedFacts ==
    ASSUME NEW a, Sound(a), NEW t \in Teams \ DOMAIN a, NEW s \in Slots,
           NEW b \in Added({a}, t, s)
    PROVE  /\ Sound(b)
           /\ b = Put(a, t, s)
           /\ DOMAIN b = DOMAIN a \cup {t}
<1>1. b = Put(a, t, s) /\ Fits(a, t, s)
  BY DEF Added
<1>2. a \in Schedules
  BY DEF Sound
<1>. QED  BY <1>1, <1>2, PutSound, PutFacts

\* Two teams that swap their slots end up in a sound schedule of the same teams.
LEMMA SwapFacts ==
    ASSUME NEW a, Sound(a), NEW b \in Swaps(a)
    PROVE  Sound(b) /\ DOMAIN b = DOMAIN a
<1>1. PICK t \in Movable(a), u \in Movable(a) :
          /\ a[t] # a[u]
          /\ b \in Added(Added({Without(a, {t, u})}, t, a[u]), u, a[t])
  BY DEF Swaps
<1>2. /\ t \in Teams /\ u \in Teams /\ t # u
      /\ t \in DOMAIN a /\ u \in DOMAIN a
      /\ a[t] \in Slots /\ a[u] \in Slots
      /\ {t, u} \cap LockedTeams = {}
  BY <1>1, ScheduleFacts DEF Movable, Sound
<1> DEFINE w == Without(a, {t, u})
<1>3. Sound(w) /\ DOMAIN w = DOMAIN a \ {t, u}
  BY <1>2, WithoutSound, WithoutFacts DEF Sound
<1>4. PICK x \in Added({w}, t, a[u]) : b \in Added({x}, u, a[t])
  BY <1>1 DEF Added
<1>5. Sound(x) /\ DOMAIN x = DOMAIN w \cup {t}
  BY <1>2, <1>3, <1>4, AddedFacts
<1>6. Sound(b) /\ DOMAIN b = DOMAIN x \cup {u}
  BY <1>2, <1>3, <1>4, <1>5, AddedFacts
<1>. QED  BY <1>2, <1>3, <1>5, <1>6

\* So do three teams that pass their slots round.
LEMMA ChainFacts ==
    ASSUME NEW a, Sound(a), NEW b \in Chains(a)
    PROVE  Sound(b) /\ DOMAIN b = DOMAIN a
<1>1. PICK t \in Movable(a), u \in Movable(a), v \in Movable(a) :
          /\ a[t] # a[u] /\ a[u] # a[v] /\ a[t] # a[v]
          /\ b \in Added(Added(Added({Without(a, {t, u, v})}, t, a[u]), u, a[v]), v, a[t])
  BY DEF Chains
<1>2. /\ t \in Teams /\ u \in Teams /\ v \in Teams
      /\ t # u /\ u # v /\ t # v
      /\ t \in DOMAIN a /\ u \in DOMAIN a /\ v \in DOMAIN a
      /\ a[t] \in Slots /\ a[u] \in Slots /\ a[v] \in Slots
      /\ {t, u, v} \cap LockedTeams = {}
  BY <1>1, ScheduleFacts DEF Movable, Sound
<1> DEFINE w == Without(a, {t, u, v})
<1>3. Sound(w) /\ DOMAIN w = DOMAIN a \ {t, u, v}
  BY <1>2, WithoutSound, WithoutFacts DEF Sound
<1>4. PICK x \in Added({w}, t, a[u]) : b \in Added(Added({x}, u, a[v]), v, a[t])
  BY <1>1 DEF Added
<1>5. Sound(x) /\ DOMAIN x = DOMAIN w \cup {t}
  BY <1>2, <1>3, <1>4, AddedFacts
<1>6. PICK y \in Added({x}, u, a[v]) : b \in Added({y}, v, a[t])
  BY <1>4 DEF Added
<1>7. Sound(y) /\ DOMAIN y = DOMAIN x \cup {u}
  <2>1. u \in Teams \ DOMAIN x
    BY <1>2, <1>3, <1>5
  <2>. QED  BY <1>2, <1>5, <1>6, <2>1, AddedFacts
<1>8. Sound(b) /\ DOMAIN b = DOMAIN y \cup {v}
  <2>1. v \in Teams \ DOMAIN y
    BY <1>2, <1>3, <1>5, <1>7
  <2>. QED  BY <1>2, <1>6, <1>7, <2>1, AddedFacts
<1>. QED  BY <1>2, <1>3, <1>5, <1>7, <1>8

\* A relocation places a team that had no slot in one it fits in.
LEMMA RelocationFacts ==
    ASSUME NEW a, Sound(a), NEW b \in Relocations(a)
    PROVE  /\ Sound(b) /\ DOMAIN a \subseteq DOMAIN b
           /\ \E t \in Teams \ DOMAIN a, s \in Slots : Fits(a, t, s)
<1>1. PICK t \in Teams \ DOMAIN a, s \in Slots : b \in Added({a}, t, s)
  BY DEF Relocations
<1>2. Fits(a, t, s)
  BY <1>1 DEF Added
<1>3. Sound(b) /\ DOMAIN b = DOMAIN a \cup {t}
  BY <1>1, AddedFacts
<1>. QED  BY <1>1, <1>2, <1>3

\* No move of the search breaks a hard constraint or takes a team's place away:
\* add checks each team of a swap or a chain against those put back before it.
THEOREM MovesAreSound ==
    \A a : Sound(a) => \A b \in Moves(a) : Sound(b) /\ DOMAIN a \subseteq DOMAIN b
  BY SwapFacts, ChainFacts, RelocationFacts DEF Moves

\* A slot taken is a slot less: who fits after a placement fitted before it.
LEMMA FitsBefore ==
    ASSUME NEW a \in Schedules, NEW u \in Teams \ DOMAIN a, NEW v \in Slots,
           NEW t \in Teams, NEW s \in Slots, Fits(Put(a, u, v), t, s)
    PROVE  Fits(a, t, s)
<1> DEFINE b == Put(a, u, v)
<1>1. /\ b \in Schedules /\ DOMAIN b = DOMAIN a \cup {u}
      /\ \A x \in DOMAIN a : x # u => b[x] = a[x]
  BY PutFacts
<1>2. Used(a, s) \subseteq Used(b, s)
  BY PutUsed
<1>3. Fits(b, t, s)
  OBVIOUS
<1>. HIDE DEF b
<1>4. Cardinality(Used(a, s)) <= Cardinality(Used(b, s))
  BY <1>1, <1>2, UsedFinite, FS_Subset
<1>5. /\ Cardinality(Used(a, s)) \in Nat /\ Cardinality(Used(b, s)) \in Nat
      /\ Capacity[s] \in Nat
  BY <1>1, UsedFinite, ScheduleAssumption
<1>6. Cardinality(Used(a, s)) < Capacity[s]
  BY <1>3, <1>4, <1>5 DEF Fits
<1>. QED  BY <1>1, <1>3, <1>6 DEF Fits

-----------------------------------------------------------------------------
(* One iteration of the search                                              *)

\* BestIsBest is not inductive: a restart makes the seed the current schedule,
\* a climb from there may make any schedule the best one.  So the current one
\* too must have the seed's teams, and all three must be sound.
ClimbInv ==
    /\ ClimbTypeOK
    /\ Sound(seed) /\ Sound(current) /\ Sound(best)
    /\ BestIsBest
    /\ DOMAIN seed \subseteq DOMAIN current

LEMMA FitnessType ==
    ASSUME NEW a, Sound(a)
    PROVE  a \in Schedules /\ Fitness(a) \in Int
  BY ClimbAssumption DEF Sound

\* Before there is a seed, the search holds the locked assignments.
LEMMA ClimbInitInv == ClimbInit => ClimbInv
<1> SUFFICES ASSUME ClimbInit PROVE ClimbInv
  OBVIOUS
<1>1. Locked \in Schedules /\ Fitness(Locked) \in Int /\ Sound(Locked)
  BY LockedSound, FitnessType
<1>. QED  BY <1>1, ClimbAssumption DEF ClimbInit, ClimbInv, ClimbTypeOK, BestIsBest

LEMMA ClimbFromInv ==
    ASSUME ClimbTypeOK, NEW a, Sound(a), ClimbFrom(a)
    PROVE  ClimbInv'
<1>1. a \in Schedules /\ Fitness(a) \in Int
  BY FitnessType
<1>. QED  BY <1>1 DEF ClimbInv, ClimbFrom, ClimbTypeOK, BestIsBest, Sound,
                      Kept, Available, Roomy, Clear, Movable, Used

\* A climb: the new schedule has the teams of the one it was made from.
LEMMA ClimbsInv ==
    ASSUME ClimbInv, NEW a \in Moves(current), Climbs(a),
           iteration < MaxIterations, iteration' = iteration + 1, UNCHANGED seed
    PROVE  ClimbInv'
<1>1. Sound(a) /\ DOMAIN current \subseteq DOMAIN a
  BY MovesAreSound DEF ClimbInv
<1>2. /\ Fitness(a) \in Int /\ Fitness(current) \in Int
      /\ Fitness(best) \in Int /\ Fitness(seed) \in Int
      /\ a \in Schedules
  BY <1>1, FitnessType DEF ClimbInv
<1>3. ClimbTypeOK'
  BY <1>2, ClimbAssumption DEF ClimbInv, ClimbTypeOK, Climbs
<1>4. CASE Fitness(a) > Fitness(best)
  <2>1. best' = a /\ current' = a /\ seed' = seed
    BY <1>4 DEF Climbs
  <2>. QED  BY <1>1, <1>2, <1>3, <1>4, <2>1 DEF ClimbInv, BestIsBest
<1>5. CASE ~(Fitness(a) > Fitness(best))
  <2>1. best' = best /\ current' = a /\ seed' = seed
    BY <1>5 DEF Climbs
  <2>. QED  BY <1>1, <1>2, <1>3, <1>5, <2>1 DEF ClimbInv, BestIsBest
<1>. QED  BY <1>4, <1>5

\* An iteration that comes to nothing, and may send the search back to its seed.
LEMMA StallsInv ==
    ASSUME ClimbInv, Stalls, UNCHANGED <<seed, best>>,
           iteration < MaxIterations, iteration' = iteration + 1
    PROVE  ClimbInv'
<1>1. /\ Fitness(current) \in Int /\ Fitness(best) \in Int /\ Fitness(seed) \in Int
  BY FitnessType DEF ClimbInv
<1>2. ClimbTypeOK'
  BY ClimbAssumption DEF ClimbInv, ClimbTypeOK, Stalls
<1>3. current' = current \/ current' = seed
  BY DEF Stalls
<1>. QED  BY <1>1, <1>2, <1>3 DEF ClimbInv, BestIsBest

\* Through every climb, stall and restart the best schedule stays the best.
THEOREM ClimbKeepsTheBest == ClimbInv /\ Climb => ClimbInv'
<1> SUFFICES ASSUME ClimbInv, Climb PROVE ClimbInv'
  OBVIOUS
<1>1. ASSUME NEW a \in Moves(current), Climbs(a) PROVE ClimbInv'
  BY <1>1, ClimbsInv DEF Climb
<1>2. CASE Stalls /\ UNCHANGED best
  BY <1>2, StallsInv DEF Climb
<1>. QED  BY <1>1, <1>2 DEF Climb

\* The best schedule is only replaced by a sound and fitter one.
THEOREM BestOnlyImproves ==
    ClimbInv /\ Climb
      => \/ best' = best
         \/ Sound(best') /\ Fitness(best') > Fitness(best)
<1> SUFFICES ASSUME ClimbInv, Climb, best' # best
             PROVE  Sound(best') /\ Fitness(best') > Fitness(best)
  OBVIOUS
<1>1. PICK a \in Moves(current) : Climbs(a)
  BY DEF Climb
<1>2. best' = a /\ Fitness(a) > Fitness(best)
  BY <1>1 DEF Climbs
<1>. QED  BY <1>2, MovesAreSound DEF ClimbInv

-----------------------------------------------------------------------------
(* schedulePractices and optimizePracticeSchedule.                          *)

\* The four maps belong together and describe a sound schedule.
Good(b) == b = Recount(b.placed) /\ Sound(b.placed)

LoadOf(a, k) == {t \in DOMAIN a : <<Base[a[t]], Division[t]>> = k}

LEMMA LoadFinite ==
    ASSUME NEW a \in Schedules, NEW k
    PROVE  IsFiniteSet(LoadOf(a, k)) /\ Cardinality(LoadOf(a, k)) \in Nat
<1>1. LoadOf(a, k) \in SUBSET Teams
  BY ScheduleFacts DEF LoadOf
<1>. QED  BY <1>1, ScheduleAssumption, FS_Subset, FS_CardinalityType

\* What the maps of a good record hold.
LEMMA RecountFields ==
    ASSUME NEW b, Good(b)
    PROVE  /\ b.placed \in Schedules
           /\ b.room = [s \in Slots |-> Capacity[s] - Cardinality(Used(b.placed, s))]
           /\ b.load = [k \in LoadKeys |-> Cardinality(LoadOf(b.placed, k))]
           /\ b.busy = [c \in CoachIds |->
                  {<<t, b.placed[t]>> : t \in {u \in DOMAIN b.placed : c \in Coaches[u]}}]
  BY DEF Good, Recount, Sound, LoadOf

\* A slot the maps call viable, and that has room, is one the team fits in.
LEMMA ViableFits ==
    ASSUME NEW b, Good(b), NEW t \in Teams, NEW full \in BOOLEAN, NEW s \in Viable(b, t, full)
    PROVE  /\ s \in Slots /\ s \notin Unavailable[t]
           /\ \A u \in DOMAIN b.placed :
                 ShareCoach(t, u) => <<s, b.placed[u]>> \notin Overlap
           /\ ~full => Fits(b.placed, t, s)
<1>1. s \in Slots /\ s \notin Unavailable[t]
  BY DEF Viable, Effective
<1>2. ASSUME NEW u \in DOMAIN b.placed, ShareCoach(t, u)
      PROVE  <<s, b.placed[u]>> \notin Overlap
  <2>1. PICK c \in Coaches[t] : c \in Coaches[u]
    BY <1>2 DEF ShareCoach
  <2>2. c \in CoachIds
    BY <2>1 DEF CoachIds
  <2>3. <<u, b.placed[u]>> \in b.busy[c]
    <3>1. b.busy = [d \in CoachIds |->
              {<<v, b.placed[v]>> : v \in {w \in DOMAIN b.placed : d \in Coaches[w]}}]
      BY RecountFields
    <3>2. b.busy[c] = {<<v, b.placed[v]>> : v \in {w \in DOMAIN b.placed : c \in Coaches[w]}}
      BY <2>2, <3>1
    <3>. QED  BY <2>1, <3>2
  <2>. QED  BY <2>1, <2>3 DEF Viable
<1>3. ASSUME ~full PROVE Cardinality(Used(b.placed, s)) < Capacity[s]
  <2>1. b.room = [v \in Slots |-> Capacity[v] - Cardinality(Used(b.placed, v))]
    BY RecountFields
  <2>2. b.room[s] = Capacity[s] - Cardinality(Used(b.placed, s)) /\ b.room[s] > 0
    BY <1>1, <1>3, <2>1 DEF Viable
  <2>3. Capacity[s] \in Nat /\ Cardinality(Used(b.placed, s)) \in Nat
    <3>1. b.placed \in Schedules
      BY RecountFields
    <3>. QED  BY <1>1, <3>1, UsedFinite, ScheduleAssumption
  <2>. QED  BY <2>2, <2>3
<1>. QED  BY <1>1, <1>2, <1>3 DEF Fits

\* assignTeamToSlot keeps the four maps in step.
LEMMA AssignGood ==
    ASSUME NEW b, Good(b), NEW t \in Teams \ DOMAIN b.placed, NEW s \in Slots,
           Fits(b.placed, t, s)
    PROVE  /\ Good(Assign(b, t, s))
           /\ Assign(b, t, s).placed = Put(b.placed, t, s)
           /\ DOMAIN Assign(b, t, s).placed = DOMAIN b.placed \cup {t}
           /\ \A u \in DOMAIN b.placed : Assign(b, t, s).placed[u] = b.placed[u]
           /\ Assign(b, t, s).placed[t] = s
           /\ \A v : v # s => Used(Assign(b, t, s).placed, v) = Used(b.placed, v)
<1> DEFINE a == b.placed
           n == Put(a, t, s)
           x == Assign(b, t, s)
           k0 == <<Base[s], Division[t]>>
<1>0. a \in Schedules /\ t \in Teams \ DOMAIN a
  BY RecountFields
<1>1. /\ n \in Schedules /\ DOMAIN n = DOMAIN a \cup {t} /\ n[t] = s
      /\ \A u \in DOMAIN a : u # t => n[u] = a[u]
      /\ a \in Schedules
  BY <1>0, PutFacts
<1>2. \A v : Used(n, v) = IF v = s THEN Used(a, v) \cup {t} ELSE Used(a, v)
  BY <1>0, PutUsed
<1>3. Sound(n)
  BY PutSound DEF Good
<1>. HIDE DEF n
<1>4. x.room = [v \in Slots |-> Capacity[v] - Cardinality(Used(n, v))]
  <2>1. x.room = [b.room EXCEPT ![s] = @ - 1]
    BY DEF Assign
  <2>2. Cardinality(Used(n, s)) = Cardinality(Used(a, s)) + 1
    <3>1. t \notin Used(a, s)
      BY DEF Used
    <3>. QED  BY <1>1, <1>2, <3>1, UsedFinite, FS_AddElement
  <2>3. Cardinality(Used(a, s)) \in Nat /\ Capacity[s] \in Nat
    BY <1>1, UsedFinite, ScheduleAssumption
  <2>4. ASSUME NEW v \in Slots PROVE x.room[v] = Capacity[v] - Cardinality(Used(n, v))
    <3>1. b.room = [w \in Slots |-> Capacity[w] - Cardinality(Used(a, w))]
      BY RecountFields
    <3>2. CASE v = s
      BY <2>1, <2>2, <2>3, <3>1, <3>2
    <3>3. CASE v # s
      BY <1>2, <2>1, <3>1, <3>3
    <3>. QED  BY <3>2, <3>3
  <2>. QED  BY <2>1, <2>4, RecountFields
<1>5. x.load = [k \in LoadKeys |-> Cardinality(LoadOf(n, k))]
  <2>1. x.load = [b.load EXCEPT ![k0] = @ + 1] /\ k0 \in LoadKeys
    BY DEF Assign, LoadKeys
  <2>2. \A k : LoadOf(n, k) = IF k = k0 THEN LoadOf(a, k) \cup {t} ELSE LoadOf(a, k)
    BY <1>1 DEF LoadOf
  <2>3. Cardinality(LoadOf(n, k0)) = Cardinality(LoadOf(a, k0)) + 1
    <3>1. t \notin LoadOf(a, k0)
      BY DEF LoadOf
    <3>. QED  BY <1>1, <2>2, <3>1, LoadFinite, FS_AddElement
  <2>4. ASSUME NEW k \in LoadKeys PROVE x.load[k] = Cardinality(LoadOf(n, k))
    <3>1. b.load = [l \in LoadKeys |-> Cardinality(LoadOf(a, l))]
      BY RecountFields
    <3>2. CASE k = k0
      BY <2>1, <2>3, <3>1, <3>2
    <3>3. CASE k # k0
      BY <2>1, <2>2, <3>1, <3>3
    <3>. QED  BY <3>2, <3>3
  <2>. QED  BY <2>1, <2>4, RecountFields
<1>6. x.busy = [c \in CoachIds |-> {<<u, n[u]>> : u \in {w \in DOMAIN n : c \in Coaches[w]}}]
  <2>1. ASSUME NEW c \in CoachIds
        PROVE  x.busy[c] = {<<u, n[u]>> : u \in {w \in DOMAIN n : c \in Coaches[w]}}
    <3>0. b.busy = [d \in CoachIds |->
              {<<v, a[v]>> : v \in {w \in DOMAIN a : d \in Coaches[w]}}]
      BY RecountFields
    <3>1. b.busy[c] = {<<u, a[u]>> : u \in {w \in DOMAIN a : c \in Coaches[w]}}
      BY <3>0
    <3>2. x.busy[c] = IF c \in Coaches[t] THEN b.busy[c] \cup {<<t, s>>} ELSE b.busy[c]
      BY DEF Assign
    <3>3. CASE c \in Coaches[t]
      BY <1>1, <3>1, <3>2, <3>3
    <3>4. CASE c \notin Coaches[t]
      BY <1>1, <3>1, <3>2, <3>4
    <3>. QED  BY <3>3, <3>4
  <2>2. x.busy = [c \in CoachIds |-> x.busy[c]]
    BY DEF Assign
  <2>. QED  BY <2>1, <2>2
<1>7. /\ x = [placed |-> n, room |-> x.room, load |-> x.load, busy |-> x.busy]
      /\ x.placed = n
  BY DEF Assign, n
<1>. HIDE DEF x
<1>8. x = Recount(x.placed)
  BY <1>4, <1>5, <1>6, <1>7 DEF Recount, LoadOf
<1>9. /\ Good(x) /\ x.placed = n
      /\ \A v : v # s => Used(x.placed, v) = Used(a, v)
  BY <1>2, <1>3, <1>7, <1>8 DEF Good
<1>10. /\ DOMAIN x.placed = DOMAIN a \cup {t} /\ x.placed[t] = s
       /\ \A u \in DOMAIN a : x.placed[u] = a[u]
  BY <1>1, <1>7
<1>. QED  BY <1>9, <1>10 DEF x, n

\* removeAssignmentForTeam keeps the four maps in step.
LEMMA RemoveGood ==
    ASSUME NEW b, Good(b), NEW t \in Movable(b.placed)
    PROVE  /\ Good(Remove(b, t))
           /\ DOMAIN Remove(b, t).placed = DOMAIN b.placed \ {t}
           /\ \A u \in DOMAIN b.placed \ {t} : Remove(b, t).placed[u] = b.placed[u]
           /\ \A v : Used(Remove(b, t).placed, v) = Used(b.placed, v) \ {t}
<1> DEFINE a == b.placed
           s == b.placed[t]
           n == Without(a, {t})
           x == Remove(b, t)
           k0 == <<Base[s], Division[t]>>
<1>0. a \in Schedules /\ t \in DOMAIN a /\ t \in Teams /\ s \in Slots /\ t \notin LockedTeams
  BY RecountFields, ScheduleFacts DEF Movable
<1>1. /\ n \in Schedules /\ DOMAIN n = DOMAIN a \ {t}
      /\ \A u \in DOMAIN n : n[u] = a[u]
      /\ \A v : Used(n, v) = Used(a, v) \ {t}
  <2>1. /\ n \in Schedules /\ DOMAIN n = DOMAIN a \ {t}
        /\ \A u \in DOMAIN a \ {t} : n[u] = a[u]
        /\ \A v : Used(n, v) = Used(a, v) \ {t}
    BY <1>0, WithoutFacts
  <2>. QED  BY <2>1
<1>3. Sound(n)
  BY <1>0, WithoutSound DEF Good
<1>. HIDE DEF n
<1>4. x.room = [v \in Slots |-> Capacity[v] - Cardinality(Used(n, v))]
  <2>1. x.room = [b.room EXCEPT ![s] = @ + 1]
    BY DEF Remove
  <2>2. Cardinality(Used(n, s)) = Cardinality(Used(a, s)) - 1
    <3>1. t \in Used(a, s)
      BY <1>0 DEF Used
    <3>. QED  BY <1>0, <1>1, <3>1, UsedFinite, FS_RemoveElement
  <2>3. Cardinality(Used(a, s)) \in Nat /\ Capacity[s] \in Nat
    BY <1>0, UsedFinite, ScheduleAssumption
  <2>4. ASSUME NEW v \in Slots PROVE x.room[v] = Capacity[v] - Cardinality(Used(n, v))
    <3>1. b.room = [w \in Slots |-> Capacity[w] - Cardinality(Used(a, w))]
      BY RecountFields
    <3>2. CASE v = s
      BY <2>1, <2>2, <2>3, <3>1, <3>2
    <3>3. CASE v # s
      <4>1. Used(n, v) = Used(a, v)
        BY <1>1, <3>3 DEF Used
      <4>. QED  BY <2>1, <3>1, <3>3, <4>1
    <3>. QED  BY <3>2, <3>3
  <2>. QED  BY <2>1, <2>4, RecountFields
<1>5. x.load = [k \in LoadKeys |-> Cardinality(LoadOf(n, k))]
  <2>1. x.load = [b.load EXCEPT ![k0] = @ - 1] /\ k0 \in LoadKeys
    BY <1>0 DEF Remove, LoadKeys
  <2>2. \A k : LoadOf(n, k) = IF k = k0 THEN LoadOf(a, k) \ {t} ELSE LoadOf(a, k)
    BY <1>1 DEF LoadOf
  <2>3. Cardinality(LoadOf(n, k0)) = Cardinality(LoadOf(a, k0)) - 1
    <3>1. t \in LoadOf(a, k0)
      BY <1>0 DEF LoadOf
    <3>. QED  BY <1>0, <2>2, <3>1, LoadFinite, FS_RemoveElement
  <2>4. ASSUME NEW k \in LoadKeys PROVE x.load[k] = Cardinality(LoadOf(n, k))
    <3>1. b.load = [l \in LoadKeys |-> Cardinality(LoadOf(a, l))]
      BY RecountFields
    <3>2. CASE k = k0
      BY <2>1, <2>3, <3>1, <3>2
    <3>3. CASE k # k0
      BY <2>1, <2>2, <3>1, <3>3
    <3>. QED  BY <3>2, <3>3
  <2>. QED  BY <2>1, <2>4, RecountFields
<1>6. x.busy = [c \in CoachIds |-> {<<u, n[u]>> : u \in {w \in DOMAIN n : c \in Coaches[w]}}]
  <2>1. ASSUME NEW c \in CoachIds
        PROVE  x.busy[c] = {<<u, n[u]>> : u \in {w \in DOMAIN n : c \in Coaches[w]}}
    <3>1. b.busy = [d \in CoachIds |->
              {<<v, a[v]>> : v \in {w \in DOMAIN a : d \in Coaches[w]}}]
      BY RecountFields
    <3>2. b.busy[c] = {<<u, a[u]>> : u \in {w \in DOMAIN a : c \in Coaches[w]}}
      BY <3>1
    <3>3. x.busy[c] = b.busy[c] \ {<<t, s>>}
      BY DEF Remove
    <3>. QED  BY <1>1, <3>2, <3>3
  <2>2. x.busy = [c \in CoachIds |-> x.busy[c]]
    BY DEF Remove
  <2>. QED  BY <2>1, <2>2
<1>7. /\ x = [placed |-> n, room |-> x.room, load |-> x.load, busy |-> x.busy]
      /\ x.placed = n
  BY DEF Remove, n
<1>. HIDE DEF x
<1>8. x = Recount(x.placed)
  BY <1>4, <1>5, <1>6, <1>7 DEF Recount, LoadOf
<1>9. /\ Good(x)
      /\ DOMAIN x.placed = DOMAIN a \ {t}
      /\ \A u \in DOMAIN a \ {t} : x.placed[u] = a[u]
      /\ \A v : Used(x.placed, v) = Used(a, v) \ {t}
  BY <1>1, <1>3, <1>7, <1>8 DEF Good
<1>. QED  BY <1>9 DEF x, n

\* The swap that helps a team: the one in its way is taken out, put elsewhere,
\* and the slot is then free for it, though only the first was checked last.
\* They share no coach, or the slot would not have been viable: it overlaps
\* itself.
LEMMA SwapGood ==
    ASSUME NEW b, Good(b), NEW t \in Teams \ DOMAIN b.placed,
           NEW s \in Viable(b, t, TRUE), NEW u \in DOMAIN b.placed \ LockedTeams,
           b.placed[u] = s,
           NEW alt \in Viable(Remove(b, u), u, FALSE), alt # s
    PROVE  LET c == Assign(Assign(Remove(b, u), u, alt), t, s)
           IN  Good(c) /\ DOMAIN c.placed = DOMAIN b.placed \cup {t}
<1> DEFINE a == b.placed
           r == Remove(b, u)
           x == Assign(r, u, alt)
           c == Assign(x, t, s)
<1>1. a \in Schedules /\ u \in Teams /\ u # t /\ Sound(a)
  BY RecountFields, ScheduleFacts DEF Good
<1>2. /\ Good(r) /\ DOMAIN r.placed = DOMAIN a \ {u}
      /\ \A v \in DOMAIN a \ {u} : r.placed[v] = a[v]
      /\ \A v : Used(r.placed, v) = Used(a, v) \ {u}
  BY RemoveGood DEF Movable
<1>3. alt \in Viable(r, u, FALSE) /\ u \in Teams \ DOMAIN r.placed
  BY <1>1, <1>2
<1>. HIDE DEF r
<1>4. alt \in Slots /\ Fits(r.placed, u, alt)
  BY <1>1, <1>2, <1>3, ViableFits
<1>5. /\ Good(x) /\ DOMAIN x.placed = DOMAIN r.placed \cup {u}
      /\ \A v \in DOMAIN r.placed : x.placed[v] = r.placed[v]
      /\ \A v : v # alt => Used(x.placed, v) = Used(r.placed, v)
  BY <1>2, <1>3, <1>4, AssignGood
<1>6. /\ DOMAIN x.placed = DOMAIN a
      /\ \A v \in DOMAIN a : v # u => x.placed[v] = a[v]
      /\ Used(x.placed, s) = Used(a, s) \ {u}
  BY <1>2, <1>5
<1>. HIDE DEF x
<1>7. Fits(x.placed, t, s)
  <2>1. /\ s \in Slots /\ s \notin Unavailable[t]
        /\ \A v \in DOMAIN a : ShareCoach(t, v) => <<s, a[v]>> \notin Overlap
    BY ViableFits
  <2>2. ~ShareCoach(t, u)
    BY <2>1, PracticeAssumption
  <2>3. Cardinality(Used(x.placed, s)) < Capacity[s]
    <3>1. u \in Used(a, s)
      BY DEF Used
    <3>2. Cardinality(Used(x.placed, s)) = Cardinality(Used(a, s)) - 1
      <4>1. IsFiniteSet(Used(a, s))
        BY <1>1, UsedFinite
      <4>2. Cardinality(Used(a, s) \ {u}) = Cardinality(Used(a, s)) - 1
        BY <3>1, <4>1, FS_RemoveElement
      <4>. QED  BY <1>6, <4>2
    <3>3. Cardinality(Used(a, s)) <= Capacity[s]
      BY <1>1, <2>1, <3>1 DEF Sound, Roomy
    <3>4. Cardinality(Used(a, s)) \in Nat /\ Capacity[s] \in Nat
      BY <1>1, <2>1, UsedFinite, ScheduleAssumption
    <3>. QED  BY <3>2, <3>3, <3>4
  <2>. QED  BY <1>6, <2>1, <2>2, <2>3 DEF Fits
<1>8. s \in Slots /\ t \in Teams \ DOMAIN x.placed
  BY <1>6, ViableFits
<1>9. Good(c) /\ DOMAIN c.placed = DOMAIN x.placed \cup {t}
  BY <1>5, <1>7, <1>8, AssignGood
<1>. QED  BY <1>6, <1>9 DEF r, x

\* Whatever tryResolveTeamWithSwap does, the maps stay good and no team loses
\* its place.
LEMMA HelpedGood ==
    ASSUME NEW b, Good(b), NEW t \in Teams \ DOMAIN b.placed, NEW c \in Helped(b, t)
    PROVE  Good(c) /\ DOMAIN c.placed = DOMAIN b.placed \cup {t}
<1>1. CASE c \in {Assign(b, t, s) : s \in Viable(b, t, FALSE)}
  <2>1. PICK s \in Viable(b, t, FALSE) : c = Assign(b, t, s)
    BY <1>1
  <2>2. s \in Slots /\ Fits(b.placed, t, s)
    BY ViableFits
  <2>. QED  BY <2>1, <2>2, AssignGood
<1>2. CASE c \notin {Assign(b, t, s) : s \in Viable(b, t, FALSE)}
  <2> DEFINE pairs == {q \in Viable(b, t, TRUE) \X (DOMAIN b.placed \ LockedTeams) :
                          b.placed[q[2]] = q[1] /\ b.room[q[1]] <= 0}
             swaps(p) == {Assign(Assign(Remove(b, p[2]), p[2], alt), t, p[1]) :
                             alt \in Viable(Remove(b, p[2]), p[2], FALSE) \ {p[1]}}
  <2>1. c \in UNION {swaps(p) : p \in pairs}
    BY <1>2 DEF Helped
  <2>2. PICK p \in pairs : c \in swaps(p)
    BY <2>1
  <2>3. PICK alt \in Viable(Remove(b, p[2]), p[2], FALSE) \ {p[1]} :
             c = Assign(Assign(Remove(b, p[2]), p[2], alt), t, p[1])
    BY <2>2
  <2>4. /\ p[1] \in Viable(b, t, TRUE) /\ p[2] \in DOMAIN b.placed \ LockedTeams
        /\ b.placed[p[2]] = p[1] /\ alt # p[1]
        /\ alt \in Viable(Remove(b, p[2]), p[2], FALSE)
    BY <2>2, <2>3
  <2>. HIDE DEF pairs, swaps
  <2>. QED  BY <2>3, <2>4, SwapGood
<1>. QED  BY <1>1, <1>2

-----------------------------------------------------------------------------
(* The teams given up wait in a sequence, each of them once.                *)

Waiting(u) == {u[i] : i \in DOMAIN u}
NoTwice(u) == \A i, j \in DOMAIN u : u[i] = u[j] => i = j

LEMMA AppendWaits ==
    ASSUME NEW u \in Seq(Teams), NEW t \in Teams, NoTwice(u), t \notin Waiting(u)
    PROVE  /\ Append(u, t) \in Seq(Teams) /\ Len(Append(u, t)) = Len(u) + 1
           /\ Waiting(Append(u, t)) = Waiting(u) \cup {t}
           /\ NoTwice(Append(u, t))
<1>1. /\ Append(u, t) \in Seq(Teams) /\ Len(Append(u, t)) = Len(u) + 1
      /\ DOMAIN Append(u, t) = 1..(Len(u) + 1) /\ DOMAIN u = 1..Len(u) /\ Len(u) \in Nat
      /\ \A i \in 1..Len(u) : Append(u, t)[i] = u[i]
      /\ Append(u, t)[Len(u) + 1] = t
  OBVIOUS
<1>2. \A i \in 1..(Len(u) + 1) : i \in 1..Len(u) \/ i = Len(u) + 1
  BY <1>1
<1>3. Waiting(Append(u, t)) = Waiting(u) \cup {t}
  <2>1. ASSUME NEW x \in Waiting(Append(u, t)) PROVE x \in Waiting(u) \cup {t}
    BY <1>1, <1>2 DEF Waiting
  <2>2. ASSUME NEW x \in Waiting(u) PROVE x \in Waiting(Append(u, t))
    BY <1>1 DEF Waiting
  <2>3. t \in Waiting(Append(u, t))
    BY <1>1 DEF Waiting
  <2>. QED  BY <2>1, <2>2, <2>3
<1>4. NoTwice(Append(u, t))
  BY <1>1, <1>2 DEF NoTwice, Waiting
<1>. QED  BY <1>1, <1>3, <1>4

LEMMA TailWaits ==
    ASSUME NEW u \in Seq(Teams), u # <<>>, NoTwice(u)
    PROVE  /\ Head(u) \in Teams /\ Head(u) \in Waiting(u)
           /\ Tail(u) \in Seq(Teams) /\ Len(Tail(u)) = Len(u) - 1
           /\ Waiting(Tail(u)) = Waiting(u) \ {Head(u)}
           /\ NoTwice(Tail(u))
<1>1. /\ Tail(u) \in Seq(Teams) /\ Len(Tail(u)) = Len(u) - 1
      /\ DOMAIN Tail(u) = 1..(Len(u) - 1) /\ DOMAIN u = 1..Len(u) /\ Len(u) \in Nat \ {0}
      /\ \A i \in 1..(Len(u) - 1) : Tail(u)[i] = u[i + 1]
      /\ Head(u) = u[1] /\ u[1] \in Teams
  OBVIOUS
<1>2. Head(u) \in Waiting(u)
  BY <1>1 DEF Waiting
<1>3. Waiting(Tail(u)) = Waiting(u) \ {Head(u)}
  <2>1. ASSUME NEW i \in 1..(Len(u) - 1)
        PROVE  Tail(u)[i] \in Waiting(u) /\ Tail(u)[i] # Head(u)
    BY <1>1 DEF Waiting, NoTwice
  <2>2. ASSUME NEW i \in 1..Len(u), u[i] # Head(u) PROVE u[i] \in Waiting(Tail(u))
    <3>1. i - 1 \in 1..(Len(u) - 1) /\ u[i] = Tail(u)[i - 1]
      BY <1>1, <2>2
    <3>. QED  BY <1>1, <3>1 DEF Waiting
  <2>. QED  BY <1>1, <2>1, <2>2 DEF Waiting
<1>4. NoTwice(Tail(u))
  BY <1>1 DEF NoTwice
<1>. QED  BY <1>1, <1>2, <1>3, <1>4

-----------------------------------------------------------------------------
\* The inductive invariant.  SchedulesSound needs the maps to be right, as the
\* placement reads nothing else; the maps stay right only if no team that is
\* placed is placed again, so no team is in two of the four places.
Apart ==
    /\ queue \cap DOMAIN placed = {} /\ queue \cap Waiting(unplaced) = {}
    /\ queue \cap unresolved = {} /\ Waiting(unplaced) \cap DOMAIN placed = {}
    /\ unresolved \cap DOMAIN placed = {} /\ unresolved \cap Waiting(unplaced) = {}
    /\ NoTwice(unplaced)

BuildInv ==
    /\ phase \in {"greedy", "resolve", "search", "done"}
    /\ queue \subseteq Teams /\ unplaced \in Seq(Teams) /\ unresolved \subseteq Teams
    /\ phase # "greedy" => queue = {}
    /\ Good(Built)
    /\ ClimbInv
    /\ Apart
    /\ EachTeamOnce

LEMMA BuiltPlaced == Good(Built) => Built.placed = placed /\ Sound(placed) /\ placed \in Schedules
  BY DEF Good, Built, Sound

LEMMA BecomesGood ==
    ASSUME NEW b, Good(b), Becomes(b)
    PROVE  Good(Built)' /\ placed' = b.placed
<1>1. b = [placed |-> b.placed, room |-> b.room, load |-> b.load, busy |-> b.busy]
  BY DEF Good, Recount
<1>2. Built' = b
  BY <1>1 DEF Becomes, Built
<1>3. placed' = b.placed
  BY DEF Becomes
<1>. QED  BY <1>2, <1>3 DEF Good, Sound, Kept, Available, Roomy, Clear, Movable, Used, Recount

LEMMA CardinalitiesOfParts ==
    ASSUME BuildInv
    PROVE  /\ IsFiniteSet(queue) /\ IsFiniteSet(DOMAIN placed) /\ IsFiniteSet(unresolved)
           /\ Cardinality(queue) \in Nat /\ Cardinality(DOMAIN placed) \in Nat
           /\ Cardinality(unresolved) \in Nat /\ Len(unplaced) \in Nat
<1>1. DOMAIN placed \in SUBSET Teams /\ queue \in SUBSET Teams /\ unresolved \in SUBSET Teams
  BY BuiltPlaced, ScheduleFacts DEF BuildInv
<1>2. /\ IsFiniteSet(queue) /\ IsFiniteSet(DOMAIN placed) /\ IsFiniteSet(unresolved)
  BY <1>1, ScheduleAssumption, FS_Subset
<1>3. Len(unplaced) \in Nat
  BY DEF BuildInv
<1>. QED  BY <1>2, <1>3, FS_CardinalityType

LEMMA SearchUnchanged == ClimbInv /\ UNCHANGED search => ClimbInv'
  BY DEF ClimbInv, ClimbTypeOK, BestIsBest, Sound, Kept, Available, Roomy, Clear, Movable,
         Used, search

LEMMA BuildUnchanged == Good(Built) /\ UNCHANGED build => Good(Built)'
  BY DEF Good, Built, build, Recount, Sound, Kept, Available, Roomy, Clear, Movable, Used

LEMMA BuildInvInit == Init => BuildInv
<1> SUFFICES ASSUME Init PROVE BuildInv
  OBVIOUS
<1>1. Good(Built)
  <2>1. Built = Recount(placed)
    BY DEF Init, Built, Recount
  <2>. QED  BY <2>1, LockedSound DEF Good, Init, Recount
<1>2. LockedTeams \subseteq Teams /\ placed = Locked /\ DOMAIN placed = LockedTeams
  BY ScheduleAssumption DEF LockedTeams, Init
<1>3. Waiting(unplaced) = {} /\ NoTwice(unplaced) /\ {unplaced[i] : i \in DOMAIN unplaced} = {}
  BY DEF Init, Waiting, NoTwice
<1>4. Apart
  BY <1>2, <1>3 DEF Init, Apart
<1>5. EachTeamOnce
  <2>1. IsFiniteSet(LockedTeams) /\ IsFiniteSet(Teams \ LockedTeams)
    BY <1>2, ScheduleAssumption, FS_Subset
  <2>2. Cardinality(LockedTeams) + Cardinality(Teams \ LockedTeams) = Cardinality(Teams)
    <3>1. LockedTeams \cup (Teams \ LockedTeams) = Teams
          /\ LockedTeams \cap (Teams \ LockedTeams) = {}
      BY <1>2
    <3>2. Cardinality(Teams) = Cardinality(LockedTeams) + Cardinality(Teams \ LockedTeams)
                                  - Cardinality({})
      BY <2>1, <3>1, FS_Union
    <3>3. Cardinality(LockedTeams) \in Nat /\ Cardinality(Teams \ LockedTeams) \in Nat
          /\ Cardinality({}) = 0
      BY <2>1, FS_CardinalityType, FS_EmptySet
    <3>. QED  BY <3>2, <3>3
  <2>3. queue = Teams \ LockedTeams /\ unresolved = {} /\ Len(unplaced) = 0
    BY DEF Init
  <2>4. Cardinality(LockedTeams) \in Nat /\ Cardinality(Teams \ LockedTeams) \in Nat
        /\ Cardinality({}) = 0
    BY <2>1, FS_CardinalityType, FS_EmptySet
  <2>5. DOMAIN placed \cup queue \cup {unplaced[i] : i \in DOMAIN unplaced} \cup unresolved
           = Teams
    BY <1>2, <1>3, <2>3
  <2>6. Cardinality(DOMAIN placed) + Cardinality(queue) + Len(unplaced)
           + Cardinality(unresolved) = Cardinality(Teams)
    BY <1>2, <2>2, <2>3, <2>4
  <2>. QED  BY <2>5, <2>6 DEF EachTeamOnce
<1>. QED  BY <1>1, <1>2, <1>4, <1>5, ClimbInitInv DEF Init, BuildInv

\* A team leaves the queue: for the slot it is put in, or to wait for help.
LEMMA PlaceNextInv ==
    ASSUME BuildInv, PlaceNext
    PROVE  BuildInv'
<1>1. PICK t \in queue :
          /\ queue' = queue \ {t}
          /\ \/ /\ \E s \in Viable(Built, t, FALSE) : Becomes(Assign(Built, t, s))
                /\ UNCHANGED unplaced
             \/ /\ unplaced' = Append(unplaced, t)
                /\ UNCHANGED build
  BY DEF PlaceNext
<1>2. /\ phase = "greedy" /\ phase' = "greedy" /\ UNCHANGED unresolved
      /\ ClimbInv'
  BY SearchUnchanged DEF PlaceNext, BuildInv
<1>3. /\ t \in Teams \ DOMAIN placed /\ t \notin Waiting(unplaced) /\ t \notin unresolved
      /\ Good(Built) /\ Built.placed = placed /\ placed \in Schedules
  BY <1>1, BuiltPlaced DEF BuildInv, Apart
<1>4. Cardinality(queue') = Cardinality(queue) - 1
  BY <1>1, CardinalitiesOfParts, FS_RemoveElement
<1>5. CASE /\ \E s \in Viable(Built, t, FALSE) : Becomes(Assign(Built, t, s))
           /\ UNCHANGED unplaced
  <2>1. PICK s \in Viable(Built, t, FALSE) : Becomes(Assign(Built, t, s))
    BY <1>5
  <2>2. s \in Slots /\ Fits(placed, t, s)
    BY <1>3, ViableFits
  <2>3. Good(Assign(Built, t, s)) /\ DOMAIN Assign(Built, t, s).placed = DOMAIN placed \cup {t}
    BY <1>3, <2>2, AssignGood
  <2>4. Good(Built)' /\ DOMAIN placed' = DOMAIN placed \cup {t}
    BY <2>1, <2>3, BecomesGood
  <2>5. Cardinality(DOMAIN placed') = Cardinality(DOMAIN placed) + 1
    BY <1>3, <2>4, CardinalitiesOfParts, FS_AddElement
  <2>6. Apart'
    BY <1>1, <1>2, <1>3, <1>5, <2>4 DEF BuildInv, Apart, NoTwice, Waiting
  <2>7. EachTeamOnce'
    <3>1. (DOMAIN placed \cup queue \cup {unplaced[i] : i \in DOMAIN unplaced} \cup unresolved
              = Teams)'
      BY <1>1, <1>2, <1>5, <2>4 DEF BuildInv, EachTeamOnce
    <3>2. (Cardinality(DOMAIN placed) + Cardinality(queue) + Len(unplaced)
              + Cardinality(unresolved) = Cardinality(Teams))'
      BY <1>2, <1>4, <1>5, <2>5, CardinalitiesOfParts DEF BuildInv, EachTeamOnce
    <3>. QED  BY <3>1, <3>2 DEF EachTeamOnce
  <2>. QED  BY <1>1, <1>2, <1>5, <2>4, <2>6, <2>7 DEF BuildInv
<1>6. CASE unplaced' = Append(unplaced, t) /\ UNCHANGED build
  <2>1. /\ unplaced' \in Seq(Teams) /\ Len(unplaced') = Len(unplaced) + 1
        /\ Waiting(unplaced') = Waiting(unplaced) \cup {t} /\ NoTwice(unplaced')
    BY <1>3, <1>6, AppendWaits DEF BuildInv, Apart
  <2>2. Good(Built)' /\ placed' = placed
    BY <1>3, <1>6, BuildUnchanged DEF build
  <2>3. Apart'
    BY <1>1, <1>2, <1>3, <2>1, <2>2 DEF BuildInv, Apart
  <2>4. EachTeamOnce'
    <3>1. (DOMAIN placed \cup queue \cup Waiting(unplaced) \cup unresolved = Teams)'
      BY <1>1, <1>2, <2>1, <2>2 DEF BuildInv, EachTeamOnce, Waiting
    <3>2. (Cardinality(DOMAIN placed) + Cardinality(queue) + Len(unplaced)
              + Cardinality(unresolved) = Cardinality(Teams))'
      BY <1>2, <1>4, <2>1, <2>2, CardinalitiesOfParts DEF BuildInv, EachTeamOnce
    <3>. QED  BY <3>1, <3>2 DEF EachTeamOnce, Waiting
  <2>. QED  BY <1>1, <1>2, <2>1, <2>2, <2>3, <2>4 DEF BuildInv
<1>. QED  BY <1>1, <1>5, <1>6

\* The first team that waits is helped, perhaps at the cost of another's slot
\* but not of its place, or is past help.
LEMMA ResolveNextInv ==
    ASSUME BuildInv, ResolveNext
    PROVE  BuildInv'
<1> DEFINE t == Head(unplaced)
<1>1. /\ unplaced' = Tail(unplaced) /\ unplaced # <<>>
      /\ phase = "resolve" /\ phase' = "resolve" /\ UNCHANGED queue
      /\ ClimbInv'
  BY SearchUnchanged DEF ResolveNext, BuildInv
<1>2. /\ t \in Teams /\ t \in Waiting(unplaced)
      /\ unplaced' \in Seq(Teams) /\ Len(unplaced') = Len(unplaced) - 1
      /\ Waiting(unplaced') = Waiting(unplaced) \ {t} /\ NoTwice(unplaced')
  BY <1>1, TailWaits DEF BuildInv, Apart
<1>3. /\ t \in Teams \ DOMAIN placed /\ t \notin queue /\ t \notin unresolved
      /\ Good(Built) /\ Built.placed = placed
  BY <1>2, BuiltPlaced DEF BuildInv, Apart
<1>. HIDE DEF t
<1>4. CASE /\ \E b \in Helped(Built, t) : Becomes(b)
           /\ UNCHANGED unresolved
  <2>1. PICK b \in Helped(Built, t) : Becomes(b)
    BY <1>4
  <2>2. Good(b) /\ DOMAIN b.placed = DOMAIN placed \cup {t}
    BY <1>3, HelpedGood
  <2>3. Good(Built)' /\ DOMAIN placed' = DOMAIN placed \cup {t}
    BY <2>1, <2>2, BecomesGood
  <2>4. Cardinality(DOMAIN placed') = Cardinality(DOMAIN placed) + 1
    BY <1>3, <2>3, CardinalitiesOfParts, FS_AddElement
  <2>5. Apart'
    BY <1>1, <1>2, <1>3, <1>4, <2>3 DEF BuildInv, Apart
  <2>6. EachTeamOnce'
    <3>1. (DOMAIN placed \cup queue \cup Waiting(unplaced) \cup unresolved = Teams)'
      BY <1>1, <1>2, <1>4, <2>3 DEF BuildInv, EachTeamOnce, Waiting
    <3>2. (Cardinality(DOMAIN placed) + Cardinality(queue) + Len(unplaced)
              + Cardinality(unresolved) = Cardinality(Teams))'
      BY <1>1, <1>2, <1>4, <2>4, CardinalitiesOfParts DEF BuildInv, EachTeamOnce
    <3>. QED  BY <3>1, <3>2 DEF EachTeamOnce, Waiting
  <2>. QED  BY <1>1, <1>2, <1>4, <2>3, <2>5, <2>6 DEF BuildInv
<1>5. CASE unresolved' = unresolved \cup {t} /\ UNCHANGED build
  <2>1. Good(Built)' /\ placed' = placed
    BY <1>3, <1>5, BuildUnchanged DEF build
  <2>2. Cardinality(unresolved') = Cardinality(unresolved) + 1
    BY <1>3, <1>5, CardinalitiesOfParts, FS_AddElement
  <2>3. Apart'
    BY <1>1, <1>2, <1>3, <1>5, <2>1 DEF BuildInv, Apart
  <2>4. EachTeamOnce'
    <3>1. (DOMAIN placed \cup queue \cup Waiting(unplaced) \cup unresolved = Teams)'
      BY <1>1, <1>2, <1>5, <2>1 DEF BuildInv, EachTeamOnce, Waiting
    <3>2. (Cardinality(DOMAIN placed) + Cardinality(queue) + Len(unplaced)
              + Cardinality(unresolved) = Cardinality(Teams))'
      BY <1>1, <1>2, <2>1, <2>2, CardinalitiesOfParts DEF BuildInv, EachTeamOnce
    <3>. QED  BY <3>1, <3>2 DEF EachTeamOnce, Waiting
  <2>. QED  BY <1>1, <1>2, <1>3, <1>5, <2>1, <2>3, <2>4 DEF BuildInv
<1>. QED  BY <1>4, <1>5 DEF ResolveNext, t

\* The steps that leave the construction alone.
LEMMA LeftUnchanged ==
    ASSUME BuildInv, UNCHANGED <<left, build>>, ClimbInv',
           phase' \in {"greedy", "resolve", "search", "done"},
           phase' = "greedy" \/ queue = {}
    PROVE  BuildInv'
<1>1. Good(Built)'
  BY BuildUnchanged DEF BuildInv
<1>2. Apart' /\ EachTeamOnce'
  BY DEF BuildInv, Apart, EachTeamOnce, Waiting, NoTwice, left, build
<1>. QED  BY <1>1, <1>2 DEF BuildInv, left

LEMMA BuildInvStep == BuildInv /\ [Next]_practiceVars => BuildInv'
<1> SUFFICES ASSUME BuildInv, [Next]_practiceVars PROVE BuildInv'
  OBVIOUS
<1>1. CASE PlaceNext
  BY <1>1, PlaceNextInv
<1>2. CASE GreedyDone
  BY <1>2, LeftUnchanged, SearchUnchanged DEF GreedyDone, BuildInv
<1>3. CASE ResolveNext
  BY <1>3, ResolveNextInv
<1>4. CASE StartSearch
  <2>1. Sound(placed)
    BY BuiltPlaced DEF BuildInv
  <2>2. ClimbInv'
    BY <1>4, <2>1, ClimbFromInv DEF StartSearch, BuildInv, ClimbInv
  <2>. QED  BY <1>4, <2>2, LeftUnchanged DEF StartSearch, BuildInv
<1>5. CASE Iterate
  BY <1>5, ClimbKeepsTheBest, LeftUnchanged DEF Iterate, BuildInv
<1>6. CASE Finish
  BY <1>6, SearchUnchanged, LeftUnchanged DEF Finish, BuildInv
<1>7. CASE UNCHANGED practiceVars
  BY <1>7, SearchUnchanged, LeftUnchanged DEF practiceVars, BuildInv, left
<1>. QED  BY <1>1, <1>2, <1>3, <1>4, <1>5, <1>6, <1>7 DEF Next

LEMMA BuildInvariance == Spec => []BuildInv
<1>. QED  BY BuildInvInit, BuildInvStep, PTL DEF Spec

\* The maps are a recount of the assignments, after any number of teams taken
\* out, tried elsewhere and put back.
THEOREM CountersNeverDrift == Spec => []CountersAgree
<1>1. BuildInv => CountersAgree
  BY BuiltPlaced DEF BuildInv, Good, CountersAgree
<1>. QED  BY <1>1, BuildInvariance, PTL

\* Every schedule the code builds, holds or returns is sound.
THEOREM EverySchedulesSound == Spec => []SchedulesSound
<1>1. BuildInv => SchedulesSound
  BY BuiltPlaced DEF BuildInv, ClimbInv, SchedulesSound
<1>. QED  BY <1>1, BuildInvariance, PTL

\* Every state is well typed, and no team is ever lost or in two places.
THEOREM NoTeamLost == Spec => []PracticeInv
<1>1. BuildInv => PracticeInv
  <2> SUFFICES ASSUME BuildInv PROVE PracticeInv
    OBVIOUS
  <2>1. /\ placed \in Schedules /\ Built = Recount(placed)
    BY BuiltPlaced DEF BuildInv, Good
  <2>6. CountersAgree
    BY <2>1 DEF CountersAgree
  <2>2. /\ room = [s \in Slots |-> Capacity[s] - Cardinality(Used(placed, s))]
        /\ load = [k \in LoadKeys |-> Cardinality(LoadOf(placed, k))]
        /\ busy = [c \in CoachIds |->
               {<<t, placed[t]>> : t \in {u \in DOMAIN placed : c \in Coaches[u]}}]
    BY <2>1 DEF Built, Recount, LoadOf
  <2>3. room \in [Slots -> Int]
    BY <2>1, <2>2, UsedFinite, ScheduleAssumption
  <2>4. load \in [LoadKeys -> Int]
    BY <2>1, <2>2, LoadFinite
  <2>5. busy \in [CoachIds -> SUBSET (Teams \X Slots)]
    BY <2>1, <2>2, ScheduleFacts
  <2>. QED  BY <2>1, <2>3, <2>4, <2>5, <2>6 DEF BuildInv, ClimbInv, PracticeInv, PracticeTypeOK
<1>. QED  BY <1>1, BuildInvariance, PTL

\* Whatever the objective, the schedule kept as best is at least as fit as the
\* seed and as anything the search is at, and has a place for every team the
\* seed has.
THEOREM BestStaysBest == Spec => []BestIsBest
<1>1. BuildInv => BestIsBest
  BY DEF BuildInv, ClimbInv
<1>. QED  BY <1>1, BuildInvariance, PTL

-----------------------------------------------------------------------------
\* The abstract module's notion of a sound schedule is this one.
LEMMA SoundIsSound == \A a : Offers!Sound(a) <=> Sound(a)
<1>1. \A S : Offers!Cardinality(S) = Cardinality(S)
  BY DEF Cardinality, Offers!Cardinality
<1>2. /\ Offers!Schedules = Schedules /\ Offers!LockedTeams = LockedTeams
      /\ \A a, s : Offers!Used(a, s) = Used(a, s)
      /\ \A t, u : Offers!ShareCoach(t, u) <=> ShareCoach(t, u)
      /\ \A a : Offers!Movable(a) = Movable(a)
  BY DEF Offers!Schedules, Schedules, Offers!LockedTeams, LockedTeams, Offers!Used, Used,
         Offers!ShareCoach, ShareCoach, Offers!Movable, Movable
<1>. QED
  BY <1>1, <1>2 DEF Offers!Sound, Offers!Kept, Offers!Available, Offers!Roomy, Offers!Clear,
         Sound, Kept, Available, Roomy, Clear

LEMMA OfferInitial == Init => Offers!OfferInit
  BY DEF Init, Offers!OfferInit

LEMMA OfferStep ==
    BuildInv /\ [Next]_practiceVars
      => [Offers!Offered \/ Offers!Improved]_
            (IF phase \in {"search", "done"} THEN {best} ELSE {})
<1> SUFFICES ASSUME BuildInv, [Next]_practiceVars
             PROVE  \/ Offers!Offered \/ Offers!Improved
                    \/ UNCHANGED (IF phase \in {"search", "done"} THEN {best} ELSE {})
  OBVIOUS
<1>1. CASE PlaceNext \/ GreedyDone \/ ResolveNext
  <2>1. phase \notin {"search", "done"} /\ phase' \notin {"search", "done"}
    BY <1>1 DEF PlaceNext, GreedyDone, ResolveNext
  <2>. QED  BY <2>1
<1>2. CASE StartSearch
  <2>1. best' = placed /\ Sound(placed) /\ phase = "resolve" /\ phase' = "search"
    BY <1>2, BuiltPlaced DEF StartSearch, ClimbFrom, BuildInv
  <2>2. Offers!Sound(best')
    BY <2>1, SoundIsSound
  <2>. QED  BY <2>1, <2>2 DEF Offers!Offered
<1>3. CASE Iterate
  <2>1. phase = "search" /\ phase' = "search" /\ Climb /\ ClimbInv
    BY <1>3 DEF Iterate, BuildInv
  <2>2. CASE best' = best
    BY <2>1, <2>2
  <2>3. CASE Sound(best') /\ Fitness(best') > Fitness(best)
    <3>1. Offers!Sound(best')
      BY <2>3, SoundIsSound
    <3>. QED  BY <2>1, <2>3, <3>1 DEF Offers!Improved
  <2>. QED  BY <2>1, <2>2, <2>3, BestOnlyImproves
<1>4. CASE Finish \/ UNCHANGED practiceVars
  <2>1. /\ best' = best
        /\ phase \in {"search", "done"} <=> phase' \in {"search", "done"}
    BY <1>4 DEF Finish, practiceVars, search
  <2>. QED  BY <2>1
<1>. QED  BY <1>1, <1>2, <1>3, <1>4 DEF Next

\* The optimizer implements the abstract scheduler: one sound schedule, replaced
\* by a fitter one or by none.
THEOREM OptimizerImplementsOffer == Spec => ImplementsScheduleOffer
<1>. QED  BY BuildInvariance, OfferInitial, OfferStep, PTL
          DEF Spec, ImplementsScheduleOffer, Offers!OfferSpec

-----------------------------------------------------------------------------
(* The auto-scheduler Edge Function.                                        *)

\* Only locked teams can be in conflict in a sound schedule, and they are in
\* all of them, at the same slots.
LEMMA SoundConflicts ==
    ASSUME NEW a, Sound(a)
    PROVE  CoachConflicts(a) = CoachConflicts(Locked)
<1> DEFINE pairs(x) ==
        {q \in (DOMAIN x) \X (DOMAIN x) :
            q[1] # q[2] /\ ShareCoach(q[1], q[2]) /\ <<x[q[1]], x[q[2]]>> \in Overlap}
<1>1. LockedTeams \subseteq DOMAIN a /\ \A t \in LockedTeams : a[t] = Locked[t]
  BY DEF Sound, Kept
<1>2. ASSUME NEW q \in pairs(a) PROVE q \in pairs(Locked)
  <2>1. q[1] \in LockedTeams /\ q[2] \in LockedTeams
    BY <1>2 DEF Sound, Clear
  <2>. QED  BY <1>1, <1>2, <2>1 DEF LockedTeams
<1>3. ASSUME NEW q \in pairs(Locked) PROVE q \in pairs(a)
  BY <1>1, <1>3 DEF LockedTeams
<1>4. pairs(a) = pairs(Locked)
  BY <1>2, <1>3
<1>. HIDE DEF pairs
<1>5. /\ CoachConflicts(a) = {{p[1], p[2]} : p \in pairs(a)}
      /\ CoachConflicts(Locked) = {{p[1], p[2]} : p \in pairs(Locked)}
  BY DEF CoachConflicts, pairs
<1>. QED  BY <1>4, <1>5

\* So sound schedules of the same teams are equally fit.
LEMMA SameTeamsSameScore ==
    ASSUME NEW a, Sound(a), NEW b, Sound(b), DOMAIN a = DOMAIN b
    PROVE  Fitness(a) = Fitness(b)
<1>1. CoachConflicts(a) = CoachConflicts(b)
  BY SoundConflicts
<1>2. Score(a) = Score(b)
  BY <1>1 DEF Score
<1>3. a \in Schedules /\ b \in Schedules
  BY DEF Sound
<1>. QED  BY <1>2, <1>3, ServiceAssumption

NoneFits(a) == \A t \in Teams \ DOMAIN a, s \in Slots : ~Fits(a, t, s)

\* Where nobody more fits, no move is a climb.
LEMMA NothingClimbs ==
    ASSUME Sound(current), NoneFits(current), NEW a \in Moves(current)
    PROVE  ~Climbs(a)
<1>1. a \notin Relocations(current)
  BY RelocationFacts DEF NoneFits
<1>2. Sound(a) /\ DOMAIN a = DOMAIN current
  BY <1>1, SwapFacts, ChainFacts DEF Moves
<1>3. Fitness(a) = Fitness(current) /\ Fitness(current) \in Int
  BY <1>2, SameTeamsSameScore, FitnessType
<1>. QED  BY <1>3 DEF Climbs

-----------------------------------------------------------------------------
\* While the seed grows, whoever was passed over fits nowhere in it, and
\* whoever is waiting has no place; afterwards all three schedules are it.
SeedInv ==
    /\ ServiceTypeOK
    /\ Sound(seed)
    /\ stage # "answered" => answer = "none"
    /\ stage = "request" => seed = Locked
    /\ stage = "greedy" =>
          /\ unseen \cap DOMAIN seed = {}
          /\ \A t \in Teams \ (DOMAIN seed \cup unseen), s \in Slots : ~Fits(seed, t, s)
    /\ Scheduled => current = seed /\ best = seed /\ NoneFits(seed)

LEMMA SeedInit == ServiceInit => SeedInv
<1> SUFFICES ASSUME ServiceInit PROVE SeedInv
  OBVIOUS
<1>1. Sound(Locked) /\ Locked \in Schedules
  BY LockedSound DEF Sound
<1>. QED  BY <1>1, ClimbAssumption
          DEF ServiceInit, ClimbInit, SeedInv, ServiceTypeOK, ClimbTypeOK, Scheduled

\* The greedy loop: a team is put where it fits, or fits nowhere now and, as
\* slots only fill up, nowhere later.
LEMMA SeedNextInv ==
    ASSUME SeedInv, SeedNext
    PROVE  SeedInv'
<1>1. PICK t \in unseen :
          /\ unseen' = unseen \ {t}
          /\ \/ \E s \in Slots : Fits(seed, t, s) /\ seed' = Put(seed, t, s)
             \/ (\A s \in Slots : ~Fits(seed, t, s)) /\ UNCHANGED seed
  BY DEF SeedNext
<1>2. /\ stage = "greedy" /\ stage' = "greedy" /\ answer' = answer
      /\ UNCHANGED <<service, current, best, stall, restarts, iteration>>
      /\ ~Scheduled'
  BY DEF SeedNext, service, SeedInv, Scheduled
<1>3. t \in Teams \ DOMAIN seed /\ seed \in Schedules
  BY <1>1, <1>2 DEF SeedInv, ServiceTypeOK, Sound
<1>4. CASE \E s \in Slots : Fits(seed, t, s) /\ seed' = Put(seed, t, s)
  <2>1. PICK s \in Slots : Fits(seed, t, s) /\ seed' = Put(seed, t, s)
    BY <1>4
  <2>2. /\ Sound(seed') /\ seed' \in Schedules
        /\ DOMAIN seed' = DOMAIN seed \cup {t}
    BY <1>3, <2>1, PutSound, PutFacts DEF SeedInv
  <2>3. ASSUME NEW u \in Teams \ (DOMAIN seed' \cup unseen'), NEW v \in Slots
        PROVE  ~Fits(seed', u, v)
    <3>1. u \in Teams \ (DOMAIN seed \cup unseen)
      BY <1>1, <2>2, <2>3
    <3>. QED  BY <1>2, <1>3, <2>1, <3>1, FitsBefore DEF SeedInv
  <2>4. ServiceTypeOK'
    BY <1>1, <1>2, <2>2 DEF SeedInv, ServiceTypeOK, ClimbTypeOK, service
  <2>5. unseen' \cap DOMAIN seed' = {}
    BY <1>1, <1>2, <2>2 DEF SeedInv
  <2>. QED  BY <1>2, <2>2, <2>3, <2>4, <2>5 DEF SeedInv
<1>5. CASE (\A s \in Slots : ~Fits(seed, t, s)) /\ UNCHANGED seed
  <2>1. ServiceTypeOK'
    BY <1>1, <1>2, <1>5 DEF SeedInv, ServiceTypeOK, ClimbTypeOK, service
  <2>2. ASSUME NEW u \in Teams \ (DOMAIN seed' \cup unseen'), NEW v \in Slots
        PROVE  ~Fits(seed', u, v)
    BY <1>1, <1>2, <1>5, <2>2 DEF SeedInv
  <2>3. unseen' \cap DOMAIN seed' = {} /\ Sound(seed)'
    BY <1>1, <1>2, <1>5 DEF SeedInv, Sound, Kept, Available, Roomy, Clear, Movable, Used
  <2>. QED  BY <1>2, <1>5, <2>1, <2>2, <2>3 DEF SeedInv
<1>. QED  BY <1>1, <1>4, <1>5

\* An iteration changes counters only: what it draws is never a climb.
LEMMA IterationChangesNothing ==
    ASSUME SeedInv, stage = "search", Climb
    PROVE  UNCHANGED <<seed, current, best>>
<1>1. current = seed /\ Sound(current) /\ NoneFits(current)
  BY DEF SeedInv, Scheduled
<1>2. Stalls /\ UNCHANGED <<seed, best>>
  BY <1>1, NothingClimbs DEF Climb
<1>. QED  BY <1>1, <1>2 DEF Stalls

LEMMA ClimbCounts ==
    ASSUME ClimbTypeOK, Climb
    PROVE  /\ iteration' \in 0..MaxIterations /\ stall' \in Nat
           /\ restarts' \in 0..MaxRestarts
<1>1. iteration' \in 0..MaxIterations
  BY ClimbAssumption DEF ClimbTypeOK, Climb
<1>2. \/ stall' = 0 /\ restarts' = restarts
      \/ Stalls
  BY DEF Climb, Climbs
<1>3. stall' \in Nat /\ restarts' \in 0..MaxRestarts
  BY <1>2, ClimbAssumption DEF ClimbTypeOK, Stalls
<1>. QED  BY <1>1, <1>3

\* Every step of the service keeps the invariant.
LEMMA SeedStep == SeedInv /\ [ServiceNext]_serviceVars => SeedInv'
<1> SUFFICES ASSUME SeedInv, [ServiceNext]_serviceVars PROVE SeedInv'
  OBVIOUS
<1>. USE DEF Scheduled
<1>0. ASSUME UNCHANGED seed PROVE Sound(seed)' /\ (NoneFits(seed)' <=> NoneFits(seed))
  BY <1>0 DEF SeedInv, NoneFits
<1>1. CASE Refuse
  BY <1>0, <1>1 DEF Refuse, SeedInv, ServiceTypeOK, ClimbTypeOK, search
<1>2. CASE Accept
  <2>1. /\ seed' = Locked /\ Sound(seed)' /\ unseen' = Teams \ LockedTeams
        /\ stage' = "greedy" /\ answer' = "none"
    BY <1>0, <1>2 DEF Accept, SeedInv, search
  <2>2. ServiceTypeOK'
    BY <1>2 DEF Accept, Audit, SeedInv, ServiceTypeOK, ClimbTypeOK, search
  <2>3. unseen' \cap DOMAIN seed' = {} /\ Teams \ (DOMAIN seed' \cup unseen') = {}
    BY <2>1 DEF LockedTeams
  <2>. QED  BY <2>1, <2>2, <2>3 DEF SeedInv
<1>3. CASE SeedNext
  BY <1>3, SeedNextInv
<1>4. CASE StartClimb
  <2>1. /\ UNCHANGED <<seed, unseen, service>> /\ current' = seed /\ best' = seed
        /\ stage' = "search" /\ answer' = "none" /\ NoneFits(seed)
    BY <1>4 DEF StartClimb, ClimbFrom, SeedInv, NoneFits, service
  <2>2. ServiceTypeOK'
    BY <1>4 DEF StartClimb, ClimbFrom, SeedInv, ServiceTypeOK, ClimbTypeOK, service
  <2>. QED  BY <1>0, <2>1, <2>2 DEF SeedInv
<1>5. CASE IterateNothing
  <2>1. /\ UNCHANGED <<stage, unseen, service, seed, current, best>>
        /\ stage = "search"
    BY <1>5 DEF IterateNothing, SeedInv, Stalls
  <2>2. ClimbTypeOK'
    <3>1. stall' \in Nat /\ restarts' \in 0..MaxRestarts
      BY <1>5, ClimbAssumption DEF IterateNothing, SeedInv, ServiceTypeOK, ClimbTypeOK, Stalls
    <3>2. iteration' \in 0..MaxIterations
      BY <1>5, ClimbAssumption DEF IterateNothing, SeedInv, ServiceTypeOK, ClimbTypeOK
    <3>. QED  BY <2>1, <3>1, <3>2 DEF SeedInv, ServiceTypeOK, ClimbTypeOK
  <2>. QED  BY <1>0, <2>1, <2>2 DEF SeedInv, ServiceTypeOK, service
<1>6. ASSUME Climb, stage = "search", UNCHANGED unseen, runs' = runs,
             \/ UNCHANGED <<stage, service>>
             \/ /\ stage' = "answered" /\ answer' = "error"
                /\ trail' \in {trail \cup T : T \in SUBSET {"auto_progress", "auto_failed"}}
      PROVE  SeedInv'
  <2>1. UNCHANGED <<seed, current, best>>
    BY <1>6, IterationChangesNothing
  <2>2. ClimbTypeOK'
    BY <1>6, <2>1, ClimbCounts DEF SeedInv, ServiceTypeOK, ClimbTypeOK
  <2>3. ServiceTypeOK'
    BY <1>6, <2>2 DEF SeedInv, ServiceTypeOK, service
  <2>. QED  BY <1>0, <1>6, <2>1, <2>3 DEF SeedInv, service
<1>7. CASE IterateMove
  BY <1>6, <1>7 DEF IterateMove, service
<1>8. CASE ReportProgress
  BY <1>6, <1>8 DEF ReportProgress
<1>9. CASE StopSearch
  BY <1>0, <1>9 DEF StopSearch, SeedInv, ServiceTypeOK, ClimbTypeOK, service, search
<1>10. CASE Record
  <2>1. ServiceTypeOK'
    BY <1>10 DEF Record, Audit, SeedInv, ServiceTypeOK, ClimbTypeOK, search
  <2>. QED  BY <1>0, <1>10, <2>1 DEF Record, SeedInv, search
<1>11. CASE UNCHANGED serviceVars
  BY <1>0, <1>11 DEF SeedInv, ServiceTypeOK, ClimbTypeOK, serviceVars, service, search
<1>. QED  BY <1>1, <1>2, <1>3, <1>4, <1>5, <1>7, <1>8, <1>9, <1>10, <1>11 DEF ServiceNext

LEMMA SeedInvariant == ServiceSpec => []SeedInv
<1>. QED  BY SeedInit, SeedStep, PTL DEF ServiceSpec

\* Every state of a request is well typed, however many teams it names.
THEOREM ServiceTypeCorrect == ServiceSpec => []ServiceTypeOK
<1>1. SeedInv => ServiceTypeOK
  BY DEF SeedInv
<1>. QED  BY <1>1, SeedInvariant, PTL

\* The iterations of the service are for nothing, for every input: what it
\* answers with is the greedy construction.
THEOREM SearchAddsNothing == ServiceSpec => []SeedIsFinal
<1>1. SeedInv => SeedIsFinal
  BY DEF SeedInv, SeedIsFinal
<1>. QED  BY <1>1, SeedInvariant, PTL

\* A team is left out of the answer only if the answer has no slot for it.
THEOREM NobodyLeftOutForNothing == ServiceSpec => []LeftOutFitNowhere
<1>1. SeedInv => LeftOutFitNowhere
  BY DEF SeedInv, LeftOutFitNowhere, NoneFits
<1>. QED  BY <1>1, SeedInvariant, PTL

-----------------------------------------------------------------------------
\* The abstract module's notion of a sound schedule is this one.
LEMMA AnswerSound == \A a : Answers!Sound(a) <=> Sound(a)
<1>1. \A S : Answers!Cardinality(S) = Cardinality(S)
  BY DEF Cardinality, Answers!Cardinality
<1>2. /\ Answers!Schedules = Schedules /\ Answers!LockedTeams = LockedTeams
      /\ \A a, s : Answers!Used(a, s) = Used(a, s)
      /\ \A t, u : Answers!ShareCoach(t, u) <=> ShareCoach(t, u)
      /\ \A a : Answers!Movable(a) = Movable(a)
  BY DEF Answers!Schedules, Schedules, Answers!LockedTeams, LockedTeams, Answers!Used, Used,
         Answers!ShareCoach, ShareCoach, Answers!Movable, Movable
<1>. QED
  BY <1>1, <1>2 DEF Answers!Sound, Answers!Kept, Answers!Available, Answers!Roomy, Answers!Clear,
         Sound, Kept, Available, Roomy, Clear

LEMMA AnswerInitial == ServiceInit => Answers!OfferInit
  BY DEF ServiceInit, Scheduled, Answers!OfferInit

\* The one step that offers a schedule offers a sound one.
LEMMA AnswerStep ==
    SeedInv /\ [ServiceNext]_serviceVars
      => [Answers!Offered \/ Answers!Improved]_(IF Scheduled THEN {best} ELSE {})
<1> SUFFICES ASSUME SeedInv, [ServiceNext]_serviceVars
             PROVE  \/ Answers!Offered
                    \/ UNCHANGED (IF Scheduled THEN {best} ELSE {})
  OBVIOUS
<1>1. CASE Scheduled
  <2>1. SeedInv'
    BY SeedStep
  <2>2. Scheduled' /\ UNCHANGED seed
    BY <1>1, IterationChangesNothing
       DEF Scheduled, ServiceNext, Refuse, Accept, SeedNext, StartClimb, IterateNothing, IterateMove,
           ReportProgress, StopSearch, Record, SeedInv, service, search, serviceVars
  <2>3. best' = best
    BY <1>1, <2>1, <2>2 DEF SeedInv
  <2>. QED  BY <1>1, <2>2, <2>3
<1>2. CASE ~Scheduled /\ Scheduled'
  <2>1. StartClimb
    BY <1>2 DEF Scheduled, ServiceNext, Refuse, Accept, SeedNext, StartClimb, IterateNothing,
           IterateMove, ReportProgress, StopSearch, Record, SeedInv, service, search, serviceVars
  <2>2. best' = seed /\ Sound(seed)
    BY <2>1 DEF StartClimb, ClimbFrom, SeedInv
  <2>3. Answers!Sound(best')
    BY <2>2, AnswerSound
  <2>. QED  BY <1>2, <2>3 DEF Answers!Offered
<1>3. CASE ~Scheduled /\ ~Scheduled'
  BY <1>3
<1>. QED  BY <1>1, <1>2, <1>3

\* The service implements the abstract scheduler: it offers one sound schedule
\* and never worsens it.
THEOREM ServiceImplementsOffer == ServiceSpec => AnswersOffer
<1>. QED  BY SeedInvariant, AnswerInitial, AnswerStep, PTL
          DEF ServiceSpec, AnswersOffer, Answers!OfferSpec
=============================================================================
