------------------------ MODULE TeamGenerationProofs ------------------------
(***************************************************************************)
(* What every generation keeps, for any division, constraints and change   *)
(* policy, after any changes between two runs: where the players are       *)
(* (SeatsInv), that units got what they asked for (AskedInv), that what    *)
(* overflowed had no place left (HopelessInv) and who heads a team while   *)
(* applyCoachContinuity goes through them (AnchorInv).                     *)
(***************************************************************************)
EXTENDS TeamGeneration, FiniteSetTheorems, WellFoundedInduction, TLAPS

People == Coaches \cup {NoOne}

Member ==
    [id : Nat, head : People, locked : BOOLEAN, assistants : SUBSET Coaches,
     players : SUBSET Players]

Runs ==
    [fresh : BOOLEAN, policy : ChangePolicies, config : Constraints, before : Seq(People),
     late : SUBSET SUBSET Players, at : Nat, anchored : SUBSET Coaches,
     replaced : SUBSET Coaches]

TypeOK ==
    /\ reg \in [Players -> Registration]
    /\ teams \in Seq(Member)
    /\ overflow \in SUBSET SUBSET Players
    /\ todo \in SUBSET SUBSET Players
    /\ demoted \in SUBSET SUBSET Players
    /\ stage \in {"idle", "coaches", "place"}
    /\ stage # "idle" => run \in Runs
    /\ stage = "coaches" => run.at \in DOMAIN teams

\* Who waits in a unit, or was left over in one
Waiting == UNION (overflow \cup todo)

\* NobodyLost without counting, and that the units are those of late players,
\* of whom no two brought head coaches who exclude each other.  Between two
\* runs only the first line holds: people come and go.
SeatedOnce ==
    \A i, j \in DOMAIN teams : i # j => teams[i].players \cap teams[j].players = {}

UnitsOfLate ==
    LET late == UNION run.late
    IN  /\ run.late = Units(late) /\ ~Conflicting(late)
        /\ todo \cup overflow \subseteq run.late /\ todo \cap overflow = {}

Accounted ==
    /\ Here = Seated \cup Waiting
    /\ Seated \cap Waiting = {}
    /\ stage = "coaches" => overflow = {} /\ todo = run.late

DemotedAssist ==
    \A u \in demoted : ~run.fresh /\ HeadsOf(u) = {} /\ BringsAdult(u)

SeatsInv ==
    /\ SeatedOnce
    /\ stage # "idle" => UnitsOfLate /\ Accounted /\ DemotedAssist

\* The body of OverflowIsReal, which must hold from the moment u is given up.
Open(u) == {i \in DOMAIN teams : ~teams[i].locked /\ Room(teams[i], u)}
Own(u)  == {i \in DOMAIN teams : teams[i].head \in HeadsOf(u)}
May(u)  == CanCreate /\ Room(Team(0, NoOne), u)

Hopeless(u) ==
    IF HeadsOf(u) # {}
    THEN IF Own(u) = {} THEN ~CanCreate ELSE Min(Own(u)) \notin Open(u)
    ELSE IF Buddies(u) # {}
    THEN \A i \in Open(u) : teams[i].players \cap Buddies(u) = {}
    ELSE IF AssistantsOf(u) # {} /\ run.fresh
    THEN ~May(u) /\ \A i \in Open(u) : teams[i].head # NoOne /\ teams[i].assistants # {}
    ELSE Open(u) = {} /\ (~run.fresh => ~May(u))

\* A fresh run adds teams for adults only, and these come first: once a unit
\* without an adult is left over, no team is added.
AdultsFirst ==
    run.fresh /\ (\E u \in overflow : ~BringsAdult(u)) => AdultUnits = {}

HopelessInv == stage = "place" => AdultsFirst /\ \A u \in overflow : Hopeless(u)

\* While heads are replaced team by team: those to come are as they were, and
\* whom the code does not hold for anchored is nobody, gone, or was replaced.
\* A replacement who is no longer spoken for heads only teams of the coach he
\* replaced, and one of them at least.
StillToCome ==
    /\ DOMAIN run.before = DOMAIN teams
    /\ \A i \in DOMAIN teams : i >= run.at => teams[i].head = run.before[i]

Spoken(c) == c = NoOne \/ c \in run.anchored \/ c \in run.replaced \/ c \notin Active

Replacement(c) ==
    LET new == run.policy.replacements[c]
    IN  \/ new \in {c} \cup run.replaced \/ new \notin Active
        \/ /\ new \in run.anchored
           /\ \A i \in DOMAIN teams : teams[i].head = new => run.before[i] = c
           /\ \E i \in DOMAIN teams : teams[i].head = new

AnchorInv ==
    /\ OneAnchor
    /\ stage = "coaches" =>
         /\ StillToCome
         /\ \A i \in DOMAIN teams : Spoken(teams[i].head)
         /\ run.replaced \subseteq DOMAIN run.policy.replacements
         /\ \A c \in run.replaced : Replacement(c)

AskedInv == stage # "idle" => PlacedAsAsked

GenerationInv ==
    TypeOK /\ IdsUnique /\ SeatsInv /\ AskedInv /\ HopelessInv /\ AnchorInv

-----------------------------------------------------------------------------
(* Least elements, counting, and the numbers of new teams                   *)

HasMinimal(F) == \E x \in F : \A y \in F : y \subseteq x => y = x

\* A set of subsets of a finite set has one that contains no other.
LEMMA MinimalMember ==
    ASSUME NEW S, IsFiniteSet(S), NEW F \in SUBSET SUBSET S, F # {}
    PROVE  HasMinimal(F)
<1>1. F \subseteq FiniteSubsetsOf(S)
  BY FS_FiniteSubsetsOfFinite
<1>2. \E x \in F : \A y \in F : ~(<<y, x>> \in StrictSubsetOrdering(S))
  BY <1>1, FS_StrictSubsetOrderingWellFounded, WFMin
<1>. QED  BY <1>2 DEF StrictSubsetOrdering, HasMinimal

\* A set of numbers has a least one: that whose initial segment is minimal.
LEMMA LeastNumber ==
    ASSUME NEW T, T \subseteq Nat, T # {}
    PROVE  \E x \in T : \A y \in T : x <= y
<1>1. PICK n \in T : n \in Nat
  OBVIOUS
<1> DEFINE F == {0 .. k : k \in T \cap (0 .. n)}
<1>2. IsFiniteSet(0 .. n)
  BY <1>1, FS_Interval
<1>3. F \subseteq SUBSET (0 .. n)
  BY <1>1
<1>4. F # {}
  <2>1. 0 .. n \in F
    BY <1>1
  <2>. QED  BY <2>1
<1>5. HasMinimal(F)
  <2>. HIDE DEF F
  <2>. QED  BY <1>2, <1>3, <1>4, MinimalMember
<1>6. PICK k \in T \cap (0 .. n) : \A y \in F : y \subseteq 0 .. k => y = 0 .. k
  BY <1>5 DEF HasMinimal
<1>7. ASSUME NEW y \in T, y < k PROVE FALSE
  <2>1. y \in 0 .. n /\ k \in Nat /\ y \in Nat
    BY <1>1, <1>6, <1>7
  <2>2. 0 .. y \in F
    BY <2>1
  <2>3. 0 .. y \subseteq 0 .. k
    BY <1>7, <2>1
  <2>4. 0 .. y = 0 .. k
    BY <1>6, <2>2, <2>3
  <2>5. k \in 0 .. y
    BY <2>1, <2>4
  <2>. QED  BY <1>7, <2>1, <2>5
<1>. QED  BY <1>1, <1>6, <1>7

LEMMA MinFacts ==
    ASSUME NEW T, T \subseteq Nat, T # {}
    PROVE  Min(T) \in T /\ \A y \in T : Min(T) <= y
  BY LeastNumber DEF Min

\* At most as many ids as teams: a number between their count and twice that
\* is free.
LEMMA NewIdFacts ==
    ASSUME teams \in Seq(Member)
    PROVE  NewId \in Nat /\ \A i \in DOMAIN teams : teams[i].id # NewId
<1> DEFINE n == Len(teams)
           I == n + 1 .. 2 * n + 1
           D == {teams[i].id : i \in DOMAIN teams}
<1>1. n \in Nat /\ DOMAIN teams = 1 .. n
  OBVIOUS
<1>2. \A i \in 1 .. n : teams[i].id \in Nat
  <2>1. \A i \in 1 .. n : teams[i] \in Member
    BY <1>1
  <2>. QED  BY <2>1 DEF Member
<1>3. I \ D # {}
  <2>1. SUFFICES ASSUME I \subseteq D PROVE FALSE
    OBVIOUS
  <2> DEFINE f == [x \in I |-> CHOOSE i \in 1 .. n : teams[i].id = x]
  <2>2. \A x \in I : f[x] \in 1 .. n /\ teams[f[x]].id = x
    BY <1>1, <2>1
  <2>3. f \in [I -> 1 .. n]
    BY <2>2
  <2>4. IsFiniteSet(1 .. n) /\ Cardinality(1 .. n) = n
    BY <1>1, FS_Interval, 1 \in Int, n \in Int
  <2>5. IsFiniteSet(I) /\ Cardinality(I) = n + 1
    <3>1. n + 1 \in Int /\ 2 * n + 1 \in Int /\ ~(n + 1 > 2 * n + 1)
      BY <1>1
    <3>. QED  BY <1>1, <3>1, FS_Interval
  <2>6. Cardinality(1 .. n) < Cardinality(I)
    BY <1>1, <2>4, <2>5
  <2>. HIDE DEF f, I, n
  <2>7. \E x, y \in I : x # y /\ f[x] = f[y]
    BY <2>3, <2>4, <2>5, <2>6, FS_PigeonHole
  <2>. QED  BY <2>2, <2>7
<1>4. I \ D \subseteq Nat
  BY <1>1
<1>5. Min(I \ D) \in I \ D
  <2>. HIDE DEF I, D
  <2>. QED  BY <1>3, <1>4, MinFacts
<1>. QED  BY <1>4, <1>5 DEF NewId

-----------------------------------------------------------------------------
(* Units and the adults and buddies they bring                              *)

LEMMA SeatFacts ==
    ASSUME TypeOK, NEW i \in DOMAIN teams
    PROVE  teams[i] \in Member
  BY DEF TypeOK

LEMMA RegFacts ==
    ASSUME TypeOK, NEW p \in Players
    PROVE  /\ reg[p].here \in BOOLEAN /\ reg[p].coach \in People
           /\ reg[p].assistant \in People /\ reg[p].buddy \in Players \cup {NoOne}
<1>1. reg[p] \in Registration
  BY DEF TypeOK
<1>. QED  BY <1>1 DEF Registration, People

\* Buddies are paired off, so units share nobody.
LEMMA UnitFacts ==
    ASSUME TypeOK, NEW S, S \subseteq Players
    PROVE  /\ UNION Units(S) = S
           /\ \A u \in Units(S) : u # {}
           /\ \A u, v \in Units(S) : u # v => u \cap v = {}
<1> DEFINE U(p) == {p} \cup {q \in S : Mutual(p, q)}
<1>1. \A p \in S : p \in U(p) /\ U(p) \subseteq S /\ U(p) \in Units(S)
  BY DEF Units
<1>2. \A u \in Units(S) : \E p \in S : u = U(p)
  BY DEF Units
<1>3. ASSUME NEW p \in S, NEW q \in S, NEW x \in U(p), x \in U(q)
      PROVE  U(p) = U(q)
  <2>1. \A y : y \in U(p) <=> y = p \/ (y \in S /\ reg[p].buddy = y /\ reg[y].buddy = p /\ p # y)
    BY DEF Mutual
  <2>2. \A y : y \in U(q) <=> y = q \/ (y \in S /\ reg[q].buddy = y /\ reg[y].buddy = q /\ q # y)
    BY DEF Mutual
  <2>. HIDE DEF U
  <2>3. p \in U(q) /\ q \in U(p)
    BY <1>3, <2>1, <2>2
  <2>4. \A y : y \in U(p) <=> y \in U(q)
    BY <2>1, <2>2, <2>3
  <2>5. U(p) \subseteq S /\ U(q) \subseteq S
    BY <1>1
  <2>. QED  BY <2>4, <2>5
<1>. HIDE DEF U
<1>. QED  BY <1>1, <1>2, <1>3

\* A unit brings one head coach at most.
LEMMA OneHead ==
    ASSUME TypeOK, SeatsInv, stage # "idle", NEW u \in run.late, NEW c \in HeadsOf(u)
    PROVE  HeadsOf(u) = {c}
<1>1. u \subseteq Players /\ u \in Units(UNION run.late)
  BY DEF TypeOK, Runs, SeatsInv, UnitsOfLate
<1>2. ~(Cardinality(HeadsOf(u)) > 1)
  BY <1>1 DEF SeatsInv, UnitsOfLate, Conflicting
<1> DEFINE T == {reg[p].coach : p \in u}
           f == [p \in u |-> reg[p].coach]
<1>3. IsFiniteSet(u)
  BY <1>1, DivisionAssumption, FS_Subset
<1>4. f \in Surjection(u, T)
  BY DEF Surjection
<1>5. IsFiniteSet(T)
  <2>. HIDE DEF T, f
  <2>. QED  BY <1>3, <1>4, FS_Surjection
<1>6. IsFiniteSet(HeadsOf(u))
  <2>1. HeadsOf(u) \in SUBSET T
    BY DEF HeadsOf
  <2>. HIDE DEF T
  <2>. QED  BY <1>5, <2>1, FS_Subset
<1>7. Cardinality(HeadsOf(u)) = 1
  BY <1>2, <1>6, FS_CardinalityType, FS_EmptySet
<1>8. \E x : HeadsOf(u) = {x}
  BY <1>6, <1>7, FS_Singleton
<1>. QED  BY <1>8

\* A buddy who has a team is no late player, and there is one at most.
LEMMA BuddyFacts ==
    ASSUME TypeOK, SeatsInv, stage # "idle", NEW u \in run.late
    PROVE  /\ Buddies(u) \cap UNION run.late = {}
           /\ Buddies(u) # {} => ~BringsAdult(u) /\ \E q \in Here : Buddies(u) = {q}
<1> DEFINE late == UNION run.late
<1>1. SUFFICES ASSUME NEW q \in Buddies(u)
      PROVE  q \notin late /\ ~BringsAdult(u) /\ q \in Here /\ Buddies(u) = {q}
  <2>1. \A q \in Buddies(u) : q \notin late /\ ~BringsAdult(u) /\ q \in Here /\ Buddies(u) = {q}
    BY <1>1
  <2>. QED  BY <2>1
<1>2. u \subseteq Players /\ u \in Units(late) /\ IsFiniteSet(u)
  BY DivisionAssumption, FS_Subset DEF TypeOK, Runs, SeatsInv, UnitsOfLate
<1>3. Cardinality(u) = 1 /\ q \in Here \ u /\ ~BringsAdult(u)
  BY DEF Buddies
<1>4. PICK p : u = {p}
  BY <1>2, <1>3, FS_Singleton
<1>5. Mutual(p, q)
  BY <1>4 DEF Buddies
<1>6. q \notin late
  <2>1. PICK x \in late : u = {x} \cup {y \in late : Mutual(x, y)}
    BY <1>2 DEF Units
  <2>2. x = p
    BY <1>4, <2>1
  <2>. QED  BY <1>3, <1>5, <2>1, <2>2
<1>7. Buddies(u) = {q}
  <2>1. \A y \in Buddies(u) : Mutual(p, y)
    BY <1>4 DEF Buddies
  <2>. QED  BY <1>5, <2>1 DEF Mutual
<1>. QED  BY <1>3, <1>6, <1>7

-----------------------------------------------------------------------------
(* The steps of a placement: a unit takes a seat, is left over, or becomes  *)
(* an ordinary one                                                          *)

\* The teams there are, or one more for a coach without one or for nobody yet.
MayHead ==
    {c \in People :
        /\ CanCreate /\ (~run.fresh \/ AdultUnits # {})
        /\ c = NoOne \/ \A j \in DOMAIN teams : teams[j].head # c}

NewTeams == {Created(c) : c \in MayHead}

SeatStep(u, ts, i) ==
    /\ ts = teams \/ (ts \in NewTeams /\ i = Len(teams) + 1)
    /\ i \in DOMAIN ts /\ ~ts[i].locked
    /\ HeadsOf(u) \subseteq {ts[i].head} /\ Buddies(u) \subseteq ts[i].players
    /\ TrySeat(ts, i, u)
    /\ todo' = todo \ {u} /\ UNCHANGED demoted

LeaveStep(u) ==
    GiveUp(u) /\ todo' = todo \ {u} /\ UNCHANGED demoted

DemoteStep(u) ==
    /\ ~run.fresh /\ HeadsOf(u) = {} /\ BringsAdult(u)
    /\ demoted' = demoted \cup {u}
    /\ UNCHANGED <<teams, overflow, todo>>

LEMMA TeamFacts ==
    ASSUME NEW n, NEW h
    PROVE  /\ Team(n, h).id = n /\ Team(n, h).head = h /\ ~Team(n, h).locked
           /\ Team(n, h).assistants = {} /\ Team(n, h).players = {}
  BY DEF Team

LEMMA BoardFacts ==
    ASSUME TypeOK, NEW h \in People
    PROVE  /\ Created(h) \in Seq(Member)
           /\ Len(Created(h)) = Len(teams) + 1
           /\ DOMAIN Created(h) = DOMAIN teams \cup {Len(teams) + 1}
           /\ Len(teams) + 1 \notin DOMAIN teams /\ Len(teams) \in Nat
           /\ \A i \in DOMAIN teams : Created(h)[i] = teams[i] /\ i < Len(teams) + 1
           /\ Created(h)[Len(teams) + 1] = Team(NewId, h)
<1>1. teams \in Seq(Member) /\ NewId \in Nat
  BY NewIdFacts DEF TypeOK
<1>2. Team(NewId, h) \in Member
  BY <1>1 DEF Team, Member
<1>. HIDE DEF Team, NewId
<1>3. Created(h) = Append(teams, Team(NewId, h))
  BY DEF Created
<1>. QED  BY <1>1, <1>2, <1>3

LEMMA TeamsAreIndexed ==
    ASSUME TypeOK, NEW T, T \subseteq DOMAIN teams, T # {}
    PROVE  Min(T) \in T /\ \A i \in T : Min(T) <= i
<1>1. T \subseteq Nat
  BY DEF TypeOK
<1>. QED  BY <1>1, MinFacts

\* Every unit is one of the late ones, and what it brings is known.
LEMMA UnitTypes ==
    ASSUME TypeOK, NEW u \in SUBSET Players
    PROVE  /\ HeadsOf(u) \subseteq Coaches /\ AssistantsOf(u) \subseteq Coaches
           /\ IsFiniteSet(u) /\ Cardinality(u) \in Nat
           /\ BringsAdult(u) <=> HeadsOf(u) # {} \/ AssistantsOf(u) # {}
  BY RegFacts, DivisionAssumption, FS_Subset, FS_CardinalityType
     DEF HeadsOf, AssistantsOf, BringsAdult, People

LEMMA PlaceWithHeadStep ==
    ASSUME TypeOK, SeatsInv, stage = "place", PlaceWithHead
    PROVE  \E u \in AdultUnits :
             /\ HeadsOf(u) # {}
             /\ \/ Own(u) # {} /\ SeatStep(u, teams, Min(Own(u)))
                \/ Own(u) = {} /\ \E ts \in NewTeams : SeatStep(u, ts, Len(teams) + 1)
                \/ /\ IF Own(u) = {} THEN ~CanCreate ELSE teams[Min(Own(u))].locked
                   /\ LeaveStep(u)
<1>1. PICK u \in AdultUnits : \E c \in HeadsOf(u) :
          LET own == {i \in DOMAIN teams : teams[i].head = c}
          IN  /\ \/ /\ own # {} /\ ~teams[Min(own)].locked
                    /\ TrySeat(teams, Min(own), u)
                 \/ /\ own = {} /\ CanCreate
                    /\ TrySeat(Created(c), Len(teams) + 1, u)
                 \/ /\ IF own = {} THEN ~CanCreate ELSE teams[Min(own)].locked
                    /\ GiveUp(u)
              /\ todo' = todo \ {u}
              /\ UNCHANGED demoted
  BY DEF PlaceWithHead
<1>2. PICK c \in HeadsOf(u) :
          LET own == {i \in DOMAIN teams : teams[i].head = c}
          IN  /\ \/ /\ own # {} /\ ~teams[Min(own)].locked
                    /\ TrySeat(teams, Min(own), u)
                 \/ /\ own = {} /\ CanCreate
                    /\ TrySeat(Created(c), Len(teams) + 1, u)
                 \/ /\ IF own = {} THEN ~CanCreate ELSE teams[Min(own)].locked
                    /\ GiveUp(u)
              /\ todo' = todo \ {u}
              /\ UNCHANGED demoted
  BY <1>1
<1> DEFINE own == {i \in DOMAIN teams : teams[i].head = c}
<1>3. u \in todo /\ BringsAdult(u) /\ u \in run.late /\ u \in SUBSET Players
  BY DEF AdultUnits, SeatsInv, UnitsOfLate, TypeOK, Runs
<1>4. c \in People
  BY <1>3, UnitTypes DEF People
<1>5. HeadsOf(u) = {c} /\ Buddies(u) = {} /\ own = Own(u)
  BY <1>3, OneHead, BuddyFacts DEF Own
<1>6. CASE own # {} /\ ~teams[Min(own)].locked /\ TrySeat(teams, Min(own), u)
  <2>1. Min(own) \in own
    BY <1>6, TeamsAreIndexed
  <2>2. SeatStep(u, teams, Min(own))
    BY <1>2, <1>5, <1>6, <2>1 DEF SeatStep
  <2>. QED  BY <1>5, <1>6, <2>2
<1>7. CASE own = {} /\ CanCreate /\ TrySeat(Created(c), Len(teams) + 1, u)
  <2>1. c \in MayHead
    BY <1>2, <1>4, <1>7 DEF MayHead
  <2>2. Created(c) \in NewTeams
    BY <2>1 DEF NewTeams
  <2>3. ~Created(c)[Len(teams) + 1].locked /\ Created(c)[Len(teams) + 1].head = c
    BY <1>4, BoardFacts, TeamFacts
  <2>4. Len(teams) + 1 \in DOMAIN Created(c)
    BY <1>4, BoardFacts
  <2>5. SeatStep(u, Created(c), Len(teams) + 1)
    BY <1>2, <1>5, <1>7, <2>2, <2>3, <2>4 DEF SeatStep
  <2>. QED  BY <1>5, <1>7, <2>2, <2>5
<1>8. CASE (IF own = {} THEN ~CanCreate ELSE teams[Min(own)].locked) /\ GiveUp(u)
  BY <1>2, <1>5, <1>8 DEF LeaveStep
<1>. QED  BY <1>2, <1>6, <1>7, <1>8

LEMMA BackfillFacts ==
    ASSUME NEW u, NEW i \in Backfill(u)
    PROVE  i \in DOMAIN teams /\ ~teams[i].locked /\ Room(teams[i], u)
  BY DEF Backfill

LEMMA PlaceWithAssistantStep ==
    ASSUME TypeOK, SeatsInv, stage = "place", PlaceWithAssistant
    PROVE  \E u \in AdultUnits :
             /\ HeadsOf(u) = {} /\ AssistantsOf(u) # {}
             /\ \/ \E i \in Backfill(u) : SeatStep(u, teams, i)
                \/ CanCreate /\ SeatStep(u, Created(NoOne), Len(teams) + 1)
                \/ Backfill(u) = {} /\ ~CanCreate /\ run.fresh /\ LeaveStep(u)
                \/ DemoteStep(u)
<1>1. PICK u \in AdultUnits :
          LET helped == Backfill(u)
              shell  == CanCreate /\ (run.fresh \/ run.policy.shells)
          IN  /\ HeadsOf(u) = {}
              /\ \/ /\ helped # {} /\ TrySeat(teams, Min(helped), u)
                    /\ todo' = todo \ {u} /\ UNCHANGED demoted
                 \/ /\ helped = {} /\ shell
                    /\ TrySeat(Created(NoOne), Len(teams) + 1, u)
                    /\ todo' = todo \ {u} /\ UNCHANGED demoted
                 \/ /\ helped = {} /\ ~shell /\ run.fresh
                    /\ GiveUp(u)
                    /\ todo' = todo \ {u} /\ UNCHANGED demoted
                 \/ /\ helped = {} /\ ~shell /\ ~run.fresh
                    /\ demoted' = demoted \cup {u}
                    /\ UNCHANGED <<teams, overflow, todo>>
  BY DEF PlaceWithAssistant
<1>2. u \in todo /\ BringsAdult(u) /\ u \in run.late /\ u \in SUBSET Players
  BY <1>1 DEF AdultUnits, SeatsInv, UnitsOfLate, TypeOK, Runs
<1>3. Buddies(u) = {} /\ AssistantsOf(u) # {}
  BY <1>1, <1>2, BuddyFacts DEF BringsAdult
<1>4. CASE Backfill(u) # {} /\ TrySeat(teams, Min(Backfill(u)), u) /\ todo' = todo \ {u} /\ UNCHANGED demoted
  <2>1. Min(Backfill(u)) \in Backfill(u)
    BY <1>4, TeamsAreIndexed, BackfillFacts
  <2>2. SeatStep(u, teams, Min(Backfill(u)))
    BY <1>1, <1>3, <1>4, <2>1, BackfillFacts DEF SeatStep
  <2>. QED  BY <1>1, <1>3, <2>1, <2>2
<1>5. CASE CanCreate /\ TrySeat(Created(NoOne), Len(teams) + 1, u) /\ todo' = todo \ {u} /\ UNCHANGED demoted
  <2>1. NoOne \in People /\ NoOne \in MayHead
    BY <1>1, <1>5 DEF MayHead, People
  <2>2. NoOne \in People /\ Created(NoOne) \in NewTeams
    BY <2>1 DEF NewTeams
  <2>3. ~Created(NoOne)[Len(teams) + 1].locked /\ Len(teams) + 1 \in DOMAIN Created(NoOne)
    BY <2>2, BoardFacts, TeamFacts
  <2>4. SeatStep(u, Created(NoOne), Len(teams) + 1)
    BY <1>1, <1>3, <1>5, <2>2, <2>3 DEF SeatStep
  <2>. QED  BY <1>1, <1>3, <1>5, <2>4
<1>6. CASE /\ Backfill(u) = {} /\ ~CanCreate /\ run.fresh
           /\ GiveUp(u) /\ todo' = todo \ {u} /\ UNCHANGED demoted
  BY <1>1, <1>3, <1>6 DEF LeaveStep
<1>7. CASE ~run.fresh /\ demoted' = demoted \cup {u} /\ UNCHANGED <<teams, overflow, todo>>
  BY <1>1, <1>2, <1>3, <1>7 DEF DemoteStep
<1>. QED  BY <1>1, <1>4, <1>5, <1>6, <1>7

\* The buddy of a waiting unit has a team: he is here and does not wait.
LEMMA BuddySeated ==
    ASSUME TypeOK, SeatsInv, stage # "idle", NEW u \in run.late, NEW q, Buddies(u) = {q}
    PROVE  \E i \in DOMAIN teams : q \in teams[i].players
<1>1. q \in Here /\ q \notin UNION run.late
  BY BuddyFacts
<1>2. q \notin Waiting
  BY <1>1 DEF Waiting, SeatsInv, UnitsOfLate
<1>. QED  BY <1>1, <1>2 DEF SeatsInv, Accounted, Seated

LEMMA PlaceWithBuddyStep ==
    ASSUME TypeOK, SeatsInv, stage = "place", PlaceWithBuddy
    PROVE  \E u \in BuddyUnits, i \in DOMAIN teams :
             /\ HeadsOf(u) = {} /\ Buddies(u) \subseteq teams[i].players
             /\ SeatStep(u, teams, i) \/ (teams[i].locked /\ LeaveStep(u))
<1>1. PICK u \in BuddyUnits : \E i \in {j \in DOMAIN teams : Buddies(u) \subseteq teams[j].players} :
          /\ IF teams[i].locked THEN GiveUp(u) ELSE TrySeat(teams, i, u)
          /\ todo' = todo \ {u}
  BY DEF PlaceWithBuddy
<1>2. PICK i \in DOMAIN teams :
          /\ Buddies(u) \subseteq teams[i].players
          /\ IF teams[i].locked THEN GiveUp(u) ELSE TrySeat(teams, i, u)
          /\ todo' = todo \ {u}
  BY <1>1
<1>3. u \in todo /\ u \in run.late /\ Buddies(u) # {} /\ UNCHANGED demoted
  BY DEF PlaceWithBuddy, BuddyUnits, SeatsInv, UnitsOfLate
<1>4. HeadsOf(u) = {}
  BY <1>3, BuddyFacts DEF BringsAdult
<1>. QED  BY <1>2, <1>3, <1>4 DEF SeatStep, LeaveStep

LEMMA OtherFacts ==
    ASSUME TypeOK, SeatsInv, stage = "place", NEW u \in OtherUnits
    PROVE  /\ u \in todo /\ u \in run.late /\ u \in SUBSET Players
           /\ HeadsOf(u) = {} /\ Buddies(u) = {}
           /\ run.fresh => AssistantsOf(u) = {}
<1>1. u \in todo /\ u \in run.late /\ u \in SUBSET Players
  BY DEF OtherUnits, SeatsInv, UnitsOfLate, TypeOK
<1>2. CASE u \in demoted
  BY <1>1, <1>2, BuddyFacts DEF SeatsInv, DemotedAssist
<1>3. CASE ~BringsAdult(u) /\ Buddies(u) = {}
  BY <1>1, <1>3 DEF BringsAdult
<1>. QED  BY <1>1, <1>2, <1>3 DEF OtherUnits

LEMMA PlaceAnywhereStep ==
    ASSUME TypeOK, SeatsInv, stage = "place", PlaceAnywhere
    PROVE  \E u \in OtherUnits :
             \/ \E i \in Open(u) : SeatStep(u, teams, i)
             \/ May(u) /\ SeatStep(u, Created(NoOne), Len(teams) + 1)
             \/ Open(u) = {} /\ (~run.fresh => ~May(u)) /\ LeaveStep(u)
<1>1. PICK u \in OtherUnits :
          LET open == {i \in DOMAIN teams : ~teams[i].locked /\ Room(teams[i], u)}
              add  == ~run.fresh /\ CanCreate /\ Room(Team(0, NoOne), u)
          IN  /\ \/ \E i \in open : TrySeat(teams, i, u)
                 \/ open = {} /\ add /\ TrySeat(Created(NoOne), Len(teams) + 1, u)
                 \/ open = {} /\ ~add /\ GiveUp(u)
              /\ todo' = todo \ {u}
  BY DEF PlaceAnywhere
<1>2. UNCHANGED demoted
  BY DEF PlaceAnywhere
<1>3. u \in todo /\ HeadsOf(u) = {} /\ Buddies(u) = {}
  BY OtherFacts
<1>4. ASSUME NEW i \in DOMAIN teams, ~teams[i].locked, TrySeat(teams, i, u)
      PROVE  SeatStep(u, teams, i)
  BY <1>1, <1>2, <1>3, <1>4 DEF SeatStep
<1>5. ASSUME ~run.fresh, CanCreate, TrySeat(Created(NoOne), Len(teams) + 1, u)
      PROVE  SeatStep(u, Created(NoOne), Len(teams) + 1)
  <2>1. NoOne \in People /\ NoOne \in MayHead
    BY <1>5 DEF MayHead, People
  <2>2. Created(NoOne) \in NewTeams
    BY <2>1 DEF NewTeams
  <2>3. ~Created(NoOne)[Len(teams) + 1].locked /\ Len(teams) + 1 \in DOMAIN Created(NoOne)
    BY <2>1, BoardFacts, TeamFacts
  <2>. QED  BY <1>1, <1>2, <1>3, <1>5, <2>2, <2>3 DEF SeatStep
<1>6. Open(u) = {i \in DOMAIN teams : ~teams[i].locked /\ Room(teams[i], u)}
  BY DEF Open
<1>. QED  BY <1>1, <1>2, <1>4, <1>5, <1>6 DEF LeaveStep, May

\* Every step of a placement is one of three.
LEMMA PlaceStep ==
    ASSUME TypeOK, SeatsInv, Place
    PROVE  /\ stage = "place" /\ UNCHANGED <<reg, stage, run, changes>>
           /\ \E u \in todo : LeaveStep(u) \/ DemoteStep(u) \/ \E ts, i : SeatStep(u, ts, i)
<1>1. stage = "place" /\ UNCHANGED <<reg, stage, run, changes>>
  BY DEF Place
<1>2. CASE PlaceWithHead
  BY <1>1, <1>2, PlaceWithHeadStep DEF AdultUnits
<1>3. CASE PlaceWithAssistant
  BY <1>1, <1>3, PlaceWithAssistantStep DEF AdultUnits
<1>4. CASE PlaceWithBuddy
  BY <1>1, <1>4, PlaceWithBuddyStep DEF BuddyUnits
<1>5. CASE PlaceAnywhere
  BY <1>1, <1>5, PlaceAnywhereStep DEF OtherUnits
<1>. QED  BY <1>1, <1>2, <1>3, <1>4, <1>5 DEF Place

\* The board a unit is seated on: the teams, and one more at most.
LEMMA SeatBoard ==
    ASSUME TypeOK, NEW u, NEW ts, NEW i, SeatStep(u, ts, i)
    PROVE  /\ ts \in Seq(Member) /\ i \in DOMAIN ts /\ ~ts[i].locked
           /\ HeadsOf(u) \subseteq {ts[i].head} /\ Buddies(u) \subseteq ts[i].players
           /\ todo' = todo \ {u} /\ demoted' = demoted
           /\ DOMAIN teams \subseteq DOMAIN ts
           /\ \A j \in DOMAIN teams : ts[j] = teams[j]
           /\ \A j \in DOMAIN ts \ DOMAIN teams :
                  /\ j = i /\ i = Len(teams) + 1
                  /\ CanCreate /\ (~run.fresh \/ AdultUnits # {})
                  /\ Len(ts) = Len(teams) + 1
                  /\ \E h \in MayHead : ts[i] = Team(NewId, h)
           /\ DOMAIN ts = DOMAIN teams => Len(ts) = Len(teams)
<1>1. /\ i \in DOMAIN ts /\ ~ts[i].locked
      /\ HeadsOf(u) \subseteq {ts[i].head} /\ Buddies(u) \subseteq ts[i].players
      /\ todo' = todo \ {u} /\ demoted' = demoted
  BY DEF SeatStep
<1>2. CASE ts = teams
  BY <1>1, <1>2 DEF TypeOK
<1>3. CASE ts \in NewTeams /\ i = Len(teams) + 1
  <2>1. PICK h \in MayHead : ts = Created(h)
    BY <1>3 DEF NewTeams
  <2>2. h \in People /\ CanCreate /\ (~run.fresh \/ AdultUnits # {})
    BY <2>1 DEF MayHead
  <2>. QED  BY <1>1, <1>3, <2>1, <2>2, BoardFacts
<1>. QED  BY <1>2, <1>3 DEF SeatStep

\* What TrySeat makes of that board: the unit is in, or it is left over.
Seating(u, ts, i) ==
    /\ teams' \in Seq(Member)
    /\ DOMAIN teams' = DOMAIN ts /\ Len(teams') = Len(ts)
    /\ \A j \in DOMAIN ts :
           /\ teams'[j].id = ts[j].id /\ teams'[j].head = ts[j].head
           /\ teams'[j].locked <=> ts[j].locked
           /\ ts[j].assistants \subseteq teams'[j].assistants
           /\ ts[j].players \subseteq teams'[j].players
           /\ j # i => teams'[j] = ts[j]
    /\ Room(ts[i], u) =>
           /\ teams'[i].players = ts[i].players \cup u
           /\ AssistantsOf(u) \subseteq teams'[i].assistants
           /\ overflow' = overflow
    /\ ~Room(ts[i], u) =>
           teams'[i].players = ts[i].players /\ overflow' = overflow \cup {u}

LEMMA SeatEffect ==
    ASSUME TypeOK, NEW u \in SUBSET Players, NEW ts, NEW i, SeatStep(u, ts, i)
    PROVE  Seating(u, ts, i)
<1>1. ts \in Seq(Member) /\ i \in DOMAIN ts
  BY SeatBoard
<1> DEFINE fits == Room(ts[i], u)
           players == IF fits THEN ts[i].players \cup u ELSE ts[i].players
           assistants == IF fits \/ run.fresh THEN ts[i].assistants \cup AssistantsOf(u)
                         ELSE ts[i].assistants
           new == [ts[i] EXCEPT !.players = players, !.assistants = assistants]
<1>2. ts[i] \in Member /\ AssistantsOf(u) \subseteq Coaches
  BY <1>1, UnitTypes
<1>3. /\ teams' = [ts EXCEPT ![i] = new]
      /\ overflow' = IF fits THEN overflow ELSE overflow \cup {u}
  BY <1>1, <1>2 DEF SeatStep, TrySeat, Member
<1>4. /\ new \in Member
      /\ new.id = ts[i].id /\ new.head = ts[i].head /\ (new.locked <=> ts[i].locked)
      /\ ts[i].assistants \subseteq new.assistants
      /\ fits => AssistantsOf(u) \subseteq new.assistants
      /\ new.players = players
  BY <1>2 DEF Member
<1>. HIDE DEF new
<1>5. /\ teams' \in Seq(Member) /\ DOMAIN teams' = DOMAIN ts /\ Len(teams') = Len(ts)
      /\ teams'[i] = new /\ \A j \in DOMAIN ts : j # i => teams'[j] = ts[j]
  BY <1>1, <1>3, <1>4
<1>. QED  BY <1>3, <1>4, <1>5 DEF Seating

-----------------------------------------------------------------------------
(* What those steps keep                                                    *)

\* What people bring and whom they name only changes between two runs.
LEMMA RegUnchanged ==
    ASSUME reg' = reg
    PROVE  /\ Here' = Here /\ Active' = Active
           /\ \A u : /\ HeadsOf(u)' = HeadsOf(u) /\ AssistantsOf(u)' = AssistantsOf(u)
                     /\ BringsAdult(u)' = BringsAdult(u) /\ Buddies(u)' = Buddies(u)
                     /\ Units(u)' = Units(u) /\ Conflicting(u)' = Conflicting(u)
<1>1. Here' = Here
  BY DEF Here
<1>2. \A p, q : Mutual(p, q)' = Mutual(p, q)
  BY DEF Mutual
<1>3. \A u : HeadsOf(u)' = HeadsOf(u) /\ AssistantsOf(u)' = AssistantsOf(u)
  BY DEF HeadsOf, AssistantsOf
<1>4. \A u : BringsAdult(u)' = BringsAdult(u)
  BY <1>3 DEF BringsAdult
<1>5. \A u : Buddies(u)' = Buddies(u)
  BY <1>1, <1>2, <1>4 DEF Buddies
<1>6. \A u : Units(u)' = Units(u)
  BY <1>2 DEF Units
<1>7. \A u : Conflicting(u)' = Conflicting(u)
  BY <1>3, <1>6 DEF Conflicting
<1>8. Active' = Active
  BY <1>1 DEF Active
<1>. QED  BY <1>1, <1>3, <1>4, <1>5, <1>6, <1>7, <1>8

LEMMA TodoFacts ==
    ASSUME TypeOK, SeatsInv, stage # "idle", NEW u \in todo
    PROVE  /\ u \in SUBSET Players /\ u \in run.late /\ u \notin overflow
           /\ u \cap Seated = {} /\ u \subseteq Waiting /\ u # {}
           /\ \A v \in overflow \cup todo : v # u => v \cap u = {}
<1>1. u \in run.late /\ overflow \cup todo \subseteq run.late /\ run.late = Units(UNION run.late)
  BY DEF SeatsInv, UnitsOfLate
<1>2. UNION run.late \subseteq Players
  BY DEF TypeOK, Runs
<1>3. u # {} /\ \A v \in overflow \cup todo : v # u => v \cap u = {}
  BY <1>1, <1>2, UnitFacts
<1>. QED  BY <1>1, <1>3 DEF TypeOK, SeatsInv, Accounted, UnitsOfLate, Waiting

LEMMA SeatKeepsTypes ==
    ASSUME TypeOK, IdsUnique, SeatsInv, stage = "place", NEW u \in todo, NEW ts, NEW i,
           SeatStep(u, ts, i), UNCHANGED <<reg, stage, run, changes>>
    PROVE  TypeOK' /\ IdsUnique'
<1>1. u \in SUBSET Players
  BY TodoFacts
<1>2. Seating(u, ts, i)
  BY <1>1, SeatEffect
<1>3. TypeOK'
  <2>1. teams' \in Seq(Member) /\ (overflow' = overflow \/ overflow' = overflow \cup {u})
    BY <1>1, <1>2 DEF Seating
  <2>2. todo' = todo \ {u} /\ demoted' = demoted
    BY SeatBoard
  <2>. QED  BY <1>1, <2>1, <2>2 DEF TypeOK
<1>4. ASSUME NEW j \in DOMAIN ts, NEW k \in DOMAIN ts, ts[j].id = ts[k].id PROVE j = k
  <2>1. CASE j \in DOMAIN teams /\ k \in DOMAIN teams
    BY <1>4, <2>1, SeatBoard DEF IdsUnique
  <2>2. CASE j \notin DOMAIN teams /\ k \notin DOMAIN teams
    BY <1>4, <2>2, SeatBoard
  <2>3. ASSUME NEW x \in DOMAIN teams, NEW y \in DOMAIN ts, y \notin DOMAIN teams
        PROVE  ts[x].id # ts[y].id
    <3>1. ts[x] = teams[x] /\ ts[y].id = NewId
      BY <2>3, SeatBoard, TeamFacts
    <3>. QED  BY <2>3, <3>1, NewIdFacts DEF TypeOK
  <2>. QED  BY <1>4, <2>1, <2>2, <2>3
<1>5. DOMAIN teams' = DOMAIN ts /\ \A j \in DOMAIN ts : teams'[j].id = ts[j].id
  BY <1>1, <1>2 DEF Seating
<1>. QED  BY <1>3, <1>4, <1>5 DEF IdsUnique

LEMMA SeatKeepsSeats ==
    ASSUME TypeOK, SeatsInv, stage = "place", NEW u \in todo, NEW ts, NEW i,
           SeatStep(u, ts, i), UNCHANGED <<reg, stage, run, changes>>
    PROVE  SeatsInv'
<1>1. /\ u \in SUBSET Players /\ u \in run.late /\ u \notin overflow
      /\ u \cap Seated = {} /\ u \subseteq Waiting
      /\ \A v \in overflow \cup todo : v # u => v \cap u = {}
  BY TodoFacts
<1>2. Seating(u, ts, i)
  BY <1>1, SeatEffect
<1>3. /\ DOMAIN teams' = DOMAIN ts
      /\ \A j \in DOMAIN ts : j # i => teams'[j].players = ts[j].players
      /\ Room(ts[i], u) => teams'[i].players = ts[i].players \cup u /\ overflow' = overflow
      /\ ~Room(ts[i], u) =>
             teams'[i].players = ts[i].players /\ overflow' = overflow \cup {u}
  BY <1>1, <1>2 DEF Seating
<1>4. todo' = todo \ {u} /\ demoted' = demoted /\ i \in DOMAIN ts
  BY SeatBoard
<1>5. \A j \in DOMAIN ts : ts[j].players = IF j \in DOMAIN teams THEN teams[j].players ELSE {}
  <2>1. ASSUME NEW j \in DOMAIN ts, j \notin DOMAIN teams PROVE ts[j].players = {}
    <3>1. j = i /\ \E h \in MayHead : ts[i] = Team(NewId, h)
      BY <2>1, SeatBoard
    <3>. QED  BY <3>1, TeamFacts
  <2>. QED  BY <2>1, SeatBoard
<1>6. DOMAIN teams \subseteq DOMAIN ts
  BY SeatBoard
<1>7. SeatedOnce'
  <2>1. SUFFICES ASSUME NEW j \in DOMAIN ts, NEW k \in DOMAIN ts, j # k
                 PROVE  teams'[j].players \cap teams'[k].players = {}
    BY <1>3 DEF SeatedOnce
  <2>2. ts[j].players \cap ts[k].players = {}
    BY <1>5, <2>1 DEF SeatsInv, SeatedOnce
  <2>3. ts[j].players \cap u = {} /\ ts[k].players \cap u = {}
    BY <1>1, <1>5 DEF Seated
  <2>4. teams'[j].players = ts[j].players \/ (j = i /\ teams'[j].players = ts[j].players \cup u)
    BY <1>3
  <2>5. teams'[k].players = ts[k].players \/ (k = i /\ teams'[k].players = ts[k].players \cup u)
    BY <1>3
  <2>. QED  BY <2>1, <2>2, <2>3, <2>4, <2>5
<1>8. UnitsOfLate'
  <2>1. todo' \cup overflow' \subseteq run.late /\ todo' \cap overflow' = {}
    BY <1>1, <1>3, <1>4 DEF SeatsInv, UnitsOfLate
  <2>. QED  BY <2>1, RegUnchanged DEF SeatsInv, UnitsOfLate
<1>9. Accounted'
  <2>1. CASE Room(ts[i], u)
    <3>1. Seated' = Seated \cup u
      <4>1. \A j \in DOMAIN ts : j # i => teams'[j].players = ts[j].players
        BY <1>3
      <4>2. teams'[i].players = ts[i].players \cup u
        BY <1>3, <1>4, <2>1
      <4>3. \A p : p \in Seated' <=> \E j \in DOMAIN ts : p \in teams'[j].players
        BY <1>3 DEF Seated
      <4>4. \A p : p \in Seated <=> \E j \in DOMAIN ts : p \in ts[j].players
        BY <1>5, <1>6 DEF Seated
      <4>5. \A p : p \in Seated' <=> p \in Seated \/ p \in u
        BY <1>4, <4>1, <4>2, <4>3, <4>4
      <4>. QED  BY <4>5
    <3>2. Waiting' = Waiting \ u
      BY <1>1, <1>3, <1>4, <2>1 DEF Waiting
    <3>. QED  BY <1>1, <3>1, <3>2, RegUnchanged DEF SeatsInv, Accounted
  <2>2. CASE ~Room(ts[i], u)
    <3>1. Seated' = Seated
      BY <1>3, <1>5, <1>6, <2>2 DEF Seated
    <3>2. Waiting' = Waiting
      BY <1>1, <1>3, <1>4, <2>2 DEF Waiting
    <3>. QED  BY <3>1, <3>2, RegUnchanged DEF SeatsInv, Accounted
  <2>. QED  BY <2>1, <2>2
<1>10. DemotedAssist'
  BY <1>4, RegUnchanged DEF SeatsInv, DemotedAssist
<1>. QED  BY <1>7, <1>8, <1>9, <1>10 DEF SeatsInv

LEMMA SeatKeepsAsked ==
    ASSUME TypeOK, SeatsInv, AskedInv, stage = "place", NEW u \in todo, NEW ts, NEW i,
           SeatStep(u, ts, i), UNCHANGED <<reg, stage, run, changes>>
    PROVE  AskedInv'
<1>1. SUFFICES ASSUME NEW v \in run.late \ (todo' \cup overflow')
      PROVE  \E j \in DOMAIN teams' :
                 /\ v \cup Buddies(v) \subseteq teams'[j].players
                 /\ HeadsOf(v) \subseteq {teams'[j].head}
                 /\ AssistantsOf(v) \subseteq teams'[j].assistants
  BY RegUnchanged DEF AskedInv, PlacedAsAsked
<1>2. u \in SUBSET Players
  BY TodoFacts
<1>3. Seating(u, ts, i)
  BY <1>2, SeatEffect
<1>4. CASE v = u
  <2>1. Room(ts[i], u)
    BY <1>1, <1>2, <1>4, <1>3 DEF Seating
  <2>2. /\ HeadsOf(u) \subseteq {ts[i].head} /\ Buddies(u) \subseteq ts[i].players
        /\ i \in DOMAIN ts
    BY SeatBoard
  <2>3. /\ DOMAIN teams' = DOMAIN ts /\ teams'[i].players = ts[i].players \cup u
        /\ teams'[i].head = ts[i].head /\ AssistantsOf(u) \subseteq teams'[i].assistants
    BY <1>2, <2>1, <2>2, <1>3 DEF Seating
  <2>. QED  BY <1>4, <2>2, <2>3
<1>5. CASE v # u
  <2>1. v \in run.late \ (todo \cup overflow)
    <3>1. todo' = todo \ {u}
      BY SeatBoard
    <3>2. overflow' = overflow \/ overflow' = overflow \cup {u}
      BY <1>2, <1>3 DEF Seating
    <3>. QED  BY <1>1, <1>5, <3>1, <3>2
  <2>2. PICK j \in DOMAIN teams :
            /\ v \cup Buddies(v) \subseteq teams[j].players
            /\ HeadsOf(v) \subseteq {teams[j].head}
            /\ AssistantsOf(v) \subseteq teams[j].assistants
    BY <2>1 DEF AskedInv, PlacedAsAsked
  <2>3. ts[j] = teams[j] /\ j \in DOMAIN ts
    BY SeatBoard
  <2>4. /\ teams[j].players \subseteq teams'[j].players /\ teams'[j].head = teams[j].head
        /\ teams[j].assistants \subseteq teams'[j].assistants /\ j \in DOMAIN teams'
    <3>1. /\ DOMAIN teams' = DOMAIN ts /\ teams'[j].head = ts[j].head
          /\ ts[j].assistants \subseteq teams'[j].assistants
          /\ ts[j].players \subseteq teams'[j].players
      BY <1>2, <2>3, <1>3 DEF Seating
    <3>. QED  BY <2>3, <3>1
  <2>. QED  BY <2>2, <2>4
<1>. QED  BY <1>4, <1>5

\* A coach who gets a team has none.
LEMMA SeatKeepsAnchors ==
    ASSUME TypeOK, SeatsInv, AnchorInv, stage = "place", NEW u \in todo, NEW ts, NEW i,
           SeatStep(u, ts, i), UNCHANGED <<reg, stage, run, changes>>
    PROVE  AnchorInv'
<1>1. u \in SUBSET Players /\ Active' = Active
  BY TodoFacts, RegUnchanged
<1>2. Seating(u, ts, i)
  BY <1>1, SeatEffect
<1>3. DOMAIN teams' = DOMAIN ts /\ \A j \in DOMAIN ts : teams'[j].head = ts[j].head
  BY <1>1, <1>2 DEF Seating
<1>4. \A j \in DOMAIN teams : ts[j].head = teams[j].head
  BY SeatBoard
<1>5. ASSUME NEW j \in DOMAIN teams, NEW k \in DOMAIN ts \ DOMAIN teams
      PROVE  ts[k].head = NoOne \/ ts[j].head # ts[k].head
  BY <1>4, SeatBoard, TeamFacts DEF MayHead
<1>6. \A j, k \in DOMAIN ts \ DOMAIN teams : j = k
  BY SeatBoard
<1>7. OneAnchor'
  <2>1. SUFFICES ASSUME NEW j \in DOMAIN ts, NEW k \in DOMAIN ts,
                        j # k, ts[j].head = ts[k].head, ts[j].head # NoOne
        PROVE  \/ {j, k} \subseteq DOMAIN run.before /\ run.before[j] = run.before[k]
               \/ ts[j].head \in run.replaced
               \/ ts[j].head \notin Active
    BY <1>1, <1>3 DEF OneAnchor
  <2>2. j \in DOMAIN teams /\ k \in DOMAIN teams
    BY <1>5, <1>6, <2>1
  <2>. QED  BY <1>4, <2>1, <2>2 DEF AnchorInv, OneAnchor
<1>. QED  BY <1>7 DEF AnchorInv

LEMMA LeaveKeeps ==
    ASSUME TypeOK, IdsUnique, SeatsInv, AskedInv, AnchorInv, stage = "place",
           NEW u \in todo, LeaveStep(u), UNCHANGED <<reg, stage, run, changes>>
    PROVE  TypeOK' /\ IdsUnique' /\ SeatsInv' /\ AskedInv' /\ AnchorInv'
<1>1. /\ u \in SUBSET Players /\ u \in run.late /\ u \notin overflow
      /\ \A v \in overflow \cup todo : v # u => v \cap u = {}
  BY TodoFacts
<1>2. /\ teams' = teams /\ overflow' = overflow \cup {u} /\ todo' = todo \ {u}
      /\ demoted' = demoted
  BY DEF LeaveStep, GiveUp
<1>3. TypeOK'
  BY <1>1, <1>2 DEF TypeOK
<1>4. IdsUnique'
  BY <1>2 DEF IdsUnique
<1>5. SeatsInv'
  <2>1. Seated' = Seated /\ SeatedOnce'
    BY <1>2 DEF Seated, SeatsInv, SeatedOnce
  <2>2. Waiting' = Waiting /\ overflow' \cup todo' = overflow \cup todo
    BY <1>2 DEF Waiting
  <2>3. UnitsOfLate'
    BY <1>1, <1>2, <2>2, RegUnchanged DEF SeatsInv, UnitsOfLate
  <2>4. Accounted'
    BY <2>1, <2>2, RegUnchanged DEF SeatsInv, Accounted
  <2>5. DemotedAssist'
    BY <1>2, RegUnchanged DEF SeatsInv, DemotedAssist
  <2>. QED  BY <2>1, <2>3, <2>4, <2>5 DEF SeatsInv
<1>6. AskedInv'
  <2>1. run.late \ (todo' \cup overflow') = run.late \ (todo \cup overflow)
    BY <1>2
  <2>. QED  BY <1>2, <2>1, RegUnchanged DEF AskedInv, PlacedAsAsked
<1>7. AnchorInv'
  BY <1>2, RegUnchanged DEF AnchorInv, OneAnchor
<1>. QED  BY <1>3, <1>4, <1>5, <1>6, <1>7

LEMMA DemoteKeeps ==
    ASSUME TypeOK, IdsUnique, SeatsInv, AskedInv, AnchorInv, stage = "place",
           NEW u \in todo, DemoteStep(u), UNCHANGED <<reg, stage, run, changes>>
    PROVE  TypeOK' /\ IdsUnique' /\ SeatsInv' /\ AskedInv' /\ AnchorInv'
<1>1. u \in SUBSET Players
  BY TodoFacts
<1>2. /\ teams' = teams /\ overflow' = overflow /\ todo' = todo /\ demoted' = demoted \cup {u}
      /\ ~run.fresh /\ HeadsOf(u) = {} /\ BringsAdult(u)
  BY DEF DemoteStep
<1>3. TypeOK' /\ IdsUnique'
  BY <1>1, <1>2 DEF TypeOK, IdsUnique
<1>4. SeatsInv'
  <2>1. Seated' = Seated /\ SeatedOnce' /\ Waiting' = Waiting
    BY <1>2 DEF Seated, SeatsInv, SeatedOnce, Waiting
  <2>2. UnitsOfLate' /\ Accounted'
    BY <1>2, <2>1, RegUnchanged DEF SeatsInv, UnitsOfLate, Accounted
  <2>3. DemotedAssist'
    BY <1>2, RegUnchanged DEF SeatsInv, DemotedAssist
  <2>. QED  BY <2>1, <2>2, <2>3 DEF SeatsInv
<1>5. AskedInv' /\ AnchorInv'
  BY <1>2, RegUnchanged DEF AskedInv, PlacedAsAsked, AnchorInv, OneAnchor
<1>. QED  BY <1>3, <1>4, <1>5

LEMMA PlaceKeeps ==
    ASSUME TypeOK, IdsUnique, SeatsInv, AskedInv, AnchorInv, Place
    PROVE  TypeOK' /\ IdsUnique' /\ SeatsInv' /\ AskedInv' /\ AnchorInv'
<1>1. stage = "place" /\ UNCHANGED <<reg, stage, run, changes>>
  BY PlaceStep
<1>2. PICK u \in todo : LeaveStep(u) \/ DemoteStep(u) \/ \E ts, i : SeatStep(u, ts, i)
  BY PlaceStep
<1>3. ASSUME NEW ts, NEW i, SeatStep(u, ts, i)
      PROVE  TypeOK' /\ IdsUnique' /\ SeatsInv' /\ AskedInv' /\ AnchorInv'
  BY <1>1, <1>3, SeatKeepsTypes, SeatKeepsSeats, SeatKeepsAsked, SeatKeepsAnchors
<1>. QED  BY <1>1, <1>2, <1>3, LeaveKeeps, DemoteKeeps

-----------------------------------------------------------------------------
(* Overflow: what a unit lacked when it was given up, it lacks ever after   *)

LEMMA RoomFacts ==
    ASSUME TypeOK, stage # "idle", NEW u \in SUBSET Players, NEW a \in Member, NEW b \in Member,
           a.players \subseteq b.players, Room(b, u)
    PROVE  Room(a, u)
<1>1. /\ IsFiniteSet(a.players) /\ IsFiniteSet(b.players)
      /\ Cardinality(a.players) \in Nat /\ Cardinality(b.players) \in Nat
      /\ Cardinality(a.players) <= Cardinality(b.players)
  <2>1. a.players \subseteq Players /\ b.players \subseteq Players
    BY DEF Member
  <2>. QED  BY <2>1, DivisionAssumption, FS_Subset, FS_CardinalityType
<1>2. Cardinality(u) \in Nat /\ run.config.max \in Nat
  BY UnitTypes DEF TypeOK, Runs, Constraints
<1>. QED  BY <1>1, <1>2 DEF Room

\* Room for a unit on an empty team, whatever its number and its head
LEMMA EmptyRoom ==
    ASSUME NEW u, NEW n, NEW h, NEW m, NEW k
    PROVE  Room(Team(n, h), u) <=> Room(Team(m, k), u)
  BY TeamFacts DEF Room

\* What later steps may do to the board: seat others, and add a team.
Grows ==
    /\ Len(teams) <= Len(teams') /\ teams' \in Seq(Member)
    /\ \A j \in DOMAIN teams :
           /\ j \in DOMAIN teams' /\ teams'[j].head = teams[j].head
           /\ teams'[j].locked <=> teams[j].locked
           /\ teams[j].assistants \subseteq teams'[j].assistants
           /\ teams[j].players \subseteq teams'[j].players
           /\ teams'[j].players \subseteq teams[j].players \cup UNION run.late
    /\ \A j \in DOMAIN teams' \ DOMAIN teams :
           /\ CanCreate /\ (~run.fresh \/ AdultUnits # {}) /\ j = Len(teams) + 1
           /\ teams'[j].players \subseteq UNION run.late

LEMMA StillHopeless ==
    ASSUME TypeOK, SeatsInv, stage = "place", Grows, UNCHANGED <<reg, stage, run, changes>>,
           NEW u \in run.late, Hopeless(u), run.fresh /\ AdultUnits # {} => BringsAdult(u)
    PROVE  Hopeless(u)'
<1>1. u \in SUBSET Players
  BY DEF TypeOK, Runs
<1>2. /\ Len(teams) \in Nat /\ DOMAIN teams = 1 .. Len(teams) /\ DOMAIN teams' = 1 .. Len(teams')
      /\ Len(teams') \in Nat /\ DOMAIN teams \subseteq DOMAIN teams'
      /\ \A j \in DOMAIN teams : teams[j] \in Member
      /\ \A j \in DOMAIN teams' : teams'[j] \in Member
  BY DEF TypeOK, Grows
<1>3. \A j \in DOMAIN teams' \ DOMAIN teams : CanCreate /\ j > Len(teams)
  BY <1>2 DEF Grows
<1>4. CanCreate' => CanCreate
  BY <1>2 DEF CanCreate, Grows, TypeOK, Runs, Constraints
<1>5. \A j \in DOMAIN teams' : Room(teams[j], u)' <=> Room(teams'[j], u)
  BY DEF Room
<1>6. Open(u)' \cap DOMAIN teams \subseteq Open(u)
  <2>1. SUFFICES ASSUME NEW j \in DOMAIN teams, j \in Open(u)' PROVE j \in Open(u)
    OBVIOUS
  <2>2. ~teams'[j].locked /\ Room(teams'[j], u) /\ j \in DOMAIN teams'
    BY <1>5, <2>1 DEF Open
  <2>3. ~teams[j].locked /\ teams[j].players \subseteq teams'[j].players
    BY <2>2 DEF Grows
  <2>4. Room(teams[j], u)
    BY <1>1, <1>2, <2>2, <2>3, RoomFacts
  <2>. QED  BY <2>3, <2>4 DEF Open
<1>7. May(u)' => May(u)
  <2>1. Room(Team(0, NoOne), u)' <=> Room(Team(0, NoOne), u)
    BY DEF Room, Team
  <2>. QED  BY <1>4, <2>1 DEF May
<1>8. ASSUME NEW j \in Open(u)', j \notin DOMAIN teams PROVE May(u)
  <2>1. j \in DOMAIN teams' /\ Room(teams'[j], u)
    BY <1>5, <1>8 DEF Open
  <2>2. Team(0, NoOne) \in Member
    BY DEF Team, Member, People
  <2>3. Team(0, NoOne).players \subseteq teams'[j].players
    BY TeamFacts
  <2>4. Room(Team(0, NoOne), u)
    BY <1>1, <1>2, <2>1, <2>2, <2>3, RoomFacts
  <2>. QED  BY <1>3, <1>8, <2>1, <2>4 DEF May
<1>9. /\ HeadsOf(u)' = HeadsOf(u) /\ Buddies(u)' = Buddies(u)
      /\ AssistantsOf(u)' = AssistantsOf(u)
  BY RegUnchanged
<1>10. Own(u)' \cap DOMAIN teams = Own(u)
  BY <1>2, <1>9 DEF Own, Grows
<1>11. CASE HeadsOf(u) # {}
  <2>1. CASE Own(u) = {} /\ ~CanCreate
    <3>1. Own(u)' = {}
      BY <1>3, <1>10, <2>1 DEF Own
    <3>. QED  BY <1>4, <1>9, <1>11, <2>1, <3>1 DEF Hopeless
  <2>2. CASE Own(u) # {} /\ Min(Own(u)) \notin Open(u)
    <3>1. Own(u) \subseteq Nat /\ Own(u)' \subseteq Nat /\ Own(u)' # {}
      BY <1>2, <1>10, <2>2 DEF Own
    <3>2. /\ Min(Own(u)) \in Own(u) /\ \A j \in Own(u) : Min(Own(u)) <= j
          /\ Min(Own(u)') \in Own(u)' /\ \A j \in Own(u)' : Min(Own(u)') <= j
      BY <2>2, <3>1, MinFacts
    <3>3. Min(Own(u)') <= Min(Own(u)) /\ Min(Own(u)) \in DOMAIN teams
      BY <1>10, <3>2 DEF Own
    <3>4. Min(Own(u)') \in DOMAIN teams
      BY <1>2, <1>3, <3>1, <3>2, <3>3 DEF Own
    <3>5. Min(Own(u)') = Min(Own(u))
      BY <1>10, <3>1, <3>2, <3>3, <3>4
    <3>6. Min(Own(u)') \notin Open(u)'
      BY <1>6, <2>2, <3>4, <3>5
    <3>. QED  BY <1>9, <1>11, <3>1, <3>6 DEF Hopeless
  <2>. QED  BY <1>11, <2>1, <2>2 DEF Hopeless
<1>12. CASE HeadsOf(u) = {} /\ Buddies(u) # {}
  <2>1. Buddies(u) \cap UNION run.late = {}
    BY BuddyFacts
  <2>2. \A i \in Open(u) : teams[i].players \cap Buddies(u) = {}
    BY <1>12 DEF Hopeless
  <2>3. ASSUME NEW j \in Open(u)' PROVE teams'[j].players \cap Buddies(u) = {}
    <3>1. CASE j \in DOMAIN teams
      <4>1. j \in Open(u)
        BY <1>6, <2>3, <3>1
      <4>. QED  BY <2>1, <2>2, <3>1, <4>1 DEF Grows
    <3>2. CASE j \notin DOMAIN teams
      <4>1. j \in DOMAIN teams'
        BY <2>3 DEF Open
      <4>. QED  BY <2>1, <3>2, <4>1 DEF Grows
    <3>. QED  BY <3>1, <3>2
  <2>. QED  BY <1>9, <1>12, <2>3 DEF Hopeless
<1>13. CASE HeadsOf(u) = {} /\ Buddies(u) = {} /\ AssistantsOf(u) # {} /\ run.fresh
  <2>1. ~May(u) /\ \A i \in Open(u) : teams[i].head # NoOne /\ teams[i].assistants # {}
    BY <1>13 DEF Hopeless
  <2>2. ASSUME NEW j \in Open(u)' PROVE teams'[j].head # NoOne /\ teams'[j].assistants # {}
    <3>1. j \in DOMAIN teams
      BY <1>8, <2>1, <2>2
    <3>2. j \in Open(u)
      BY <1>6, <2>2, <3>1
    <3>. QED  BY <2>1, <3>1, <3>2 DEF Grows
  <2>. QED  BY <1>7, <1>9, <1>13, <2>1, <2>2 DEF Hopeless
<1>14. CASE HeadsOf(u) = {} /\ Buddies(u) = {} /\ ~(AssistantsOf(u) # {} /\ run.fresh)
  <2>1. Open(u) = {} /\ (~run.fresh => ~May(u))
    BY <1>14 DEF Hopeless
  <2>2. DOMAIN teams' = DOMAIN teams \/ ~run.fresh
    BY <1>2, <1>14, UnitTypes, <1>1 DEF Grows
  <2>3. Open(u)' = {}
    <3>1. ASSUME NEW j \in Open(u)', j \notin DOMAIN teams PROVE FALSE
      <4>1. j \in DOMAIN teams'
        BY <3>1 DEF Open
      <4>. QED  BY <1>8, <2>1, <2>2, <3>1, <4>1
    <3>. QED  BY <1>6, <2>1, <3>1
  <2>. QED  BY <1>7, <1>9, <1>14, <2>1, <2>3 DEF Hopeless
<1>. QED  BY <1>11, <1>12, <1>13, <1>14

LEMMA SeatGrows ==
    ASSUME TypeOK, SeatsInv, stage = "place", NEW u \in todo, NEW ts, NEW i, SeatStep(u, ts, i)
    PROVE  Grows
<1>1. u \in SUBSET Players /\ u \subseteq UNION run.late
  BY TodoFacts
<1>2. Seating(u, ts, i)
  BY <1>1, SeatEffect
<1>3. /\ DOMAIN teams \subseteq DOMAIN ts /\ i \in DOMAIN ts
      /\ \A j \in DOMAIN teams : ts[j] = teams[j]
      /\ \A j \in DOMAIN ts \ DOMAIN teams :
             CanCreate /\ (~run.fresh \/ AdultUnits # {}) /\ j = i /\ i = Len(teams) + 1
  BY SeatBoard
<1>4. \A j \in DOMAIN ts \ DOMAIN teams : ts[j].players = {}
  <2>1. ASSUME NEW j \in DOMAIN ts, j \notin DOMAIN teams PROVE ts[j].players = {}
    <3>1. j = i /\ \E h \in MayHead : ts[i] = Team(NewId, h)
      BY <2>1, SeatBoard
    <3>. QED  BY <3>1, TeamFacts
  <2>. QED  BY <2>1
<1>5. \A j \in DOMAIN ts : teams'[j].players \subseteq ts[j].players \cup UNION run.late
  <2>1. teams'[i].players \subseteq ts[i].players \cup u
    BY <1>2 DEF Seating
  <2>2. \A j \in DOMAIN ts : j # i => teams'[j].players = ts[j].players
    BY <1>2 DEF Seating
  <2>. QED  BY <1>1, <2>1, <2>2
<1>6. /\ teams' \in Seq(Member) /\ DOMAIN teams' = DOMAIN ts /\ Len(teams') = Len(ts)
      /\ \A j \in DOMAIN ts :
             /\ teams'[j].head = ts[j].head
             /\ teams'[j].locked <=> ts[j].locked
             /\ ts[j].assistants \subseteq teams'[j].assistants
             /\ ts[j].players \subseteq teams'[j].players
  BY <1>2 DEF Seating
<1>7. Len(teams) <= Len(ts)
  <2>1. ts \in Seq(Member) /\ teams \in Seq(Member)
    BY SeatBoard DEF TypeOK
  <2>. QED  BY <1>3, <2>1
<1>. QED  BY <1>3, <1>4, <1>5, <1>6, <1>7 DEF Grows

LEMMA PlaceGrows ==
    ASSUME TypeOK, SeatsInv, Place
    PROVE  Grows
<1>1. PICK u \in todo : LeaveStep(u) \/ DemoteStep(u) \/ \E ts, i : SeatStep(u, ts, i)
  BY PlaceStep
<1>2. stage = "place"
  BY PlaceStep
<1>3. CASE teams' = teams
  BY <1>3 DEF Grows, TypeOK
<1>. QED  BY <1>1, <1>2, <1>3, SeatGrows DEF LeaveStep, GiveUp, DemoteStep

LEMMA StepsShrinkTodo ==
    ASSUME TypeOK, SeatsInv, Place
    PROVE  /\ AdultUnits' \subseteq AdultUnits
           /\ overflow' = overflow \/ \E u \in todo : overflow' = overflow \cup {u}
<1>1. PICK u \in todo : LeaveStep(u) \/ DemoteStep(u) \/ \E ts, i : SeatStep(u, ts, i)
  BY PlaceStep
<1>2. stage = "place" /\ UNCHANGED <<reg, stage, run, changes>>
  BY PlaceStep
<1>3. todo' \subseteq todo /\ demoted \subseteq demoted'
  BY <1>1, SeatBoard DEF LeaveStep, DemoteStep
<1>4. overflow' = overflow \/ overflow' = overflow \cup {u}
  <2>1. u \in SUBSET Players
    BY <1>2, TodoFacts
  <2>2. ASSUME NEW ts, NEW i, SeatStep(u, ts, i)
        PROVE  overflow' = overflow \/ overflow' = overflow \cup {u}
    <3>1. Seating(u, ts, i)
      BY <2>1, <2>2, SeatEffect
    <3>. QED  BY <3>1 DEF Seating
  <2>. QED  BY <1>1, <2>2 DEF LeaveStep, GiveUp, DemoteStep
<1>. QED  BY <1>2, <1>3, <1>4, RegUnchanged DEF AdultUnits

\* A unit that does not fit where it was put fits on no empty team either, or
\* the team was not empty.
LEMMA NoSeat ==
    ASSUME TypeOK, SeatsInv, stage = "place", NEW u \in todo, NEW ts, NEW i,
           SeatStep(u, ts, i), overflow' # overflow, UNCHANGED <<reg, stage, run, changes>>
    PROVE  /\ ~Room(ts[i], u) /\ overflow' = overflow \cup {u}
           /\ \A j \in DOMAIN ts : teams'[j].players = ts[j].players
           /\ i \notin Open(u)'
<1>1. u \in SUBSET Players
  BY TodoFacts
<1>2. Seating(u, ts, i)
  BY <1>1, SeatEffect
<1>3. ~Room(ts[i], u) /\ overflow' = overflow \cup {u} /\ teams'[i].players = ts[i].players
  BY <1>2 DEF Seating
<1>4. \A j \in DOMAIN ts : j # i => teams'[j].players = ts[j].players
  BY <1>2 DEF Seating
<1>5. ~(Room(teams[i], u)')
  BY <1>3 DEF Room
<1>. QED  BY <1>3, <1>4, <1>5 DEF Open

LEMMA HeadLeftHopeless ==
    ASSUME TypeOK, SeatsInv, PlaceWithHead, Place, NEW v \in overflow' \ overflow
    PROVE  Hopeless(v)' /\ BringsAdult(v)
<1>1. stage = "place" /\ UNCHANGED <<reg, stage, run, changes>>
  BY DEF Place
<1>2. PICK u \in AdultUnits :
         /\ HeadsOf(u) # {}
         /\ \/ Own(u) # {} /\ SeatStep(u, teams, Min(Own(u)))
            \/ Own(u) = {} /\ \E ts \in NewTeams : SeatStep(u, ts, Len(teams) + 1)
            \/ /\ IF Own(u) = {} THEN ~CanCreate ELSE teams[Min(Own(u))].locked
               /\ LeaveStep(u)
  BY <1>1, PlaceWithHeadStep
<1>3. u \in todo /\ BringsAdult(u) /\ HeadsOf(u)' = HeadsOf(u)
  BY <1>1, RegUnchanged DEF AdultUnits
<1>4. overflow' = overflow \/ overflow' = overflow \cup {u}
  <2>1. ASSUME NEW ts, NEW i, SeatStep(u, ts, i)
        PROVE  overflow' = overflow \/ overflow' = overflow \cup {u}
    BY <1>1, <1>3, <2>1, NoSeat
  <2>. QED  BY <1>2, <2>1 DEF LeaveStep, GiveUp
<1>5. v = u /\ overflow' # overflow
  BY <1>4
<1>6. CASE Own(u) # {} /\ SeatStep(u, teams, Min(Own(u)))
  <2>1. Min(Own(u)) \notin Open(u)'
    BY <1>1, <1>3, <1>5, <1>6, NoSeat
  <2>2. Seating(u, teams, Min(Own(u)))
    BY <1>1, <1>3, <1>6, TodoFacts, SeatEffect
  <2>3. Own(u)' = Own(u)
    BY <1>3, <2>2 DEF Own, Seating
  <2>. QED  BY <1>2, <1>3, <1>5, <1>6, <2>1, <2>3 DEF Hopeless
<1>7. ASSUME Own(u) = {}, NEW ts \in NewTeams, SeatStep(u, ts, Len(teams) + 1)
      PROVE  Hopeless(u)'
  <2>1. Len(teams) + 1 \notin Open(u)'
    BY <1>1, <1>3, <1>5, <1>7, NoSeat
  <2>2. Seating(u, ts, Len(teams) + 1)
    BY <1>1, <1>3, <1>7, TodoFacts, SeatEffect
  <2>3. /\ \A j \in DOMAIN ts \ DOMAIN teams : j = Len(teams) + 1
        /\ \A j \in DOMAIN teams : ts[j] = teams[j]
        /\ Len(teams) + 1 \in DOMAIN ts /\ HeadsOf(u) \subseteq {ts[Len(teams) + 1].head}
    BY <1>7, SeatBoard
  <2>4. DOMAIN teams' = DOMAIN ts /\ \A j \in DOMAIN ts : teams'[j].head = ts[j].head
    BY <2>2 DEF Seating
  <2>5. Own(u)' = {Len(teams) + 1}
    <3>1. \A j \in DOMAIN teams : ts[j].head \notin HeadsOf(u)
      BY <1>7, <2>3 DEF Own
    <3>2. ts[Len(teams) + 1].head \in HeadsOf(u)
      BY <1>2, <2>3
    <3>. QED  BY <1>3, <2>3, <2>4, <3>1, <3>2 DEF Own
  <2>6. Own(u)' # {} /\ Own(u)' \subseteq Nat
    BY <2>5 DEF TypeOK
  <2>7. Min(Own(u)') \in Own(u)'
    BY <2>6, MinFacts
  <2>8. Min(Own(u)') \notin Open(u)'
    BY <2>1, <2>5, <2>7
  <2>. QED  BY <1>2, <1>3, <2>6, <2>8 DEF Hopeless
<1>8. CASE (IF Own(u) = {} THEN ~CanCreate ELSE teams[Min(Own(u))].locked) /\ LeaveStep(u)
  <2>1. teams' = teams
    BY <1>8 DEF LeaveStep, GiveUp
  <2>2. Own(u)' = Own(u) /\ (CanCreate' <=> CanCreate) /\ (teams[Min(Own(u))].locked => Min(Own(u)) \notin Open(u)')
    BY <1>1, <1>3, <2>1 DEF Own, Open, CanCreate
  <2>. QED  BY <1>2, <1>3, <1>5, <1>8, <2>2 DEF Hopeless
<1>. QED  BY <1>2, <1>3, <1>5, <1>6, <1>7, <1>8

LEMMA AssistantLeftHopeless ==
    ASSUME TypeOK, SeatsInv, PlaceWithAssistant, Place, NEW v \in overflow' \ overflow
    PROVE  Hopeless(v)' /\ BringsAdult(v)
<1>1. stage = "place" /\ UNCHANGED <<reg, stage, run, changes>>
  BY DEF Place
<1>2. PICK u \in AdultUnits :
         /\ HeadsOf(u) = {} /\ AssistantsOf(u) # {}
         /\ \/ \E i \in Backfill(u) : SeatStep(u, teams, i)
            \/ CanCreate /\ SeatStep(u, Created(NoOne), Len(teams) + 1)
            \/ Backfill(u) = {} /\ ~CanCreate /\ run.fresh /\ LeaveStep(u)
            \/ DemoteStep(u)
  BY <1>1, PlaceWithAssistantStep
<1>3. u \in todo /\ BringsAdult(u) /\ u \in run.late /\ u \in SUBSET Players
  BY <1>1, TodoFacts DEF AdultUnits
<1>4. /\ HeadsOf(u)' = HeadsOf(u) /\ AssistantsOf(u)' = AssistantsOf(u)
      /\ Buddies(u)' = Buddies(u) /\ Buddies(u) = {}
  BY <1>1, <1>3, RegUnchanged, BuddyFacts
<1>5. overflow' = overflow \/ overflow' = overflow \cup {u}
  <2>1. ASSUME NEW ts, NEW i, SeatStep(u, ts, i)
        PROVE  overflow' = overflow \/ overflow' = overflow \cup {u}
    BY <1>1, <1>3, <2>1, NoSeat
  <2>. QED  BY <1>2, <2>1 DEF LeaveStep, GiveUp, DemoteStep
<1>6. v = u /\ overflow' # overflow
  BY <1>5
<1>7. ASSUME NEW i \in Backfill(u), SeatStep(u, teams, i) PROVE FALSE
  BY <1>1, <1>3, <1>6, <1>7, NoSeat, BackfillFacts
<1>8. CASE SeatStep(u, Created(NoOne), Len(teams) + 1)
  <2>1. /\ ~Room(Created(NoOne)[Len(teams) + 1], u)
        /\ \A j \in DOMAIN Created(NoOne) : teams'[j].players = Created(NoOne)[j].players
    BY <1>1, <1>3, <1>6, <1>8, NoSeat
  <2>2. NoOne \in People
    BY DEF People
  <2>3. ~Room(Team(0, NoOne), u)
    BY <2>1, <2>2, BoardFacts, EmptyRoom
  <2>4. ~(May(u)')
    <3>1. Room(Team(0, NoOne), u)' <=> Room(Team(0, NoOne), u)
      BY <1>1 DEF Room, Team
    <3>. QED  BY <2>3, <3>1 DEF May
  <2>5. teams' \in Seq(Member)
    BY <1>1, <1>3, <1>8, SeatGrows DEF Grows
  <2>6. Open(u)' = {}
    <3>1. SUFFICES ASSUME NEW j \in Open(u)' PROVE FALSE
      OBVIOUS
    <3>2. j \in DOMAIN teams' /\ Room(teams'[j], u)
      BY <1>1 DEF Open, Room
    <3>3. Team(0, NoOne) \in Member /\ Team(0, NoOne).players \subseteq teams'[j].players
      BY <2>2, TeamFacts DEF Team, Member
    <3>4. Room(Team(0, NoOne), u)
      BY <1>1, <1>3, <2>5, <3>2, <3>3, RoomFacts
    <3>. QED  BY <2>3, <3>4
  <2>. QED  BY <1>2, <1>3, <1>4, <1>6, <2>4, <2>6 DEF Hopeless
<1>9. CASE Backfill(u) = {} /\ ~CanCreate /\ run.fresh /\ LeaveStep(u)
  <2>1. teams' = teams
    BY <1>9 DEF LeaveStep, GiveUp
  <2>2. Open(u)' = Open(u) /\ ~(May(u)')
    BY <1>1, <1>9, <2>1 DEF Open, Room, May, CanCreate
  <2>3. \A i \in Open(u) : teams[i].head # NoOne /\ teams[i].assistants # {}
    BY <1>9 DEF Backfill, Open
  <2>. QED  BY <1>1, <1>2, <1>3, <1>4, <1>6, <1>9, <2>1, <2>2, <2>3 DEF Hopeless
<1>. QED  BY <1>2, <1>6, <1>7, <1>8, <1>9 DEF DemoteStep

LEMMA BuddyLeftHopeless ==
    ASSUME TypeOK, SeatsInv, PlaceWithBuddy, Place, NEW v \in overflow' \ overflow
    PROVE  Hopeless(v)'
<1>1. stage = "place" /\ UNCHANGED <<reg, stage, run, changes>>
  BY DEF Place
<1>2. PICK u \in BuddyUnits, i \in DOMAIN teams :
         /\ HeadsOf(u) = {} /\ Buddies(u) \subseteq teams[i].players
         /\ SeatStep(u, teams, i) \/ (teams[i].locked /\ LeaveStep(u))
  BY <1>1, PlaceWithBuddyStep
<1>3. u \in todo /\ Buddies(u) # {} /\ HeadsOf(u)' = HeadsOf(u) /\ Buddies(u)' = Buddies(u)
  BY <1>1, RegUnchanged DEF BuddyUnits
<1>4. overflow' = overflow \/ overflow' = overflow \cup {u}
  BY <1>1, <1>2, <1>3, NoSeat DEF LeaveStep, GiveUp
<1>5. v = u /\ overflow' # overflow
  BY <1>4
<1>6. /\ DOMAIN teams' = DOMAIN teams /\ i \notin Open(u)'
      /\ \A j \in DOMAIN teams : teams'[j].players = teams[j].players
  <2>1. CASE SeatStep(u, teams, i)
    <3>1. Seating(u, teams, i)
      BY <1>1, <1>3, <2>1, TodoFacts, SeatEffect
    <3>2. DOMAIN teams' = DOMAIN teams
      BY <3>1 DEF Seating
    <3>. QED  BY <1>1, <1>3, <1>5, <2>1, <3>2, NoSeat
  <2>2. CASE teams[i].locked /\ LeaveStep(u)
    BY <2>2 DEF LeaveStep, GiveUp, Open
  <2>. QED  BY <1>2, <2>1, <2>2
<1>7. \A j \in DOMAIN teams : j # i => teams[j].players \cap Buddies(u) = {}
  BY <1>2 DEF SeatsInv, SeatedOnce
<1>8. \A j \in Open(u)' : teams'[j].players \cap Buddies(u) = {}
  BY <1>6, <1>7 DEF Open
<1>. QED  BY <1>2, <1>3, <1>5, <1>8 DEF Hopeless

LEMMA AnywhereLeftHopeless ==
    ASSUME TypeOK, SeatsInv, PlaceAnywhere, Place, NEW v \in overflow' \ overflow
    PROVE  Hopeless(v)'
<1>1. stage = "place" /\ UNCHANGED <<reg, stage, run, changes>>
  BY DEF Place
<1>2. PICK u \in OtherUnits :
         \/ \E i \in Open(u) : SeatStep(u, teams, i)
         \/ May(u) /\ SeatStep(u, Created(NoOne), Len(teams) + 1)
         \/ Open(u) = {} /\ (~run.fresh => ~May(u)) /\ LeaveStep(u)
  BY <1>1, PlaceAnywhereStep
<1>3. /\ u \in todo /\ HeadsOf(u) = {} /\ Buddies(u) = {} /\ (run.fresh => AssistantsOf(u) = {})
      /\ HeadsOf(u)' = HeadsOf(u) /\ Buddies(u)' = Buddies(u) /\ AssistantsOf(u)' = AssistantsOf(u)
  BY <1>1, OtherFacts, RegUnchanged
<1>4. ASSUME NEW ts, NEW i, SeatStep(u, ts, i), Room(ts[i], u) PROVE overflow' = overflow
  BY <1>1, <1>3, <1>4, NoSeat
<1>5. Room(Created(NoOne)[Len(teams) + 1], u) <=> Room(Team(0, NoOne), u)
  BY BoardFacts, EmptyRoom DEF People
<1>6. Open(u) = {} /\ (~run.fresh => ~May(u)) /\ LeaveStep(u)
  <2>1. ASSUME NEW i \in Open(u), SeatStep(u, teams, i) PROVE FALSE
    BY <1>4, <2>1 DEF Open
  <2>2. ~(May(u) /\ SeatStep(u, Created(NoOne), Len(teams) + 1))
    BY <1>4, <1>5 DEF May
  <2>. QED  BY <1>2, <2>1, <2>2
<1>7. v = u /\ teams' = teams
  BY <1>6 DEF LeaveStep, GiveUp
<1>8. Open(u)' = Open(u) /\ (May(u)' <=> May(u))
  BY <1>1, <1>7 DEF Open, Room, May, CanCreate, Team
<1>. QED  BY <1>1, <1>3, <1>6, <1>7, <1>8 DEF Hopeless

LEMMA PlaceKeepsHopeless ==
    ASSUME TypeOK, SeatsInv, HopelessInv, Place
    PROVE  HopelessInv'
<1>1. stage = "place" /\ UNCHANGED <<reg, stage, run, changes>>
  BY DEF Place
<1>2. AdultUnits' \subseteq AdultUnits
  BY StepsShrinkTodo
<1>3. \A v : BringsAdult(v)' = BringsAdult(v)
  BY <1>1, RegUnchanged
<1>4. ASSUME NEW v \in overflow' \ overflow
      PROVE  Hopeless(v)' /\ (BringsAdult(v) \/ AdultUnits = {})
  <2>1. CASE PlaceWithHead
    BY <2>1, HeadLeftHopeless
  <2>2. CASE PlaceWithAssistant
    BY <2>2, AssistantLeftHopeless
  <2>3. CASE PlaceWithBuddy
    BY <2>3, BuddyLeftHopeless DEF PlaceWithBuddy
  <2>4. CASE PlaceAnywhere
    BY <2>4, AnywhereLeftHopeless DEF PlaceAnywhere
  <2>. QED  BY <2>1, <2>2, <2>3, <2>4 DEF Place
<1>5. AdultsFirst'
  BY <1>1, <1>2, <1>3, <1>4 DEF HopelessInv, AdultsFirst
<1>6. ASSUME NEW v \in overflow PROVE Hopeless(v)'
  <2>1. v \in run.late /\ Hopeless(v)
    BY <1>1 DEF SeatsInv, UnitsOfLate, HopelessInv
  <2>2. run.fresh /\ AdultUnits # {} => BringsAdult(v)
    BY <1>1 DEF HopelessInv, AdultsFirst
  <2>. QED  BY <1>1, <2>1, <2>2, PlaceGrows, StillHopeless
<1>. QED  BY <1>4, <1>5, <1>6 DEF HopelessInv

-----------------------------------------------------------------------------
(* The start of a run                                                       *)

LEMMA MaxOfTwo ==
    ASSUME NEW a \in Nat, NEW b \in Nat
    PROVE  Max({a, b}) \in Nat /\ Min({a, b}) \in Nat
<1>1. \E x \in {a, b} : \A y \in {a, b} : x >= y
  OBVIOUS
<1>2. \E x \in {a, b} : \A y \in {a, b} : x <= y
  OBVIOUS
<1>3. Max({a, b}) \in {a, b}
  BY <1>1 DEF Max
<1>4. Min({a, b}) \in {a, b}
  BY <1>2 DEF Min
<1>. QED  BY <1>3, <1>4

LEMMA MaxOfFour ==
    ASSUME NEW a \in Nat, NEW b \in Nat, NEW c \in Nat, NEW d \in Nat
    PROVE  Max({a, b, c, d}) \in Nat
<1>1. \E x \in {a, b, c, d} : \A y \in {a, b, c, d} : x >= y
  OBVIOUS
<1>2. Max({a, b, c, d}) \in {a, b, c, d}
  BY <1>1 DEF Max
<1>. QED  BY <1>2

LEMMA CeilType ==
    ASSUME NEW n \in Nat, NEW k \in Nat \ {0}
    PROVE  Ceil(n, k) \in Nat
  BY DEF Ceil

\* However the constraints are combined, the count is a number.
LEMMA TeamCountType ==
    ASSUME NEW n \in Nat, NEW coaches \in Nat, NEW c \in Constraints
    PROVE  TeamCount(n, coaches, c) \in Nat
<1>1. /\ c.max \in Nat \ {0} /\ c.target \in Nat \ {0} /\ c.min \in Nat
      /\ c.override \in Nat /\ c.minTeams \in Nat /\ c.maxTeams \in Nat
  BY DEF Constraints
<1> DEFINE calculated == IF c.override > 0 THEN c.override ELSE Ceil(n, c.target)
           needed  == Max({coaches, c.minTeams, 1, Ceil(n, c.max)})
           wanted  == Max({calculated, needed})
           counted == IF c.min > 0 /\ n >= c.min
                      THEN Max({needed, Min({wanted, n \div c.min})})
                      ELSE wanted
<1>2. calculated \in Nat
  BY <1>1, CeilType
<1>3. needed \in Nat
  BY <1>1, CeilType, MaxOfFour
<1>. HIDE DEF calculated, needed
<1>4. wanted \in Nat
  BY <1>2, <1>3, MaxOfTwo
<1>. HIDE DEF wanted
<1>5. counted \in Nat
  <2>1. CASE c.min > 0 /\ n >= c.min
    <3>1. n \div c.min \in Nat
      BY <1>1, <2>1
    <3>2. Min({wanted, n \div c.min}) \in Nat
      BY <1>4, <3>1, MaxOfTwo
    <3>. QED  BY <1>3, <2>1, <3>2, MaxOfTwo
  <2>. QED  BY <1>4, <2>1
<1>. HIDE DEF counted
<1>6. (IF c.maxTeams > 0 THEN Min({counted, c.maxTeams}) ELSE counted) \in Nat
  BY <1>1, <1>5, MaxOfTwo
<1>. QED  BY <1>6 DEF TeamCount, calculated, needed, wanted, counted

LEMMA ActiveFacts ==
    ASSUME TypeOK
    PROVE  /\ Here \subseteq Players /\ IsFiniteSet(Here) /\ Cardinality(Here) \in Nat
           /\ Active \subseteq Coaches /\ IsFiniteSet(Active) /\ Cardinality(Active) \in Nat
<1>1. Here \subseteq Players /\ IsFiniteSet(Here)
  BY DivisionAssumption, FS_Subset DEF Here
<1> DEFINE T == {reg[p].coach : p \in Here}
           f == [p \in Here |-> reg[p].coach]
<1>2. f \in Surjection(Here, T)
  BY DEF Surjection
<1>3. IsFiniteSet(T)
  <2>. HIDE DEF T, f
  <2>. QED  BY <1>1, <1>2, FS_Surjection
<1>4. Active \subseteq T /\ Active \subseteq Coaches
  BY <1>1, RegFacts DEF Active, People
<1>5. IsFiniteSet(Active)
  <2>. HIDE DEF T
  <2>. QED  BY <1>3, <1>4, FS_Subset
<1>. QED  BY <1>1, <1>4, <1>5, FS_CardinalityType

\* The units of any late players are what UnitsOfLate asks.
LEMMA LateUnits ==
    ASSUME TypeOK, NEW S, S \subseteq Players
    PROVE  /\ Units(S) \in SUBSET SUBSET Players
           /\ UNION Units(S) = S /\ Units(UNION Units(S)) = Units(S)
<1>1. UNION Units(S) = S
  BY UnitFacts
<1>2. Units(UNION Units(S)) = Units(S)
  BY <1>1
<1>. QED  BY <1>1, <1>2

\* What the bookkeeping of a run starts with
Begun(f, p) ==
    /\ run \in Runs /\ run.late = todo /\ run.policy = p /\ (run.fresh <=> f)
    /\ run.at = 1 /\ run.replaced = {}

LEMMA StartedFacts ==
    ASSUME TypeOK, NEW f \in BOOLEAN, NEW p \in Policies, NEW c \in Configs,
           todo' \in SUBSET SUBSET Players, run' = Started(f, p, c)
    PROVE  /\ Begun(f, p)' /\ run'.anchored = Heads(teams)
           /\ run'.before = [i \in DOMAIN teams |-> teams[i].head]
<1>1. [i \in DOMAIN teams |-> teams[i].head] \in Seq(People)
  <2>1. \A i \in DOMAIN teams : teams[i].head \in People
    BY SeatFacts DEF Member
  <2>. QED  BY <2>1 DEF TypeOK
<1>2. Heads(teams) \subseteq Coaches
  BY SeatFacts DEF Heads, Member, People
<1>3. p \in ChangePolicies /\ c \in Constraints
  BY DivisionAssumption
<1>. QED  BY <1>1, <1>2, <1>3 DEF Started, Runs, Begun

LEMMA FreshKeeps ==
    ASSUME TypeOK, NEW policy \in Policies, NEW config \in Configs,
           GenerateFresh(policy, config)
    PROVE  GenerationInv'
<1>1. /\ todo' = Units(Here) /\ run' = Started(TRUE, policy, config) /\ stage' = "place"
      /\ overflow' = {} /\ demoted' = {} /\ reg' = reg /\ changes' = changes
      /\ ~Conflicting(Here)
  BY DEF GenerateFresh
<1>2. PICK heads \in SetToSeqs(Active) :
          teams' = [i \in 1 .. TeamCount(Cardinality(Here), Cardinality(Active), config) |->
                       Team(i, IF i <= Len(heads) THEN heads[i] ELSE NoOne)]
  BY DEF GenerateFresh
<1> DEFINE n == TeamCount(Cardinality(Here), Cardinality(Active), config)
           head(i) == IF i <= Len(heads) THEN heads[i] ELSE NoOne
<1>3. n \in Nat
  BY ActiveFacts, TeamCountType, DivisionAssumption
<1>4. /\ Len(heads) \in Nat /\ \A i \in 1 .. Len(heads) : heads[i] \in Active
      /\ \A i, j \in 1 .. Len(heads) : i # j => heads[i] # heads[j]
  <2>1. Cardinality(Active) \in Nat
    BY ActiveFacts
  <2>2. /\ heads \in [1 .. Cardinality(Active) -> Active]
        /\ \A i, j \in 1 .. Cardinality(Active) : i # j => heads[i] # heads[j]
    BY DEF SetToSeqs
  <2>3. heads \in Seq(Active) /\ Len(heads) = Cardinality(Active)
    BY <2>1, <2>2
  <2>. QED  BY <2>1, <2>2, <2>3
<1>. HIDE DEF n
<1>5. /\ \A i \in 1 .. n : head(i) \in People
      /\ \A i, j \in 1 .. n : i # j /\ head(i) = head(j) => head(i) = NoOne
  BY <1>3, <1>4, ActiveFacts, DivisionAssumption DEF People
<1>6. teams' = [i \in 1 .. n |-> Team(i, head(i))]
  BY <1>2 DEF n
<1>. HIDE DEF head
<1>7. /\ DOMAIN teams' = 1 .. n /\ teams' \in Seq(Member)
      /\ \A i \in 1 .. n : teams'[i].id = i /\ teams'[i].head = head(i) /\ teams'[i].players = {}
  <2>1. \A i \in 1 .. n : Team(i, head(i)) \in Member
    BY <1>3, <1>5 DEF Team, Member
  <2>2. \A i \in 1 .. n : teams'[i] = Team(i, head(i))
    BY <1>6
  <2>3. DOMAIN teams' = 1 .. n /\ teams' \in Seq(Member)
    BY <1>3, <1>6, <2>1
  <2>. QED  BY <2>2, <2>3, TeamFacts
<1>8. /\ Here \subseteq Players /\ todo' \in SUBSET SUBSET Players
      /\ UNION todo' = Here /\ Units(UNION todo') = todo'
  BY <1>1, ActiveFacts, LateUnits
<1>9. run' \in Runs /\ run'.late = todo' /\ run'.fresh
  <2>1. TRUE \in BOOLEAN
    OBVIOUS
  <2>2. Begun(TRUE, policy)'
    BY <1>1, <1>8, <2>1, StartedFacts
  <2>. QED  BY <2>2 DEF Begun
<1>10. TypeOK'
  BY <1>1, <1>7, <1>8, <1>9 DEF TypeOK
<1>11. IdsUnique'
  BY <1>7 DEF IdsUnique
<1>12. SeatsInv'
  <2>1. SeatedOnce' /\ Seated' = {}
    BY <1>7 DEF SeatedOnce, Seated
  <2>2. Waiting' = Here
    BY <1>1, <1>8 DEF Waiting
  <2>3. UnitsOfLate'
    BY <1>1, <1>8, <1>9, RegUnchanged DEF UnitsOfLate
  <2>4. Accounted' /\ DemotedAssist'
    BY <1>1, <2>1, <2>2, RegUnchanged DEF Accounted, DemotedAssist
  <2>. QED  BY <2>1, <2>3, <2>4 DEF SeatsInv
<1>13. AskedInv'
  BY <1>9 DEF AskedInv, PlacedAsAsked
<1>14. HopelessInv'
  BY <1>1 DEF HopelessInv, AdultsFirst
<1>15. AnchorInv'
  <2>1. OneAnchor'
    BY <1>5, <1>7 DEF OneAnchor
  <2>. QED  BY <1>1, <2>1 DEF AnchorInv
<1>. QED  BY <1>10, <1>11, <1>12, <1>13, <1>14, <1>15 DEF GenerationInv

LEMMA PreservedFacts ==
    ASSUME TypeOK
    PROVE  /\ DOMAIN Preserved = DOMAIN teams /\ Preserved \in Seq(Member)
           /\ \A i \in DOMAIN teams :
                  /\ Preserved[i].id = teams[i].id /\ Preserved[i].head = teams[i].head
                  /\ Preserved[i].players = teams[i].players \cap Here
<1>1. teams \in Seq(Member) /\ Here \subseteq Players
  BY ActiveFacts DEF TypeOK
<1>2. \A i \in DOMAIN teams : /\ Preserved[i] = [teams[i] EXCEPT !.players = @ \cap Here]
                              /\ Preserved[i] \in Member
  BY <1>1, SeatFacts DEF Preserved, Member
<1>3. DOMAIN Preserved = DOMAIN teams /\ Preserved \in Seq(Member)
  BY <1>1, <1>2 DEF Preserved
<1>. QED  BY <1>2, <1>3, SeatFacts DEF Member

LEMMA AgainKeeps ==
    ASSUME TypeOK, IdsUnique, SeatsInv, NEW policy \in Policies, NEW config \in Configs,
           GenerateAgain(policy, config)
    PROVE  GenerationInv'
<1>1. /\ todo' = Units(Here \ Seated) /\ run' = Started(FALSE, policy, config)
      /\ teams' = Preserved
      /\ stage' = IF Here = {} \/ teams = <<>> THEN "place" ELSE "coaches"
      /\ overflow' = {} /\ demoted' = {} /\ reg' = reg /\ changes' = changes
      /\ ~Conflicting(Here \ Seated)
  BY DEF GenerateAgain
<1>2. /\ Here \subseteq Players /\ Here \ Seated \subseteq Players
      /\ todo' \in SUBSET SUBSET Players
      /\ UNION todo' = Here \ Seated /\ Units(UNION todo') = todo'
  BY <1>1, ActiveFacts, LateUnits
<1>3. /\ run' \in Runs /\ run'.late = todo' /\ ~run'.fresh /\ run'.at = 1
      /\ run'.anchored = Heads(teams) /\ run'.replaced = {}
      /\ run'.before = [i \in DOMAIN teams |-> teams[i].head]
  <2>1. FALSE \in BOOLEAN
    OBVIOUS
  <2>2. /\ Begun(FALSE, policy)' /\ run'.anchored = Heads(teams)
        /\ run'.before = [i \in DOMAIN teams |-> teams[i].head]
    BY <1>1, <1>2, <2>1, StartedFacts
  <2>. QED  BY <2>2 DEF Begun
<1>4. /\ DOMAIN teams' = DOMAIN teams /\ teams' \in Seq(Member)
      /\ \A i \in DOMAIN teams :
             /\ teams'[i].id = teams[i].id /\ teams'[i].head = teams[i].head
             /\ teams'[i].players = teams[i].players \cap Here
  BY <1>1, PreservedFacts
<1>5. TypeOK'
  <2>1. stage' = "coaches" => run'.at \in DOMAIN teams'
    <3>1. SUFFICES ASSUME teams # <<>> PROVE 1 \in DOMAIN teams
      BY <1>1, <1>3, <1>4
    <3>. QED  BY <3>1 DEF TypeOK
  <2>. QED  BY <1>1, <1>2, <1>3, <1>4, <2>1 DEF TypeOK
<1>6. IdsUnique'
  BY <1>4 DEF IdsUnique
<1>7. SeatsInv'
  <2>1. SeatedOnce'
    BY <1>4 DEF SeatsInv, SeatedOnce
  <2>2. Seated' = Seated \cap Here
    BY <1>4 DEF Seated
  <2>3. Waiting' = Here \ Seated
    BY <1>1, <1>2 DEF Waiting
  <2>4. UnitsOfLate'
    BY <1>1, <1>2, <1>3, RegUnchanged DEF UnitsOfLate
  <2>5. Accounted' /\ DemotedAssist'
    BY <1>1, <1>3, <2>2, <2>3, RegUnchanged DEF Accounted, DemotedAssist
  <2>. QED  BY <2>1, <2>4, <2>5 DEF SeatsInv
<1>8. AskedInv'
  BY <1>3 DEF AskedInv, PlacedAsAsked
<1>9. HopelessInv'
  BY <1>1 DEF HopelessInv, AdultsFirst
<1>10. AnchorInv'
  <2>1. OneAnchor'
    BY <1>3, <1>4 DEF OneAnchor
  <2>2. StillToCome'
    BY <1>3, <1>4 DEF StillToCome
  <2>3. \A i \in DOMAIN teams' : Spoken(teams[i].head)'
    BY <1>3, <1>4 DEF Spoken, Heads
  <2>. QED  BY <1>3, <2>1, <2>2, <2>3 DEF AnchorInv
<1>. QED  BY <1>5, <1>6, <1>7, <1>8, <1>9, <1>10 DEF GenerationInv

-----------------------------------------------------------------------------
(* applyCoachContinuity: the head of one team, and on to the next           *)

\* What NextTeam leaves
Turned(head, anchored, replaced) ==
    /\ teams' \in Seq(Member) /\ DOMAIN teams' = DOMAIN teams
    /\ \A i \in DOMAIN teams :
           /\ teams'[i].id = teams[i].id /\ teams'[i].players = teams[i].players
           /\ teams'[i].assistants = teams[i].assistants
           /\ teams'[i].locked <=> teams[i].locked
           /\ teams'[i].head = IF i = run.at THEN head ELSE teams[i].head
           /\ i # run.at => teams'[i] = teams[i]
    /\ run' \in Runs /\ run'.at = run.at + 1
    /\ run'.anchored = anchored /\ run'.replaced = replaced
    /\ run'.late = run.late /\ (run'.fresh <=> run.fresh)
    /\ run'.before = run.before /\ run'.policy = run.policy
    /\ stage' \in {"coaches", "place"} /\ (stage' = "coaches" => run.at + 1 \in DOMAIN teams)
    /\ UNCHANGED <<reg, overflow, todo, demoted, changes>>

LEMMA TurnEffect ==
    ASSUME TypeOK, stage = "coaches", NEW head \in People, NEW anchored \in SUBSET Coaches,
           NEW replaced \in SUBSET Coaches, NextTeam(head, anchored, replaced)
    PROVE  Turned(head, anchored, replaced)
<1>1. teams \in Seq(Member) /\ run \in Runs /\ run.at \in DOMAIN teams
  BY DEF TypeOK
<1>2. /\ teams' = [teams EXCEPT ![run.at].head = head]
      /\ run' = [run EXCEPT !.at = @ + 1, !.anchored = anchored, !.replaced = replaced]
      /\ stage' = IF run.at = Len(teams) THEN "place" ELSE "coaches"
      /\ UNCHANGED <<reg, overflow, todo, demoted, changes>>
  BY DEF NextTeam
<1> DEFINE new == [teams[run.at] EXCEPT !.head = head]
<1>3. teams[run.at] \in Member
  BY <1>1
<1>4. /\ new \in Member /\ new.head = head /\ new.id = teams[run.at].id
      /\ new.players = teams[run.at].players /\ new.assistants = teams[run.at].assistants
      /\ new.locked <=> teams[run.at].locked
  BY <1>3 DEF Member
<1>5. teams' = [teams EXCEPT ![run.at] = new]
  BY <1>1, <1>2
<1>. HIDE DEF new
<1>6. /\ teams' \in Seq(Member) /\ DOMAIN teams' = DOMAIN teams /\ teams'[run.at] = new
      /\ \A i \in DOMAIN teams : i # run.at => teams'[i] = teams[i]
  BY <1>1, <1>4, <1>5
<1>7. /\ run' \in Runs /\ run'.at = run.at + 1 /\ run'.anchored = anchored
      /\ run'.replaced = replaced /\ run'.late = run.late /\ (run'.fresh <=> run.fresh)
      /\ run'.before = run.before /\ run'.policy = run.policy
  <2>1. run' \in Runs
    <3>1. run.at \in Nat /\ run.at + 1 \in Nat
      BY <1>1
    <3>2. ASSUME NEW n \in Nat
          PROVE  [run EXCEPT !.at = n, !.anchored = anchored, !.replaced = replaced] \in Runs
      BY <1>1 DEF Runs
    <3>. QED  BY <1>2, <3>1, <3>2
  <2>2. /\ run'.at = run.at + 1 /\ run'.anchored = anchored
        /\ run'.replaced = replaced /\ run'.late = run.late
        /\ run'.before = run.before /\ run'.policy = run.policy
    BY <1>1, <1>2 DEF Runs
  <2>3. run'.fresh <=> run.fresh
    BY <1>1, <1>2 DEF Runs
  <2>. QED  BY <2>1, <2>2, <2>3
<1>8. stage' = "coaches" => run.at + 1 \in DOMAIN teams
  BY <1>1, <1>2
<1>. QED  BY <1>2, <1>4, <1>6, <1>7, <1>8 DEF Turned

\* Who heads a team changes nothing about where the players are.
LEMMA TurnKeeps ==
    ASSUME TypeOK, IdsUnique, SeatsInv, stage = "coaches", NEW head, NEW anchored, NEW replaced,
           Turned(head, anchored, replaced)
    PROVE  TypeOK' /\ IdsUnique' /\ SeatsInv' /\ AskedInv' /\ HopelessInv'
<1>1. /\ DOMAIN teams' = DOMAIN teams /\ run' \in Runs /\ teams' \in Seq(Member)
      /\ \A i \in DOMAIN teams :
             teams'[i].id = teams[i].id /\ teams'[i].players = teams[i].players
      /\ run'.late = run.late /\ (run'.fresh <=> run.fresh) /\ run'.at = run.at + 1
      /\ stage' \in {"coaches", "place"} /\ (stage' = "coaches" => run.at + 1 \in DOMAIN teams)
      /\ UNCHANGED <<reg, overflow, todo, demoted, changes>>
  BY DEF Turned
<1>2. TypeOK'
  BY <1>1 DEF TypeOK
<1>3. IdsUnique'
  BY <1>1 DEF IdsUnique
<1>4. SeatsInv'
  <2>1. SeatedOnce' /\ Seated' = Seated /\ Waiting' = Waiting
    BY <1>1 DEF SeatsInv, SeatedOnce, Seated, Waiting
  <2>2. UnitsOfLate'
    BY <1>1, RegUnchanged DEF SeatsInv, UnitsOfLate
  <2>3. Accounted' /\ DemotedAssist'
    BY <1>1, <2>1, RegUnchanged DEF SeatsInv, Accounted, DemotedAssist
  <2>. QED  BY <2>1, <2>2, <2>3 DEF SeatsInv
<1>5. overflow' = {} /\ todo' = run'.late
  BY <1>1 DEF SeatsInv, Accounted
<1>6. AskedInv' /\ HopelessInv'
  BY <1>5 DEF AskedInv, PlacedAsAsked, HopelessInv, AdultsFirst
<1>. QED  BY <1>2, <1>3, <1>4, <1>6

\* What a team's turn must see to for AnchorInv: nobody else has its head but
\* for a reason, and whoever is no longer anchored is gone or was replaced.
LEMMA TurnKeepsAnchors ==
    ASSUME TypeOK, AnchorInv, stage = "coaches", NEW head, NEW anchored, NEW replaced,
           Turned(head, anchored, replaced),
           \A i \in DOMAIN teams \ {run.at} :
               teams[i].head = head => \/ head = NoOne \/ run.before[i] = run.before[run.at]
                                       \/ head \in replaced \/ head \notin Active,
           head = NoOne \/ head \in anchored \cup replaced \/ head \notin Active,
           \A c \in run.anchored : c \in anchored \cup replaced \/ c \notin Active,
           run.replaced \subseteq replaced, replaced \subseteq DOMAIN run.policy.replacements,
           \A c \in replaced : Replacement(c)'
    PROVE  AnchorInv'
<1>1. /\ DOMAIN teams' = DOMAIN teams
      /\ \A i \in DOMAIN teams : teams'[i].head = IF i = run.at THEN head ELSE teams[i].head
      /\ run'.at = run.at + 1 /\ run'.anchored = anchored /\ run'.replaced = replaced
      /\ run'.before = run.before /\ run'.policy = run.policy /\ reg' = reg
  BY DEF Turned
<1>2. /\ OneAnchor /\ StillToCome /\ \A i \in DOMAIN teams : Spoken(teams[i].head)
      /\ run.at \in DOMAIN teams /\ DOMAIN teams \subseteq Nat
  BY DEF AnchorInv, TypeOK
<1>3. Active' = Active
  BY <1>1, RegUnchanged
<1>4. OneAnchor'
  <2>1. SUFFICES ASSUME NEW i \in DOMAIN teams, NEW j \in DOMAIN teams, i # j,
                        teams'[i].head = teams'[j].head, teams'[i].head # NoOne
        PROVE  \/ run.before[i] = run.before[j]
               \/ teams'[i].head \in replaced \/ teams'[i].head \notin Active
    BY <1>1, <1>2, <1>3 DEF OneAnchor, StillToCome
  <2>2. CASE i = run.at \/ j = run.at
    BY <1>1, <2>1, <2>2
  <2>3. CASE i # run.at /\ j # run.at
    BY <1>1, <1>2, <2>1, <2>3 DEF OneAnchor
  <2>. QED  BY <2>2, <2>3
<1>5. StillToCome'
  BY <1>1, <1>2 DEF StillToCome
<1>6. \A i \in DOMAIN teams' : Spoken(teams[i].head)'
  BY <1>1, <1>2, <1>3 DEF Spoken
<1>. QED  BY <1>1, <1>4, <1>5, <1>6 DEF AnchorInv

\* The team whose turn it is, and what is known of replacements
LEMMA TurnFacts ==
    ASSUME TypeOK, AnchorInv, stage = "coaches"
    PROVE  /\ run.at \in DOMAIN teams /\ teams[run.at].head \in People
           /\ run.before[run.at] = teams[run.at].head
           /\ run.anchored \in SUBSET Coaches /\ run.replaced \in SUBSET Coaches
           /\ \A h : Mapped(h) => h \in Coaches /\ run.policy.replacements[h] \in Coaches
<1>1. run \in Runs /\ run.at \in DOMAIN teams /\ run.at \in Nat
  BY DEF TypeOK
<1>2. teams[run.at].head \in People
  BY <1>1, SeatFacts DEF Member
<1>3. run.before[run.at] = teams[run.at].head
  BY <1>1 DEF AnchorInv, StillToCome
<1>4. ASSUME NEW h, Mapped(h) PROVE h \in Coaches /\ run.policy.replacements[h] \in Coaches
  <2>1. PICK C \in SUBSET Coaches : run.policy.replacements \in [C -> Coaches]
    BY <1>1 DEF Runs, ChangePolicies
  <2>. QED  BY <1>4, <2>1 DEF Mapped
<1>. QED  BY <1>1, <1>2, <1>3, <1>4 DEF Runs

LEMMA KeepHeadKeeps ==
    ASSUME TypeOK, IdsUnique, SeatsInv, AnchorInv, KeepHead
    PROVE  GenerationInv'
<1> DEFINE h == teams[run.at].head
<1>1. stage = "coaches" /\ NextTeam(h, run.anchored, run.replaced)
  BY DEF KeepHead
<1>2. /\ run.at \in DOMAIN teams /\ h \in People
      /\ run.anchored \in SUBSET Coaches /\ run.replaced \in SUBSET Coaches
  BY <1>1, TurnFacts
<1>3. Turned(h, run.anchored, run.replaced)
  BY <1>1, <1>2, TurnEffect
<1>4. TypeOK' /\ IdsUnique' /\ SeatsInv' /\ AskedInv' /\ HopelessInv'
  BY <1>1, <1>3, TurnKeeps
<1>5. AnchorInv'
  <2>1. /\ DOMAIN teams' = DOMAIN teams
        /\ \A i \in DOMAIN teams : teams'[i].head = teams[i].head
        /\ run'.anchored = run.anchored /\ run'.replaced = run.replaced
        /\ run'.before = run.before /\ run'.policy = run.policy /\ Active' = Active
    BY <1>3, RegUnchanged DEF Turned
  <2>2. \A c \in run.replaced : Replacement(c)'
    BY <1>1, <2>1 DEF AnchorInv, Replacement
  <2>3. \A i \in DOMAIN teams \ {run.at} :
            teams[i].head = h => \/ h = NoOne \/ run.before[i] = run.before[run.at]
                                 \/ h \in run.replaced \/ h \notin Active
    BY <1>1, <1>2 DEF AnchorInv, OneAnchor
  <2>4. h = NoOne \/ h \in run.anchored \cup run.replaced \/ h \notin Active
    BY <1>1, <1>2 DEF AnchorInv, Spoken
  <2>5. run.replaced \subseteq DOMAIN run.policy.replacements
    BY <1>1 DEF AnchorInv
  <2>. HIDE DEF h
  <2>. QED  BY <1>1, <1>3, <2>2, <2>3, <2>4, <2>5, TurnKeepsAnchors
<1>. QED  BY <1>4, <1>5 DEF GenerationInv

\* The new head is anchored nowhere else, or came there for the same coach;
\* in both cases OneAnchor allows for it.
LEMMA ReplaceHeadKeeps ==
    ASSUME TypeOK, IdsUnique, SeatsInv, AnchorInv, ReplaceHead
    PROVE  GenerationInv'
<1> DEFINE h == teams[run.at].head
           n == run.policy.replacements[h]
           anchored == (run.anchored \ {h}) \cup {n}
           replaced == run.replaced \cup {h}
<1>1. stage = "coaches" /\ Mapped(h) /\ ~Blocked(h) /\ NextTeam(n, anchored, replaced)
  BY DEF ReplaceHead
<1>2. /\ run.at \in DOMAIN teams /\ h \in Coaches /\ n \in Coaches /\ run.before[run.at] = h
      /\ run.anchored \in SUBSET Coaches /\ run.replaced \in SUBSET Coaches
  BY <1>1, TurnFacts
<1>3. Turned(n, anchored, replaced)
  BY <1>1, <1>2, TurnEffect DEF People
<1>4. TypeOK' /\ IdsUnique' /\ SeatsInv' /\ AskedInv' /\ HopelessInv'
  BY <1>1, <1>3, TurnKeeps
<1>5. /\ DOMAIN teams' = DOMAIN teams
      /\ \A i \in DOMAIN teams : teams'[i].head = IF i = run.at THEN n ELSE teams[i].head
      /\ run'.anchored = anchored /\ run'.replaced = replaced
      /\ run'.before = run.before /\ run'.policy = run.policy /\ Active' = Active
  BY <1>3, RegUnchanged DEF Turned
<1>6. /\ \A i \in DOMAIN teams : Spoken(teams[i].head)
      /\ run.replaced \subseteq DOMAIN run.policy.replacements
      /\ \A c \in run.replaced : Replacement(c)
  BY <1>1 DEF AnchorInv
<1>7. n \in run.anchored => n = h \/ h \in run.replaced
  BY <1>1 DEF Blocked
<1>8. NoOne \notin Coaches
  BY DivisionAssumption
<1>. HIDE DEF h, n
<1>9. ASSUME NEW i \in DOMAIN teams, i # run.at, teams[i].head = n
      PROVE  run.before[i] = h \/ n \in replaced \/ n \notin Active
  <2>1. n \in run.anchored \/ n \in run.replaced \/ n \notin Active
    BY <1>2, <1>6, <1>8, <1>9 DEF Spoken
  <2>2. CASE n \in run.anchored /\ n # h
    <3>1. Replacement(h)
      BY <1>6, <1>7, <2>2
    <3>. QED  BY <1>9, <3>1 DEF Replacement, n
  <2>. QED  BY <2>1, <2>2
<1>10. ASSUME NEW c \in replaced PROVE Replacement(c)'
  <2> DEFINE m == run.policy.replacements[c]
  <2>1. CASE c = h
    <3>1. n \in replaced \/ n \notin Active
          \/ \A i \in DOMAIN teams' : teams'[i].head = n => run.before[i] = h
      BY <1>2, <1>5, <1>9
    <3>2. n \in anchored /\ \E i \in DOMAIN teams' : teams'[i].head = n
      BY <1>2, <1>5
    <3>. QED  BY <1>5, <2>1, <3>1, <3>2 DEF Replacement, n
  <2>2. CASE c # h
    <3>1. c \in run.replaced /\ Replacement(c)
      BY <1>6, <2>2
    <3>2. CASE m \in {c} \cup replaced \/ m \notin Active
      BY <1>5, <3>2 DEF Replacement
    <3>3. CASE m \notin {c} \cup replaced /\ m \in Active
      <4>1. /\ m \in run.anchored /\ m # h
            /\ \A i \in DOMAIN teams : teams[i].head = m => run.before[i] = c
        BY <3>1, <3>3 DEF Replacement
      <4>2. PICK k \in DOMAIN teams : teams[k].head = m
        BY <3>1, <3>3 DEF Replacement
      <4>3. k # run.at
        BY <4>1, <4>2 DEF h
      <4>4. m # n
        <5>1. SUFFICES ASSUME m = n PROVE FALSE
          OBVIOUS
        <5>2. Replacement(h)
          BY <1>6, <1>7, <4>1, <5>1
        <5>3. run.before[k] = h
          BY <3>3, <4>2, <5>1, <5>2 DEF Replacement, n
        <5>. QED  BY <2>2, <4>1, <4>2, <5>3
      <4>5. m \in anchored
        BY <4>1
      <4>6. \A i \in DOMAIN teams' : teams'[i].head = m => run.before[i] = c
        BY <1>5, <4>1, <4>4
      <4>7. teams'[k].head = m
        BY <1>5, <4>2, <4>3
      <4>. QED  BY <1>5, <4>2, <4>5, <4>6, <4>7 DEF Replacement
    <3>. QED  BY <3>2, <3>3
  <2>. QED  BY <2>1, <2>2
<1>11. AnchorInv'
  <2>1. replaced \subseteq DOMAIN run.policy.replacements
    BY <1>1, <1>6 DEF Mapped
  <2>2. \A i \in DOMAIN teams \ {run.at} :
            teams[i].head = n => \/ n = NoOne \/ run.before[i] = run.before[run.at]
                                 \/ n \in replaced \/ n \notin Active
    BY <1>2, <1>9
  <2>. QED  BY <1>1, <1>3, <1>10, <2>1, <2>2, TurnKeepsAnchors
<1>. QED  BY <1>4, <1>11 DEF GenerationInv

\* A team without a head, or whose head is the coach of no player, gets an
\* adult nobody else has, or nobody.
LEMMA OpenHeadKeeps ==
    ASSUME TypeOK, IdsUnique, SeatsInv, AnchorInv, stage = "coaches",
           NEW c \in People, NEW anchored \in SUBSET Coaches,
           NextTeam(c, anchored, run.replaced),
           teams[run.at].head = NoOne \/ teams[run.at].head \notin Active,
           c = NoOne \/ (c \in anchored /\ c \notin run.anchored),
           \A d \in run.anchored : d \in anchored \/ d = teams[run.at].head
    PROVE  GenerationInv'
<1> DEFINE h == teams[run.at].head
<1>1. /\ run.at \in DOMAIN teams /\ h \in People
      /\ run.anchored \in SUBSET Coaches /\ run.replaced \in SUBSET Coaches
  BY TurnFacts
<1>2. Turned(c, anchored, run.replaced)
  BY <1>1, TurnEffect
<1>3. TypeOK' /\ IdsUnique' /\ SeatsInv' /\ AskedInv' /\ HopelessInv'
  BY <1>2, TurnKeeps
<1>4. /\ DOMAIN teams' = DOMAIN teams
      /\ \A i \in DOMAIN teams : teams'[i].head = IF i = run.at THEN c ELSE teams[i].head
      /\ run'.anchored = anchored /\ run'.replaced = run.replaced
      /\ run'.before = run.before /\ run'.policy = run.policy /\ Active' = Active
  BY <1>2, RegUnchanged DEF Turned
<1>5. /\ \A i \in DOMAIN teams : Spoken(teams[i].head)
      /\ run.replaced \subseteq DOMAIN run.policy.replacements
      /\ \A d \in run.replaced : Replacement(d)
  BY DEF AnchorInv
<1>6. NoOne \notin Coaches
  BY DivisionAssumption
<1>7. ASSUME NEW d \in run.replaced PROVE Replacement(d)'
  <2> DEFINE m == run.policy.replacements[d]
  <2>1. Replacement(d)
    BY <1>5
  <2>2. CASE m \in {d} \cup run.replaced \/ m \notin Active
    BY <1>4, <2>2 DEF Replacement
  <2>3. CASE m \notin {d} \cup run.replaced /\ m \in Active
    <3>1. /\ m \in run.anchored
          /\ \A i \in DOMAIN teams : teams[i].head = m => run.before[i] = d
      BY <2>1, <2>3 DEF Replacement
    <3>2. PICK k \in DOMAIN teams : teams[k].head = m
      BY <2>1, <2>3 DEF Replacement
    <3>3. m # h /\ m # c /\ m \in anchored
      BY <1>1, <1>6, <2>3, <3>1
    <3>4. \A i \in DOMAIN teams' : teams'[i].head = m => run.before[i] = d
      BY <1>4, <3>1, <3>3
    <3>5. teams'[k].head = m
      BY <1>4, <3>2, <3>3
    <3>. QED  BY <1>4, <3>2, <3>3, <3>4, <3>5 DEF Replacement
  <2>. QED  BY <2>2, <2>3
<1>8. AnchorInv'
  <2>1. \A i \in DOMAIN teams \ {run.at} :
            teams[i].head = c => \/ c = NoOne \/ run.before[i] = run.before[run.at]
                                 \/ c \in run.replaced \/ c \notin Active
    BY <1>5 DEF Spoken
  <2>2. \A d \in run.anchored : d \in anchored \cup run.replaced \/ d \notin Active
    BY <1>1, <1>6
  <2>. QED  BY <1>2, <1>5, <1>7, <2>1, <2>2, TurnKeepsAnchors
<1>. QED  BY <1>3, <1>8 DEF GenerationInv

LEMMA CandidateFacts ==
    ASSUME TypeOK, SeatsInv, stage # "idle", NEW i \in DOMAIN teams, NEW anchored,
           NEW c \in Candidates(i, anchored)
    PROVE  c \in Active /\ c \in Coaches /\ c \notin anchored
<1>1. PICK p \in teams[i].players : c = reg[p].coach
  BY DEF Candidates
<1>2. p \in Here
  BY <1>1 DEF Seated, SeatsInv, Accounted
<1>3. c # NoOne /\ c \notin anchored
  BY DEF Candidates
<1>. QED  BY <1>1, <1>2, <1>3, ActiveFacts DEF Active

LEMMA DropHeadKeeps ==
    ASSUME TypeOK, IdsUnique, SeatsInv, AnchorInv, DropHead
    PROVE  GenerationInv'
<1> DEFINE h == teams[run.at].head
           rest == run.anchored \ {h}
           able == Candidates(run.at, rest)
<1>1. /\ stage = "coaches" /\ h \notin Active
      /\ \/ \E c \in able : NextTeam(c, rest \cup {c}, run.replaced)
         \/ NextTeam(NoOne, rest, run.replaced)
  BY DEF DropHead
<1>2. run.at \in DOMAIN teams /\ run.anchored \in SUBSET Coaches
  BY <1>1, TurnFacts
<1>3. ASSUME NEW c \in able, NextTeam(c, rest \cup {c}, run.replaced)
      PROVE  GenerationInv'
  <2>1. c \in Active /\ c \in Coaches /\ c \notin rest
    BY <1>1, <1>2, CandidateFacts
  <2>2. c \in People /\ rest \cup {c} \in SUBSET Coaches /\ c \notin run.anchored
    BY <1>1, <1>2, <2>1 DEF People
  <2>3. \A d \in run.anchored : d \in rest \cup {c} \/ d = h
    OBVIOUS
  <2>. QED  BY <1>1, <1>3, <2>2, <2>3, OpenHeadKeeps
<1>4. ASSUME NextTeam(NoOne, rest, run.replaced)
      PROVE  GenerationInv'
  <2>1. NoOne \in People /\ rest \in SUBSET Coaches
    BY <1>2 DEF People
  <2>2. \A d \in run.anchored : d \in rest \/ d = h
    OBVIOUS
  <2>. QED  BY <1>1, <1>4, <2>1, <2>2, OpenHeadKeeps
<1>. QED  BY <1>1, <1>3, <1>4

LEMMA AttachHeadKeeps ==
    ASSUME TypeOK, IdsUnique, SeatsInv, AnchorInv, AttachHead
    PROVE  GenerationInv'
<1> DEFINE able == Candidates(run.at, run.anchored)
<1>1. /\ stage = "coaches" /\ teams[run.at].head = NoOne
      /\ \/ \E c \in able : NextTeam(c, run.anchored \cup {c}, run.replaced)
         \/ NextTeam(NoOne, run.anchored, run.replaced)
  BY DEF AttachHead
<1>2. run.at \in DOMAIN teams /\ run.anchored \in SUBSET Coaches
  BY <1>1, TurnFacts
<1>3. ASSUME NEW c \in able, NextTeam(c, run.anchored \cup {c}, run.replaced)
      PROVE  GenerationInv'
  <2>1. c \in Coaches /\ c \notin run.anchored
    BY <1>1, <1>2, CandidateFacts
  <2>2. c \in People /\ run.anchored \cup {c} \in SUBSET Coaches
    BY <1>2, <2>1 DEF People
  <2>. QED  BY <1>1, <1>3, <2>1, <2>2, OpenHeadKeeps
<1>4. ASSUME NextTeam(NoOne, run.anchored, run.replaced)
      PROVE  GenerationInv'
  <2>1. NoOne \in People
    BY DEF People
  <2>. QED  BY <1>1, <1>2, <1>4, <2>1, OpenHeadKeeps
<1>. QED  BY <1>1, <1>3, <1>4

-----------------------------------------------------------------------------
(* Between two runs                                                         *)

\* All that is left to see to while no run is under way
LEMMA IdleKeeps ==
    ASSUME TypeOK', IdsUnique', SeatedOnce', stage' = "idle"
    PROVE  GenerationInv'
  BY DEF GenerationInv, SeatsInv, AskedInv, HopelessInv, AnchorInv, OneAnchor

LEMMA RegisterKeeps ==
    ASSUME TypeOK, IdsUnique, SeatsInv, NEW p \in Players, NEW r \in Registrations,
           Register(p, r)
    PROVE  GenerationInv'
<1>1. /\ stage = "idle" /\ UNCHANGED <<overflow, stage, todo, demoted, run, teams>>
      /\ reg' = [reg EXCEPT ![p] = r]
  BY DEF Register, Change
<1>2. r \in Registration
  BY DivisionAssumption
<1>3. TypeOK'
  BY <1>1, <1>2 DEF TypeOK
<1>4. IdsUnique' /\ SeatedOnce'
  BY <1>1 DEF IdsUnique, SeatsInv, SeatedOnce
<1>. QED  BY <1>1, <1>3, <1>4, IdleKeeps

LEMMA MovePlayerKeeps ==
    ASSUME TypeOK, IdsUnique, SeatsInv, NEW i \in DOMAIN teams, NEW p \in Players,
           MovePlayer(p, i)
    PROVE  GenerationInv'
<1>1. /\ stage = "idle" /\ UNCHANGED <<overflow, stage, todo, demoted, run, reg>>
      /\ teams' = [j \in DOMAIN teams |->
                      [teams[j] EXCEPT !.players = IF j = i THEN @ \cup {p} ELSE @ \ {p}]]
  BY DEF MovePlayer, Change
<1>2. \A j \in DOMAIN teams :
          /\ teams'[j] \in Member /\ teams'[j].id = teams[j].id
          /\ teams'[j].players = IF j = i THEN teams[j].players \cup {p} ELSE teams[j].players \ {p}
  <2>1. SUFFICES ASSUME NEW j \in DOMAIN teams
        PROVE  /\ teams'[j] \in Member /\ teams'[j].id = teams[j].id
               /\ teams'[j].players = IF j = i THEN teams[j].players \cup {p}
                                      ELSE teams[j].players \ {p}
    OBVIOUS
  <2>2. teams[j] \in Member
    BY SeatFacts
  <2>. QED  BY <1>1, <2>2 DEF Member
<1>3. DOMAIN teams' = DOMAIN teams /\ teams' \in Seq(Member)
  <2>1. DOMAIN teams = 1 .. Len(teams) /\ Len(teams) \in Nat
    BY DEF TypeOK
  <2>2. DOMAIN teams' = DOMAIN teams
    BY <1>1
  <2>3. teams' \in [1 .. Len(teams) -> Member]
    BY <1>1, <1>2, <2>1
  <2>. QED  BY <2>1, <2>2, <2>3
<1>4. TypeOK'
  BY <1>1, <1>3 DEF TypeOK
<1>5. IdsUnique' /\ SeatedOnce'
  BY <1>2, <1>3 DEF IdsUnique, SeatsInv, SeatedOnce
<1>. QED  BY <1>1, <1>4, <1>5, IdleKeeps

\* The staff changes something of one team, its id and players excepted.
LEMMA EditKeeps ==
    ASSUME TypeOK, IdsUnique, SeatsInv, stage = "idle", NEW i \in DOMAIN teams,
           NEW new \in Member, new.id = teams[i].id, new.players = teams[i].players,
           teams' = [teams EXCEPT ![i] = new],
           UNCHANGED <<overflow, stage, todo, demoted, run, reg>>
    PROVE  GenerationInv'
<1>1. teams \in Seq(Member)
  BY DEF TypeOK
<1>2. /\ teams' \in Seq(Member) /\ DOMAIN teams' = DOMAIN teams /\ teams'[i] = new
      /\ \A j \in DOMAIN teams : j # i => teams'[j] = teams[j]
  BY <1>1
<1>3. TypeOK'
  BY <1>2 DEF TypeOK
<1>4. \A j \in DOMAIN teams : teams'[j].id = teams[j].id /\ teams'[j].players = teams[j].players
  BY <1>2
<1>5. IdsUnique' /\ SeatedOnce'
  BY <1>2, <1>4 DEF IdsUnique, SeatsInv, SeatedOnce
<1>. QED  BY <1>3, <1>5, IdleKeeps

LEMMA AppointKeeps ==
    ASSUME TypeOK, IdsUnique, SeatsInv, NEW i \in DOMAIN teams,
           NEW head \in Coaches \cup {NoOne}, Appoint(i, head)
    PROVE  GenerationInv'
<1> DEFINE new == [teams[i] EXCEPT !.head = head]
<1>1. /\ stage = "idle" /\ UNCHANGED <<overflow, stage, todo, demoted, run, reg>>
      /\ teams' = [teams EXCEPT ![i] = new]
  BY DEF Appoint, Change
<1>2. teams[i] \in Member
  BY SeatFacts
<1>3. new \in Member /\ new.id = teams[i].id /\ new.players = teams[i].players
  BY <1>2 DEF Member, People
<1>. HIDE DEF new
<1>. QED  BY <1>1, <1>3, EditKeeps

LEMMA LockTeamKeeps ==
    ASSUME TypeOK, IdsUnique, SeatsInv, NEW i \in DOMAIN teams, LockTeam(i)
    PROVE  GenerationInv'
<1> DEFINE new == [teams[i] EXCEPT !.locked = ~teams[i].locked]
<1>1. /\ stage = "idle" /\ UNCHANGED <<overflow, stage, todo, demoted, run, reg>>
      /\ teams' = [teams EXCEPT ![i] = new]
  BY DEF LockTeam, Change
<1>2. teams[i] \in Member
  BY SeatFacts
<1>3. new \in Member /\ new.id = teams[i].id /\ new.players = teams[i].players
  BY <1>2 DEF Member
<1>. HIDE DEF new
<1>. QED  BY <1>1, <1>3, EditKeeps

\* The teams after the one that goes move up.
LEMMA RemoveTeamKeeps ==
    ASSUME TypeOK, IdsUnique, SeatsInv, NEW i \in DOMAIN teams, RemoveTeam(i)
    PROVE  GenerationInv'
<1>1. /\ stage = "idle" /\ UNCHANGED <<overflow, stage, todo, demoted, run, reg>>
      /\ teams' = RemoveAt(teams, i)
  BY DEF RemoveTeam, Change
<1> DEFINE n == Len(teams)
           front == SubSeq(teams, 1, i - 1)
           back == SubSeq(teams, i + 1, n)
           old(j) == IF j < i THEN j ELSE j + 1
<1>2. teams \in Seq(Member) /\ n \in Nat /\ i \in 1 .. n /\ DOMAIN teams = 1 .. n
  BY DEF TypeOK
<1>3. /\ front \in Seq(Member) /\ Len(front) = i - 1
      /\ \A j \in 1 .. i - 1 : front[j] = teams[j]
  BY <1>2
<1>4. /\ back \in Seq(Member) /\ Len(back) = n - i
      /\ \A j \in 1 .. n - i : back[j] = teams[j + i]
  BY <1>2
<1>5. teams' = front \o back
  BY <1>1 DEF RemoveAt
<1>. HIDE DEF front, back, n
<1>6. /\ teams' \in Seq(Member) /\ DOMAIN teams' = 1 .. n - 1
      /\ \A j \in 1 .. n - 1 : teams'[j] = IF j <= i - 1 THEN front[j] ELSE back[j - (i - 1)]
  BY <1>2, <1>3, <1>4, <1>5
<1>7. ASSUME NEW j \in 1 .. n - 1 PROVE old(j) \in 1 .. n /\ teams'[j] = teams[old(j)]
  <2>1. CASE j < i
    BY <1>2, <1>3, <1>6, <2>1
  <2>2. CASE j >= i
    <3>1. j - (i - 1) \in 1 .. n - i /\ j - (i - 1) + i = j + 1
      BY <1>2, <2>2
    <3>. QED  BY <1>2, <1>4, <1>6, <2>2, <3>1
  <2>. QED  BY <1>2, <2>1, <2>2
<1>8. \A j, k \in 1 .. n - 1 : j # k => old(j) # old(k)
  BY <1>2
<1>9. TypeOK'
  BY <1>1, <1>6 DEF TypeOK
<1>. HIDE DEF old
<1>10. IdsUnique' /\ SeatedOnce'
  BY <1>2, <1>6, <1>7, <1>8 DEF IdsUnique, SeatsInv, SeatedOnce
<1>. QED  BY <1>1, <1>9, <1>10, IdleKeeps

LEMMA FinishKeeps ==
    ASSUME TypeOK, IdsUnique, SeatsInv, Finish
    PROVE  GenerationInv'
<1>1. /\ stage' = "idle" /\ teams' = teams /\ reg' = reg /\ overflow' = overflow
      /\ todo' = todo /\ demoted' = demoted
  BY DEF Finish
<1>2. TypeOK' /\ IdsUnique' /\ SeatedOnce'
  BY <1>1 DEF TypeOK, IdsUnique, SeatsInv, SeatedOnce
<1>. QED  BY <1>1, <1>2, IdleKeeps

-----------------------------------------------------------------------------
(* Any sequence of runs and changes                                         *)

LEMMA GenerationInit ==
    ASSUME Init
    PROVE  GenerationInv
<1>1. /\ reg \in [Players -> Registration] /\ teams = <<>> /\ overflow = {} /\ todo = {}
      /\ demoted = {} /\ stage = "idle"
  BY DivisionAssumption DEF Init
<1>2. TypeOK
  BY <1>1 DEF TypeOK
<1>3. IdsUnique /\ SeatedOnce
  BY <1>1 DEF IdsUnique, SeatedOnce
<1>. QED  BY <1>1, <1>2, <1>3
     DEF GenerationInv, SeatsInv, AskedInv, HopelessInv, AnchorInv, OneAnchor

LEMMA GenerationStutter ==
    ASSUME GenerationInv, UNCHANGED vars
    PROVE  GenerationInv'
<1>1. /\ teams' = teams /\ reg' = reg /\ overflow' = overflow /\ todo' = todo
      /\ demoted' = demoted /\ stage' = stage /\ run' = run
  BY DEF vars
<1>2. TypeOK' /\ IdsUnique'
  BY <1>1 DEF GenerationInv, TypeOK, IdsUnique
<1>3. SeatsInv'
  <2>1. SeatedOnce' /\ Seated' = Seated /\ Waiting' = Waiting
    BY <1>1 DEF GenerationInv, SeatsInv, SeatedOnce, Seated, Waiting
  <2>2. stage # "idle" => UnitsOfLate'
    BY <1>1, RegUnchanged DEF GenerationInv, SeatsInv, UnitsOfLate
  <2>3. stage # "idle" => Accounted' /\ DemotedAssist'
    BY <1>1, <2>1, RegUnchanged DEF GenerationInv, SeatsInv, Accounted, DemotedAssist
  <2>. QED  BY <1>1, <2>1, <2>2, <2>3 DEF SeatsInv
<1>4. AskedInv'
  BY <1>1, RegUnchanged DEF GenerationInv, AskedInv, PlacedAsAsked
<1>5. HopelessInv'
  <2>1. AdultUnits' = AdultUnits /\ CanCreate' = CanCreate
    BY <1>1, RegUnchanged DEF AdultUnits, CanCreate
  <2>2. \A t, u : Room(t, u)' = Room(t, u)
    BY <1>1 DEF Room
  <2>3. \A u : Open(u)' = Open(u) /\ Own(u)' = Own(u) /\ May(u)' = May(u)
    BY <1>1, <2>1, <2>2, RegUnchanged DEF Open, Own, May
  <2>4. \A u : Hopeless(u)' = Hopeless(u)
    BY <1>1, <2>1, <2>3, RegUnchanged DEF Hopeless
  <2>. QED  BY <1>1, <2>1, <2>4, RegUnchanged DEF GenerationInv, HopelessInv, AdultsFirst
<1>6. AnchorInv'
  <2>1. Active' = Active
    BY <1>1, RegUnchanged
  <2>2. OneAnchor' /\ (stage = "coaches" => StillToCome')
    BY <1>1, <2>1 DEF GenerationInv, AnchorInv, OneAnchor, StillToCome
  <2>3. \A c : Spoken(c)' = Spoken(c) /\ Replacement(c)' = Replacement(c)
    BY <1>1, <2>1 DEF Spoken, Replacement
  <2>. QED  BY <1>1, <2>2, <2>3 DEF GenerationInv, AnchorInv
<1>. QED  BY <1>2, <1>3, <1>4, <1>5, <1>6 DEF GenerationInv

LEMMA GenerationStep ==
    ASSUME GenerationInv, [Next]_vars
    PROVE  GenerationInv'
<1>1. TypeOK /\ IdsUnique /\ SeatsInv /\ AskedInv /\ HopelessInv /\ AnchorInv
  BY DEF GenerationInv
<1>2. ASSUME NEW policy \in Policies, NEW config \in Configs,
             GenerateFresh(policy, config) \/ GenerateAgain(policy, config)
      PROVE  GenerationInv'
  BY <1>1, <1>2, FreshKeeps, AgainKeeps
<1>3. CASE KeepHead \/ ReplaceHead \/ DropHead \/ AttachHead
  BY <1>1, <1>3, KeepHeadKeeps, ReplaceHeadKeeps, DropHeadKeeps, AttachHeadKeeps
<1>4. CASE Place
  <2>1. TypeOK' /\ IdsUnique' /\ SeatsInv' /\ AskedInv' /\ AnchorInv'
    BY <1>1, <1>4, PlaceKeeps
  <2>2. HopelessInv'
    BY <1>1, <1>4, PlaceKeepsHopeless
  <2>. QED  BY <2>1, <2>2 DEF GenerationInv
<1>5. CASE Finish
  BY <1>1, <1>5, FinishKeeps
<1>6. ASSUME NEW p \in Players, NEW r \in Registrations, Register(p, r)
      PROVE  GenerationInv'
  BY <1>1, <1>6, RegisterKeeps
<1>7. ASSUME NEW i \in DOMAIN teams,
             \/ \E p \in Players : MovePlayer(p, i)
             \/ \E head \in Coaches \cup {NoOne} : Appoint(i, head)
             \/ LockTeam(i)
             \/ RemoveTeam(i)
      PROVE  GenerationInv'
  BY <1>1, <1>7, MovePlayerKeeps, AppointKeeps, LockTeamKeeps, RemoveTeamKeeps
<1>8. CASE UNCHANGED vars
  BY <1>8, GenerationStutter
<1>. QED  BY <1>2, <1>3, <1>4, <1>5, <1>6, <1>7, <1>8 DEF Next

LEMMA GenerationInvariant == Spec => []GenerationInv
<1>. QED  BY GenerationInit, GenerationStep, PTL DEF Spec

\* Every variable keeps its type, for any division: a team count is a whole
\* number whatever the constraints, and a run's turn is that of a team.
THEOREM GenerationTypeCorrect == Spec => []TypeOK
<1>1. GenerationInv => TypeOK
  BY DEF GenerationInv
<1>. QED  BY <1>1, GenerationInvariant, PTL

\* One of the two sets a player is counted in is a singleton, or both are empty.
LEMMA CountedOnce ==
    ASSUME TypeOK, SeatsInv, stage # "idle"
    PROVE  NobodyLost
<1> DEFINE on(p) == {i \in DOMAIN teams : p \in teams[i].players}
           in(p) == {u \in overflow \cup todo : p \in u}
<1>1. /\ SeatedOnce /\ Here = Seated \cup Waiting /\ Seated \cap Waiting = {}
      /\ overflow \cup todo \subseteq run.late /\ run.late = Units(UNION run.late)
  BY DEF SeatsInv, Accounted, UnitsOfLate
<1>2. UNION run.late \subseteq Players
  BY DEF TypeOK, Runs
<1>3. \A u, v \in overflow \cup todo : u # v => u \cap v = {}
  BY <1>1, <1>2, UnitFacts
<1>4. SUFFICES ASSUME NEW p \in Players
      PROVE  Cardinality(on(p)) + Cardinality(in(p)) = IF p \in Here THEN 1 ELSE 0
  BY DEF NobodyLost
<1>5. Cardinality({}) = 0 /\ \A x : Cardinality({x}) = 1
  BY FS_EmptySet, FS_Singleton
<1>6. CASE p \in Seated
  <2>1. PICK i \in DOMAIN teams : p \in teams[i].players
    BY <1>6 DEF Seated
  <2>2. on(p) = {i}
    BY <1>1, <2>1 DEF SeatedOnce
  <2>3. in(p) = {}
    BY <1>1, <1>6 DEF Waiting
  <2>4. p \in Here
    BY <1>1, <1>6
  <2>. HIDE DEF on, in
  <2>5. Cardinality(on(p)) = 1 /\ Cardinality(in(p)) = 0
    BY <1>5, <2>2, <2>3
  <2>. QED  BY <2>4, <2>5
<1>7. CASE p \in Waiting
  <2>1. PICK u \in overflow \cup todo : p \in u
    BY <1>7 DEF Waiting
  <2>2. in(p) = {u}
    BY <1>3, <2>1
  <2>3. on(p) = {}
    BY <1>1, <1>7 DEF Seated
  <2>4. p \in Here
    BY <1>1, <1>7
  <2>. HIDE DEF on, in
  <2>. QED  BY <1>5, <2>2, <2>3, <2>4
<1>8. CASE p \notin Seated \cup Waiting
  <2>1. on(p) = {} /\ in(p) = {}
    BY <1>8 DEF Seated, Waiting
  <2>2. p \notin Here
    BY <1>1, <1>8
  <2>. HIDE DEF on, in
  <2>. QED  BY <1>5, <2>1, <2>2
<1>. QED  BY <1>6, <1>7, <1>8

\* generateTeams, from nothing or again around any teams: nobody is lost or
\* seated twice, a unit that found a team is there together with its adults
\* and its buddy, and every team has an id of its own.
THEOREM EveryGenerationSound == Spec => []GenerationSound
<1>1. GenerationInv => GenerationSound
  BY CountedOnce DEF GenerationInv, AskedInv, GenerationSound
<1>. QED  BY <1>1, GenerationInvariant, PTL

\* What is left over when a run ends would still not fit where its kind of
\* unit may go, for every roster limit, team limit and policy.
THEOREM OverflowNeverSpares == Spec => []OverflowIsReal
<1>1. GenerationInv => OverflowIsReal
  BY DEF GenerationInv, HopelessInv, OverflowIsReal, Hopeless, Open, Own, May
<1>. QED  BY <1>1, GenerationInvariant, PTL

\* applyCoachContinuity puts no adult of the division at the head of a second
\* team, for any map of replacements, but for one it took off a team before.
THEOREM NoAdultAnchoredTwice == Spec => []OneAnchor
<1>1. GenerationInv => OneAnchor
  BY DEF GenerationInv, AnchorInv
<1>. QED  BY <1>1, GenerationInvariant, PTL

-----------------------------------------------------------------------------
(* What a run leaves alone                                                  *)

\* The body of RunOnlyAdds for one team
OnlyAdds(i) ==
    LET old == teams[i]
        new == teams'[i]
    IN  /\ i \in DOMAIN teams' /\ new.id = old.id
        /\ old.players \subseteq new.players
        /\ old.assistants \subseteq new.assistants
        /\ old.locked => new = old
        /\ \/ new.players = old.players
           \/ Cardinality(new.players) <= run.config.max
           \/ run.policy.overCap

LEMMA SeatOnlyAdds ==
    ASSUME TypeOK, SeatsInv, stage = "place", NEW u \in todo, NEW ts, NEW i,
           SeatStep(u, ts, i), NEW j \in DOMAIN teams
    PROVE  OnlyAdds(j)
<1>1. u \in SUBSET Players
  BY TodoFacts
<1>2. Seating(u, ts, i)
  BY <1>1, SeatEffect
<1>3. /\ ts \in Seq(Member) /\ i \in DOMAIN ts /\ j \in DOMAIN ts /\ ts[j] = teams[j]
      /\ ~ts[i].locked
  BY SeatBoard
<1>4. /\ j \in DOMAIN teams' /\ teams'[j].id = ts[j].id
      /\ ts[j].assistants \subseteq teams'[j].assistants
      /\ ts[j].players \subseteq teams'[j].players
      /\ j # i => teams'[j] = ts[j]
      /\ Room(ts[i], u) => teams'[i].players = ts[i].players \cup u
      /\ ~Room(ts[i], u) => teams'[i].players = ts[i].players
  BY <1>2, <1>3 DEF Seating
<1>5. \/ teams'[j].players = ts[j].players \/ run.policy.overCap
      \/ Cardinality(teams'[j].players) <= run.config.max
  <2>1. SUFFICES ASSUME j = i, Room(ts[i], u), ~run.policy.overCap
        PROVE  Cardinality(teams'[i].players) <= run.config.max
    BY <1>4
  <2>2. Cardinality(ts[i].players) + Cardinality(u) <= run.config.max
    BY <2>1 DEF Room
  <2>3. IsFiniteSet(ts[i].players) /\ IsFiniteSet(u)
    <3>1. ts[i] \in Member
      BY <1>3
    <3>2. ts[i].players \subseteq Players
      BY <3>1 DEF Member
    <3>. QED  BY <1>1, <3>2, DivisionAssumption, FS_Subset
  <2>4. /\ Cardinality(ts[i].players \cup u)
             = Cardinality(ts[i].players) + Cardinality(u) - Cardinality(ts[i].players \cap u)
        /\ IsFiniteSet(ts[i].players \cap u) /\ IsFiniteSet(ts[i].players \cup u)
    BY <2>3, FS_Union, FS_Intersection
  <2>5. /\ Cardinality(ts[i].players) \in Nat /\ Cardinality(u) \in Nat
        /\ Cardinality(ts[i].players \cap u) \in Nat /\ run.config.max \in Nat
    BY <2>3, <2>4, FS_CardinalityType DEF TypeOK, Runs, Constraints
  <2>6. teams'[i].players = ts[i].players \cup u
    BY <1>4, <2>1
  <2>7. Cardinality(ts[i].players \cup u) <= run.config.max
    BY <2>2, <2>4, <2>5
  <2>. QED  BY <2>6, <2>7
<1>6. teams[j].locked => teams'[j] = teams[j]
  BY <1>3, <1>4
<1>. QED  BY <1>3, <1>4, <1>5, <1>6 DEF OnlyAdds

LEMMA SameTeams ==
    ASSUME teams' = teams, NEW j \in DOMAIN teams
    PROVE  OnlyAdds(j)
  BY DEF OnlyAdds

\* A locked team is one KeepHead handles.
LEMMA TurnOnlyAdds ==
    ASSUME TypeOK, AnchorInv, KeepHead \/ ReplaceHead \/ DropHead \/ AttachHead,
           NEW j \in DOMAIN teams
    PROVE  OnlyAdds(j)
<1>1. CASE KeepHead
  <2>1. teams' = [teams EXCEPT ![run.at].head = teams[run.at].head] /\ stage = "coaches"
    BY <1>1 DEF KeepHead, NextTeam
  <2>2. run.at \in DOMAIN teams /\ teams[run.at] \in Member /\ teams \in Seq(Member)
    BY <2>1, SeatFacts DEF TypeOK
  <2>3. teams' = teams
    BY <2>1, <2>2 DEF Member
  <2>. QED  BY <2>3, SameTeams
<1>2. CASE ReplaceHead \/ DropHead \/ AttachHead
  <2>1. /\ stage = "coaches" /\ ~teams[run.at].locked
        /\ \E head : teams' = [teams EXCEPT ![run.at].head = head]
    BY <1>2 DEF ReplaceHead, DropHead, AttachHead, NextTeam
  <2>2. PICK head : teams' = [teams EXCEPT ![run.at].head = head]
    BY <2>1
  <2>3. teams[j] \in Member /\ teams \in Seq(Member)
    BY SeatFacts DEF TypeOK
  <2>4. CASE j = run.at
    <3>1. teams'[j] = [teams[j] EXCEPT !.head = head] /\ j \in DOMAIN teams'
      BY <2>2, <2>4
    <3>2. /\ teams'[j].id = teams[j].id /\ teams'[j].players = teams[j].players
          /\ teams'[j].assistants = teams[j].assistants
      BY <2>3, <3>1 DEF Member
    <3>. QED  BY <2>1, <2>4, <3>1, <3>2 DEF OnlyAdds
  <2>5. CASE j # run.at
    <3>1. teams'[j] = teams[j] /\ j \in DOMAIN teams'
      BY <2>2, <2>5
    <3>. QED  BY <3>1 DEF OnlyAdds
  <2>. QED  BY <2>4, <2>5
<1>. QED  BY <1>1, <1>2

LEMMA StepOnlyAdds ==
    ASSUME GenerationInv, [Next]_vars, stage # "idle", NEW j \in DOMAIN teams
    PROVE  OnlyAdds(j)
<1>1. TypeOK /\ SeatsInv /\ AnchorInv
  BY DEF GenerationInv
<1>2. CASE KeepHead \/ ReplaceHead \/ DropHead \/ AttachHead
  BY <1>1, <1>2, TurnOnlyAdds
<1>3. CASE Place
  <2>1. stage = "place"
    BY <1>1, <1>3, PlaceStep
  <2>2. PICK u \in todo : LeaveStep(u) \/ DemoteStep(u) \/ \E ts, i : SeatStep(u, ts, i)
    BY <1>1, <1>3, PlaceStep
  <2>3. CASE LeaveStep(u) \/ DemoteStep(u)
    BY <2>3, SameTeams DEF LeaveStep, GiveUp, DemoteStep
  <2>. QED  BY <1>1, <2>1, <2>2, <2>3, SeatOnlyAdds
<1>4. CASE Finish \/ UNCHANGED vars
  BY <1>4, SameTeams DEF Finish, vars
<1>. QED  BY <1>2, <1>3, <1>4
     DEF Next, GenerateFresh, GenerateAgain, Register, MovePlayer, Appoint, LockTeam,
         RemoveTeam, Change

\* A run only adds: no team goes or changes its id, no player leaves his team,
\* a locked team stays exactly as it is, and a team grows beyond the roster
\* limit only where allowOverCapAssignments is set.
THEOREM RunsOnlyAdd == Spec => RunOnlyAdds
<1>1. GenerationInv /\ [Next]_vars
        => [stage # "idle" =>
              \A i \in DOMAIN teams :
                LET old == teams[i]
                    new == teams'[i]
                IN  /\ i \in DOMAIN teams' /\ new.id = old.id
                    /\ old.players \subseteq new.players
                    /\ old.assistants \subseteq new.assistants
                    /\ old.locked => new = old
                    /\ \/ new.players = old.players
                       \/ Cardinality(new.players) <= run.config.max
                       \/ run.policy.overCap]_vars
  BY StepOnlyAdds DEF OnlyAdds
<1>. QED  BY <1>1, GenerationInvariant, PTL DEF Spec, RunOnlyAdds
=============================================================================
