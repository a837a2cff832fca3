---------------------------- MODULE TeamGeneration ----------------------------
(***************************************************************************)
(* packages/core/src/teamGeneration.js for one division, with the units of *)
(* assignmentUnits.js, the reconciliation of teamDelta.js and the coaches  *)
(* of coachContinuity.js: teams are generated from the registrations, or   *)
(* generated again around the teams there are.  Between two runs people    *)
(* register and withdraw and the staff rearranges teams.  Which team suits *)
(* a player best, and the order of units of one kind (that of the file, or *)
(* by skill), are data: any team with room may score best.                 *)
(***************************************************************************)
EXTENDS Naturals, SequencesExt

CONSTANTS
    Players, Coaches, NoOne,
    Rosters,        \* registrations a season may start with
    Registrations,  \* what the registration of a player may become
    Configs,        \* normalizeDivisionRosterConstraints; 0: not given
    Policies,       \* changePolicy, defaults filled in
    MaxChanges      \* bound: changes between runs

\* A registration as the generator sees it; NoOne where a name is missing
Registration ==
    [here : BOOLEAN, coach : Coaches \cup {NoOne}, assistant : Coaches \cup {NoOne},
     buddy : Players \cup {NoOne}]

\* Whole numbers: the code truncates others after it has checked them.
Constraints ==
    [max : Nat \ {0}, target : Nat \ {0}, min : Nat, override : Nat, minTeams : Nat,
     maxTeams : Nat]

\* preserve-with-overflow is another name for preserve-existing.
ChangePolicies ==
    [count : {"auto", "preserve-existing", "preserve-or-expand"}, overCap : BOOLEAN,
     household : BOOLEAN, attach : BOOLEAN, shells : BOOLEAN,
     replacements : UNION {[C -> Coaches] : C \in SUBSET Coaches}]

ASSUME DivisionAssumption ==
    /\ IsFiniteSet(Players) /\ NoOne \notin Players \cup Coaches
    /\ Rosters \subseteq [Players -> Registration] /\ Registrations \subseteq Registration
    /\ Configs \subseteq Constraints /\ Policies \subseteq ChangePolicies

VARIABLES
    reg,        \* registration of each player
    teams,      \* teams of the division, in order
    overflow,   \* units the last run did not place
    stage,      \* "idle", "coaches" (continuity) or "place"
    todo,       \* units yet to be placed
    demoted,    \* assistants' units that are placed like any other
    run,        \* policy, constraints and bookkeeping of the run
    changes     \* changes made between runs

vars == <<reg, teams, overflow, stage, todo, demoted, run, changes>>

Team(id, head) ==
    [id |-> id, head |-> head, locked |-> FALSE, assistants |-> {}, players |-> {}]

Here   == {p \in Players : reg[p].here}
Seated == UNION {teams[i].players : i \in DOMAIN teams}
Heads(ts) == {ts[i].head : i \in DOMAIN ts} \ {NoOne}

\* An adult some player of the division names as head coach
Active == {reg[p].coach : p \in Here} \ {NoOne}

-----------------------------------------------------------------------------
(* assignmentUnits.js: players who name each other are placed together.     *)

Mutual(p, q) == p # q /\ reg[p].buddy = q /\ reg[q].buddy = p

Units(S) == {{p} \cup {q \in S : Mutual(p, q)} : p \in S}

HeadsOf(u)      == {reg[p].coach : p \in u} \ {NoOne}
AssistantsOf(u) == {reg[p].assistant : p \in u} \ {NoOne}
BringsAdult(u)  == HeadsOf(u) \cup AssistantsOf(u) # {}

\* classifyUnit throws and ends the run before anything is changed.
Conflicting(S) == \E u \in Units(S) : Cardinality(HeadsOf(u)) > 1

\* Players the team of a unit's buddy already has; {} for most units
Buddies(u) ==
    {q \in Here \ u : ~BringsAdult(u) /\ Cardinality(u) = 1 /\ \E p \in u : Mutual(p, q)}

-----------------------------------------------------------------------------
(* Starting a run, from nothing or around the teams there are               *)

Ceil(n, k) == (n + k - 1) \div k

TeamCount(n, coaches, c) ==
    LET calculated == IF c.override > 0 THEN c.override ELSE Ceil(n, c.target)
        needed  == Max({coaches, c.minTeams, 1, Ceil(n, c.max)})
        wanted  == Max({calculated, needed})
        counted == IF c.min > 0 /\ n >= c.min
                   THEN Max({needed, Min({wanted, n \div c.min})})
                   ELSE wanted
    IN  IF c.maxTeams > 0 THEN Min({counted, c.maxTeams}) ELSE counted

Started(fresh, policy, config) ==
    [fresh |-> fresh, policy |-> policy, config |-> config, before |-> [i \in DOMAIN teams |-> teams[i].head],
     late |-> todo', at |-> 1, anchored |-> Heads(teams), replaced |-> {}]

\* No teams to preserve, or a policy that preserves none; one team per coach
GenerateFresh(policy, config) ==
    /\ stage = "idle" /\ Here # {}
    /\ teams = <<>> \/ policy.count = "auto"
    /\ ~Conflicting(Here)
    /\ \E heads \in SetToSeqs(Active) :
          teams' = [i \in 1 .. TeamCount(Cardinality(Here), Cardinality(Active), config) |->
                       Team(i, IF i <= Len(heads) THEN heads[i] ELSE NoOne)]
    /\ todo' = Units(Here)
    /\ run' = Started(TRUE, policy, config)
    /\ stage' = "place"
    /\ overflow' = {} /\ demoted' = {}
    /\ UNCHANGED <<reg, changes>>

\* reconcileTeamDeltas: teams keep the players who are still registered.  A
\* division without teams may have the snapshot of the others.
Preserved == [i \in DOMAIN teams |-> [teams[i] EXCEPT !.players = @ \cap Here]]

GenerateAgain(policy, config) ==
    /\ stage = "idle" /\ policy.count # "auto"
    /\ teams = <<>> => policy.count = "preserve-existing"
    /\ ~Conflicting(Here \ Seated)
    /\ teams' = Preserved
    /\ todo' = Units(Here \ Seated)
    /\ run' = Started(FALSE, policy, config)
    /\ stage' = IF Here = {} \/ teams = <<>> THEN "place" ELSE "coaches"
    /\ overflow' = {} /\ demoted' = {}
    /\ UNCHANGED <<reg, changes>>

-----------------------------------------------------------------------------
(* applyCoachContinuity, team by team: who heads a team that is kept        *)

\* Mutant: a parent who heads another team may be put on this one as well.
CandidatesAnywhere(i, anchored) ==
    {reg[p].coach : p \in teams[i].players} \ {NoOne, teams[i].head}

\* Adults a team's children name who do not head a team already
Candidates(i, anchored) ==
    {reg[p].coach : p \in teams[i].players} \ ({NoOne} \cup anchored)

NextTeam(head, anchored, replaced) ==
    /\ teams' = [teams EXCEPT ![run.at].head = head]
    /\ run' = [run EXCEPT !.at = @ + 1, !.anchored = anchored, !.replaced = replaced]
    /\ stage' = IF run.at = Len(teams) THEN "place" ELSE "coaches"
    /\ UNCHANGED <<reg, overflow, todo, demoted, changes>>

Mapped(head) == head \in DOMAIN run.policy.replacements

\* A replacement who heads another team is left to the staff, unless he came
\* there as the replacement of the same coach.
Blocked(head) ==
    LET new == run.policy.replacements[head]
    IN  new \in run.anchored /\ new # head /\ head \notin run.replaced

KeepHead ==
    /\ stage = "coaches"
    /\ LET team == teams[run.at]
       IN  /\ \/ team.locked
              \/ Mapped(team.head) /\ Blocked(team.head)
              \/ ~Mapped(team.head) /\ team.head \in Active
           /\ NextTeam(team.head, run.anchored, run.replaced)

ReplaceHead ==
    /\ stage = "coaches"
    /\ LET team == teams[run.at]
       IN  /\ ~team.locked /\ Mapped(team.head) /\ ~Blocked(team.head)
           /\ LET new == run.policy.replacements[team.head]
              IN  NextTeam(new, (run.anchored \ {team.head}) \cup {new},
                           run.replaced \cup {team.head})

\* The coach of no player: the team loses him, and a parent may step up.
DropHead ==
    /\ stage = "coaches"
    /\ LET team == teams[run.at]
           rest == run.anchored \ {team.head}
           able == Candidates(run.at, rest)
       IN  /\ ~team.locked /\ ~Mapped(team.head)
           /\ team.head # NoOne /\ team.head \notin Active
           /\ IF Cardinality(able) = 1 /\ run.policy.household
              THEN \E c \in able : NextTeam(c, rest \cup {c}, run.replaced)
              ELSE NextTeam(NoOne, rest, run.replaced)

AttachHead ==
    /\ stage = "coaches"
    /\ LET able == Candidates(run.at, run.anchored)
       IN  /\ ~teams[run.at].locked /\ teams[run.at].head = NoOne
           /\ IF Cardinality(able) = 1 /\ run.policy.attach
              THEN \E c \in able : NextTeam(c, run.anchored \cup {c}, run.replaced)
              ELSE NextTeam(NoOne, run.anchored, run.replaced)

-----------------------------------------------------------------------------
(* buildTeamsForDivision and buildTeamsForDivisionIncremental: units with   *)
(* an adult first, then those whose buddy has a team, then all others.      *)

AdultUnits  == {u \in todo \ demoted : BringsAdult(u)}
BuddyUnits  == {u \in todo : Buddies(u) # {}}
OtherUnits  == {u \in todo : u \in demoted \/ (~BringsAdult(u) /\ Buddies(u) = {})}

\* Mutant: a unit fits wherever one player would.
RoomForOne(team, u) ==
    \/ run.policy.overCap /\ ~run.fresh
    \/ Cardinality(team.players) < run.config.max

Room(team, u) ==
    \/ run.policy.overCap /\ ~run.fresh
    \/ Cardinality(team.players) + Cardinality(u) <= run.config.max

CanCreate ==
    /\ run.fresh \/ run.policy.count = "preserve-or-expand"
    /\ run.config.maxTeams = 0 \/ Len(teams) < run.config.maxTeams

\* Mutant: the next number is not checked against the ids there are.
NewIdUnchecked == Len(teams) + 1

\* createTeam counts on from the number of teams until an id is free.
NewId ==
    Min((Len(teams) + 1 .. 2 * Len(teams) + 1) \ {teams[i].id : i \in DOMAIN teams})

Created(head) == Append(teams, Team(NewId, head))

\* A fresh run writes the assistants down before it knows there is room.
TrySeat(ts, i, u) ==
    LET fits == Room(ts[i], u)
    IN  /\ teams' = [ts EXCEPT
                       ![i].players = IF fits THEN @ \cup u ELSE @,
                       ![i].assistants = IF fits \/ run.fresh THEN @ \cup AssistantsOf(u) ELSE @]
        /\ overflow' = IF fits THEN overflow ELSE overflow \cup {u}

GiveUp(u) == overflow' = overflow \cup {u} /\ UNCHANGED teams

\* The first team his coach heads; locked teams take nobody.
PlaceWithHead ==
    \E u \in AdultUnits : \E c \in HeadsOf(u) :
        LET own == {i \in DOMAIN teams : teams[i].head = c}
        IN  /\ \/ /\ own # {} /\ ~teams[Min(own)].locked
                  /\ TrySeat(teams, Min(own), u)
               \/ /\ own = {} /\ CanCreate
                  /\ TrySeat(Created(c), Len(teams) + 1, u)
               \/ /\ IF own = {} THEN ~CanCreate ELSE teams[Min(own)].locked
                  /\ GiveUp(u)
            /\ todo' = todo \ {u}
            /\ UNCHANGED demoted

\* Mutant: teams no adult heads are not tried.
BackfillHeaded(u) ==
    LET open == {i \in DOMAIN teams : ~teams[i].locked /\ Room(teams[i], u)}
        his  == {i \in open : teams[i].assistants \cap AssistantsOf(u) # {}}
    IN  IF his # {} THEN his
        ELSE {i \in open : teams[i].head # NoOne /\ teams[i].assistants = {}}

\* findAssistantBackfillTeam: teams this assistant helps already, else headed
\* teams without one, else teams without an adult; the first of them
Backfill(u) ==
    LET open == {i \in DOMAIN teams : ~teams[i].locked /\ Room(teams[i], u)}
        his     == {i \in open : teams[i].assistants \cap AssistantsOf(u) # {}}
        headed  == {i \in open : teams[i].head # NoOne /\ teams[i].assistants = {}}
        without == {i \in open : teams[i].head = NoOne}
    IN  IF his # {} THEN his ELSE IF headed # {} THEN headed ELSE without

PlaceWithAssistant ==
    \E u \in {v \in AdultUnits : HeadsOf(v) = {}} :
        LET helped == Backfill(u)
            shell  == CanCreate /\ (run.fresh \/ run.policy.shells)
        IN  \/ /\ helped # {} /\ TrySeat(teams, Min(helped), u)
               /\ todo' = todo \ {u} /\ UNCHANGED demoted
            \/ /\ helped = {} /\ shell
               /\ TrySeat(Created(NoOne), Len(teams) + 1, u)
               /\ todo' = todo \ {u} /\ UNCHANGED demoted
            \/ /\ helped = {} /\ ~shell /\ run.fresh
               /\ GiveUp(u)
               /\ todo' = todo \ {u} /\ UNCHANGED demoted
            \/ /\ helped = {} /\ ~shell /\ ~run.fresh
               /\ demoted' = demoted \cup {u}
               /\ UNCHANGED <<teams, overflow, todo>>

PlaceWithBuddy ==
    /\ AdultUnits = {}
    /\ \E u \in BuddyUnits : \E i \in {j \in DOMAIN teams : Buddies(u) \subseteq teams[j].players} :
          /\ IF teams[i].locked THEN GiveUp(u) ELSE TrySeat(teams, i, u)
          /\ todo' = todo \ {u}
    /\ UNCHANGED demoted

\* pickTeamWithMostCapacity; a run around existing teams may add one.
PlaceAnywhere ==
    /\ AdultUnits = {} /\ BuddyUnits = {}
    /\ \E u \in OtherUnits :
          LET open == {i \in DOMAIN teams : ~teams[i].locked /\ Room(teams[i], u)}
              add  == ~run.fresh /\ CanCreate /\ Room(Team(0, NoOne), u)
          IN  /\ \/ \E i \in open : TrySeat(teams, i, u)
                 \/ open = {} /\ add /\ TrySeat(Created(NoOne), Len(teams) + 1, u)
                 \/ open = {} /\ ~add /\ GiveUp(u)
              /\ todo' = todo \ {u}
    /\ UNCHANGED demoted

Place ==
    /\ stage = "place"
    /\ PlaceWithHead \/ PlaceWithAssistant \/ PlaceWithBuddy \/ PlaceAnywhere
    /\ UNCHANGED <<reg, stage, run, changes>>

Finish ==
    /\ stage = "place" /\ todo = {}
    /\ stage' = "idle"
    /\ UNCHANGED <<reg, teams, overflow, todo, demoted, run, changes>>

-----------------------------------------------------------------------------
(* Between two runs                                                         *)

Change ==
    /\ stage = "idle" /\ changes < MaxChanges
    /\ changes' = changes + 1
    /\ UNCHANGED <<overflow, stage, todo, demoted, run>>

\* The next import: a player comes, goes, or names other people.
Register(p, r) ==
    /\ Change
    /\ reg[p] # r /\ reg' = [reg EXCEPT ![p] = r]
    /\ UNCHANGED teams

\* The roster board lets a card be dropped on any team.
MovePlayer(p, i) ==
    /\ Change
    /\ p \in Seated
    /\ teams' = [j \in DOMAIN teams |->
                    [teams[j] EXCEPT !.players = IF j = i THEN @ \cup {p} ELSE @ \ {p}]]
    /\ teams' # teams
    /\ UNCHANGED reg

Appoint(i, head) ==
    /\ Change
    /\ teams[i].head # head
    /\ teams' = [teams EXCEPT ![i].head = head]
    /\ UNCHANGED reg

LockTeam(i) ==
    /\ Change
    /\ teams' = [teams EXCEPT ![i].locked = ~@]
    /\ UNCHANGED reg

RemoveTeam(i) ==
    /\ Change
    /\ teams' = RemoveAt(teams, i)
    /\ UNCHANGED reg

Init ==
    /\ reg \in Rosters
    /\ teams = <<>>
    /\ overflow = {} /\ todo = {} /\ demoted = {}
    /\ stage = "idle"
    /\ run = [fresh |-> TRUE]
    /\ changes = 0

Next ==
    \/ \E policy \in Policies, config \in Configs :
          GenerateFresh(policy, config) \/ GenerateAgain(policy, config)
    \/ KeepHead \/ ReplaceHead \/ DropHead \/ AttachHead
    \/ Place \/ Finish
    \/ \E p \in Players, r \in Registrations : Register(p, r)
    \/ \E i \in DOMAIN teams :
          \/ \E p \in Players : MovePlayer(p, i)
          \/ \E head \in Coaches \cup {NoOne} : Appoint(i, head)
          \/ LockTeam(i)
          \/ RemoveTeam(i)

Spec == Init /\ [][Next]_vars

-----------------------------------------------------------------------------
(* What a generation promises                                               *)

\* Everyone registered in the division is on exactly one team, or in exactly
\* one unit that overflowed or is yet to be placed; nobody else is.
NobodyLost ==
    \A p \in Players :
        Cardinality({i \in DOMAIN teams : p \in teams[i].players})
        + Cardinality({u \in overflow \cup todo : p \in u}) = IF p \in Here THEN 1 ELSE 0

\* A unit that found a team is there together, with the adults it brings in
\* their places and beside the buddy it was placed for.
PlacedAsAsked ==
    \A u \in run.late \ (todo \cup overflow) :
        \E i \in DOMAIN teams :
            /\ u \cup Buddies(u) \subseteq teams[i].players
            /\ HeadsOf(u) \subseteq {teams[i].head}
            /\ AssistantsOf(u) \subseteq teams[i].assistants

\* Deletions between runs never make two teams share an id.
IdsUnique == \A i, j \in DOMAIN teams : teams[i].id = teams[j].id => i = j

\* generateTeams, during a run and when it ends: nobody lost or seated twice,
\* every unit placed as it asked, every team with an id of its own.
GenerationSound ==
    /\ stage # "idle" => NobodyLost /\ PlacedAsAsked
    /\ IdsUnique

\* Overflow is the last resort (REASON_*): when a run ends, a unit it left out
\* would still not fit where its kind of unit may go, whatever was placed
\* after it was given up.
OverflowIsReal ==
    stage = "place" /\ todo = {} =>
        \A u \in overflow :
            LET open == {i \in DOMAIN teams : ~teams[i].locked /\ Room(teams[i], u)}
                own  == {i \in DOMAIN teams : teams[i].head \in HeadsOf(u)}
                may  == CanCreate /\ Room(Team(0, NoOne), u)
            IN  IF HeadsOf(u) # {}
                THEN IF own = {} THEN ~CanCreate ELSE Min(own) \notin open
                ELSE IF Buddies(u) # {}
                THEN \A i \in open : teams[i].players \cap Buddies(u) = {}
                ELSE IF AssistantsOf(u) # {} /\ run.fresh
                THEN ~may /\ \A i \in open : teams[i].head # NoOne /\ teams[i].assistants # {}
                ELSE open = {} /\ (~run.fresh => ~may)

\* "so one adult is never silently attached to two teams" (coachContinuity.js,
\* anchoredCoachIds): two teams have one head only if they had one before, or
\* if he is an adult the run has taken off a team; of those the code loses
\* track when they keep another team.
OneAnchor ==
    stage # "idle" =>
        \A i, j \in DOMAIN teams :
            i # j /\ teams[i].head = teams[j].head /\ teams[i].head # NoOne =>
                \/ /\ {i, j} \subseteq DOMAIN run.before
                   /\ run.before[i] = run.before[j]
                \/ teams[i].head \in run.replaced
                \/ teams[i].head \notin Active

\* What a run leaves alone: no team goes or changes its id, no player leaves
\* the team he has, a locked team keeps its coaches and takes nobody, and only
\* allowOverCapAssignments lets a team grow beyond the roster limit.
RunOnlyAdds ==
    [][stage # "idle" =>
        \A i \in DOMAIN teams :
            LET old == teams[i]
                new == teams'[i]
            IN  /\ i \in DOMAIN teams' /\ new.id = old.id
                /\ old.players \subseteq new.players
                /\ old.assistants \subseteq new.assistants
                /\ old.locked => new = old
                /\ \/ new.players = old.players
                   \/ Cardinality(new.players) <= run.config.max
                   \/ run.policy.overCap]_vars
=============================================================================
