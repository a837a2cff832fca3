------------------------------ MODULE Resolve ------------------------------
(***************************************************************************)
(* One re-solve of a published season (packages/core/src/resolve): the     *)
(* stages of the pipeline run one after the other over the games, every    *)
(* built-in write goes through applyMove, which asks the freeze, and the   *)
(* result is a dry run that a second call may commit.                      *)
(*                                                                         *)
(* Within a stage the code takes the games in the order of date, kickoff   *)
(* and id; here they are taken in any order, and of the legal slots a game *)
(* can be given any may win, because the objective's weights are the       *)
(* caller's.  Slots are abstracted to what legality looks at.              *)
(***************************************************************************)
EXTENDS FreezePlan

CONSTANTS
  Games,      \* the ids of the season's games
  NoGame,     \* stands for no game
  Slots,      \* [date, surface, start]: where a game can be put
  VenueOf,    \* surface -> venue
  CellsOf,    \* surface -> the cells of ground it covers
  LineageOf,  \* surface -> itself and the surfaces it is part of
  FormatOf,   \* game -> format
  FieldsOf,   \* game -> its fields a freeze can match, its slot's apart
  Duration,   \* how long a game occupies its surface
  Shut,       \* slots the calendar refuses
  Baselines,  \* schedules the run may start from: functions [Games -> Slots]
  Requests,   \* change requests: functions from some games to slots
  Plans,      \* freeze plans a caller may pass
  Budgets,    \* change budgets; 0..Cardinality(Games)
  MaxExtra,   \* bound: writes of the stage a caller may add
  Rewrites,   \* bound: what it rewrites of a game at once: sets of StateParts
  Forged      \* bound: the slots it writes then

\* Every published game stands on a slot, every request names one
\* (ResolveState in resolve/types.js, changeRequestApply), and plans have
\* passed their schema.
StateParts == {"placement", "disposition", "pin", "baseline", "list"}

ASSUME ResolveAssumption ==
    /\ IsFiniteSet(Games) /\ NoGame \notin Games
    /\ Baselines \subseteq [Games -> Slots]
    /\ \A r \in Requests : IsFiniteSet(DOMAIN r) /\ \A g \in DOMAIN r : r[g] \in Slots
    /\ \A p \in DOMAIN Plans : IsFreezePlan(Plans[p])
    /\ Rewrites \subseteq SUBSET StateParts /\ Forged \subseteq Slots

VARIABLES
  input,      \* what the caller passed: see Inputs
  frozen,     \* games whose disposition is frozen
  pinnedAt,   \* game -> slot it was pinned at during the run
  baseline,   \* state.baseline: the published schedule, as the state has it
  ids,        \* state.gameIds: the games the audit and the report go through
  games,      \* game -> slot, for the games that are placed
  pending,    \* games lifted out and not yet placed again
  unplaced,   \* games carried as TIME TBD
  moves,      \* the ledger: [stage, game, cause] of every applied move
  stage,      \* the stage that runs
  todo,       \* games its loop has still to visit
  focus,      \* the game whose clash is being worked on, or NoGame
  left,       \* the other games of that clash still to be tried
  snapshots,  \* [at, len, declares] after every stage
  cache,      \* ledger length -> the placements the rule engine ran over
  unsat,      \* games reported as frozen and unsatisfiable
  blocking,   \* codes of blocking findings
  extra,      \* writes the caller's stage has made
  outcome     \* "running", "threw", "dry" or "committed"

params == <<input, frozen, pinnedAt, baseline, ids>>
board  == <<games, pending, unplaced, moves>>
cursor == <<stage, todo, focus, left>>
report == <<snapshots, cache, unsat, blocking, extra, outcome>>
vars   == <<params, board, cursor, report>>

\* What every stage that reads state.baseline before a caller's stage has run
\* finds there.
Base == input.baseline
Request == input.request

(***************************************************************************)
(* Ground and legality: facility/occupancy.js and resolve/legality.js.     *)
(***************************************************************************)
SurfacesConflict(a, b) ==
    /\ VenueOf[a] = VenueOf[b]
    /\ a = b \/ CellsOf[a] \cap CellsOf[b] # {}

Concurrent(s, t) ==
    /\ s.date = t.date
    /\ s.start < t.start + Duration
    /\ t.start < s.start + Duration

\* The other games of a placement that clash with game g on slot s, by the
\* code the finding carries.
OnSameSurface(g, s, at) ==
    {h \in DOMAIN at \ {g} : at[h].surface = s.surface /\ Concurrent(at[h], s)}
OnSharedGround(g, s, at) ==
    {h \in DOMAIN at \ {g} : /\ at[h].surface # s.surface
                             /\ SurfacesConflict(at[h].surface, s.surface)
                             /\ Concurrent(at[h], s)}
Counterparts(g, s, at) == OnSameSurface(g, s, at) \cup OnSharedGround(g, s, at)

\* newBlockingCodes: some blocking code occurs more often for g on s than it
\* did for g where the baseline had it.
Grown(g, s, at) ==
    \/ Cardinality(OnSameSurface(g, s, at)) > Cardinality(OnSameSurface(g, Base[g], Base))
    \/ Cardinality(OnSharedGround(g, s, at)) > Cardinality(OnSharedGround(g, Base[g], Base))
    \/ s \in Shut /\ Base[g] \notin Shut

(***************************************************************************)
(* The slots the schedule already used: resolve/inventory.js.              *)
(***************************************************************************)
Dates == {Base[g].date : g \in Games}
Kickoffs(d, v) ==
    {Base[g].start : g \in {h \in Games : Base[h].date = d /\ VenueOf[Base[h].surface] = v}}
SurfacesUsed(d, v, f) ==
    {Base[g].surface : g \in {h \in Games : /\ Base[h].date = d
                                            /\ VenueOf[Base[h].surface] = v
                                            /\ FormatOf[h] = f}}
SurfacesFor(d, v, f) ==
    IF SurfacesUsed(d, v, f) # {} THEN SurfacesUsed(d, v, f)
    ELSE UNION {SurfacesUsed(d, v, e) : e \in {FormatOf[g] : g \in Games}}

Admitted(g) == IF g \in DOMAIN Request THEN {Request[g]} ELSE {}

KnownSurfaces == {Base[g].surface : g \in Games}
                   \cup {Request[g].surface : g \in DOMAIN Request}

Admissible(g, s) ==
    \/ s \in Admitted(g)
    \/ /\ s.date \in Dates
       /\ s.surface \in KnownSurfaces
       /\ s.start \in Kickoffs(s.date, VenueOf[s.surface])

\* A game named by the request is anchored where it was asked to be.
Anchor(g) == IF g \in DOMAIN Request THEN Request[g] ELSE Base[g]

Candidates(g) ==
    LET d == Anchor(g).date
        v == VenueOf[Anchor(g).surface]
    IN {s \in Slots :
          /\ s.date = d
          /\ \/ s \in Admitted(g)
             \/ s.start \in Kickoffs(d, v) /\ s.surface \in SurfacesFor(d, v, FormatOf[g])}

\* Mutant: a candidate is judged against the published schedule.
LegalSlotsPublished(g, avoid) == {s \in Candidates(g) \ avoid : ~Grown(g, s, Base)}

\* chooseSlot: what it may return, the slot to avoid left out.
LegalSlots(g, avoid) == {s \in Candidates(g) \ avoid : ~Grown(g, s, games)}

Touched ==
    IF input.whole THEN Dates
    ELSE UNION {{Base[g].date, Request[g].date} : g \in DOMAIN Request \cap Games}

PlacedOnTouched(at) == {g \in DOMAIN at : at[g].date \in Touched}

(***************************************************************************)
(* The freeze, and the one writer: resolve/state.js.                       *)
(***************************************************************************)
Context(in, g) ==
    LET s == in.baseline[g]
    IN [f \in DOMAIN FieldsOf[g] \cup {"game", "date", "surface", "venue"} |->
          CASE f = "game"    -> {g}
            [] f = "date"    -> {s.date}
            [] f = "surface" -> LineageOf[s.surface]
            [] f = "venue"   -> {VenueOf[s.surface]}
            [] OTHER         -> FieldsOf[g][f]]

MayMove(g) == g \notin frozen

\* The effect of applyMove on the board; its callers have asked the freeze.
Logged(g, cause) == moves' = Append(moves, [stage |-> stage, game |-> g, cause |-> cause])

Relocate(g, s, cause) ==
    /\ games' = [h \in DOMAIN games \cup {g} |-> IF h = g THEN s ELSE games[h]]
    /\ pending' = pending \ {g}
    /\ unplaced' = unplaced \ {g}
    /\ Logged(g, cause)

LiftOut(g) ==
    /\ games' = [h \in DOMAIN games \ {g} |-> games[h]]
    /\ pending' = pending \cup {g}
    /\ unplaced' = unplaced \ {g}
    /\ Logged(g, TRUE)

\* Mutant: the game is dropped.
TimeTbdDropping(g) ==
    /\ games' = [h \in DOMAIN games \ {g} |-> games[h]]
    /\ pending' = pending \ {g}
    /\ UNCHANGED unplaced
    /\ Logged(g, FALSE)

TimeTbd(g) ==
    /\ games' = [h \in DOMAIN games \ {g} |-> games[h]]
    /\ pending' = pending \ {g}
    /\ unplaced' = unplaced \cup {g}
    /\ Logged(g, FALSE)

\* Mutant: the rule engine runs once.
MeasuredOnce(at) == cache

\* The rule engine runs once per ledger length.
Measured(at) ==
    IF Len(moves) \in DOMAIN cache THEN cache
    ELSE [n \in DOMAIN cache \cup {Len(moves)} |-> IF n \in DOMAIN cache THEN cache[n] ELSE at]

\* Position of the last move of a game in the ledger, 0 when it has none.
LastWrite(g) ==
    Largest({0} \cup {i \in 1..Len(moves) : moves[i].game = g})

\* The party to a clash that was written last; g when none was.
Culprits(parties, g) ==
    IF \A p \in parties : LastWrite(p) = 0 THEN {g}
    ELSE {p \in parties : \A q \in parties : LastWrite(q) <= LastWrite(p)}

(***************************************************************************)
(* The driver: resolve/resolve.js.                                         *)
(***************************************************************************)
Pipeline == <<"change", "dislodge", "assign", "search", "repair", "extra",
              "verify", "audit", "done">>
After(s) == Pipeline[1 + CHOOSE i \in 1..8 : Pipeline[i] = s]

\* The games the loop of a stage visits, fixed when the stage begins.
Work(s, at, waiting) ==
    CASE s = "change"   -> DOMAIN Request
      [] s = "dislodge" -> IF input.whole THEN DOMAIN at ELSE PlacedOnTouched(at)
      [] s = "assign"   -> waiting
      [] s \in {"search", "repair"} -> PlacedOnTouched(at)
      [] OTHER -> {}

\* A change request runs under a plan that holds by default, its own or the
\* caller's; reoptimiseWholeSeason thaws by default and holds scopes.
PlanOf(in) ==
    IF in.plan = "derived" THEN FreezeForChanges(DOMAIN in.request) ELSE Plans[in.plan]

Inputs ==
    {in \in [baseline : Baselines, request : Requests, plan : DOMAIN Plans \cup {"derived"},
             whole : BOOLEAN, hold : BOOLEAN, throws : BOOLEAN, declares : BOOLEAN,
             budget : Budgets] :
        IF in.whole THEN in.plan # "derived" /\ PlanOf(in).default = "thawed"
        ELSE DOMAIN in.request # {} /\ PlanOf(in).default = "frozen"}

FrozenBy(in) == {g \in Games : JudgeFreeze(PlanOf(in), Context(in, g)) = "frozen"}

PlanFindings(in) ==
    (IF PlanOf(in).default = "thawed" THEN {"global"} ELSE {})
    \cup (IF \E g \in Games : Ambiguous(PlanOf(in), Context(in, g)) THEN {"ambiguous"} ELSE {})

Init ==
    /\ input \in Inputs
    /\ frozen = FrozenBy(input)
    /\ pinnedAt = [g \in {} |-> NoGame]
    /\ baseline = input.baseline /\ ids = Games
    /\ games = input.baseline
    /\ pending = {} /\ unplaced = {} /\ moves = <<>>
    /\ stage = "change" /\ todo = DOMAIN input.request
    /\ focus = NoGame /\ left = {}
    /\ snapshots = <<>>
    /\ cache = [n \in {0} |-> input.baseline]
    /\ unsat = {} /\ blocking = PlanFindings(input)
    /\ extra = 0 /\ outcome = "running"

InStage(s) == outcome = "running" /\ stage = s
Visiting(g) == focus = NoGame /\ g \in todo
Visited(g) == todo' = todo \ {g} /\ UNCHANGED <<stage, focus, left>>

\* Pinning at the end of the change stage: a second pin changes nothing.
Pin(held) ==
    /\ frozen' = frozen \cup held
    /\ pinnedAt' = [g \in DOMAIN pinnedAt \cup held |->
                      IF g \in DOMAIN pinnedAt THEN pinnedAt[g] ELSE games[g]]

EndStage ==
    /\ outcome = "running" /\ stage \in {"change", "dislodge", "assign", "search",
                                          "repair", "extra"}
    /\ todo = {} /\ focus = NoGame
    /\ snapshots' = Append(snapshots, [at |-> games, len |-> Len(moves),
                                       declares |-> stage # "extra" \/ input.declares])
    /\ IF stage = "change" /\ input.hold
       THEN Pin({moves[i].game : i \in 1..Len(moves)})
       ELSE UNCHANGED <<frozen, pinnedAt>>
    /\ stage' = After(stage)
    /\ todo' = Work(stage', games, pending)
    /\ UNCHANGED <<input, baseline, ids, board, focus, left, cache, unsat, blocking,
                   extra, outcome>>

(***************************************************************************)
(* The stages: resolve/stages.js.                                          *)
(***************************************************************************)
ApplyChange(g) ==
    /\ InStage("change") /\ Visiting(g) /\ Visited(g)
    /\ IF g \notin Games
       THEN blocking' = blocking \cup {"unknown-game"} /\ UNCHANGED board
       ELSE IF Request[g] = games[g]
       THEN UNCHANGED <<blocking, board>>
       ELSE IF ~MayMove(g)
       THEN blocking' = blocking \cup {"refused"} /\ UNCHANGED board
       ELSE Relocate(g, Request[g], TRUE) /\ UNCHANGED blocking
    /\ UNCHANGED <<params, snapshots, cache, unsat, extra, outcome>>

DislodgeEverything(g) ==
    /\ InStage("dislodge") /\ input.whole /\ Visiting(g) /\ Visited(g)
    /\ IF MayMove(g) THEN LiftOut(g) ELSE UNCHANGED board
    /\ UNCHANGED <<params, report>>

\* A clash in which nothing may move: thrown or reported.
Unsatisfiable(culprit) ==
    /\ cache' = Measured(games)
    /\ IF input.throws
       THEN outcome' = "threw" /\ UNCHANGED <<unsat, blocking>>
       ELSE /\ unsat' = unsat \cup {culprit}
            /\ blocking' = blocking \cup {"unsatisfiable"}
            /\ UNCHANGED outcome

\* Every party to the clash of g is asked; the ones that may move are then
\* lifted one by one (LiftParty).
Dislodge(g) ==
    /\ InStage("dislodge") /\ ~input.whole /\ Visiting(g)
    /\ todo' = todo \ {g}
    /\ UNCHANGED <<params, board, stage, snapshots, extra>>
    /\ IF g \notin DOMAIN games \/ ~Grown(g, games[g], games)
       THEN UNCHANGED <<focus, left, cache, unsat, blocking, outcome>>
       ELSE LET parties == {g} \cup Counterparts(g, games[g], games)
                movable == {p \in parties : MayMove(p)}
            IN IF movable # {}
               THEN /\ focus' = g /\ left' = movable
                    /\ UNCHANGED <<cache, unsat, blocking, outcome>>
               ELSE /\ UNCHANGED <<focus, left>>
                    /\ \E c \in Culprits(parties, g) : Unsatisfiable(c)

\* The most recently written party first, until the clash is gone; parties
\* no move has touched come in the order of their ids, any order here.
LiftParty(p) ==
    /\ InStage("dislodge") /\ focus # NoGame /\ p \in left
    /\ \A q \in left : LastWrite(q) <= LastWrite(p)
    /\ LiftOut(p)
    /\ IF p = focus \/ left = {p} \/ ~Grown(focus, games[focus], games')
       THEN focus' = NoGame /\ left' = {}
       ELSE left' = left \ {p} /\ UNCHANGED focus
    /\ UNCHANGED <<params, stage, todo, report>>

\* A pending game that may not move is unsatisfiable; one without a legal
\* slot stays visible as TIME TBD.
Assign(g) ==
    /\ InStage("assign") /\ Visiting(g) /\ Visited(g)
    /\ IF ~MayMove(g)
       THEN Unsatisfiable(g) /\ UNCHANGED <<board, snapshots, extra>>
       ELSE /\ IF LegalSlots(g, {}) = {}
               THEN TimeTbd(g)
               ELSE \E s \in LegalSlots(g, {}) : Relocate(g, s, FALSE)
            /\ UNCHANGED report
    /\ UNCHANGED params

\* Mutant: the freeze is not asked after the first assignment.
ImproveUnasked(g, avoid) ==
    IF LegalSlots(g, avoid) # {}
    THEN \E s \in LegalSlots(g, avoid) : Relocate(g, s, TRUE)
    ELSE UNCHANGED board

\* Moving a game to a better slot than the one it stands on, when the freeze
\* and the inventory allow.
Improve(g, avoid) ==
    IF MayMove(g) /\ LegalSlots(g, avoid) # {}
    THEN \E s \in LegalSlots(g, avoid) : Relocate(g, s, TRUE)
    ELSE UNCHANGED board

Search(g) ==
    /\ InStage("search") /\ Visiting(g) /\ Visited(g)
    /\ IF g \in DOMAIN games /\ Grown(g, games[g], games)
       THEN Improve(g, {games[g]})
       ELSE UNCHANGED board
    /\ UNCHANGED <<params, report>>

Repair(g) ==
    /\ InStage("repair") /\ Visiting(g)
    /\ todo' = todo \ {g}
    /\ LET against == IF g \in DOMAIN games /\ Grown(g, games[g], games)
                      THEN Counterparts(g, games[g], games) ELSE {}
       IN /\ left' = against
          /\ focus' = IF against = {} THEN NoGame ELSE g
    /\ UNCHANGED <<params, board, stage, report>>

RepairParty(p) ==
    /\ InStage("repair") /\ focus # NoGame /\ p \in left
    /\ IF p \in DOMAIN games THEN Improve(p, {games[p]}) ELSE UNCHANGED board
    /\ left' = left \ {p}
    /\ focus' = IF left = {p} THEN NoGame ELSE focus
    /\ UNCHANGED <<params, stage, todo, report>>

(***************************************************************************)
(* A stage the caller adds.  It may go through applyMove, and it may return *)
(* a state it has built itself, with another placement, disposition, pin    *)
(* or baseline of a game, or without the game in the list of games.  The    *)
(* ledger, which all stages share, it leaves to applyMove.                  *)
(***************************************************************************)
ExtraThrough(g, s) ==
    /\ InStage("extra") /\ extra < MaxExtra
    /\ extra' = extra + 1
    /\ IF MayMove(g) /\ Admissible(g, s)
       THEN Relocate(g, s, FALSE) /\ UNCHANGED outcome
       ELSE outcome' = "threw" /\ UNCHANGED board
    /\ UNCHANGED <<params, cursor, snapshots, cache, unsat, blocking>>

Put(at, g, s) == [h \in DOMAIN at \cup {g} |-> IF h = g THEN s ELSE at[h]]
Without(at, g) == [h \in DOMAIN at \ {g} |-> at[h]]

\* The dispositions with that of one game changed
Rejudged(g) == IF g \in frozen THEN frozen \ {g} ELSE frozen \cup {g}

ExtraAround(g, parts) ==
    /\ InStage("extra") /\ extra < MaxExtra
    /\ extra' = extra + 1
    /\ games' \in IF "placement" \in parts
                 THEN {Put(games, g, s) : s \in Forged} \cup {Without(games, g)} ELSE {games}
    /\ frozen' = IF "disposition" \in parts THEN Rejudged(g) ELSE frozen
    /\ pinnedAt' \in IF "pin" \in parts THEN {Put(pinnedAt, g, s) : s \in Forged} ELSE {pinnedAt}
    /\ baseline' \in IF "baseline" \in parts THEN {Put(baseline, g, s) : s \in Forged}
                    ELSE {baseline}
    /\ ids' = IF "list" \in parts THEN ids \ {g} ELSE ids
    /\ UNCHANGED <<input, pending, unplaced, moves, cursor, snapshots, cache,
                   unsat, blocking, outcome>>

(***************************************************************************)
(* Verify, audit and report.                                               *)
(***************************************************************************)
Verify ==
    /\ InStage("verify")
    /\ cache' = Measured(games)
    /\ stage' = "audit"
    /\ UNCHANGED <<params, board, todo, focus, left, snapshots, unsat, blocking,
                   extra, outcome>>

HeldAt(g) == IF g \in DOMAIN pinnedAt THEN pinnedAt[g] ELSE baseline[g]
OffItsHold(g) == g \in ids \cap frozen /\ (g \in DOMAIN games => games[g] # HeldAt(g))

Place(at, g) == IF g \in DOMAIN at THEN {at[g]} ELSE {}
Wrote(i) ==
    LET was == IF i = 1 THEN Base ELSE snapshots[i - 1].at
    IN {g \in ids : Place(was, g) # Place(snapshots[i].at, g)}

\* diffAgainstBaseline
Moved == {g \in ids : g \notin DOMAIN games \/ games[g] # baseline[g]}
Explained(g) ==
    \/ g \in DOMAIN Request
    \/ \E i \in 1..Len(moves) : moves[i].game = g /\ moves[i].cause

AuditHeld ==
    IF \E g \in Games : OffItsHold(g) THEN {"frozen-moved"} ELSE {}

\* Mutant: the ledger is read from its start for every stage.
WholeLedger(i) == {moves[k].game : k \in 1..snapshots[i].len}
Window(i) ==
    {moves[k].game : k \in (IF i = 1 THEN 1 ELSE snapshots[i - 1].len + 1)..snapshots[i].len}

AuditDeltas ==
    (IF \E i \in DOMAIN snapshots : Wrote(i) \ Window(i) # {} THEN {"bypassed"} ELSE {})
    \cup (IF \E i \in DOMAIN snapshots : Wrote(i) # {} /\ ~snapshots[i].declares
          THEN {"undeclared"} ELSE {})
ReportFindings ==
    (IF \A g \in Moved : Explained(g) THEN {} ELSE {"unexplained"})
    \cup (IF Cardinality(Moved) > input.budget THEN {"over-budget"} ELSE {})

Audit ==
    /\ InStage("audit")
    /\ blocking' = blocking \cup ReportFindings
                   \cup (IF ids = {} THEN {"vacuous"} ELSE AuditHeld \cup AuditDeltas)
    /\ stage' = "done" /\ outcome' = "dry"
    /\ UNCHANGED <<params, board, todo, focus, left, snapshots, cache, unsat, extra>>

(***************************************************************************)
(* resolve/commit.js: acknowledged, within budget, every blocking finding  *)
(* accepted by its code.                                                   *)
(***************************************************************************)
Commit(accepted) ==
    /\ outcome = "dry"
    /\ Cardinality(Moved) <= input.budget
    /\ blocking \subseteq accepted
    /\ outcome' = "committed"
    /\ UNCHANGED <<params, board, cursor, snapshots, cache, unsat, blocking, extra>>

OfOneGame(g) ==
    \/ DislodgeEverything(g) \/ Dislodge(g) \/ LiftParty(g)
    \/ Assign(g) \/ Search(g) \/ Repair(g) \/ RepairParty(g)

Next ==
    \/ EndStage
    \/ \E g \in DOMAIN Request : ApplyChange(g)
    \/ \E g \in Games : OfOneGame(g)
    \/ \E g \in Games, s \in Slots : ExtraThrough(g, s)
    \/ \E g \in Games, parts \in Rewrites : ExtraAround(g, parts)
    \/ Verify
    \/ Audit
    \/ \E accepted \in SUBSET blocking : Commit(accepted)

Spec == Init /\ [][Next]_vars

(***************************************************************************)
(* Properties                                                              *)
(***************************************************************************)
Untouched == extra = 0     \* no write of a caller's stage
Ended == outcome \in {"dry", "committed"}

\* What the variables hold (ResolveState and ResolveRun in resolve/types.js).
ResolveTypeOK ==
    /\ frozen \subseteq Games /\ DOMAIN pinnedAt \subseteq Games
    /\ baseline \in [Games -> Slots] /\ ids \subseteq Games
    /\ DOMAIN games \subseteq Games
    /\ \A g \in DOMAIN games : games[g] \in Slots
    /\ pending \subseteq Games /\ unplaced \subseteq Games
    /\ todo \subseteq Games \cup DOMAIN Request
    /\ focus \in Games \cup {NoGame} /\ left \subseteq Games
    /\ outcome \in {"running", "threw", "dry", "committed"}

\* Where a game has to stay once the change stage is over: its published slot
\* if the plan holds it, the slot it was pinned at if the request moved it and
\* holds its changes.
HeldSince ==
    FrozenBy(input)
    \cup (IF input.hold THEN {moves[i].game : i \in 1..snapshots[1].len} ELSE {})
HeldSlot(g) == IF g \in FrozenBy(input) THEN {Base[g]} ELSE Place(snapshots[1].at, g)

MovedByExtra(g) == \E i \in 1..Len(moves) : moves[i].game = g /\ moves[i].stage = "extra"

\* A game that was held and is not where it was held when the run ends has
\* been reported, also when the caller's stage rewrote its disposition, its
\* pin or its baseline along with its slot: the second half of freezeAudit
\* compares what stages wrote with the ledger and does not read those.  Only a
\* stage that thaws the game and then goes through applyMove, or takes it off
\* the list of games, gets by.
HeldOrReported ==
    Ended => \A g \in HeldSince \cap ids :
        \/ Place(games, g) = HeldSlot(g)
        \/ blocking \cap {"frozen-moved", "bypassed"} # {}
        \/ MovedByExtra(g)

\* No built-in stage moves a game that is frozen or thaws one (mayMove,
\* applyMove, pinGames): clash repair and search after the first assignment
\* included.
HeldStaysPut ==
    [][extra' = extra => \A g \in frozen : g \in frozen' /\ Place(games', g) = Place(games, g)]_vars

\* Under the plan derived from the request, with no stage of the caller, the
\* schedule differs from the published one in requested games only.
OnlyRequestedMove ==
    Ended /\ Untouched /\ input.plan = "derived" => Moved \subseteq DOMAIN Request

\* A game is in the schedule, waiting, or listed as TIME TBD, and when the
\* run ends none is waiting (dislodge lifts, initial-assignment places).
NothingLost ==
    /\ Untouched => /\ DOMAIN games \cup pending \cup unplaced = Games
                    /\ DOMAIN games \cap (pending \cup unplaced) = {}
                    /\ pending \cap unplaced = {}
    /\ Ended /\ Untouched => pending = {}

ResolveInv == ResolveTypeOK /\ NothingLost

\* A change request to a schedule in which no game was shut out or clashed.
CleanChange ==
    /\ ~input.whole
    /\ \A g \in Games : Base[g] \notin Shut /\ Counterparts(g, Base[g], Base) = {}

\* Nothing can be done about a game and the games it clashes with.
Stuck(g) == {g} \cup Counterparts(g, games[g], games) \subseteq frozen

\* Starting from a schedule without a clash, a change request that ends leaves
\* a placed game illegal only if the game and all it clashes with are held:
\* what could be lifted was, and went where it is legal (dislodge, chooseSlot).
CleanStaysClean ==
    CleanChange /\ Ended /\ Untouched
      => \A g \in PlacedOnTouched(games) : Grown(g, games[g], games) => Stuck(g)

\* What the report says of quality was measured on the schedule it proposes,
\* or the audit has found a write around the ledger (verificationCache),
\* unless a caller's stage left games out of the list.
MeasuredIsProposed ==
    Ended /\ ids = Games => \/ Len(moves) \in DOMAIN cache /\ cache[Len(moves)] = games
                            \/ "bypassed" \in blocking

\* No game moves as a consequence without the run knowing why (the causes
\* stages hand to applyMove, buildChangeReport).
NoUnexplainedMove == Ended /\ Untouched => "unexplained" \notin blocking

\* The report of a run is true of the schedule it proposes, causes included.
ReportIsTrue == MeasuredIsProposed /\ NoUnexplainedMove

\* The scan of judgeFreeze gives what the rules of greatest rank say, in
\* whatever order the plan lists them.
JudgementIsDeclared ==
    LET plan == PlanOf(input)
    IN \A g \in Games : JudgeFreeze(plan, Context(input, g))
                          = DeclaredDisposition(plan, Context(input, g))
=============================================================================
