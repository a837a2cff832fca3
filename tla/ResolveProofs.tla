--------------------------- MODULE ResolveProofs ---------------------------
(***************************************************************************)
(* What holds of every re-solve, whatever the season, the plan, the        *)
(* request and the stage a caller adds.  RunInv types the run; beside it   *)
(* stands one invariant for each question: what dislodge is about to lift  *)
(* (GateInv), where the held games are (HeldInv), where every game is (WhereInv),  *)
(* why it is there (ExplainInv), whether it is legal there (CleanInv) and  *)
(* which board the rule engine has seen (MeasuredInv).                     *)
(***************************************************************************)
EXTENDS Resolve, FiniteSetTheorems, TLAPS

StageNames == {"change", "dislodge", "assign", "search", "repair", "extra",
               "verify", "audit", "done"}

\* What follows each stage of the pipeline.
LEMMA StageOrder ==
    /\ After("change") = "dislodge" /\ After("dislodge") = "assign"
    /\ After("assign") = "search" /\ After("search") = "repair"
    /\ After("repair") = "extra" /\ After("extra") = "verify"
<1>1. \A i \in 1..8 : i = 1 \/ i = 2 \/ i = 3 \/ i = 4 \/ i = 5 \/ i = 6 \/ i = 7 \/ i = 8
  OBVIOUS
<1>2. After("change") = "dislodge"
  BY <1>1 DEF After, Pipeline
<1>3. After("dislodge") = "assign"
  BY <1>1 DEF After, Pipeline
<1>4. After("assign") = "search"
  BY <1>1 DEF After, Pipeline
<1>5. After("search") = "repair"
  BY <1>1 DEF After, Pipeline
<1>6. After("repair") = "extra"
  BY <1>1 DEF After, Pipeline
<1>7. After("extra") = "verify"
  BY <1>1 DEF After, Pipeline
<1>. QED  BY <1>2, <1>3, <1>4, <1>5, <1>6, <1>7

(***************************************************************************)
(* The types.  A board is what any prefix of the run may leave on the      *)
(* calendar: some of the games, each on a slot.                            *)
(***************************************************************************)
Boards == UNION {[D -> Slots] : D \in SUBSET Games}
Entry == [stage : StageNames, game : Games, cause : BOOLEAN]
Snapshot == [at : Boards, len : Nat, declares : BOOLEAN]

RunInv ==
    /\ input \in Inputs /\ stage \in StageNames
    /\ frozen \subseteq Games /\ DOMAIN pinnedAt \subseteq Games
    /\ baseline \in [Games -> Slots] /\ ids \subseteq Games
    /\ Untouched => baseline = Base /\ ids = Games
    /\ games \in Boards /\ moves \in Seq(Entry) /\ snapshots \in Seq(Snapshot)
    /\ pending \subseteq Games /\ unplaced \subseteq Games
    /\ todo \subseteq Games \cup DOMAIN Request
    /\ focus \in Games \cup {NoGame} /\ left \subseteq Games
    /\ extra \in Nat
    /\ outcome \in {"running", "threw", "dry", "committed"}
    /\ stage = "done" => Ended
    /\ Ended => stage = "done"

LEMMA BoardFacts ==
    ASSUME NEW a
    PROVE  a \in Boards
             <=> /\ a = [g \in DOMAIN a |-> a[g]]
                 /\ DOMAIN a \subseteq Games
                 /\ \A g \in DOMAIN a : a[g] \in Slots
<1>1. ASSUME a \in Boards
      PROVE  /\ a = [g \in DOMAIN a |-> a[g]]
             /\ DOMAIN a \subseteq Games
             /\ \A g \in DOMAIN a : a[g] \in Slots
  <2>1. PICK D \in SUBSET Games : a \in [D -> Slots]
    BY <1>1 DEF Boards
  <2>. QED  BY <2>1
<1>2. ASSUME a = [g \in DOMAIN a |-> a[g]],
             DOMAIN a \subseteq Games,
             \A g \in DOMAIN a : a[g] \in Slots
      PROVE  a \in Boards
  <2>1. a \in [DOMAIN a -> Slots]
    BY <1>2
  <2>. QED  BY <2>1, <1>2 DEF Boards
<1>. QED  BY <1>1, <1>2

LEMMA InputFacts ==
    ASSUME input \in Inputs
    PROVE  /\ Base \in [Games -> Slots] /\ Request \in Requests
           /\ \A g \in DOMAIN Request : Request[g] \in Slots
           /\ input.declares \in BOOLEAN /\ Base = input.baseline
  BY ResolveAssumption DEF Inputs, Base, Request

\* The three writes leave a board and a ledger.
LEMMA RelocateType ==
    ASSUME RunInv, NEW g \in Games, NEW s \in Slots, NEW c \in BOOLEAN, Relocate(g, s, c)
    PROVE  /\ games' \in Boards /\ DOMAIN games' = DOMAIN games \cup {g}
           /\ games'[g] = s
           /\ \A h \in DOMAIN games \ {g} : games'[h] = games[h]
           /\ moves' \in Seq(Entry) /\ Len(moves') = Len(moves) + 1
           /\ pending' = pending \ {g} /\ unplaced' = unplaced \ {g}
           /\ moves' = Append(moves, [stage |-> stage, game |-> g, cause |-> c])
<1>1. games' = [h \in DOMAIN games \cup {g} |-> IF h = g THEN s ELSE games[h]]
  BY DEF Relocate
<1>2. DOMAIN games \subseteq Games /\ \A h \in DOMAIN games : games[h] \in Slots
  BY BoardFacts DEF RunInv
<1>3. games' \in [DOMAIN games \cup {g} -> Slots]
  BY <1>1, <1>2
<1>4. games' \in Boards
  BY <1>2, <1>3 DEF Boards
<1>5. [stage |-> stage, game |-> g, cause |-> c] \in Entry
  BY DEF Entry, RunInv
<1>6. moves' = Append(moves, [stage |-> stage, game |-> g, cause |-> c])
  BY DEF Relocate, Logged
<1>7. moves' \in Seq(Entry) /\ Len(moves') = Len(moves) + 1
  BY <1>5, <1>6 DEF RunInv
<1>. QED  BY <1>1, <1>4, <1>6, <1>7 DEF Relocate

LEMMA LiftType ==
    ASSUME RunInv, NEW g \in Games, LiftOut(g) \/ TimeTbd(g)
    PROVE  /\ games' \in Boards /\ DOMAIN games' = DOMAIN games \ {g}
           /\ \A h \in DOMAIN games \ {g} : games'[h] = games[h]
           /\ moves' \in Seq(Entry) /\ Len(moves') = Len(moves) + 1
           /\ \E c \in BOOLEAN :
                 /\ moves' = Append(moves, [stage |-> stage, game |-> g, cause |-> c])
                 /\ LiftOut(g) => c
           /\ pending' \subseteq Games /\ unplaced' \subseteq Games
<1>1. games' = [h \in DOMAIN games \ {g} |-> games[h]]
  BY DEF LiftOut, TimeTbd
<1>2. DOMAIN games \subseteq Games /\ \A h \in DOMAIN games : games[h] \in Slots
  BY BoardFacts DEF RunInv
<1>3. games' \in [DOMAIN games \ {g} -> Slots]
  BY <1>1, <1>2
<1>4. games' \in Boards
  BY <1>2, <1>3 DEF Boards
<1>5. PICK c \in BOOLEAN :
         /\ moves' = Append(moves, [stage |-> stage, game |-> g, cause |-> c])
         /\ LiftOut(g) => c
  <2>1. CASE LiftOut(g)
    BY <2>1 DEF LiftOut, Logged
  <2>2. CASE ~LiftOut(g)
    BY <2>2 DEF TimeTbd, Logged
  <2>. QED  BY <2>1, <2>2
<1>6. [stage |-> stage, game |-> g, cause |-> c] \in Entry
  BY DEF Entry, RunInv
<1>7. moves' \in Seq(Entry) /\ Len(moves') = Len(moves) + 1
  BY <1>5, <1>6 DEF RunInv
<1>8. pending' \subseteq Games /\ unplaced' \subseteq Games
  BY DEF RunInv, LiftOut, TimeTbd
<1>. QED  BY <1>1, <1>4, <1>5, <1>7, <1>8

LEMMA LegalFacts ==
    ASSUME NEW g, NEW avoid, NEW s \in LegalSlots(g, avoid)
    PROVE  s \in Slots /\ ~Grown(g, s, games) /\ s \notin avoid
  BY DEF LegalSlots, Candidates

\* A move to a better slot asks the freeze.
LEMMA ImproveFacts ==
    ASSUME NEW g, NEW avoid, Improve(g, avoid)
    PROVE  \/ UNCHANGED board
           \/ /\ g \notin frozen
              /\ \E s \in LegalSlots(g, avoid) : Relocate(g, s, TRUE)
  BY DEF Improve, MayMove

LEMMA RunInit == Init => RunInv
<1> SUFFICES ASSUME Init PROVE RunInv
  OBVIOUS
<1>1. /\ input \in Inputs /\ games = Base /\ todo = DOMAIN Request
      /\ stage = "change" /\ focus = NoGame /\ left = {} /\ outcome = "running"
      /\ pending = {} /\ unplaced = {} /\ extra = 0 /\ snapshots = <<>> /\ moves = <<>>
  BY DEF Init, Base, Request
<1>2. games \in Boards
  BY <1>1, InputFacts DEF Boards
<1>3. /\ frozen \subseteq Games /\ DOMAIN pinnedAt \subseteq Games
      /\ baseline = Base /\ ids = Games
  BY DEF Init, FrozenBy, Base
<1>4. moves \in Seq(Entry) /\ snapshots \in Seq(Snapshot)
  BY <1>1
<1>. QED  BY <1>1, <1>2, <1>3, <1>4, InputFacts DEF RunInv, StageNames, Ended

\* The stage that ends, and what it leaves behind.
LEMMA EndStageFacts ==
    ASSUME RunInv, EndStage
    PROVE  /\ frozen \subseteq frozen' /\ frozen' \subseteq Games
           /\ DOMAIN pinnedAt' \subseteq Games
           /\ stage # "change" => frozen' = frozen
           /\ snapshots' \in Seq(Snapshot) /\ Len(snapshots') = Len(snapshots) + 1
           /\ snapshots'[Len(snapshots')].at = games
           /\ snapshots'[Len(snapshots')].len = Len(moves)
           /\ \A i \in 1..Len(snapshots) : snapshots'[i] = snapshots[i]
           /\ stage' \in StageNames \ {"change", "audit", "done"}
           /\ todo' \subseteq Games
<1>1. /\ frozen \subseteq frozen' /\ frozen' \subseteq Games
      /\ DOMAIN pinnedAt' \subseteq Games
      /\ stage # "change" => frozen' = frozen
  <2>1. CASE stage = "change" /\ input.hold
    <3> DEFINE held == {moves[i].game : i \in 1..Len(moves)}
    <3>1. \A i \in 1..Len(moves) : moves[i] \in Entry
      BY DEF RunInv
    <3>2. held \subseteq Games
      BY <3>1 DEF Entry
    <3>3. frozen' = frozen \cup held /\ DOMAIN pinnedAt' = DOMAIN pinnedAt \cup held
      BY <2>1 DEF EndStage, Pin
    <3>. QED  BY <3>2, <3>3, <2>1 DEF RunInv
  <2>2. CASE ~(stage = "change" /\ input.hold)
    BY <2>2 DEF EndStage, RunInv
  <2>. QED  BY <2>1, <2>2
<1> DEFINE d == stage # "extra" \/ input.declares
<1>2. snapshots' = Append(snapshots, [at |-> games, len |-> Len(moves), declares |-> d])
  BY DEF EndStage
<1>3. d \in BOOLEAN
  BY InputFacts DEF RunInv
<1> HIDE DEF d
<1>4. [at |-> games, len |-> Len(moves), declares |-> d] \in Snapshot
  BY <1>3 DEF Snapshot, RunInv
<1>5. /\ snapshots' \in Seq(Snapshot) /\ Len(snapshots') = Len(snapshots) + 1
      /\ snapshots'[Len(snapshots')] = [at |-> games, len |-> Len(moves), declares |-> d]
      /\ \A i \in 1..Len(snapshots) : snapshots'[i] = snapshots[i]
  BY <1>2, <1>4 DEF RunInv
<1>6. stage' \in {"dislodge", "assign", "search", "repair", "extra", "verify"}
  BY StageOrder DEF EndStage
<1>7. DOMAIN games \subseteq Games
  BY BoardFacts DEF RunInv
<1>8. todo' \subseteq Games
  BY <1>6, <1>7 DEF EndStage, Work, PlacedOnTouched, RunInv
<1>. QED  BY <1>1, <1>5, <1>6, <1>8 DEF StageNames

LEMMA ImproveType ==
    ASSUME RunInv, NEW g \in Games, NEW avoid, Improve(g, avoid)
    PROVE  /\ games' \in Boards /\ moves' \in Seq(Entry)
           /\ pending' \subseteq Games /\ unplaced' \subseteq Games
<1>1. CASE UNCHANGED board
  BY <1>1 DEF RunInv, board
<1>2. ASSUME NEW s \in LegalSlots(g, avoid), Relocate(g, s, TRUE)
      PROVE  /\ games' \in Boards /\ moves' \in Seq(Entry)
             /\ pending' \subseteq Games /\ unplaced' \subseteq Games
  <2>1. s \in Slots
    BY LegalFacts
  <2>. QED  BY <1>2, <2>1, RelocateType DEF RunInv
<1>. QED  BY <1>1, <1>2, ImproveFacts

\* A write of the caller's stage to game g, and what such a write may not do:
\* the ledger grows through applyMove only.
ExtraOf(g) ==
    \/ \E s \in Slots : ExtraThrough(g, s)
    \/ \E parts \in Rewrites : ExtraAround(g, parts)

ExtraEffect(g) ==
    /\ stage = "extra" /\ outcome = "running" /\ outcome' \in {"running", "threw"}
    /\ UNCHANGED <<input, cursor, snapshots, cache, unsat, blocking>>
    /\ extra \in Nat /\ extra' = extra + 1
    /\ games' \in Boards /\ moves' \in Seq(Entry)
    /\ pending' \subseteq Games /\ unplaced' \subseteq Games
    /\ frozen' \subseteq Games /\ DOMAIN pinnedAt' \subseteq Games
    /\ baseline' \in [Games -> Slots] /\ ids' \subseteq Games
    /\ \/ moves' = moves
       \/ moves' = Append(moves, [stage |-> "extra", game |-> g, cause |-> FALSE])

LEMMA PutFacts ==
    ASSUME NEW at, NEW g, NEW s
    PROVE  /\ at \in Boards /\ g \in Games /\ s \in Slots => Put(at, g, s) \in Boards
           /\ at \in Boards /\ g \in Games => Without(at, g) \in Boards
           /\ at \in [Games -> Slots] /\ g \in Games /\ s \in Slots
                => Put(at, g, s) \in [Games -> Slots]
           /\ DOMAIN Put(at, g, s) = DOMAIN at \cup {g}
<1>1. ASSUME at \in Boards, g \in Games, s \in Slots PROVE Put(at, g, s) \in Boards
  <2>1. DOMAIN at \subseteq Games /\ \A h \in DOMAIN at : at[h] \in Slots
    BY <1>1, BoardFacts
  <2>2. Put(at, g, s) \in [DOMAIN at \cup {g} -> Slots]
    BY <1>1, <2>1 DEF Put
  <2>. QED  BY <1>1, <2>1, <2>2 DEF Boards
<1>2. ASSUME at \in Boards, g \in Games PROVE Without(at, g) \in Boards
  <2>1. DOMAIN at \subseteq Games /\ \A h \in DOMAIN at : at[h] \in Slots
    BY <1>2, BoardFacts
  <2>2. Without(at, g) \in [DOMAIN at \ {g} -> Slots]
    BY <1>2, <2>1 DEF Without
  <2>. QED  BY <1>2, <2>1, <2>2 DEF Boards
<1>. QED  BY <1>1, <1>2 DEF Put

LEMMA ExtraFacts ==
    ASSUME RunInv, NEW g \in Games, ExtraOf(g)
    PROVE  ExtraEffect(g)
<1>1. ASSUME NEW s \in Slots, ExtraThrough(g, s) PROVE ExtraEffect(g)
  <2>1. /\ UNCHANGED <<params, cursor, snapshots, cache, unsat, blocking>>
        /\ extra' = extra + 1 /\ stage = "extra" /\ outcome = "running"
        /\ outcome' \in {"running", "threw"} /\ (UNCHANGED board \/ Relocate(g, s, FALSE))
    BY <1>1 DEF ExtraThrough, InStage
  <2>2. CASE UNCHANGED board
    BY <2>1, <2>2 DEF ExtraEffect, RunInv, params, board
  <2>3. CASE Relocate(g, s, FALSE)
    <3>1. /\ games' \in Boards /\ moves' \in Seq(Entry)
          /\ pending' \subseteq Games /\ unplaced' \subseteq Games
          /\ moves' = Append(moves, [stage |-> stage, game |-> g, cause |-> FALSE])
      BY <2>3, RelocateType DEF RunInv
    <3>. QED  BY <2>1, <3>1 DEF ExtraEffect, RunInv, params
  <2>. QED  BY <2>1, <2>2, <2>3
<1>2. ASSUME NEW parts \in Rewrites, ExtraAround(g, parts) PROVE ExtraEffect(g)
  <2>1. /\ UNCHANGED <<input, pending, unplaced, moves, cursor, snapshots, cache, unsat,
                       blocking, outcome>>
        /\ extra' = extra + 1 /\ stage = "extra" /\ outcome = "running"
    BY <1>2 DEF ExtraAround, InStage
  <2>2. Forged \subseteq Slots /\ games \in Boards /\ baseline \in [Games -> Slots]
    BY ResolveAssumption DEF RunInv
  <2>3. games' \in Boards
    <3>1. \/ games' = games \/ games' = Without(games, g)
          \/ \E s \in Forged : games' = Put(games, g, s)
      BY <1>2 DEF ExtraAround
    <3>2. ASSUME NEW s \in Forged, games' = Put(games, g, s) PROVE games' \in Boards
      BY <2>2, <3>2, PutFacts
    <3>3. Without(games, g) \in Boards
      BY <2>2, PutFacts
    <3>. QED  BY <2>2, <3>1, <3>2, <3>3
  <2>4. DOMAIN pinnedAt' \subseteq Games
    <3>1. pinnedAt' = pinnedAt \/ \E s \in Forged : pinnedAt' = Put(pinnedAt, g, s)
      BY <1>2 DEF ExtraAround
    <3>2. ASSUME NEW s \in Forged, pinnedAt' = Put(pinnedAt, g, s)
          PROVE  DOMAIN pinnedAt' \subseteq Games
      <4>1. DOMAIN pinnedAt' = DOMAIN pinnedAt \cup {g}
        BY <3>2, PutFacts
      <4>. QED  BY <4>1 DEF RunInv
    <3>. QED  BY <3>1, <3>2 DEF RunInv
  <2>5. baseline' \in [Games -> Slots]
    <3>1. baseline' = baseline \/ \E s \in Forged : baseline' = Put(baseline, g, s)
      BY <1>2 DEF ExtraAround
    <3>2. ASSUME NEW s \in Forged, baseline' = Put(baseline, g, s)
          PROVE  baseline' \in [Games -> Slots]
      BY <2>2, <3>2, PutFacts
    <3>. QED  BY <2>2, <3>1, <3>2
  <2>6. frozen' \subseteq Games /\ ids' \subseteq Games
    BY <1>2 DEF ExtraAround, Rejudged, RunInv
  <2>. QED  BY <2>1, <2>3, <2>4, <2>5, <2>6 DEF ExtraEffect, RunInv
<1>. QED  BY <1>1, <1>2 DEF ExtraOf

LEMMA ExtraCounts ==
    ASSUME RunInv, NEW g \in Games, ExtraOf(g)
    PROVE  extra' # extra /\ extra' # 0 /\ input' = input
<1>1. extra \in Nat /\ extra' = extra + 1 /\ input' = input
  BY ExtraFacts DEF ExtraEffect
<1>. QED  BY <1>1

LEMMA RunStep == RunInv /\ [Next]_vars => RunInv'
<1> SUFFICES ASSUME RunInv, [Next]_vars PROVE RunInv'
  OBVIOUS
<1>. USE DEF Ended, Untouched, Base
<1>1. CASE EndStage
  <2>1. UNCHANGED <<input, baseline, ids, board, focus, left, extra, outcome>> /\ outcome = "running"
    BY <1>1 DEF EndStage
  <2>. QED  BY <1>1, <2>1, EndStageFacts DEF RunInv, board, Request
<1>2. ASSUME NEW g \in DOMAIN Request, ApplyChange(g) PROVE RunInv'
  <2>1. /\ UNCHANGED <<params, stage, focus, left, snapshots, extra, outcome>>
        /\ todo' \subseteq todo /\ outcome = "running"
    BY <1>2 DEF ApplyChange, params, Visited, InStage
  <2>2. CASE UNCHANGED board
    BY <2>1, <2>2 DEF RunInv, params, board, Request
  <2>3. CASE g \in Games /\ Relocate(g, Request[g], TRUE)
    <3>1. Request[g] \in Slots
      BY InputFacts DEF RunInv
    <3>. QED  BY <2>1, <2>3, <3>1, RelocateType DEF RunInv, params, Request
  <2>. QED  BY <1>2, <2>2, <2>3 DEF ApplyChange
<1>3. ASSUME NEW g \in Games, OfOneGame(g) PROVE RunInv'
  <2>1. CASE DislodgeEverything(g)
    <3>1. /\ UNCHANGED <<params, stage, focus, left, snapshots, extra, outcome>>
          /\ todo' \subseteq todo /\ outcome = "running"
      BY <2>1 DEF DislodgeEverything, params, report, Visited, InStage
    <3>2. CASE UNCHANGED board
      BY <3>1, <3>2 DEF RunInv, params, board, Request
    <3>3. CASE LiftOut(g)
      BY <3>1, <3>3, LiftType DEF RunInv, params, Request
    <3>. QED  BY <2>1, <3>2, <3>3 DEF DislodgeEverything
  <2>2. CASE Dislodge(g)
    <3>1. /\ UNCHANGED <<params, board, stage, snapshots, extra>> /\ outcome = "running"
          /\ todo' \subseteq todo /\ outcome' \in {"running", "threw"} /\ stage = "dislodge"
      BY <2>2 DEF Dislodge, Unsatisfiable, InStage
    <3>2. \/ UNCHANGED <<focus, left>>
          \/ focus' = g /\ left' \subseteq {g} \cup Counterparts(g, games[g], games)
      BY <2>2 DEF Dislodge
    <3>3. DOMAIN games \subseteq Games
      BY BoardFacts DEF RunInv
    <3>4. Counterparts(g, games[g], games) \subseteq Games
      BY <3>3 DEF Counterparts, OnSameSurface, OnSharedGround
    <3>5. focus' \in Games \cup {NoGame} /\ left' \subseteq Games
      BY <3>2, <3>4 DEF RunInv
    <3>. QED  BY <3>1, <3>5 DEF RunInv, params, board, Request
  <2>3. CASE LiftParty(g)
    <3>1. /\ UNCHANGED <<params, stage, todo, report>> /\ LiftOut(g) /\ outcome = "running"
          /\ left' \subseteq left /\ focus' \in {NoGame, focus}
      BY <2>3 DEF LiftParty, InStage
    <3>. QED  BY <3>1, LiftType DEF RunInv, params, report, Request
  <2>4. CASE Assign(g)
    <3>1. /\ UNCHANGED <<params, stage, focus, left, snapshots, extra>>
          /\ todo' \subseteq todo /\ outcome' \in {"running", "threw"} /\ stage = "assign"
      BY <2>4 DEF Assign, Visited, InStage, Unsatisfiable, report
    <3>2. CASE UNCHANGED board
      BY <3>1, <3>2 DEF RunInv, params, board, Request
    <3>3. CASE TimeTbd(g)
      BY <3>1, <3>3, LiftType DEF RunInv, params, Request
    <3>4. ASSUME NEW s \in LegalSlots(g, {}), Relocate(g, s, FALSE) PROVE RunInv'
      <4>1. s \in Slots
        BY LegalFacts
      <4>. QED  BY <3>1, <3>4, <4>1, RelocateType DEF RunInv, params, Request
    <3>. QED  BY <2>4, <3>2, <3>3, <3>4 DEF Assign
  <2>5. CASE Search(g)
    <3>1. /\ UNCHANGED <<params, stage, focus, left, report>> /\ todo' \subseteq todo
          /\ outcome = "running"
      BY <2>5 DEF Search, Visited, InStage
    <3>2. CASE UNCHANGED board
      BY <3>1, <3>2 DEF RunInv, params, board, report, Request
    <3>3. CASE Improve(g, {games[g]})
      <4>1. /\ games' \in Boards /\ moves' \in Seq(Entry)
            /\ pending' \subseteq Games /\ unplaced' \subseteq Games
        BY <3>3, ImproveType
      <4>. QED  BY <3>1, <4>1 DEF RunInv, params, report, Request
    <3>. QED  BY <2>5, <3>2, <3>3 DEF Search
  <2>6. CASE Repair(g)
    <3>1. /\ UNCHANGED <<params, board, stage, report>> /\ todo' \subseteq todo
          /\ left' \subseteq Counterparts(g, games[g], games) /\ focus' \in {NoGame, g}
          /\ outcome = "running"
      BY <2>6 DEF Repair, InStage
    <3>2. DOMAIN games \subseteq Games
      BY BoardFacts DEF RunInv
    <3>3. Counterparts(g, games[g], games) \subseteq Games
      BY <3>2 DEF Counterparts, OnSameSurface, OnSharedGround
    <3>. QED  BY <3>1, <3>3 DEF RunInv, params, board, report, Request
  <2>7. CASE RepairParty(g)
    <3>1. /\ UNCHANGED <<params, stage, todo, report>> /\ left' \subseteq left
          /\ focus' \in {NoGame, focus} /\ outcome = "running"
      BY <2>7 DEF RepairParty, InStage
    <3>2. CASE UNCHANGED board
      BY <3>1, <3>2 DEF RunInv, params, board, report, Request
    <3>3. CASE Improve(g, {games[g]})
      <4>1. /\ games' \in Boards /\ moves' \in Seq(Entry)
            /\ pending' \subseteq Games /\ unplaced' \subseteq Games
        BY <3>3, ImproveType
      <4>. QED  BY <3>1, <4>1 DEF RunInv, params, report, Request
    <3>. QED  BY <2>7, <3>2, <3>3 DEF RepairParty
  <2>. QED  BY <1>3, <2>1, <2>2, <2>3, <2>4, <2>5, <2>6, <2>7 DEF OfOneGame
<1>4. ASSUME NEW g \in Games, ExtraOf(g) PROVE RunInv'
  <2>1. ExtraEffect(g) /\ extra' # 0
    BY <1>4, ExtraFacts, ExtraCounts
  <2>. QED  BY <2>1 DEF ExtraEffect, RunInv, cursor, Request
<1>5. CASE Verify
  BY <1>5 DEF Verify, InStage, RunInv, params, board, StageNames, Request
<1>6. CASE Audit
  BY <1>6 DEF Audit, InStage, RunInv, params, board, StageNames, Request
<1>7. ASSUME NEW accepted, Commit(accepted) PROVE RunInv'
  BY <1>7 DEF Commit, RunInv, params, board, cursor, Request
<1>8. CASE UNCHANGED vars
  BY <1>8 DEF RunInv, vars, params, board, cursor, report, Request
<1>. QED  BY <1>1, <1>2, <1>3, <1>4, <1>5, <1>6, <1>7, <1>8 DEF Next, ExtraOf

LEMMA RunInvariant == Spec => []RunInv
<1>. QED  BY RunInit, RunStep, PTL DEF Spec

(***************************************************************************)
(* The gate.  What dislodge is about to lift may move, because the pins of *)
(* the change stage were set before.                                       *)
(***************************************************************************)
GateInv ==
    /\ stage = "change" => left = {}
    /\ stage = "dislodge" => left \cap frozen = {}

LEMMA OthersStay ==
    ASSUME RunInv, NEW g \in Games,
           \/ LiftOut(g) \/ TimeTbd(g)
           \/ \E s \in Slots, c \in BOOLEAN : Relocate(g, s, c)
    PROVE  \A h : h # g => Place(games', h) = Place(games, h)
<1>1. CASE LiftOut(g) \/ TimeTbd(g)
  BY <1>1, LiftType DEF Place
<1>2. ASSUME NEW s \in Slots, NEW c \in BOOLEAN, Relocate(g, s, c)
      PROVE  \A h : h # g => Place(games', h) = Place(games, h)
  <2>1. /\ DOMAIN games' = DOMAIN games \cup {g}
        /\ \A h \in DOMAIN games \ {g} : games'[h] = games[h]
    BY <1>2 DEF Relocate
  <2>. QED  BY <2>1 DEF Place
<1>. QED  BY <1>1, <1>2

LEMMA GateInit == Init => GateInv
  BY DEF Init, GateInv

LEMMA GateStep == RunInv /\ GateInv /\ [Next]_vars => GateInv'
<1> SUFFICES ASSUME RunInv, GateInv, [Next]_vars PROVE GateInv'
  OBVIOUS
<1>1. CASE EndStage
  BY <1>1, StageOrder DEF EndStage, GateInv
<1>2. ASSUME NEW g \in DOMAIN Request, ApplyChange(g) PROVE GateInv'
  BY <1>2 DEF ApplyChange, Visited, params, GateInv
<1>3. ASSUME NEW g \in Games, OfOneGame(g) PROVE GateInv'
  <2>1. CASE DislodgeEverything(g) \/ Assign(g) \/ Search(g)
    BY <2>1 DEF DislodgeEverything, Assign, Search, Visited, params, GateInv
  <2>2. CASE Dislodge(g)
    <3>1. UNCHANGED <<frozen, stage>> /\ (left' = left \/ left' \cap frozen = {})
      BY <2>2 DEF Dislodge, params, MayMove
    <3>. QED  BY <2>2, <3>1 DEF Dislodge, InStage, GateInv
  <2>3. CASE LiftParty(g)
    BY <2>3 DEF LiftParty, params, GateInv
  <2>4. CASE Repair(g) \/ RepairParty(g)
    BY <2>4 DEF Repair, RepairParty, InStage, params, GateInv
  <2>. QED  BY <1>3, <2>1, <2>2, <2>3, <2>4 DEF OfOneGame
<1>4. CASE Verify \/ Audit
  BY <1>4 DEF Verify, Audit, GateInv
<1>5. CASE UNCHANGED <<params, cursor>>
  BY <1>5 DEF params, cursor, GateInv
<1>6. ASSUME NEW g \in Games, ExtraOf(g) PROVE GateInv'
  BY <1>6, ExtraFacts DEF ExtraEffect, cursor, GateInv
<1>. QED  BY <1>1, <1>2, <1>3, <1>4, <1>5, <1>6 DEF Next, ExtraOf, Commit, vars

LEMMA GateInvariant == Spec => []GateInv
<1>. QED  BY GateInit, GateStep, RunInvariant, PTL DEF Spec

\* What a step does to the games that are held.
StaysPut ==
    extra' = extra => \A g \in frozen : g \in frozen' /\ Place(games', g) = Place(games, g)

LEMMA StepStaysPut ==
    ASSUME RunInv, GateInv, [Next]_vars
    PROVE  StaysPut
<1>1. ASSUME NEW g \in Games, g \notin frozen, UNCHANGED frozen,
             \/ LiftOut(g) \/ TimeTbd(g)
             \/ \E s \in Slots, c \in BOOLEAN : Relocate(g, s, c)
      PROVE  StaysPut
  BY <1>1, OthersStay DEF StaysPut
<1>2. ASSUME NEW g \in Games, NEW avoid, Improve(g, avoid), UNCHANGED frozen
      PROVE  StaysPut
  <2>1. CASE UNCHANGED board
    BY <1>2, <2>1 DEF StaysPut, board
  <2>2. ASSUME g \notin frozen, NEW s \in LegalSlots(g, avoid), Relocate(g, s, TRUE)
        PROVE  StaysPut
    <3>1. s \in Slots
      BY LegalFacts
    <3>. QED  BY <1>1, <1>2, <2>2, <3>1
  <2>. QED  BY <1>2, <2>1, <2>2, ImproveFacts
<1>3. CASE UNCHANGED <<frozen, games>>
  BY <1>3 DEF StaysPut
<1>4. CASE EndStage
  BY <1>4, EndStageFacts DEF EndStage, board, StaysPut
<1>5. ASSUME NEW g \in DOMAIN Request, ApplyChange(g) PROVE StaysPut
  <2>1. UNCHANGED frozen
    BY <1>5 DEF ApplyChange, params
  <2>2. CASE UNCHANGED board
    BY <1>3, <2>1, <2>2 DEF board
  <2>3. CASE g \in Games /\ g \notin frozen /\ Relocate(g, Request[g], TRUE)
    <3>1. Request[g] \in Slots
      BY InputFacts DEF RunInv
    <3>. QED  BY <1>1, <2>1, <2>3, <3>1
  <2>. QED  BY <1>5, <2>2, <2>3 DEF ApplyChange, MayMove
<1>6. ASSUME NEW g \in Games, OfOneGame(g) PROVE StaysPut
  <2>1. CASE DislodgeEverything(g)
    <3>1. UNCHANGED frozen /\ (UNCHANGED board \/ (g \notin frozen /\ LiftOut(g)))
      BY <2>1 DEF DislodgeEverything, params, MayMove
    <3>. QED  BY <1>1, <1>3, <3>1 DEF board
  <2>2. CASE Dislodge(g) \/ Repair(g)
    BY <1>3, <2>2 DEF Dislodge, Repair, params, board
  <2>3. CASE LiftParty(g)
    <3>1. UNCHANGED frozen /\ g \notin frozen /\ LiftOut(g)
      BY <2>3 DEF LiftParty, InStage, params, GateInv
    <3>. QED  BY <1>1, <3>1
  <2>4. CASE Assign(g)
    <3>1. UNCHANGED frozen
      BY <2>4 DEF Assign, params
    <3>2. CASE UNCHANGED board
      BY <1>3, <3>1, <3>2 DEF board
    <3>3. CASE g \notin frozen /\ TimeTbd(g)
      BY <1>1, <3>1, <3>3
    <3>4. ASSUME g \notin frozen, NEW s \in LegalSlots(g, {}), Relocate(g, s, FALSE)
          PROVE  StaysPut
      <4>1. s \in Slots
        BY LegalFacts
      <4>. QED  BY <1>1, <3>1, <3>4, <4>1
    <3>. QED  BY <2>4, <3>2, <3>3, <3>4 DEF Assign, MayMove
  <2>5. CASE Search(g) \/ RepairParty(g)
    <3>1. UNCHANGED frozen /\ (UNCHANGED board \/ Improve(g, {games[g]}))
      BY <2>5 DEF Search, RepairParty, params
    <3>. QED  BY <1>2, <1>3, <3>1 DEF board
  <2>. QED  BY <1>6, <2>1, <2>2, <2>3, <2>4, <2>5 DEF OfOneGame
<1>7. ASSUME NEW g \in Games, ExtraOf(g) PROVE StaysPut
  BY <1>7, ExtraCounts DEF StaysPut
<1>8. CASE Verify \/ Audit \/ (\E accepted \in SUBSET blocking : Commit(accepted))
  BY <1>3, <1>8 DEF Verify, Audit, Commit, params, board
<1>9. CASE UNCHANGED vars
  BY <1>3, <1>9 DEF vars, params, board
<1>. QED  BY <1>4, <1>5, <1>6, <1>7, <1>8, <1>9 DEF Next, ExtraOf

\* No stage of the pipeline moves a game that is held, or lets one go, for
\* any season, plan and change request.
THEOREM HeldGamesStayPut == Spec => HeldStaysPut
<1>1. RunInv /\ GateInv /\ [Next]_vars
        => [extra' = extra
              => \A g \in frozen : g \in frozen' /\ Place(games', g) = Place(games, g)]_vars
  BY StepStaysPut DEF StaysPut
<1>. QED  BY <1>1, RunInvariant, GateInvariant, PTL DEF Spec, HeldStaysPut

(***************************************************************************)
(* How a run ends: the audit alone brings it there, and nothing but the    *)
(* commit happens afterwards.                                              *)
(***************************************************************************)
LEMMA OnlyAuditEnds ==
    ASSUME RunInv, [Next]_vars, stage' = "done"
    PROVE  \/ Audit
           \/ /\ stage = "done"
              /\ UNCHANGED <<params, board, cursor, snapshots, cache, unsat, blocking, extra>>
<1>1. CASE EndStage
  BY <1>1, EndStageFacts
<1>2. ASSUME NEW g \in DOMAIN Request, ApplyChange(g) PROVE FALSE
  BY <1>2 DEF ApplyChange, InStage, Visited
<1>3. ASSUME NEW g \in Games, OfOneGame(g) PROVE FALSE
  BY <1>3 DEF OfOneGame, DislodgeEverything, Dislodge, LiftParty, Assign, Search, Repair,
              RepairParty, InStage, Visited
<1>4. ASSUME NEW g \in Games, ExtraOf(g) PROVE FALSE
  BY <1>4, ExtraFacts DEF ExtraEffect, cursor
<1>5. CASE Verify
  BY <1>5 DEF Verify
<1>6. ASSUME NEW accepted, Commit(accepted)
      PROVE  /\ stage = "done"
             /\ UNCHANGED <<params, board, cursor, snapshots, cache, unsat, blocking, extra>>
  BY <1>6 DEF Commit, cursor
<1>7. CASE UNCHANGED vars
  BY <1>7 DEF vars, report, cursor
<1>. QED  BY <1>1, <1>2, <1>3, <1>4, <1>5, <1>6, <1>7 DEF Next, ExtraOf

LEMMA ExtraGrows ==
    ASSUME RunInv, [Next]_vars
    PROVE  input' = input /\ (extra' = extra \/ extra' = extra + 1)
<1>1. ASSUME NEW g \in Games, ExtraOf(g)
      PROVE  input' = input /\ extra' = extra + 1
  BY <1>1, ExtraFacts DEF ExtraEffect
<1>. QED  BY <1>1 DEF Next, vars, params, board, cursor, report, EndStage, ApplyChange,
     OfOneGame, DislodgeEverything, Dislodge, LiftParty, Assign, Unsatisfiable, Search, Repair,
     RepairParty, ExtraOf, Verify, Audit, Commit

(***************************************************************************)
(* The held games.  Up to the caller's stage they are where they were held *)
(* (HeldStaysPut); what that stage does to them shows as a difference      *)
(* between the fifth snapshot and the sixth, which the audit compares with *)
(* the ledger between them.                                                *)
(***************************************************************************)
EarlyStages == {"change", "dislodge", "assign", "search", "repair"}

LEMMA StepShape ==
    ASSUME RunInv, [Next]_vars
    PROVE  \/ EndStage
           \/ stage \in EarlyStages /\ UNCHANGED <<params, stage, snapshots, extra>>
           \/ \E g \in Games : ExtraOf(g)
           \/ Verify
           \/ Audit
           \/ UNCHANGED <<params, stage, snapshots, extra, games, moves, blocking>>
<1>1. ASSUME NEW g \in DOMAIN Request, ApplyChange(g)
      PROVE  stage \in EarlyStages /\ UNCHANGED <<params, stage, snapshots, extra>>
  BY <1>1 DEF ApplyChange, Visited, InStage, EarlyStages
<1>2. ASSUME NEW g \in Games, OfOneGame(g)
      PROVE  stage \in EarlyStages /\ UNCHANGED <<params, stage, snapshots, extra>>
  BY <1>2 DEF OfOneGame, DislodgeEverything, Dislodge, LiftParty, Assign, Unsatisfiable, Search,
     Repair, RepairParty, Visited, InStage, report, EarlyStages
<1>3. CASE \/ UNCHANGED vars
           \/ \E accepted \in SUBSET blocking : Commit(accepted)
  BY <1>3 DEF Commit, vars, board, cursor, report
<1>. QED  BY <1>1, <1>2, <1>3 DEF Next, ExtraOf

\* The ledger grows, by moves of the stage that runs.
LEMMA LedgerGrows ==
    ASSUME RunInv, [Next]_vars
    PROVE  \/ moves' = moves
           \/ \E e \in Entry : moves' = Append(moves, e) /\ e.stage = stage
<1>1. ASSUME NEW g \in Games, LiftOut(g) \/ TimeTbd(g)
      PROVE  \E e \in Entry : moves' = Append(moves, e) /\ e.stage = stage
  <2>1. PICK c \in BOOLEAN : moves' = Append(moves, [stage |-> stage, game |-> g, cause |-> c])
    BY <1>1, LiftType
  <2>2. [stage |-> stage, game |-> g, cause |-> c] \in Entry
    BY DEF Entry, RunInv
  <2>. QED  BY <2>1, <2>2
<1>2. ASSUME NEW g \in Games, NEW s \in Slots, NEW c \in BOOLEAN, Relocate(g, s, c)
      PROVE  \E e \in Entry : moves' = Append(moves, e) /\ e.stage = stage
  <2>1. moves' = Append(moves, [stage |-> stage, game |-> g, cause |-> c])
    BY <1>2 DEF Relocate, Logged
  <2>2. [stage |-> stage, game |-> g, cause |-> c] \in Entry
    BY DEF Entry, RunInv
  <2>. QED  BY <2>1, <2>2
<1>3. ASSUME NEW g \in Games, ExtraOf(g)
      PROVE  \/ moves' = moves
             \/ \E e \in Entry : moves' = Append(moves, e) /\ e.stage = stage
  <2> DEFINE e == [stage |-> "extra", game |-> g, cause |-> FALSE]
  <2>1. e \in Entry /\ e.stage = "extra"
    BY DEF Entry, StageNames
  <2>2. stage = "extra" /\ (moves' = moves \/ moves' = Append(moves, e))
    BY <1>3, ExtraFacts DEF ExtraEffect
  <2> HIDE DEF e
  <2>. QED  BY <2>1, <2>2
<1>4. ASSUME NEW g \in DOMAIN Request, ApplyChange(g)
      PROVE  UNCHANGED board \/ (g \in Games /\ Relocate(g, Request[g], TRUE) /\ Request[g] \in Slots)
  BY <1>4, InputFacts DEF ApplyChange, RunInv
<1>5. ASSUME NEW g \in Games, OfOneGame(g)
      PROVE  \/ UNCHANGED board \/ LiftOut(g) \/ TimeTbd(g)
             \/ \E s \in Slots, c \in BOOLEAN : Relocate(g, s, c)
  <2>1. \/ UNCHANGED board \/ LiftOut(g) \/ TimeTbd(g)
        \/ Improve(g, {games[g]})
        \/ \E s \in LegalSlots(g, {}) : Relocate(g, s, FALSE)
    BY <1>5 DEF OfOneGame, DislodgeEverything, Dislodge, LiftParty, Assign, Search, Repair,
       RepairParty
  <2>2. Improve(g, {games[g]}) => UNCHANGED board \/ \E s \in Slots : Relocate(g, s, TRUE)
    BY ImproveFacts, LegalFacts
  <2>. QED  BY <2>1, <2>2, LegalFacts
<1>6. UNCHANGED board => moves' = moves
  BY DEF board
<1>7. EndStage \/ Verify \/ Audit \/ UNCHANGED vars
        \/ (\E accepted \in SUBSET blocking : Commit(accepted)) => UNCHANGED board
  BY DEF EndStage, Verify, Audit, vars, Commit
<1>. QED  BY <1>1, <1>2, <1>3, <1>4, <1>5, <1>6, <1>7 DEF Next, ExtraOf

\* How many stages have ended.
EndedStages ==
    /\ Len(snapshots) \in 0..6
    /\ Len(snapshots) = 0 <=> stage = "change"
    /\ stage = "dislodge" => Len(snapshots) = 1
    /\ stage = "assign" => Len(snapshots) = 2
    /\ stage = "search" => Len(snapshots) = 3
    /\ stage = "repair" => Len(snapshots) = 4
    /\ stage = "extra" => Len(snapshots) = 5
    /\ stage \in {"verify", "audit", "done"} => Len(snapshots) = 6

HeldBefore ==
    /\ stage = "change" => /\ frozen = FrozenBy(input)
                           /\ \A g \in frozen : Place(games, g) = {Base[g]}
    /\ stage \in EarlyStages \ {"change"} =>
         \A g \in HeldSince : g \in frozen /\ Place(games, g) = HeldSlot(g)

\* What the caller's stage found, and that it alone has written since.
SinceExtra ==
    /\ \A g \in HeldSince : Place(snapshots[5].at, g) = HeldSlot(g)
    /\ snapshots[5].len <= Len(moves)
    /\ \A i \in (snapshots[5].len + 1)..Len(moves) : moves[i].stage = "extra"

HeldAfter ==
    /\ stage \in {"extra", "verify", "audit", "done"} => SinceExtra
    /\ stage \in {"verify", "audit", "done"} =>
         snapshots[6].at = games /\ snapshots[6].len = Len(moves)

ReportedHeld ==
    \A g \in HeldSince \cap ids : \/ Place(games, g) = HeldSlot(g)
                                  \/ "bypassed" \in blocking
                                  \/ MovedByExtra(g)

HeldInv ==
    /\ EndedStages /\ HeldBefore /\ HeldAfter
    /\ stage # "change" => snapshots[1].len <= Len(moves)
    /\ stage = "done" => ReportedHeld

LEMMA HeldInit == Init => HeldInv
<1> SUFFICES ASSUME Init PROVE HeldInv
  OBVIOUS
<1>1. /\ stage = "change" /\ snapshots = <<>> /\ frozen = FrozenBy(input)
      /\ input \in Inputs /\ games = Base
  BY DEF Init, Base
<1>2. DOMAIN games = Games /\ frozen \subseteq Games
  BY <1>1, InputFacts DEF FrozenBy
<1>3. \A g \in frozen : Place(games, g) = {Base[g]}
  BY <1>1, <1>2 DEF Place
<1>4. Len(snapshots) = 0
  BY <1>1
<1>. QED  BY <1>1, <1>3, <1>4 DEF HeldInv, EndedStages, HeldBefore, HeldAfter, EarlyStages

\* Entries once in the ledger stay.
LEMMA LedgerKeeps ==
    ASSUME RunInv, [Next]_vars
    PROVE  /\ Len(moves) \in Nat /\ Len(moves') \in Nat /\ Len(moves) <= Len(moves')
           /\ Len(moves') <= Len(moves) + 1
           /\ \A i \in 1..Len(moves) : moves'[i] = moves[i]
           /\ Len(moves') > Len(moves) => moves'[Len(moves')].stage = stage
<1>1. moves \in Seq(Entry) /\ Len(moves) \in Nat
  BY DEF RunInv
<1>2. ASSUME NEW e \in Entry, moves' = Append(moves, e), e.stage = stage
      PROVE  /\ Len(moves') = Len(moves) + 1 /\ moves'[Len(moves')].stage = stage
             /\ \A i \in 1..Len(moves) : moves'[i] = moves[i]
  BY <1>1, <1>2
<1>. QED  BY <1>1, <1>2, LedgerGrows

\* Where a game is held does not change once the change stage is over.
LEMMA HeldConstant ==
    ASSUME RunInv, [Next]_vars, HeldInv, stage # "change"
    PROVE  HeldSince' = HeldSince /\ \A g : HeldSlot(g)' = HeldSlot(g)
<1>1. input' = input
  BY ExtraGrows
<1>2. Len(snapshots) \in Nat /\ Len(snapshots) >= 1 /\ snapshots[1].len <= Len(moves)
  BY DEF HeldInv, EndedStages
<1>3. snapshots'[1] = snapshots[1]
  <2>1. ASSUME NEW g \in Games, ExtraOf(g) PROVE UNCHANGED snapshots
    BY <2>1, ExtraFacts DEF ExtraEffect
  <2>2. EndStage => \A i \in 1..Len(snapshots) : snapshots'[i] = snapshots[i]
    BY EndStageFacts
  <2>3. Verify \/ Audit => UNCHANGED snapshots
    BY DEF Verify, Audit
  <2>. QED  BY <1>2, <2>1, <2>2, <2>3, StepShape
<1>4. snapshots[1].len \in Nat
  <2>1. snapshots[1] \in Snapshot
    BY <1>2 DEF RunInv
  <2>. QED  BY <2>1 DEF Snapshot
<1>5. \A i \in 1..snapshots[1].len : moves'[i] = moves[i]
  BY <1>2, <1>4, LedgerKeeps
<1>6. HeldSince' = HeldSince
  BY <1>1, <1>3, <1>5 DEF HeldSince
<1>. QED  BY <1>1, <1>3, <1>6 DEF HeldSlot, Base, Place

\* The end of the change stage is when the held games are settled.
LEMMA ChangeEnds ==
    ASSUME RunInv, HeldInv, EndStage, stage = "change"
    PROVE  HeldInv'
<1>1. /\ UNCHANGED <<input, board>> /\ Len(snapshots) = 0 /\ frozen = FrozenBy(input)
      /\ \A g \in frozen : Place(games, g) = {Base[g]}
  BY DEF HeldInv, EndedStages, HeldBefore, EndStage
<1>2. /\ Len(snapshots') = 1 /\ snapshots'[1].at = games /\ snapshots'[1].len = Len(moves)
      /\ stage' = "dislodge" /\ frozen \subseteq frozen'
  BY <1>1, EndStageFacts, StageOrder DEF EndStage
<1>3. input.hold => frozen' = frozen \cup {moves[i].game : i \in 1..Len(moves)}
  BY DEF EndStage, Pin
<1>4. moves' = moves /\ games' = games /\ input' = input
  BY <1>1 DEF board
<1>5. HeldSince' \subseteq frozen'
  BY <1>1, <1>2, <1>3, <1>4 DEF HeldSince
<1>6. \A g \in HeldSince' : Place(games', g) = HeldSlot(g)'
  BY <1>1, <1>2, <1>4 DEF HeldSlot, Base, Place
<1>7. Len(moves) \in Nat
  BY DEF RunInv
<1>8. EndedStages' /\ HeldBefore' /\ HeldAfter'
  BY <1>2, <1>5, <1>6 DEF EndedStages, HeldBefore, HeldAfter, EarlyStages
<1>. QED  BY <1>2, <1>4, <1>7, <1>8 DEF HeldInv

LEMMA StageEnds ==
    ASSUME RunInv, [Next]_vars, HeldInv, EndStage, stage # "change"
    PROVE  HeldInv'
<1>1. /\ UNCHANGED <<input, board, extra>> /\ stage' = After(stage)
      /\ stage \in {"dislodge", "assign", "search", "repair", "extra"}
  BY DEF EndStage
<1>2. /\ Len(snapshots') = Len(snapshots) + 1
      /\ snapshots'[Len(snapshots')].at = games /\ snapshots'[Len(snapshots')].len = Len(moves)
      /\ \A i \in 1..Len(snapshots) : snapshots'[i] = snapshots[i]
      /\ frozen' = frozen
  BY <1>1, EndStageFacts
<1>3. moves' = moves /\ games' = games
  BY <1>1 DEF board
<1>4. HeldSince' = HeldSince /\ \A g : HeldSlot(g)' = HeldSlot(g)
  BY HeldConstant
<1>5. /\ Len(snapshots) \in 1..5
      /\ \/ stage = "dislodge" /\ stage' = "assign" /\ Len(snapshots) = 1
         \/ stage = "assign" /\ stage' = "search" /\ Len(snapshots) = 2
         \/ stage = "search" /\ stage' = "repair" /\ Len(snapshots) = 3
         \/ stage = "repair" /\ stage' = "extra" /\ Len(snapshots) = 4
         \/ stage = "extra" /\ stage' = "verify" /\ Len(snapshots) = 5
  <2>1. EndedStages
    BY DEF HeldInv
  <2>2. CASE stage = "dislodge"
    BY <1>1, <2>1, <2>2, StageOrder DEF EndedStages
  <2>3. CASE stage = "assign"
    BY <1>1, <2>1, <2>3, StageOrder DEF EndedStages
  <2>4. CASE stage = "search"
    BY <1>1, <2>1, <2>4, StageOrder DEF EndedStages
  <2>5. CASE stage = "repair"
    BY <1>1, <2>1, <2>5, StageOrder DEF EndedStages
  <2>6. CASE stage = "extra"
    BY <1>1, <2>1, <2>6, StageOrder DEF EndedStages
  <2>. QED  BY <1>1, <2>2, <2>3, <2>4, <2>5, <2>6
<1> DEFINE n == Len(snapshots)
           m == Len(snapshots')
<1>6. /\ m = n + 1 /\ n \in 1..5 /\ m \in 2..6
      /\ n = 4 => m = 5
      /\ n = 5 <=> m = 6
  <2>1. m = n + 1 /\ n \in 1..5
    BY <1>2, <1>5
  <2> HIDE DEF n, m
  <2>. QED  BY <2>1
<1>7. \/ stage = "dislodge" /\ stage' = "assign" /\ m = 2
      \/ stage = "assign" /\ stage' = "search" /\ m = 3
      \/ stage = "search" /\ stage' = "repair" /\ m = 4
      \/ stage = "repair" /\ stage' = "extra" /\ m = 5
      \/ stage = "extra" /\ stage' = "verify" /\ m = 6
  <2>1. \/ stage = "dislodge" /\ stage' = "assign" /\ n = 1
        \/ stage = "assign" /\ stage' = "search" /\ n = 2
        \/ stage = "search" /\ stage' = "repair" /\ n = 3
        \/ stage = "repair" /\ stage' = "extra" /\ n = 4
        \/ stage = "extra" /\ stage' = "verify" /\ n = 5
    BY <1>5
  <2> HIDE DEF n, m
  <2>. QED  BY <2>1, <1>6
<1>8. EndedStages'
  BY <1>6, <1>7 DEF EndedStages
<1>9. snapshots'[1].len <= Len(moves')
  BY <1>2, <1>3, <1>5 DEF HeldInv
<1>10. Len(moves) \in Nat
  BY DEF RunInv
<1>11. CASE stage \in {"dislodge", "assign", "search"}
  <2>1. stage' \in {"assign", "search", "repair"}
    BY <1>1, <1>11, StageOrder
  <2>2. HeldBefore' /\ HeldAfter'
    BY <1>2, <1>3, <1>4, <1>11, <2>1 DEF HeldInv, HeldBefore, HeldAfter, EarlyStages
  <2>. QED  BY <1>8, <1>9, <2>1, <2>2 DEF HeldInv
<1>12. CASE stage = "repair"
  <2>1. stage' = "extra" /\ Len(snapshots') = 5
    BY <1>12, <1>7
  <2>2. \A g \in HeldSince : Place(games, g) = HeldSlot(g)
    BY <1>12 DEF HeldInv, HeldBefore, EarlyStages
  <2>3. /\ \A g \in HeldSince' : Place(snapshots'[5].at, g) = HeldSlot(g)'
        /\ snapshots'[5].len <= Len(moves')
        /\ \A i \in (snapshots'[5].len + 1)..Len(moves') : moves'[i].stage = "extra"
    <3>1. snapshots'[5].at = games /\ snapshots'[5].len = Len(moves)
      BY <1>2, <2>1
    <3>2. \A i \in (Len(moves) + 1)..Len(moves) : FALSE
      BY <1>10
    <3>. QED  BY <1>3, <1>4, <1>10, <2>2, <3>1, <3>2
  <2>4. SinceExtra'
    BY <2>3 DEF SinceExtra, Place
  <2>. QED  BY <1>8, <1>9, <2>1, <2>4 DEF HeldInv, HeldBefore, HeldAfter, EarlyStages
<1>13. CASE stage = "extra"
  <2>1. stage' = "verify" /\ Len(snapshots') = 6 /\ snapshots'[5] = snapshots[5]
    <3>1. stage' = "verify" /\ m = 6
      BY <1>13, <1>7
    <3>2. n = 5
      BY <1>6, <3>1
    <3>. QED  BY <1>2, <3>1, <3>2
  <2>2. SinceExtra
    BY <1>13 DEF HeldInv, HeldAfter
  <2>3. SinceExtra'
    BY <1>3, <1>4, <2>1, <2>2 DEF SinceExtra, Place
  <2>4. snapshots'[6].at = games' /\ snapshots'[6].len = Len(moves')
    BY <1>2, <1>3, <2>1
  <2>. QED  BY <1>8, <1>9, <2>1, <2>3, <2>4 DEF HeldInv, HeldBefore, HeldAfter, EarlyStages
<1>. QED  BY <1>1, <1>11, <1>12, <1>13

\* The audit, at the end: a held game that has moved differs between the last
\* two snapshots, and a move of the ledger between them is the caller's.
LEMMA AuditCompares ==
    ASSUME RunInv, HeldInv, Audit
    PROVE  ReportedHeld'
<1>1. /\ stage = "audit" /\ UNCHANGED <<params, board, snapshots>>
      /\ ids # {} => AuditDeltas \subseteq blocking'
  BY DEF Audit, InStage
<1>2. UNCHANGED <<input, ids, games, moves>>
  BY <1>1 DEF params, board
<1>3. SUFFICES ASSUME NEW g \in HeldSince \cap ids, Place(games, g) # HeldSlot(g),
                      ~MovedByExtra(g)
               PROVE  "bypassed" \in blocking'
  <2>1. HeldSince' = HeldSince /\ \A g : HeldSlot(g)' = HeldSlot(g)
    BY <1>1, <1>2 DEF HeldSince, HeldSlot, Place, Base
  <2>2. \A g : /\ MovedByExtra(g)' <=> MovedByExtra(g)
               /\ Place(games', g) = Place(games, g)
    BY <1>2 DEF MovedByExtra, Place
  <2>3. SUFFICES ASSUME NEW g \in HeldSince \cap ids, Place(games', g) # HeldSlot(g)',
                        ~MovedByExtra(g)'
                 PROVE  "bypassed" \in blocking'
    BY <1>2, <2>1 DEF ReportedHeld, Place
  <2>. QED  BY <2>1, <2>2, <2>3
<1>4. /\ Len(snapshots) = 6 /\ SinceExtra
      /\ snapshots[6].at = games /\ snapshots[6].len = Len(moves)
  BY <1>1 DEF HeldInv, EndedStages, HeldAfter
<1>5. Place(snapshots[5].at, g) # Place(snapshots[6].at, g)
  BY <1>3, <1>4 DEF SinceExtra
<1>6. g \in Wrote(6)
  BY <1>3, <1>5 DEF Wrote
<1>7. snapshots[5].len \in Nat /\ Len(moves) \in Nat
  <2>1. snapshots[5] \in Snapshot
    <3>1. 5 \in 1..Len(snapshots) /\ snapshots \in Seq(Snapshot)
      BY <1>4 DEF RunInv
    <3>. QED  BY <3>1
  <2>. QED  BY <2>1 DEF Snapshot, RunInv
<1>8. \A i \in (snapshots[5].len + 1)..Len(moves) : moves[i].game # g
  <2>1. SUFFICES ASSUME NEW i \in (snapshots[5].len + 1)..Len(moves), moves[i].game = g
                 PROVE  FALSE
    OBVIOUS
  <2>2. moves[i].stage = "extra" /\ i \in 1..Len(moves)
    BY <1>4, <1>7, <2>1 DEF SinceExtra
  <2>. QED  BY <1>3, <2>1, <2>2 DEF MovedByExtra
<1>9. g \notin Window(6)
  BY <1>4, <1>8 DEF Window
<1>10. 6 \in DOMAIN snapshots
  BY <1>4 DEF RunInv
<1>11. "bypassed" \in AuditDeltas
  BY <1>6, <1>9, <1>10 DEF AuditDeltas
<1>. QED  BY <1>1, <1>3, <1>11

LEMMA HeldStep == RunInv /\ GateInv /\ HeldInv /\ [Next]_vars => HeldInv'
<1> SUFFICES ASSUME RunInv, GateInv, HeldInv, [Next]_vars PROVE HeldInv'
  OBVIOUS
<1>1. CASE EndStage
  BY <1>1, ChangeEnds, StageEnds
<1>2. CASE stage = "change" /\ UNCHANGED <<params, stage, snapshots, extra>>
  <2>1. frozen' = frozen /\ input' = input /\ extra' = extra
    BY <1>2 DEF params
  <2>2. \A g \in frozen : Place(games', g) = Place(games, g)
    BY <2>1, StepStaysPut DEF StaysPut
  <2>3. \A g \in frozen' : Place(games', g) = {Base[g]}
    BY <1>2, <2>1, <2>2 DEF HeldInv, HeldBefore
  <2>. QED  BY <1>2, <2>1, <2>3
       DEF HeldInv, EndedStages, HeldBefore, HeldAfter, EarlyStages, Base, Place, FrozenBy
<1>3. CASE stage \in EarlyStages \ {"change"} /\ UNCHANGED <<params, stage, snapshots, extra>>
  <2>1. HeldSince' = HeldSince /\ \A g : HeldSlot(g)' = HeldSlot(g)
    BY <1>3, HeldConstant
  <2>2. \A g \in frozen : g \in frozen' /\ Place(games', g) = Place(games, g)
    BY <1>3, StepStaysPut DEF StaysPut
  <2>3. \A g \in HeldSince : g \in frozen /\ Place(games, g) = HeldSlot(g)
    BY <1>3 DEF HeldInv, HeldBefore
  <2>4. \A g \in HeldSince' : g \in frozen' /\ Place(games', g) = HeldSlot(g)'
    BY <2>1, <2>2, <2>3
  <2>5. snapshots'[1].len <= Len(moves')
    <3>1. snapshots[1] \in Snapshot
      BY <1>3 DEF HeldInv, EndedStages, RunInv
    <3>. QED  BY <1>3, <3>1, LedgerKeeps DEF HeldInv, Snapshot
  <2>6. HeldBefore'
    BY <1>3, <2>4 DEF HeldBefore, Place
  <2>. QED  BY <1>3, <2>5, <2>6 DEF HeldInv, EndedStages, HeldAfter, EarlyStages
<1>4. ASSUME stage \in {"extra", "verify", "audit", "done"}, UNCHANGED snapshots,
             stage \in {"extra", "verify", "audit", "done"} => stage' = stage \/ moves' = moves,
             moves' = moves \/ stage = "extra"
      PROVE  SinceExtra' /\ snapshots'[1].len <= Len(moves')
  <2>1. HeldSince' = HeldSince /\ \A g : HeldSlot(g)' = HeldSlot(g)
    BY <1>4, HeldConstant
  <2>2. SinceExtra /\ Len(snapshots) \in 5..6 /\ snapshots[1].len <= Len(moves)
    BY <1>4 DEF HeldInv, HeldAfter, EndedStages
  <2>3. snapshots[1] \in Snapshot /\ snapshots[5] \in Snapshot
    BY <2>2 DEF RunInv
  <2>4. snapshots[1].len \in Nat /\ snapshots[5].len \in Nat
    BY <2>3 DEF Snapshot
  <2>5. \A i \in (snapshots[5].len + 1)..Len(moves') : moves'[i].stage = "extra"
    <3>1. CASE moves' = moves
      BY <2>2, <3>1 DEF SinceExtra
    <3>2. CASE stage = "extra"
      <4>1. SUFFICES ASSUME NEW i \in (snapshots[5].len + 1)..Len(moves')
                     PROVE  moves'[i].stage = "extra"
        OBVIOUS
      <4>2. CASE i <= Len(moves)
        BY <2>2, <2>4, <4>1, <4>2, LedgerKeeps DEF SinceExtra
      <4>3. CASE i > Len(moves)
        BY <2>4, <3>2, <4>1, <4>3, LedgerKeeps
      <4>. QED  BY <2>4, <4>2, <4>3, LedgerKeeps
    <3>. QED  BY <1>4, <3>1, <3>2
  <2>6. /\ \A g \in HeldSince' : Place(snapshots'[5].at, g) = HeldSlot(g)'
        /\ snapshots'[5].len <= Len(moves') /\ snapshots'[1].len <= Len(moves')
    BY <1>4, <2>1, <2>2, <2>4, LedgerKeeps DEF SinceExtra
  <2>. QED  BY <1>4, <2>5, <2>6 DEF SinceExtra, Place
<1>5. ASSUME NEW g \in Games, ExtraOf(g) PROVE HeldInv'
  <2>1. stage = "extra" /\ UNCHANGED <<cursor, snapshots>>
    BY <1>5, ExtraFacts DEF ExtraEffect
  <2>2. stage' = stage
    BY <2>1 DEF cursor
  <2>. QED  BY <1>4, <2>1, <2>2 DEF HeldInv, EndedStages, HeldBefore, HeldAfter, EarlyStages
<1>6. CASE Verify \/ Audit
  <2>1. /\ UNCHANGED <<board, snapshots>>
        /\ \/ stage = "verify" /\ stage' = "audit"
           \/ stage = "audit" /\ stage' = "done" /\ Audit
    BY <1>6 DEF Verify, Audit, InStage
  <2>2. UNCHANGED <<games, moves>>
    BY <2>1 DEF board
  <2>3. SinceExtra' /\ snapshots'[1].len <= Len(moves')
    BY <1>4, <2>1, <2>2
  <2>4. EndedStages' /\ HeldBefore' /\ HeldAfter'
    BY <2>1, <2>2, <2>3 DEF HeldInv, EndedStages, HeldBefore, HeldAfter, EarlyStages
  <2>5. stage' = "done" => ReportedHeld'
    BY <2>1, AuditCompares
  <2>. QED  BY <2>3, <2>4, <2>5 DEF HeldInv
<1>7. CASE /\ stage \notin EarlyStages
           /\ UNCHANGED <<params, stage, snapshots, extra, games, moves, blocking>>
  <2>1. stage \in {"extra", "verify", "audit", "done"}
    BY <1>7 DEF RunInv, StageNames, EarlyStages
  <2>2. SinceExtra' /\ snapshots'[1].len <= Len(moves')
    BY <1>4, <1>7, <2>1
  <2>3. stage' = "done" => ReportedHeld'
    <3>1. HeldSince' = HeldSince /\ \A g : HeldSlot(g)' = HeldSlot(g)
      BY <2>1, HeldConstant
    <3>2. \A g : /\ MovedByExtra(g)' <=> MovedByExtra(g)
                 /\ Place(games', g) = Place(games, g)
      BY <1>7 DEF MovedByExtra, Place
    <3>3. ids' = ids /\ blocking' = blocking /\ games' = games
      BY <1>7 DEF params
    <3>4. stage' = "done" => ReportedHeld
      BY <1>7 DEF HeldInv
    <3>. QED  BY <3>1, <3>2, <3>3, <3>4 DEF ReportedHeld, Place
  <2>. QED  BY <1>7, <2>1, <2>2, <2>3 DEF HeldInv, EndedStages, HeldBefore, HeldAfter, EarlyStages
<1>. QED  BY <1>1, <1>2, <1>3, <1>5, <1>6, <1>7, StepShape

\* Whatever a caller's stage wrote of a held game beside the ledger, its
\* disposition, pin and baseline included, a run that ends with the game
\* somewhere else says so, unless the game was taken off the list or moved
\* through applyMove after it had been thawed.
THEOREM HeldGamesAreReported == Spec => []HeldOrReported
<1>1. RunInv /\ HeldInv => HeldOrReported
  BY DEF RunInv, HeldInv, ReportedHeld, HeldOrReported
<1>2. Spec => []HeldInv
  BY HeldInit, HeldStep, RunInvariant, GateInvariant, PTL DEF Spec
<1>. QED  BY <1>1, <1>2, RunInvariant, PTL

(***************************************************************************)
(* Where the games are.                                                    *)
(***************************************************************************)
LaterStages == {"search", "repair", "extra", "verify", "audit", "done"}

\* The games and what is waiting, while no caller's stage has written.
Partitioned ==
    /\ DOMAIN games \cup pending \cup unplaced = Games
    /\ DOMAIN games \cap (pending \cup unplaced) = {}
    /\ pending \cap unplaced = {}

WhereInv ==
    Untouched =>
      /\ Partitioned
      /\ pending \cap frozen = {}
      /\ stage = "change" => pending = {}
      /\ stage = "assign" => pending \subseteq todo
      /\ stage \in LaterStages => pending = {}

LEMMA WhereInit == Init => WhereInv
<1> SUFFICES ASSUME Init PROVE WhereInv
  OBVIOUS
<1>1. /\ input \in Inputs /\ games = Base /\ stage = "change"
      /\ pending = {} /\ unplaced = {}
  BY DEF Init, Base
<1>2. DOMAIN games = Games
  BY <1>1, InputFacts
<1>. QED  BY <1>1, <1>2 DEF WhereInv, Partitioned, LaterStages

LEMMA WritesKeepThePartition ==
    ASSUME RunInv, Partitioned, NEW g \in Games,
           \/ LiftOut(g) \/ TimeTbd(g)
           \/ \E s \in Slots, c \in BOOLEAN : Relocate(g, s, c)
    PROVE  Partitioned'
<1>1. CASE LiftOut(g)
  BY <1>1 DEF LiftOut, Partitioned
<1>2. CASE TimeTbd(g)
  BY <1>2 DEF TimeTbd, Partitioned
<1>3. ASSUME NEW s \in Slots, NEW c \in BOOLEAN, Relocate(g, s, c)
      PROVE  Partitioned'
  <2>1. /\ DOMAIN games' = DOMAIN games \cup {g}
        /\ pending' = pending \ {g} /\ unplaced' = unplaced \ {g}
    BY <1>3 DEF Relocate
  <2>. QED  BY <2>1 DEF Partitioned
<1>. QED  BY <1>1, <1>2, <1>3

\* An improvement leaves nobody behind.
LEMMA ImproveWhere ==
    ASSUME RunInv, Partitioned, NEW g \in Games, NEW avoid, Improve(g, avoid), pending = {}
    PROVE  Partitioned' /\ pending' = {}
<1>1. CASE UNCHANGED board
  BY <1>1 DEF board, Partitioned
<1>2. ASSUME NEW s \in LegalSlots(g, avoid), Relocate(g, s, TRUE)
      PROVE  Partitioned' /\ pending' = {}
  <2>1. s \in Slots /\ pending' = pending \ {g}
    BY <1>2, LegalFacts DEF Relocate
  <2>. QED  BY <1>2, <2>1, WritesKeepThePartition
<1>. QED  BY <1>1, <1>2, ImproveFacts

LEMMA WhereStep == RunInv /\ GateInv /\ WhereInv /\ [Next]_vars => WhereInv'
<1> SUFFICES ASSUME RunInv, GateInv, WhereInv, [Next]_vars, Untouched'
             PROVE  WhereInv'
  BY DEF WhereInv
<1>. USE DEF Untouched
<1>1. ASSUME NEW g \in Games, ExtraOf(g) PROVE FALSE
  BY <1>1, ExtraCounts
<1>2. CASE EndStage
  <2>1. UNCHANGED <<board, extra>> /\ todo = {} /\ stage' = After(stage)
    BY <1>2 DEF EndStage
  <2>2. Partitioned /\ pending \cap frozen = {}
    BY <2>1 DEF WhereInv
  <2>3. Partitioned'
    BY <2>1, <2>2 DEF board, Partitioned
  <2>4. pending' \cap frozen' = {}
    BY <1>2, <2>1, <2>2, EndStageFacts DEF WhereInv, board
  <2>5. stage' = "assign" => pending' \subseteq todo'
    BY <1>2, <2>1 DEF EndStage, Work, board
  <2>6. stage' \in LaterStages => stage \in LaterStages \cup {"assign"}
    BY <1>2, StageOrder DEF EndStage, LaterStages
  <2>7. stage' \in LaterStages => pending' = {}
    BY <2>1, <2>6 DEF WhereInv, board
  <2>. QED  BY <1>2, <2>3, <2>4, <2>5, <2>7, EndStageFacts DEF WhereInv
<1>3. ASSUME NEW g \in DOMAIN Request, ApplyChange(g) PROVE WhereInv'
  <2>1. UNCHANGED <<stage, frozen, extra>> /\ stage = "change"
    BY <1>3 DEF ApplyChange, Visited, InStage, params
  <2>2. Partitioned /\ pending = {}
    BY <2>1 DEF WhereInv
  <2>3. CASE UNCHANGED board
    BY <2>1, <2>2, <2>3 DEF board, WhereInv, Partitioned, LaterStages
  <2>4. CASE g \in Games /\ Relocate(g, Request[g], TRUE)
    <3>1. Request[g] \in Slots /\ pending' = pending \ {g}
      BY <2>4, InputFacts DEF RunInv, Relocate
    <3>2. Partitioned'
      BY <2>2, <2>4, <3>1, WritesKeepThePartition
    <3>. QED  BY <2>1, <2>2, <3>1, <3>2 DEF WhereInv, LaterStages
  <2>. QED  BY <1>3, <2>3, <2>4 DEF ApplyChange
<1>4. ASSUME NEW g \in Games, OfOneGame(g) PROVE WhereInv'
  <2>1. ASSUME LiftOut(g), g \notin frozen, stage = "dislodge", UNCHANGED <<frozen, stage, extra>>
        PROVE  WhereInv'
    <3>1. Partitioned /\ pending \cap frozen = {}
      BY <2>1 DEF WhereInv
    <3>2. Partitioned'
      BY <2>1, <3>1, WritesKeepThePartition
    <3>3. pending' = pending \cup {g}
      BY <2>1 DEF LiftOut
    <3>. QED  BY <2>1, <3>1, <3>2, <3>3 DEF WhereInv, LaterStages
  <2>2. CASE DislodgeEverything(g)
    <3>1. UNCHANGED <<frozen, stage, extra>> /\ stage = "dislodge"
      BY <2>2 DEF DislodgeEverything, Visited, InStage, params, report
    <3>2. CASE UNCHANGED board
      BY <3>1, <3>2 DEF board, WhereInv, Partitioned, LaterStages
    <3>. QED  BY <2>1, <2>2, <3>1, <3>2 DEF DislodgeEverything, MayMove
  <2>3. CASE Dislodge(g)
    <3>1. UNCHANGED <<frozen, stage, extra, board>> /\ stage = "dislodge"
      BY <2>3 DEF Dislodge, InStage, params
    <3>. QED  BY <3>1 DEF board, WhereInv, Partitioned, LaterStages
  <2>4. CASE LiftParty(g)
    <3>1. /\ UNCHANGED <<frozen, stage, extra>> /\ stage = "dislodge"
          /\ LiftOut(g) /\ g \notin frozen
      BY <2>4 DEF LiftParty, InStage, params, report, GateInv
    <3>. QED  BY <2>1, <3>1
  <2>5. CASE Assign(g)
    <3>1. UNCHANGED <<frozen, stage, extra>> /\ stage = "assign" /\ todo' = todo \ {g}
      BY <2>5 DEF Assign, Visited, InStage, params, report
    <3>2. Partitioned /\ pending \cap frozen = {} /\ pending \subseteq todo
      BY <3>1 DEF WhereInv
    <3>3. CASE g \in frozen /\ UNCHANGED board
      BY <3>1, <3>2, <3>3 DEF board, WhereInv, Partitioned, LaterStages
    <3>4. ASSUME pending' = pending \ {g}, Partitioned' PROVE WhereInv'
      BY <3>1, <3>2, <3>4 DEF WhereInv, LaterStages
    <3>5. CASE TimeTbd(g)
      <4>1. Partitioned'
        BY <3>2, <3>5, WritesKeepThePartition
      <4>. QED  BY <3>4, <3>5, <4>1 DEF TimeTbd
    <3>6. ASSUME NEW s \in LegalSlots(g, {}), Relocate(g, s, FALSE) PROVE WhereInv'
      <4>1. s \in Slots /\ pending' = pending \ {g}
        BY <3>6, LegalFacts DEF Relocate
      <4>2. Partitioned'
        BY <3>2, <3>6, <4>1, WritesKeepThePartition
      <4>. QED  BY <3>4, <4>1, <4>2
    <3>. QED  BY <2>5, <3>3, <3>5, <3>6 DEF Assign, MayMove
  <2>6. CASE Repair(g)
    <3>1. UNCHANGED <<frozen, stage, extra, board>> /\ stage = "repair"
      BY <2>6 DEF Repair, InStage, params, report
    <3>. QED  BY <3>1 DEF board, WhereInv, Partitioned, LaterStages
  <2>7. CASE Search(g) \/ RepairParty(g)
    <3>1. /\ UNCHANGED <<frozen, stage, extra>> /\ stage \in {"search", "repair"}
          /\ UNCHANGED board \/ Improve(g, {games[g]})
      BY <2>7 DEF Search, RepairParty, Visited, InStage, params, report
    <3>2. Partitioned /\ pending = {}
      BY <3>1 DEF WhereInv, LaterStages
    <3>3. Partitioned' /\ pending' = {}
      BY <3>1, <3>2, ImproveWhere DEF board, Partitioned
    <3>. QED  BY <3>1, <3>3 DEF WhereInv, LaterStages
  <2>. QED  BY <1>4, <2>2, <2>3, <2>4, <2>5, <2>6, <2>7 DEF OfOneGame
<1>5. CASE Verify \/ Audit
  <2>1. UNCHANGED <<board, frozen, extra>> /\ stage \in LaterStages
        /\ stage' \in LaterStages \ {"change", "assign"}
    BY <1>5 DEF Verify, Audit, InStage, params, LaterStages
  <2>. QED  BY <2>1 DEF board, WhereInv, Partitioned, LaterStages
<1>6. CASE UNCHANGED <<params, board, cursor, extra>>
  BY <1>6 DEF params, board, cursor, WhereInv, Partitioned
<1>. QED  BY <1>1, <1>2, <1>3, <1>4, <1>5, <1>6 DEF Next, ExtraOf, Commit, vars, report

LEMMA WhereInvariant == Spec => []WhereInv
<1>. QED  BY WhereInit, WhereStep, RunInvariant, GateInvariant, PTL DEF Spec

\* No game is lost between the stages, and none is left waiting at the end.
THEOREM NoGameLost == Spec => []ResolveInv
<1>1. RunInv /\ WhereInv => ResolveInv
  <2> SUFFICES ASSUME RunInv, WhereInv PROVE ResolveInv
    OBVIOUS
  <2>1. ResolveTypeOK
    BY BoardFacts DEF RunInv, ResolveTypeOK
  <2>2. NothingLost
    BY DEF RunInv, WhereInv, Partitioned, NothingLost, LaterStages
  <2>. QED  BY <2>1, <2>2 DEF ResolveInv
<1>. QED  BY <1>1, RunInvariant, WhereInvariant, PTL

(***************************************************************************)
(* Why a game is not where it was published.                               *)
(***************************************************************************)
ExplainInv ==
    Untouched =>
      /\ \A g \in Moved : Explained(g)
      /\ stage = "assign" => \A g \in todo \cap Games : Explained(g)
      /\ "unexplained" \notin blocking

LEMMA ExplainInit == Init => ExplainInv
<1> SUFFICES ASSUME Init PROVE ExplainInv
  OBVIOUS
<1>1. input \in Inputs /\ games = Base /\ stage = "change" /\ blocking = PlanFindings(input)
  BY DEF Init, Base
<1>2. Moved = {}
  BY <1>1, InputFacts DEF Init, Moved
<1>3. "unexplained" \notin blocking
  BY <1>1 DEF PlanFindings
<1>. QED  BY <1>1, <1>2, <1>3 DEF ExplainInv

\* A cause once in the ledger stays there.
LEMMA ExplainedStays ==
    ASSUME RunInv, UNCHANGED input, NEW g, Explained(g),
           moves' = moves \/ \E e \in Entry : moves' = Append(moves, e)
    PROVE  Explained(g)'
<1>1. CASE moves' = moves
  BY <1>1 DEF Explained, Request
<1>2. ASSUME NEW e \in Entry, moves' = Append(moves, e) PROVE Explained(g)'
  <2>1. moves \in Seq(Entry) /\ Len(moves) \in Nat
    BY DEF RunInv
  <2>2. Len(moves') = Len(moves) + 1 /\ \A i \in 1..Len(moves) : moves'[i] = moves[i]
    BY <1>2, <2>1
  <2>3. CASE g \in DOMAIN Request
    BY <2>3 DEF Explained, Request
  <2>4. ASSUME NEW i \in 1..Len(moves), moves[i].game = g /\ moves[i].cause
        PROVE  Explained(g)'
    <3>1. i \in 1..Len(moves') /\ moves'[i] = moves[i]
      BY <2>1, <2>2
    <3>. QED  BY <2>4, <3>1 DEF Explained
  <2>. QED  BY <2>3, <2>4 DEF Explained
<1>. QED  BY <1>1, <1>2

LEMMA CauseExplains ==
    ASSUME RunInv, NEW e \in Entry, moves' = Append(moves, e), e.cause
    PROVE  Explained(e.game)'
<1>1. moves \in Seq(Entry) /\ Len(moves) \in Nat
  BY DEF RunInv
<1>2. Len(moves') \in 1..Len(moves') /\ moves'[Len(moves')] = e
  BY <1>1
<1>. QED  BY <1>2 DEF Explained

\* A write leaves every moved game explained when it gives a cause, or when
\* the game it moves was explained before.
LEMMA WriteExplains ==
    ASSUME RunInv, UNCHANGED <<input, baseline, ids>>, \A g \in Moved : Explained(g),
           NEW e \in Entry, moves' = Append(moves, e), e.cause \/ Explained(e.game),
           \A h : h # e.game => Place(games', h) = Place(games, h)
    PROVE  \A g \in Moved' : Explained(g)'
<1> SUFFICES ASSUME NEW g \in Moved' PROVE Explained(g)'
  OBVIOUS
<1>1. CASE g = e.game
  BY <1>1, ExplainedStays, CauseExplains
<1>2. CASE g # e.game
  <2>1. Place(games', g) = Place(games, g)
    BY <1>2
  <2>2. g \in Moved
    BY <2>1 DEF Moved, Place
  <2>. QED  BY <2>2, ExplainedStays
<1>. QED  BY <1>1, <1>2

LEMMA RelocateExplains ==
    ASSUME RunInv, UNCHANGED <<input, baseline, ids>>, \A h \in Moved : Explained(h),
           NEW g \in Games, NEW s \in Slots,
           Relocate(g, s, TRUE) \/ (Relocate(g, s, FALSE) /\ Explained(g))
    PROVE  /\ \A h \in Moved' : Explained(h)'
           /\ \A h : Explained(h) => Explained(h)'
<1>1. ASSUME Relocate(g, s, TRUE)
      PROVE  /\ \A h \in Moved' : Explained(h)'
             /\ \A h : Explained(h) => Explained(h)'
  <2> DEFINE e == [stage |-> stage, game |-> g, cause |-> TRUE]
  <2>1. e \in Entry /\ e.game = g /\ e.cause
    BY DEF Entry, RunInv
  <2>2. moves' = Append(moves, e)
    BY <1>1 DEF Relocate, Logged
  <2>3. \A h : h # g => Place(games', h) = Place(games, h)
    BY <1>1, OthersStay
  <2> HIDE DEF e
  <2>. QED  BY <2>1, <2>2, <2>3, WriteExplains, ExplainedStays
<1>2. ASSUME Relocate(g, s, FALSE), Explained(g)
      PROVE  /\ \A h \in Moved' : Explained(h)'
             /\ \A h : Explained(h) => Explained(h)'
  <2> DEFINE e == [stage |-> stage, game |-> g, cause |-> FALSE]
  <2>1. e \in Entry /\ e.game = g
    BY DEF Entry, RunInv
  <2>2. moves' = Append(moves, e)
    BY <1>2 DEF Relocate, Logged
  <2>3. \A h : h # g => Place(games', h) = Place(games, h)
    BY <1>2, OthersStay
  <2> HIDE DEF e
  <2>. QED  BY <1>2, <2>1, <2>2, <2>3, WriteExplains, ExplainedStays
<1>. QED  BY <1>1, <1>2

LEMMA LiftExplains ==
    ASSUME RunInv, UNCHANGED <<input, baseline, ids>>, \A h \in Moved : Explained(h),
           NEW g \in Games, LiftOut(g) \/ (TimeTbd(g) /\ Explained(g))
    PROVE  /\ \A h \in Moved' : Explained(h)'
           /\ \A h : Explained(h) => Explained(h)'
<1>1. ASSUME LiftOut(g)
      PROVE  /\ \A h \in Moved' : Explained(h)'
             /\ \A h : Explained(h) => Explained(h)'
  <2> DEFINE e == [stage |-> stage, game |-> g, cause |-> TRUE]
  <2>1. e \in Entry /\ e.game = g /\ e.cause
    BY DEF Entry, RunInv
  <2>2. moves' = Append(moves, e)
    BY <1>1 DEF LiftOut, Logged
  <2>3. \A h : h # g => Place(games', h) = Place(games, h)
    BY <1>1, OthersStay
  <2> HIDE DEF e
  <2>. QED  BY <2>1, <2>2, <2>3, WriteExplains, ExplainedStays
<1>2. ASSUME TimeTbd(g), Explained(g)
      PROVE  /\ \A h \in Moved' : Explained(h)'
             /\ \A h : Explained(h) => Explained(h)'
  <2> DEFINE e == [stage |-> stage, game |-> g, cause |-> FALSE]
  <2>1. e \in Entry /\ e.game = g
    BY DEF Entry, RunInv
  <2>2. moves' = Append(moves, e)
    BY <1>2 DEF TimeTbd, Logged
  <2>3. \A h : h # g => Place(games', h) = Place(games, h)
    BY <1>2, OthersStay
  <2> HIDE DEF e
  <2>. QED  BY <1>2, <2>1, <2>2, <2>3, WriteExplains, ExplainedStays
<1>. QED  BY <1>1, <1>2

LEMMA ExplainStep == RunInv /\ WhereInv /\ ExplainInv /\ [Next]_vars => ExplainInv'
<1> SUFFICES ASSUME RunInv, WhereInv, ExplainInv, [Next]_vars, Untouched'
             PROVE  ExplainInv'
  BY DEF ExplainInv
<1>. USE DEF Untouched
<1>1. ASSUME NEW g \in Games, ExtraOf(g) PROVE FALSE
  BY <1>1, ExtraCounts
<1>2. CASE UNCHANGED <<params, board>> /\ ~EndStage
  <2>1. Moved' = Moved /\ \A g : Explained(g)' <=> Explained(g)
    BY <1>2 DEF params, board, Moved, Explained, Request
  <2>2. CASE Audit
    <3>1. UNCHANGED extra /\ stage' = "done"
          /\ blocking' \subseteq blocking \cup AuditHeld \cup AuditDeltas
                             \cup ReportFindings \cup {"vacuous"}
      BY <2>2 DEF Audit
    <3>2. "unexplained" \notin AuditHeld /\ "unexplained" \notin AuditDeltas
      BY DEF AuditHeld, AuditDeltas
    <3>3. "unexplained" \notin ReportFindings
      BY <3>1 DEF ReportFindings, ExplainInv
    <3>. QED  BY <2>1, <3>1, <3>2, <3>3 DEF ExplainInv
  <2>3. CASE /\ stage' = "assign" => stage = "assign" /\ todo' \subseteq todo
             /\ UNCHANGED extra
             /\ blocking' \subseteq blocking \cup {"unknown-game", "refused", "unsatisfiable"}
    BY <2>1, <2>3 DEF ExplainInv
  <2>4. ASSUME NEW g \in DOMAIN Request, ApplyChange(g) PROVE ExplainInv'
    BY <2>3, <2>4 DEF ApplyChange, Visited, InStage
  <2>5. ASSUME NEW g \in Games, OfOneGame(g) PROVE ExplainInv'
    BY <2>3, <2>5 DEF OfOneGame, DislodgeEverything, Dislodge, LiftParty, Assign, Search,
       Repair, RepairParty, Unsatisfiable, Visited, InStage, report
  <2>6. CASE Verify \/ \E accepted \in SUBSET blocking : Commit(accepted)
    BY <2>3, <2>6 DEF Verify, Commit, cursor
  <2>7. CASE UNCHANGED vars
    BY <2>3, <2>7 DEF vars, cursor, report
  <2>. QED  BY <1>1, <1>2, <2>2, <2>4, <2>5, <2>6, <2>7 DEF Next, ExtraOf
<1>3. ASSUME NEW g \in DOMAIN Request, ApplyChange(g), g \in Games, Relocate(g, Request[g], TRUE),
             UNCHANGED blocking
      PROVE  ExplainInv'
  <2>1. /\ UNCHANGED <<input, baseline, ids, stage, extra, blocking>> /\ stage = "change"
    BY <1>3 DEF ApplyChange, Visited, InStage, params
  <2>2. Request[g] \in Slots
    BY InputFacts DEF RunInv
  <2>. QED  BY <1>3, <2>1, <2>2, RelocateExplains DEF ExplainInv
<1>4. ASSUME NEW g \in Games, UNCHANGED <<input, baseline, ids, stage, extra, blocking>>, stage # "assign",
             \/ LiftOut(g)
             \/ \E s \in Slots : Relocate(g, s, TRUE)
      PROVE  ExplainInv'
  BY <1>4, LiftExplains, RelocateExplains DEF ExplainInv
<1>5. ASSUME NEW g \in Games, Assign(g), ~UNCHANGED <<params, board>> PROVE ExplainInv'
  <2>1. /\ UNCHANGED <<input, baseline, ids, stage, extra, blocking>> /\ stage = "assign"
        /\ g \in todo /\ todo' = todo \ {g}
        /\ \/ TimeTbd(g)
           \/ \E s \in LegalSlots(g, {}) : Relocate(g, s, FALSE)
    BY <1>5 DEF Assign, Visited, Visiting, InStage, params, report
  <2>2. Explained(g) /\ \A h \in Moved : Explained(h)
    BY <2>1 DEF ExplainInv
  <2>3. /\ \A h \in Moved' : Explained(h)'
        /\ \A h : Explained(h) => Explained(h)'
    BY <2>1, <2>2, LegalFacts, LiftExplains, RelocateExplains
  <2>. QED  BY <2>1, <2>3 DEF ExplainInv
<1>6. ASSUME NEW g \in Games, OfOneGame(g), ~UNCHANGED <<params, board>> PROVE ExplainInv'
  <2>1. CASE DislodgeEverything(g)
    <3>1. UNCHANGED <<input, baseline, ids, stage, extra, blocking>> /\ stage = "dislodge" /\ LiftOut(g)
      BY <1>6, <2>1 DEF DislodgeEverything, Visited, InStage, params, report
    <3>. QED  BY <1>4, <3>1
  <2>2. CASE Dislodge(g) \/ Repair(g)
    BY <1>6, <2>2 DEF Dislodge, Repair
  <2>3. CASE LiftParty(g)
    <3>1. UNCHANGED <<input, baseline, ids, stage, extra, blocking>> /\ stage = "dislodge" /\ LiftOut(g)
      BY <2>3 DEF LiftParty, InStage, params, report
    <3>. QED  BY <1>4, <3>1
  <2>4. CASE Search(g) \/ RepairParty(g)
    <3>1. /\ UNCHANGED <<input, baseline, ids, stage, extra, blocking>> /\ stage \in {"search", "repair"}
          /\ Improve(g, {games[g]}) /\ ~UNCHANGED board
      BY <1>6, <2>4 DEF Search, RepairParty, Visited, InStage, params, report
    <3>2. \E s \in Slots : Relocate(g, s, TRUE)
      BY <3>1, ImproveFacts, LegalFacts
    <3>. QED  BY <1>4, <3>1, <3>2
  <2>. QED  BY <1>5, <1>6, <2>1, <2>2, <2>3, <2>4 DEF OfOneGame
<1>7. ASSUME EndStage PROVE ExplainInv'
  <2>1. UNCHANGED <<input, baseline, ids, board, extra, blocking>>
    BY <1>7 DEF EndStage
  <2>2. Moved' = Moved /\ \A g : Explained(g)' <=> Explained(g)
    BY <2>1 DEF board, Moved, Explained, Request
  <2>3. stage' = "assign" => todo' = pending
    BY <1>7 DEF EndStage, Work
  <2>4. pending \cap Games \subseteq Moved
    BY <2>1 DEF RunInv, WhereInv, Partitioned, Moved
  <2>. QED  BY <2>1, <2>2, <2>3, <2>4 DEF ExplainInv
<1>8. ASSUME NEW g \in DOMAIN Request, ApplyChange(g), ~EndStage PROVE ExplainInv'
  <2>1. UNCHANGED <<params, board>> \/ (g \in Games /\ Relocate(g, Request[g], TRUE) /\ UNCHANGED blocking)
    BY <1>8 DEF ApplyChange
  <2>. QED  BY <1>2, <1>3, <1>8, <2>1
<1>9. CASE /\ ~EndStage
           /\ \/ Verify \/ Audit \/ UNCHANGED vars
              \/ \E accepted \in SUBSET blocking : Commit(accepted)
  BY <1>2, <1>9 DEF Verify, Audit, Commit, vars
<1>. QED  BY <1>1, <1>2, <1>6, <1>7, <1>8, <1>9 DEF Next, ExtraOf

LEMMA ExplainInvariant == Spec => []ExplainInv
<1>. QED  BY ExplainInit, ExplainStep, RunInvariant, WhereInvariant, PTL DEF Spec

\* Every game that is not where it was published was asked for or has a cause
\* in the ledger.
THEOREM EveryMoveHasACause == Spec => []NoUnexplainedMove
<1>1. ExplainInv => NoUnexplainedMove
  BY DEF ExplainInv, NoUnexplainedMove
<1>. QED  BY <1>1, ExplainInvariant, PTL

(***************************************************************************)
(* A clean schedule stays clean.                                           *)
(***************************************************************************)
Clash(s, t) ==
    /\ Concurrent(s, t)
    /\ s.surface = t.surface \/ SurfacesConflict(s.surface, t.surface)

LEMMA ClashIsMutual == \A s, t : Clash(s, t) <=> Clash(t, s)
<1>1. \A s, t : Concurrent(s, t) <=> Concurrent(t, s)
  BY DEF Concurrent
<1>2. \A a, b : SurfacesConflict(a, b) <=> SurfacesConflict(b, a)
  BY DEF SurfacesConflict
<1>. QED  BY <1>1, <1>2, Zenon DEF Clash

LEMMA CounterpartsClash ==
    ASSUME NEW g, NEW s, NEW at
    PROVE  Counterparts(g, s, at) = {h \in DOMAIN at \ {g} : Clash(at[h], s)}
  BY DEF Counterparts, OnSameSurface, OnSharedGround, Clash

\* Against a clean baseline a game is illegal where it clashes or is shut out.
LEMMA GrownWhenClean ==
    ASSUME CleanChange, NEW g \in Games, NEW s, NEW at \in Boards
    PROVE  Grown(g, s, at) <=> Counterparts(g, s, at) # {} \/ s \in Shut
<1>1. /\ OnSameSurface(g, Base[g], Base) = {} /\ OnSharedGround(g, Base[g], Base) = {}
      /\ Base[g] \notin Shut
  BY DEF CleanChange, Counterparts
<1>2. /\ Cardinality(OnSameSurface(g, Base[g], Base)) = 0
      /\ Cardinality(OnSharedGround(g, Base[g], Base)) = 0
  BY <1>1, FS_EmptySet
<1>3. DOMAIN at \subseteq Games
  BY BoardFacts
<1>4. /\ OnSameSurface(g, s, at) \in SUBSET Games
      /\ OnSharedGround(g, s, at) \in SUBSET Games
  BY <1>3 DEF OnSameSurface, OnSharedGround
<1>5. \A S \in SUBSET Games : Cardinality(S) \in Nat /\ (Cardinality(S) = 0 <=> S = {})
  BY ResolveAssumption, FS_Subset, FS_CardinalityType, FS_EmptySet
<1>6. \A S \in SUBSET Games : Cardinality(S) > 0 <=> S # {}
  BY <1>5
<1>7. /\ Cardinality(OnSameSurface(g, s, at)) > 0 <=> OnSameSurface(g, s, at) # {}
      /\ Cardinality(OnSharedGround(g, s, at)) > 0 <=> OnSharedGround(g, s, at) # {}
  BY <1>4, <1>6
<1>. QED  BY <1>1, <1>2, <1>7 DEF Grown, Counterparts

\* Illegal only where nothing can be done.
Fine(g) == Grown(g, games[g], games) => Stuck(g)

LEMMA CleanConstant ==
    ASSUME UNCHANGED input
    PROVE  CleanChange' <=> CleanChange
  BY DEF CleanChange, Base

\* Taking a game off the board makes no other game illegal.
LEMMA LiftKeepsFine ==
    ASSUME CleanChange, UNCHANGED <<input, frozen>>, games \in Boards, games' \in Boards,
           NEW g, DOMAIN games' = DOMAIN games \ {g},
           \A h \in DOMAIN games \ {g} : games'[h] = games[h],
           NEW h \in DOMAIN games'
    PROVE  /\ Counterparts(h, games'[h], games') = Counterparts(h, games[h], games) \ {g}
           /\ Fine(h) => Fine(h)'
<1>1. Counterparts(h, games'[h], games') = Counterparts(h, games[h], games) \ {g}
  BY CounterpartsClash
<1>2. h \in Games /\ games'[h] = games[h]
  BY BoardFacts
<1>3. CleanChange'
  BY CleanConstant
<1>4. Grown(h, games[h], games)
        <=> Counterparts(h, games[h], games) # {} \/ games[h] \in Shut
  BY <1>2, GrownWhenClean
<1>5. Grown(h, games[h], games)'
        <=> Counterparts(h, games'[h], games') # {} \/ games'[h] \in Shut
  <2>1. Grown(h, games'[h], games')
          <=> Counterparts(h, games'[h], games') # {} \/ games'[h] \in Shut
    BY <1>2, GrownWhenClean
  <2>2. Grown(h, games[h], games)' <=> Grown(h, games'[h], games')
    BY DEF Grown, Base
  <2>. QED  BY <2>1, <2>2
<1>6. Stuck(h) => Stuck(h)'
  BY <1>1 DEF Stuck
<1>. QED  BY <1>1, <1>2, <1>4, <1>5, <1>6 DEF Fine

\* A game put where it is legal clashes with nobody, and nobody with it.
LEMMA LegalKeepsFine ==
    ASSUME CleanChange, UNCHANGED <<input, frozen>>, games \in Boards, games' \in Boards,
           NEW g \in Games, NEW s, ~Grown(g, s, games),
           DOMAIN games' = DOMAIN games \cup {g}, games'[g] = s,
           \A h \in DOMAIN games \ {g} : games'[h] = games[h],
           NEW h \in DOMAIN games', h # g => Fine(h)
    PROVE  Fine(h)'
<1>1. Counterparts(g, s, games) = {} /\ s \notin Shut
  BY GrownWhenClean
<1>2. \A k \in DOMAIN games \ {g} : ~Clash(games[k], s) /\ ~Clash(s, games[k])
  BY <1>1, CounterpartsClash, ClashIsMutual
<1>3. Grown(h, games[h], games)'
        <=> Counterparts(h, games'[h], games') # {} \/ games'[h] \in Shut
  <2>1. h \in Games
    BY BoardFacts
  <2>2. Grown(h, games'[h], games')
          <=> Counterparts(h, games'[h], games') # {} \/ games'[h] \in Shut
    BY <2>1, GrownWhenClean
  <2>3. Grown(h, games[h], games)' <=> Grown(h, games'[h], games')
    BY DEF Grown, Base
  <2>. QED  BY <2>2, <2>3
<1>4. CASE h = g
  <2>1. Counterparts(h, games'[h], games') = {}
    BY <1>2, <1>4, CounterpartsClash
  <2>. QED  BY <1>1, <1>3, <1>4, <2>1 DEF Fine
<1>5. CASE h # g
  <2>1. games'[h] = games[h] /\ h \in DOMAIN games /\ h \in Games
    BY <1>5, BoardFacts
  <2>2. Counterparts(h, games'[h], games') \subseteq Counterparts(h, games[h], games)
    BY <1>2, <1>5, <2>1, CounterpartsClash
  <2>3. Grown(h, games[h], games)
          <=> Counterparts(h, games[h], games) # {} \/ games[h] \in Shut
    BY <2>1, GrownWhenClean
  <2>4. Stuck(h) => Stuck(h)'
    BY <2>2 DEF Stuck
  <2>. QED  BY <1>3, <1>5, <2>1, <2>2, <2>3, <2>4 DEF Fine
<1>. QED  BY <1>4, <1>5

CleanInv ==
    CleanChange /\ Untouched =>
      /\ stage = "dislodge" /\ focus # NoGame =>
           /\ focus \in DOMAIN games
           /\ ({focus} \cup Counterparts(focus, games[focus], games)) \ frozen \subseteq left
      /\ stage = "dislodge" =>
           \A g \in PlacedOnTouched(games) \ todo : g = focus \/ Fine(g)
      /\ stage \in LaterStages \cup {"assign"} => \A g \in PlacedOnTouched(games) : Fine(g)

LEMMA CleanInit == Init => CleanInv
  BY DEF Init, CleanInv, LaterStages

\* What a legal write to one game does to the games on the touched dates.
LEMMA ImproveClean ==
    ASSUME RunInv, RunInv', CleanChange, UNCHANGED <<input, frozen>>,
           \A h \in PlacedOnTouched(games) : Fine(h),
           NEW g \in Games, NEW s \in Slots, ~Grown(g, s, games),
           Relocate(g, s, TRUE) \/ Relocate(g, s, FALSE)
    PROVE  \A h \in PlacedOnTouched(games') : Fine(h)'
<1>1. /\ games \in Boards /\ games' \in Boards
      /\ DOMAIN games' = DOMAIN games \cup {g} /\ games'[g] = s
      /\ \A h \in DOMAIN games \ {g} : games'[h] = games[h]
  BY RelocateType DEF RunInv
<1>2. ASSUME NEW h \in PlacedOnTouched(games') PROVE Fine(h)'
  <2>1. h \in DOMAIN games' /\ (h # g => h \in PlacedOnTouched(games))
    BY <1>1 DEF PlacedOnTouched
  <2>2. h # g => Fine(h)
    BY <2>1
  <2>. QED  BY <1>1, <2>1, <2>2, LegalKeepsFine
<1>. QED  BY <1>2

LEMMA TouchedConstant ==
    ASSUME UNCHANGED input
    PROVE  \A at : PlacedOnTouched(at)' = PlacedOnTouched(at)
  BY DEF PlacedOnTouched, Touched, Dates, Base, Request

LEMMA CleanStep == RunInv /\ RunInv' /\ GateInv /\ CleanInv /\ [Next]_vars => CleanInv'
<1> SUFFICES ASSUME RunInv, RunInv', GateInv, CleanInv, [Next]_vars,
                    CleanChange', Untouched'
             PROVE  CleanInv'
  BY DEF CleanInv
<1>. USE DEF Untouched
<1>1. UNCHANGED input /\ CleanChange
  <2>1. UNCHANGED input
    BY DEF Next, EndStage, ApplyChange, OfOneGame, DislodgeEverything, Dislodge, LiftParty,
       Assign, Search, Repair, RepairParty, ExtraThrough, ExtraAround, Verify, Audit, Commit,
       vars, params
  <2>. QED  BY <2>1, CleanConstant
<1>2. ASSUME NEW g \in Games, ExtraOf(g) PROVE FALSE
  BY <1>2, ExtraCounts
<1>3. PlacedOnTouched(games)' = PlacedOnTouched(games')
  BY <1>1, TouchedConstant
<1>4. ASSUME UNCHANGED <<frozen, games>>
      PROVE  /\ \A g : Fine(g)' <=> Fine(g)
             /\ PlacedOnTouched(games)' = PlacedOnTouched(games)
  <2>1. Base' = Base
    BY <1>1 DEF Base
  <2>2. \A g : Grown(g, games[g], games)' <=> Grown(g, games[g], games)
    BY <1>4, <2>1 DEF Grown, OnSameSurface, OnSharedGround
  <2>3. \A g : Stuck(g)' <=> Stuck(g)
    BY <1>4 DEF Stuck, Counterparts, OnSameSurface, OnSharedGround
  <2>. QED  BY <1>3, <1>4, <2>2, <2>3 DEF Fine
<1>5. ASSUME UNCHANGED <<frozen, extra>>, stage \in LaterStages \cup {"assign"},
             stage' \in LaterStages \cup {"assign"},
             \A g \in PlacedOnTouched(games') : Fine(g)'
      PROVE  CleanInv'
  BY <1>3, <1>5 DEF CleanInv, LaterStages
<1>6. CASE EndStage
  <2>1. UNCHANGED <<board, extra>> /\ todo = {} /\ focus = NoGame /\ UNCHANGED focus
    BY <1>6 DEF EndStage
  <2>2. CASE stage = "change"
    <3>1. stage' = "dislodge" /\ todo' = Work("dislodge", games, pending)
      BY <1>6, <2>2, StageOrder DEF EndStage
    <3>2. todo' = PlacedOnTouched(games)
      BY <1>1, <3>1 DEF Work, CleanChange
    <3>. QED  BY <1>3, <2>1, <3>1, <3>2 DEF CleanInv, LaterStages, board
  <2>3. CASE stage # "change"
    <3>1. frozen' = frozen
      BY <1>6, <2>3, EndStageFacts
    <3>2. \A g \in PlacedOnTouched(games) : Fine(g)
      <4>1. stage \in {"dislodge", "assign", "search", "repair", "extra"}
        BY <1>6, <2>3 DEF EndStage
      <4>2. \A g \in PlacedOnTouched(games) : g # NoGame
        BY ResolveAssumption, BoardFacts DEF PlacedOnTouched, RunInv
      <4>. QED  BY <1>1, <2>1, <4>1, <4>2 DEF CleanInv, LaterStages
    <3>3. stage' \in LaterStages \cup {"assign"}
      BY <1>6, <2>3, StageOrder DEF EndStage, LaterStages
    <3>. QED  BY <1>3, <1>4, <2>1, <3>1, <3>2, <3>3 DEF CleanInv, LaterStages, board
  <2>. QED  BY <2>2, <2>3
<1>7. ASSUME NEW g \in DOMAIN Request, ApplyChange(g) PROVE CleanInv'
  BY <1>7 DEF ApplyChange, Visited, InStage, CleanInv, LaterStages
<1>8. ASSUME NEW g \in Games, OfOneGame(g) PROVE CleanInv'
  <2>1. CASE DislodgeEverything(g)
    BY <1>1, <2>1 DEF DislodgeEverything, CleanChange
  <2>2. CASE Dislodge(g)
    <3>1. /\ UNCHANGED <<frozen, games, extra, stage>> /\ stage = "dislodge"
          /\ focus = NoGame /\ todo' = todo \ {g}
      BY <2>2 DEF Dislodge, Visiting, InStage, params, board
    <3>2. \A h \in PlacedOnTouched(games) \ todo : Fine(h)
      <4>1. \A h \in PlacedOnTouched(games) : h # NoGame
        BY ResolveAssumption, BoardFacts DEF PlacedOnTouched, RunInv
      <4>. QED  BY <1>1, <3>1, <4>1 DEF CleanInv
    <3>3. CASE g \notin DOMAIN games \/ ~Grown(g, games[g], games)
      <4>1. UNCHANGED focus
        BY <2>2, <3>3 DEF Dislodge
      <4>2. g \in PlacedOnTouched(games) => Fine(g)
        BY <3>3 DEF PlacedOnTouched, Fine
      <4>. QED  BY <1>4, <3>1, <3>2, <4>1, <4>2 DEF CleanInv, LaterStages
    <3>4. CASE g \in DOMAIN games /\ Grown(g, games[g], games)
      <4> DEFINE movable == ({g} \cup Counterparts(g, games[g], games)) \ frozen
      <4>1. IF movable # {} THEN focus' = g /\ left' = movable ELSE UNCHANGED <<focus, left>>
        <5>1. {p \in {g} \cup Counterparts(g, games[g], games) : MayMove(p)} = movable
          BY DEF MayMove
        <5>. QED  BY <2>2, <3>4, <5>1 DEF Dislodge
      <4>2. CASE movable # {}
        <5>1. Counterparts(g, games[g], games)' = Counterparts(g, games[g], games)
          BY <3>1 DEF Counterparts, OnSameSurface, OnSharedGround
        <5>2. focus' = g /\ left' = movable
          BY <4>1, <4>2
        <5>3. ({focus} \cup Counterparts(focus, games[focus], games))' \ frozen' = movable
          BY <3>1, <5>1, <5>2 DEF Counterparts, OnSameSurface, OnSharedGround
        <5>. QED  BY <1>4, <3>1, <3>2, <3>4, <5>2, <5>3 DEF CleanInv, LaterStages
      <4>3. CASE movable = {}
        <5>1. Fine(g) /\ UNCHANGED focus
          BY <4>1, <4>3 DEF Fine, Stuck
        <5>. QED  BY <1>4, <3>1, <3>2, <5>1 DEF CleanInv, LaterStages
      <4>. QED  BY <4>2, <4>3
    <3>. QED  BY <3>3, <3>4
  <2>3. CASE LiftParty(g)
    <3>1. /\ UNCHANGED <<frozen, extra, stage, todo>> /\ stage = "dislodge"
          /\ focus # NoGame /\ g \in left /\ LiftOut(g)
      BY <2>3 DEF LiftParty, InStage, params, report
    <3>2. /\ games \in Boards /\ games' \in Boards
          /\ DOMAIN games' = DOMAIN games \ {g}
          /\ \A h \in DOMAIN games \ {g} : games'[h] = games[h]
      BY <3>1, LiftType DEF RunInv
    <3>3. \A h \in DOMAIN games' :
             /\ Counterparts(h, games'[h], games') = Counterparts(h, games[h], games) \ {g}
             /\ Fine(h) => Fine(h)'
      BY <1>1, <3>1, <3>2, LiftKeepsFine
    <3>4. /\ focus \in DOMAIN games
          /\ ({focus} \cup Counterparts(focus, games[focus], games)) \ frozen \subseteq left
          /\ \A h \in PlacedOnTouched(games) \ todo : h = focus \/ Fine(h)
      BY <1>1, <3>1 DEF CleanInv
    <3>5. \A h \in PlacedOnTouched(games') \ todo : h = focus \/ Fine(h)'
      <4>1. PlacedOnTouched(games') \subseteq PlacedOnTouched(games) \cap DOMAIN games'
        BY <3>2 DEF PlacedOnTouched
      <4>. QED  BY <3>3, <3>4, <4>1
    <3>6. CASE g = focus
      <4>1. focus' = NoGame /\ \A h \in PlacedOnTouched(games') : h # focus
        BY <2>3, <3>2, <3>6 DEF LiftParty, PlacedOnTouched
      <4>. QED  BY <1>3, <3>1, <3>5, <4>1 DEF CleanInv, LaterStages
    <3>7. CASE g # focus /\ left # {g} /\ Grown(focus, games[focus], games')
      <4>1. focus' = focus /\ left' = left \ {g}
        BY <2>3, <3>7 DEF LiftParty
      <4>2. focus \in DOMAIN games'
        BY <3>2, <3>4, <3>7
      <4>3. ({focus} \cup Counterparts(focus, games[focus], games))' \ frozen' \subseteq left'
        <5>1. Counterparts(focus, games[focus], games)'
                = Counterparts(focus, games[focus], games) \ {g}
          BY <3>3, <4>1, <4>2 DEF Counterparts, OnSameSurface, OnSharedGround
        <5>. QED  BY <3>1, <3>4, <3>7, <4>1, <5>1
      <4>. QED  BY <1>3, <3>1, <3>5, <4>1, <4>2, <4>3 DEF CleanInv, LaterStages
    <3>8. CASE g # focus /\ (left = {g} \/ ~Grown(focus, games[focus], games'))
      <4>1. focus' = NoGame
        BY <2>3, <3>8 DEF LiftParty
      <4>2. focus \in DOMAIN games' /\ games'[focus] = games[focus]
        BY <3>2, <3>4, <3>8
      <4>3. Grown(focus, games'[focus], games') => left = {g}
        BY <3>8, <4>2
      <4>4. left = {g} => {focus} \cup Counterparts(focus, games'[focus], games') \subseteq frozen
        BY <3>3, <3>4, <3>8, <4>2
      <4>5. Grown(focus, games'[focus], games')
              => {focus} \cup Counterparts(focus, games'[focus], games') \subseteq frozen'
        BY <3>1, <4>3, <4>4
      <4>6. \A h : Fine(h)' <=> (Grown(h, games'[h], games')
                  => {h} \cup Counterparts(h, games'[h], games') \subseteq frozen')
        BY <1>1 DEF Fine, Stuck, Grown, Counterparts, OnSameSurface, OnSharedGround, Base
      <4>7. \A h \in PlacedOnTouched(games') \ todo : Fine(h)'
        BY <3>5, <4>5, <4>6
      <4>. QED  BY <1>3, <3>1, <4>1, <4>7 DEF CleanInv, LaterStages
    <3>. QED  BY <3>6, <3>7, <3>8
  <2>4. CASE Assign(g)
    <3>1. UNCHANGED <<frozen, extra, stage>> /\ stage = "assign"
      BY <2>4 DEF Assign, Visited, InStage, params, report
    <3>2. \A h \in PlacedOnTouched(games) : Fine(h)
      BY <1>1, <3>1 DEF CleanInv
    <3>3. CASE UNCHANGED board
      BY <1>4, <1>5, <3>1, <3>2, <3>3 DEF board
    <3>4. CASE TimeTbd(g)
      <4>1. /\ games \in Boards /\ games' \in Boards
            /\ DOMAIN games' = DOMAIN games \ {g}
            /\ \A h \in DOMAIN games \ {g} : games'[h] = games[h]
        BY <3>4, LiftType DEF RunInv
      <4>2. \A h \in DOMAIN games' : Fine(h) => Fine(h)'
        BY <1>1, <3>1, <4>1, LiftKeepsFine
      <4>3. PlacedOnTouched(games') \subseteq PlacedOnTouched(games) \cap DOMAIN games'
        BY <4>1 DEF PlacedOnTouched
      <4>. QED  BY <1>5, <3>1, <3>2, <4>2, <4>3
    <3>5. ASSUME NEW s \in LegalSlots(g, {}), Relocate(g, s, FALSE) PROVE CleanInv'
      <4>1. s \in Slots /\ ~Grown(g, s, games)
        BY LegalFacts
      <4>2. \A h \in PlacedOnTouched(games') : Fine(h)'
        BY <1>1, <3>1, <3>2, <3>5, <4>1, ImproveClean
      <4>. QED  BY <1>5, <3>1, <4>2
    <3>. QED  BY <2>4, <3>3, <3>4, <3>5 DEF Assign
  <2>5. CASE Repair(g)
    <3>1. UNCHANGED <<frozen, games, extra, stage>> /\ stage = "repair"
      BY <2>5 DEF Repair, InStage, params, board, report
    <3>. QED  BY <1>1, <1>4, <3>1 DEF CleanInv, LaterStages
  <2>6. CASE Search(g) \/ RepairParty(g)
    <3>1. /\ UNCHANGED <<frozen, extra, stage>> /\ stage \in {"search", "repair"}
          /\ UNCHANGED board \/ Improve(g, {games[g]})
      BY <2>6 DEF Search, RepairParty, Visited, InStage, params, report
    <3>2. \A h \in PlacedOnTouched(games) : Fine(h)
      BY <1>1, <3>1 DEF CleanInv, LaterStages
    <3>3. CASE UNCHANGED board
      BY <1>4, <1>5, <3>1, <3>2, <3>3 DEF board, LaterStages
    <3>4. ASSUME NEW s \in LegalSlots(g, {games[g]}), Relocate(g, s, TRUE) PROVE CleanInv'
      <4>1. s \in Slots /\ ~Grown(g, s, games)
        BY LegalFacts
      <4>2. \A h \in PlacedOnTouched(games') : Fine(h)'
        BY <1>1, <3>1, <3>2, <3>4, <4>1, ImproveClean
      <4>. QED  BY <1>5, <3>1, <4>2 DEF LaterStages
    <3>. QED  BY <3>1, <3>3, <3>4, ImproveFacts
  <2>. QED  BY <1>8, <2>1, <2>2, <2>3, <2>4, <2>5, <2>6 DEF OfOneGame
<1>9. CASE Verify \/ Audit \/ \E accepted \in SUBSET blocking : Commit(accepted)
  <2>1. /\ UNCHANGED <<frozen, games, extra>>
        /\ stage \in LaterStages /\ stage' \in LaterStages
    BY <1>9 DEF Verify, Audit, Commit, InStage, params, board, cursor, LaterStages, RunInv, Ended
  <2>. QED  BY <1>1, <1>4, <2>1 DEF CleanInv, LaterStages
<1>10. CASE UNCHANGED vars
  <2>1. UNCHANGED <<frozen, games, extra, stage, todo, focus, left>>
    BY <1>10 DEF vars, params, board, cursor, report
  <2>2. Counterparts(focus, games[focus], games)' = Counterparts(focus, games[focus], games)
    BY <2>1 DEF Counterparts, OnSameSurface, OnSharedGround
  <2>. QED  BY <1>1, <1>4, <2>1, <2>2 DEF CleanInv
<1>. QED  BY <1>2, <1>6, <1>7, <1>8, <1>9, <1>10 DEF Next, ExtraOf

\* A change to a clean schedule ends with illegal games only where they and
\* all they clash with are held.
THEOREM CleanScheduleStaysClean == Spec => []CleanStaysClean
<1>1. RunInv /\ CleanInv => CleanStaysClean
  BY DEF RunInv, CleanInv, CleanStaysClean, Fine, LaterStages
<1>2. Spec => []CleanInv
  BY CleanInit, CleanStep, RunInvariant, GateInvariant, PTL DEF Spec
<1>. QED  BY <1>1, <1>2, RunInvariant, PTL

(***************************************************************************)
(* What the rule engine measured.                                          *)
(***************************************************************************)
Bounded == \A n \in DOMAIN cache : n \in Nat /\ n <= Len(moves)

\* The cache holds the present schedule, if anything at this ledger length.
Fresh == Len(moves) \in DOMAIN cache => cache[Len(moves)] = games

\* Before the caller's stage the board was p.at and the ledger p.len long.
Since(p) ==
    /\ p.len <= Len(moves)
    /\ \A n \in DOMAIN cache : n <= p.len
    /\ p.len \in DOMAIN cache => cache[p.len] = p.at

MeasuredInv ==
    /\ Bounded
    /\ stage \in EarlyStages => Fresh
    /\ stage = "extra" => Len(snapshots) >= 1 /\ Since(snapshots[Len(snapshots)])
    /\ stage \in {"verify", "audit"} =>
         /\ Len(snapshots) >= 2
         /\ snapshots[Len(snapshots)].at = games
         /\ snapshots[Len(snapshots)].len = Len(moves)
    /\ stage = "verify" => Since(snapshots[Len(snapshots) - 1])
    /\ stage = "audit" =>
         /\ Len(moves) \in DOMAIN cache
         /\ \/ cache[Len(moves)] = games
            \/ /\ snapshots[Len(snapshots) - 1].len = Len(moves)
               /\ snapshots[Len(snapshots) - 1].at = cache[Len(moves)]
    /\ stage = "done" /\ ids = Games =>
         \/ Len(moves) \in DOMAIN cache /\ cache[Len(moves)] = games
         \/ "bypassed" \in blocking

LEMMA MeasuredInit == Init => MeasuredInv
<1> SUFFICES ASSUME Init PROVE MeasuredInv
  OBVIOUS
<1>1. /\ stage = "change" /\ moves = <<>> /\ games = input.baseline
      /\ cache = [n \in {0} |-> input.baseline]
  BY DEF Init
<1>2. Len(moves) = 0 /\ DOMAIN cache = {0} /\ cache[0] = games
  BY <1>1
<1>. QED  BY <1>1, <1>2 DEF MeasuredInv, Bounded, Fresh, EarlyStages

\* Boards that put every game in the same place are the same.
LEMMA BoardsDiffer ==
    ASSUME NEW a \in Boards, NEW b \in Boards, \A g \in Games : Place(a, g) = Place(b, g)
    PROVE  a = b
<1>1. /\ a = [g \in DOMAIN a |-> a[g]] /\ b = [g \in DOMAIN b |-> b[g]]
      /\ DOMAIN a \subseteq Games /\ DOMAIN b \subseteq Games
  BY BoardFacts
<1>2. \A g \in Games : g \in DOMAIN a <=> g \in DOMAIN b
  BY DEF Place
<1>3. DOMAIN a = DOMAIN b
  BY <1>1, <1>2
<1>4. \A g \in DOMAIN a : a[g] = b[g]
  BY <1>1, <1>3 DEF Place
<1>. QED  BY <1>1, <1>3, <1>4

\* The three ways a step before the caller's stage treats board and cache.
LEMMA FreshStays ==
    ASSUME RunInv, Bounded, Fresh,
           \/ UNCHANGED <<games, moves, cache>>
           \/ UNCHANGED cache /\ Len(moves') = Len(moves) + 1
           \/ UNCHANGED <<games, moves>> /\ cache' = Measured(games)
    PROVE  Bounded' /\ Fresh'
<1>1. Len(moves) \in Nat
  BY DEF RunInv
<1>2. CASE UNCHANGED <<games, moves, cache>>
  BY <1>2 DEF Bounded, Fresh
<1>3. CASE UNCHANGED cache /\ Len(moves') = Len(moves) + 1
  <2>1. \A n \in DOMAIN cache : n \in Nat /\ n <= Len(moves') /\ n # Len(moves')
    BY <1>1, <1>3 DEF Bounded
  <2>. QED  BY <1>3, <2>1 DEF Bounded, Fresh
<1>4. CASE UNCHANGED <<games, moves>> /\ cache' = Measured(games)
  <2>1. CASE Len(moves) \in DOMAIN cache
    BY <1>4, <2>1 DEF Measured, Bounded, Fresh
  <2>2. CASE Len(moves) \notin DOMAIN cache
    <3>1. cache' = [n \in DOMAIN cache \cup {Len(moves)} |->
                      IF n \in DOMAIN cache THEN cache[n] ELSE games]
      BY <1>4, <2>2 DEF Measured
    <3>. QED  BY <1>1, <1>4, <2>2, <3>1 DEF Bounded, Fresh
  <2>. QED  BY <2>1, <2>2
<1>. QED  BY <1>2, <1>3, <1>4

LEMMA ImproveGrows ==
    ASSUME RunInv, NEW g \in Games, NEW avoid, Improve(g, avoid)
    PROVE  UNCHANGED <<games, moves>> \/ Len(moves') = Len(moves) + 1
<1>1. CASE UNCHANGED board
  BY <1>1 DEF board
<1>2. ASSUME NEW s \in LegalSlots(g, avoid), Relocate(g, s, TRUE)
      PROVE  Len(moves') = Len(moves) + 1
  <2>1. s \in Slots
    BY LegalFacts
  <2>. QED  BY <1>2, <2>1, RelocateType
<1>. QED  BY <1>1, <1>2, ImproveFacts

LEMMA MeasuredStep == RunInv /\ MeasuredInv /\ [Next]_vars => MeasuredInv'
<1> SUFFICES ASSUME RunInv, MeasuredInv, [Next]_vars PROVE MeasuredInv'
  OBVIOUS
<1>1. Len(moves) \in Nat /\ Len(snapshots) \in Nat
  BY DEF RunInv
<1>2. ASSUME stage \in EarlyStages, stage' = stage, Bounded' /\ Fresh'
      PROVE  MeasuredInv'
  BY <1>2 DEF MeasuredInv, EarlyStages
<1>3. ASSUME stage \in EarlyStages, stage' = stage,
             \/ UNCHANGED <<games, moves, cache>>
             \/ UNCHANGED cache /\ Len(moves') = Len(moves) + 1
             \/ UNCHANGED <<games, moves>> /\ cache' = Measured(games)
      PROVE  MeasuredInv'
  BY <1>2, <1>3, FreshStays DEF MeasuredInv
<1>4. CASE EndStage
  <2>1. /\ UNCHANGED <<games, moves, cache>>
        /\ Len(snapshots') = Len(snapshots) + 1
        /\ snapshots'[Len(snapshots')].at = games
        /\ snapshots'[Len(snapshots')].len = Len(moves)
        /\ \A i \in 1..Len(snapshots) : snapshots'[i] = snapshots[i]
    BY <1>4, EndStageFacts DEF EndStage, board
  <2>2. CASE stage \in {"change", "dislodge", "assign", "search"}
    <3>1. stage' \in EarlyStages
      BY <1>4, <2>2, StageOrder DEF EndStage, EarlyStages
    <3>. QED  BY <2>1, <2>2, <3>1 DEF MeasuredInv, Bounded, Fresh, EarlyStages
  <2>3. CASE stage = "repair"
    <3>1. stage' = "extra"
      BY <1>4, <2>3, StageOrder DEF EndStage
    <3>2. Bounded /\ Fresh
      BY <2>3 DEF MeasuredInv, EarlyStages
    <3>3. Since(snapshots[Len(snapshots)])'
      BY <1>1, <2>1, <3>2 DEF Since, Bounded, Fresh
    <3>4. Bounded' /\ Len(snapshots') >= 1
      BY <1>1, <2>1, <3>2 DEF Bounded
    <3>. QED  BY <3>1, <3>3, <3>4 DEF MeasuredInv, EarlyStages
  <2>4. CASE stage = "extra"
    <3>1. stage' = "verify"
      BY <1>4, <2>4, StageOrder DEF EndStage
    <3>2. Bounded /\ Len(snapshots) >= 1 /\ Since(snapshots[Len(snapshots)])
      BY <2>4 DEF MeasuredInv
    <3>3. Len(snapshots') - 1 = Len(snapshots) /\ Len(snapshots') >= 2
          /\ snapshots'[Len(snapshots)] = snapshots[Len(snapshots)]
      BY <1>1, <2>1, <3>2
    <3>4. Since(snapshots[Len(snapshots) - 1])'
      BY <2>1, <3>2, <3>3 DEF Since
    <3>. QED  BY <2>1, <3>1, <3>2, <3>3, <3>4 DEF MeasuredInv, EarlyStages, Bounded
  <2>. QED  BY <1>4, <2>2, <2>3, <2>4 DEF EndStage
<1>5. ASSUME NEW g \in DOMAIN Request, ApplyChange(g) PROVE MeasuredInv'
  <2>1. stage \in EarlyStages /\ UNCHANGED <<stage, cache>>
    BY <1>5 DEF ApplyChange, InStage, Visited, EarlyStages
  <2>2. CASE g \in Games /\ Relocate(g, Request[g], TRUE)
    <3>1. Request[g] \in Slots
      BY InputFacts DEF RunInv
    <3>2. Len(moves') = Len(moves) + 1
      BY <2>2, <3>1, RelocateType
    <3>. QED  BY <1>3, <2>1, <3>2
  <2>3. CASE UNCHANGED board
    BY <1>3, <2>1, <2>3 DEF board
  <2>. QED  BY <1>5, <2>2, <2>3 DEF ApplyChange
<1>6. ASSUME NEW g \in Games, OfOneGame(g) PROVE MeasuredInv'
  <2>1. stage \in EarlyStages /\ stage' = stage
    BY <1>6 DEF OfOneGame, DislodgeEverything, Dislodge, LiftParty, Assign, Search, Repair,
                RepairParty, InStage, Visited, EarlyStages
  <2>2. CASE DislodgeEverything(g) \/ LiftParty(g)
    <3>1. UNCHANGED cache /\ (UNCHANGED <<games, moves>> \/ LiftOut(g))
      BY <2>2 DEF DislodgeEverything, LiftParty, report, board
    <3>2. LiftOut(g) => Len(moves') = Len(moves) + 1
      BY LiftType
    <3>. QED  BY <1>3, <2>1, <3>1, <3>2
  <2>3. CASE Dislodge(g) \/ Repair(g)
    <3>1. UNCHANGED <<games, moves>> /\ (UNCHANGED cache \/ cache' = Measured(games))
      BY <2>3 DEF Dislodge, Repair, Unsatisfiable, report, board
    <3>. QED  BY <1>3, <2>1, <3>1
  <2>4. CASE Assign(g)
    <3>1. CASE cache' = Measured(games) /\ UNCHANGED board
      BY <1>3, <2>1, <3>1 DEF board
    <3>2. CASE UNCHANGED cache /\ TimeTbd(g)
      <4>1. Len(moves') = Len(moves) + 1
        BY <3>2, LiftType
      <4>. QED  BY <1>3, <2>1, <3>2, <4>1
    <3>3. ASSUME UNCHANGED cache, NEW s \in LegalSlots(g, {}), Relocate(g, s, FALSE)
          PROVE  MeasuredInv'
      <4>1. s \in Slots
        BY LegalFacts
      <4>2. Len(moves') = Len(moves) + 1
        BY <3>3, <4>1, RelocateType
      <4>. QED  BY <1>3, <2>1, <3>3, <4>2
    <3>. QED  BY <2>4, <3>1, <3>2, <3>3 DEF Assign, Unsatisfiable, report
  <2>5. CASE Search(g) \/ RepairParty(g)
    <3>1. UNCHANGED cache /\ (UNCHANGED board \/ Improve(g, {games[g]}))
      BY <2>5 DEF Search, RepairParty, report
    <3>2. UNCHANGED <<games, moves>> \/ Len(moves') = Len(moves) + 1
      BY <3>1, ImproveGrows DEF board
    <3>. QED  BY <1>3, <2>1, <3>1, <3>2
  <2>. QED  BY <1>6, <2>2, <2>3, <2>4, <2>5 DEF OfOneGame
<1>7. ASSUME NEW g \in Games, ExtraOf(g) PROVE MeasuredInv'
  <2>1. stage = "extra" /\ UNCHANGED <<stage, cache, snapshots>>
    BY <1>7, ExtraFacts DEF ExtraEffect, cursor
  <2>2. Len(moves') = Len(moves) \/ Len(moves') = Len(moves) + 1
    <3>1. /\ moves \in Seq(Entry) /\ moves' \in Seq(Entry)
          /\ \/ moves' = moves
             \/ moves' = Append(moves, [stage |-> "extra", game |-> g, cause |-> FALSE])
      BY <1>7, ExtraFacts DEF ExtraEffect, RunInv
    <3>. QED  BY <3>1
  <2>3. Bounded'
    BY <1>1, <2>1, <2>2 DEF MeasuredInv, Bounded
  <2>4. Len(snapshots) >= 1 /\ Since(snapshots[Len(snapshots)])
    BY <2>1 DEF MeasuredInv
  <2>5. snapshots[Len(snapshots)].len \in Nat
    <3>1. snapshots[Len(snapshots)] \in Snapshot
      BY <1>1, <2>4 DEF RunInv
    <3>. QED  BY <3>1 DEF Snapshot
  <2>6. Since(snapshots[Len(snapshots)])'
    BY <1>1, <2>1, <2>2, <2>4, <2>5 DEF Since
  <2>. QED  BY <2>1, <2>3, <2>4, <2>6 DEF MeasuredInv, EarlyStages
<1>8. CASE Verify
  <2>1. /\ stage = "verify" /\ stage' = "audit" /\ cache' = Measured(games)
        /\ UNCHANGED <<games, moves, snapshots>>
    BY <1>8 DEF Verify, InStage, board
  <2>2. /\ Bounded /\ Len(snapshots) >= 2 /\ Since(snapshots[Len(snapshots) - 1])
        /\ snapshots[Len(snapshots)].at = games
        /\ snapshots[Len(snapshots)].len = Len(moves)
    BY <2>1 DEF MeasuredInv
  <2>3. CASE Len(moves) \in DOMAIN cache
    <3>1. cache' = cache
      BY <2>1, <2>3 DEF Measured
    <3>2. snapshots[Len(snapshots) - 1].len \in Nat
      <4>1. snapshots[Len(snapshots) - 1] \in Snapshot
        BY <1>1, <2>2 DEF RunInv
      <4>. QED  BY <4>1 DEF Snapshot
    <3>3. snapshots[Len(snapshots) - 1].len = Len(moves)
      BY <1>1, <2>2, <2>3, <3>2 DEF Since
    <3>4. snapshots[Len(snapshots) - 1].at = cache[Len(moves)]
      BY <2>2, <2>3, <3>3 DEF Since
    <3>. QED  BY <2>1, <2>2, <2>3, <3>1, <3>3, <3>4 DEF MeasuredInv, EarlyStages, Bounded
  <2>4. CASE Len(moves) \notin DOMAIN cache
    <3>1. cache' = [n \in DOMAIN cache \cup {Len(moves)} |->
                      IF n \in DOMAIN cache THEN cache[n] ELSE games]
      BY <2>1, <2>4 DEF Measured
    <3>2. /\ Len(moves) \in DOMAIN cache' /\ cache'[Len(moves)] = games
          /\ \A n \in DOMAIN cache' : n \in Nat /\ n <= Len(moves)
      BY <1>1, <2>2, <2>4, <3>1 DEF Bounded
    <3>. QED  BY <2>1, <2>2, <3>2 DEF MeasuredInv, EarlyStages, Bounded
  <2>. QED  BY <2>3, <2>4
<1>9. CASE Audit
  <2>1. /\ stage = "audit" /\ stage' = "done" /\ UNCHANGED <<games, moves, snapshots, cache, ids>>
        /\ ids # {} => AuditDeltas \subseteq blocking'
    BY <1>9 DEF Audit, InStage, board, params
  <2> DEFINE n == Len(snapshots)
  <2>2. /\ Bounded /\ n >= 2 /\ snapshots[n].at = games /\ snapshots[n].len = Len(moves)
        /\ Len(moves) \in DOMAIN cache
        /\ \/ cache[Len(moves)] = games
           \/ snapshots[n - 1].len = Len(moves) /\ snapshots[n - 1].at = cache[Len(moves)]
    BY <2>1 DEF MeasuredInv
  <2>3. CASE cache[Len(moves)] = games
    BY <2>1, <2>2, <2>3 DEF MeasuredInv, EarlyStages, Bounded
  <2>4. CASE ids # Games
    BY <2>1, <2>2, <2>4 DEF MeasuredInv, EarlyStages, Bounded
  <2>5. CASE ids = Games /\ cache[Len(moves)] # games
    <3>1. n \in 1..Len(snapshots) /\ n # 1 /\ n - 1 \in 1..Len(snapshots) /\ n \in DOMAIN snapshots
      BY <1>1, <2>2 DEF RunInv
    <3>2. snapshots[n - 1] \in Snapshot /\ snapshots[n] \in Snapshot
      BY <3>1 DEF RunInv
    <3>3. snapshots[n - 1].at \in Boards /\ snapshots[n].at \in Boards
      BY <3>2 DEF Snapshot
    <3>4. snapshots[n - 1].at # snapshots[n].at
      BY <2>2, <2>5
    <3>5. PICK g \in Games : Place(snapshots[n - 1].at, g) # Place(snapshots[n].at, g)
      BY <3>3, <3>4, BoardsDiffer
    <3>6. g \in Wrote(n)
      BY <2>5, <3>1, <3>5 DEF Wrote
    <3>7. Window(n) = {}
      <4>1. \A k : k \notin (snapshots[n - 1].len + 1)..snapshots[n].len
        BY <1>1, <2>2, <2>5
      <4>. QED  BY <3>1, <4>1 DEF Window
    <3>8. "bypassed" \in AuditDeltas
      BY <3>1, <3>6, <3>7 DEF AuditDeltas
    <3>9. ids # {}
      BY <2>5, <3>5
    <3>. QED  BY <2>1, <2>2, <3>8, <3>9 DEF MeasuredInv, EarlyStages, Bounded
  <2>. QED  BY <2>3, <2>4, <2>5
<1>10. CASE UNCHANGED <<games, moves, cache, stage, snapshots, blocking, ids>>
  BY <1>10 DEF MeasuredInv, Bounded, Fresh, Since
<1>. QED  BY <1>4, <1>5, <1>6, <1>7, <1>8, <1>9, <1>10
     DEF Next, ExtraOf, Commit, vars, params, board, cursor, report

\* The figures of the report were measured on the schedule it proposes, or
\* the audit reports a write around the ledger.
THEOREM ReportMeasuresTheProposal == Spec => []MeasuredIsProposed
<1>1. RunInv /\ MeasuredInv => MeasuredIsProposed
  BY DEF RunInv, MeasuredInv, MeasuredIsProposed
<1>2. Spec => []MeasuredInv
  BY MeasuredInit, MeasuredStep, RunInvariant, PTL DEF Spec
<1>. QED  BY <1>1, <1>2, RunInvariant, PTL

\* The report is true of the proposed schedule, whatever the season.
THEOREM ReportsAreTrue == Spec => []ReportIsTrue
  BY ReportMeasuresTheProposal, EveryMoveHasACause, PTL DEF ReportIsTrue

(***************************************************************************)
(* The freeze plan: judgeFreeze scans the rules once, in plan order.  The  *)
(* scan is a recursive function; that it exists, and what it computes, is  *)
(* shown for a least counterexample.                                       *)
(***************************************************************************)
HasMinimal(F) == \E x \in F : \A y \in F : y \subseteq x => y = x

\* A set of subsets of a finite set has one that contains no other.
LEMMA MinimalMember ==
    ASSUME NEW S, IsFiniteSet(S), NEW F \in SUBSET SUBSET S, F # {}
    PROVE  HasMinimal(F)
<1>1. F \subseteq FiniteSubsetsOf(S)
  BY FS_FiniteSubsetsOfFinite
<1>2. \E x \in F : \A y \in F : ~(<<y, x>> \in StrictSubsetOrdering(S))
  BY <1>1, FS_StrictSubsetOrderingWellFounded, WFMin
<1>. QED  BY <1>2 DEF StrictSubsetOrdering, HasMinimal

\* A set of numbers has a least one: that whose initial segment is minimal.
LEMMA LeastNumber ==
    ASSUME NEW T, T \subseteq Nat, T # {}
    PROVE  \E x \in T : \A y \in T : x <= y
<1>1. PICK n \in T : n \in Nat
  OBVIOUS
<1> DEFINE F == {0 .. k : k \in T \cap (0 .. n)}
<1>2. IsFiniteSet(0 .. n)
  BY <1>1, FS_Interval
<1>3. F \subseteq SUBSET (0 .. n)
  BY <1>1
<1>4. F # {}
  <2>1. 0 .. n \in F
    BY <1>1
  <2>. QED  BY <2>1
<1>5. HasMinimal(F)
  <2>. HIDE DEF F
  <2>. QED  BY <1>2, <1>3, <1>4, MinimalMember
<1>6. PICK k \in T \cap (0 .. n) : \A y \in F : y \subseteq 0 .. k => y = 0 .. k
  BY <1>5 DEF HasMinimal
<1>7. ASSUME NEW y \in T, y < k PROVE FALSE
  <2>1. y \in 0 .. n /\ k \in Nat /\ y \in Nat
    BY <1>1, <1>6, <1>7
  <2>2. 0 .. y \in F
    BY <2>1
  <2>3. 0 .. y \subseteq 0 .. k
    BY <1>7, <2>1
  <2>4. 0 .. y = 0 .. k
    BY <1>6, <2>2, <2>3
  <2>5. k \in 0 .. y
    BY <2>1, <2>4
  <2>. QED  BY <1>7, <2>1, <2>5
<1>. QED  BY <1>1, <1>6, <1>7

Unscanned == [winner |-> 0, tied |-> FALSE]

\* The body of the loop, for rule n
Scanned(rules, ctx, was, n) ==
    LET wins == was.winner = 0 \/ Rank(rules[n].match) > Rank(rules[was.winner].match)
    IN  IF ~Applies(rules[n], ctx) THEN was
        ELSE IF wins THEN [winner |-> n, tied |-> FALSE]
        ELSE [was EXCEPT !.tied = @ \/
                /\ Rank(rules[n].match) = Rank(rules[was.winner].match)
                /\ rules[n].kind # rules[was.winner].kind]

IsScan(f, rules, ctx, m) ==
    f = [n \in 0 .. m |-> IF n = 0 THEN Unscanned ELSE Scanned(rules, ctx, f[n - 1], n)]

LEMMA ScanExists ==
    ASSUME NEW rules, NEW ctx, NEW m \in Nat
    PROVE  \E f : IsScan(f, rules, ctx, m)
<1> DEFINE T == {k \in Nat : ~\E f : IsScan(f, rules, ctx, k)}
<1>1. SUFFICES ASSUME T # {} PROVE FALSE
  OBVIOUS
<1>2. T \subseteq Nat
  OBVIOUS
<1>3. PICK k \in T : \A y \in T : k <= y
  <2>. HIDE DEF T
  <2>. QED  BY <1>1, <1>2, LeastNumber
<1>4. CASE k = 0
  <2> DEFINE f == [n \in 0 .. 0 |-> Unscanned]
  <2>1. IsScan(f, rules, ctx, 0)
    BY DEF IsScan
  <2>. QED  BY <1>3, <1>4, <2>1
<1>5. CASE k # 0
  <2>1. k \in Nat /\ k - 1 \in Nat /\ k - 1 \notin T
    BY <1>3, <1>5
  <2>2. PICK f : IsScan(f, rules, ctx, k - 1)
    BY <2>1
  <2> DEFINE g == [n \in 0 .. k |-> IF n = 0 THEN Unscanned ELSE Scanned(rules, ctx, f[n - 1], n)]
  <2>3. \A n \in 0 .. k - 1 : g[n] = f[n]
    <3>1. \A n \in 0 .. k - 1 : f[n] = IF n = 0 THEN Unscanned ELSE Scanned(rules, ctx, f[n - 1], n)
      BY <2>2 DEF IsScan
    <3>2. 0 .. k - 1 \subseteq 0 .. k
      BY <2>1
    <3>. QED  BY <3>1, <3>2
  <2>4. g = [n \in 0 .. k |-> IF n = 0 THEN Unscanned ELSE Scanned(rules, ctx, g[n - 1], n)]
    <3>1. \A n \in 0 .. k : n # 0 => n - 1 \in 0 .. k - 1
      BY <2>1
    <3>2. \A n \in 0 .. k : n # 0 => g[n - 1] = f[n - 1]
      BY <2>3, <3>1
    <3>. QED  BY <3>2
  <2>5. IsScan(g, rules, ctx, k)
    BY <2>4 DEF IsScan
  <2>. QED  BY <1>3, <2>5
<1>. QED  BY <1>4, <1>5

LEMMA ScanUnfolds ==
    ASSUME NEW rules, NEW ctx, Len(rules) \in Nat
    PROVE  \E f : IsScan(f, rules, ctx, Len(rules)) /\ Scan(rules, ctx) = f[Len(rules)]
<1> DEFINE f == CHOOSE g : IsScan(g, rules, ctx, Len(rules))
<1>1. IsScan(f, rules, ctx, Len(rules))
  BY ScanExists
<1>2. Scan(rules, ctx) = f[Len(rules)]
  BY DEF Scan, IsScan, Unscanned, Scanned
<1>. QED  BY <1>1, <1>2

\* The narrowest rule that reaches a game has a rank: a match names something.
LEMMA RankType ==
    ASSUME NEW match, DOMAIN match \in (SUBSET Dimensions) \ {{}}
    PROVE  Rank(match) \in Int
<1>1. \A S \in SUBSET {0, 1, 2, 3} : S # {} => Largest(S) \in S
  <2>1. ASSUME NEW S \in SUBSET {0, 1, 2, 3}, S # {} PROVE Largest(S) \in S
    <3>1. \A y \in S : y = 0 \/ y = 1 \/ y = 2 \/ y = 3
      BY <2>1
    <3>2. \E x \in S : \A y \in S : y <= x
      <4>1. CASE 3 \in S
        BY <3>1, <4>1
      <4>2. CASE 3 \notin S /\ 2 \in S
        BY <3>1, <4>2
      <4>3. CASE 3 \notin S /\ 2 \notin S /\ 1 \in S
        BY <3>1, <4>3
      <4>4. CASE 3 \notin S /\ 2 \notin S /\ 1 \notin S
        <5>1. PICK x : x \in S
          BY <2>1
        <5>. QED  BY <3>1, <4>4, <5>1
      <4>. QED  BY <4>1, <4>2, <4>3, <4>4
    <3>. QED  BY <3>2 DEF Largest
  <2>. QED  BY <2>1
<1> DEFINE R == {SpecificityOf(d) : d \in DOMAIN match}
           D == {e \in DOMAIN match : SpecificityOf(e) = Largest(R)}
           T == {TieBreakOf(d) : d \in D}
<1>2. R \in SUBSET {0, 1, 2, 3} /\ R # {}
  BY DEF SpecificityOf
<1>3. Largest(R) \in R
  <2>. HIDE DEF R
  <2>. QED  BY <1>1, <1>2
<1>4. D # {}
  BY <1>3
<1>5. T \in SUBSET {0, 1, 2, 3} /\ T # {}
  <2>. HIDE DEF D
  <2>. QED  BY <1>4 DEF TieBreakOf
<1>6. Largest(T) \in T
  <2>. HIDE DEF T
  <2>. QED  BY <1>1, <1>5
<1>7. Largest(R) \in Int /\ Largest(T) \in Int
  <2>1. \A S \in SUBSET {0, 1, 2, 3} : \A x \in S : x \in Int
    OBVIOUS
  <2>. HIDE DEF R, T
  <2>. QED  BY <1>2, <1>3, <1>5, <1>6, <2>1
<1>. QED  BY <1>7 DEF Rank, FreezeSpecificity, FreezeTieBreak

\* What the scan has found after n rules: the first of the narrowest that
\* apply, and whether one of the other kind is as narrow.
Found(was, rules, ctx, n) ==
    LET reach == {i \in 1 .. n : Applies(rules[i], ctx)}
    IN  /\ was.winner = 0 <=> reach = {}
        /\ was.winner # 0 =>
             /\ was.winner \in reach
             /\ \A i \in reach : Rank(rules[i].match) <= Rank(rules[was.winner].match)
             /\ was.tied <=> \E i \in reach :
                                /\ Rank(rules[i].match) = Rank(rules[was.winner].match)
                                /\ rules[i].kind # rules[was.winner].kind

IsRecord(was) == was = [winner |-> was.winner, tied |-> was.tied] /\ was.tied \in BOOLEAN

LEMMA ScannedFinds ==
    ASSUME NEW rules, NEW ctx, NEW n \in Nat \ {0}, NEW was, IsRecord(was),
           Found(was, rules, ctx, n - 1),
           \A i \in 1 .. n : Rank(rules[i].match) \in Int
    PROVE  LET now == Scanned(rules, ctx, was, n)
           IN  IsRecord(now) /\ Found(now, rules, ctx, n)
<1> DEFINE now == Scanned(rules, ctx, was, n)
           R(i) == Rank(rules[i].match)
           K(i) == rules[i].kind
           reach(k) == {i \in 1 .. k : Applies(rules[i], ctx)}
           ties == R(n) = R(was.winner) /\ K(n) # K(was.winner)
<1>1. /\ was.winner = 0 <=> reach(n - 1) = {}
      /\ was.winner # 0 =>
             /\ was.winner \in reach(n - 1)
             /\ \A i \in reach(n - 1) : R(i) <= R(was.winner)
             /\ was.tied <=> \E i \in reach(n - 1) : R(i) = R(was.winner) /\ K(i) # K(was.winner)
  BY DEF Found
<1>2. was = [winner |-> was.winner, tied |-> was.tied] /\ was.tied \in BOOLEAN
  BY DEF IsRecord
<1>3. SUFFICES IsRecord(now) /\ Found(now, rules, ctx, n)
  OBVIOUS
<1>4. CASE ~Applies(rules[n], ctx)
  <2>1. now = was
    BY <1>4 DEF Scanned
  <2>2. reach(n) = reach(n - 1)
    BY <1>4
  <2>3. Found(was, rules, ctx, n)
    <3>. HIDE DEF R, K
    <3>. QED  BY <1>1, <2>2 DEF Found, R, K
  <2>. HIDE DEF now
  <2>. QED  BY <2>1, <2>3
<1>5. CASE Applies(rules[n], ctx) /\ (was.winner = 0 \/ R(n) > R(was.winner))
  <2>1. now = [winner |-> n, tied |-> FALSE]
    BY <1>5 DEF Scanned
  <2>2. reach(n) = reach(n - 1) \cup {n} /\ n \in reach(n)
    BY <1>5
  <2>3. \A i \in reach(n - 1) : R(i) < R(n)
    <3>1. CASE was.winner = 0
      BY <1>1, <3>1
    <3>2. CASE was.winner # 0
      <4>1. \A i \in reach(n - 1) : i \in 1 .. n
        OBVIOUS
      <4>2. R(n) \in Int /\ \A i \in reach(n - 1) : R(i) \in Int
        BY <4>1
      <4>. HIDE DEF R, reach
      <4>. QED  BY <1>1, <1>5, <3>2, <4>2
    <3>. QED  BY <3>1, <3>2
  <2>4. R(n) \in Int /\ \A i \in reach(n - 1) : R(i) \in Int
    OBVIOUS
  <2>5. /\ \A i \in reach(n) : R(i) <= R(n)
        /\ ~\E i \in reach(n) : R(i) = R(n) /\ K(i) # K(n)
    <3>. HIDE DEF R, K, reach
    <3>. QED  BY <2>2, <2>3, <2>4
  <2>6. now.winner = n /\ ~now.tied /\ IsRecord(now)
    BY <2>1 DEF IsRecord
  <2>. HIDE DEF now
  <2>. QED  BY <2>2, <2>5, <2>6 DEF Found
<1>6. CASE Applies(rules[n], ctx) /\ was.winner # 0 /\ ~(R(n) > R(was.winner))
  <2>1. now = [was EXCEPT !.tied = @ \/ ties]
    BY <1>6 DEF Scanned
  <2>2. now.winner = was.winner /\ (now.tied <=> was.tied \/ ties) /\ IsRecord(now)
    BY <1>2, <2>1 DEF IsRecord
  <2>3. reach(n) = reach(n - 1) \cup {n} /\ was.winner \in reach(n - 1)
    BY <1>1, <1>6
  <2>4. R(n) \in Int /\ R(was.winner) \in Int
    BY <2>3
  <2>5. /\ \A i \in reach(n) : R(i) <= R(was.winner)
        /\ (was.tied \/ ties) <=> \E i \in reach(n) : R(i) = R(was.winner) /\ K(i) # K(was.winner)
    <3>. HIDE DEF R, K, reach
    <3>. QED  BY <1>1, <1>6, <2>3, <2>4
  <2>. HIDE DEF now, ties
  <2>. QED  BY <1>6, <2>2, <2>3, <2>5 DEF Found
<1>. QED  BY <1>4, <1>5, <1>6

LEMMA ScanFinds ==
    ASSUME NEW plan, IsFreezePlan(plan), NEW ctx
    PROVE  /\ Found(Scan(plan.rules, ctx), plan.rules, ctx, Len(plan.rules))
           /\ IsRecord(Scan(plan.rules, ctx))
<1> DEFINE rules == plan.rules
           m == Len(rules)
<1>1. /\ m \in Nat /\ DOMAIN rules = 1 .. m
      /\ \A i \in 1 .. m : DOMAIN rules[i].match \in (SUBSET Dimensions) \ {{}}
  BY DEF IsFreezePlan
<1>2. \A i \in 1 .. m : Rank(rules[i].match) \in Int
  <2>1. ASSUME NEW i \in 1 .. m PROVE Rank(rules[i].match) \in Int
    <3>1. DOMAIN rules[i].match \in (SUBSET Dimensions) \ {{}}
      BY <1>1
    <3>. QED  BY <3>1, RankType
  <2>. QED  BY <2>1
<1>3. PICK f : IsScan(f, rules, ctx, m) /\ Scan(rules, ctx) = f[m]
  BY <1>1, ScanUnfolds
<1> DEFINE T == {n \in 0 .. m : ~(Found(f[n], rules, ctx, n) /\ IsRecord(f[n]))}
<1>4. SUFFICES ASSUME T # {} PROVE FALSE
  BY <1>1, <1>3
<1>5. T \subseteq Nat
  BY <1>1
<1>6. PICK n \in T : \A y \in T : n <= y
  <2>. HIDE DEF T
  <2>. QED  BY <1>4, <1>5, LeastNumber
<1>7. n \in 0 .. m /\ f[n] = IF n = 0 THEN Unscanned ELSE Scanned(rules, ctx, f[n - 1], n)
  BY <1>3, <1>6 DEF IsScan
<1>8. CASE n = 0
  <2>1. IsRecord(Unscanned)
    BY DEF IsRecord, Unscanned
  <2>2. Found(Unscanned, rules, ctx, 0)
    BY DEF Found, Unscanned
  <2>. QED  BY <1>6, <1>7, <1>8, <2>1, <2>2
<1>9. CASE n # 0
  <2>1. n \in Nat \ {0} /\ n - 1 \in 0 .. m /\ n - 1 \notin T
    BY <1>1, <1>6, <1>7, <1>9
  <2>2. Found(f[n - 1], rules, ctx, n - 1) /\ IsRecord(f[n - 1])
    BY <2>1
  <2>3. \A i \in 1 .. n : Rank(rules[i].match) \in Int
    BY <1>1, <1>2, <1>7
  <2> DEFINE was == f[n - 1]
             now == Scanned(rules, ctx, was, n)
  <2>4. Found(was, rules, ctx, n - 1) /\ IsRecord(was)
    BY <2>2
  <2>. HIDE DEF was
  <2>5. Found(now, rules, ctx, n) /\ IsRecord(now)
    BY <2>1, <2>3, <2>4, ScannedFinds
  <2>6. f[n] = now
    BY <1>7, <1>9 DEF was
  <2>. HIDE DEF now
  <2>. QED  BY <1>6, <2>5, <2>6
<1>. QED  BY <1>8, <1>9

\* The scan decides as the rules of greatest rank do: one freeze among them
\* is the winner's kind or a tie.
LEMMA JudgementFacts ==
    ASSUME NEW plan, IsFreezePlan(plan), NEW ctx
    PROVE  JudgeFreeze(plan, ctx) = DeclaredDisposition(plan, ctx)
<1> DEFINE rules == plan.rules
           m == Len(rules)
           R(i) == Rank(rules[i].match)
           K(i) == rules[i].kind
           reach == {i \in 1 .. m : Applies(rules[i], ctx)}
           top == {i \in reach : \A j \in reach : R(j) <= R(i)}
           scan == Scan(rules, ctx)
           w == scan.winner
<1>1. /\ m \in Nat /\ DOMAIN rules = 1 .. m
      /\ \A i \in 1 .. m : K(i) \in {"freeze", "thaw"}
      /\ \A i \in 1 .. m : DOMAIN rules[i].match \in (SUBSET Dimensions) \ {{}}
  BY DEF IsFreezePlan
<1>2. \A i \in 1 .. m : R(i) \in Int
  <2>1. ASSUME NEW i \in 1 .. m PROVE R(i) \in Int
    <3>1. DOMAIN rules[i].match \in (SUBSET Dimensions) \ {{}}
      BY <1>1
    <3>. QED  BY <3>1, RankType
  <2>. QED  BY <2>1
<1>3. Found(scan, rules, ctx, m)
  BY ScanFinds
<1>. HIDE DEF scan
<1>4. /\ w = 0 <=> reach = {}
      /\ w # 0 => /\ w \in reach /\ \A i \in reach : R(i) <= R(w)
                  /\ scan.tied <=> \E i \in reach : R(i) = R(w) /\ K(i) # K(w)
  BY <1>3 DEF Found
<1>5. JudgeFreeze(plan, ctx) = IF w = 0 THEN plan.default
                               ELSE IF scan.tied \/ K(w) = "freeze" THEN "frozen" ELSE "thawed"
  BY DEF JudgeFreeze, scan
<1>6. DeclaredDisposition(plan, ctx)
        = IF reach = {} THEN plan.default
          ELSE IF \E i \in top : K(i) = "freeze" THEN "frozen" ELSE "thawed"
  BY <1>1 DEF DeclaredDisposition
<1>7. ASSUME w # 0
      PROVE  (scan.tied \/ K(w) = "freeze") <=> \E i \in top : K(i) = "freeze"
  <2>1. \A i \in reach : i \in 1 .. m
    OBVIOUS
  <2>2. w \in reach /\ \A i \in reach : R(i) \in Int /\ K(i) \in {"freeze", "thaw"}
    BY <1>1, <1>2, <1>4, <1>7, <2>1
  <2>3. \A i : i \in top <=> i \in reach /\ R(i) = R(w)
    <3>. HIDE DEF R, reach, w
    <3>. QED  BY <1>4, <1>7, <2>2
  <2>. HIDE DEF R, K, reach, top, w
  <2>. QED  BY <1>4, <1>7, <2>2, <2>3
<1>. HIDE DEF reach, top, w, K
<1>. QED  BY <1>4, <1>5, <1>6, <1>7

\* The derived plan lists its games in some order, each of them once.
LEMMA DerivedOrder ==
    ASSUME NEW asked, IsFiniteSet(asked)
    PROVE  /\ Cardinality(asked) \in Nat
           /\ SetToSeq(asked) \in [1 .. Cardinality(asked) -> asked]
<1>1. Cardinality(asked) \in Nat /\ ExistsBijection(1 .. Cardinality(asked), asked)
  BY FS_CardinalityType
<1>2. PICK f \in [1 .. Cardinality(asked) -> asked] : IsInjective(f)
  BY <1>1 DEF ExistsBijection, Bijection, Injection, IsInjective
<1>3. SetToSeq(asked) \in [1 .. Cardinality(asked) -> asked]
  BY <1>2 DEF SetToSeq
<1>. QED  BY <1>1, <1>3

\* Its rules thaw one game each, and nothing else is thawed.
LEMMA DerivedRules ==
    ASSUME NEW asked, IsFiniteSet(asked)
    PROVE  LET plan == FreezeForChanges(asked)
           IN  /\ IsFreezePlan(plan) /\ plan.default = "frozen"
               /\ \A i \in DOMAIN plan.rules : \E g \in asked : plan.rules[i] = ThawOf(g)
<1> DEFINE m == Cardinality(asked)
           order == SetToSeq(asked)
           rules == [i \in DOMAIN order |-> ThawOf(order[i])]
<1>1. m \in Nat /\ order \in [1 .. m -> asked]
  BY DerivedOrder
<1>2. FreezeForChanges(asked) = [default |-> "frozen", rules |-> rules]
  BY DEF FreezeForChanges
<1>3. DOMAIN rules = 1 .. m /\ \A i \in 1 .. m : order[i] \in asked /\ rules[i] = ThawOf(order[i])
  BY <1>1
<1>4. \A g : ThawOf(g).kind = "thaw" /\ DOMAIN ThawOf(g).match = {"game"}
  BY DEF ThawOf
<1>5. Len(rules) = m
  <2>1. rules \in Seq({ThawOf(g) : g \in asked})
    BY <1>1, <1>3
  <2>. HIDE DEF rules
  <2>. QED  BY <1>1, <1>3, <2>1
<1>. HIDE DEF m, order, rules
<1>6. {"game"} \in (SUBSET Dimensions) \ {{}}
  BY DEF Dimensions
<1>7. \A i \in DOMAIN rules :
         rules[i].kind \in {"freeze", "thaw"} /\ DOMAIN rules[i].match \in (SUBSET Dimensions) \ {{}}
  <2>. HIDE DEF ThawOf
  <2>. QED  BY <1>3, <1>4, <1>6
<1>8. IsFreezePlan([default |-> "frozen", rules |-> rules])
  BY <1>1, <1>3, <1>5, <1>7 DEF IsFreezePlan
<1>. QED  BY <1>2, <1>3, <1>8

LEMMA PlansAreFreezePlans ==
    ASSUME input \in Inputs
    PROVE  IsFreezePlan(PlanOf(input))
<1>1. CASE input.plan = "derived"
  <2>1. IsFiniteSet(DOMAIN input.request)
    BY InputFacts, ResolveAssumption DEF Request
  <2>. QED  BY <1>1, <2>1, DerivedRules DEF PlanOf
<1>2. CASE input.plan # "derived"
  <2>1. input.plan \in DOMAIN Plans
    BY <1>2 DEF Inputs
  <2>. QED  BY <1>2, <2>1, ResolveAssumption DEF PlanOf
<1>. QED  BY <1>1, <1>2

\* judgeFreeze gives what the rules of greatest rank say, for any plan the
\* schema admits, any number of rules in any order, and any game.
THEOREM ScanDecidesAsDeclared == Spec => []JudgementIsDeclared
<1>1. RunInv => JudgementIsDeclared
  <2>1. RunInv => IsFreezePlan(PlanOf(input))
    BY PlansAreFreezePlans DEF RunInv
  <2>. QED  BY <2>1, JudgementFacts DEF JudgementIsDeclared
<1>. QED  BY <1>1, RunInvariant, PTL

(***************************************************************************)
(* Under the derived plan every game the request does not name is held,    *)
(* and what is held stays where it was published.                          *)
(***************************************************************************)
LEMMA UnnamedIsHeld ==
    ASSUME input \in Inputs, input.plan = "derived",
           NEW g \in Games, g \notin DOMAIN Request
    PROVE  g \in FrozenBy(input)
<1> DEFINE plan == PlanOf(input)
           ctx == Context(input, g)
<1>1. /\ IsFreezePlan(plan) /\ plan.default = "frozen"
      /\ \A i \in DOMAIN plan.rules : \E h \in DOMAIN Request : plan.rules[i] = ThawOf(h)
  <2>1. IsFiniteSet(DOMAIN input.request)
    BY InputFacts, ResolveAssumption DEF Request
  <2>. QED  BY <2>1, DerivedRules DEF PlanOf, Request
<1>2. "game" \in DOMAIN ctx /\ ctx["game"] = {g}
  BY DEF Context
<1>. HIDE DEF plan, ctx
<1>3. ASSUME NEW h, h # g PROVE ~Applies(ThawOf(h), ctx)
  <2> DEFINE match == ThawOf(h).match
  <2>1. DOMAIN match = {"game"} /\ match["game"] = {h} /\ ThawOf(h).kind = "thaw"
    BY DEF ThawOf
  <2>. HIDE DEF match
  <2>2. Field("game") = "game"
    BY DEF Field
  <2>3. {d \in DOMAIN match : Field(d) \notin DOMAIN ctx \/ ctx[Field(d)] \cap match[d] = {}}
          = {"game"}
    BY <1>2, <1>3, <2>1, <2>2
  <2>4. (CHOOSE d \in {"game"} : \A e \in {"game"} : Position(d) <= Position(e)) = "game"
           \/ ~(\E d \in {"game"} : \A e \in {"game"} : Position(d) <= Position(e))
    OBVIOUS
  <2>5. Position("game") <= Position("game")
    <3>1. 1 \in 1 .. Len(CheckOrder) /\ CheckOrder[1] = "game"
      BY DEF CheckOrder
    <3>2. Position("game") \in 1 .. Len(CheckOrder)
      BY <3>1 DEF Position
    <3>3. Len(CheckOrder) \in Nat
      BY DEF CheckOrder
    <3>. QED  BY <3>2, <3>3
  <2>6. JudgeFreezeMatch(match, ctx) = "differs"
    BY <1>2, <2>2, <2>3, <2>4, <2>5 DEF JudgeFreezeMatch
  <2>. QED  BY <2>1, <2>6 DEF Applies, match
<1>4. \A i \in DOMAIN plan.rules : ~Applies(plan.rules[i], ctx)
  BY <1>1, <1>3
<1>5. DeclaredDisposition(plan, ctx) = "frozen"
  BY <1>1, <1>4 DEF DeclaredDisposition
<1>6. JudgeFreeze(plan, ctx) = "frozen"
  BY <1>1, <1>5, JudgementFacts
<1>. QED  BY <1>6 DEF FrozenBy, plan, ctx

\* A game held by the derived plan stands where it was published.
DerivedInv ==
    input.plan = "derived" =>
        \A g \in Games \ DOMAIN Request :
            extra = 0 => g \in frozen /\ g \in DOMAIN games /\ games[g] = Base[g]

LEMMA DerivedInit == Init => DerivedInv
<1>1. SUFFICES ASSUME Init PROVE DerivedInv
  OBVIOUS
<1>2. DOMAIN games = Games /\ games = Base
  BY <1>1, InputFacts DEF Init, Base
<1>. QED  BY <1>1, <1>2, UnnamedIsHeld DEF Init, DerivedInv

LEMMA DerivedStep == RunInv /\ GateInv /\ DerivedInv /\ [Next]_vars => DerivedInv'
<1>1. SUFFICES ASSUME RunInv, GateInv, DerivedInv, [Next]_vars, input'.plan = "derived",
                      NEW g \in Games \ DOMAIN input'.request, extra' = 0
               PROVE  g \in frozen' /\ g \in DOMAIN games' /\ games'[g] = input'.baseline[g]
  BY DEF DerivedInv, Request, Base
<1>2. input' = input /\ (extra' = extra \/ extra' = extra + 1) /\ extra \in Nat
  BY <1>1, ExtraGrows DEF RunInv
<1>3. extra' = extra /\ extra = 0
  BY <1>1, <1>2
<1>4. g \in frozen /\ g \in DOMAIN games /\ games[g] = Base[g]
  BY <1>1, <1>2, <1>3 DEF DerivedInv, Request
<1>5. g \in frozen' /\ Place(games', g) = Place(games, g)
  BY <1>1, <1>3, <1>4, StepStaysPut DEF StaysPut
<1>6. Place(games', g) = {Base[g]}
  BY <1>4, <1>5 DEF Place
<1>. QED  BY <1>2, <1>5, <1>6 DEF Place, Base

\* With no stage of the caller, a change request run under the plan derived
\* from it moves the games it names and no other, whatever the season.
THEOREM RequestMovesNoOther == Spec => []OnlyRequestedMove
<1>1. RunInv /\ DerivedInv => OnlyRequestedMove
  BY DEF RunInv, DerivedInv, OnlyRequestedMove, Untouched, Moved
<1>2. Spec => []DerivedInv
  BY DerivedInit, DerivedStep, RunInvariant, GateInvariant, PTL DEF Spec
<1>. QED  BY <1>1, <1>2, RunInvariant, PTL
=============================================================================
