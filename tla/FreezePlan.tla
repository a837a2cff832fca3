----------------------------- MODULE FreezePlan -----------------------------
(***************************************************************************)
(* Which games a freeze plan holds (packages/core/src/freeze).  A rule     *)
(* freezes or thaws the games its match reaches; among the rules that      *)
(* reach a game the narrowest decides, and a tie between a freeze and a    *)
(* thaw holds the game.                                                    *)
(*                                                                         *)
(* A match is a function from the dimensions it names to the values it     *)
(* accepts (for a date range, every date of the range); a context is a     *)
(* function from the fields a game carries to the values it has there (a   *)
(* game has two teams and a surface a lineage, so they are sets).          *)
(***************************************************************************)
EXTENDS Integers, SequencesExt

Dimensions == {"date", "date-range", "division", "venue", "surface",
               "format", "team", "game"}

\* Which field of the game a dimension is compared with.
Field(d) == IF d = "date-range" THEN "date" ELSE d

\* The dimensions in the order judgeFreezeMatch tests them.
CheckOrder == <<"game", "team", "surface", "venue", "format", "date",
                "date-range", "division">>
Position(d) == CHOOSE i \in 1..Len(CheckOrder) : CheckOrder[i] = d

SpecificityOf(d) ==
    IF d = "date-range" THEN 1
    ELSE IF d \in {"date", "division", "venue", "format"} THEN 2 ELSE 3

TieBreakOf(d) ==
    IF d = "surface" THEN 1
    ELSE IF d = "team" THEN 2
    ELSE IF d = "game" THEN 3 ELSE 0

Largest(S) == CHOOSE x \in S : \A y \in S : y <= x

FreezeSpecificity(match) == Largest({SpecificityOf(d) : d \in DOMAIN match})

FreezeTieBreak(match) ==
    Largest({TieBreakOf(d) : d \in {e \in DOMAIN match :
                SpecificityOf(e) = FreezeSpecificity(match)}})

\* The two ranks compared one after the other, as one number.
Rank(match) == 4 * FreezeSpecificity(match) + FreezeTieBreak(match)

\* The first check that does not pass decides: a field the game lacks
\* leaves the match unjudged, a value that differs refuses it.
JudgeFreezeMatch(match, ctx) ==
    LET fails == {d \in DOMAIN match :
                     \/ Field(d) \notin DOMAIN ctx
                     \/ ctx[Field(d)] \cap match[d] = {}}
        first == CHOOSE d \in fails : \A e \in fails : Position(d) <= Position(e)
    IN IF fails = {} THEN "matches"
       ELSE IF Field(first) \in DOMAIN ctx THEN "differs" ELSE "unjudged"

\* An unjudged freeze holds the game, an unjudged thaw does not free it.
Applies(rule, ctx) ==
    \/ JudgeFreezeMatch(rule.match, ctx) = "matches"
    \/ /\ JudgeFreezeMatch(rule.match, ctx) = "unjudged"
       /\ rule.kind = "freeze"

\* What FreezePlanSchema lets through: every match names a dimension.
IsFreezePlan(plan) ==
    /\ plan.default \in {"frozen", "thawed"}
    /\ Len(plan.rules) \in Nat /\ DOMAIN plan.rules = 1 .. Len(plan.rules)
    /\ \A i \in DOMAIN plan.rules :
          /\ plan.rules[i].kind \in {"freeze", "thaw"}
          /\ DOMAIN plan.rules[i].match \in (SUBSET Dimensions) \ {{}}

\* Mutant: a tie that a narrower rule has settled is still reported.
ScanKeepingTies(rules, ctx) ==
    LET after[n \in 0..Len(rules)] ==
          IF n = 0 THEN [winner |-> 0, tied |-> FALSE]
          ELSE LET was  == after[n - 1]
                   wins == was.winner = 0 \/ Rank(rules[n].match)
                                               > Rank(rules[was.winner].match)
               IN IF ~Applies(rules[n], ctx) THEN was
                  ELSE IF wins THEN [was EXCEPT !.winner = n]
                  ELSE [was EXCEPT !.tied = @ \/
                          /\ Rank(rules[n].match) = Rank(rules[was.winner].match)
                          /\ rules[n].kind # rules[was.winner].kind]
    IN after[Len(rules)]

\* The scan of the rules in plan order: the winner so far (0: none yet) and
\* whether a rule of the other kind ties with it.
Scan(rules, ctx) ==
    LET after[n \in 0..Len(rules)] ==
          IF n = 0 THEN [winner |-> 0, tied |-> FALSE]
          ELSE LET was  == after[n - 1]
                   wins == was.winner = 0 \/ Rank(rules[n].match)
                                               > Rank(rules[was.winner].match)
               IN IF ~Applies(rules[n], ctx) THEN was
                  ELSE IF wins THEN [winner |-> n, tied |-> FALSE]
                  ELSE [was EXCEPT !.tied = @ \/
                          /\ Rank(rules[n].match) = Rank(rules[was.winner].match)
                          /\ rules[n].kind # rules[was.winner].kind]
    IN after[Len(rules)]

Ambiguous(plan, ctx) == Scan(plan.rules, ctx).tied

JudgeFreeze(plan, ctx) ==
    LET scan == Scan(plan.rules, ctx)
    IN IF scan.winner = 0 THEN plan.default
       ELSE IF scan.tied \/ plan.rules[scan.winner].kind = "freeze"
            THEN "frozen" ELSE "thawed"

\* The plan a change request runs under when the caller names none: hold
\* everything, thaw the games the request names (freezeForChanges).
ThawOf(g) == [kind |-> "thaw", match |-> [d \in {"game"} |-> {g}]]
FreezeForChanges(ids) ==
    LET order == SetToSeq(ids)
    IN [default |-> "frozen", rules |-> [i \in DOMAIN order |-> ThawOf(order[i])]]

(***************************************************************************)
(* What the scan is meant to compute, without its order: the rules of the  *)
(* greatest rank among those that apply decide, and one freeze among them  *)
(* holds the game.                                                         *)
(***************************************************************************)
DeclaredDisposition(plan, ctx) ==
    LET reach == {i \in DOMAIN plan.rules : Applies(plan.rules[i], ctx)}
        top   == {i \in reach : \A j \in reach :
                     Rank(plan.rules[j].match) <= Rank(plan.rules[i].match)}
    IN IF reach = {} THEN plan.default
       ELSE IF \E i \in top : plan.rules[i].kind = "freeze" THEN "frozen" ELSE "thawed"
=============================================================================
