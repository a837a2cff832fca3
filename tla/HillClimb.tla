----------------------------- MODULE HillClimb -----------------------------
(***************************************************************************)
(* The search both schedulers run over a seed schedule: draw a move, keep  *)
(* it if it is strictly fitter, go back to the seed when nothing has got   *)
(* fitter for a while.  packages/core has the loop in autoScheduler.js,    *)
(* the Edge Function a copy of it.                                         *)
(***************************************************************************)
EXTENDS ScheduleMoves

CONSTANTS
    Fitness(_),     \* of a schedule
    MaxIterations, StallLimit, MaxRestarts

ASSUME ClimbAssumption ==
    /\ \A a \in Schedules : Fitness(a) \in Int
    /\ MaxIterations \in Nat /\ StallLimit \in Nat /\ MaxRestarts \in Nat

VARIABLES
    seed, current, best,    \* schedules
    stall, restarts, iteration

search == <<seed, current, best, stall, restarts, iteration>>

ClimbInit ==
    /\ seed = Locked /\ current = Locked /\ best = Locked
    /\ stall = 0 /\ restarts = 0 /\ iteration = 0

ClimbFrom(a) ==
    /\ seed' = a /\ current' = a /\ best' = a
    /\ UNCHANGED <<stall, restarts, iteration>>

\* A stalled search starts again from the seed, which is also what the greedy
\* construction, run once more on the same input, returns.
Stalls ==
    IF stall + 1 >= StallLimit /\ restarts < MaxRestarts
        THEN /\ stall' = 0 /\ restarts' = restarts + 1 /\ current' = seed
        ELSE /\ stall' = stall + 1 /\ UNCHANGED <<restarts, current>>

\* Mutant: the schedule that beats the current one also becomes the best.
ClimbsForgettingBest(a) ==
    /\ Fitness(a) > Fitness(current)
    /\ current' = a /\ best' = a /\ stall' = 0
    /\ UNCHANGED restarts

\* Mutant: a schedule as fit as the current one is taken.
ClimbsSideways(a) ==
    /\ Fitness(a) >= Fitness(current)
    /\ current' = a
    /\ best' = IF Fitness(a) > Fitness(best) THEN a ELSE best
    /\ stall' = 0
    /\ UNCHANGED restarts

Climbs(a) ==
    /\ Fitness(a) > Fitness(current)
    /\ current' = a
    /\ best' = IF Fitness(a) > Fitness(best) THEN a ELSE best
    /\ stall' = 0
    /\ UNCHANGED restarts

\* One iteration.  A draw may come to nothing, or to nothing better.
Climb ==
    /\ iteration < MaxIterations
    /\ iteration' = iteration + 1
    /\ \/ \E a \in Moves(current) : Climbs(a)
       \/ Stalls /\ UNCHANGED best
    /\ UNCHANGED seed

-----------------------------------------------------------------------------
ClimbTypeOK ==
    /\ {seed, current, best} \subseteq Schedules
    /\ stall \in Nat /\ restarts \in 0..MaxRestarts /\ iteration \in 0..MaxIterations

\* What is kept as best is no worse than the seed and than wherever the search
\* is, through every restart, and leaves out no team the seed has a slot for.
BestIsBest ==
    /\ Fitness(best) >= Fitness(current) /\ Fitness(best) >= Fitness(seed)
    /\ DOMAIN seed \subseteq DOMAIN best
=============================================================================
