--------------------------- MODULE ScheduleOffer ---------------------------
(***************************************************************************)
(* What a practice scheduler promises, whatever it does inside: it offers  *)
(* one schedule that breaks no hard constraint, and replaces it only by    *)
(* another such schedule that is fitter - which may leave out a team that  *)
(* had a place in between, after a restart of the search.                  *)
(***************************************************************************)
EXTENDS ScheduleMoves

CONSTANT Fitness(_)

VARIABLE offer      \* {} before there is a schedule, then the set of it

OfferInit == offer = {}

Offered ==
    /\ offer = {}
    /\ \E a \in offer' : offer' = {a} /\ Sound(a)

Improved ==
    /\ \E a \in offer, b \in offer' :
          offer' = {b} /\ Sound(b) /\ Fitness(b) > Fitness(a)

OfferSpec == OfferInit /\ [][Offered \/ Improved]_offer
=============================================================================
