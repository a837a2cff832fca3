-------------------------- MODULE SchedulerService --------------------------
(***************************************************************************)
(* The auto-scheduler Edge Function, from the request to the answer: each  *)
(* team in turn takes the first slot it fits in, the hill climber runs on  *)
(* what that gives, the run is recorded with persist_evaluation_run.  The  *)
(* first fitting slot is any fitting slot here: the order is the caller's. *)
(***************************************************************************)
EXTENDS HillClimb

CONSTANT YieldEvery     \* iterations between two progress reports

\* scoreSchedule: coverage and coach conflicts only.  The score it returns is
\* this, over 10000 times the number of teams.
CoachConflicts(a) ==
    {{p[1], p[2]} : p \in {q \in (DOMAIN a) \X (DOMAIN a) :
        q[1] # q[2] /\ ShareCoach(q[1], q[2]) /\ <<a[q[1]], a[q[2]]>> \in Overlap}}

ConflictPenalty(n) == IF 15 * n > 100 THEN 100 ELSE 15 * n

Score(a) ==
    Cardinality(Teams) * (10000 - 15 * ConflictPenalty(Cardinality(CoachConflicts(a))))
        - 5000 * (Cardinality(Teams) - Cardinality(DOMAIN a))

ASSUME ServiceAssumption ==
    /\ YieldEvery \in Nat \ {0}
    /\ \A a \in Schedules : Fitness(a) = Score(a)

VARIABLES
    stage,      \* "request", "greedy", "search", "record" or "answered"
    unseen,      \* teams the greedy loop has yet to look at
    runs,       \* evaluation_runs of this request
    trail,      \* its audit_log
    answer      \* "none", "refused", "ok" or "error"

service == <<runs, trail, answer>>
serviceVars == <<stage, unseen, service, search>>

ServiceInit ==
    /\ stage = "request" /\ unseen = {}
    /\ runs = {} /\ trail = {} /\ answer = "none"
    /\ ClimbInit

\* Not signed in, too many requests, not valid, or not a member
Refuse ==
    /\ stage = "request"
    /\ stage' = "answered" /\ answer' = "refused"
    /\ UNCHANGED <<unseen, runs, trail, search>>

\* Audit entries are sent and not waited for: one may not be written.
Audit(action) == trail' \in {trail, trail \cup {action}}

Accept ==
    /\ stage = "request"
    /\ stage' = "greedy"
    /\ unseen' = Teams \ LockedTeams
    /\ Audit("auto_started")
    /\ UNCHANGED <<runs, answer, search>>

\* Mutant: a team that does not fit in one slot may be given up at once.
SeedNextHasty ==
    /\ stage = "greedy"
    /\ \E t \in unseen :
          /\ \A u \in unseen : BusiestCoachCount(u) <= BusiestCoachCount(t)
          /\ unseen' = unseen \ {t}
          /\ \/ \E s \in Slots : Fits(seed, t, s) /\ seed' = Put(seed, t, s)
             \/ (\E s \in Slots : ~Fits(seed, t, s)) /\ UNCHANGED seed
    /\ UNCHANGED <<stage, service, current, best, stall, restarts, iteration>>

\* generateGreedySeed: locked teams are there from the start, unchecked.
SeedNext ==
    /\ stage = "greedy"
    /\ \E t \in unseen :
          /\ \A u \in unseen : BusiestCoachCount(u) <= BusiestCoachCount(t)
          /\ unseen' = unseen \ {t}
          /\ \/ \E s \in Slots : Fits(seed, t, s) /\ seed' = Put(seed, t, s)
             \/ (\A s \in Slots : ~Fits(seed, t, s)) /\ UNCHANGED seed
    /\ UNCHANGED <<stage, service, current, best, stall, restarts, iteration>>

StartClimb ==
    /\ stage = "greedy" /\ unseen = {}
    /\ stage' = "search"
    /\ ClimbFrom(seed)
    /\ UNCHANGED <<unseen, service>>

Progresses == iteration' % YieldEvery = 0

\* An iteration that draws no mutation skips the progress report.
IterateNothing ==
    /\ stage = "search" /\ iteration < MaxIterations
    /\ iteration' = iteration + 1
    /\ Stalls
    /\ UNCHANGED <<stage, unseen, service, seed, best>>

IterateMove ==
    /\ stage = "search"
    /\ Moves(current) # {}
    /\ Climb
    /\ ~Progresses
    /\ UNCHANGED <<stage, unseen, service>>

\* recordAudit returns nothing, so .catch on what it returns throws; the
\* handler's catch audits the failure and answers 500.
ReportProgress ==
    /\ stage = "search"
    /\ Moves(current) # {}
    /\ Climb
    /\ Progresses
    /\ stage' = "answered" /\ answer' = "error"
    /\ trail' \in {trail \cup T : T \in SUBSET {"auto_progress", "auto_failed"}}
    /\ UNCHANGED <<unseen, runs>>

\* At the last iteration, or when the time budget or the wall clock says so
StopSearch ==
    /\ stage = "search"
    /\ stage' = "record"
    /\ UNCHANGED <<unseen, service, search>>

\* An error of persist_evaluation_run is logged, and the answer is sent anyway.
Record ==
    /\ stage = "record"
    /\ stage' = "answered" /\ answer' = "ok"
    /\ runs' \in {runs, runs \cup {best}}
    /\ Audit("auto_completed")
    /\ UNCHANGED <<unseen, search>>

ServiceNext ==
    \/ Refuse \/ Accept \/ SeedNext \/ StartClimb
    \/ IterateNothing \/ IterateMove \/ ReportProgress
    \/ StopSearch \/ Record

ServiceSpec == ServiceInit /\ [][ServiceNext]_serviceVars

-----------------------------------------------------------------------------
ServiceTypeOK ==
    /\ stage \in {"request", "greedy", "search", "record", "answered"}
    /\ unseen \subseteq Teams
    /\ runs \subseteq Schedules
    /\ trail \subseteq {"auto_started", "auto_progress", "auto_failed", "auto_completed"}
    /\ answer \in {"none", "refused", "ok", "error"}
    /\ ClimbTypeOK

Scheduled == stage \in {"search", "record"} \/ answer \in {"ok", "error"}

\* The search accepts only what is strictly fitter than the current schedule,
\* and nothing it can draw ever is: swaps and chains change neither coverage nor
\* conflicts, so none is accepted, and into a schedule no move has changed a
\* team the seed left out fits nowhere.  The answer is the greedy construction.
SeedIsFinal == Scheduled => current = seed /\ best = seed

\* A team left out of the answer fits in no slot of it.
LeftOutFitNowhere ==
    Scheduled => \A t \in Teams \ DOMAIN best, s \in Slots : ~Fits(best, t, s)

\* "Every run produces an evaluation_run record and audit trail"
\* (auto-scheduler/index.ts:9), though no call of the database has failed: not
\* one that gets to a progress report.
EveryRunRecorded == answer = "error" => runs # {}

\* What the function sends is an offer of one sound schedule, if ever improved
\* then for the better.
Answers == INSTANCE ScheduleOffer WITH
    offer <- IF Scheduled THEN {best} ELSE {}

AnswersOffer == Answers!OfferSpec
=============================================================================
