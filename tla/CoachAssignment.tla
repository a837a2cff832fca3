-------------------------- MODULE CoachAssignment --------------------------
(***************************************************************************)
(* The database functions that read and write coaches and their teams,     *)
(* run by concurrent sessions.  Their transactions are READ COMMITTED, so  *)
(* each statement sees what was committed before it began: a function is   *)
(* a sequence of steps, one per statement whose outcome it depends on, and *)
(* its last step writes and commits, or it fails and leaves nothing.  The  *)
(* only locks that matter are the advisory lock of                         *)
(* admin_assign_team_coach, one per coach, and the rows of teams that      *)
(* admin_delete_coaches has updated and not yet committed.                 *)
(***************************************************************************)
EXTENDS FiniteSets

CONSTANTS
    Sessions,   \* database sessions
    Coaches,
    Teams,
    Multi,      \* coaches with can_coach_multiple_teams
    Requests,   \* calls the sessions may make
    NoCoach,    \* NULL for a coach id
    Free        \* an advisory lock nobody holds

Usable   == {"active", "pending-confirmation"}
Statuses == Usable \cup {"inactive", "interested"}
Ops == {"assign", "status", "deactivate", "restore", "delete", "retract", "persist"}

\* Calls about one coach
CoachOps == Ops \ {"assign", "persist"}

RequestType == [op : Ops, team : Teams, coach : Coaches \cup {NoCoach},
                status : Statuses, assistants : SUBSET Coaches]

ASSUME AssignmentAssumption ==
    /\ Multi \subseteq Coaches
    /\ Requests \subseteq RequestType /\ Requests # {}
    /\ \A q \in Requests : q.op \in CoachOps => q.coach # NoCoach
    /\ NoCoach \notin Coaches
    /\ Free \notin Sessions

VARIABLES
    coachStatus,    \* coaches.status, or "deleted"
    head,           \* teams.coach_id
    assistants,     \* teams.assistant_coach_ids
    scheduled,      \* history: teams that have their head from persist_team_schedule
    raced,          \* history: coaches for whom a call relied on what another changed
    lock,           \* advisory lock of each coach
    at,             \* where each session is in its function
    req,            \* the call it is making
    same,           \* the function found that nothing has to change
    kept,           \* assistants a persist call found to exist
    rowLocks        \* rows of teams a delete has updated

tables == <<coachStatus, head, assistants, scheduled>>
vars   == <<tables, raced, lock, at, req, same, kept, rowLocks>>

\* What req holds for a session that makes no call is of no account.
NoRequest == CHOOSE q \in Requests : TRUE

Places == {"idle", "begun", "waiting", "locked", "checked", "scrubbing", "writing"}

TypeOK ==
    /\ coachStatus \in [Coaches -> Statuses \cup {"deleted"}]
    /\ head        \in [Teams -> Coaches \cup {NoCoach}]
    /\ assistants  \in [Teams -> SUBSET Coaches]
    /\ scheduled   \in SUBSET Teams
    /\ raced       \in SUBSET Coaches
    /\ lock        \in [Coaches -> Sessions \cup {Free}]
    /\ at          \in [Sessions -> Places]
    /\ req         \in [Sessions -> Requests]
    /\ same        \in [Sessions -> BOOLEAN]
    /\ kept        \in [Sessions -> SUBSET Coaches]
    /\ rowLocks    \in [Sessions -> SUBSET Teams]

Init ==
    /\ coachStatus \in [Coaches -> Statuses]
    /\ head        = [t \in Teams |-> NoCoach]
    /\ assistants  = [t \in Teams |-> {}]
    /\ scheduled   = {}
    /\ raced       = {}
    /\ lock        = [c \in Coaches |-> Free]
    /\ at          = [s \in Sessions |-> "idle"]
    /\ req         = [s \in Sessions |-> NoRequest]
    /\ same        = [s \in Sessions |-> FALSE]
    /\ kept        = [s \in Sessions |-> {}]
    /\ rowLocks    = [s \in Sessions |-> {}]

Exists(c)   == coachStatus[c] # "deleted"
Heads(c)    == {t \in Teams : head[t] = c}
Assigned(c) == \E t \in Teams : head[t] = c \/ c \in assistants[t]

\* No transaction but session s's holds the row of the team.
RowFree(s, t) == \A i \in Sessions \ {s} : t \notin rowLocks[i]

-----------------------------------------------------------------------------
(* Transactions.                                                            *)

Runs(s, op, place) == at[s] = place /\ req[s].op = op

\* Call q looks at something about the coach of call r that r changes: both
\* may do so unseen by each other.
Lowers(r)  == r.op = "deactivate" \/ (r.op = "status" /\ r.status \notin Usable)
Deletes(r) == r.op \in {"delete", "retract"}

MayMiss(q, r) ==
    \/ q.op = "assign" /\ Lowers(r) /\ q.coach = r.coach
    \/ q.op = "persist" /\ Deletes(r) /\ r.coach \in q.assistants

Running == {s \in Sessions : at[s] # "idle"}

Begin(s, q) ==
    /\ at[s] = "idle"
    /\ at'    = [at EXCEPT ![s] = "begun"]
    /\ req'   = [req EXCEPT ![s] = q]
    /\ raced' = raced \cup {req[i].coach : i \in {k \in Running : MayMiss(q, req[k])}}
                     \cup {c \in {q.coach} : \E i \in Running : MayMiss(req[i], q)}
    /\ UNCHANGED <<tables, lock, same, kept, rowLocks>>

\* Mutant: pg_advisory_lock, which the session keeps.
KeptBySession(s) == lock

\* pg_advisory_xact_lock: the lock goes with the transaction.
Released(s) == [c \in Coaches |-> IF lock[c] = s THEN Free ELSE lock[c]]

\* The end of a transaction, committed or not, gives back what it holds.
Ends(s) ==
    /\ at'       = [at EXCEPT ![s] = "idle"]
    /\ lock'     = Released(s)
    /\ same'     = [same EXCEPT ![s] = FALSE]
    /\ kept'     = [kept EXCEPT ![s] = {}]
    /\ rowLocks' = [rowLocks EXCEPT ![s] = {}]
    /\ req'      = [req EXCEPT ![s] = NoRequest]

\* RAISE EXCEPTION, or a return that writes nothing
Returns(s) == Ends(s) /\ UNCHANGED <<tables, raced>>

\* An error, a deadlock or a lost connection
Abort(s) == at[s] # "idle" /\ Returns(s)

Goes(s, place) ==
    /\ at' = [at EXCEPT ![s] = place]
    /\ UNCHANGED <<tables, raced, req, kept>>

-----------------------------------------------------------------------------
(* admin_assign_team_coach                                                  *)

ReadTeam(s) ==
    /\ Runs(s, "assign", "begun")
    /\ same' = [same EXCEPT ![s] = head[req[s].team] = req[s].coach]
    /\ Goes(s, IF req[s].coach = NoCoach THEN "writing" ELSE "waiting")
    /\ UNCHANGED <<lock, rowLocks>>

\* Mutant: the lock is tried and its answer ignored.
TryLock(s) ==
    /\ Runs(s, "assign", "waiting")
    /\ lock' = [lock EXCEPT ![req[s].coach] = IF @ = Free THEN s ELSE @]
    /\ Goes(s, "locked")
    /\ UNCHANGED <<same, rowLocks>>

TakeLock(s) ==
    /\ Runs(s, "assign", "waiting")
    /\ lock[req[s].coach] = Free
    /\ lock' = [lock EXCEPT ![req[s].coach] = s]
    /\ Goes(s, "locked")
    /\ UNCHANGED <<same, rowLocks>>

ReadCoach(s) ==
    /\ Runs(s, "assign", "locked")
    /\ IF coachStatus[req[s].coach] \in Usable
       THEN Goes(s, "checked") /\ UNCHANGED <<lock, same, rowLocks>>
       ELSE Returns(s)

CountTeams(s) ==
    /\ Runs(s, "assign", "checked")
    /\ IF req[s].coach \in Multi \/ Heads(req[s].coach) \subseteq {req[s].team}
       THEN Goes(s, "writing") /\ UNCHANGED <<lock, same, rowLocks>>
       ELSE Returns(s)

\* The foreign key rejects a coach deleted since it was read.
AssignTeam(s) ==
    /\ Runs(s, "assign", "writing")
    /\ IF same[s] THEN Returns(s)
       ELSE /\ RowFree(s, req[s].team)
            /\ IF req[s].coach = NoCoach \/ Exists(req[s].coach)
               THEN /\ head' = [head EXCEPT ![req[s].team] = req[s].coach]
                    /\ scheduled' = scheduled \ {req[s].team}
                    /\ Ends(s) /\ UNCHANGED <<coachStatus, assistants, raced>>
               ELSE Returns(s)

-----------------------------------------------------------------------------
(* admin_update_coach_status                                                *)

ReadStatus(s) ==
    /\ Runs(s, "status", "begun")
    /\ IF Exists(req[s].coach)
       THEN /\ same' = [same EXCEPT ![s] = coachStatus[req[s].coach] = req[s].status]
            /\ Goes(s, "checked") /\ UNCHANGED <<lock, rowLocks>>
       ELSE Returns(s)

CountHeads(s) ==
    /\ Runs(s, "status", "checked")
    /\ IF req[s].status \in Usable \/ Heads(req[s].coach) = {}
       THEN Goes(s, "writing") /\ UNCHANGED <<lock, same, rowLocks>>
       ELSE Returns(s)

SetStatus(c, status) ==
    coachStatus' = [coachStatus EXCEPT ![c] = IF Exists(c) THEN status ELSE @]

UpdateStatus(s) ==
    /\ Runs(s, "status", "writing")
    /\ IF same[s] THEN Returns(s)
       ELSE /\ SetStatus(req[s].coach, req[s].status)
            /\ Ends(s) /\ UNCHANGED <<head, assistants, scheduled, raced>>

-----------------------------------------------------------------------------
(* A row of finalize_coach_import_job that makes a coach inactive: between   *)
(* its look at the teams and its commit come the other rows of the file.    *)

CheckAssigned(s, op) ==
    /\ Runs(s, op, "begun")
    /\ IF Exists(req[s].coach) /\ ~Assigned(req[s].coach)
       THEN Goes(s, "writing") /\ UNCHANGED <<lock, same, rowLocks>>
       ELSE Returns(s)

Deactivate(s) ==
    /\ Runs(s, "deactivate", "writing")
    /\ SetStatus(req[s].coach, "inactive")
    /\ Ends(s) /\ UNCHANGED <<head, assistants, scheduled, raced>>

\* rollback_coach_import_job, for a coach the job updated: the previous status
\* is written back, whatever teams he heads by now.
Restore(s) ==
    /\ Runs(s, "restore", "begun")
    /\ SetStatus(req[s].coach, req[s].status)
    /\ raced' = raced \cup {req[s].coach}
    /\ Ends(s) /\ UNCHANGED <<head, assistants, scheduled>>

-----------------------------------------------------------------------------
(* Deletes: the foreign key sets coach_id to NULL, nothing guards the array *)
(* of assistants.                                                           *)

DeleteRow(s, scrubbed) ==
    LET c == req[s].coach IN
    /\ coachStatus' = [coachStatus EXCEPT ![c] = "deleted"]
    /\ head'        = [t \in Teams |-> IF head[t] = c THEN NoCoach ELSE head[t]]
    /\ assistants'  = [t \in Teams |-> IF t \in scrubbed THEN assistants[t] \ {c}
                                       ELSE assistants[t]]
    /\ Ends(s) /\ UNCHANGED <<scheduled, raced>>

\* admin_delete_coaches updates the teams he heads, then those he assists.
\* Each update waits for the rows it changes and locks them; what it wrote is
\* seen by nobody before the commit.
Locks(s, T) ==
    /\ \A t \in T : RowFree(s, t)
    /\ rowLocks' = [rowLocks EXCEPT ![s] = @ \cup T]

Assists(c) == {t \in Teams : c \in assistants[t]}

ScrubHeads(s) ==
    /\ Runs(s, "delete", "begun")
    /\ IF Exists(req[s].coach)
       THEN Locks(s, Heads(req[s].coach)) /\ Goes(s, "scrubbing") /\ UNCHANGED <<lock, same>>
       ELSE Returns(s)

\* Mutant: the second update looks for teams he heads.
ScrubHeadsAgain(s) ==
    /\ Runs(s, "delete", "scrubbing")
    /\ Locks(s, Heads(req[s].coach))
    /\ Goes(s, "writing")
    /\ UNCHANGED <<lock, same>>

ScrubAssistants(s) ==
    /\ Runs(s, "delete", "scrubbing")
    /\ Locks(s, Assists(req[s].coach))
    /\ Goes(s, "writing")
    /\ UNCHANGED <<lock, same>>

DeleteCoach(s) ==
    /\ Runs(s, "delete", "writing")
    /\ DeleteRow(s, rowLocks[s])

\* rollback_coach_import_job, for a coach the job inserted
Retract(s) ==
    /\ Runs(s, "retract", "writing")
    /\ DeleteRow(s, {})

-----------------------------------------------------------------------------
(* persist_team_schedule, for one team: it validates the head coach and     *)
(* keeps the assistants that exist, then the upsert waits for the row.  A    *)
(* payload without the key leaves the team the assistants it has.           *)

ReadReferences(s) ==
    /\ Runs(s, "persist", "begun")
    /\ IF req[s].coach = NoCoach \/ Exists(req[s].coach)
       THEN /\ kept' = [kept EXCEPT ![s] = {c \in req[s].assistants : Exists(c)}]
            /\ at'   = [at EXCEPT ![s] = "writing"]
            /\ UNCHANGED <<tables, raced, req, lock, same, rowLocks>>
       ELSE Returns(s)

UpsertTeam(s) ==
    /\ Runs(s, "persist", "writing")
    /\ RowFree(s, req[s].team)
    /\ IF req[s].coach = NoCoach \/ Exists(req[s].coach)
       THEN /\ head' = [head EXCEPT ![req[s].team] = req[s].coach]
            /\ scheduled' = scheduled \cup {req[s].team}
            /\ \/ assistants' = [assistants EXCEPT ![req[s].team] = kept[s]]
               \/ UNCHANGED assistants
            /\ Ends(s) /\ UNCHANGED <<coachStatus, raced>>
       ELSE Returns(s)

-----------------------------------------------------------------------------
Step(s) ==
    \/ ReadTeam(s) \/ TakeLock(s) \/ ReadCoach(s) \/ CountTeams(s) \/ AssignTeam(s)
    \/ ReadStatus(s) \/ CountHeads(s) \/ UpdateStatus(s)
    \/ CheckAssigned(s, "deactivate") \/ Deactivate(s) \/ Restore(s)
    \/ ScrubHeads(s) \/ ScrubAssistants(s) \/ DeleteCoach(s)
    \/ CheckAssigned(s, "retract") \/ Retract(s)
    \/ ReadReferences(s) \/ UpsertTeam(s)

Next == \E s \in Sessions : Step(s) \/ Abort(s) \/ \E q \in Requests : Begin(s, q)

Spec == Init /\ [][Next]_vars

\* Rows of teams the next statement of session s has to have.
Wants(s) ==
    IF Runs(s, "delete", "begun") THEN Heads(req[s].coach)
    ELSE IF Runs(s, "delete", "scrubbing") THEN Assists(req[s].coach)
    ELSE IF Runs(s, "assign", "writing") \/ Runs(s, "persist", "writing") THEN {req[s].team}
    ELSE {}

\* Each session of D waits for another of D.
Deadlocked(s) ==
    \E D \in SUBSET Sessions :
        s \in D /\ \A i \in D : \E k \in D \ {i} : Wants(i) \cap rowLocks[k] # {}

\* A running function gets on with its next statement; the lock manager
\* serves waiting transactions in turn, so a lock that keeps coming free is
\* had in the end, and ends a deadlock by the failure of one in it.
Fairness ==
    /\ \A s \in Sessions :
           /\ WF_vars(Step(s))
           /\ SF_vars(TakeLock(s) \/ ScrubHeads(s) \/ ScrubAssistants(s)
                      \/ AssignTeam(s) \/ UpsertTeam(s))
    /\ WF_vars(\E s \in Sessions : Deadlocked(s) /\ Abort(s))

FairSpec == Spec /\ Fairness

-----------------------------------------------------------------------------
(* Safety.                                                                  *)

\* Heads given by hand, not by a schedule: persist_team_schedule does not
\* look at can_coach_multiple_teams.
HandGiven(c) == Heads(c) \ scheduled

\* A coach who may not coach several teams is never given a second one by hand,
\* however the calls of the sessions interleave, persisted schedules included.
SingleTeamCoaches == \A c \in Coaches \ Multi : \A t, u \in HandGiven(c) : t = u

\* No team is headed by a deleted coach, although the function that assigns
\* read the coach several statements before it wrote.
HeadsExist == \A t \in Teams : head[t] # NoCoach => Exists(head[t])

\* Teams are headed by coaches who exist and may head them.
HeadsSound == SingleTeamCoaches /\ HeadsExist

\* Only calls that overlap, or a rollback, leave a team with a coach it should
\* not have: any other coach who was given a team by hand may still coach, and
\* is no team's assistant once he is deleted, whatever failed on the way.
UncontestedSound ==
    \A c \in Coaches \ raced :
        /\ HandGiven(c) # {} => coachStatus[c] \in Usable
        /\ ~Exists(c) => Assists(c) = {}

\* A transaction that ended holds no lock and no row.
IdleHoldsNothing ==
    \A s \in Sessions : at[s] = "idle" =>
        rowLocks[s] = {} /\ \A c \in Coaches : lock[c] # s

\* Every call comes to an end.
CallsEnd == \A s \in Sessions : at[s] # "idle" ~> at[s] = "idle"

\* What makes SingleTeamCoaches inductive: from the lock to the commit an
\* assignment owns its coach, so what it counted is still so when it writes.
LockOwned ==
    \A s \in Sessions :
        req[s].op = "assign" /\ req[s].coach # NoCoach
            /\ at[s] \in {"locked", "checked", "writing"} => lock[req[s].coach] = s

CountHolds ==
    \A s \in Sessions :
        Runs(s, "assign", "writing") /\ req[s].coach \in Coaches \ Multi
            => HandGiven(req[s].coach) \subseteq {req[s].team}

AssignInv == TypeOK /\ LockOwned /\ CountHolds /\ SingleTeamCoaches
=============================================================================
