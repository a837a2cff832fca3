----------------------- MODULE CoachAssignmentProofs -----------------------
(***************************************************************************)
(* Proofs about CoachAssignment, for any number of sessions, coaches and   *)
(* teams: type correctness, that single-team coaches stay single-team and  *)
(* heads exist, and that only calls that overlap, or a rollback, leave a   *)
(* team with a coach it should not have.                                   *)
(***************************************************************************)
EXTENDS CoachAssignment, TLAPS

USE DEF Places, Usable, Statuses, Ops, CoachOps, Released

\* The sets of calls and statuses named in the module are what it says.
LEMMA RequestFields ==
    ASSUME TypeOK, NEW s \in Sessions
    PROVE  /\ req[s].op \in Ops
           /\ req[s].team \in Teams
           /\ req[s].coach \in Coaches \cup {NoCoach}
           /\ req[s].status \in Statuses
           /\ req[s].assistants \in SUBSET Coaches
           /\ req[s].op \in CoachOps => req[s].coach \in Coaches
  BY AssignmentAssumption DEF TypeOK, RequestType

\* A transaction that ends, or goes on, keeps the types of the bookkeeping.
LEMMA EndsType ==
    ASSUME TypeOK, NEW s \in Sessions, Ends(s)
    PROVE  /\ lock' \in [Coaches -> Sessions \cup {Free}]
           /\ at' \in [Sessions -> Places]
           /\ req' \in [Sessions -> Requests]
           /\ same' \in [Sessions -> BOOLEAN]
           /\ kept' \in [Sessions -> SUBSET Coaches]
           /\ rowLocks' \in [Sessions -> SUBSET Teams]
  BY AssignmentAssumption DEF TypeOK, Ends, NoRequest

LEMMA ReturnsType ==
    ASSUME TypeOK, NEW s \in Sessions, Returns(s)
    PROVE  TypeOK'
  BY EndsType DEF TypeOK, Returns, tables

\* No statement of any function leaves the types of the tables.
LEMMA TypeStep == TypeOK /\ [Next]_vars => TypeOK'
<1> SUFFICES ASSUME TypeOK, [Next]_vars PROVE TypeOK'
  OBVIOUS
<1>1. CASE UNCHANGED vars
  BY <1>1 DEF TypeOK, vars, tables
<1>2. ASSUME NEW s \in Sessions, NEW q \in Requests, Begin(s, q) PROVE TypeOK'
  <2>1. q.op \in CoachOps => q.coach \in Coaches
    BY AssignmentAssumption DEF RequestType
  <2>2. raced' \in SUBSET Coaches
    BY <1>2, <2>1, RequestFields DEF TypeOK, Begin, Running, MayMiss, Lowers, Deletes
  <2> QED BY <1>2, <2>2 DEF TypeOK, Begin, tables
<1>3. ASSUME NEW s \in Sessions, Step(s) PROVE TypeOK'
  <2> USE RequestFields, ReturnsType
  <2>1. CASE ReadTeam(s)
    BY <2>1 DEF TypeOK, ReadTeam, Goes, tables
  <2>2. CASE TakeLock(s)
    BY <2>2 DEF TypeOK, TakeLock, Goes, tables
  <2>3. CASE ReadCoach(s)
    BY <2>3 DEF TypeOK, ReadCoach, Goes, tables
  <2>4. CASE CountTeams(s)
    BY <2>4 DEF TypeOK, CountTeams, Goes, tables
  <2>5. CASE AssignTeam(s)
    <3>1. CASE Returns(s)
      BY <3>1
    <3>2. CASE /\ head' = [head EXCEPT ![req[s].team] = req[s].coach]
               /\ scheduled' = scheduled \ {req[s].team}
               /\ Ends(s) /\ UNCHANGED <<coachStatus, assistants, raced>>
      BY <3>2, EndsType DEF TypeOK
    <3> QED BY <2>5, <3>1, <3>2 DEF AssignTeam
  <2>6. CASE ReadStatus(s)
    BY <2>6 DEF TypeOK, ReadStatus, Goes, tables
  <2>7. CASE CountHeads(s)
    BY <2>7 DEF TypeOK, CountHeads, Goes, tables
  <2>8. CASE UpdateStatus(s)
    <3>1. CASE Returns(s)
      BY <3>1
    <3>2. CASE /\ SetStatus(req[s].coach, req[s].status)
               /\ Ends(s) /\ UNCHANGED <<head, assistants, scheduled, raced>>
      BY <3>2, EndsType DEF TypeOK, SetStatus
    <3> QED BY <2>8, <3>1, <3>2 DEF UpdateStatus
  <2>9. ASSUME NEW op \in {"deactivate", "retract"}, CheckAssigned(s, op) PROVE TypeOK'
    BY <2>9 DEF TypeOK, CheckAssigned, Goes, tables
  <2>10. CASE Deactivate(s)
    BY <2>10, EndsType DEF TypeOK, Deactivate, SetStatus
  <2>11. CASE ScrubHeads(s) \/ ScrubAssistants(s)
    BY <2>11 DEF TypeOK, ScrubHeads, ScrubAssistants, Locks, Heads, Assists, Goes, tables
  <2>12. ASSUME NEW S \in SUBSET Teams, DeleteRow(s, S) PROVE TypeOK'
    BY <2>12, EndsType DEF TypeOK, DeleteRow
  <2>13. CASE DeleteCoach(s)
    BY <2>12, <2>13 DEF DeleteCoach, TypeOK
  <2>14. CASE Retract(s)
    BY <2>12, <2>14 DEF Retract
  <2>15. CASE ReadReferences(s)
    <3>1. {c \in req[s].assistants : Exists(c)} \in SUBSET Coaches
      BY AssignmentAssumption DEF TypeOK, RequestType
    <3> QED BY <2>15, <3>1 DEF TypeOK, ReadReferences, tables
  <2>16. CASE UpsertTeam(s)
    <3>1. CASE Returns(s)
      BY <3>1
    <3>2. CASE /\ head' = [head EXCEPT ![req[s].team] = req[s].coach]
               /\ scheduled' = scheduled \cup {req[s].team}
               /\ \/ assistants' = [assistants EXCEPT ![req[s].team] = kept[s]]
                  \/ UNCHANGED assistants
               /\ Ends(s) /\ UNCHANGED <<coachStatus, raced>>
      BY <3>2, EndsType DEF TypeOK
    <3> QED BY <2>16, <3>1, <3>2 DEF UpsertTeam
  <2>17. CASE Restore(s)
    BY <2>17, EndsType DEF TypeOK, Restore, Runs, SetStatus
  <2> QED BY <1>3, <2>1, <2>2, <2>3, <2>4, <2>5, <2>6, <2>7, <2>8, <2>9, <2>10, <2>11,
             <2>13, <2>14, <2>15, <2>16, <2>17 DEF Step
<1>4. ASSUME NEW s \in Sessions, Abort(s) PROVE TypeOK'
  BY <1>4, ReturnsType DEF Abort
<1> QED BY <1>1, <1>2, <1>3, <1>4 DEF Next

-----------------------------------------------------------------------------
(* What one session's step may do to another session and to the teams.      *)

Keeps(i) ==
    /\ at'[i] = at[i] /\ req'[i] = req[i] /\ kept'[i] = kept[i] /\ rowLocks'[i] = rowLocks[i]
    /\ \A c \in Coaches : lock[c] = i => lock'[c] = i

LEMMA OthersKeep ==
    ASSUME TypeOK, NEW s \in Sessions, NEW i \in Sessions \ {s},
           Step(s) \/ Abort(s) \/ \E q \in Requests : Begin(s, q)
    PROVE  Keeps(i)
<1> USE DEF Keeps
<1>1. ASSUME Ends(s) PROVE Keeps(i)
  BY <1>1 DEF Ends, TypeOK
<1>2. ASSUME NEW place \in Places, Goes(s, place), UNCHANGED <<lock, rowLocks>> PROVE Keeps(i)
  BY <1>2 DEF Goes, TypeOK
<1>3. CASE TakeLock(s)
  BY <1>3, AssignmentAssumption DEF TakeLock, Goes, TypeOK
<1>4. CASE \E q \in Requests : Begin(s, q)
  BY <1>4 DEF Begin, TypeOK
<1>5. CASE ReadReferences(s)
  BY <1>1, <1>5 DEF ReadReferences, Returns, TypeOK
<1>6. CASE ReadTeam(s) \/ ReadCoach(s) \/ CountTeams(s) \/ ReadStatus(s) \/ CountHeads(s)
           \/ CheckAssigned(s, "deactivate") \/ CheckAssigned(s, "retract")
  BY <1>1, <1>2, <1>6 DEF ReadTeam, ReadCoach, CountTeams, ReadStatus, CountHeads,
                          CheckAssigned, Returns
<1>7. CASE AssignTeam(s) \/ UpdateStatus(s) \/ Deactivate(s) \/ Restore(s) \/ DeleteCoach(s)
           \/ Retract(s) \/ UpsertTeam(s) \/ Abort(s)
  BY <1>1, <1>7 DEF AssignTeam, UpdateStatus, Deactivate, Restore, DeleteCoach, Retract,
                    DeleteRow, UpsertTeam, Returns, Abort
<1>8. CASE ScrubHeads(s) \/ ScrubAssistants(s)
  BY <1>1, <1>8 DEF ScrubHeads, ScrubAssistants, Locks, Goes, Returns, TypeOK
<1> QED BY <1>3, <1>4, <1>5, <1>6, <1>7, <1>8 DEF Step

\* Where a session is after its own step: it either ended, or it runs the
\* same call and holds what an assignment holds there.
LEMMA OwnStep ==
    ASSUME TypeOK, LockOwned, NEW s \in Sessions, Step(s) \/ Abort(s)
    PROVE  \/ at'[s] = "idle"
           \/ /\ req'[s] = req[s]
              /\ req[s].op = "assign" /\ req[s].coach # NoCoach
                     /\ at'[s] \in {"locked", "checked", "writing"}
                     => lock'[req[s].coach] = s
<1> USE RequestFields DEF TypeOK
<1>1. ASSUME Ends(s) PROVE at'[s] = "idle"
  BY <1>1 DEF Ends
<1>2. CASE ReadTeam(s)
  BY <1>2 DEF ReadTeam, Goes, Runs
<1>3. CASE TakeLock(s)
  BY <1>3 DEF TakeLock, Goes, Runs
<1>4. CASE ReadCoach(s)
  BY <1>1, <1>4 DEF ReadCoach, Goes, Runs, LockOwned, Returns
<1>5. CASE CountTeams(s)
  BY <1>1, <1>5 DEF CountTeams, Goes, Runs, LockOwned, Returns
<1>6. CASE ReadStatus(s) \/ CountHeads(s) \/ ScrubHeads(s) \/ ScrubAssistants(s)
  BY <1>1, <1>6 DEF ReadStatus, CountHeads, ScrubHeads, ScrubAssistants, Goes, Runs, Returns
<1>7. CASE CheckAssigned(s, "deactivate") \/ CheckAssigned(s, "retract")
  BY <1>1, <1>7 DEF CheckAssigned, Goes, Runs, Returns
<1>8. CASE ReadReferences(s)
  BY <1>1, <1>8 DEF ReadReferences, Runs, Returns
<1>9. CASE AssignTeam(s) \/ UpdateStatus(s) \/ Deactivate(s) \/ Restore(s) \/ DeleteCoach(s)
           \/ Retract(s) \/ UpsertTeam(s) \/ Abort(s)
  BY <1>1, <1>9 DEF AssignTeam, UpdateStatus, Deactivate, Restore, DeleteCoach, Retract,
                    DeleteRow, UpsertTeam, Returns, Abort
<1> QED BY <1>2, <1>3, <1>4, <1>5, <1>6, <1>7, <1>8, <1>9 DEF Step

\* By hand, a team gets a coach only from an assignment that has counted,
\* and that assignment then ends.
LEMMA HeadEffect ==
    ASSUME TypeOK, NEW s \in Sessions, Step(s) \/ Abort(s),
           NEW t \in Teams, t \notin scheduled'
    PROVE  \/ head'[t] \in {head[t], NoCoach} /\ t \notin scheduled
           \/ /\ Runs(s, "assign", "writing") /\ at'[s] = "idle"
              /\ t = req[s].team /\ head'[t] = req[s].coach
<1> USE DEF TypeOK, tables
<1>1. CASE ReadTeam(s) \/ TakeLock(s) \/ ReadCoach(s) \/ CountTeams(s) \/ ReadStatus(s)
           \/ CountHeads(s) \/ CheckAssigned(s, "deactivate") \/ CheckAssigned(s, "retract")
           \/ ScrubHeads(s) \/ ScrubAssistants(s) \/ Abort(s)
  <2>1. head' = head /\ scheduled' = scheduled
    BY <1>1 DEF ReadTeam, TakeLock, ReadCoach, CountTeams, ReadStatus, CountHeads,
                CheckAssigned, ScrubHeads, ScrubAssistants, Goes, Returns, Abort
  <2> QED BY <2>1
<1>2. CASE AssignTeam(s)
  BY <1>2, RequestFields DEF AssignTeam, Returns, Ends
<1>3. CASE UpdateStatus(s) \/ Deactivate(s) \/ Restore(s)
  BY <1>3 DEF UpdateStatus, Deactivate, Restore, Returns
<1>4. CASE DeleteCoach(s) \/ Retract(s)
  BY <1>4 DEF DeleteCoach, Retract, DeleteRow
<1>5. CASE ReadReferences(s) \/ UpsertTeam(s)
  BY <1>5 DEF ReadReferences, UpsertTeam, Returns
<1> QED BY <1>1, <1>2, <1>3, <1>4, <1>5 DEF Step

\* An assignment that reaches its write has just counted the other teams.
LEMMA CountedNow ==
    ASSUME TypeOK, NEW s \in Sessions, Step(s),
           at'[s] = "writing", req[s].op = "assign", req[s].coach \in Coaches \ Multi
    PROVE  Heads(req[s].coach) \subseteq {req[s].team} /\ head' = head /\ scheduled' = scheduled
<1> USE AssignmentAssumption DEF TypeOK, tables
<1>1. ~Ends(s)
  BY DEF Ends
<1>2. CASE ReadTeam(s) \/ TakeLock(s) \/ ReadCoach(s)
  BY <1>1, <1>2 DEF ReadTeam, TakeLock, ReadCoach, Goes, Returns
<1>3. CASE CountTeams(s)
  BY <1>1, <1>3 DEF CountTeams, Goes, Returns
<1>4. CASE AssignTeam(s)
  BY <1>1, <1>4 DEF AssignTeam, Returns
<1> QED BY <1>2, <1>3, <1>4 DEF Step, Runs, ReadStatus, CountHeads, UpdateStatus, CheckAssigned,
           Deactivate, Restore, ScrubHeads, ScrubAssistants, DeleteCoach, Retract,
           ReadReferences, UpsertTeam

-----------------------------------------------------------------------------
LEMMA LockOwnedStep == TypeOK /\ LockOwned /\ [Next]_vars => LockOwned'
<1> SUFFICES ASSUME TypeOK, LockOwned, [Next]_vars, NEW i \in Sessions,
                    req'[i].op = "assign", req'[i].coach # NoCoach,
                    at'[i] \in {"locked", "checked", "writing"}
             PROVE  lock'[req'[i].coach] = i
  BY DEF LockOwned
<1>1. CASE UNCHANGED vars
  BY <1>1 DEF LockOwned, vars
<1>2. ASSUME NEW s \in Sessions, i # s, Step(s) \/ Abort(s) \/ \E q \in Requests : Begin(s, q)
      PROVE  lock'[req'[i].coach] = i
  <2>1. at'[i] = at[i] /\ req'[i] = req[i]
    BY <1>2, OthersKeep DEF Keeps
  <2>2. lock[req[i].coach] = i /\ req[i].coach \in Coaches
    BY <2>1, RequestFields DEF LockOwned
  <2> QED BY <1>2, <2>1, <2>2, OthersKeep DEF Keeps
<1>3. CASE Step(i) \/ Abort(i)
  BY <1>3, OwnStep
<1>4. CASE \E q \in Requests : Begin(i, q)
  BY <1>4 DEF Begin, TypeOK
<1> QED BY <1>1, <1>2, <1>3, <1>4 DEF Next

\* While an assignment waits to write, no other session gives its coach a
\* team: that session would have to own the coach's lock too.
LEMMA CountHoldsStep ==
    TypeOK /\ LockOwned /\ CountHolds /\ [Next]_vars => CountHolds'
<1> SUFFICES ASSUME TypeOK, LockOwned, CountHolds, [Next]_vars, NEW i \in Sessions,
                    Runs(i, "assign", "writing")', req'[i].coach \in Coaches \ Multi,
                    NEW t \in Teams, head'[t] = req'[i].coach, t \notin scheduled'
             PROVE  t = req'[i].team
  BY DEF CountHolds, HandGiven, Heads
<1> USE AssignmentAssumption
<1>1. CASE UNCHANGED vars
  BY <1>1 DEF CountHolds, vars, tables, HandGiven, Heads, Runs
<1>2. ASSUME NEW s \in Sessions, i # s, Step(s) \/ Abort(s) \/ \E q \in Requests : Begin(s, q)
      PROVE  t = req'[i].team
  <2>1. at'[i] = at[i] /\ req'[i] = req[i]
    BY <1>2, OthersKeep DEF Keeps
  <2>2. /\ lock[req[i].coach] = i
        /\ \A u \in Teams : head[u] = req[i].coach /\ u \notin scheduled => u = req[i].team
    BY <2>1 DEF LockOwned, CountHolds, HandGiven, Heads, Runs
  <2>3. CASE Step(s) \/ Abort(s)
    <3>1. ~(Runs(s, "assign", "writing") /\ req[s].coach = req[i].coach)
      BY <1>2, <2>1, <2>2 DEF LockOwned, Runs
    <3>2. head'[t] \in {head[t], NoCoach} /\ t \notin scheduled
      BY <2>1, <2>3, <3>1, HeadEffect
    <3> QED BY <2>1, <2>2, <3>2
  <2>4. CASE \E q \in Requests : Begin(s, q)
    BY <2>1, <2>2, <2>4 DEF Begin, tables
  <2> QED BY <1>2, <2>3, <2>4
<1>3. CASE Step(i)
  <2>1. at'[i] = "writing" /\ req'[i] = req[i] /\ req[i].op = "assign"
    BY <1>3, OwnStep DEF Runs
  <2> QED BY <1>3, <2>1, CountedNow DEF HandGiven, Heads
<1>4. CASE \E q \in Requests : Begin(i, q)
  BY <1>4 DEF Begin, TypeOK, Runs
<1>5. CASE Abort(i)
  BY <1>5 DEF Abort, Returns, Ends, TypeOK, Runs
<1> QED BY <1>1, <1>2, <1>3, <1>4, <1>5 DEF Next

LEMMA SingleTeamStep ==
    TypeOK /\ CountHolds /\ SingleTeamCoaches /\ [Next]_vars => SingleTeamCoaches'
<1> SUFFICES ASSUME TypeOK, CountHolds, SingleTeamCoaches, [Next]_vars,
                    NEW c \in Coaches \ Multi, NEW t \in Teams, NEW u \in Teams,
                    head'[t] = c, head'[u] = c, t \notin scheduled', u \notin scheduled'
             PROVE  t = u
  BY DEF SingleTeamCoaches, HandGiven, Heads
<1> USE AssignmentAssumption
<1>1. head[t] = c /\ head[u] = c /\ t \notin scheduled /\ u \notin scheduled => t = u
  BY DEF SingleTeamCoaches, HandGiven, Heads
<1>2. CASE UNCHANGED vars
  BY <1>1, <1>2 DEF vars, tables
<1>3. ASSUME NEW s \in Sessions, Step(s) \/ Abort(s) PROVE t = u
  <2>1. ASSUME NEW v \in Teams, head'[v] = c, v \notin scheduled',
               head[v] # c \/ v \in scheduled
        PROVE  Runs(s, "assign", "writing") /\ v = req[s].team /\ req[s].coach = c
    BY <1>3, <2>1, HeadEffect
  <2>2. ASSUME Runs(s, "assign", "writing"), req[s].coach = c, NEW v \in Teams, head[v] = c,
               v \notin scheduled
        PROVE  v = req[s].team
    BY <2>2 DEF CountHolds, HandGiven, Heads
  <2> QED BY <1>1, <2>1, <2>2
<1>4. ASSUME NEW s \in Sessions, NEW q \in Requests, Begin(s, q) PROVE t = u
  BY <1>1, <1>4 DEF Begin, tables
<1> QED BY <1>2, <1>3, <1>4 DEF Next

LEMMA InitInv == Init => AssignInv
<1> SUFFICES ASSUME Init PROVE AssignInv
  OBVIOUS
<1>1. TypeOK
  BY AssignmentAssumption DEF Init, TypeOK, NoRequest
<1>2. LockOwned /\ CountHolds /\ SingleTeamCoaches
  BY AssignmentAssumption
  DEF Init, LockOwned, CountHolds, SingleTeamCoaches, HandGiven, Heads, Runs
<1> QED BY <1>1, <1>2 DEF AssignInv

LEMMA InvStep == AssignInv /\ [Next]_vars => AssignInv'
  BY TypeStep, LockOwnedStep, CountHoldsStep, SingleTeamStep DEF AssignInv

\* The inductive invariant holds in every run, under any interleaving.
LEMMA Invariance == Spec => []AssignInv
  BY InitInv, InvStep, PTL DEF Spec

\* Every table and every session keeps its type.
THEOREM TypeCorrect == Spec => []TypeOK
  BY Invariance, PTL DEF AssignInv

\* However many sessions assign coaches, change statuses, import, roll back,
\* delete and persist schedules at once, admin_assign_team_coach never gives a
\* second team to a coach who may have one: its advisory lock keeps the count
\* valid until the write.
THEOREM CapacityRespected == Spec => []SingleTeamCoaches
  BY Invariance, PTL DEF AssignInv

-----------------------------------------------------------------------------
(* Foreign keys and locks.                                                  *)

LEMMA HeadsExistStep == TypeOK /\ HeadsExist /\ [Next]_vars => HeadsExist'
<1> SUFFICES ASSUME TypeOK, HeadsExist, [Next]_vars, NEW t \in Teams, head'[t] # NoCoach
             PROVE  Exists(head[t])'
  BY DEF HeadsExist
<1> USE AssignmentAssumption DEF TypeOK, tables
<1>1. head[t] # NoCoach => Exists(head[t])
  BY DEF HeadsExist
<1>2. CASE UNCHANGED vars
  BY <1>1, <1>2 DEF vars, Exists
<1>3. ASSUME NEW s \in Sessions, NEW q \in Requests, Begin(s, q) PROVE Exists(head[t])'
  BY <1>1, <1>3 DEF Begin, Exists
<1>4. ASSUME NEW s \in Sessions, Step(s) \/ Abort(s) PROVE Exists(head[t])'
  <2>1. CASE UNCHANGED <<head, coachStatus>>
    BY <1>1, <2>1 DEF Exists
  <2>2. CASE AssignTeam(s) \/ UpsertTeam(s)
    <3>1. CASE head' = head
      BY <1>1, <2>2, <3>1 DEF AssignTeam, UpsertTeam, Returns, Exists
    <3>2. CASE /\ head' = [head EXCEPT ![req[s].team] = req[s].coach]
               /\ req[s].coach = NoCoach \/ Exists(req[s].coach)
      BY <1>1, <2>2, <3>2 DEF AssignTeam, UpsertTeam, Returns, Exists
    <3> QED BY <2>2, <3>1, <3>2 DEF AssignTeam, UpsertTeam, Returns
  <2>3. ASSUME NEW c \in Coaches, NEW st \in Statuses, SetStatus(c, st), head' = head
        PROVE  Exists(head[t])'
    BY <1>1, <2>3 DEF SetStatus, Exists
  <2>4. CASE UpdateStatus(s) \/ Deactivate(s) \/ Restore(s)
    <3>1. req[s].status \in Statuses /\ req[s].op \in {"status", "deactivate", "restore"}
      BY <2>4, RequestFields DEF UpdateStatus, Deactivate, Restore, Runs
    <3>2. req[s].coach \in Coaches
      BY <3>1, RequestFields
    <3> QED BY <2>1, <2>3, <2>4, <3>1, <3>2 DEF UpdateStatus, Deactivate, Restore, Returns
  <2>5. ASSUME NEW S \in SUBSET Teams, DeleteRow(s, S), req[s].coach \in Coaches
        PROVE  Exists(head[t])'
    BY <1>1, <2>5 DEF DeleteRow, Exists
  <2>6. CASE DeleteCoach(s) \/ Retract(s)
    BY <2>5, <2>6, RequestFields DEF DeleteCoach, Retract, Runs
  <2>7. CASE ReadTeam(s) \/ TakeLock(s) \/ ReadCoach(s) \/ CountTeams(s) \/ ReadStatus(s)
             \/ CountHeads(s) \/ CheckAssigned(s, "deactivate") \/ CheckAssigned(s, "retract")
             \/ ScrubHeads(s) \/ ScrubAssistants(s) \/ ReadReferences(s) \/ Abort(s)
    <3>1. UNCHANGED <<head, coachStatus>>
      BY <2>7 DEF ReadTeam, TakeLock, ReadCoach, CountTeams, ReadStatus, CountHeads,
                  CheckAssigned, ScrubHeads, ScrubAssistants, ReadReferences, Goes, Returns, Abort
    <3> QED BY <2>1, <3>1
  <2> QED BY <1>4, <2>2, <2>4, <2>6, <2>7 DEF Step
<1> QED BY <1>2, <1>3, <1>4 DEF Next

LEMMA IdleStep == TypeOK /\ IdleHoldsNothing /\ [Next]_vars => IdleHoldsNothing'
<1> SUFFICES ASSUME TypeOK, IdleHoldsNothing, [Next]_vars, NEW i \in Sessions, at'[i] = "idle"
             PROVE  rowLocks'[i] = {} /\ \A c \in Coaches : lock'[c] # i
  BY DEF IdleHoldsNothing
<1> USE AssignmentAssumption DEF TypeOK
<1>1. at[i] = "idle" => rowLocks[i] = {} /\ \A c \in Coaches : lock[c] # i
  BY DEF IdleHoldsNothing
<1>2. CASE UNCHANGED vars
  BY <1>1, <1>2 DEF vars
<1>3. ASSUME NEW s \in Sessions, NEW q \in Requests, Begin(s, q)
      PROVE  rowLocks'[i] = {} /\ \A c \in Coaches : lock'[c] # i
  BY <1>1, <1>3 DEF Begin
<1>4. ASSUME NEW s \in Sessions, Step(s) \/ Abort(s)
      PROVE  rowLocks'[i] = {} /\ \A c \in Coaches : lock'[c] # i
  <2>1. CASE Ends(s)
    BY <1>1, <2>1 DEF Ends
  <2>2. ASSUME NEW place \in Places, place # "idle", Goes(s, place),
               UNCHANGED <<lock, rowLocks>>
        PROVE  rowLocks'[i] = {} /\ \A c \in Coaches : lock'[c] # i
    BY <1>1, <2>2 DEF Goes
  <2>3. CASE TakeLock(s)
    BY <1>1, <2>3 DEF TakeLock, Goes
  <2>4. CASE ScrubHeads(s) \/ ScrubAssistants(s)
    BY <1>1, <2>1, <2>4 DEF ScrubHeads, ScrubAssistants, Locks, Goes, Returns
  <2>5. CASE ReadReferences(s)
    BY <1>1, <2>1, <2>5 DEF ReadReferences, Returns
  <2>6. CASE ReadTeam(s) \/ ReadCoach(s) \/ CountTeams(s) \/ ReadStatus(s) \/ CountHeads(s)
             \/ CheckAssigned(s, "deactivate") \/ CheckAssigned(s, "retract")
    BY <2>1, <2>2, <2>6 DEF ReadTeam, ReadCoach, CountTeams, ReadStatus, CountHeads,
                            CheckAssigned, Returns
  <2>7. CASE AssignTeam(s) \/ UpdateStatus(s) \/ Deactivate(s) \/ Restore(s) \/ DeleteCoach(s)
             \/ Retract(s) \/ UpsertTeam(s) \/ Abort(s)
    BY <2>1, <2>7 DEF AssignTeam, UpdateStatus, Deactivate, Restore, DeleteCoach, Retract,
                      DeleteRow, UpsertTeam, Returns, Abort
  <2> QED BY <1>4, <2>3, <2>4, <2>5, <2>6, <2>7 DEF Step
<1> QED BY <1>2, <1>3, <1>4 DEF Next

\* No team is headed by a coach who is gone, whatever is deleted between the
\* statements of an assignment: the foreign key has the last word.
THEOREM HeadsAlwaysExist == Spec => []HeadsExist
<1>1. Init => HeadsExist
  BY DEF Init, HeadsExist
<1> QED BY <1>1, HeadsExistStep, TypeCorrect, PTL DEF Spec

\* However many sessions assign, delete and persist, every head exists and may
\* head what he was given by hand.
THEOREM HeadsAreSound == Spec => []HeadsSound
  BY CapacityRespected, HeadsAlwaysExist, PTL DEF HeadsSound

-----------------------------------------------------------------------------
(* Calls that overlap.                                                      *)

\* Two calls under way, of which one may miss what the other changes, have
\* been noticed.
OverlapsNoticed ==
    \A i, k \in Running : i # k /\ MayMiss(req[i], req[k]) => req[k].coach \in raced

\* What a call has looked at and not yet used is still so.
StillSo(i) ==
    /\ at[i] \in {"checked", "writing"} /\ req[i].op = "assign"
           /\ req[i].coach \in Coaches \ raced
           => coachStatus[req[i].coach] \in Usable \cup {"deleted"}
    /\ at[i] = "writing" /\ Lowers(req[i]) /\ req[i].coach \notin raced
           => HandGiven(req[i].coach) = {}
    /\ Runs(i, "delete", "writing") /\ req[i].coach \notin raced
           => Assists(req[i].coach) \subseteq rowLocks[i]
    /\ Runs(i, "retract", "writing") /\ req[i].coach \notin raced
           => Assists(req[i].coach) = {}
    /\ Runs(i, "persist", "writing")
           => kept[i] \subseteq req[i].assistants /\ \A c \in kept[i] \ raced : Exists(c)

RaceInv == OverlapsNoticed /\ (\A i \in Sessions : StillSo(i)) /\ UncontestedSound

LEMMA RacedGrows ==
    ASSUME TypeOK, NEW s \in Sessions,
           Step(s) \/ Abort(s) \/ \E q \in Requests : Begin(s, q)
    PROVE  raced \subseteq raced'
<1>1. CASE \E q \in Requests : Begin(s, q)
  BY <1>1 DEF Begin
<1>2. CASE Step(s)
  BY <1>2 DEF Step, ReadTeam, TakeLock, ReadCoach, CountTeams, AssignTeam, ReadStatus, CountHeads,
              UpdateStatus, CheckAssigned, Deactivate, Restore, ScrubHeads, ScrubAssistants,
              DeleteCoach, Retract, DeleteRow, ReadReferences, UpsertTeam, Goes, Returns
<1>3. CASE Abort(s)
  BY <1>3 DEF Abort, Returns
<1> QED BY <1>1, <1>2, <1>3

\* A status changes by the write of the call that is for it.
LEMMA StatusEffect ==
    ASSUME TypeOK, NEW s \in Sessions, Step(s) \/ Abort(s), NEW c \in Coaches, c \notin raced'
    PROVE  \/ coachStatus'[c] = coachStatus[c]
           \/ coachStatus'[c] \in Usable
           \/ /\ at[s] = "writing" /\ Lowers(req[s]) /\ req[s].coach = c
              /\ coachStatus'[c] # "deleted"
           \/ /\ at[s] = "writing" /\ Deletes(req[s]) /\ req[s].coach = c
              /\ coachStatus'[c] = "deleted"
<1> USE DEF TypeOK, tables
<1>1. CASE UpdateStatus(s)
  BY <1>1, RequestFields DEF UpdateStatus, Returns, SetStatus, Lowers, Runs, Exists
<1>2. CASE Deactivate(s)
  BY <1>2 DEF Deactivate, SetStatus, Lowers, Runs
<1>3. CASE Restore(s)
  BY <1>3 DEF Restore, SetStatus, Runs
<1>4. CASE DeleteCoach(s) \/ Retract(s)
  BY <1>4 DEF DeleteCoach, Retract, DeleteRow, Deletes, Runs
<1>5. CASE ~(UpdateStatus(s) \/ Deactivate(s) \/ Restore(s) \/ DeleteCoach(s) \/ Retract(s))
  BY <1>5 DEF Step, ReadTeam, TakeLock, ReadCoach, CountTeams, AssignTeam, ReadStatus, CountHeads,
              CheckAssigned, ScrubHeads, ScrubAssistants, ReadReferences, UpsertTeam, Goes,
              Returns, Abort
<1> QED BY <1>1, <1>2, <1>3, <1>4, <1>5

\* A team gets an assistant only from a schedule that kept him.
LEMMA AssistEffect ==
    ASSUME TypeOK, NEW s \in Sessions, Step(s) \/ Abort(s), NEW c \in Coaches
    PROVE  \/ Assists(c)' \subseteq Assists(c)
           \/ Runs(s, "persist", "writing") /\ c \in kept[s]
<1> USE DEF TypeOK, tables, Assists
<1>1. CASE UpsertTeam(s)
  BY <1>1 DEF UpsertTeam, Returns
<1>2. CASE DeleteCoach(s) \/ Retract(s)
  BY <1>2 DEF DeleteCoach, Retract, DeleteRow
<1>3. CASE ~(UpsertTeam(s) \/ DeleteCoach(s) \/ Retract(s))
  BY <1>3 DEF Step, ReadTeam, TakeLock, ReadCoach, CountTeams, AssignTeam, ReadStatus, CountHeads,
              UpdateStatus, Deactivate, Restore, CheckAssigned, ScrubHeads, ScrubAssistants,
              ReadReferences, Goes, Returns, Abort
<1> QED BY <1>1, <1>2, <1>3

\* A statement of its own: what it looks at is so when it has looked.
LEMMA OwnStillSo ==
    ASSUME TypeOK, NEW s \in Sessions, Step(s) \/ Abort(s), StillSo(s)
    PROVE  StillSo(s)'
<1> USE RequestFields DEF TypeOK, tables
<1>1. ASSUME Ends(s) PROVE StillSo(s)'
  BY <1>1 DEF Ends, StillSo, Runs
<1>2. ASSUME at'[s] \notin {"checked", "writing"} PROVE StillSo(s)'
  BY <1>2 DEF StillSo, Runs
<1>3. CASE ReadTeam(s) \/ TakeLock(s) \/ ScrubHeads(s)
  <2>1. CASE ReadTeam(s) /\ req[s].coach = NoCoach
    BY <2>1, AssignmentAssumption DEF ReadTeam, Goes, StillSo, Runs, Lowers
  <2>2. CASE (ReadTeam(s) /\ req[s].coach # NoCoach) \/ TakeLock(s)
    BY <1>2, <2>2 DEF ReadTeam, TakeLock, Goes
  <2>3. CASE ScrubHeads(s)
    BY <1>1, <1>2, <2>3 DEF ScrubHeads, Goes, Returns
  <2> QED BY <1>3, <2>1, <2>2, <2>3
<1>4. CASE ReadCoach(s)
  BY <1>1, <1>4 DEF ReadCoach, Goes, Returns, StillSo, Runs, Lowers
<1>5. CASE CountTeams(s)
  BY <1>1, <1>5 DEF CountTeams, Goes, Returns, StillSo, Runs, Lowers
<1>6. CASE ReadStatus(s)
  BY <1>1, <1>6 DEF ReadStatus, Goes, Returns, StillSo, Runs, Lowers
<1>7. CASE CountHeads(s)
  BY <1>1, <1>7 DEF CountHeads, Goes, Returns, StillSo, Runs, Lowers, HandGiven, Heads
<1>8. ASSUME NEW op \in {"deactivate", "retract"}, CheckAssigned(s, op) PROVE StillSo(s)'
  <2>1. CASE Returns(s)
    BY <1>1, <2>1 DEF Returns
  <2>2. CASE ~Assigned(req[s].coach) /\ Goes(s, "writing")
    <3>1. HandGiven(req[s].coach) = {} /\ Assists(req[s].coach) = {}
      BY <2>2 DEF Assigned, HandGiven, Heads, Assists
    <3>2. HandGiven(req[s].coach)' = {} /\ Assists(req[s].coach)' = {}
      BY <2>2, <3>1 DEF Goes, HandGiven, Heads, Assists
    <3> QED BY <1>8, <2>2, <3>2 DEF Goes, StillSo, Runs, CheckAssigned
  <2> QED BY <1>8, <2>1, <2>2 DEF CheckAssigned
<1>9. CASE ScrubAssistants(s)
  BY <1>9 DEF ScrubAssistants, Locks, Goes, StillSo, Runs, Lowers, Assists
<1>10. CASE ReadReferences(s)
  BY <1>1, <1>10 DEF ReadReferences, Returns, StillSo, Runs, Lowers, Exists
<1>11. CASE AssignTeam(s) \/ UpdateStatus(s) \/ Deactivate(s) \/ Restore(s) \/ DeleteCoach(s)
            \/ Retract(s) \/ UpsertTeam(s) \/ Abort(s)
  BY <1>1, <1>11 DEF AssignTeam, UpdateStatus, Deactivate, Restore, DeleteCoach, Retract,
                     DeleteRow, UpsertTeam, Returns, Abort
<1> QED BY <1>3, <1>4, <1>5, <1>6, <1>7, <1>8, <1>9, <1>10, <1>11 DEF Step

\* A statement of another call: if it changed what call i looked at, the two
\* overlapped and have been noticed.
LEMMA OtherStillSo ==
    ASSUME TypeOK, OverlapsNoticed, NEW s \in Sessions, NEW i \in Sessions \ {s},
           Step(s) \/ Abort(s), StillSo(i), StillSo(s)
    PROVE  StillSo(i)'
<1>1. Keeps(i) /\ raced \subseteq raced'
  BY OthersKeep, RacedGrows
<1>2. ASSUME at[s] # "idle", at[i] # "idle"
      PROVE  /\ MayMiss(req[i], req[s]) => req[s].coach \in raced'
             /\ MayMiss(req[s], req[i]) => req[i].coach \in raced'
  BY <1>1, <1>2 DEF OverlapsNoticed, Running
<1>3. ASSUME at[i] \in {"checked", "writing"}, req[i].op = "assign",
             req[i].coach \in Coaches \ raced'
      PROVE  coachStatus'[req[i].coach] \in Usable \cup {"deleted"}
  <2>1. coachStatus[req[i].coach] \in Usable \cup {"deleted"}
    BY <1>1, <1>3 DEF StillSo
  <2>2. ~(at[s] = "writing" /\ Lowers(req[s]) /\ req[s].coach = req[i].coach)
    BY <1>2, <1>3 DEF MayMiss, Runs
  <2> QED BY <1>3, <2>1, <2>2, StatusEffect
<1>4. ASSUME at[i] = "writing", Lowers(req[i]), req[i].coach \notin raced'
      PROVE  HandGiven(req[i].coach)' = {}
  <2>1. req[i].coach \in Coaches /\ HandGiven(req[i].coach) = {}
    BY <1>1, <1>4, RequestFields DEF StillSo, Lowers
  <2>2. ~(Runs(s, "assign", "writing") /\ req[s].coach = req[i].coach)
    BY <1>2, <1>4 DEF MayMiss, Runs
  <2>3. ASSUME NEW t \in Teams, head'[t] = req[i].coach, t \notin scheduled' PROVE FALSE
    <3>1. head[t] = req[i].coach /\ t \notin scheduled
      BY <2>1, <2>2, <2>3, HeadEffect, AssignmentAssumption
    <3> QED BY <2>1, <3>1 DEF HandGiven, Heads
  <2> QED BY <1>1, <2>3 DEF HandGiven, Heads, Keeps
<1>5. ASSUME Runs(i, "delete", "writing") \/ Runs(i, "retract", "writing"),
             req[i].coach \notin raced'
      PROVE  Assists(req[i].coach)' \subseteq Assists(req[i].coach)
  <2>1. req[i].coach \in Coaches
    BY <1>5, RequestFields DEF Runs
  <2>2. ASSUME Runs(s, "persist", "writing"), req[i].coach \in kept[s] PROVE FALSE
    <3>1. req[i].coach \in req[s].assistants
      BY <2>2 DEF StillSo
    <3> QED BY <1>2, <1>5, <2>2, <3>1 DEF MayMiss, Deletes, Runs
  <2>3. ASSUME NEW c \in Coaches, c = req[i].coach PROVE Assists(c)' \subseteq Assists(c)
    BY <2>2, <2>3, AssistEffect
  <2> QED BY <1>1, <2>1, <2>3 DEF Keeps, Assists
<1>6. ASSUME Runs(i, "persist", "writing"), NEW c \in kept[i] \ raced' PROVE Exists(c)'
  <2>1. c \in Coaches /\ Exists(c) /\ c \in req[i].assistants
    BY <1>1, <1>6 DEF StillSo, TypeOK
  <2>2. ~(at[s] = "writing" /\ Deletes(req[s]) /\ req[s].coach = c)
    BY <1>2, <1>6, <2>1 DEF MayMiss, Runs
  <2> QED BY <1>6, <2>1, <2>2, StatusEffect DEF Exists
<1>7. at'[i] = at[i] /\ req'[i] = req[i] /\ kept'[i] = kept[i] /\ rowLocks'[i] = rowLocks[i]
  BY <1>1 DEF Keeps
<1> QED
  BY <1>1, <1>3, <1>4, <1>5, <1>6, <1>7 DEF StillSo, Runs

LEMMA SoundStep ==
    ASSUME TypeOK, HeadsExist', OverlapsNoticed, UncontestedSound,
           NEW s \in Sessions, Step(s) \/ Abort(s), StillSo(s)
    PROVE  UncontestedSound'
<1> SUFFICES ASSUME NEW c \in Coaches, c \notin raced'
             PROVE  /\ HandGiven(c)' # {} => coachStatus'[c] \in Usable
                    /\ ~Exists(c)' => Assists(c)' = {}
  BY DEF UncontestedSound
<1>1. c \notin raced
  BY RacedGrows
<1>2. ASSUME HandGiven(c)' # {} PROVE coachStatus'[c] \in Usable
  <2>1. PICK t \in Teams : head'[t] = c /\ t \notin scheduled'
    BY <1>2 DEF HandGiven, Heads
  <2>2. coachStatus'[c] # "deleted"
    BY <2>1, AssignmentAssumption DEF HeadsExist, Exists
  <2>3. CASE head[t] = c /\ t \notin scheduled
    <3>1. HandGiven(c) # {}
      BY <2>3 DEF HandGiven, Heads
    <3>2. coachStatus[c] \in Usable
      BY <1>1, <3>1 DEF UncontestedSound
    <3>3. ~(at[s] = "writing" /\ Lowers(req[s]) /\ req[s].coach = c)
      BY <1>1, <3>1 DEF StillSo
    <3> QED BY <2>2, <3>2, <3>3, StatusEffect
  <2>4. CASE Runs(s, "assign", "writing") /\ req[s].coach = c
    <3>1. coachStatus[c] \in Usable \cup {"deleted"}
      BY <1>1, <2>4 DEF StillSo, Runs
    <3>2. ~Lowers(req[s]) /\ ~Deletes(req[s])
      BY <2>4 DEF Lowers, Deletes, Runs
    <3> QED BY <2>2, <3>1, <3>2, StatusEffect
  <2> QED BY <2>1, <2>3, <2>4, HeadEffect, AssignmentAssumption
<1>3. ASSUME ~Exists(c)' PROVE Assists(c)' = {}
  <2>1. CASE Exists(c)
    <3>1. at[s] = "writing" /\ Deletes(req[s]) /\ req[s].coach = c
      BY <1>3, <2>1, StatusEffect DEF Exists
    <3>2. CASE Runs(s, "delete", "writing")
      <4>1. Assists(c) \subseteq rowLocks[s]
        BY <1>1, <3>1, <3>2 DEF StillSo
      <4>2. DeleteCoach(s) \/ Abort(s)
        BY <3>2 DEF Runs, Step, ReadTeam, TakeLock, ReadCoach, CountTeams, AssignTeam,
                    ReadStatus, CountHeads, UpdateStatus, CheckAssigned, Deactivate, Restore,
                    ScrubHeads, ScrubAssistants, Retract, ReadReferences, UpsertTeam
      <4>3. ~Abort(s)
        BY <1>3, <2>1 DEF Abort, Returns, tables, Exists
      <4> QED BY <3>1, <4>1, <4>2, <4>3 DEF DeleteCoach, DeleteRow, Assists, TypeOK
    <3>3. CASE Runs(s, "retract", "writing")
      <4>1. Assists(c) = {}
        BY <1>1, <3>1, <3>3 DEF StillSo
      <4>2. ~Runs(s, "persist", "writing")
        BY <3>3 DEF Runs
      <4> QED BY <4>1, <4>2, AssistEffect
    <3> QED BY <3>1, <3>2, <3>3 DEF Deletes, Runs
  <2>2. CASE ~Exists(c)
    <3>1. Assists(c) = {}
      BY <1>1, <2>2 DEF UncontestedSound
    <3>2. ~(Runs(s, "persist", "writing") /\ c \in kept[s])
      BY <1>1, <2>2 DEF StillSo
    <3> QED BY <3>1, <3>2, AssistEffect
  <2> QED BY <2>1, <2>2
<1> QED BY <1>2, <1>3

LEMMA OverlapStep ==
    ASSUME TypeOK, LockOwned, OverlapsNoticed, [Next]_vars
    PROVE  OverlapsNoticed'
<1> SUFFICES ASSUME NEW i \in Sessions, NEW k \in Sessions, i # k, at'[i] # "idle",
                    at'[k] # "idle", MayMiss(req'[i], req'[k])
             PROVE  req'[k].coach \in raced'
  BY DEF OverlapsNoticed, Running
<1>1. CASE UNCHANGED vars
  BY <1>1 DEF vars, OverlapsNoticed, Running
<1>2. ASSUME NEW s \in Sessions, Step(s) \/ Abort(s) PROVE req'[k].coach \in raced'
  <2>1. ASSUME NEW x \in {i, k} PROVE at[x] # "idle" /\ req'[x] = req[x]
    <3>1. CASE x = s
      <4>1. at[s] # "idle"
        BY <1>2 DEF Step, ReadTeam, TakeLock, ReadCoach, CountTeams, AssignTeam, ReadStatus,
                    CountHeads, UpdateStatus, CheckAssigned, Deactivate, Restore, ScrubHeads,
                    ScrubAssistants, DeleteCoach, Retract, ReadReferences, UpsertTeam, Abort,
                    Runs
      <4> QED BY <1>2, <3>1, <4>1, OwnStep
    <3>2. CASE x # s
      BY <1>2, <3>2, OthersKeep DEF Keeps
    <3> QED BY <3>1, <3>2
  <2> QED BY <1>2, <2>1, RacedGrows DEF OverlapsNoticed, Running
<1>3. ASSUME NEW s \in Sessions, NEW q \in Requests, Begin(s, q) PROVE req'[k].coach \in raced'
  <2>1. CASE i # s /\ k # s
    BY <1>3, <2>1 DEF Begin, OverlapsNoticed, Running, TypeOK
  <2>2. CASE i = s
    BY <1>3, <2>2 DEF Begin, Running, TypeOK
  <2>3. CASE k = s
    BY <1>3, <2>3 DEF Begin, Running, TypeOK
  <2> QED BY <2>1, <2>2, <2>3
<1> QED BY <1>1, <1>2, <1>3 DEF Next

LEMMA RaceStep ==
    ASSUME TypeOK, LockOwned, HeadsExist, RaceInv, [Next]_vars
    PROVE  RaceInv'
<1>1. OverlapsNoticed' /\ HeadsExist'
  BY OverlapStep, HeadsExistStep DEF RaceInv
<1>2. CASE UNCHANGED vars
  BY <1>1, <1>2 DEF RaceInv, StillSo, UncontestedSound, HandGiven, Heads, Assists, Exists, Runs,
                    vars, tables
<1>3. ASSUME NEW s \in Sessions, Step(s) \/ Abort(s) PROVE RaceInv'
  <2>1. ASSUME NEW i \in Sessions PROVE StillSo(i)'
    BY <1>3, OwnStillSo, OtherStillSo DEF RaceInv
  <2>2. UncontestedSound'
    BY <1>1, <1>3, SoundStep DEF RaceInv
  <2> QED BY <1>1, <2>1, <2>2 DEF RaceInv
<1>4. ASSUME NEW s \in Sessions, NEW q \in Requests, Begin(s, q) PROVE RaceInv'
  <2>1. raced \subseteq raced' /\ UNCHANGED <<coachStatus, head, assistants, scheduled>>
    BY <1>4, RacedGrows DEF Begin, tables
  <2>2. UncontestedSound'
    BY <2>1 DEF RaceInv, UncontestedSound, HandGiven, Heads, Assists, Exists
  <2>3. ASSUME NEW i \in Sessions, i # s PROVE StillSo(i)'
    <3>1. at'[i] = at[i] /\ req'[i] = req[i] /\ kept'[i] = kept[i] /\ rowLocks'[i] = rowLocks[i]
      BY <1>4, <2>3, OthersKeep DEF Keeps
    <3> QED BY <2>1, <3>1 DEF RaceInv, StillSo, Runs, HandGiven, Heads, Assists, Exists
  <2>4. StillSo(s)'
    BY <1>4 DEF Begin, StillSo, Runs, TypeOK
  <2> QED BY <1>1, <2>2, <2>3, <2>4 DEF RaceInv
<1> QED BY <1>2, <1>3, <1>4 DEF Next

\* Whatever is assigned, changed, imported, restored, deleted, persisted or
\* fails at once: a coach no overlapping calls and no rollback touched, who was
\* given a team by hand, may coach, and no team has an assistant who is gone
\* but one whose deletion overlapped a schedule that names him.
THEOREM OnlyRacesLeaveTeamsUnsound == Spec => []UncontestedSound
<1>1. Init => RaceInv
  BY AssignmentAssumption DEF Init, RaceInv, OverlapsNoticed, Running, StillSo, Runs,
     UncontestedSound, HandGiven, Heads, Assists
<1>2. TypeOK /\ LockOwned /\ HeadsExist /\ RaceInv /\ [Next]_vars => RaceInv'
  BY RaceStep
<1>3. RaceInv => UncontestedSound
  BY DEF RaceInv
<1> QED BY <1>1, <1>2, <1>3, Invariance, HeadsAlwaysExist, PTL DEF Spec, AssignInv

\* A session between two calls holds no advisory lock and no row, committed
\* or not: nobody waits for it.
THEOREM IdleSessionsHoldNothing == Spec => []IdleHoldsNothing
<1>1. Init => IdleHoldsNothing
  BY AssignmentAssumption DEF Init, IdleHoldsNothing
<1> QED BY <1>1, IdleStep, TypeCorrect, PTL DEF Spec
=============================================================================
