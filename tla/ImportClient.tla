---------------------------- MODULE ImportClient ----------------------------
(***************************************************************************)
(* The browser side of an import (ImportContext.jsx) on top of ImportJobs: *)
(* the tabs of the organization's admins, the worker that a tab starts for *)
(* a file, and the calls between them and the database, which may be lost  *)
(* on the way there or on the way back.  A tab may be reloaded at any      *)
(* moment, which ends its worker where it is.                              *)
(*                                                                         *)
(* A worker is a chain of awaits: `place` names the call it awaits and     *)
(* `answer` what came back.  The server executes a call in one step, except*)
(* the upload of a batch, which is the three steps of ImportJobs and goes  *)
(* on when the 60 s limit of the client has passed.                        *)
(***************************************************************************)
EXTENDS ImportJobs, Naturals, Sequences

CONSTANTS
    Tabs,
    Batches,    \* the batches of the file: the numbers of their valid rows
    NoJob

ASSUME BatchesAssumption ==
    /\ Batches \in Seq(SUBSET Rows) /\ Batches # <<>>
    /\ \A b \in DOMAIN Batches : Batches[b] # {}
    /\ NoJob \notin Jobs

VARIABLES
    place,      \* the call the tab awaits, or "idle", "stuck", "loading"
    answer,     \* what came back of that call
    deferred,   \* the worker stops at ready_to_apply
    active,     \* activeJobId
    batch,      \* the batch being validated
    shown,      \* importStatus, "importing" as long as isImporting
    stored,     \* importStatus in the local storage of the tab's browser
    view,       \* importJobId of the imported data the tab holds
    posted      \* batch on its way to the Edge Function, by job

display    == <<shown, stored>>
tabVars    == <<place, answer, deferred, active, batch, display, view>>
clientVars == <<tabVars, posted>>
allVars    == <<vars, clientVars>>

WorkerCalls == {"create", "total", "efficiency", "validate", "report", "ready", "finalize", "fail"}
UserCalls   == {"apply", "cancel", "rollback"}
Storable    == Completed \cup {"idle", "ready_to_apply"}
Places      == WorkerCalls \cup UserCalls \cup {"idle", "stuck", "loading", "hydrating"}

ClientTypeOK ==
    /\ place    \in [Tabs -> Places]
    /\ answer   \in [Tabs -> {"none", "pending", "ok", "warnings", "error"}]
    /\ deferred \in [Tabs -> BOOLEAN]
    /\ active   \in [Tabs -> Jobs \cup {NoJob}]
    /\ batch    \in [Tabs -> DOMAIN Batches]
    /\ shown    \in [Tabs -> {"idle", "importing", "error"} \cup Statuses]
    /\ stored   \in [Tabs -> Storable]
    /\ view     \in [Tabs -> Jobs \cup {NoJob}]
    /\ posted   \in [Jobs -> SUBSET Rows]

ClientInit ==
    /\ Init
    /\ place    = [t \in Tabs |-> "idle"]
    /\ answer   = [t \in Tabs |-> "none"]
    /\ deferred = [t \in Tabs |-> FALSE]
    /\ active   = [t \in Tabs |-> NoJob]
    /\ batch    = [t \in Tabs |-> 1]
    /\ shown    = [t \in Tabs |-> "idle"]
    /\ stored   = [t \in Tabs |-> "idle"]
    /\ view     = [t \in Tabs |-> NoJob]
    /\ posted   = [j \in Jobs |-> {}]

-----------------------------------------------------------------------------
(* The tab's side of a call.                                                *)

Sends(t, p) ==
    /\ place'  = [place EXCEPT ![t] = p]
    /\ answer' = [answer EXCEPT ![t] = "pending"]

\* The worker's own variables end with it.
Stops(t, p) ==
    /\ place'    = [place EXCEPT ![t] = p]
    /\ answer'   = [answer EXCEPT ![t] = "none"]
    /\ batch'    = [batch EXCEPT ![t] = 1]
    /\ deferred' = [deferred EXCEPT ![t] = FALSE]

Shows(t, s) == shown' = [shown EXCEPT ![t] = s] /\ UNCHANGED stored

\* Shown, and found again by the next load of the page.
Stores(t, s) ==
    /\ shown'  = [shown EXCEPT ![t] = s]
    /\ stored' = [stored EXCEPT ![t] = s]

\* importStatus decides the buttons of the panel.  Bound: a tab runs one
\* worker at a time.
Rests(t) == place[t] \in {"idle", "stuck"}

StartImport(t, d) ==
    /\ Rests(t) /\ shown[t] \in {"idle", "error", "failed"}
    /\ Sends(t, "create") /\ Shows(t, "importing")
    /\ deferred' = [deferred EXCEPT ![t] = d]
    /\ UNCHANGED <<vars, active, batch, view, posted>>

UserCall(t, p) ==
    /\ Rests(t) /\ view[t] # NoJob
    /\ shown[t] \in IF p = "rollback" THEN Completed ELSE {"ready_to_apply"}
    /\ Sends(t, p) /\ Shows(t, "importing")
    /\ UNCHANGED <<vars, deferred, active, batch, view, posted>>

ResetImport(t) ==
    /\ Rests(t) /\ shown[t] \in Completed
    /\ Stores(t, "idle")
    /\ active' = [active EXCEPT ![t] = NoJob]
    /\ view'   = [view EXCEPT ![t] = NoJob]
    /\ UNCHANGED <<vars, place, answer, deferred, batch, posted>>

-----------------------------------------------------------------------------
(* The server's side.  An answer may be lost: the tab then sees an error.   *)

Awaits(t, p) == place[t] = p /\ answer[t] = "pending"

Answers(t, a) == \E b \in {a, "error"} : answer' = [answer EXCEPT ![t] = b]

ServeCreate(t) ==
    /\ Awaits(t, "create")
    /\ \E j \in Jobs, k \in Kinds :
           /\ CreateJob(j, k)
           /\ \/ /\ answer' = [answer EXCEPT ![t] = "ok"]
                 /\ active' = [active EXCEPT ![t] = j]
              \/ answer' = [answer EXCEPT ![t] = "error"] /\ UNCHANGED active
    /\ UNCHANGED <<place, deferred, batch, display, view, posted>>

\* The other calls about the job the worker runs, or the one in view.
Subject(t) == IF place[t] \in UserCalls THEN view[t] ELSE active[t]

Execute(p, j) ==
    \/ p \in {"total", "efficiency", "report"} /\ UpdateProgress(j)
    \/ p = "ready" /\ MarkReady(j)
    \/ p = "fail" /\ FailJob(j)
    \/ p = "cancel" /\ CancelReady(j)
    \/ /\ p \in {"finalize", "apply"}
       /\ \E ok \in SUBSET Rows, new \in SUBSET Targets, errors \in BOOLEAN :
              FinalizeJob(j, ok, new, errors)
    \/ p = "rollback" /\ \E blocked \in SUBSET Targets : RollbackJob(j, blocked)

OneStepCalls == (WorkerCalls \ {"create", "validate"}) \cup UserCalls

Serve(t) ==
    /\ place[t] \in OneStepCalls /\ answer[t] = "pending"
    /\ Execute(place[t], Subject(t))
    /\ Answers(t, IF status'[Subject(t)] = "completed_with_warnings" THEN "warnings" ELSE "ok")
    /\ UNCHANGED <<place, deferred, active, batch, display, view, posted>>

\* The call is refused, or never gets there: the server does nothing.
NotServed(t) ==
    /\ answer[t] = "pending"
    /\ answer' = [answer EXCEPT ![t] = "error"]
    /\ UNCHANGED <<vars, place, deferred, active, batch, display, view, posted>>

-----------------------------------------------------------------------------
(* The upload of a batch.                                                   *)

\* Whoever still waits for the validation of job j.
Waiting(j) == {t \in Tabs : Awaits(t, "validate") /\ active[t] = j}
Replies(j, a) ==
    \E b \in {a, "error"} :
        answer' = [t \in Tabs |-> IF t \in Waiting(j) THEN b ELSE answer[t]]

UploadArrives(j) ==
    /\ posted[j] # {}
    /\ posted' = [posted EXCEPT ![j] = {}]
    /\ \/ BeginUpload(j, posted[j]) /\ UNCHANGED answer
       \/ ~CanStage(j) /\ Replies(j, "error") /\ UNCHANGED vars
    /\ UNCHANGED <<place, deferred, active, batch, display, view>>

UploadLost(j) ==
    /\ posted[j] # {}
    /\ posted' = [posted EXCEPT ![j] = {}]
    /\ UNCHANGED <<vars, tabVars>>

UploadRuns(j) ==
    /\ DeleteStaged(j)
    /\ UNCHANGED clientVars

UploadEnds(j) ==
    /\ \/ InsertStaged(j) /\ Replies(j, "ok")
       \/ AbortUpload(j) /\ Replies(j, "error")
    /\ UNCHANGED <<place, deferred, active, batch, display, view, posted>>

-----------------------------------------------------------------------------
(* The worker goes on with an answer.                                       *)

Answered(t, p, a) == place[t] = p /\ answer[t] \in a
Good == {"ok", "warnings"}

SendBatch(t, b) ==
    /\ Sends(t, "validate")
    /\ batch'  = [batch EXCEPT ![t] = b]
    /\ posted' = [posted EXCEPT ![active[t]] = Batches[b]]

\* The parse may find that there is nothing to validate: no columns, too
\* many columns or rows before the first progress call, missing required
\* columns after the second.
Proceed(t) ==
    \/ /\ Answered(t, "create", {"ok"})
       /\ \E p \in {"total", "fail"} : Sends(t, p)
       /\ UNCHANGED <<batch, display, view, posted>>
    \/ /\ Answered(t, "total", {"ok"}) /\ Sends(t, "efficiency")
       /\ UNCHANGED <<batch, display, view, posted>>
    \/ /\ Answered(t, "efficiency", {"ok"})
       /\ \/ SendBatch(t, 1)
          \/ Sends(t, "fail") /\ UNCHANGED <<batch, posted>>
       /\ UNCHANGED <<display, view>>
    \/ /\ Answered(t, "validate", {"ok"}) /\ Sends(t, "report")
       /\ UNCHANGED <<batch, display, view, posted>>
    \/ /\ Answered(t, "report", {"ok"})
       /\ IF batch[t] < Len(Batches) THEN SendBatch(t, batch[t] + 1)
          ELSE /\ Sends(t, IF deferred[t] THEN "ready" ELSE "finalize")
               /\ UNCHANGED <<batch, posted>>
       /\ UNCHANGED <<display, view>>

\* The throttle skips a report that comes within 100 ms of the last one,
\* unless it is the last of the file.
SkipReport(t) ==
    /\ Answered(t, "validate", {"ok"}) /\ batch[t] < Len(Batches)
    /\ SendBatch(t, batch[t] + 1)
    /\ UNCHANGED <<display, view>>

WorkerEnds(t) ==
    \/ /\ Answered(t, "ready", {"ok"})
       /\ Stops(t, "idle") /\ Stores(t, "ready_to_apply")
       /\ view' = [view EXCEPT ![t] = active[t]]
    \/ /\ Answered(t, "finalize", Good)
       /\ Stops(t, "idle")
       /\ Stores(t, IF answer[t] = "ok" THEN "completed" ELSE "completed_with_warnings")
       /\ view' = [view EXCEPT ![t] = active[t]]
    \/ /\ Answered(t, "fail", {"ok"}) \/ Answered(t, "create", {"error"})
       /\ Stops(t, "idle") /\ Shows(t, "error") /\ UNCHANGED view

\* Mutant: a batch that failed is skipped.
WorkerFailsSkipping(t) ==
    /\ \E p \in {"validate", "report", "ready", "finalize"} : Answered(t, p, {"error"})
    /\ Sends(t, IF place[t] = "validate" THEN "report" ELSE "fail")
    /\ UNCHANGED <<batch, display, view, posted>>

\* Mutant: a batch that failed is sent again.
WorkerFailsRetrying(t) ==
    /\ \E p \in {"validate", "report", "ready", "finalize"} : Answered(t, p, {"error"})
    /\ IF place[t] = "validate" THEN SendBatch(t, batch[t])
       ELSE Sends(t, "fail") /\ UNCHANGED <<batch, posted>>
    /\ UNCHANGED <<display, view>>

\* The try block around a batch reports the failure.
WorkerFails(t) ==
    /\ \E p \in {"validate", "report", "ready", "finalize"} : Answered(t, p, {"error"})
    /\ Sends(t, "fail")
    /\ UNCHANGED <<batch, display, view, posted>>

\* No try block is left around the others: the promise is rejected and
\* nobody handles it.
WorkerThrows(t) ==
    /\ \E p \in {"total", "efficiency", "fail"} : Answered(t, p, {"error"})
    /\ Stops(t, "stuck")
    /\ UNCHANGED <<display, view, posted>>

UserCallEnds(t) ==
    /\ place[t] \in UserCalls /\ answer[t] \in Good \cup {"error"}
    /\ Stops(t, "idle")
    /\ LET gone == answer[t] = "ok" /\ place[t] \in {"cancel", "rollback"} IN
           /\ IF answer[t] = "error" THEN Shows(t, "error")
              ELSE Stores(t, IF gone THEN "idle"
                             ELSE IF answer[t] = "ok" THEN "completed"
                             ELSE "completed_with_warnings")
           /\ view'   = [view EXCEPT ![t] = IF gone THEN NoJob ELSE @]
           /\ active' = [active EXCEPT ![t] = IF gone THEN NoJob ELSE @]
    /\ UNCHANGED posted

WorkerStep(t) ==
    /\ \/ (Proceed(t) \/ SkipReport(t) \/ WorkerFails(t)) /\ UNCHANGED deferred
       \/ WorkerThrows(t)
       \/ WorkerEnds(t) /\ UNCHANGED posted
    /\ UNCHANGED <<vars, active>>

-----------------------------------------------------------------------------
(* Page loads and realtime events.                                          *)

Reload(t) ==
    /\ place[t] # "loading"
    /\ Stops(t, "loading") /\ Shows(t, stored[t])
    /\ active' = [active EXCEPT ![t] = NoJob]
    /\ view'   = [view EXCEPT ![t] = NoJob]
    /\ UNCHANGED <<vars, posted>>

\* The auth client reports a sign-in again, for one when a tab gets focus.
SignedIn(t) ==
    /\ Rests(t)
    /\ Stops(t, "loading")
    /\ UNCHANGED <<vars, active, display, view, posted>>

\* fail_stale_import_jobs; an error is only logged
CleanUp(t, fails) ==
    /\ place[t] = "loading"
    /\ Stops(t, "hydrating")
    /\ IF fails \/ StaleJobs = {} THEN UNCHANGED vars ELSE FailStaleJobs
    /\ UNCHANGED <<active, display, view, posted>>

\* The tab picks up a job it finds importing or ready; without one it stays
\* as it is.  (The newest of several: with one job there is no choice.)
Hydratable == {j \in Jobs : status[j] \in {"importing", "ready_to_apply"}}

Hydrate(t) ==
    /\ place[t] = "hydrating"
    /\ Stops(t, "idle")
    /\ IF Hydratable = {} THEN UNCHANGED <<active, display, view>>
       ELSE \E j \in Hydratable :
                /\ active' = [active EXCEPT ![t] = j]
                /\ IF status[j] = "ready_to_apply"
                   THEN Stores(t, status[j]) /\ view' = [view EXCEPT ![t] = j]
                   ELSE Shows(t, status[j]) /\ UNCHANGED view
    /\ UNCHANGED <<vars, posted>>

Realtime(t, j) ==
    /\ status[j] \in Completed \cup {"failed"}
    /\ active[t] \in {j, NoJob}
    /\ Shows(t, status[j])
    /\ UNCHANGED <<vars, place, answer, deferred, active, batch, view, posted>>

-----------------------------------------------------------------------------
ServerStep(t) ==
    \/ ServeCreate(t)
    \/ Serve(t)
    \/ NotServed(t)

UploadStep(j) == UploadArrives(j) \/ UploadLost(j) \/ UploadRuns(j) \/ UploadEnds(j)

UserStep(t) ==
    \/ \E d \in BOOLEAN : StartImport(t, d)
    \/ \E p \in UserCalls : UserCall(t, p)
    \/ ResetImport(t)

LoadStep(t) == (\E fails \in BOOLEAN : CleanUp(t, fails)) \/ Hydrate(t)

ClientStep(t) == WorkerStep(t) \/ (UserCallEnds(t) /\ UNCHANGED vars)

ClientNext ==
    \/ \E t \in Tabs : \/ ServerStep(t) \/ ClientStep(t) \/ UserStep(t) \/ LoadStep(t)
                       \/ Reload(t) \/ SignedIn(t)
                       \/ \E j \in Jobs : Realtime(t, j)
    \/ \E j \in Jobs : UploadStep(j) \/ (HeartbeatExpires(j) /\ UNCHANGED clientVars)

ClientSpec == ClientInit /\ [][ClientNext]_allVars

\* Every call comes back one way or another, every worker runs on, uploads
\* end (the isolate has a time limit) and time passes.
Running ==
    /\ \A t \in Tabs : WF_allVars(ServerStep(t)) /\ WF_allVars(ClientStep(t))
                                                 /\ WF_allVars(LoadStep(t))
    /\ \A j \in Jobs : WF_allVars(UploadStep(j))
                       /\ WF_allVars(HeartbeatExpires(j) /\ UNCHANGED clientVars)

RunningSpec == ClientSpec /\ Running

\* Some admin opens the page again and again, and not every clean-up fails.
Visited == /\ SF_allVars(\E t \in Tabs : Reload(t))
           /\ SF_allVars(StaleJobs # {} /\ \E t \in Tabs : CleanUp(t, FALSE))

VisitedSpec == RunningSpec /\ Visited

-----------------------------------------------------------------------------
(* Safety and liveness.                                                     *)

\* The tab's promise to the database: when a job is marked ready, and from
\* then on, every row of the file is staged, whatever calls were lost and
\* whichever uploads came late.
FileRows == UNION {Batches[b] : b \in DOMAIN Batches}

ReadyJobIsWhole ==
    \A j \in Jobs : status[j] \in {"ready_to_apply"} \cup Completed =>
        \A r \in FileRows : rows[j][r] # "none"

ClientInv == ClientTypeOK /\ ReadyJobIsWhole

\* A row that was applied is never staged again: the database would let an
\* upload do so and would then apply it twice, only the order of the
\* worker's calls prevents it.
AppliedRowsStay ==
    [][\A j \in Jobs, r \in Rows : rows[j][r] = "applied" => rows'[j][r] = "applied"]_allVars

\* No job is left importing for ever by a worker that died, hung or lost
\* its connection: page loads clean it up.
ImportsEnd == \A j \in Jobs : status[j] \in Active ~> status[j] \notin Active
=============================================================================
