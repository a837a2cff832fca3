----------------------------- MODULE ImportJobs -----------------------------
(***************************************************************************)
(* The database side of a coach, field or field-availability CSV import:   *)
(* the import_jobs row, its staged rows, the ledger of applied records and *)
(* the import-validation Edge Function calls that stage rows.              *)
(*                                                                         *)
(* Every SQL function below is one transaction that takes the job's row    *)
(* with SELECT ... FOR UPDATE first, so it is one action.  The Edge        *)
(* Function is not a transaction: it reads the status, deletes the staged  *)
(* rows it is about to replace and inserts the new ones in three separate  *)
(* calls, so it is three actions.  Where a migration replaces a function,  *)
(* the last definition is the one modelled.                                *)
(*                                                                         *)
(* A "target" stands for a domain record (a coach, a field, a slot, an     *)
(* availability profile) that applying a row inserts or updates; which     *)
(* records a row touches is left open here, CoachImport decides it.        *)
(***************************************************************************)
EXTENDS FiniteSets

CONSTANTS
    Jobs,       \* import_jobs ids
    Rows,       \* source row numbers of a file
    Targets,    \* domain records an import may write
    Kinds       \* import types in play

DeferrableKinds == {"coaches", "fields", "field_availability"}

ASSUME KindsAssumption == Kinds \subseteq DeferrableKinds

VARIABLES
    status,     \* import_jobs.status, or "absent" before the insert
    kind,       \* import type of the job
    stale,      \* last_heartbeat_at is older than the clean-up cutoff
    rows,       \* staging_import_rows of the job, by source_row_number
    live,       \* ledger records with rolled_back_at IS NULL, by target
    undone,     \* ledger records with rolled_back_at set, by target
    written,    \* targets holding a write of the job not rolled back
    upload      \* the Edge Function call staging rows for the job

jobVars    == <<status, kind, stale>>
ledgerVars == <<live, undone, written>>
vars       == <<status, kind, stale, rows, live, undone, written, upload>>

-----------------------------------------------------------------------------
(* States of a job, of a staged row and of an upload.                       *)

Active    == {"queued", "processing", "importing"}
Completed == {"completed", "completed_with_warnings"}
Statuses  == Active \cup Completed \cup {"ready_to_apply", "needs_fix", "failed"}

RowStates == {"none", "staged", "rejected", "applied"}

NoUpload == [phase |-> "idle", rows |-> {}]
Uploads  == [phase : {"idle", "checked", "deleted"}, rows : SUBSET Rows]

Exists(j) == status[j] # "absent"

TypeOK ==
    /\ status  \in [Jobs -> Statuses \cup {"absent"}]
    /\ kind    \in [Jobs -> DeferrableKinds \cup {"absent"}]
    /\ stale   \in [Jobs -> BOOLEAN]
    /\ rows    \in [Jobs -> [Rows -> RowStates]]
    /\ live    \in [Jobs -> SUBSET Targets]
    /\ undone  \in [Jobs -> SUBSET Targets]
    /\ written \in [Jobs -> SUBSET Targets]
    /\ upload  \in [Jobs -> Uploads]

Init ==
    /\ status  = [j \in Jobs |-> "absent"]
    /\ kind    = [j \in Jobs |-> "absent"]
    /\ stale   = [j \in Jobs |-> FALSE]
    /\ rows    = [j \in Jobs |-> [r \in Rows |-> "none"]]
    /\ live    = [j \in Jobs |-> {}]
    /\ undone  = [j \in Jobs |-> {}]
    /\ written = [j \in Jobs |-> {}]
    /\ upload  = [j \in Jobs |-> NoUpload]

-----------------------------------------------------------------------------
(* Life cycle RPCs.                                                         *)

\* create_import_job
CreateJob(j, k) ==
    /\ ~Exists(j)
    /\ status' = [status EXCEPT ![j] = "importing"]
    /\ kind'   = [kind EXCEPT ![j] = k]
    /\ UNCHANGED <<stale, rows, ledgerVars, upload>>

\* update_import_job_progress: the client worker's heartbeat
CanUpdateProgress(j) == status[j] \in Active

UpdateProgress(j) ==
    /\ CanUpdateProgress(j)
    /\ stale' = [stale EXCEPT ![j] = FALSE]
    /\ UNCHANGED <<status, kind, rows, ledgerVars, upload>>

\* fail_import_job
CanFail(j) == Exists(j) /\ status[j] \notin Completed

FailJob(j) ==
    /\ CanFail(j)
    /\ status' = [status EXCEPT ![j] = "failed"]
    /\ stale'  = [stale EXCEPT ![j] = FALSE]
    /\ UNCHANGED <<kind, rows, ledgerVars, upload>>

\* The clean-up cutoff passes the last heartbeat of a job being imported.
HeartbeatExpires(j) ==
    /\ status[j] \in Active
    /\ ~stale[j]
    /\ stale' = [stale EXCEPT ![j] = TRUE]
    /\ UNCHANGED <<status, kind, rows, ledgerVars, upload>>

\* Mutant: the clean-up knows the status of a running job by its old name.
StaleJobsProcessing == {j \in Jobs : status[j] = "processing" /\ stale[j]}

\* fail_stale_import_jobs: one statement over every job of the organization
StaleJobs == {j \in Jobs : status[j] \in Active /\ stale[j]}

FailStaleJobs ==
    /\ StaleJobs # {}
    /\ status' = [j \in Jobs |-> IF j \in StaleJobs THEN "failed" ELSE status[j]]
    /\ UNCHANGED <<kind, stale, rows, ledgerVars, upload>>

\* mark_import_job_ready_to_apply: the job's status is not consulted
MarkReady(j) ==
    /\ Exists(j)
    /\ status' = [status EXCEPT ![j] = "ready_to_apply"]
    /\ UNCHANGED <<kind, stale, rows, ledgerVars, upload>>

\* cancel_ready_import_job: the job's status is not consulted
CancelReady(j) ==
    /\ Exists(j)
    /\ status' = [status EXCEPT ![j] = "failed"]
    /\ UNCHANGED <<kind, stale, rows, ledgerVars, upload>>

-----------------------------------------------------------------------------
(* The import-validation Edge Function.                                     *)

CanStage(j) == Exists(j) /\ status[j] \notin Completed \cup {"failed"}

\* The status is read here and never again.  One call at a time serves a
\* job: its worker awaits the answer to a chunk before it sends the next.
BeginUpload(j, R) ==
    /\ CanStage(j)
    /\ upload[j].phase = "idle"
    /\ upload' = [upload EXCEPT ![j] = [phase |-> "checked", rows |-> R]]
    /\ UNCHANGED <<jobVars, rows, ledgerVars>>

\* Mutant: rows already applied are kept by the delete.
DeleteUnapplied(j) ==
    /\ upload[j].phase = "checked"
    /\ rows' = [rows EXCEPT ![j] =
                    [r \in Rows |-> IF r \in upload[j].rows /\ rows[j][r] # "applied"
                                   THEN "none" ELSE rows[j][r]]]
    /\ upload' = [upload EXCEPT ![j].phase = "deleted"]
    /\ UNCHANGED <<jobVars, ledgerVars>>

DeleteStaged(j) ==
    /\ upload[j].phase = "checked"
    /\ rows' = [rows EXCEPT ![j] =
                    [r \in Rows |-> IF r \in upload[j].rows THEN "none" ELSE rows[j][r]]]
    /\ upload' = [upload EXCEPT ![j].phase = "deleted"]
    /\ UNCHANGED <<jobVars, ledgerVars>>

InsertStaged(j) ==
    /\ upload[j].phase = "deleted"
    /\ rows' = [rows EXCEPT ![j] =
                    [r \in Rows |-> IF r \in upload[j].rows THEN "staged" ELSE rows[j][r]]]
    /\ upload' = [upload EXCEPT ![j] = NoUpload]
    /\ UNCHANGED <<jobVars, ledgerVars>>

\* A delete or insert error, or the end of the isolate: what is done stays.
AbortUpload(j) ==
    /\ upload[j].phase # "idle"
    /\ upload' = [upload EXCEPT ![j] = NoUpload]
    /\ UNCHANGED <<jobVars, rows, ledgerVars>>

-----------------------------------------------------------------------------
(* Apply and roll back.                                                     *)

\* Only the field-availability finalizer has no "failed" guard.
CanFinalize(j) ==
    /\ Exists(j)
    /\ status[j] = "failed" => kind[j] = "field_availability"

\* Rows the finalizer's cursor selects.  Rows it rejected before carry
\* validation_errors, which only the field-availability cursor ignores.
Pending(j) ==
    {r \in Rows : \/ rows[j][r] = "staged"
                  \/ rows[j][r] = "rejected" /\ kind[j] = "field_availability"}

\* Which targets the applied rows may write.  Every coach and availability
\* row writes one; a field row may find its location and field as they are.
\* Availability profiles are always inserted, so their targets are fresh.
MayWrite(j, ok, new) ==
    /\ ok = {} => new = {}
    /\ ok # {} /\ kind[j] # "fields" => new # {}
    /\ kind[j] = "field_availability" => new \cap (live[j] \cup undone[j]) = {}

\* finalize_*_import_job: ok are the rows that apply, new the targets they
\* write, errors whether the client passed validation errors.  A ledger
\* record that exists, rolled back or not, is left alone (ON CONFLICT).
FinalizeJob(j, ok, new, errors) ==
    /\ CanFinalize(j)
    /\ ok \subseteq Pending(j)
    /\ MayWrite(j, ok, new)
    /\ rows' = [rows EXCEPT ![j] =
                    [r \in Rows |-> IF r \in ok THEN "applied"
                                    ELSE IF r \in Pending(j) THEN "rejected"
                                    ELSE rows[j][r]]]
    /\ written' = [written EXCEPT ![j] = @ \cup new]
    /\ live'    = [live EXCEPT ![j] = @ \cup (new \ undone[j])]
    /\ status'  = [status EXCEPT ![j] =
                       IF errors \/ ok # Pending(j)
                       THEN "completed_with_warnings" ELSE "completed"]
    /\ UNCHANGED <<kind, stale, undone, upload>>

\* rollback_*_import_job: records in use downstream are kept (blocked); the
\* field-availability rollback checks nothing and keeps nothing.
CanRollback(j) ==
    /\ Exists(j)
    /\ live[j] = {} => kind[j] = "field_availability"

RollbackJob(j, blocked) ==
    /\ CanRollback(j)
    /\ blocked \subseteq live[j]
    /\ kind[j] = "field_availability" => blocked = {}
    /\ live'    = [live EXCEPT ![j] = blocked]
    /\ undone'  = [undone EXCEPT ![j] = @ \cup (live[j] \ blocked)]
    /\ written' = [written EXCEPT ![j] = @ \ (live[j] \ blocked)]
    /\ status'  = [status EXCEPT ![j] =
                       IF blocked # {} THEN "completed_with_warnings" ELSE "needs_fix"]
    /\ UNCHANGED <<kind, stale, rows, upload>>

-----------------------------------------------------------------------------
JobStep(j) ==
    \/ \E k \in Kinds : CreateJob(j, k)
    \/ UpdateProgress(j)
    \/ FailJob(j)
    \/ HeartbeatExpires(j)
    \/ MarkReady(j)
    \/ CancelReady(j)
    \/ \E R \in (SUBSET Rows) \ {{}} : BeginUpload(j, R)
    \/ DeleteStaged(j)
    \/ InsertStaged(j)
    \/ AbortUpload(j)
    \/ \E ok \in SUBSET Pending(j), new \in SUBSET Targets, errors \in BOOLEAN :
           FinalizeJob(j, ok, new, errors)
    \/ \E blocked \in SUBSET live[j] : RollbackJob(j, blocked)

Next ==
    \/ \E j \in Jobs : JobStep(j)
    \/ FailStaleJobs

Spec == Init /\ [][Next]_vars

-----------------------------------------------------------------------------
(* Safety.                                                                  *)

\* A job still being imported has written nothing: whatever fails it there -
\* its own worker, or the stale clean-up of another admin's page load
\* (20260503100000_import_stale_job_cleanup.sql:61) - leaves nothing to undo.
ActiveJobUntouched ==
    \A j \in Jobs : status[j] \in Active =>
        /\ written[j] = {} /\ live[j] = {} /\ undone[j] = {}
        /\ \A r \in Rows : rows[j][r] # "applied"

\* The ledger never claims a write it cannot undo, and never forgets one: a
\* live record is a standing write, a record is live or undone and never
\* both, and every standing write has a record of some kind.
LedgerSound ==
    \A j \in Jobs :
        /\ live[j] \subseteq written[j]
        /\ live[j] \cap undone[j] = {}
        /\ written[j] \subseteq live[j] \cup undone[j]

\* A staged row stamped applied_at has left a record: what the counters of
\* the finalizers report as applied can be found in the ledger.  (A field
\* row may apply without writing anything.)
AppliedRowsRecorded ==
    \A j \in Jobs :
        kind[j] # "fields" /\ (\E r \in Rows : rows[j][r] = "applied")
            => live[j] \cup undone[j] # {}

\* A rollback that reports success leaves no live record behind, whatever
\* was applied, rolled back, staged and applied again before it.
NeedsFixHasNothingLive ==
    \A j \in Jobs : status[j] = "needs_fix" => live[j] = {}

\* What a job's ledger says of it holds whatever was applied, rolled back,
\* blocked, staged and applied again: finalizers and rollbacks keep three
\* tables - ledger, domain rows, staged rows - and the status in step.
LedgerInv == LedgerSound /\ AppliedRowsRecorded /\ NeedsFixHasNothingLive

\* The insert of a chunk never meets the UNIQUE (import_job_id,
\* source_row_number) constraint, although the delete that makes room for it
\* is a call of its own and every RPC may run in between.
StagingInsertFindsRoom ==
    \A j \in Jobs : upload[j].phase = "deleted" =>
        \A r \in upload[j].rows : rows[j][r] = "none"

\* What status, staged rows and ledger of a job say of each other, through
\* every order of uploads, applications, rollbacks, failures and clean-ups.
JobsAgree == ActiveJobUntouched /\ LedgerInv /\ StagingInsertFindsRoom

\* The inductive form of the invariants above, job by job.  What it adds: a
\* job that does not exist yet has no trace anywhere.
JobInv(j) ==
    /\ status[j] = "absent" =>
           /\ written[j] = {} /\ live[j] = {} /\ undone[j] = {}
           /\ upload[j] = NoUpload
           /\ \A r \in Rows : rows[j][r] = "none"
    /\ status[j] \in Active =>
           /\ written[j] = {} /\ live[j] = {} /\ undone[j] = {}
           /\ \A r \in Rows : rows[j][r] # "applied"
    /\ live[j] \subseteq written[j]
    /\ live[j] \cap undone[j] = {}
    /\ written[j] \subseteq live[j] \cup undone[j]
    /\ kind[j] # "fields" /\ (\E r \in Rows : rows[j][r] = "applied")
           => live[j] \cup undone[j] # {}
    /\ status[j] = "needs_fix" => live[j] = {}
    /\ upload[j].phase = "deleted" =>
           \A r \in upload[j].rows : rows[j][r] = "none"

IndInv == TypeOK /\ \A j \in Jobs : JobInv(j)

=============================================================================
