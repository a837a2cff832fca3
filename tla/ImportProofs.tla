---------------------------- MODULE ImportProofs ----------------------------
(***************************************************************************)
(* Theorems about imports: of the jobs in the database, for every set of   *)
(* jobs, rows and targets (ImportJobs); of the tabs whose workers and      *)
(* users drive them, for every number of tabs and every file               *)
(* (ImportClient); and of what a coach import does to the coaches table,   *)
(* for every set of files and coaches and whatever is written beside it    *)
(* (CoachImport).  Each part cites the assumptions of its own module only. *)
(***************************************************************************)
EXTENDS ImportClient, CoachImport, FiniteSetTheorems, WellFoundedInduction, TLAPS

USE DEF Active, Completed, Statuses, RowStates, NoUpload, Uploads,
        DeferrableKinds, Exists

\* The invariant holds of an empty database.
LEMMA InitIndInv == Init => IndInv
  BY DEF Init, IndInv, TypeOK, JobInv

\* Every step keeps every variable in its type.
LEMMA TypeStep ==
  ASSUME TypeOK, [Next]_vars
  PROVE  TypeOK'
<1> USE DEF TypeOK
<1>1. CASE UNCHANGED vars
  BY <1>1 DEF vars
<1>2. ASSUME NEW j \in Jobs, JobStep(j) PROVE TypeOK'
  <2> USE DEF jobVars, ledgerVars
  <2>1. ASSUME NEW k \in Kinds, CreateJob(j, k) PROVE TypeOK'
    BY <2>1, KindsAssumption DEF CreateJob
  <2>2. CASE UpdateProgress(j)      BY <2>2 DEF UpdateProgress
  <2>3. CASE FailJob(j)             BY <2>3 DEF FailJob
  <2>4. CASE HeartbeatExpires(j)    BY <2>4 DEF HeartbeatExpires
  <2>5. CASE MarkReady(j)           BY <2>5 DEF MarkReady
  <2>6. CASE CancelReady(j)         BY <2>6 DEF CancelReady
  <2>7. ASSUME NEW R \in (SUBSET Rows) \ {{}}, BeginUpload(j, R) PROVE TypeOK'
    BY <2>7 DEF BeginUpload
  <2>8. CASE DeleteStaged(j)        BY <2>8 DEF DeleteStaged
  <2>9. CASE InsertStaged(j)        BY <2>9 DEF InsertStaged
  <2>10. CASE AbortUpload(j)        BY <2>10 DEF AbortUpload
  <2>11. ASSUME NEW ok \in SUBSET Pending(j), NEW new \in SUBSET Targets,
                NEW errors \in BOOLEAN, FinalizeJob(j, ok, new, errors)
         PROVE  TypeOK'
    BY <2>11 DEF FinalizeJob
  <2>12. ASSUME NEW blocked \in SUBSET live[j], RollbackJob(j, blocked)
         PROVE  TypeOK'
    BY <2>12 DEF RollbackJob
  <2> QED
    BY <1>2, <2>1, <2>2, <2>3, <2>4, <2>5, <2>6, <2>7, <2>8, <2>9, <2>10,
       <2>11, <2>12 DEF JobStep
<1>3. CASE FailStaleJobs
  BY <1>3 DEF FailStaleJobs, StaleJobs, ledgerVars
<1> QED
  BY <1>1, <1>2, <1>3 DEF Next

\* The state of a job is untouched by a step.
Same(i) ==
  /\ status'[i] = status[i] /\ kind'[i] = kind[i] /\ rows'[i] = rows[i]
  /\ live'[i] = live[i] /\ undone'[i] = undone[i]
  /\ written'[i] = written[i] /\ upload'[i] = upload[i]

\* A step of one job leaves the others alone.
LEMMA OtherJobsUntouched ==
  ASSUME TypeOK, NEW j \in Jobs, JobStep(j), NEW i \in Jobs, i # j
  PROVE  Same(i)
<1> USE DEF TypeOK, Same, jobVars, ledgerVars
<1>1. ASSUME NEW k \in Kinds, CreateJob(j, k) PROVE Same(i)
  BY <1>1 DEF CreateJob
<1>2. CASE UpdateProgress(j)      BY <1>2 DEF UpdateProgress
<1>3. CASE FailJob(j)             BY <1>3 DEF FailJob
<1>4. CASE HeartbeatExpires(j)    BY <1>4 DEF HeartbeatExpires
<1>5. CASE MarkReady(j)           BY <1>5 DEF MarkReady
<1>6. CASE CancelReady(j)         BY <1>6 DEF CancelReady
<1>7. ASSUME NEW R \in (SUBSET Rows) \ {{}}, BeginUpload(j, R) PROVE Same(i)
  BY <1>7 DEF BeginUpload
<1>8. CASE DeleteStaged(j)        BY <1>8 DEF DeleteStaged
<1>9. CASE InsertStaged(j)        BY <1>9 DEF InsertStaged
<1>10. CASE AbortUpload(j)        BY <1>10 DEF AbortUpload
<1>11. ASSUME NEW ok \in SUBSET Pending(j), NEW new \in SUBSET Targets,
              NEW errors \in BOOLEAN, FinalizeJob(j, ok, new, errors)
       PROVE  Same(i)
  BY <1>11 DEF FinalizeJob
<1>12. ASSUME NEW blocked \in SUBSET live[j], RollbackJob(j, blocked)
       PROVE  Same(i)
  BY <1>12 DEF RollbackJob
<1> QED
  BY <1>1, <1>2, <1>3, <1>4, <1>5, <1>6, <1>7, <1>8, <1>9, <1>10, <1>11,
     <1>12 DEF JobStep

\* No step writes for a job that is being imported or does not exist, and
\* every writer keeps the ledger in step with what it writes.
LEMMA OwnJobStep ==
  ASSUME TypeOK, NEW j \in Jobs, JobInv(j), JobStep(j)
  PROVE  JobInv(j)'
<1> USE DEF TypeOK, JobInv, jobVars, ledgerVars
<1>1. ASSUME NEW k \in Kinds, CreateJob(j, k) PROVE JobInv(j)'
  BY <1>1 DEF CreateJob
<1>2. CASE UpdateProgress(j)      BY <1>2 DEF UpdateProgress
<1>3. CASE FailJob(j)             BY <1>3 DEF FailJob, CanFail
<1>4. CASE HeartbeatExpires(j)    BY <1>4 DEF HeartbeatExpires
<1>5. CASE MarkReady(j)           BY <1>5 DEF MarkReady
<1>6. CASE CancelReady(j)         BY <1>6 DEF CancelReady
<1>7. ASSUME NEW R \in (SUBSET Rows) \ {{}}, BeginUpload(j, R) PROVE JobInv(j)'
  BY <1>7 DEF BeginUpload, CanStage
<1>8. CASE DeleteStaged(j)        BY <1>8 DEF DeleteStaged
<1>9. CASE InsertStaged(j)        BY <1>9 DEF InsertStaged
<1>10. CASE AbortUpload(j)        BY <1>10 DEF AbortUpload
<1>11. ASSUME NEW ok \in SUBSET Pending(j), NEW new \in SUBSET Targets,
              NEW errors \in BOOLEAN, FinalizeJob(j, ok, new, errors)
       PROVE  JobInv(j)'
  <2>1. \A r \in Rows : rows[j][r] = "none" => rows'[j][r] = "none"
    BY <1>11 DEF FinalizeJob, Pending
  <2>2. (\E r \in Rows : rows'[j][r] = "applied") =>
            ok # {} \/ \E r \in Rows : rows[j][r] = "applied"
    BY <1>11 DEF FinalizeJob
  <2>3. kind[j] # "fields" /\ ok # {} => new # {}
    BY <1>11 DEF FinalizeJob, MayWrite
  <2>4. /\ written'[j] = written[j] \cup new
        /\ live'[j] = live[j] \cup (new \ undone[j])
    BY <1>11 DEF FinalizeJob
  <2>5. /\ undone'[j] = undone[j] /\ kind'[j] = kind[j]
        /\ upload'[j] = upload[j] /\ status'[j] \in Completed
    BY <1>11 DEF FinalizeJob
  <2> QED  BY <2>1, <2>2, <2>3, <2>4, <2>5
<1>12. ASSUME NEW blocked \in SUBSET live[j], RollbackJob(j, blocked)
       PROVE  JobInv(j)'
  BY <1>12 DEF RollbackJob, CanRollback
<1> HIDE DEF TypeOK, JobInv
<1> QED
  BY <1>1, <1>2, <1>3, <1>4, <1>5, <1>6, <1>7, <1>8, <1>9, <1>10, <1>11,
     <1>12 DEF JobStep

\* The invariant is preserved by every step.
LEMMA InvariantStep ==
  ASSUME IndInv, [Next]_vars
  PROVE  IndInv'
<1>0. TypeOK /\ TypeOK'
  BY TypeStep DEF IndInv
<1>1. CASE UNCHANGED vars
  BY <1>0, <1>1 DEF IndInv, JobInv, vars
<1>2. ASSUME NEW j \in Jobs, JobStep(j) PROVE IndInv'
  <2>1. JobInv(j)'
    BY <1>0, <1>2, OwnJobStep DEF IndInv
  <2>2. ASSUME NEW i \in Jobs, i # j PROVE JobInv(i)'
    <3>1. Same(i)
      BY <1>0, <1>2, <2>2, OtherJobsUntouched
    <3> QED  BY <3>1 DEF IndInv, JobInv, Same
  <2> QED  BY <1>0, <2>1, <2>2 DEF IndInv
<1>3. CASE FailStaleJobs
  <2>1. ASSUME NEW i \in Jobs PROVE JobInv(i)'
    BY <1>0, <1>3
    DEF IndInv, TypeOK, JobInv, FailStaleJobs, StaleJobs, ledgerVars
  <2> QED  BY <1>0, <2>1 DEF IndInv
<1> QED
  BY <1>1, <1>2, <1>3 DEF Next

\* IndInv is an invariant of the specification.
LEMMA Invariance == Spec => []IndInv
  BY InitIndInv, InvariantStep, PTL DEF Spec

\* Type correctness.
THEOREM TypeCorrect == Spec => []TypeOK
<1>1. IndInv => TypeOK  BY DEF IndInv
<1> QED  BY <1>1, Invariance, PTL

\* However many admins, tabs and Edge Function calls act on it, a job that is
\* still being imported has written no domain record, so failing it - by its
\* worker or by the stale clean-up - never strands a write.
THEOREM ActiveJobsWroteNothing == Spec => []ActiveJobUntouched
<1>1. IndInv => ActiveJobUntouched
  BY DEF IndInv, JobInv, ActiveJobUntouched
<1> QED  BY <1>1, Invariance, PTL

\* Through every sequence of apply, rollback, staging and apply again the
\* ledger agrees with the writes, accounts for every row stamped as applied,
\* and holds nothing live of a job whose rollback succeeded.
THEOREM LedgerAgrees == Spec => []LedgerInv
<1>1. IndInv => LedgerSound
  BY DEF IndInv, JobInv, LedgerSound
<1>2. IndInv => AppliedRowsRecorded
  BY DEF IndInv, JobInv, AppliedRowsRecorded
<1>3. IndInv => NeedsFixHasNothingLive
  BY DEF IndInv, JobInv, NeedsFixHasNothingLive
<1>4. IndInv => LedgerInv
  BY <1>1, <1>2, <1>3 DEF LedgerInv
<1> QED  BY <1>4, Invariance, PTL

\* Replacing staged rows never violates their unique key.
THEOREM StagingNeverCollides == Spec => []StagingInsertFindsRoom
<1>1. IndInv => StagingInsertFindsRoom
  BY DEF IndInv, JobInv, StagingInsertFindsRoom
<1> QED  BY <1>1, Invariance, PTL

\* Status, staged rows and ledger agree for any jobs, rows, targets and kinds.
THEOREM EveryJobAgrees == Spec => []JobsAgree
  BY ActiveJobsWroteNothing, LedgerAgrees, StagingNeverCollides, PTL DEF JobsAgree

HIDE DEF Active, Completed, Statuses, RowStates, NoUpload, Uploads, DeferrableKinds, Exists


\* A tab runs the worker of job j; it may still send batches of its file.
WorkPlaces == WorkerCalls \ {"create"}
Works(t, j) ==
    active[t] = j /\ (place[t] \in WorkPlaces \/ Answered(t, "create", {"ok"}))
Uploading(t, j) == Works(t, j) /\ place[t] \notin {"ready", "finalize", "fail"}

\* No batch of the job is on its way or being staged.
Quiet(j) == posted[j] = {} /\ upload[j].phase = "idle"

Whole(j) == \A r \in FileRows : rows[j][r] # "none"

\* The job's file is staged and nothing is left that would touch it.
Settled(j) == Whole(j) /\ Quiet(j) /\ \A t \in Tabs : ~Uploading(t, j)

Earlier(n) == UNION {Batches[b] : b \in 1 .. n}

\* What a worker knows of its job at each of its calls.
Progress(t, j) ==
    /\ place[t] \in {"create", "total", "efficiency"} => Quiet(j)
    /\ place[t] = "validate" /\ answer[t] = "pending" =>
           /\ posted[j] \in {{}, Batches[batch[t]]}
           /\ upload[j].phase # "idle" => posted[j] = {} /\ upload[j].rows = Batches[batch[t]]
           /\ \A r \in Earlier(batch[t] - 1) :
                 rows[j][r] # "none" \/ (upload[j].phase = "deleted" /\ r \in upload[j].rows)
    /\ place[t] = "report" \/ (place[t] = "validate" /\ answer[t] \in Good) =>
           Quiet(j) /\ \A r \in Earlier(batch[t]) : rows[j][r] # "none"
    /\ place[t] \in {"ready", "finalize"} => Quiet(j) /\ Whole(j)

Unapplied(j) == \A r \in Rows : rows[j][r] # "applied"

WorkInv(j) ==
    /\ status[j] = "absent" =>
           posted[j] = {} /\ \A t \in Tabs : active[t] # j /\ view[t] # j
    /\ status[j] \in {"ready_to_apply", "needs_fix"} \cup Completed => Settled(j)
    /\ \A t \in Tabs : view[t] = j => Settled(j)
    /\ \A t, u \in Tabs : Works(t, j) /\ Works(u, j) => t = u
    /\ \A t \in Tabs : Works(t, j) => Progress(t, j)
    /\ ~Quiet(j) \/ (\E t \in Tabs : Uploading(t, j)) => Unapplied(j)

TabInv(t) ==
    /\ place[t] \in UserCalls => view[t] # NoJob
    /\ place[t] \in WorkPlaces \/ Answered(t, "create", {"ok"}) => active[t] # NoJob

WorkersInv == (\A j \in Jobs : WorkInv(j)) /\ \A t \in Tabs : TabInv(t)

(***************************************************************************)
(* The batches of the file.                                                *)
(***************************************************************************)
LEMMA BatchFacts ==
    /\ Len(Batches) \in Nat /\ DOMAIN Batches = 1 .. Len(Batches) /\ 1 \in DOMAIN Batches
    /\ \A b \in DOMAIN Batches : Batches[b] \in SUBSET Rows /\ Batches[b] # {}
    /\ FileRows \subseteq Rows
<1>1. Len(Batches) \in Nat /\ DOMAIN Batches = 1 .. Len(Batches) /\ Len(Batches) # 0
  BY BatchesAssumption
<1>2. \A b \in DOMAIN Batches : Batches[b] \in SUBSET Rows /\ Batches[b] # {}
  BY BatchesAssumption
<1>3. FileRows \subseteq Rows
  BY <1>2 DEF FileRows
<1>. QED  BY <1>1, <1>2, <1>3

LEMMA EarlierFacts ==
    /\ Earlier(0) = {}
    /\ Earlier(Len(Batches)) = FileRows
    /\ \A n \in DOMAIN Batches : /\ n - 1 \in Nat /\ n \in Nat
                                 /\ Earlier(n) = Earlier(n - 1) \cup Batches[n]
                                 /\ Earlier(n) \subseteq Rows
                                 /\ n + 1 - 1 = n
<1>1. Earlier(0) = {}
  BY DEF Earlier
<1>2. Earlier(Len(Batches)) = FileRows
  BY BatchFacts DEF Earlier, FileRows
<1>3. ASSUME NEW n \in DOMAIN Batches
      PROVE  /\ n - 1 \in Nat /\ n \in Nat
             /\ Earlier(n) = Earlier(n - 1) \cup Batches[n]
             /\ Earlier(n) \subseteq Rows
             /\ n + 1 - 1 = n
  <2>1. n \in 1 .. Len(Batches) /\ Len(Batches) \in Nat
    BY <1>3, BatchFacts
  <2>2. 1 .. n = (1 .. n - 1) \cup {n}
    BY <2>1
  <2>3. \A b \in 1 .. n : b \in DOMAIN Batches
    BY <2>1, BatchFacts
  <2>. QED  BY <2>1, <2>2, <2>3, BatchFacts DEF Earlier
<1>. QED  BY <1>1, <1>2, <1>3

(***************************************************************************)
(* Every step of the clients is a step of the database or none.            *)
(***************************************************************************)
ClientIndInv == IndInv /\ ClientTypeOK /\ WorkersInv

LEMMA SubjectIsJob ==
    ASSUME ClientTypeOK, WorkersInv, NEW t \in Tabs, place[t] \in OneStepCalls
    PROVE  Subject(t) \in Jobs
  BY DEF ClientTypeOK, WorkersInv, TabInv, Subject, OneStepCalls, WorkPlaces

LEMMA ServedIsJobStep ==
    ASSUME NEW p, NEW j \in Jobs, Execute(p, j)
    PROVE  JobStep(j)
<1>1. \A ok, new, errors : FinalizeJob(j, ok, new, errors) => ok \in SUBSET Pending(j)
  BY DEF FinalizeJob
<1>2. \A blocked : RollbackJob(j, blocked) => blocked \in SUBSET live[j]
  BY DEF RollbackJob
<1>. QED  BY <1>1, <1>2 DEF Execute, JobStep

LEMMA ClientStepIsJobStep ==
    ASSUME ClientTypeOK, WorkersInv, [ClientNext]_allVars
    PROVE  [Next]_vars
<1>1. CASE UNCHANGED allVars
  BY <1>1 DEF allVars
<1>2. ASSUME NEW t \in Tabs, ServerStep(t) PROVE [Next]_vars
  <2>1. CASE ServeCreate(t)
    BY <2>1 DEF ServeCreate, Next, JobStep
  <2>2. CASE Serve(t)
    BY <2>2, SubjectIsJob, ServedIsJobStep DEF Serve, Next
  <2>3. CASE NotServed(t)
    BY <2>3 DEF NotServed
  <2>. QED  BY <1>2, <2>1, <2>2, <2>3 DEF ServerStep
<1>3. ASSUME NEW t \in Tabs, LoadStep(t) PROVE [Next]_vars
  BY <1>3 DEF LoadStep, CleanUp, Hydrate, Next
<1>4. ASSUME NEW t \in Tabs, \/ ClientStep(t) \/ UserStep(t) \/ Reload(t) \/ SignedIn(t)
                             \/ \E j \in Jobs : Realtime(t, j)
      PROVE  UNCHANGED vars
  BY <1>4 DEF ClientStep, WorkerStep, UserStep, StartImport, UserCall, ResetImport, Reload,
     SignedIn, Realtime
<1>5. ASSUME NEW j \in Jobs, UploadStep(j) PROVE [Next]_vars
  <2>1. posted[j] \in SUBSET Rows
    BY DEF ClientTypeOK
  <2>2. CASE UploadArrives(j)
    <3>1. CASE UNCHANGED vars
      BY <3>1
    <3>2. CASE BeginUpload(j, posted[j])
      <4>1. posted[j] \in (SUBSET Rows) \ {{}}
        BY <2>1, <2>2 DEF UploadArrives
      <4>2. JobStep(j)
        BY <3>2, <4>1 DEF JobStep
      <4>. QED  BY <4>2 DEF Next
    <3>. QED  BY <2>2, <3>1, <3>2 DEF UploadArrives
  <2>3. CASE UploadLost(j)
    BY <2>3 DEF UploadLost
  <2>4. CASE UploadRuns(j) \/ UploadEnds(j)
    BY <2>4 DEF UploadRuns, UploadEnds, Next, JobStep
  <2>. QED  BY <1>5, <2>2, <2>3, <2>4 DEF UploadStep
<1>6. ASSUME NEW j \in Jobs, HeartbeatExpires(j) PROVE [Next]_vars
  BY <1>6 DEF Next, JobStep
<1>. QED  BY <1>1, <1>2, <1>3, <1>4, <1>5, <1>6 DEF ClientNext

(***************************************************************************)
(* The types of the clients' variables.                                    *)
(***************************************************************************)
Unknown == {"none", "pending", "ok", "warnings", "error"}

LEMMA SendType ==
    ASSUME ClientTypeOK, NEW t \in Tabs, NEW p \in Places, Sends(t, p)
    PROVE  place' \in [Tabs -> Places] /\ answer' \in [Tabs -> Unknown]
  BY DEF ClientTypeOK, Sends, Unknown

LEMMA StopType ==
    ASSUME ClientTypeOK, NEW t \in Tabs, NEW p \in Places, Stops(t, p)
    PROVE  /\ place' \in [Tabs -> Places] /\ answer' \in [Tabs -> Unknown]
           /\ batch' \in [Tabs -> DOMAIN Batches] /\ deferred' \in [Tabs -> BOOLEAN]
  BY BatchFacts DEF ClientTypeOK, Stops, Unknown

ShowType ==
    /\ shown'  \in [Tabs -> {"idle", "importing", "error"} \cup Statuses]
    /\ stored' \in [Tabs -> Storable]

LEMMA ShowsType ==
    ASSUME ClientTypeOK, NEW t \in Tabs, NEW s \in {"idle", "importing", "error"} \cup Statuses
    PROVE  /\ Shows(t, s) => ShowType
           /\ s \in Storable /\ Stores(t, s) => ShowType
  BY DEF ClientTypeOK, Shows, Stores, ShowType

LEMMA SendBatchType ==
    ASSUME ClientTypeOK, NEW t \in Tabs, NEW b \in DOMAIN Batches, SendBatch(t, b)
    PROVE  /\ place' \in [Tabs -> Places] /\ answer' \in [Tabs -> Unknown]
           /\ batch' \in [Tabs -> DOMAIN Batches] /\ posted' \in [Jobs -> SUBSET Rows]
<1>1. Batches[b] \in SUBSET Rows
  BY BatchFacts
<1>2. "validate" \in Places
  BY DEF Places, WorkerCalls
<1>3. place' \in [Tabs -> Places] /\ answer' \in [Tabs -> Unknown]
  BY <1>2, SendType DEF SendBatch
<1>. QED  BY <1>1, <1>3 DEF SendBatch, ClientTypeOK

LEMMA ClientTypeStep == ClientTypeOK /\ [ClientNext]_allVars => ClientTypeOK'
<1>1. SUFFICES ASSUME ClientTypeOK, [ClientNext]_allVars PROVE ClientTypeOK'
  OBVIOUS
<1> USE DEF Places, WorkerCalls, UserCalls, Storable, display, tabVars, clientVars
<1>2. CASE UNCHANGED allVars
  BY <1>1, <1>2 DEF allVars, ClientTypeOK
<1>3. ASSUME NEW t \in Tabs, ServerStep(t) PROVE ClientTypeOK'
  BY <1>1, <1>3 DEF ServerStep, ServeCreate, Serve, NotServed, Answers, ClientTypeOK
<1>4. ASSUME NEW t \in Tabs, WorkerStep(t) PROVE ClientTypeOK'
  <2>1. CASE Proceed(t) /\ UNCHANGED <<deferred, active>>
    <3>1. ASSUME NEW b \in DOMAIN Batches, SendBatch(t, b), UNCHANGED <<display, view>>
          PROVE  ClientTypeOK'
      BY <1>1, <2>1, <3>1, SendBatchType DEF ClientTypeOK, Unknown
    <3>2. ASSUME NEW p \in WorkerCalls, Sends(t, p), UNCHANGED <<batch, display, view, posted>>
          PROVE  ClientTypeOK'
      <4>1. place' \in [Tabs -> Places] /\ answer' \in [Tabs -> Unknown]
        BY <1>1, <3>2, SendType
      <4>. QED  BY <1>1, <2>1, <3>2, <4>1 DEF ClientTypeOK, Unknown
    <3>3. CASE Answered(t, "efficiency", {"ok"}) /\ SendBatch(t, 1) /\ UNCHANGED <<display, view>>
      BY <3>1, <3>3, BatchFacts
    <3>4. CASE /\ batch[t] < Len(Batches) /\ SendBatch(t, batch[t] + 1)
               /\ UNCHANGED <<display, view>>
      <4>1. batch[t] \in DOMAIN Batches
        BY <1>1 DEF ClientTypeOK
      <4>2. batch[t] + 1 \in DOMAIN Batches
        BY <3>4, <4>1, BatchFacts
      <4>. QED  BY <3>1, <3>4, <4>2
    <3>. QED  BY <2>1, <3>2, <3>3, <3>4 DEF Proceed
  <2>2. CASE SkipReport(t) /\ UNCHANGED <<deferred, active>>
    <3>1. batch[t] \in DOMAIN Batches
      BY <1>1 DEF ClientTypeOK
    <3>2. batch[t] + 1 \in DOMAIN Batches
      BY <2>2, <3>1, BatchFacts DEF SkipReport
    <3>. QED  BY <1>1, <2>2, <3>2, SendBatchType DEF SkipReport, ClientTypeOK, Unknown
  <2>3. CASE WorkerFails(t) /\ UNCHANGED <<deferred, active>>
    <3>1. place' \in [Tabs -> Places] /\ answer' \in [Tabs -> Unknown]
      BY <1>1, <2>3, SendType DEF WorkerFails
    <3>. QED  BY <1>1, <2>3, <3>1 DEF WorkerFails, ClientTypeOK, Unknown
  <2>4. CASE WorkerThrows(t) /\ UNCHANGED active
    <3>1. /\ place' \in [Tabs -> Places] /\ answer' \in [Tabs -> Unknown]
          /\ batch' \in [Tabs -> DOMAIN Batches] /\ deferred' \in [Tabs -> BOOLEAN]
      BY <1>1, <2>4, StopType DEF WorkerThrows
    <3>. QED  BY <1>1, <2>4, <3>1 DEF WorkerThrows, ClientTypeOK, Unknown
  <2>5. CASE WorkerEnds(t) /\ UNCHANGED <<posted, active>>
    <3>1. /\ place' \in [Tabs -> Places] /\ answer' \in [Tabs -> Unknown]
          /\ batch' \in [Tabs -> DOMAIN Batches] /\ deferred' \in [Tabs -> BOOLEAN]
      BY <1>1, <2>5, StopType DEF WorkerEnds
    <3>2. ShowType
      BY <1>1, <2>5, ShowsType DEF WorkerEnds, Statuses, Completed
    <3>3. view' \in [Tabs -> Jobs \cup {NoJob}]
      BY <1>1, <2>5 DEF WorkerEnds, ClientTypeOK
    <3>. QED  BY <1>1, <2>5, <3>1, <3>2, <3>3 DEF ClientTypeOK, Unknown, ShowType
  <2>. QED  BY <1>4, <2>1, <2>2, <2>3, <2>4, <2>5 DEF WorkerStep
<1>5. ASSUME NEW t \in Tabs, UserCallEnds(t) PROVE ClientTypeOK'
  <2>1. /\ place' \in [Tabs -> Places] /\ answer' \in [Tabs -> Unknown]
        /\ batch' \in [Tabs -> DOMAIN Batches] /\ deferred' \in [Tabs -> BOOLEAN]
    BY <1>1, <1>5, StopType DEF UserCallEnds
  <2>2. ShowType
    BY <1>1, <1>5, ShowsType DEF UserCallEnds, Statuses, Completed
  <2>3. view' \in [Tabs -> Jobs \cup {NoJob}] /\ active' \in [Tabs -> Jobs \cup {NoJob}]
    BY <1>1, <1>5 DEF UserCallEnds, ClientTypeOK
  <2>. QED  BY <1>1, <1>5, <2>1, <2>2, <2>3 DEF UserCallEnds, ClientTypeOK, Unknown, ShowType
<1>6. ASSUME NEW t \in Tabs, UserStep(t) PROVE ClientTypeOK'
  <2>1. ASSUME NEW d \in BOOLEAN, StartImport(t, d) PROVE ClientTypeOK'
    <3>1. place' \in [Tabs -> Places] /\ answer' \in [Tabs -> Unknown]
      BY <1>1, <2>1, SendType DEF StartImport
    <3>2. ShowType
      BY <1>1, <2>1, ShowsType DEF StartImport
    <3>. QED  BY <1>1, <2>1, <3>1, <3>2 DEF StartImport, ClientTypeOK, Unknown, ShowType
  <2>2. ASSUME NEW p \in UserCalls, UserCall(t, p) PROVE ClientTypeOK'
    <3>1. place' \in [Tabs -> Places] /\ answer' \in [Tabs -> Unknown]
      BY <1>1, <2>2, SendType DEF UserCall
    <3>2. ShowType
      BY <1>1, <2>2, ShowsType DEF UserCall
    <3>. QED  BY <1>1, <2>2, <3>1, <3>2 DEF UserCall, ClientTypeOK, Unknown, ShowType
  <2>3. CASE ResetImport(t)
    <3>1. ShowType
      BY <1>1, <2>3, ShowsType DEF ResetImport
    <3>. QED  BY <1>1, <2>3, <3>1 DEF ResetImport, ClientTypeOK, ShowType
  <2>. QED  BY <1>6, <2>1, <2>2, <2>3 DEF UserStep
<1>7. ASSUME NEW t \in Tabs, LoadStep(t) PROVE ClientTypeOK'
  <2>1. /\ place' \in [Tabs -> Places] /\ answer' \in [Tabs -> Unknown]
        /\ batch' \in [Tabs -> DOMAIN Batches] /\ deferred' \in [Tabs -> BOOLEAN]
    BY <1>1, <1>7, StopType DEF LoadStep, CleanUp, Hydrate
  <2>2. ASSUME NEW fails \in BOOLEAN, CleanUp(t, fails) PROVE ClientTypeOK'
    BY <1>1, <2>1, <2>2 DEF CleanUp, ClientTypeOK, Unknown
  <2>3. CASE Hydrate(t)
    <3>1. CASE Hydratable = {}
      BY <1>1, <2>1, <2>3, <3>1 DEF Hydrate, ClientTypeOK, Unknown
    <3>2. CASE Hydratable # {}
      <4>1. PICK j \in Hydratable :
                /\ active' = [active EXCEPT ![t] = j]
                /\ IF status[j] = "ready_to_apply"
                   THEN Stores(t, status[j]) /\ view' = [view EXCEPT ![t] = j]
                   ELSE Shows(t, status[j]) /\ UNCHANGED view
        BY <2>3, <3>2 DEF Hydrate
      <4>2. j \in Jobs /\ status[j] \in {"importing", "ready_to_apply"}
        BY DEF Hydratable
      <4>3. ShowType
        BY <1>1, <4>1, <4>2, ShowsType DEF Statuses, Active
      <4>. QED  BY <1>1, <2>1, <2>3, <4>1, <4>2, <4>3 DEF Hydrate, ClientTypeOK, Unknown, ShowType
    <3>. QED  BY <3>1, <3>2
  <2>. QED  BY <1>7, <2>2, <2>3 DEF LoadStep
<1>8. ASSUME NEW t \in Tabs, Reload(t) PROVE ClientTypeOK'
  <2>1. /\ place' \in [Tabs -> Places] /\ answer' \in [Tabs -> Unknown]
        /\ batch' \in [Tabs -> DOMAIN Batches] /\ deferred' \in [Tabs -> BOOLEAN]
    BY <1>1, <1>8, StopType DEF Reload
  <2>2. stored[t] \in {"idle", "importing", "error"} \cup Statuses
    BY <1>1 DEF ClientTypeOK, Statuses, Completed
  <2>3. ShowType
    BY <1>1, <1>8, <2>2, ShowsType DEF Reload
  <2>. QED  BY <1>1, <1>8, <2>1, <2>3 DEF Reload, ClientTypeOK, Unknown, ShowType
<1>9. ASSUME NEW t \in Tabs, SignedIn(t) PROVE ClientTypeOK'
  <2>1. /\ place' \in [Tabs -> Places] /\ answer' \in [Tabs -> Unknown]
        /\ batch' \in [Tabs -> DOMAIN Batches] /\ deferred' \in [Tabs -> BOOLEAN]
    BY <1>1, <1>9, StopType DEF SignedIn
  <2>. QED  BY <1>1, <1>9, <2>1 DEF SignedIn, ClientTypeOK, Unknown
<1>10. ASSUME NEW t \in Tabs, NEW j \in Jobs, Realtime(t, j) PROVE ClientTypeOK'
  <2>1. ShowType
    BY <1>1, <1>10, ShowsType DEF Realtime, Statuses
  <2>. QED  BY <1>1, <1>10, <2>1 DEF Realtime, ClientTypeOK, ShowType
<1>11. ASSUME NEW j \in Jobs, UploadStep(j) PROVE ClientTypeOK'
  <2>1. answer' \in [Tabs -> Unknown]
    BY <1>1, <1>11 DEF UploadStep, UploadArrives, UploadLost, UploadRuns, UploadEnds, Replies,
       ClientTypeOK, Unknown
  <2>. QED  BY <1>1, <1>11, <2>1 DEF UploadStep, UploadArrives, UploadLost, UploadRuns, UploadEnds,
       ClientTypeOK, Unknown
<1>12. CASE UNCHANGED clientVars
  BY <1>1, <1>12 DEF ClientTypeOK
<1>. QED
  BY <1>1, <1>2, <1>3, <1>4, <1>5, <1>6, <1>7, <1>8, <1>9, <1>10, <1>11, <1>12
  DEF ClientNext, ClientStep

(***************************************************************************)
(* A step that leaves the staging of a job as it is: what it must not do   *)
(* to the job's workers.                                                   *)
(***************************************************************************)
SameTab(u) ==
    /\ place'[u] = place[u] /\ answer'[u] = answer[u] /\ batch'[u] = batch[u]
    /\ active'[u] = active[u] /\ view'[u] = view[u]

SameStaging(i) == posted'[i] = posted[i] /\ upload'[i] = upload[i] /\ rows'[i] = rows[i]

\* Rows may be applied or rejected, but only once all are settled.
KeptStaging(i) ==
    /\ posted'[i] = posted[i] /\ upload'[i] = upload[i]
    /\ \A r \in Rows : rows'[i][r] = "none" <=> rows[i][r] = "none"
    /\ Settled(i) \/ rows'[i] = rows[i]

LEMMA KeptFacts ==
    ASSUME NEW i, KeptStaging(i)
    PROVE  /\ Quiet(i)' <=> Quiet(i)
           /\ Whole(i)' <=> Whole(i)
           /\ \A n \in DOMAIN Batches :
                 (\A r \in Earlier(n) : rows'[i][r] # "none")
                   <=> \A r \in Earlier(n) : rows[i][r] # "none"
<1>1. Quiet(i)' <=> Quiet(i)
  BY DEF KeptStaging, Quiet
<1>2. FileRows \subseteq Rows /\ \A n \in DOMAIN Batches : Earlier(n) \subseteq Rows
  BY BatchFacts, EarlierFacts
<1>. QED  BY <1>1, <1>2 DEF KeptStaging, Whole, FileRows

\* The workers of a tab that did nothing know what they knew.
LEMMA SameProgress ==
    ASSUME NEW u, NEW i, SameTab(u), KeptStaging(i), batch[u] \in DOMAIN Batches
    PROVE  /\ Progress(u, i)' <=> Progress(u, i)
           /\ Works(u, i)' <=> Works(u, i)
           /\ Uploading(u, i)' <=> Uploading(u, i)
<1> USE DEF SameTab
<1>1. (Works(u, i)' <=> Works(u, i)) /\ (Uploading(u, i)' <=> Uploading(u, i))
  BY DEF Works, Uploading, Answered
<1>2. /\ Quiet(i)' <=> Quiet(i)
      /\ Whole(i)' <=> Whole(i)
      /\ (\A r \in Earlier(batch[u]) : rows'[i][r] # "none")
             <=> \A r \in Earlier(batch[u]) : rows[i][r] # "none"
  BY KeptFacts
<1>3. \A r \in Earlier(batch[u] - 1) : rows'[i][r] = "none" <=> rows[i][r] = "none"
  <2>1. Earlier(batch[u] - 1) \subseteq Rows
    BY EarlierFacts
  <2>. QED  BY <2>1 DEF KeptStaging
<1>4. Progress(u, i)' <=> Progress(u, i)
  <2>1. Progress(u, i)' <=>
          /\ place[u] \in {"create", "total", "efficiency"} => Quiet(i)
          /\ place[u] = "validate" /\ answer[u] = "pending" =>
                 /\ posted[i] \in {{}, Batches[batch[u]]}
                 /\ upload[i].phase # "idle" => posted[i] = {} /\ upload[i].rows = Batches[batch[u]]
                 /\ \A r \in Earlier(batch[u] - 1) :
                       rows'[i][r] # "none" \/ (upload[i].phase = "deleted" /\ r \in upload[i].rows)
          /\ place[u] = "report" \/ (place[u] = "validate" /\ answer[u] \in Good) =>
                 Quiet(i) /\ \A r \in Earlier(batch[u]) : rows'[i][r] # "none"
          /\ place[u] \in {"ready", "finalize"} => Quiet(i) /\ Whole(i)
    BY <1>2 DEF Progress, KeptStaging, Earlier, Good
  <2>. QED  BY <1>2, <1>3, <2>1 DEF Progress
<1>. QED  BY <1>1, <1>4

\* What tab u may do to the workers of job i.
TabMay(u, i) ==
    /\ active'[u] = i => active[u] = i \/ status'[i] # "absent"
    /\ view'[u] = i => view[u] = i \/ (Settled(i) /\ status'[i] # "absent")
    /\ Works(u, i)' => Works(u, i) /\ Progress(u, i)'
    /\ Uploading(u, i)' => Uploading(u, i)

Lasting == {"ready_to_apply", "needs_fix"} \cup Completed

LEMMA WorkKept ==
    ASSUME NEW i \in Jobs, WorkInv(i), KeptStaging(i), \A u \in Tabs : TabMay(u, i),
           status'[i] = "absent" => status[i] = "absent",
           status'[i] \in Lasting => Settled(i)
    PROVE  WorkInv(i)'
<1>1. (Quiet(i)' <=> Quiet(i)) /\ (Whole(i)' <=> Whole(i))
  BY KeptFacts
<1>2. Settled(i) => Settled(i)'
  BY <1>1 DEF Settled, TabMay
<1>3. ~Quiet(i)' \/ (\E t \in Tabs : Uploading(t, i)') => Unapplied(i)'
  <2>1. ASSUME ~Quiet(i)' \/ (\E t \in Tabs : Uploading(t, i)') PROVE Unapplied(i)'
    <3>1. ~Quiet(i) \/ (\E t \in Tabs : Uploading(t, i))
      BY <1>1, <2>1 DEF TabMay
    <3>2. ~Settled(i)
      BY <3>1 DEF Settled
    <3>3. rows'[i] = rows[i]
      BY <3>2 DEF KeptStaging
    <3>. QED  BY <3>1, <3>3 DEF WorkInv, Unapplied
  <2>. QED  BY <2>1
<1>4. posted'[i] = posted[i]
  BY DEF KeptStaging
<1>5. \A t \in Tabs : view'[t] = i => Settled(i)
  BY DEF TabMay, WorkInv
<1>6. status'[i] = "absent" => posted'[i] = {} /\ \A t \in Tabs : active'[t] # i /\ view'[t] # i
  BY <1>4 DEF TabMay, WorkInv
<1>7. \A t, u \in Tabs : Works(t, i)' /\ Works(u, i)' => t = u
  BY DEF TabMay, WorkInv
<1>8. \A t \in Tabs : Works(t, i)' => Progress(t, i)'
  BY DEF TabMay
<1>. QED  BY <1>2, <1>3, <1>5, <1>6, <1>7, <1>8 DEF WorkInv, Lasting

\* A tab that did nothing may have done it.
LEMMA SameTabMay ==
    ASSUME ClientTypeOK, NEW i \in Jobs, WorkInv(i), KeptStaging(i),
           NEW u \in Tabs, SameTab(u)
    PROVE  TabMay(u, i)
<1>1. batch[u] \in DOMAIN Batches
  BY DEF ClientTypeOK
<1>2. /\ Progress(u, i)' <=> Progress(u, i)
      /\ Works(u, i)' <=> Works(u, i)
      /\ Uploading(u, i)' <=> Uploading(u, i)
  BY <1>1, SameProgress
<1>. QED  BY <1>2 DEF TabMay, SameTab, WorkInv

(***************************************************************************)
(* The steps of a tab that leave the database and the batches on their way *)
(* as they are.                                                            *)
(***************************************************************************)
LEMMA TabMoves ==
    ASSUME ClientTypeOK, WorkersInv, NEW t \in Tabs, \A u \in Tabs \ {t} : SameTab(u),
           UNCHANGED <<vars, posted>>, TabInv(t)', \A i \in Jobs : TabMay(t, i)
    PROVE  WorkersInv'
<1>1. ASSUME NEW u \in Tabs PROVE TabInv(u)'
  BY <1>1 DEF SameTab, WorkersInv, TabInv, Answered
<1>2. ASSUME NEW i \in Jobs PROVE WorkInv(i)'
  <2>1. KeptStaging(i) /\ status'[i] = status[i]
    BY DEF KeptStaging, vars
  <2>2. WorkInv(i)
    BY DEF WorkersInv
  <2>3. \A u \in Tabs : TabMay(u, i)
    BY <2>1, <2>2, SameTabMay
  <2>4. status[i] \in Lasting => Settled(i)
    BY <2>2 DEF WorkInv, Lasting
  <2>. QED  BY <2>1, <2>2, <2>3, <2>4, WorkKept
<1>. QED  BY <1>1, <1>2 DEF WorkersInv

LEMMA OthersSame ==
    ASSUME ClientTypeOK, NEW t \in Tabs, NEW u \in Tabs \ {t}
    PROVE  /\ \A p : Sends(t, p) => place'[u] = place[u] /\ answer'[u] = answer[u]
           /\ \A p : Stops(t, p) =>
                 place'[u] = place[u] /\ answer'[u] = answer[u] /\ batch'[u] = batch[u]
           /\ \A j : active' = [active EXCEPT ![t] = j] => active'[u] = active[u]
           /\ \A j : view' = [view EXCEPT ![t] = j] => view'[u] = view[u]
  BY DEF ClientTypeOK, Sends, Stops

LEMMA SendHere ==
    ASSUME ClientTypeOK, NEW t \in Tabs, NEW p
    PROVE  /\ Sends(t, p) => place'[t] = p /\ answer'[t] = "pending"
           /\ Stops(t, p) => place'[t] = p /\ answer'[t] = "none"
  BY DEF ClientTypeOK, Sends, Stops

\* A tab that rests after a step, or awaits a call of its user, runs nothing.
LEMMA RestingMoves ==
    ASSUME ClientTypeOK, WorkersInv, NEW t \in Tabs, \A u \in Tabs \ {t} : SameTab(u),
           UNCHANGED <<vars, posted>>,
           place'[t] \in {"idle", "stuck", "loading", "hydrating", "create"} \cup UserCalls,
           place'[t] = "create" => answer'[t] # "ok",
           place'[t] \in UserCalls => view'[t] # NoJob,
           active'[t] \in {active[t], NoJob},
           view'[t] \in {view[t], NoJob} \/ (view'[t] = active[t] /\ Settled(active[t]))
    PROVE  WorkersInv'
<1>1. TabInv(t)'
  BY DEF TabInv, WorkPlaces, WorkerCalls, UserCalls, Answered
<1>2. ASSUME NEW i \in Jobs PROVE TabMay(t, i)
  <2>1. ~Works(t, i)'
    BY DEF Works, WorkPlaces, WorkerCalls, UserCalls, Answered
  <2>2. ~Uploading(t, i)'
    BY <2>1 DEF Uploading
  <2>3. WorkInv(i) /\ i # NoJob /\ status'[i] = status[i]
    BY BatchesAssumption DEF WorkersInv, vars
  <2>4. active[t] = i => status[i] # "absent"
    BY <2>3 DEF WorkInv
  <2>. QED  BY <2>1, <2>2, <2>3, <2>4 DEF TabMay
<1>. QED  BY <1>1, <1>2, TabMoves

LEMMA NotServedMoves ==
    ASSUME ClientTypeOK, WorkersInv, NEW t \in Tabs, NotServed(t)
    PROVE  WorkersInv'
<1>1. \A u \in Tabs \ {t} : SameTab(u)
  BY DEF NotServed, ClientTypeOK, SameTab
<1>2. /\ place'[t] = place[t] /\ answer'[t] = "error" /\ answer[t] = "pending"
      /\ batch'[t] = batch[t] /\ active'[t] = active[t] /\ view'[t] = view[t]
      /\ UNCHANGED <<vars, posted>>
  BY DEF NotServed, ClientTypeOK
<1>3. TabInv(t)'
  BY <1>2 DEF TabInv, WorkersInv, Answered
<1>4. ASSUME NEW i \in Jobs PROVE TabMay(t, i)
  <2>1. (Works(t, i)' => Works(t, i)) /\ (Uploading(t, i)' => Uploading(t, i))
    BY <1>2 DEF Works, Uploading, Answered
  <2>2. Works(t, i) => Progress(t, i)
    BY DEF WorkersInv, WorkInv
  <2>3. Progress(t, i) => Progress(t, i)'
    BY <1>2 DEF Progress, Quiet, Whole, vars, Good, FileRows, Earlier
  <2>. QED  BY <1>2, <2>1, <2>2, <2>3 DEF TabMay
<1>. QED  BY <1>1, <1>2, <1>3, <1>4, TabMoves

\* The worker goes on to a call that sends no batch, with what it must know.
LEMMA SendMoves ==
    ASSUME ClientTypeOK, WorkersInv, NEW t \in Tabs, NEW p \in WorkPlaces \ {"validate"},
           place[t] \in WorkPlaces \/ Answered(t, "create", {"ok"}),
           Sends(t, p), UNCHANGED <<vars, active, batch, view, posted>>,
           p \in {"ready", "finalize", "fail"} \/ place[t] \notin {"ready", "finalize", "fail"},
           \A i \in Jobs : Works(t, i) =>
               /\ p \in {"total", "efficiency"} => Quiet(i)
               /\ p = "report" => Quiet(i) /\ \A r \in Earlier(batch[t]) : rows[i][r] # "none"
               /\ p \in {"ready", "finalize"} => Quiet(i) /\ Whole(i)
    PROVE  WorkersInv'
<1>1. \A u \in Tabs \ {t} : SameTab(u)
  BY OthersSame DEF SameTab
<1>2. /\ place'[t] = p /\ answer'[t] = "pending"
      /\ batch'[t] = batch[t] /\ active'[t] = active[t] /\ view'[t] = view[t]
  BY SendHere
<1>3. TabInv(t)'
  <2>1. active[t] # NoJob
    BY DEF WorkersInv, TabInv
  <2>2. p \notin UserCalls
    BY DEF WorkPlaces, WorkerCalls, UserCalls
  <2>. QED  BY <1>2, <2>1, <2>2 DEF TabInv
<1>4. ASSUME NEW i \in Jobs PROVE TabMay(t, i)
  <2>1. (Works(t, i)' => Works(t, i)) /\ (Uploading(t, i)' => Uploading(t, i))
    BY <1>2 DEF Works, Uploading, Answered
  <2>2. Works(t, i)' => Progress(t, i)'
    <3>1. ASSUME Works(t, i) PROVE Progress(t, i)'
      <4>1. /\ p \in {"total", "efficiency"} => Quiet(i)
            /\ p = "report" => Quiet(i) /\ \A r \in Earlier(batch[t]) : rows[i][r] # "none"
            /\ p \in {"ready", "finalize"} => Quiet(i) /\ Whole(i)
        BY <3>1
      <4>2. (Quiet(i)' <=> Quiet(i)) /\ (Whole(i)' <=> Whole(i)) /\ rows' = rows
        BY DEF Quiet, Whole, vars, FileRows
      <4>3. (\A r \in Earlier(batch[t]) : rows[i][r] # "none")
               => \A r \in Earlier(batch'[t]) : rows'[i][r] # "none"
        BY <1>2, <4>2 DEF Earlier
      <4>4. p # "validate" /\ p # "create"
        BY DEF WorkPlaces
      <4>. QED  BY <1>2, <4>1, <4>2, <4>3, <4>4 DEF Progress, Earlier
    <3>. QED  BY <2>1, <3>1
  <2>. QED  BY <1>2, <2>1, <2>2 DEF TabMay
<1>. QED  BY <1>1, <1>3, <1>4, TabMoves

\* The worker sends a batch: the earlier ones are staged and nothing is on
\* its way.
LEMMA BatchMoves ==
    ASSUME ClientTypeOK, WorkersInv, NEW t \in Tabs, NEW b \in DOMAIN Batches,
           SendBatch(t, b), UNCHANGED <<vars, active, view>>,
           place[t] \in {"efficiency", "validate", "report"},
           \A i \in Jobs : Works(t, i) =>
               Quiet(i) /\ \A r \in Earlier(b - 1) : rows[i][r] # "none"
    PROVE  WorkersInv'
<1>1. PICK j \in Jobs : j = active[t] /\ Works(t, j) /\ Uploading(t, j)
  <2>1. active[t] \in Jobs
    BY DEF ClientTypeOK, WorkersInv, TabInv, WorkPlaces, WorkerCalls
  <2>. QED  BY <2>1 DEF Works, Uploading, WorkPlaces, WorkerCalls
<1>2. \A u \in Tabs \ {t} : SameTab(u)
  <2>1. \A u \in Tabs \ {t} : batch'[u] = batch[u]
    BY DEF SendBatch, ClientTypeOK
  <2>. QED  BY <2>1, OthersSame DEF SameTab, SendBatch
<1>3. /\ place'[t] = "validate" /\ answer'[t] = "pending" /\ batch'[t] = b
      /\ active'[t] = j /\ view'[t] = view[t]
  BY <1>1, SendHere DEF SendBatch, ClientTypeOK
<1>4. posted' = [posted EXCEPT ![j] = Batches[b]] /\ posted \in [Jobs -> SUBSET Rows]
  BY <1>1 DEF SendBatch, ClientTypeOK
<1>5. ASSUME NEW u \in Tabs PROVE TabInv(u)'
  <2>1. TabInv(u)
    BY DEF WorkersInv
  <2>2. CASE u = t
    <3>1. j # NoJob
      BY <1>1, BatchesAssumption
    <3>. QED  BY <1>3, <2>2, <3>1 DEF TabInv, UserCalls
  <2>3. CASE u # t
    <3>1. SameTab(u)
      BY <1>2, <2>3
    <3>. QED  BY <2>1, <3>1 DEF TabInv, SameTab, Answered
  <2>. QED  BY <2>2, <2>3
<1>6. ASSUME NEW i \in Jobs, i # j PROVE WorkInv(i)'
  <2>1. KeptStaging(i) /\ status'[i] = status[i]
    BY <1>1, <1>4, <1>6 DEF KeptStaging, vars
  <2>2. WorkInv(i)
    BY DEF WorkersInv
  <2>3. TabMay(t, i)
    BY <1>3, <1>6 DEF TabMay, Works, Uploading
  <2>4. \A u \in Tabs : TabMay(u, i)
    BY <1>2, <2>1, <2>2, <2>3, SameTabMay
  <2>5. status[i] \in Lasting => Settled(i)
    BY <2>2 DEF WorkInv, Lasting
  <2>. QED  BY <2>1, <2>2, <2>4, <2>5, WorkKept
<1>7. WorkInv(j)'
  <2>1. WorkInv(j) /\ ~Settled(j)
    BY <1>1 DEF WorkersInv, Settled
  <2>2. status'[j] = status[j] /\ rows' = rows /\ upload' = upload
    BY DEF vars
  <2>3. \A u \in Tabs : /\ active'[u] = active[u] /\ view'[u] = view[u]
                        /\ u # t => ~Works(u, j) /\ ~Works(u, j)'
    <3>1. \A u \in Tabs : u # t => ~Works(u, j)
      BY <1>1, <2>1 DEF WorkInv
    <3>2. \A u \in Tabs : u # t => (Works(u, j)' <=> Works(u, j))
      BY <1>2 DEF SameTab, Works, Answered
    <3>. QED  BY <3>1, <3>2
  <2>4. status[j] # "absent" /\ status[j] \notin Lasting
    BY <1>1, <2>1 DEF WorkInv, Lasting
  <2>5. \A u \in Tabs : view[u] # j
    BY <2>1 DEF WorkInv
  <2>6. Unapplied(j)'
    BY <1>1, <2>1, <2>2 DEF WorkInv, Unapplied
  <2>7. Progress(t, j)'
    <3>1. Quiet(j) /\ \A r \in Earlier(b - 1) : rows[j][r] # "none"
      BY <1>1
    <3>2. posted'[j] = Batches[b] /\ upload'[j].phase = "idle"
      BY <1>1, <1>4, <2>2, <3>1 DEF Quiet
    <3>3. \A r \in Earlier(batch'[t] - 1) : rows'[j][r] # "none"
      BY <1>3, <2>2, <3>1 DEF Earlier
    <3>. QED  BY <1>3, <3>2, <3>3 DEF Progress, Good, Earlier
  <2>8. \A u, v \in Tabs : Works(u, j)' /\ Works(v, j)' => u = v
    BY <2>3
  <2>9. \A u \in Tabs : Works(u, j)' => Progress(u, j)'
    BY <2>3, <2>7
  <2>. QED  BY <2>2, <2>3, <2>4, <2>5, <2>6, <2>8, <2>9 DEF WorkInv, Lasting
<1>. QED  BY <1>5, <1>6, <1>7 DEF WorkersInv

LEMMA ProceedMoves ==
    ASSUME ClientTypeOK, WorkersInv, NEW t \in Tabs,
           \/ Proceed(t) \/ SkipReport(t) \/ WorkerFails(t),
           UNCHANGED <<vars, active>>
    PROVE  WorkersInv'
<1> USE DEF WorkPlaces, WorkerCalls, Answered
<1>1. batch[t] \in DOMAIN Batches /\ \A i \in Jobs : Works(t, i) => Progress(t, i)
  BY DEF ClientTypeOK, WorkersInv, WorkInv
<1>2. CASE place[t] = "create"
  <2>1. PICK p \in {"total", "fail"} :
            /\ Sends(t, p) /\ UNCHANGED <<batch, view, posted>>
            /\ Answered(t, "create", {"ok"})
    BY <1>2 DEF Proceed, SkipReport, WorkerFails
  <2>2. \A i \in Jobs : Works(t, i) => Quiet(i)
    BY <1>1, <1>2 DEF Progress
  <2>. QED  BY <1>2, <2>1, <2>2, SendMoves
<1>3. CASE place[t] = "total"
  <2>1. Sends(t, "efficiency") /\ UNCHANGED <<batch, view, posted>>
    BY <1>3 DEF Proceed, SkipReport, WorkerFails
  <2>2. \A i \in Jobs : Works(t, i) => Quiet(i)
    BY <1>1, <1>3 DEF Progress
  <2>. QED  BY <1>3, <2>1, <2>2, SendMoves
<1>4. CASE WorkerFails(t)
  <2>1. Sends(t, "fail") /\ UNCHANGED <<batch, view, posted>>
    BY <1>4 DEF WorkerFails
  <2>2. place[t] \in WorkPlaces
    BY <1>4 DEF WorkerFails
  <2>. QED  BY <2>1, <2>2, SendMoves
<1>5. CASE place[t] = "efficiency"
  <2>1. ASSUME Sends(t, "fail"), UNCHANGED <<batch, view, posted>> PROVE WorkersInv'
    BY <1>5, <2>1, SendMoves
  <2>2. ASSUME SendBatch(t, 1), UNCHANGED view PROVE WorkersInv'
    <3>1. \A i \in Jobs : Works(t, i) => Quiet(i) /\ \A r \in Earlier(1 - 1) : rows[i][r] # "none"
      BY <1>1, <1>5, EarlierFacts DEF Progress
    <3>. QED  BY <1>5, <2>2, <3>1, BatchFacts, BatchMoves
  <2>. QED  BY <1>5, <2>1, <2>2 DEF Proceed, SkipReport, WorkerFails
<1>6. ASSUME place[t] \in {"validate", "report"}, answer[t] = "ok", batch[t] < Len(Batches),
             SendBatch(t, batch[t] + 1), UNCHANGED view
      PROVE  WorkersInv'
  <2>1. PICK b \in DOMAIN Batches : b = batch[t] + 1 /\ b - 1 = batch[t]
    <3>1. batch[t] + 1 \in DOMAIN Batches
      BY <1>1, <1>6, BatchFacts
    <3>2. batch[t] \in Nat
      BY <1>1, EarlierFacts
    <3>. QED  BY <3>1, <3>2
  <2>2. \A i \in Jobs : Works(t, i) =>
            Quiet(i) /\ \A r \in Earlier(b - 1) : rows[i][r] # "none"
    BY <1>1, <1>6, <2>1 DEF Progress, Good
  <2>. QED  BY <1>6, <2>1, <2>2, BatchMoves
<1>7. CASE place[t] = "validate" /\ ~WorkerFails(t)
  <2>1. ASSUME Sends(t, "report"), answer[t] = "ok", UNCHANGED <<batch, view, posted>>
        PROVE  WorkersInv'
    <3>1. \A i \in Jobs : Works(t, i) =>
            Quiet(i) /\ \A r \in Earlier(batch[t]) : rows[i][r] # "none"
      BY <1>1, <1>7, <2>1 DEF Progress, Good
    <3>. QED  BY <1>7, <2>1, <3>1, SendMoves
  <2>. QED  BY <1>6, <1>7, <2>1 DEF Proceed, SkipReport
<1>8. CASE place[t] = "report" /\ ~WorkerFails(t)
  <2>1. ASSUME NEW p \in {"ready", "finalize"}, Sends(t, p), ~(batch[t] < Len(Batches)),
               UNCHANGED <<batch, view, posted>>
        PROVE  WorkersInv'
    <3>1. batch[t] = Len(Batches)
      BY <1>1, <2>1, BatchFacts
    <3>2. \A i \in Jobs : Works(t, i) => Quiet(i) /\ Whole(i)
      BY <1>1, <1>8, <3>1, EarlierFacts DEF Progress, Whole
    <3>. QED  BY <1>8, <2>1, <3>2, SendMoves
  <2>2. CASE batch[t] < Len(Batches)
    BY <1>6, <1>8, <2>2 DEF Proceed, SkipReport
  <2>3. CASE ~(batch[t] < Len(Batches))
    <3>1. PICK p \in {"ready", "finalize"} : Sends(t, p) /\ UNCHANGED <<batch, view, posted>>
      BY <1>8, <2>3 DEF Proceed, SkipReport
    <3>. QED  BY <2>1, <2>3, <3>1
  <2>. QED  BY <2>2, <2>3
<1>. QED  BY <1>2, <1>3, <1>4, <1>5, <1>7, <1>8 DEF Proceed, SkipReport

\* A tab whose worker or call ends rests; it holds a job in view only when
\* that job is settled.
LEMMA EndMoves ==
    ASSUME ClientTypeOK, WorkersInv, NEW t \in Tabs, UNCHANGED vars,
           \/ WorkerThrows(t) /\ UNCHANGED active
           \/ WorkerEnds(t) /\ UNCHANGED <<posted, active>>
           \/ UserCallEnds(t) \/ Reload(t) \/ SignedIn(t) \/ ResetImport(t)
    PROVE  WorkersInv'
<1>1. \A u \in Tabs \ {t} : SameTab(u)
  <2>1. CASE ResetImport(t)
    BY <2>1 DEF ResetImport, ClientTypeOK, SameTab
  <2>2. ASSUME NEW p, Stops(t, p),
               active' = active \/ \E j : active' = [active EXCEPT ![t] = j],
               view' = view \/ \E j : view' = [view EXCEPT ![t] = j]
        PROVE  \A u \in Tabs \ {t} : SameTab(u)
    BY <2>2, OthersSame DEF SameTab
  <2>3. \/ active' = active \/ \E j : active' = [active EXCEPT ![t] = j]
    BY DEF UserCallEnds, Reload, SignedIn, ResetImport
  <2>4. \/ view' = view \/ \E j : view' = [view EXCEPT ![t] = j]
    BY DEF WorkerThrows, WorkerEnds, UserCallEnds, Reload, SignedIn, ResetImport
  <2>5. CASE ~ResetImport(t)
    <3>1. \E p : Stops(t, p)
      BY <2>5 DEF WorkerThrows, WorkerEnds, UserCallEnds, Reload, SignedIn
    <3>. QED  BY <2>2, <2>3, <2>4, <3>1
  <2>. QED  BY <2>1, <2>5
<1>2. place'[t] \in {"idle", "stuck", "loading"}
  <2>1. CASE ResetImport(t)
    BY <2>1 DEF ResetImport, Rests
  <2>2. CASE ~ResetImport(t)
    <3>1. \E p \in {"idle", "stuck", "loading"} : Stops(t, p)
      BY <2>2 DEF WorkerThrows, WorkerEnds, UserCallEnds, Reload, SignedIn
    <3>. QED  BY <3>1, SendHere
  <2>. QED  BY <2>1, <2>2
<1>3. posted' = posted /\ active'[t] \in {active[t], NoJob}
  BY DEF WorkerThrows, WorkerEnds, UserCallEnds, Reload, SignedIn, ResetImport, ClientTypeOK
<1>4. view'[t] \in {view[t], NoJob} \/ (view'[t] = active[t] /\ Settled(active[t]))
  <2>1. CASE WorkerEnds(t)
    <3>1. CASE UNCHANGED view
      BY <3>1
    <3>2. CASE place[t] \in {"ready", "finalize"} /\ view' = [view EXCEPT ![t] = active[t]]
      <4>1. PICK j \in Jobs : j = active[t] /\ Works(t, j)
        <5>1. active[t] \in Jobs
          BY <3>2 DEF ClientTypeOK, WorkersInv, TabInv, WorkPlaces, WorkerCalls
        <5>. QED  BY <3>2, <5>1 DEF Works, WorkPlaces, WorkerCalls
      <4>2. Quiet(j) /\ Whole(j) /\ \A u \in Tabs : Works(u, j) => u = t
        <5>1. WorkInv(j)
          BY DEF WorkersInv
        <5>2. Progress(t, j) /\ \A u \in Tabs : Works(u, j) => u = t
          BY <4>1, <5>1 DEF WorkInv
        <5>. QED  BY <3>2, <5>2 DEF Progress
      <4>3. Settled(j)
        BY <3>2, <4>2 DEF Settled, Uploading
      <4>. QED  BY <3>2, <4>1, <4>3 DEF ClientTypeOK
    <3>. QED  BY <2>1, <3>1, <3>2 DEF WorkerEnds, Answered
  <2>2. CASE ~WorkerEnds(t)
    BY <2>2 DEF WorkerThrows, UserCallEnds, Reload, SignedIn, ResetImport, ClientTypeOK
  <2>. QED  BY <2>1, <2>2
<1>5. place'[t] # "create" /\ place'[t] \notin UserCalls
  BY <1>2 DEF UserCalls
<1>. QED  BY <1>1, <1>2, <1>3, <1>4, <1>5, RestingMoves

\* A tab's user starts a worker or sends a call.
LEMMA StartMoves ==
    ASSUME ClientTypeOK, WorkersInv, NEW t \in Tabs,
           \/ \E d \in BOOLEAN : StartImport(t, d)
           \/ \E p \in UserCalls : UserCall(t, p)
    PROVE  WorkersInv'
<1>1. PICK p \in {"create"} \cup UserCalls :
          /\ Sends(t, p) /\ UNCHANGED <<vars, active, batch, view, posted>>
          /\ p \in UserCalls => view[t] # NoJob
  BY DEF StartImport, UserCall, UserCalls
<1>2. \A u \in Tabs \ {t} : SameTab(u)
  BY <1>1, OthersSame DEF SameTab
<1>3. place'[t] = p /\ answer'[t] = "pending"
  BY <1>1, SendHere
<1>. QED  BY <1>1, <1>2, <1>3, RestingMoves

\* A tab that loads picks up what the database holds.
LEMMA HydrateMoves ==
    ASSUME ClientTypeOK, WorkersInv, NEW t \in Tabs, Hydrate(t)
    PROVE  WorkersInv'
<1>1. Stops(t, "idle") /\ UNCHANGED <<vars, posted>>
  BY DEF Hydrate
<1>2. \A u \in Tabs \ {t} : SameTab(u)
  <2>1. active' = active \/ \E j : active' = [active EXCEPT ![t] = j]
    BY DEF Hydrate
  <2>2. view' = view \/ \E j : view' = [view EXCEPT ![t] = j]
    BY DEF Hydrate
  <2>. QED  BY <1>1, <2>1, <2>2, OthersSame DEF SameTab
<1>3. place'[t] = "idle"
  BY <1>1, SendHere
<1>4. TabInv(t)'
  BY <1>3 DEF TabInv, WorkPlaces, WorkerCalls, UserCalls, Answered
<1>5. ASSUME NEW i \in Jobs PROVE TabMay(t, i)
  <2>1. ~Works(t, i)' /\ ~Uploading(t, i)'
    BY <1>3 DEF Works, Uploading, WorkPlaces, WorkerCalls, Answered
  <2>2. status' = status
    BY <1>1 DEF vars
  <2>3. /\ active'[t] = i => active[t] = i \/ status[i] \in {"importing", "ready_to_apply"}
        /\ view'[t] = i => view[t] = i \/ status[i] = "ready_to_apply"
    BY DEF Hydrate, Hydratable, ClientTypeOK
  <2>4. status[i] = "ready_to_apply" => Settled(i)
    BY DEF WorkersInv, WorkInv
  <2>. QED  BY <2>1, <2>2, <2>3, <2>4 DEF TabMay
<1>. QED  BY <1>1, <1>2, <1>4, <1>5, TabMoves

(***************************************************************************)
(* The steps of the database.                                              *)
(***************************************************************************)
LEMMA OtherJobs ==
    ASSUME TypeOK, WorkersInv, NEW j \in Jobs, JobStep(j), NEW i \in Jobs, i # j,
           posted'[i] = posted[i], \A u \in Tabs : TabMay(u, i)
    PROVE  WorkInv(i)'
<1>1. Same(i)
  BY OtherJobsUntouched
<1>2. KeptStaging(i) /\ status'[i] = status[i]
  BY <1>1 DEF Same, KeptStaging
<1>3. WorkInv(i)
  BY DEF WorkersInv
<1>4. status[i] \in Lasting => Settled(i)
  BY <1>3 DEF WorkInv, Lasting
<1>. QED  BY <1>2, <1>3, <1>4, WorkKept

\* The call of a worker or a user is executed.
LEMMA ServeMoves ==
    ASSUME ClientIndInv, NEW t \in Tabs, Serve(t)
    PROVE  WorkersInv'
<1>1. TypeOK /\ ClientTypeOK /\ WorkersInv
  BY DEF ClientIndInv, IndInv
<1>2. PICK j \in Jobs : j = Subject(t) /\ Execute(place[t], j) /\ JobStep(j)
  BY <1>1, SubjectIsJob, ServedIsJobStep DEF Serve
<1>3. \A u \in Tabs \ {t} : SameTab(u)
  BY <1>1 DEF Serve, Answers, ClientTypeOK, SameTab
<1>4. /\ place'[t] = place[t] /\ answer[t] = "pending" /\ answer'[t] \in {"ok", "warnings", "error"}
      /\ batch'[t] = batch[t] /\ active'[t] = active[t] /\ view'[t] = view[t]
      /\ posted' = posted /\ place[t] \in OneStepCalls
  BY <1>1 DEF Serve, Answers, ClientTypeOK
<1>5. place[t] \notin {"create", "validate"}
  BY <1>4 DEF OneStepCalls, UserCalls
<1>6. ASSUME NEW u \in Tabs PROVE TabInv(u)'
  <2>1. TabInv(u)
    BY <1>1 DEF WorkersInv
  <2>2. CASE u = t
    BY <1>4, <1>5, <2>1, <2>2 DEF TabInv, Answered
  <2>3. CASE u # t
    <3>1. SameTab(u)
      BY <1>3, <2>3
    <3>. QED  BY <2>1, <3>1 DEF TabInv, SameTab, Answered
  <2>. QED  BY <2>2, <2>3
<1>7. ASSUME NEW i \in Jobs, KeptStaging(i)
      PROVE  \A u \in Tabs : TabMay(u, i)
  <2>1. WorkInv(i)
    BY <1>1 DEF WorkersInv
  <2>2. TabMay(t, i)
    <3>1. (Works(t, i)' => Works(t, i)) /\ (Uploading(t, i)' => Uploading(t, i))
      BY <1>4, <1>5 DEF Works, Uploading, Answered
    <3>2. ASSUME Works(t, i) PROVE Progress(t, i)'
      <4>1. Progress(t, i) /\ batch[t] \in DOMAIN Batches
        BY <1>1, <2>1, <3>2 DEF WorkInv, ClientTypeOK
      <4>2. /\ Quiet(i)' <=> Quiet(i)
            /\ Whole(i)' <=> Whole(i)
            /\ (\A r \in Earlier(batch[t]) : rows'[i][r] # "none")
                  <=> \A r \in Earlier(batch[t]) : rows[i][r] # "none"
        BY <1>7, <4>1, KeptFacts
      <4>. QED  BY <1>4, <1>5, <4>1, <4>2 DEF Progress, Earlier, Good
    <3>. QED  BY <1>4, <3>1, <3>2 DEF TabMay
  <2>. QED  BY <1>1, <1>3, <1>7, <2>1, <2>2, SameTabMay
<1>8. ASSUME NEW i \in Jobs, i # j PROVE WorkInv(i)'
  <2>1. KeptStaging(i)
    BY <1>1, <1>2, <1>4, <1>8, OtherJobsUntouched DEF Same, KeptStaging
  <2>. QED  BY <1>1, <1>2, <1>4, <1>7, <1>8, <2>1, OtherJobs
<1>9. WorkInv(j)'
  <2>1. WorkInv(j)
    BY <1>1 DEF WorkersInv
  <2>2. place[t] \in UserCalls => view[t] = j
    BY <1>2 DEF Subject
  <2>3. place[t] \in {"ready", "finalize"} \cup UserCalls => Settled(j)
    <3>1. CASE place[t] \in UserCalls
      BY <2>1, <2>2, <3>1 DEF WorkInv
    <3>2. CASE place[t] \in {"ready", "finalize"}
      <4>1. Works(t, j)
        BY <1>2, <3>2 DEF Works, Subject, UserCalls, WorkPlaces, WorkerCalls
      <4>2. Progress(t, j) /\ \A u \in Tabs : Works(u, j) => u = t
        BY <2>1, <4>1 DEF WorkInv
      <4>. QED  BY <3>2, <4>2 DEF Settled, Progress, Uploading
    <3>. QED  BY <3>1, <3>2
  <2>4. /\ KeptStaging(j) /\ status'[j] # "absent"
        /\ status'[j] \in Lasting => Settled(j)
    <3>1. /\ status \in [Jobs -> Statuses \cup {"absent"}] /\ rows \in [Jobs -> [Rows -> RowStates]]
          /\ posted'[j] = posted[j] /\ (status[j] \in Lasting => Settled(j))
      BY <1>1, <1>4, <2>1 DEF TypeOK, WorkInv, Lasting
    <3>2. CASE \/ UpdateProgress(j) \/ FailJob(j) \/ CancelReady(j)
      BY <3>1, <3>2 DEF UpdateProgress, CanUpdateProgress, FailJob, CanFail, CancelReady, Exists,
         Active, KeptStaging, Lasting, Completed
    <3>3. CASE place[t] = "ready" /\ MarkReady(j)
      BY <2>3, <3>1, <3>3 DEF MarkReady, KeptStaging
    <3>4. ASSUME place[t] \in {"finalize", "apply"},
                 NEW ok \in SUBSET Rows, NEW new \in SUBSET Targets, NEW errors \in BOOLEAN,
                 FinalizeJob(j, ok, new, errors)
          PROVE  /\ KeptStaging(j) /\ status'[j] # "absent"
                 /\ status'[j] \in Lasting => Settled(j)
      <4>1. Settled(j)
        BY <2>3, <3>4 DEF UserCalls
      <4>2. \A r \in ok : rows[j][r] # "none"
        BY <3>4 DEF FinalizeJob, Pending
      <4>3. \A r \in Rows : rows'[j][r] = "none" <=> rows[j][r] = "none"
        <5>1. \A r \in Pending(j) : rows[j][r] # "none"
          BY DEF Pending
        <5>2. \A r \in Rows : rows'[j][r] = IF r \in ok THEN "applied"
                                            ELSE IF r \in Pending(j) THEN "rejected" ELSE rows[j][r]
          BY <3>1, <3>4 DEF FinalizeJob
        <5>. QED  BY <4>2, <5>1, <5>2
      <4>4. upload' = upload /\ status'[j] # "absent"
        BY <3>1, <3>4 DEF FinalizeJob
      <4>. QED  BY <3>1, <4>1, <4>3, <4>4 DEF KeptStaging
    <3>5. ASSUME place[t] = "rollback", NEW blocked \in SUBSET Targets, RollbackJob(j, blocked)
          PROVE  /\ KeptStaging(j) /\ status'[j] # "absent"
                 /\ status'[j] \in Lasting => Settled(j)
      BY <2>3, <3>1, <3>5 DEF RollbackJob, KeptStaging, UserCalls
    <3>. QED  BY <1>2, <3>2, <3>3, <3>4, <3>5 DEF Execute
  <2>. QED  BY <1>7, <2>1, <2>4, WorkKept
<1>. QED  BY <1>6, <1>8, <1>9 DEF WorkersInv

\* A job is created, and the tab that hears of it runs its worker.
LEMMA CreateMoves ==
    ASSUME ClientIndInv, NEW t \in Tabs, ServeCreate(t)
    PROVE  WorkersInv'
<1>1. TypeOK /\ ClientTypeOK /\ WorkersInv /\ \A i \in Jobs : JobInv(i)
  BY DEF ClientIndInv, IndInv
<1>2. PICK j \in Jobs, k \in Kinds :
          /\ CreateJob(j, k)
          /\ \/ /\ answer' = [answer EXCEPT ![t] = "ok"]
                /\ active' = [active EXCEPT ![t] = j]
             \/ answer' = [answer EXCEPT ![t] = "error"] /\ UNCHANGED active
  BY DEF ServeCreate
<1>3. \A u \in Tabs \ {t} : SameTab(u)
  BY <1>1, <1>2 DEF ServeCreate, ClientTypeOK, SameTab
<1>4. /\ place'[t] = "create" /\ place[t] = "create" /\ answer[t] = "pending"
      /\ view'[t] = view[t] /\ posted' = posted
      /\ \/ active'[t] = j /\ answer'[t] = "ok"
         \/ active'[t] = active[t] /\ answer'[t] = "error"
  BY <1>1, <1>2 DEF ServeCreate, Awaits, ClientTypeOK
<1>5. /\ status[j] = "absent" /\ status'[j] = "importing" /\ upload' = upload /\ rows' = rows
      /\ \A i \in Jobs \ {j} : status'[i] = status[i]
  BY <1>1, <1>2 DEF CreateJob, Exists, TypeOK
<1>6. /\ Quiet(j)' /\ Unapplied(j)' /\ \A u \in Tabs : active[u] # j /\ view[u] # j
  <2>1. upload[j] = NoUpload /\ \A r \in Rows : rows[j][r] = "none"
    BY <1>1, <1>5 DEF JobInv
  <2>2. posted[j] = {} /\ \A u \in Tabs : active[u] # j /\ view[u] # j
    BY <1>1, <1>5 DEF WorkersInv, WorkInv
  <2>. QED  BY <1>4, <1>5, <2>1, <2>2 DEF Quiet, Unapplied, NoUpload
<1>7. ASSUME NEW u \in Tabs PROVE TabInv(u)'
  <2>1. TabInv(u)
    BY <1>1 DEF WorkersInv
  <2>2. CASE u = t
    <3>1. j # NoJob
      BY BatchesAssumption
    <3>. QED  BY <1>4, <2>2, <3>1 DEF TabInv, Answered, UserCalls, WorkPlaces
  <2>3. CASE u # t
    <3>1. SameTab(u)
      BY <1>3, <2>3
    <3>. QED  BY <2>1, <3>1 DEF TabInv, SameTab, Answered
  <2>. QED  BY <2>2, <2>3
<1>8. ASSUME NEW i \in Jobs, i # j PROVE WorkInv(i)'
  <2>1. KeptStaging(i) /\ WorkInv(i) /\ status'[i] = status[i]
    BY <1>1, <1>4, <1>5, <1>8 DEF KeptStaging, WorkersInv
  <2>2. TabMay(t, i)
    BY <1>4, <1>8 DEF TabMay, Works, Uploading, Answered, WorkPlaces
  <2>3. \A u \in Tabs : TabMay(u, i)
    BY <1>1, <1>3, <2>1, <2>2, SameTabMay
  <2>4. status[i] \in Lasting => Settled(i)
    BY <2>1 DEF WorkInv, Lasting
  <2>. QED  BY <2>1, <2>3, <2>4, WorkKept
<1>9. WorkInv(j)'
  <2>1. \A u \in Tabs : view'[u] # j /\ (u # t => ~Works(u, j)')
    BY <1>3, <1>4, <1>6 DEF SameTab, Works
  <2>2. Progress(t, j)'
    BY <1>4, <1>6 DEF Progress
  <2>3. \A u, v \in Tabs : Works(u, j)' /\ Works(v, j)' => u = v
    BY <2>1
  <2>4. \A u \in Tabs : Works(u, j)' => Progress(u, j)'
    BY <2>1, <2>2
  <2>. QED  BY <1>5, <1>6, <2>1, <2>3, <2>4 DEF WorkInv, Completed
<1>. QED  BY <1>7, <1>8, <1>9 DEF WorkersInv

\* A step of the database alone that leaves rows and uploads as they are.
LEMMA AloneMoves ==
    ASSUME ClientTypeOK, WorkersInv, UNCHANGED <<rows, upload, posted>>,
           \A u \in Tabs : SameTab(u),
           \A i \in Jobs : /\ status'[i] = "absent" => status[i] = "absent"
                           /\ status'[i] \in Lasting => status[i] = status'[i]
    PROVE  WorkersInv'
<1>1. ASSUME NEW u \in Tabs PROVE TabInv(u)'
  <2>1. TabInv(u) /\ SameTab(u)
    BY DEF WorkersInv
  <2>. QED  BY <2>1 DEF TabInv, SameTab, Answered
<1>2. ASSUME NEW i \in Jobs PROVE WorkInv(i)'
  <2>1. KeptStaging(i) /\ WorkInv(i)
    BY DEF KeptStaging, WorkersInv
  <2>2. \A u \in Tabs : TabMay(u, i)
    BY <2>1, SameTabMay
  <2>3. status'[i] \in Lasting => Settled(i)
    BY <2>1 DEF WorkInv, Lasting
  <2>. QED  BY <2>1, <2>2, <2>3, WorkKept
<1>. QED  BY <1>1, <1>2 DEF WorkersInv

LEMMA CleanUpMoves ==
    ASSUME ClientIndInv, NEW t \in Tabs, NEW fails \in BOOLEAN, CleanUp(t, fails)
    PROVE  WorkersInv'
<1>1. TypeOK /\ ClientTypeOK /\ WorkersInv
  BY DEF ClientIndInv, IndInv
<1>2. Stops(t, "hydrating") /\ UNCHANGED <<active, view, posted>>
  BY DEF CleanUp
<1>3. \A u \in Tabs \ {t} : SameTab(u)
  BY <1>1, <1>2, OthersSame DEF SameTab
<1>4. CASE UNCHANGED vars
  <2>1. place'[t] = "hydrating"
    BY <1>1, <1>2, SendHere
  <2>. QED  BY <1>1, <1>2, <1>3, <1>4, <2>1, RestingMoves DEF UserCalls
<1>5. CASE FailStaleJobs
  <2>1. place'[t] = "hydrating"
    BY <1>1, <1>2, SendHere
  <2>2. /\ UNCHANGED <<rows, upload>>
        /\ \A i \in Jobs : \/ status'[i] = status[i] 
                           \/ status'[i] = "failed"
    BY <1>5 DEF FailStaleJobs
  <2>3. ASSUME NEW u \in Tabs PROVE TabInv(u)'
    <3>1. CASE u = t
      BY <2>1, <3>1 DEF TabInv, WorkPlaces, WorkerCalls, UserCalls, Answered
    <3>2. CASE u # t
      <4>1. TabInv(u) /\ SameTab(u)
        BY <1>1, <1>3, <3>2 DEF WorkersInv
      <4>. QED  BY <4>1 DEF TabInv, SameTab, Answered
    <3>. QED  BY <3>1, <3>2
  <2>4. ASSUME NEW i \in Jobs PROVE WorkInv(i)'
    <3>1. KeptStaging(i) /\ WorkInv(i)
      BY <1>1, <1>2, <2>2 DEF KeptStaging, WorkersInv
    <3>2. TabMay(t, i)
      BY <1>2, <2>1 DEF TabMay, Works, Uploading, WorkPlaces, WorkerCalls, Answered
    <3>3. \A u \in Tabs : TabMay(u, i)
      BY <1>1, <1>3, <3>1, <3>2, SameTabMay
    <3>4. /\ status'[i] = "absent" => status[i] = "absent"
          /\ status'[i] \in Lasting => Settled(i)
      BY <2>2, <3>1 DEF WorkInv, Lasting, Completed
    <3>. QED  BY <3>1, <3>3, <3>4, WorkKept
  <2>. QED  BY <2>3, <2>4 DEF WorkersInv
<1>. QED  BY <1>4, <1>5 DEF CleanUp

(***************************************************************************)
(* The steps of an upload.                                                 *)
(***************************************************************************)
\* Tabs may have heard of the end of the upload of job j.
Heard(u, j) ==
    /\ place'[u] = place[u] /\ batch'[u] = batch[u]
    /\ active'[u] = active[u] /\ view'[u] = view[u]
    /\ \/ answer'[u] = answer[u]
       \/ Awaits(u, "validate") /\ active[u] = j /\ answer'[u] \in {"ok", "error"}

LEMMA UploadMoves ==
    ASSUME ClientTypeOK, WorkersInv, NEW j \in Jobs, JobInv(j), \A u \in Tabs : Heard(u, j),
           status' = status, \A i \in Jobs \ {j} : SameStaging(i),
           \A u \in Tabs : Works(u, j)' => Progress(u, j)',
           ~Quiet(j), Unapplied(j)'
    PROVE  WorkersInv'
<1>1. ASSUME NEW u \in Tabs, NEW i PROVE (Works(u, i)' <=> Works(u, i)) /\ (Uploading(u, i)' <=> Uploading(u, i))
  BY DEF Heard, Works, Uploading, Answered, Awaits, WorkPlaces, WorkerCalls
<1>2. ASSUME NEW u \in Tabs PROVE TabInv(u)'
  <2>1. TabInv(u)
    BY DEF WorkersInv
  <2>2. Heard(u, j)
    OBVIOUS
  <2>. QED  BY <2>1, <2>2 DEF TabInv, Heard, Answered, Awaits
<1>3. ASSUME NEW i \in Jobs, i # j PROVE WorkInv(i)'
  <2>1. KeptStaging(i) /\ WorkInv(i)
    BY <1>3 DEF KeptStaging, SameStaging, WorkersInv
  <2>2. ASSUME NEW u \in Tabs PROVE TabMay(u, i)
    <3>1. CASE active[u] # i
      BY <3>1 DEF Heard, TabMay, Works, Uploading
    <3>2. CASE active[u] = i
      <4>1. SameTab(u)
        BY <1>3, <3>2 DEF Heard, SameTab
      <4>. QED  BY <2>1, <4>1, SameTabMay
    <3>. QED  BY <3>1, <3>2
  <2>3. status[i] \in Lasting => Settled(i)
    BY <2>1 DEF WorkInv, Lasting
  <2>. QED  BY <2>1, <2>2, <2>3, WorkKept
<1>4. WorkInv(j)'
  <2>1. WorkInv(j) /\ ~Settled(j)
    BY DEF WorkersInv, Settled
  <2>2. status[j] # "absent" /\ status[j] \notin Lasting /\ \A u \in Tabs : view[u] # j
    BY <2>1 DEF WorkInv, Quiet, JobInv, NoUpload, Lasting
  <2>3. \A u, v \in Tabs : Works(u, j)' /\ Works(v, j)' => u = v
    BY <1>1, <2>1 DEF WorkInv
  <2>4. \A u \in Tabs : view'[u] # j
    BY <2>2 DEF Heard
  <2>. QED  BY <2>2, <2>3, <2>4 DEF WorkInv, Lasting
<1>. QED  BY <1>2, <1>3, <1>4 DEF WorkersInv

\* A worker that no longer waits for the validation does not ask what becomes
\* of the upload; the one that waits knows its batch is the one under way.
LEMMA AwaitedBatch ==
    ASSUME ClientTypeOK, WorkersInv, NEW j \in Jobs, ~Quiet(j), NEW u \in Tabs, Works(u, j)
    PROVE  \/ place[u] = "fail"
           \/ place[u] = "validate" /\ answer[u] = "error"
           \/ place[u] = "validate" /\ answer[u] = "pending"
           \/ place[u] = "validate" /\ answer[u] = "none"
<1>1. Progress(u, j)
  BY DEF WorkersInv, WorkInv
<1>2. place[u] \in WorkerCalls /\ answer[u] \in {"none", "pending", "ok", "warnings", "error"}
  BY DEF Works, WorkPlaces, Answered, WorkerCalls, ClientTypeOK
<1>. QED  BY <1>1, <1>2 DEF Progress, WorkerCalls, Good

LEMMA UploadStepMoves ==
    ASSUME ClientIndInv, NEW j \in Jobs, UploadStep(j)
    PROVE  WorkersInv'
<1>1. TypeOK /\ ClientTypeOK /\ WorkersInv /\ JobInv(j) /\ WorkInv(j)
  BY DEF ClientIndInv, IndInv, WorkersInv
<1>2. /\ posted \in [Jobs -> SUBSET Rows] /\ upload \in [Jobs -> Uploads]
      /\ rows \in [Jobs -> [Rows -> RowStates]]
  BY <1>1 DEF TypeOK, ClientTypeOK
<1>3. status' = status
  BY DEF UploadStep, UploadArrives, BeginUpload, UploadLost, UploadRuns, DeleteStaged, UploadEnds,
     InsertStaged, AbortUpload, jobVars, vars
<1>4. \A i \in Jobs \ {j} : SameStaging(i)
  BY <1>2 DEF UploadStep, UploadArrives, BeginUpload, UploadLost, UploadRuns, DeleteStaged, UploadEnds,
     InsertStaged, AbortUpload, SameStaging, vars, clientVars
<1>5. ~Quiet(j)
  BY DEF UploadStep, UploadArrives, UploadLost, UploadRuns, DeleteStaged, UploadEnds,
     InsertStaged, AbortUpload, Quiet
<1>6. Unapplied(j)
  BY <1>1, <1>5 DEF WorkInv
<1>7. Unapplied(j)'
  <2>1. CASE rows' = rows
    BY <1>6, <2>1 DEF Unapplied
  <2>2. CASE DeleteStaged(j) \/ InsertStaged(j)
    BY <1>2, <1>6, <2>2 DEF DeleteStaged, InsertStaged, Unapplied
  <2>. QED  BY <2>1, <2>2 DEF UploadStep, UploadArrives, BeginUpload, UploadLost, UploadRuns,
     UploadEnds, AbortUpload, vars
<1>8. \A u \in Tabs : Heard(u, j)
  BY <1>1 DEF UploadStep, UploadArrives, UploadLost, UploadRuns, UploadEnds, Replies, Waiting,
     Heard, clientVars, tabVars, ClientTypeOK
<1>9. ASSUME NEW u \in Tabs, Works(u, j)' PROVE Progress(u, j)'
  <2>1. Works(u, j) /\ Progress(u, j) /\ Heard(u, j)
    BY <1>1, <1>8, <1>9 DEF Heard, Works, Answered, Awaits, WorkPlaces, WorkerCalls, WorkInv
  <2> DEFINE b == batch[u]
  <2>2. b \in DOMAIN Batches /\ place'[u] = place[u] /\ batch'[u] = b
    BY <1>1, <2>1 DEF ClientTypeOK, Heard
  <2>3. CASE place[u] = "fail" \/ (place[u] = "validate" /\ answer'[u] \in {"error", "none"})
    BY <2>2, <2>3 DEF Progress, Good
  <2>4. CASE place[u] = "validate" /\ answer[u] \in {"error", "none"}
    <3>1. answer'[u] = answer[u]
      BY <2>1, <2>4 DEF Heard, Awaits
    <3>. QED  BY <2>3, <2>4, <3>1
  <2>5. ASSUME place[u] = "validate", answer[u] = "pending" PROVE Progress(u, j)'
    <3>1. /\ posted[j] \in {{}, Batches[b]}
          /\ upload[j].phase # "idle" => posted[j] = {} /\ upload[j].rows = Batches[b]
          /\ \A r \in Earlier(b - 1) :
                rows[j][r] # "none" \/ (upload[j].phase = "deleted" /\ r \in upload[j].rows)
      BY <2>1, <2>5 DEF Progress
    <3>2. Earlier(b) = Earlier(b - 1) \cup Batches[b] /\ Earlier(b) \subseteq Rows
      BY <2>2, EarlierFacts
    <3>3. u \in Waiting(j)
      BY <2>1, <2>5 DEF Works, Waiting, Awaits
    <3>4. ASSUME answer'[u] = "pending",
                 posted'[j] \in {{}, Batches[b]},
                 upload'[j].phase # "idle" => posted'[j] = {} /\ upload'[j].rows = Batches[b],
                 \A r \in Earlier(b - 1) :
                    rows'[j][r] # "none" \/ (upload'[j].phase = "deleted" /\ r \in upload'[j].rows)
          PROVE  Progress(u, j)'
      BY <2>2, <2>5, <3>4 DEF Progress, Good, Earlier
    <3>5. CASE BeginUpload(j, posted[j]) /\ posted' = [posted EXCEPT ![j] = {}] /\ UNCHANGED answer
      <4>1. /\ posted[j] # {} /\ posted'[j] = {} /\ rows' = rows
            /\ upload[j].phase = "idle"
            /\ upload'[j] = [phase |-> "checked", rows |-> posted[j]]
        BY <1>2, <1>5, <3>5 DEF BeginUpload, Quiet
      <4>. QED  BY <2>5, <3>1, <3>4, <3>5, <4>1
    <3>6. CASE UploadLost(j)
      <4>1. posted[j] # {} /\ posted'[j] = {} /\ rows' = rows /\ upload' = upload /\ answer' = answer
        BY <1>2, <3>6 DEF UploadLost, vars, tabVars
      <4>. QED  BY <2>5, <3>1, <3>4, <4>1
    <3>7. CASE DeleteStaged(j) /\ UNCHANGED clientVars
      <4>1. /\ upload[j].phase = "checked" /\ upload'[j].phase = "deleted"
            /\ upload'[j].rows = upload[j].rows
            /\ rows'[j] = [r \in Rows |-> IF r \in upload[j].rows THEN "none" ELSE rows[j][r]]
            /\ posted' = posted /\ answer' = answer
        BY <1>2, <3>7 DEF DeleteStaged, clientVars, tabVars, Uploads
      <4>2. \A r \in Earlier(b - 1) : rows'[j][r] # "none" \/ r \in upload'[j].rows
        BY <3>1, <3>2, <4>1
      <4>. QED  BY <2>5, <3>1, <3>4, <4>1, <4>2
    <3>8. CASE InsertStaged(j) /\ Replies(j, "ok") /\ UNCHANGED posted
      <4>1. /\ upload[j].phase = "deleted" /\ upload'[j].phase = "idle"
            /\ rows'[j] = [r \in Rows |-> IF r \in upload[j].rows THEN "staged" ELSE rows[j][r]]
        BY <1>2, <3>8 DEF InsertStaged, NoUpload
      <4>2. answer'[u] \in {"ok", "error"}
        BY <3>3, <3>8 DEF Replies
      <4>3. Quiet(j)'
        BY <3>1, <3>8, <4>1 DEF Quiet
      <4>4. \A r \in Earlier(b) : rows'[j][r] # "none"
        BY <3>1, <3>2, <4>1
      <4>. QED  BY <2>2, <2>5, <4>2, <4>3, <4>4 DEF Progress, Earlier
    <3>9. CASE Replies(j, "error")
      <4>1. answer'[u] = "error"
        BY <3>3, <3>9 DEF Replies
      <4>. QED  BY <2>3, <2>5, <4>1
    <3>. QED  BY <3>5, <3>6, <3>7, <3>8, <3>9 DEF UploadStep, UploadArrives, UploadRuns, UploadEnds
  <2>. QED  BY <1>1, <1>5, <2>1, <2>3, <2>4, <2>5, AwaitedBatch
<1>. QED  BY <1>1, <1>3, <1>4, <1>5, <1>7, <1>8, <1>9, UploadMoves

(***************************************************************************)
(* The invariant, and what it gives.                                       *)
(***************************************************************************)
LEMMA ClientInitInv == ClientInit => ClientIndInv
<1>1. SUFFICES ASSUME ClientInit PROVE ClientIndInv
  OBVIOUS
<1>2. IndInv
  BY <1>1, InitIndInv DEF ClientInit
<1>3. ClientTypeOK
  BY <1>1, BatchFacts DEF ClientInit, ClientTypeOK, Places, Storable, Completed
<1>4. ASSUME NEW j \in Jobs PROVE WorkInv(j)
  <2>1. /\ status[j] = "absent" /\ posted[j] = {} /\ upload[j] = NoUpload
        /\ \A t \in Tabs : place[t] = "idle" /\ active[t] = NoJob /\ view[t] = NoJob
    BY <1>1 DEF ClientInit, Init
  <2>2. j # NoJob /\ Quiet(j)
    BY <2>1, BatchesAssumption DEF Quiet, NoUpload
  <2>3. \A t \in Tabs : ~Works(t, j) /\ ~Uploading(t, j)
    BY <2>1, <2>2 DEF Works, Uploading
  <2>. QED  BY <2>1, <2>2, <2>3 DEF WorkInv, Completed
<1>5. \A t \in Tabs : TabInv(t)
  BY <1>1 DEF ClientInit, TabInv, UserCalls, WorkPlaces, WorkerCalls, Answered
<1>. QED  BY <1>2, <1>3, <1>4, <1>5 DEF ClientIndInv, WorkersInv

LEMMA WorkersStep == ClientIndInv /\ [ClientNext]_allVars => WorkersInv'
<1>1. SUFFICES ASSUME ClientIndInv, [ClientNext]_allVars PROVE WorkersInv'
  OBVIOUS
<1>2. ClientTypeOK /\ WorkersInv
  BY <1>1 DEF ClientIndInv
<1>3. ASSUME UNCHANGED <<rows, upload, status, clientVars>> PROVE WorkersInv'
  BY <1>2, <1>3, AloneMoves DEF clientVars, tabVars, SameTab
<1>4. ASSUME NEW t \in Tabs, ServerStep(t) PROVE WorkersInv'
  BY <1>1, <1>2, <1>4, CreateMoves, ServeMoves, NotServedMoves DEF ServerStep
<1>5. ASSUME NEW t \in Tabs, ClientStep(t) PROVE WorkersInv'
  BY <1>2, <1>5, ProceedMoves, EndMoves DEF ClientStep, WorkerStep
<1>6. ASSUME NEW t \in Tabs, UserStep(t) PROVE WorkersInv'
  <2>1. ResetImport(t) => UNCHANGED vars
    BY DEF ResetImport
  <2>. QED  BY <1>2, <1>6, <2>1, StartMoves, EndMoves DEF UserStep
<1>7. ASSUME NEW t \in Tabs, LoadStep(t) PROVE WorkersInv'
  BY <1>1, <1>2, <1>7, CleanUpMoves, HydrateMoves DEF LoadStep
<1>8. ASSUME NEW t \in Tabs, Reload(t) \/ SignedIn(t) PROVE WorkersInv'
  <2>1. UNCHANGED vars
    BY <1>8 DEF Reload, SignedIn
  <2>. QED  BY <1>2, <1>8, <2>1, EndMoves
<1>9. ASSUME NEW t \in Tabs, NEW j \in Jobs, Realtime(t, j) PROVE WorkersInv'
  <2>1. UNCHANGED <<vars, place, answer, active, batch, view, posted>>
    BY <1>9 DEF Realtime
  <2>. QED  BY <1>2, <2>1, AloneMoves DEF vars, SameTab
<1>10. ASSUME NEW j \in Jobs, UploadStep(j) PROVE WorkersInv'
  BY <1>1, <1>10, UploadStepMoves
<1>11. ASSUME NEW j \in Jobs, HeartbeatExpires(j), UNCHANGED clientVars PROVE WorkersInv'
  BY <1>3, <1>11 DEF HeartbeatExpires
<1>12. CASE UNCHANGED allVars
  BY <1>3, <1>12 DEF allVars, vars
<1>. QED
  BY <1>1, <1>4, <1>5, <1>6, <1>7, <1>8, <1>9, <1>10, <1>11, <1>12 DEF ClientNext

LEMMA ClientInvariance == ClientSpec => []ClientIndInv
<1>1. ClientIndInv /\ [ClientNext]_allVars => ClientIndInv'
  <2>1. SUFFICES ASSUME ClientIndInv, [ClientNext]_allVars PROVE ClientIndInv'
    OBVIOUS
  <2>2. IndInv'
    BY <2>1, ClientStepIsJobStep, InvariantStep DEF ClientIndInv
  <2>3. ClientTypeOK' /\ WorkersInv'
    BY <2>1, ClientTypeStep, WorkersStep DEF ClientIndInv
  <2>. QED  BY <2>2, <2>3 DEF ClientIndInv
<1>. QED  BY <1>1, ClientInitInv, PTL DEF ClientSpec

\* Whatever tabs, workers and users do, and whichever calls are lost, the
\* database sees nothing but steps of import jobs.
THEOREM ClientsKeepToTheJobs == ClientSpec => Spec
<1>1. ClientIndInv /\ [ClientNext]_allVars => [Next]_vars
  BY ClientStepIsJobStep DEF ClientIndInv
<1>2. ClientInit => Init
  BY DEF ClientInit
<1>. QED  BY <1>1, <1>2, ClientInvariance, PTL DEF ClientSpec, Spec

\* A job that was ever marked ready has every row of its file staged, for any
\* number of tabs, jobs and batches, whatever was lost, reloaded or late.
THEOREM ReadyJobsAreWhole == ClientSpec => []ClientInv
<1>1. ClientIndInv => ClientInv
  BY DEF ClientIndInv, ClientInv, ReadyJobIsWhole, WorkersInv, WorkInv, Settled, Whole
<1>. QED  BY <1>1, ClientInvariance, PTL

\* A row that is applied stays so as long as no upload is on its way.
LEMMA QuietKeepsApplied ==
    ASSUME TypeOK, [Next]_vars, NEW i \in Jobs, upload[i].phase = "idle",
           NEW r \in Rows, rows[i][r] = "applied"
    PROVE  rows'[i][r] = "applied"
<1>1. CASE UNCHANGED rows
  BY <1>1
<1>2. ASSUME NEW j \in Jobs, JobStep(j) PROVE rows'[i][r] = "applied"
  <2>1. CASE i # j
    BY <1>2, <2>1, OtherJobsUntouched DEF Same
  <2>2. CASE i = j
    <3>1. ~DeleteStaged(j) /\ ~InsertStaged(j)
      BY <2>2 DEF DeleteStaged, InsertStaged
    <3>2. ASSUME NEW ok \in SUBSET Pending(j), NEW new \in SUBSET Targets,
                 NEW errors \in BOOLEAN, FinalizeJob(j, ok, new, errors)
          PROVE  rows'[i][r] = "applied"
      BY <2>2, <3>2 DEF FinalizeJob, Pending, TypeOK
    <3>3. ASSUME NEW blocked \in SUBSET live[j], RollbackJob(j, blocked)
          PROVE  UNCHANGED rows
      BY <3>3 DEF RollbackJob
    <3>4. CASE \/ \E k \in Kinds : CreateJob(j, k)
               \/ UpdateProgress(j) \/ FailJob(j) \/ HeartbeatExpires(j) \/ MarkReady(j)
               \/ CancelReady(j) \/ \E R \in (SUBSET Rows) \ {{}} : BeginUpload(j, R)
               \/ AbortUpload(j)
      BY <1>1, <3>4 DEF CreateJob, UpdateProgress, FailJob, HeartbeatExpires, MarkReady,
         CancelReady, BeginUpload, AbortUpload
    <3>. QED  BY <1>1, <1>2, <3>1, <3>2, <3>3, <3>4 DEF JobStep
  <2>. QED  BY <2>1, <2>2
<1>3. CASE FailStaleJobs
  BY <1>1, <1>3 DEF FailStaleJobs
<1>4. CASE UNCHANGED vars
  BY <1>1, <1>4 DEF vars
<1>. QED  BY <1>2, <1>3, <1>4 DEF Next

\* No upload reaches a row that was applied: none is on its way to a job
\* whose rows may be applied.
THEOREM AppliedRowsAreKept == ClientSpec => AppliedRowsStay
<1>1. ClientIndInv /\ [ClientNext]_allVars
        => [\A j \in Jobs, r \in Rows : rows[j][r] = "applied" => rows'[j][r] = "applied"]_allVars
  <2>1. SUFFICES ASSUME ClientIndInv, [ClientNext]_allVars,
                        NEW j \in Jobs, NEW r \in Rows, rows[j][r] = "applied"
                 PROVE  rows'[j][r] = "applied"
    OBVIOUS
  <2>2. TypeOK /\ [Next]_vars
    BY <2>1, ClientStepIsJobStep DEF ClientIndInv, IndInv
  <2>3. upload[j].phase = "idle"
    BY <2>1 DEF ClientIndInv, WorkersInv, WorkInv, Unapplied, Quiet
  <2>. QED  BY <2>1, <2>2, <2>3, QuietKeepsApplied
<1>. QED  BY <1>1, ClientInvariance, PTL DEF ClientSpec, AppliedRowsStay

-----------------------------------------------------------------------------
(* The coach import (CoachImport) does to the coaches table what ImportJobs *)
(* leaves open.                                                             *)

HasMinimal(F) == \E x \in F : \A y \in F : y \subseteq x => y = x

\* A set of subsets of a finite set has one that contains no other.
LEMMA MinimalMember ==
    ASSUME NEW S, IsFiniteSet(S), NEW F \in SUBSET SUBSET S, F # {}
    PROVE  HasMinimal(F)
<1>1. F \subseteq FiniteSubsetsOf(S)
  BY FS_FiniteSubsetsOfFinite
<1>2. \E x \in F : \A y \in F : ~(<<y, x>> \in StrictSubsetOrdering(S))
  BY <1>1, FS_StrictSubsetOrderingWellFounded, WFMin
<1>. QED  BY <1>2 DEF StrictSubsetOrdering, HasMinimal

\* A set of numbers has a least one: that whose initial segment is minimal.
LEMMA LeastNumber ==
    ASSUME NEW T, T \subseteq Nat, T # {}
    PROVE  \E x \in T : \A y \in T : x <= y
<1>1. PICK n \in T : n \in Nat
  OBVIOUS
<1> DEFINE F == {0 .. k : k \in T \cap (0 .. n)}
<1>2. IsFiniteSet(0 .. n)
  BY <1>1, FS_Interval
<1>3. F \subseteq SUBSET (0 .. n)
  BY <1>1
<1>4. F # {}
  <2>1. 0 .. n \in F
    BY <1>1
  <2>. QED  BY <2>1
<1>5. HasMinimal(F)
  <2>. HIDE DEF F
  <2>. QED  BY <1>2, <1>3, <1>4, MinimalMember
<1>6. PICK k \in T \cap (0 .. n) : \A y \in F : y \subseteq 0 .. k => y = 0 .. k
  BY <1>5 DEF HasMinimal
<1>7. ASSUME NEW y \in T, y < k PROVE FALSE
  <2>1. y \in 0 .. n /\ k \in Nat /\ y \in Nat
    BY <1>1, <1>6, <1>7
  <2>2. 0 .. y \in F
    BY <2>1
  <2>3. 0 .. y \subseteq 0 .. k
    BY <1>7, <2>1
  <2>4. 0 .. y = 0 .. k
    BY <1>6, <2>2, <2>3
  <2>5. k \in 0 .. y
    BY <2>1, <2>4
  <2>. QED  BY <1>7, <2>1, <2>5
<1>. QED  BY <1>1, <1>6, <1>7

LEMMA MinFacts ==
    ASSUME NEW T, T \subseteq Nat, T # {}
    PROVE  Min(T) \in T
  BY LeastNumber DEF Min

-----------------------------------------------------------------------------
(* The invariant of the database with its coaches.                          *)

\* Undoing the records in standing, whose previous payloads are shots, would
\* turn a table into what the first application of job j started from, as far
\* as nobody else wrote it and no record was undone before.
Undoes(j, table, standing, shots) ==
    \A c \in Targets \ undone[j] :
        /\ c \notin standing => before[j][c] \subseteq {table[c]}
        /\ c \in standing /\ shots[c] = NoCoach => before[j][c] \subseteq {NoCoach}
        /\ c \in standing /\ shots[c] # NoCoach =>
               /\ before[j][c] \subseteq {shots[c]}
               /\ table[c] = NoCoach => before[j][c] = {}

\* The records that stand in the eyes of the transaction of job j
Standing(j) == IF txn[j].op = "finalize" THEN live[j] \cup txn[j].new
               ELSE txn[j].left \cup txn[j].blocked

\* Committed, the ledger of a job is about ids that were given out, and
\* undoing it would restore what it may.
RecordsInv(j) ==
    /\ kind[j] \in {"coaches", "absent"}
    /\ live[j] \cup undone[j] \subseteq born
    /\ \A c \in Targets \ (live[j] \cup undone[j]) : image[j][c] = NoCoach
    /\ Undoes(j, coaches, live[j], image[j])

\* What a finalizer knows of its job, its rows and the coach it looked up.
FinalizeInv(j) ==
    /\ CanFinalize(j)
    /\ txn[j].todo \cup txn[j].ok \subseteq Pending(j)
    /\ txn[j].ok = {} <=> txn[j].new = {}
    /\ txn[j].held = txn[j].new
    /\ \A c \in Targets \ (live[j] \cup undone[j] \cup txn[j].new) : txn[j].shots[c] = NoCoach
    /\ txn[j].step # "next" => txn[j].todo # {} /\ ~Invalid(Row(j))
    /\ txn[j].step \in {"found", "write"} =>
           /\ txn[j].coach \in Targets /\ txn[j].seen # NoCoach
           /\ before[j][txn[j].coach] # {} => txn[j].seen = View(j)[txn[j].coach]

\* What a rollback knows of the records of its job.
RollbackInv(j) ==
    /\ CanRollback(j)
    /\ live[j] = txn[j].left \cup txn[j].blocked \cup txn[j].held
    /\ (txn[j].left \cup txn[j].blocked) \cap txn[j].held = {}
    /\ txn[j].left \cap txn[j].blocked = {}
    /\ txn[j].new = {}
    /\ txn[j].shots = image[j]
    /\ txn[j].step \in {"next", "write"}
    /\ txn[j].step = "write" => txn[j].coach \in txn[j].left

TxnInv(j) ==
    /\ txn[j].op = "none" => txn[j] = NoTxn
    /\ txn[j].op = "finalize" => FinalizeInv(j)
    /\ txn[j].op = "rollback" => RollbackInv(j)
    /\ txn[j].op # "none" => Undoes(j, View(j), Standing(j), txn[j].shots)

CoachJobInv(j) == RecordsInv(j) /\ TxnInv(j)

CoachIndInv ==
    /\ IndInv
    /\ CoachTypeOK
    /\ \A c \in Targets \ born : coaches[c] = NoCoach
    /\ \A j \in Jobs : CoachJobInv(j)

-----------------------------------------------------------------------------
(* The steps of the other jobs and of other sessions.                       *)

\* What happens beside job j's transaction: the committed coaches change only
\* where j's observer is told so.
Undisturbed(j) ==
    /\ txn'[j] = txn[j] /\ image'[j] = image[j] /\ payload'[j] = payload[j]
    /\ live'[j] = live[j] /\ undone'[j] = undone[j]
    /\ kind'[j] \in {"coaches", "absent"}
    /\ born \subseteq born'
    /\ ~Idle(j) => status'[j] = status[j] /\ kind'[j] = kind[j] /\ rows'[j] = rows[j]
    /\ \A c \in Targets : \/ before'[j][c] = {}
                          \/ before'[j][c] = before[j][c] /\ coaches'[c] = coaches[c]

LEMMA ViewOf ==
    ASSUME NEW j \in Jobs, NEW c \in Targets
    PROVE  View(j)[c] = IF c \in txn[j].held THEN txn[j].mine[c] ELSE coaches[c]
  BY DEF View

LEMMA ViewKept ==
    ASSUME NEW j \in Jobs, Undisturbed(j), NEW c \in Targets
    PROVE  \/ before'[j][c] = {}
           \/ before'[j][c] = before[j][c] /\ View(j)'[c] = View(j)[c]
<1>1. View(j)'[c] = IF c \in txn'[j].held THEN txn'[j].mine[c] ELSE coaches'[c]
  BY DEF View
<1>. QED  BY <1>1, ViewOf DEF Undisturbed

LEMMA UndisturbedKeeps ==
    ASSUME NEW j \in Jobs, CoachJobInv(j), Undisturbed(j)
    PROVE  CoachJobInv(j)'
<1>1. RecordsInv(j)'
  BY DEF CoachJobInv, RecordsInv, Undisturbed, Undoes
<1>2. ASSUME txn[j].op = "finalize" PROVE FinalizeInv(j)'
  <2>1. FinalizeInv(j)
    BY <1>2 DEF CoachJobInv, TxnInv
  <2>2. CanFinalize(j)' /\ Pending(j)' = Pending(j) /\ Row(j)' = Row(j)
    BY <1>2, <2>1 DEF FinalizeInv, Undisturbed, CanFinalize, Pending, Row, Idle, Exists
  <2>3. txn[j].step \in {"found", "write"} =>
           (before'[j][txn[j].coach] # {} => txn[j].seen = View(j)'[txn[j].coach])
    BY <2>1, ViewKept DEF FinalizeInv
  <2>. QED  BY <2>1, <2>2, <2>3 DEF FinalizeInv, Undisturbed, Invalid
<1>3. ASSUME txn[j].op = "rollback" PROVE RollbackInv(j)'
  <2>1. RollbackInv(j)
    BY <1>3 DEF CoachJobInv, TxnInv
  <2>. QED
    BY <1>3, <2>1 DEF RollbackInv, Undisturbed, CanRollback, Idle, Exists
<1>4. ASSUME txn[j].op # "none"
      PROVE  Undoes(j, View(j), Standing(j), txn[j].shots)'
  <2>1. Undoes(j, View(j), Standing(j), txn[j].shots)
    BY <1>4 DEF CoachJobInv, TxnInv
  <2>2. Standing(j)' = Standing(j)
    BY DEF Standing, Undisturbed
  <2>. QED  BY <2>1, <2>2, ViewKept DEF Undoes, Undisturbed
<1>. QED
  BY <1>1, <1>2, <1>3, <1>4 DEF CoachJobInv, TxnInv, Undisturbed

\* Steps of a job beside its transaction: those that write its row wait.
LEMMA JobOnlyUndisturbs ==
    ASSUME CoachIndInv, NEW i \in Jobs, JobOnly(i), UNCHANGED coachVars, NEW j \in Jobs
    PROVE  Undisturbed(j)
<1>1. TypeOK /\ kind[j] \in {"coaches", "absent"}
  BY DEF CoachIndInv, IndInv, CoachJobInv, RecordsInv
<1>2. JobStep(i)
  BY CoachAssumption DEF JobOnly, JobStep
<1>3. UNCHANGED <<txn, image, payload, born, before, coaches>>
  BY DEF coachVars, importTables
<1>4. CASE i # j
  BY <1>1, <1>2, <1>3, <1>4, OtherJobsUntouched DEF Undisturbed, Same
<1>5. CASE i = j
  <2> USE <1>1, <1>3, <1>5 DEF Undisturbed, TypeOK, jobVars, ledgerVars
  <2>1. CASE HeartbeatExpires(j)  BY <2>1 DEF HeartbeatExpires
  <2>2. ASSUME NEW R \in (SUBSET Rows) \ {{}}, BeginUpload(j, R) PROVE Undisturbed(j)
    BY <2>2 DEF BeginUpload
  <2>3. CASE AbortUpload(j)       BY <2>3 DEF AbortUpload
  <2>4. CASE Idle(j) /\ CreateJob(j, "coaches")  BY <2>4 DEF CreateJob
  <2>5. CASE Idle(j) /\ UpdateProgress(j)        BY <2>5 DEF UpdateProgress
  <2>6. CASE Idle(j) /\ FailJob(j)               BY <2>6 DEF FailJob
  <2>7. CASE Idle(j) /\ MarkReady(j)             BY <2>7 DEF MarkReady
  <2>8. CASE Idle(j) /\ CancelReady(j)           BY <2>8 DEF CancelReady
  <2>9. CASE Idle(j) /\ DeleteStaged(j)          BY <2>9 DEF DeleteStaged
  <2>10. CASE Idle(j) /\ InsertStaged(j)         BY <2>10 DEF InsertStaged
  <2>. QED
    BY <2>1, <2>2, <2>3, <2>4, <2>5, <2>6, <2>7, <2>8, <2>9, <2>10 DEF JobOnly, JobRowFree
<1>. QED  BY <1>4, <1>5

LEMMA FailStaleUndisturbs ==
    ASSUME CoachIndInv, FailStale, UNCHANGED coachVars, NEW j \in Jobs
    PROVE  Undisturbed(j)
<1>1. TypeOK /\ kind[j] \in {"coaches", "absent"}
  BY DEF CoachIndInv, IndInv, CoachJobInv, RecordsInv
<1>2. UNCHANGED <<txn, image, payload, born, before, coaches>>
  BY DEF coachVars, importTables
<1>. QED
  BY <1>1, <1>2 DEF FailStale, FailStaleJobs, JobRowFree, Undisturbed, TypeOK, ledgerVars

LEMMA AdminUndisturbs ==
    ASSUME CoachIndInv, AdminStep, NEW j \in Jobs
    PROVE  Undisturbed(j)
<1>1. /\ TypeOK /\ CoachTypeOK /\ kind[j] \in {"coaches", "absent"}
      /\ Fresh \subseteq Targets
  BY DEF CoachIndInv, IndInv, CoachJobInv, RecordsInv, Fresh
<1> USE <1>1 DEF Undisturbed, TypeOK, CoachTypeOK, vars, importTables, Touched, Table
<1>2. ASSUME NEW c \in Targets, NEW s \in AdminStatuses, UpdateCoachStatus(c, s)
      PROVE  Undisturbed(j)
  BY <1>2 DEF UpdateCoachStatus
<1>3. ASSUME NEW C \in (SUBSET born) \ {{}}, DeleteCoaches(C) PROVE Undisturbed(j)
  BY <1>3 DEF DeleteCoaches
<1>4. ASSUME NEW e \in Emails, UpsertLead(e) PROVE Undisturbed(j)
  BY <1>4 DEF UpsertLead
<1>5. ASSUME NEW A \in SUBSET born, TeamsChange(A) PROVE Undisturbed(j)
  BY <1>5 DEF TeamsChange
<1>. QED  BY <1>2, <1>3, <1>4, <1>5 DEF AdminStep

\* The steps of a transaction
TxnStep(i) ==
    \/ BeginFinalize(i) \/ LookUp(i) \/ CheckTeams(i) \/ UpdateCoach(i) \/ InsertCoach(i)
    \/ CommitFinalize(i)
    \/ BeginRollback(i) \/ CheckRecord(i) \/ WriteRecord(i) \/ CommitRollback(i)
    \/ Abort(i)

\* Another transaction shows in what it commits.
LEMMA OtherTxnUndisturbs ==
    ASSUME CoachIndInv, NEW i \in Jobs, TxnStep(i), NEW j \in Jobs, j # i
    PROVE  Undisturbed(j)
<1>1. TypeOK /\ CoachTypeOK /\ kind[j] \in {"coaches", "absent"}
  BY DEF CoachIndInv, IndInv, CoachJobInv, RecordsInv
<1> USE <1>1 DEF Undisturbed, TypeOK, CoachTypeOK, vars, importTables, Touched, Table, Goes
<1>2. CASE BeginFinalize(i)   BY <1>2 DEF BeginFinalize
<1>3. CASE LookUp(i)          BY <1>3 DEF LookUp, Rejects
<1>4. CASE CheckTeams(i)      BY <1>4 DEF CheckTeams, Rejects
<1>5. CASE UpdateCoach(i)     BY <1>5 DEF UpdateCoach, Applies
<1>6. CASE InsertCoach(i)     BY <1>6 DEF InsertCoach, Applies
<1>7. CASE CommitFinalize(i)
  <2>1. \A c \in Targets : c \notin txn[i].held => coaches'[c] = coaches[c]
    BY <1>7, ViewOf DEF CommitFinalize
  <2>2. /\ status'[j] = status[j] /\ kind'[j] = kind[j] /\ rows'[j] = rows[j]
        /\ live'[j] = live[j] /\ undone'[j] = undone[j]
    BY <1>7 DEF CommitFinalize, FinalizeJob
  <2>. QED  BY <1>7, <2>1, <2>2 DEF CommitFinalize
<1>8. CASE BeginRollback(i)   BY <1>8 DEF BeginRollback
<1>9. CASE CheckRecord(i)     BY <1>9 DEF CheckRecord, KeepsRecord, TakesUp
<1>10. CASE WriteRecord(i)    BY <1>10 DEF WriteRecord
<1>11. CASE CommitRollback(i)
  <2>1. \A c \in Targets : c \notin txn[i].held => coaches'[c] = coaches[c]
    BY <1>11, ViewOf DEF CommitRollback
  <2>2. /\ status'[j] = status[j] /\ kind'[j] = kind[j] /\ rows'[j] = rows[j]
        /\ live'[j] = live[j] /\ undone'[j] = undone[j]
    BY <1>11 DEF CommitRollback, RollbackJob
  <2>. QED  BY <1>11, <2>1, <2>2 DEF CommitRollback
<1>12. CASE Abort(i)          BY <1>12 DEF Abort
<1>. QED
  BY <1>2, <1>3, <1>4, <1>5, <1>6, <1>7, <1>8, <1>9, <1>10, <1>11, <1>12 DEF TxnStep

-----------------------------------------------------------------------------
(* The steps of a job's own transaction.                                    *)

LEMMA RowFacts ==
    ASSUME CoachTypeOK, NEW j \in Jobs, txn[j].todo # {}
    PROVE  /\ Min(txn[j].todo) \in txn[j].todo
           /\ Row(j) \in PayloadType
           /\ ~Invalid(Row(j)) => Row(j).email \in Emails /\ Row(j).status \in CoachStatuses
<1>1. txn[j].todo \subseteq Rows /\ payload[j] \in Files
  BY DEF CoachTypeOK, TxnType
<1>2. Min(txn[j].todo) \in txn[j].todo
  BY <1>1, CoachAssumption, MinFacts
<1>3. Row(j) \in PayloadType
  BY <1>1, <1>2, CoachAssumption DEF Row
<1>. QED  BY <1>2, <1>3 DEF PayloadType, Invalid, Importable, CoachStatuses

LEMMA WrittenRow ==
    ASSUME CoachTypeOK, NEW j \in Jobs, txn[j].todo # {}, ~Invalid(Row(j)), NEW old \in BOOLEAN
    PROVE  [email |-> Row(j).email, status |-> Row(j).status,
            multi |-> Multi(Row(j), old)] \in CoachType
  BY RowFacts DEF CoachType, Multi

LEMMA DoneFacts ==
    ASSUME CoachTypeOK, NEW j \in Jobs
    PROVE  /\ Done(j) \in TxnType
           /\ Done(j).op = txn[j].op /\ Done(j).step = "next"
           /\ Done(j).todo = txn[j].todo \ {Min(txn[j].todo)}
           /\ Done(j).held = txn[j].held /\ Done(j).mine = txn[j].mine
           /\ Done(j).shots = txn[j].shots
           /\ Done(j).ok = txn[j].ok /\ Done(j).new = txn[j].new
<1>1. txn[j] \in TxnType
  BY DEF CoachTypeOK
<1>2. txn[j].todo \ {Min(txn[j].todo)} \in SUBSET Rows
  BY <1>1 DEF TxnType
<1>. QED  BY <1>1, <1>2 DEF Done, TxnType, RowType

\* The records keep what they say as long as nothing is committed.
LEMMA RecordsKept ==
    ASSUME NEW j \in Jobs, RecordsInv(j),
           UNCHANGED <<vars, payload, importTables, assigned, before>>
    PROVE  RecordsInv(j)'
  BY DEF RecordsInv, Undoes, vars, importTables

LEMMA BeginFinalizeKeeps ==
    ASSUME CoachIndInv, NEW j \in Jobs, BeginFinalize(j)
    PROVE  CoachJobInv(j)' /\ txn'[j] \in TxnType /\ before'[j] \in [Targets -> SUBSET RowType]
<1>1. /\ TypeOK /\ CoachTypeOK /\ RecordsInv(j) /\ image[j] \in Table
      /\ live[j] \subseteq Targets /\ undone[j] \subseteq Targets
  BY DEF CoachIndInv, IndInv, CoachJobInv, CoachTypeOK, TypeOK
<1> DEFINE t == [NoTxn EXCEPT !.op = "finalize", !.todo = Pending(j), !.shots = image[j]]
<1>2. txn'[j] = t
  BY <1>1 DEF BeginFinalize, Goes, CoachTypeOK
<1>3. /\ t.op = "finalize" /\ t.step = "next" /\ t.todo = Pending(j) /\ t.shots = image[j]
      /\ t.held = {} /\ t.new = {} /\ t.ok = {} /\ t.left = {} /\ t.blocked = {}
      /\ t.coach = NoCoach /\ t.seen = NoCoach /\ t.mine = NoRows
  BY DEF NoTxn
<1>4. t \in TxnType
  <2>1. Pending(j) \subseteq Rows
    BY DEF Pending
  <2>. QED  BY <1>1, <2>1 DEF TxnType, NoTxn, Table, RowType, NoRows
<1> HIDE DEF t
<1>5. UNCHANGED <<vars, payload, importTables>>
  BY DEF BeginFinalize
<1>6. ASSUME NEW c \in Targets
      PROVE  /\ before'[j][c] \in SUBSET RowType
             /\ before'[j][c] = before[j][c] \/ (live[j] = {} /\ before'[j][c] = {coaches[c]})
  BY <1>1 DEF BeginFinalize, CoachTypeOK, Table
<1>7. before'[j] \in [Targets -> SUBSET RowType]
  BY <1>1 DEF BeginFinalize, CoachTypeOK, Table
<1>8. RecordsInv(j)'
  BY <1>1, <1>5, <1>6 DEF RecordsInv, Undoes, vars, importTables
<1>9. FinalizeInv(j)'
  <2>1. CanFinalize(j)' /\ Pending(j)' = Pending(j)
    BY <1>5 DEF BeginFinalize, CanFinalize, Pending, Exists, vars
  <2>. QED  BY <1>1, <1>2, <1>3, <1>5, <2>1 DEF FinalizeInv, RecordsInv, vars
<1>10. Undoes(j, View(j), Standing(j), txn[j].shots)'
  <2>1. Standing(j)' = live'[j] /\ txn'[j].shots = image'[j]
    BY <1>2, <1>3, <1>5 DEF Standing, importTables
  <2>2. \A c \in Targets : View(j)'[c] = coaches'[c]
    BY <1>2, <1>3 DEF View
  <2>. QED  BY <1>8, <2>1, <2>2 DEF RecordsInv, Undoes
<1>. QED  BY <1>2, <1>3, <1>4, <1>7, <1>8, <1>9, <1>10 DEF CoachJobInv, TxnInv

LEMMA BeginRollbackKeeps ==
    ASSUME CoachIndInv, NEW j \in Jobs, BeginRollback(j)
    PROVE  CoachJobInv(j)' /\ txn'[j] \in TxnType
<1>1. /\ TypeOK /\ CoachTypeOK /\ RecordsInv(j) /\ image[j] \in Table
      /\ live[j] \subseteq Targets /\ undone[j] \subseteq Targets
  BY DEF CoachIndInv, IndInv, CoachJobInv, CoachTypeOK, TypeOK
<1> DEFINE t == [NoTxn EXCEPT !.op = "rollback", !.left = live[j], !.shots = image[j]]
<1>2. txn'[j] = t
  BY <1>1 DEF BeginRollback, Goes, CoachTypeOK
<1>3. /\ t.op = "rollback" /\ t.step = "next" /\ t.left = live[j] /\ t.shots = image[j]
      /\ t.held = {} /\ t.new = {} /\ t.ok = {} /\ t.blocked = {}
  BY DEF NoTxn
<1>4. t \in TxnType
  BY <1>1 DEF TxnType, NoTxn, Table, RowType, NoRows
<1> HIDE DEF t
<1>5. UNCHANGED <<vars, payload, importTables, assigned, before>>
  BY DEF BeginRollback
<1>8. RecordsInv(j)'
  BY <1>1, <1>5, RecordsKept
<1>9. RollbackInv(j)'
  <2>1. CanRollback(j)'
    BY <1>5 DEF BeginRollback, CanRollback, Exists, vars
  <2>. QED  BY <1>1, <1>2, <1>3, <1>5, <2>1 DEF RollbackInv, importTables, vars
<1>10. Undoes(j, View(j), Standing(j), txn[j].shots)'
  <2>1. Standing(j)' = live'[j] /\ txn'[j].shots = image'[j]
    BY <1>2, <1>3, <1>5 DEF Standing, importTables, vars
  <2>2. \A c \in Targets : View(j)'[c] = coaches'[c]
    BY <1>2, <1>3 DEF View
  <2>. QED  BY <1>8, <2>1, <2>2 DEF RecordsInv, Undoes
<1>. QED  BY <1>2, <1>3, <1>4, <1>8, <1>9, <1>10 DEF CoachJobInv, TxnInv

LEMMA AbortKeeps ==
    ASSUME CoachIndInv, NEW j \in Jobs, Abort(j)
    PROVE  CoachJobInv(j)' /\ txn'[j] \in TxnType
<1>1. CoachTypeOK /\ RecordsInv(j)
  BY DEF CoachIndInv, CoachJobInv
<1>2. txn'[j] = NoTxn
  BY <1>1 DEF Abort, Goes, CoachTypeOK
<1>3. RecordsInv(j)'
  BY <1>1, RecordsKept DEF Abort
<1>4. NoTxn \in TxnType /\ NoTxn.op = "none"
  BY DEF NoTxn, TxnType, Table, RowType, NoRows
<1>. QED  BY <1>2, <1>3, <1>4 DEF CoachJobInv, TxnInv

\* A row that gets a validation error is left behind.
LEMMA RejectKeeps ==
    ASSUME CoachIndInv, NEW j \in Jobs, txn[j].op = "finalize", txn[j].todo # {}, Rejects(j),
           UNCHANGED <<vars, payload, importTables, assigned, before>>
    PROVE  CoachJobInv(j)' /\ txn'[j] \in TxnType
<1>1. CoachTypeOK /\ RecordsInv(j) /\ TxnInv(j) /\ txn[j] \in TxnType
  BY DEF CoachIndInv, CoachJobInv, CoachTypeOK
<1>2. txn'[j] = Done(j)
  BY <1>1 DEF Rejects, Goes, CoachTypeOK
<1>3. /\ Done(j) \in TxnType
      /\ Done(j).op = txn[j].op /\ Done(j).step = "next" /\ Done(j).todo \subseteq txn[j].todo
      /\ Done(j).held = txn[j].held /\ Done(j).mine = txn[j].mine
      /\ Done(j).shots = txn[j].shots
      /\ Done(j).ok = txn[j].ok /\ Done(j).new = txn[j].new
  BY <1>1, DoneFacts
<1>6. RecordsInv(j)'
  BY <1>1, RecordsKept
<1>7. FinalizeInv(j)'
  <2>1. CanFinalize(j)' = CanFinalize(j) /\ Pending(j)' = Pending(j)
    BY DEF CanFinalize, Pending, Exists, vars
  <2>. QED  BY <1>1, <1>2, <1>3, <2>1 DEF TxnInv, FinalizeInv, vars
<1>8. Undoes(j, View(j), Standing(j), txn[j].shots)'
  <2>1. Standing(j)' = Standing(j) /\ View(j)' = View(j)
    BY <1>2, <1>3 DEF Standing, View, vars, importTables
  <2>. QED  BY <1>1, <1>2, <1>3, <2>1 DEF TxnInv, Undoes, vars
<1>. QED  BY <1>2, <1>3, <1>6, <1>7, <1>8 DEF CoachJobInv, TxnInv

LEMMA LookUpKeeps ==
    ASSUME CoachIndInv, NEW j \in Jobs, LookUp(j)
    PROVE  CoachJobInv(j)' /\ txn'[j] \in TxnType
<1>1. CoachTypeOK /\ RecordsInv(j) /\ TxnInv(j) /\ txn[j] \in TxnType
  BY DEF CoachIndInv, CoachJobInv, CoachTypeOK
<1>2. /\ UNCHANGED <<vars, payload, importTables, assigned, before>>
      /\ txn[j].op = "finalize" /\ txn[j].todo # {}
  BY DEF LookUp, Runs
<1>3. CASE Invalid(Row(j)) \/ Row(j).email \in ForeignEmails
  BY <1>2, <1>3, RejectKeeps DEF LookUp
<1>4. CASE ~(Invalid(Row(j)) \/ Row(j).email \in ForeignEmails)
  <2> DEFINE found == WithEmail(View(j), Row(j).email)
             c     == Min(found)
             step  == IF Row(j).status = "inactive" THEN "found" ELSE "write"
  <2>1. \/ found = {} /\ Goes(j, [txn[j] EXCEPT !.step = "absent"])
        \/ found # {} /\ Goes(j, [txn[j] EXCEPT !.step = step, !.coach = c,
                                                !.seen = View(j)[c]])
    BY <1>4 DEF LookUp
  <2>2. found # {} => c \in Targets /\ View(j)[c] # NoCoach
    <3>1. found \subseteq Nat /\ found \subseteq Targets
      BY CoachAssumption DEF WithEmail
    <3> HIDE DEF found
    <3>2. found # {} => c \in found
      BY <3>1, MinFacts
    <3>3. found # {} => View(j)[c] # NoCoach
      BY <3>2 DEF WithEmail, found
    <3>. QED  BY <3>1, <3>2, <3>3
  <2>3. \A d \in Targets : View(j)[d] \in RowType
    BY <1>1, ViewOf DEF CoachTypeOK, TxnType, Table
  <2>4. PICK t : /\ txn'[j] = t /\ t \in TxnType
                 /\ t.op = "finalize" /\ t.todo = txn[j].todo
                 /\ t.held = txn[j].held /\ t.mine = txn[j].mine /\ t.shots = txn[j].shots
                 /\ t.ok = txn[j].ok /\ t.new = txn[j].new
                 /\ t.step \in {"found", "write"} => /\ t.coach \in Targets /\ t.seen # NoCoach
                                                     /\ t.seen = View(j)[t.coach]
    <3> HIDE DEF found, c
    <3>1. CASE found = {}
      <4>1. txn'[j] = [txn[j] EXCEPT !.step = "absent"]
        BY <1>1, <2>1, <3>1 DEF Goes, CoachTypeOK
      <4>. QED  BY <1>1, <1>2, <4>1 DEF TxnType
    <3>2. CASE found # {}
      <4> DEFINE t == [txn[j] EXCEPT !.step = step, !.coach = c, !.seen = View(j)[c]]
      <4>1. txn'[j] = t
        BY <1>1, <2>1, <3>2 DEF Goes, CoachTypeOK
      <4>2. c \in Targets /\ View(j)[c] \in RowType /\ View(j)[c] # NoCoach
        BY <2>2, <2>3, <3>2
      <4>3. /\ t.op = txn[j].op /\ t.step = step /\ t.todo = txn[j].todo
            /\ t.held = txn[j].held /\ t.mine = txn[j].mine /\ t.shots = txn[j].shots
            /\ t.ok = txn[j].ok /\ t.new = txn[j].new
            /\ t.coach = c /\ t.seen = View(j)[c]
        BY <1>1 DEF TxnType
      <4>4. t \in TxnType
        BY <1>1, <4>2 DEF TxnType
      <4>. QED
        <5> HIDE DEF t
        <5>. QED  BY <1>2, <4>1, <4>2, <4>3, <4>4
    <3>. QED  BY <3>1, <3>2
  <2>5. RecordsInv(j)'
    BY <1>1, <1>2, RecordsKept
  <2>6. View(j)' = View(j) /\ Row(j)' = Row(j) /\ Standing(j)' = Standing(j)
    BY <1>2, <2>4 DEF View, Row, Standing, vars, importTables
  <2>7. FinalizeInv(j)'
    <3>1. CanFinalize(j)' = CanFinalize(j) /\ Pending(j)' = Pending(j)
      BY <1>2 DEF CanFinalize, Pending, Exists, vars
    <3>2. FinalizeInv(j) /\ ~Invalid(Row(j))'
      BY <1>1, <1>2, <1>4, <2>6 DEF TxnInv, Invalid
    <3>3. t.step \in {"found", "write"} => t.seen = View(j)'[t.coach]
      BY <2>4, <2>6
    <3>. QED  BY <1>2, <2>4, <3>1, <3>2, <3>3 DEF FinalizeInv, vars
  <2>8. Undoes(j, View(j), Standing(j), txn[j].shots)'
    BY <1>1, <1>2, <2>4, <2>6 DEF TxnInv, Undoes, vars
  <2>. QED  BY <2>4, <2>5, <2>7, <2>8 DEF CoachJobInv, TxnInv
<1>. QED  BY <1>3, <1>4

LEMMA CheckTeamsKeeps ==
    ASSUME CoachIndInv, NEW j \in Jobs, CheckTeams(j)
    PROVE  CoachJobInv(j)' /\ txn'[j] \in TxnType
<1>1. CoachTypeOK /\ RecordsInv(j) /\ TxnInv(j) /\ txn[j] \in TxnType
  BY DEF CoachIndInv, CoachJobInv, CoachTypeOK
<1>2. /\ UNCHANGED <<vars, payload, importTables, assigned, before>>
      /\ txn[j].op = "finalize" /\ txn[j].step = "found"
  BY DEF CheckTeams, Runs
<1>3. FinalizeInv(j) /\ txn[j].todo # {}
  BY <1>1, <1>2 DEF TxnInv, FinalizeInv
<1>4. CASE Rejects(j)
  BY <1>2, <1>3, <1>4, RejectKeeps
<1>5. CASE Goes(j, [txn[j] EXCEPT !.step = "write"])
  <2> DEFINE t == [txn[j] EXCEPT !.step = "write"]
  <2>1. txn'[j] = t
    BY <1>1, <1>5 DEF Goes, CoachTypeOK
  <2>2. /\ t.op = txn[j].op /\ t.step = "write" /\ t.todo = txn[j].todo
        /\ t.left = txn[j].left /\ t.coach = txn[j].coach /\ t.seen = txn[j].seen
        /\ t.held = txn[j].held /\ t.mine = txn[j].mine /\ t.shots = txn[j].shots
        /\ t.ok = txn[j].ok /\ t.new = txn[j].new /\ t.blocked = txn[j].blocked
        /\ t \in TxnType
    BY <1>1 DEF TxnType
  <2> HIDE DEF t
  <2>3. RecordsInv(j)'
    BY <1>1, <1>2, RecordsKept
  <2>4. View(j)' = View(j) /\ Row(j)' = Row(j) /\ Standing(j)' = Standing(j)
    BY <1>2, <2>1, <2>2 DEF View, Row, Standing, vars, importTables
  <2>5. FinalizeInv(j)'
    <3>1. CanFinalize(j)' = CanFinalize(j) /\ Pending(j)' = Pending(j)
      BY <1>2 DEF CanFinalize, Pending, Exists, vars
    <3>2. Invalid(Row(j))' = Invalid(Row(j))
      BY <2>4 DEF Invalid
    <3>. QED  BY <1>2, <1>3, <2>1, <2>2, <2>4, <3>1, <3>2 DEF FinalizeInv, vars
  <2>6. Undoes(j, View(j), Standing(j), txn[j].shots)'
    BY <1>1, <1>2, <2>1, <2>2, <2>4 DEF TxnInv, Undoes, vars
  <2>. QED  BY <1>2, <2>1, <2>2, <2>3, <2>5, <2>6 DEF CoachJobInv, TxnInv
<1>. QED  BY <1>4, <1>5 DEF CheckTeams

\* A row applied to coach c keeps what undoing would restore, if the previous
\* payload recorded for a coach new to the ledger is the row he had.
LEMMA AppliesKeeps ==
    ASSUME CoachIndInv, NEW j \in Jobs, txn[j].op = "finalize",
           txn[j].todo # {}, ~Invalid(Row(j)),
           UNCHANGED <<vars, payload, importTables, assigned, before>>,
           NEW c \in Targets, NEW old \in BOOLEAN, NEW shots \in Table,
           \A d \in Targets : d # c => shots[d] = txn[j].shots[d],
           IF c \in live[j] \cup undone[j] \cup txn[j].new THEN shots[c] = txn[j].shots[c]
           ELSE before[j][c] \subseteq {shots[c]},
           Applies(j, c, old, shots)
    PROVE  CoachJobInv(j)' /\ txn'[j] \in TxnType
<1>1. /\ CoachTypeOK /\ RecordsInv(j) /\ txn[j] \in TxnType
      /\ FinalizeInv(j) /\ Undoes(j, View(j), Standing(j), txn[j].shots)
  BY DEF CoachIndInv, CoachJobInv, CoachTypeOK, TxnInv
<1> DEFINE row == [email |-> Row(j).email, status |-> Row(j).status,
                   multi |-> Multi(Row(j), old)]
           r == Min(txn[j].todo)
           mine == [txn[j].mine EXCEPT ![c] = row]
           u == Done(j)
           t == [u EXCEPT !.held = @ \cup {c}, !.mine = mine, !.shots = shots,
                          !.ok = @ \cup {r}, !.new = @ \cup {c}]
<1>2. row \in CoachType /\ row # NoCoach
  BY <1>1, WrittenRow, CoachAssumption
<1>3. r \in txn[j].todo /\ txn[j].todo \subseteq Rows
  BY <1>1, RowFacts DEF TxnType
<1>4. mine \in Table /\ mine[c] = row /\ \A d \in Targets : d # c => mine[d] = txn[j].mine[d]
  <2>. HIDE DEF row
  <2>. QED  BY <1>1, <1>2 DEF TxnType, Table, RowType
<1>5. /\ u \in TxnType
      /\ u.op = txn[j].op /\ u.step = "next" /\ u.todo = txn[j].todo \ {r}
      /\ u.held = txn[j].held /\ u.mine = txn[j].mine
      /\ u.ok = txn[j].ok /\ u.new = txn[j].new
  BY <1>1, DoneFacts
<1>6. txn'[j] = t
  <2> HIDE DEF u
  <2>. QED  BY <1>1, <1>5 DEF Applies, Goes, CoachTypeOK, u
<1> HIDE DEF row, r, mine, u
<1>7. /\ t.op = "finalize" /\ t.step = "next" /\ t.todo \subseteq txn[j].todo
      /\ t.held = txn[j].held \cup {c} /\ t.mine = mine /\ t.shots = shots
      /\ t.ok = txn[j].ok \cup {r} /\ t.new = txn[j].new \cup {c}
  BY <1>5 DEF TxnType
<1>8. t \in TxnType
  <2>1. /\ u.ok \cup {r} \in SUBSET Rows
        /\ u.held \cup {c} \in SUBSET Targets /\ u.new \cup {c} \in SUBSET Targets
    BY <1>3, <1>5 DEF TxnType
  <2>. QED  BY <1>4, <1>5, <2>1 DEF TxnType
<1> HIDE DEF t
<1>9. RecordsInv(j)'
  BY <1>1, RecordsKept
<1>10. FinalizeInv(j)'
  <2>1. CanFinalize(j)' = CanFinalize(j) /\ Pending(j)' = Pending(j)
    BY DEF CanFinalize, Pending, Exists, vars
  <2>2. \A d \in Targets \ (live[j] \cup undone[j] \cup t.new) : shots[d] = NoCoach
    BY <1>1, <1>7 DEF FinalizeInv
  <2>. QED  BY <1>1, <1>3, <1>6, <1>7, <2>1, <2>2 DEF FinalizeInv, vars
<1>11. Undoes(j, View(j), Standing(j), txn[j].shots)'
  <2>1. Standing(j)' = Standing(j) \cup {c}
    BY <1>6, <1>7 DEF Standing, vars
  <2>2. View(j)'[c] # NoCoach /\ \A d \in Targets : d # c => View(j)'[d] = View(j)[d]
    <3>1. \A d \in Targets : View(j)'[d] = IF d \in t.held THEN t.mine[d] ELSE coaches[d]
      BY <1>6 DEF View, importTables
    <3>. QED  BY <1>2, <1>4, <1>7, <3>1, ViewOf
  <2>3. undone'[j] = undone[j] /\ before'[j] = before[j]
    BY DEF vars
  <2>4. ASSUME NEW d \in Targets \ undone[j], d # c
        PROVE  /\ d \notin Standing(j)' => before'[j][d] \subseteq {View(j)'[d]}
               /\ d \in Standing(j)' /\ shots[d] = NoCoach => before'[j][d] \subseteq {NoCoach}
               /\ d \in Standing(j)' /\ shots[d] # NoCoach =>
                      /\ before'[j][d] \subseteq {shots[d]}
                      /\ View(j)'[d] = NoCoach => before'[j][d] = {}
    BY <1>1, <2>1, <2>2, <2>3, <2>4 DEF Undoes
  <2>5. c \notin undone[j] => before'[j][c] \subseteq {shots[c]}
    <3>1. CASE c \in live[j] \cup undone[j] \cup txn[j].new
      <4>1. c \notin undone[j] => c \in Standing(j)
        BY <3>1 DEF Standing
      <4>. QED  BY <1>1, <2>3, <3>1, <4>1 DEF Undoes
    <3>2. CASE c \notin live[j] \cup undone[j] \cup txn[j].new
      BY <2>3, <3>2
    <3>. QED  BY <3>1, <3>2
  <2>. QED  BY <1>6, <1>7, <2>1, <2>2, <2>3, <2>4, <2>5 DEF Undoes
<1>. QED  BY <1>6, <1>7, <1>8, <1>9, <1>10, <1>11 DEF CoachJobInv, TxnInv

LEMMA UpdateCoachKeeps ==
    ASSUME CoachIndInv, NEW j \in Jobs, UpdateCoach(j)
    PROVE  CoachJobInv(j)' /\ txn'[j] \in TxnType
<1> DEFINE c == txn[j].coach
           shots == IF c \in live[j] \cup undone[j] \cup txn[j].new THEN txn[j].shots
                    ELSE [txn[j].shots EXCEPT ![c] = txn[j].seen]
<1>1. /\ CoachTypeOK /\ txn[j] \in TxnType
      /\ txn[j].op = "finalize" /\ txn[j].step = "write"
      /\ UNCHANGED <<vars, payload, importTables, assigned, before>>
  BY DEF CoachIndInv, CoachTypeOK, UpdateCoach, Runs
<1>2. FinalizeInv(j) /\ Undoes(j, View(j), Standing(j), txn[j].shots)
  BY <1>1 DEF CoachIndInv, CoachJobInv, TxnInv
<1>3. /\ txn[j].todo # {} /\ ~Invalid(Row(j))
      /\ c \in Targets /\ txn[j].seen \in CoachType /\ txn[j].seen.multi \in BOOLEAN
  BY <1>1, <1>2 DEF FinalizeInv, TxnType, RowType, CoachType
<1>4. shots \in Table /\ \A d \in Targets : d # c => shots[d] = txn[j].shots[d]
  BY <1>1, <1>3 DEF TxnType, Table, RowType
<1>5. IF c \in live[j] \cup undone[j] \cup txn[j].new THEN shots[c] = txn[j].shots[c]
      ELSE before[j][c] \subseteq {shots[c]}
  <2>1. CASE c \in live[j] \cup undone[j] \cup txn[j].new
    BY <2>1
  <2>2. CASE c \notin live[j] \cup undone[j] \cup txn[j].new
    <3>1. shots[c] = txn[j].seen
      BY <1>1, <1>3, <2>2 DEF TxnType, Table
    <3>2. c \notin Standing(j) /\ c \notin undone[j]
      BY <1>1, <2>2 DEF Standing
    <3>3. before[j][c] \subseteq {View(j)[c]}
      BY <1>2, <1>3, <3>2 DEF Undoes
    <3>4. before[j][c] # {} => txn[j].seen = View(j)[c]
      BY <1>1, <1>2 DEF FinalizeInv
    <3>. QED  BY <2>2, <3>1, <3>3, <3>4
  <2>. QED  BY <2>1, <2>2
<1>6. Applies(j, c, txn[j].seen.multi, shots)
  BY DEF UpdateCoach
<1> HIDE DEF c, shots
<1>. QED  BY <1>1, <1>3, <1>4, <1>5, <1>6, AppliesKeeps

LEMMA InsertCoachKeeps ==
    ASSUME CoachIndInv, NEW j \in Jobs, InsertCoach(j)
    PROVE  CoachJobInv(j)' /\ txn'[j] \in TxnType
<1> DEFINE c == Min(Fresh)
<1>1. /\ CoachTypeOK /\ txn[j] \in TxnType
      /\ txn[j].op = "finalize" /\ txn[j].step = "absent"
      /\ UNCHANGED <<vars, payload, importTables, assigned, before>>
  BY DEF CoachIndInv, CoachTypeOK, InsertCoach, Runs
<1>2. /\ FinalizeInv(j) /\ Undoes(j, View(j), Standing(j), txn[j].shots)
      /\ live[j] \cup undone[j] \subseteq born
  BY <1>1 DEF CoachIndInv, CoachJobInv, TxnInv, RecordsInv
<1>3. txn[j].todo # {} /\ ~Invalid(Row(j)) /\ txn[j].held = txn[j].new
  BY <1>1, <1>2 DEF FinalizeInv
<1>4. c \in Fresh
  <2>1. Fresh \subseteq Nat /\ Fresh # {}
    BY CoachAssumption DEF Fresh, InsertCoach
  <2>. QED  BY <2>1, MinFacts
<1>5. c \in Targets /\ c \notin born /\ c \notin txn[j].held
  BY <1>4 DEF Fresh, LockedBy
<1> HIDE DEF c
<1>6. coaches[c] = NoCoach /\ View(j)[c] = NoCoach
  BY <1>5, ViewOf DEF CoachIndInv
<1>7. c \notin live[j] \cup undone[j] \cup txn[j].new
  BY <1>2, <1>3, <1>5
<1>8. txn[j].shots[c] = NoCoach /\ before[j][c] \subseteq {NoCoach}
  <2>1. c \notin Standing(j)
    BY <1>1, <1>7 DEF Standing
  <2>. QED  BY <1>2, <1>5, <1>6, <1>7, <2>1 DEF FinalizeInv, Undoes
<1>9. Applies(j, c, FALSE, txn[j].shots) /\ txn[j].shots \in Table
  BY <1>1 DEF InsertCoach, c, TxnType
<1>. QED  BY <1>1, <1>3, <1>5, <1>7, <1>8, <1>9, AppliesKeeps

LEMMA CheckRecordKeeps ==
    ASSUME CoachIndInv, NEW j \in Jobs, CheckRecord(j)
    PROVE  CoachJobInv(j)' /\ txn'[j] \in TxnType
<1>1. /\ CoachTypeOK /\ txn[j] \in TxnType /\ RecordsInv(j)
      /\ txn[j].op = "rollback" /\ txn[j].step = "next"
      /\ UNCHANGED <<vars, payload, importTables, assigned, before>>
  BY DEF CoachIndInv, CoachTypeOK, CoachJobInv, CheckRecord, Runs
<1>2. RollbackInv(j) /\ Undoes(j, View(j), Standing(j), txn[j].shots)
  BY <1>1 DEF CoachIndInv, CoachJobInv, TxnInv
<1>3. PICK c \in txn[j].left : KeepsRecord(j, c) \/ TakesUp(j, c)
  BY DEF CheckRecord
<1>4. c \in Targets /\ txn[j].left \subseteq Targets /\ txn[j].blocked \subseteq Targets
      /\ txn[j].left \cap txn[j].blocked = {}
  BY <1>1, <1>2 DEF TxnType, RollbackInv
<1>5. PICK t : /\ txn'[j] = t /\ t \in TxnType
               /\ t.op = "rollback" /\ t.held = txn[j].held /\ t.mine = txn[j].mine
               /\ t.shots = txn[j].shots /\ t.new = txn[j].new
               /\ t.left \cup t.blocked = txn[j].left \cup txn[j].blocked
               /\ t.left \cap t.blocked = {}
               /\ t.step \in {"next", "write"} /\ (t.step = "write" => t.coach \in t.left)
  <2>1. CASE KeepsRecord(j, c)
    <3>1. txn'[j] = [txn[j] EXCEPT !.left = @ \ {c}, !.blocked = @ \cup {c}]
      BY <1>1, <2>1 DEF KeepsRecord, Goes, CoachTypeOK
    <3> DEFINE t == [txn[j] EXCEPT !.left = @ \ {c}, !.blocked = @ \cup {c}]
    <3>2. /\ t.op = txn[j].op /\ t.held = txn[j].held /\ t.mine = txn[j].mine
          /\ t.shots = txn[j].shots /\ t.new = txn[j].new /\ t.step = txn[j].step
          /\ t.left = txn[j].left \ {c} /\ t.blocked = txn[j].blocked \cup {c}
      BY <1>1 DEF TxnType
    <3>3. t \in TxnType
      BY <1>1, <1>4 DEF TxnType
    <3>4. t.left \cup t.blocked = txn[j].left \cup txn[j].blocked /\ t.left \cap t.blocked = {}
      <4>. HIDE DEF t
      <4>. QED  BY <1>3, <1>4, <3>2
    <3>5. txn'[j] = t
      BY <3>1
    <3>. HIDE DEF t
    <3>. QED  BY <1>1, <3>2, <3>3, <3>4, <3>5
  <2>2. CASE TakesUp(j, c)
    <3>1. txn'[j] = [txn[j] EXCEPT !.step = "write", !.coach = c]
      BY <1>1, <2>2 DEF TakesUp, Goes, CoachTypeOK
    <3> DEFINE t == [txn[j] EXCEPT !.step = "write", !.coach = c]
    <3>2. /\ t.op = txn[j].op /\ t.held = txn[j].held /\ t.mine = txn[j].mine
          /\ t.shots = txn[j].shots /\ t.new = txn[j].new /\ t.step = "write"
          /\ t.left = txn[j].left /\ t.blocked = txn[j].blocked /\ t.coach = c
      BY <1>1 DEF TxnType
    <3>3. t \in TxnType
      BY <1>1, <1>4 DEF TxnType
    <3>4. txn'[j] = t
      BY <3>1
    <3>. HIDE DEF t
    <3>. QED  BY <1>1, <1>3, <1>4, <3>2, <3>3, <3>4
  <2>. QED  BY <1>3, <2>1, <2>2
<1>6. RecordsInv(j)'
  BY <1>1, RecordsKept
<1>7. RollbackInv(j)'
  <2>1. CanRollback(j)'
    BY <1>1, <1>2 DEF RollbackInv, CanRollback, Exists, vars
  <2>. QED  BY <1>1, <1>2, <1>5, <2>1 DEF RollbackInv, vars, importTables
<1>8. Undoes(j, View(j), Standing(j), txn[j].shots)'
  <2>1. Standing(j)' = Standing(j) /\ View(j)' = View(j)
    BY <1>1, <1>5 DEF Standing, View, vars, importTables
  <2>. QED  BY <1>1, <1>2, <1>5, <2>1 DEF Undoes, vars
<1>. QED  BY <1>5, <1>6, <1>7, <1>8 DEF CoachJobInv, TxnInv

LEMMA WriteRecordKeeps ==
    ASSUME CoachIndInv, NEW j \in Jobs, WriteRecord(j)
    PROVE  CoachJobInv(j)' /\ txn'[j] \in TxnType
<1> DEFINE c == txn[j].coach
           row == IF View(j)[c] = NoCoach THEN NoCoach ELSE txn[j].shots[c]
           mine == [txn[j].mine EXCEPT ![c] = row]
           t == [txn[j] EXCEPT !.step = "next", !.left = @ \ {c}, !.coach = NoCoach,
                               !.held = @ \cup {c}, !.mine = mine]
<1>1. /\ CoachTypeOK /\ txn[j] \in TxnType /\ RecordsInv(j)
      /\ txn[j].op = "rollback" /\ txn[j].step = "write"
      /\ UNCHANGED <<vars, payload, importTables, assigned, before>>
  BY DEF CoachIndInv, CoachTypeOK, CoachJobInv, WriteRecord, Runs
<1>2. RollbackInv(j) /\ Undoes(j, View(j), Standing(j), txn[j].shots)
  BY <1>1 DEF CoachIndInv, CoachJobInv, TxnInv
<1>3. c \in txn[j].left /\ c \in Targets /\ c \in Standing(j)
  BY <1>1, <1>2 DEF RollbackInv, TxnType, Standing
<1>4. row \in RowType
  BY <1>1, <1>3 DEF TxnType, Table, RowType
<1>5. mine \in Table /\ mine[c] = row /\ \A d \in Targets : d # c => mine[d] = txn[j].mine[d]
  <2>. HIDE DEF row, c
  <2>. QED  BY <1>1, <1>3, <1>4 DEF TxnType, Table
<1>6. txn'[j] = t
  BY <1>1 DEF WriteRecord, Goes, CoachTypeOK, TxnType
<1> HIDE DEF c, row, mine
<1>7. /\ t.op = "rollback" /\ t.step = "next" /\ t.left = txn[j].left \ {c}
      /\ t.held = txn[j].held \cup {c} /\ t.mine = mine /\ t.shots = txn[j].shots
      /\ t.blocked = txn[j].blocked /\ t.new = txn[j].new
  BY <1>1 DEF TxnType
<1>8. t \in TxnType
  <2>1. txn[j].left \ {c} \in SUBSET Targets /\ txn[j].held \cup {c} \in SUBSET Targets
    BY <1>1, <1>3 DEF TxnType
  <2>. QED  BY <1>1, <1>5, <2>1 DEF TxnType, RowType
<1> HIDE DEF t
<1>9. RecordsInv(j)'
  BY <1>1, RecordsKept
<1>10. RollbackInv(j)'
  <2>1. CanRollback(j)'
    BY <1>1, <1>2 DEF RollbackInv, CanRollback, Exists, vars
  <2>2. live'[j] = live[j] /\ image'[j] = image[j]
    BY <1>1 DEF vars, importTables
  <2>3. /\ live[j] = t.left \cup t.blocked \cup t.held
        /\ (t.left \cup t.blocked) \cap t.held = {} /\ t.left \cap t.blocked = {}
    BY <1>2, <1>3, <1>7 DEF RollbackInv
  <2>. QED  BY <1>2, <1>6, <1>7, <2>1, <2>2, <2>3 DEF RollbackInv
<1>11. Undoes(j, View(j), Standing(j), txn[j].shots)'
  <2>1. Standing(j)' = Standing(j) \ {c}
    BY <1>1, <1>2, <1>3, <1>6, <1>7 DEF Standing, RollbackInv
  <2>2. View(j)'[c] = row /\ \A d \in Targets : d # c => View(j)'[d] = View(j)[d]
    <3>1. \A d \in Targets : View(j)'[d] = IF d \in t.held THEN t.mine[d] ELSE coaches[d]
      BY <1>1, <1>6 DEF View, importTables
    <3>. QED  BY <1>3, <1>5, <1>7, <3>1, ViewOf
  <2>3. undone'[j] = undone[j] /\ before'[j] = before[j]
    BY <1>1 DEF vars
  <2>4. ASSUME NEW d \in Targets \ undone[j], d # c
        PROVE  /\ d \notin Standing(j)' => before'[j][d] \subseteq {View(j)'[d]}
               /\ d \in Standing(j)' /\ txn[j].shots[d] = NoCoach =>
                      before'[j][d] \subseteq {NoCoach}
               /\ d \in Standing(j)' /\ txn[j].shots[d] # NoCoach =>
                      /\ before'[j][d] \subseteq {txn[j].shots[d]}
                      /\ View(j)'[d] = NoCoach => before'[j][d] = {}
    BY <1>2, <2>1, <2>2, <2>3, <2>4 DEF Undoes
  <2>5. c \notin undone[j] => before'[j][c] \subseteq {row}
    BY <1>2, <1>3, <2>3 DEF Undoes, row
  <2>. QED  BY <1>6, <1>7, <2>1, <2>2, <2>3, <2>4, <2>5 DEF Undoes
<1>. QED  BY <1>6, <1>7, <1>8, <1>9, <1>10, <1>11 DEF CoachJobInv, TxnInv

\* What a commit makes of the job: the table is what its transaction saw.
LEMMA CommitFinalizeKeeps ==
    ASSUME CoachIndInv, NEW j \in Jobs, CommitFinalize(j)
    PROVE  CoachJobInv(j)' /\ txn'[j] \in TxnType /\ image'[j] \in Table
<1>1. /\ TypeOK /\ CoachTypeOK /\ txn[j] \in TxnType /\ RecordsInv(j)
      /\ txn[j].op = "finalize" /\ live[j] \subseteq Targets /\ undone[j] \subseteq Targets
  BY DEF CoachIndInv, IndInv, TypeOK, CoachTypeOK, CoachJobInv, CommitFinalize, Runs
<1>2. FinalizeInv(j) /\ Undoes(j, View(j), Standing(j), txn[j].shots)
  BY <1>1 DEF CoachIndInv, CoachJobInv, TxnInv
<1>3. /\ txn'[j] = NoTxn /\ image'[j] = txn[j].shots /\ coaches' = View(j)
      /\ born' = born \cup txn[j].new
      /\ before'[j] = [c \in Targets |-> before[j][c]]
  BY <1>1 DEF CommitFinalize, Goes, CoachTypeOK, Touched
<1>4. /\ live'[j] = live[j] \cup (txn[j].new \ undone[j])
      /\ undone'[j] = undone[j] /\ kind'[j] = kind[j]
  BY <1>1 DEF CommitFinalize, FinalizeJob, TypeOK
<1>5. Standing(j) = live[j] \cup txn[j].new
  BY <1>1 DEF Standing
<1>6. RecordsInv(j)'
  <2>1. Undoes(j, coaches, live[j], image[j])'
    BY <1>2, <1>3, <1>4, <1>5 DEF Undoes
  <2>2. live'[j] \cup undone'[j] \subseteq born'
    BY <1>1, <1>3, <1>4 DEF RecordsInv
  <2>3. \A c \in Targets \ (live'[j] \cup undone'[j]) : image'[j][c] = NoCoach
    BY <1>2, <1>3, <1>4 DEF FinalizeInv
  <2>. QED  BY <1>1, <1>4, <2>1, <2>2, <2>3 DEF RecordsInv
<1>7. NoTxn \in TxnType /\ NoTxn.op = "none"
  BY DEF NoTxn, TxnType, Table, RowType, NoRows
<1>. QED  BY <1>1, <1>3, <1>6, <1>7 DEF CoachJobInv, TxnInv, TxnType

LEMMA CommitRollbackKeeps ==
    ASSUME CoachIndInv, NEW j \in Jobs, CommitRollback(j)
    PROVE  CoachJobInv(j)' /\ txn'[j] \in TxnType
<1>1. /\ TypeOK /\ CoachTypeOK /\ txn[j] \in TxnType /\ RecordsInv(j)
      /\ txn[j].op = "rollback" /\ txn[j].left = {}
      /\ live[j] \subseteq Targets /\ undone[j] \subseteq Targets
  BY DEF CoachIndInv, IndInv, TypeOK, CoachTypeOK, CoachJobInv, CommitRollback, Runs
<1>2. RollbackInv(j) /\ Undoes(j, View(j), Standing(j), txn[j].shots)
  BY <1>1 DEF CoachIndInv, CoachJobInv, TxnInv
<1>3. /\ txn'[j] = NoTxn /\ image' = image /\ coaches' = View(j) /\ born' = born
      /\ before'[j] = [c \in Targets |-> before[j][c]]
  BY <1>1 DEF CommitRollback, Goes, CoachTypeOK, Touched
<1>4. /\ live'[j] = txn[j].blocked /\ txn[j].blocked \subseteq live[j]
      /\ undone'[j] = undone[j] \cup (live[j] \ txn[j].blocked) /\ kind'[j] = kind[j]
  BY <1>1 DEF CommitRollback, RollbackJob, TypeOK
<1>5. Standing(j) = txn[j].blocked /\ txn[j].shots = image[j]
  BY <1>1, <1>2 DEF Standing, RollbackInv
<1>6. RecordsInv(j)'
  <2>1. Undoes(j, coaches, live[j], image[j])'
    BY <1>2, <1>3, <1>4, <1>5 DEF Undoes
  <2>2. live'[j] \cup undone'[j] = live[j] \cup undone[j]
    BY <1>4
  <2>. QED  BY <1>1, <1>3, <1>4, <2>1, <2>2 DEF RecordsInv
<1>7. NoTxn \in TxnType /\ NoTxn.op = "none"
  BY DEF NoTxn, TxnType, Table, RowType, NoRows
<1>. QED  BY <1>3, <1>6, <1>7 DEF CoachJobInv, TxnInv

-----------------------------------------------------------------------------
(* The invariant, and what follows.                                         *)

LEMMA OwnTxnKeeps ==
    ASSUME CoachIndInv, NEW j \in Jobs, TxnStep(j)
    PROVE  CoachJobInv(j)' /\ txn'[j] \in TxnType
  BY BeginFinalizeKeeps, LookUpKeeps, CheckTeamsKeeps, UpdateCoachKeeps, InsertCoachKeeps,
     CommitFinalizeKeeps, BeginRollbackKeeps, CheckRecordKeeps, WriteRecordKeeps,
     CommitRollbackKeeps, AbortKeeps DEF TxnStep

\* Which rows the transaction writes, its job's ledger knows or will know.
LEMMA HeldKnown ==
    ASSUME CoachIndInv, NEW j \in Jobs, txn[j].op # "none"
    PROVE  txn[j].held \subseteq born \cup txn[j].new
<1>1. txn[j].op \in {"finalize", "rollback"} /\ CoachJobInv(j)
  BY DEF CoachIndInv, CoachTypeOK, TxnType
<1>2. CASE txn[j].op = "finalize"
  BY <1>1, <1>2 DEF CoachJobInv, TxnInv, FinalizeInv
<1>3. CASE txn[j].op = "rollback"
  BY <1>1, <1>3 DEF CoachJobInv, TxnInv, RollbackInv, RecordsInv
<1>. QED  BY <1>1, <1>2, <1>3

LEMMA ViewTyped ==
    ASSUME CoachTypeOK, NEW j \in Jobs
    PROVE  View(j) \in Table
<1>1. txn[j].mine \in Table /\ coaches \in Table
  BY DEF CoachTypeOK, TxnType
<1>. QED  BY <1>1 DEF View, Table

LEMMA TouchedTyped ==
    ASSUME CoachTypeOK, NEW C, NEW Own
    PROVE  Touched(C, Own) \in [Jobs -> [Targets -> SUBSET RowType]]
  BY DEF CoachTypeOK, Touched

\* The steps of a transaction keep the tables typed and new ids unused.
LEMMA TxnStepGoes ==
    ASSUME NEW i \in Jobs, TxnStep(i)
    PROVE  \E t : Goes(i, t)
<1>1. CASE BeginFinalize(i)  BY <1>1 DEF BeginFinalize
<1>2. CASE LookUp(i)         BY <1>2 DEF LookUp, Rejects
<1>3. CASE CheckTeams(i)     BY <1>3 DEF CheckTeams, Rejects
<1>4. CASE UpdateCoach(i)    BY <1>4 DEF UpdateCoach, Applies
<1>5. CASE InsertCoach(i)    BY <1>5 DEF InsertCoach, Applies
<1>6. CASE CommitFinalize(i) BY <1>6 DEF CommitFinalize
<1>7. CASE BeginRollback(i)  BY <1>7 DEF BeginRollback
<1>8. CASE CheckRecord(i)    BY <1>8 DEF CheckRecord, KeepsRecord, TakesUp
<1>9. CASE WriteRecord(i)    BY <1>9 DEF WriteRecord
<1>10. CASE CommitRollback(i) BY <1>10 DEF CommitRollback
<1>11. CASE Abort(i)         BY <1>11 DEF Abort
<1>. QED  BY <1>1, <1>2, <1>3, <1>4, <1>5, <1>6, <1>7, <1>8, <1>9, <1>10, <1>11 DEF TxnStep

LEMMA TxnTypeStep ==
    ASSUME CoachIndInv, NEW i \in Jobs, TxnStep(i)
    PROVE  CoachTypeOK' /\ \A c \in Targets \ born' : coaches'[c] = NoCoach
<1>1. CoachTypeOK /\ (\A c \in Targets \ born : coaches[c] = NoCoach) /\ txn[i] \in TxnType
  BY DEF CoachIndInv, CoachTypeOK
<1>2. txn'[i] \in TxnType
  BY OwnTxnKeeps
<1>3. txn' = [txn EXCEPT ![i] = txn'[i]]
  <2>1. PICK t : Goes(i, t)
    BY TxnStepGoes
  <2>. QED  BY <1>1, <2>1 DEF Goes, CoachTypeOK
<1>4. txn' \in [Jobs -> TxnType]
  BY <1>1, <1>2, <1>3 DEF CoachTypeOK
<1>5. ASSUME BeginFinalize(i) PROVE CoachTypeOK' /\ coaches' = coaches /\ born' = born
  <2>1. before'[i] \in [Targets -> SUBSET RowType]
    BY <1>5, BeginFinalizeKeeps
  <2>2. before' \in [Jobs -> [Targets -> SUBSET RowType]]
    BY <1>1, <1>5, <2>1 DEF BeginFinalize, CoachTypeOK
  <2>. QED  BY <1>1, <1>4, <1>5, <2>2 DEF BeginFinalize, CoachTypeOK, importTables
<1>6. ASSUME UNCHANGED <<vars, payload, importTables, assigned, before>>
      PROVE  CoachTypeOK' /\ coaches' = coaches /\ born' = born
  BY <1>1, <1>4, <1>6 DEF CoachTypeOK, importTables
<1>7. ASSUME CommitFinalize(i)
      PROVE  CoachTypeOK' /\ \A c \in Targets \ born' : coaches'[c] = NoCoach
  <2>1. /\ coaches' = View(i) /\ born' = born \cup txn[i].new /\ payload' = payload
        /\ image' = [image EXCEPT ![i] = txn[i].shots] /\ assigned' = assigned
        /\ before' = Touched(txn[i].held, {i}) /\ txn[i].op = "finalize"
    BY <1>7 DEF CommitFinalize, Runs
  <2>2. CoachTypeOK'
    <3>1. txn[i].new \subseteq Targets /\ txn[i].shots \in Table
      BY <1>1 DEF TxnType
    <3>2. coaches' \in Table /\ before' \in [Jobs -> [Targets -> SUBSET RowType]]
      BY <1>1, <2>1, ViewTyped, TouchedTyped
    <3>. QED  BY <1>1, <1>4, <2>1, <3>1, <3>2 DEF CoachTypeOK
  <2>3. ASSUME NEW c \in Targets \ born' PROVE coaches'[c] = NoCoach
    <3>1. c \notin txn[i].held
      BY <2>1, <2>3, HeldKnown
    <3>. QED  BY <1>1, <2>1, <2>3, <3>1, ViewOf
  <2>. QED  BY <2>2, <2>3
<1>8. ASSUME CommitRollback(i)
      PROVE  CoachTypeOK' /\ \A c \in Targets \ born' : coaches'[c] = NoCoach
  <2>1. /\ coaches' = View(i) /\ born' = born /\ payload' = payload
        /\ image' = image /\ assigned' = assigned
        /\ before' = Touched(txn[i].held, {i}) /\ txn[i].op = "rollback"
    BY <1>8 DEF CommitRollback, Runs
  <2>2. CoachTypeOK'
    <3>1. coaches' \in Table /\ before' \in [Jobs -> [Targets -> SUBSET RowType]]
      BY <1>1, <2>1, ViewTyped, TouchedTyped
    <3>. QED  BY <1>1, <1>4, <2>1, <3>1 DEF CoachTypeOK
  <2>3. ASSUME NEW c \in Targets \ born' PROVE coaches'[c] = NoCoach
    <3>1. txn[i].new = {}
      BY <2>1 DEF CoachIndInv, CoachJobInv, TxnInv, RollbackInv
    <3>2. c \notin txn[i].held
      BY <2>1, <2>3, <3>1, HeldKnown
    <3>. QED  BY <1>1, <2>1, <2>3, <3>2, ViewOf
  <2>. QED  BY <2>2, <2>3
<1>9. \/ BeginFinalize(i) \/ CommitFinalize(i) \/ CommitRollback(i)
      \/ UNCHANGED <<vars, payload, importTables, assigned, before>>
  BY DEF TxnStep, LookUp, CheckTeams, UpdateCoach, InsertCoach, BeginRollback, CheckRecord,
     WriteRecord, Abort
<1>. QED  BY <1>1, <1>5, <1>6, <1>7, <1>8, <1>9

LEMMA AdminTypeStep ==
    ASSUME CoachIndInv, AdminStep
    PROVE  CoachTypeOK' /\ \A c \in Targets \ born' : coaches'[c] = NoCoach
<1>1. CoachTypeOK /\ (\A c \in Targets \ born : coaches[c] = NoCoach)
  BY DEF CoachIndInv
<1>2. ASSUME NEW c \in Targets, NEW s \in AdminStatuses, UpdateCoachStatus(c, s)
      PROVE  CoachTypeOK' /\ \A d \in Targets \ born' : coaches'[d] = NoCoach
  <2>1. c \in born /\ coaches[c] \in CoachType /\ s \in CoachStatuses
    BY <1>1, <1>2, CoachAssumption DEF UpdateCoachStatus, CoachTypeOK, Table, RowType
  <2>2. [coaches[c] EXCEPT !.status = s] \in CoachType
    BY <2>1 DEF CoachType
  <2>3. coaches' = [coaches EXCEPT ![c] = [coaches[c] EXCEPT !.status = s]]
    BY <1>2 DEF UpdateCoachStatus
  <2>4. coaches' \in Table
    BY <1>1, <2>2, <2>3 DEF CoachTypeOK, Table, RowType
  <2>5. before' \in [Jobs -> [Targets -> SUBSET RowType]]
    BY <1>1, <1>2, TouchedTyped DEF UpdateCoachStatus
  <2>6. CoachTypeOK'
    BY <1>1, <1>2, <2>4, <2>5 DEF UpdateCoachStatus, CoachTypeOK
  <2>7. born' = born
    BY <1>2 DEF UpdateCoachStatus
  <2>. QED  BY <1>1, <2>1, <2>3, <2>6, <2>7 DEF CoachTypeOK, Table
<1>3. ASSUME NEW C \in (SUBSET born) \ {{}}, DeleteCoaches(C)
      PROVE  CoachTypeOK' /\ \A d \in Targets \ born' : coaches'[d] = NoCoach
  <2>1. before' \in [Jobs -> [Targets -> SUBSET RowType]]
    BY <1>1, <1>3, TouchedTyped DEF DeleteCoaches
  <2>. QED  BY <1>1, <1>3, <2>1 DEF DeleteCoaches, CoachTypeOK, Table, RowType
<1>4. ASSUME NEW e \in Emails, UpsertLead(e)
      PROVE  CoachTypeOK' /\ \A d \in Targets \ born' : coaches'[d] = NoCoach
  <2>1. PICK c \in Fresh : /\ born' = born \cup {c}
                           /\ coaches' = [coaches EXCEPT ![c] = NewLead(e)]
                           /\ before'  = Touched({c}, {})
    BY <1>4 DEF UpsertLead
  <2>2. NewLead(e) \in RowType /\ c \in Targets
    BY <2>1 DEF NewLead, RowType, CoachType, CoachStatuses, Fresh
  <2>3. before' \in [Jobs -> [Targets -> SUBSET RowType]]
    BY <1>1, <2>1, TouchedTyped
  <2>4. coaches' \in Table
    BY <1>1, <2>1, <2>2 DEF CoachTypeOK, Table
  <2>. QED  BY <1>1, <1>4, <2>1, <2>2, <2>3, <2>4 DEF UpsertLead, CoachTypeOK, Table
<1>5. ASSUME NEW A \in SUBSET born, TeamsChange(A)
      PROVE  CoachTypeOK' /\ \A d \in Targets \ born' : coaches'[d] = NoCoach
  BY <1>1, <1>5 DEF TeamsChange, CoachTypeOK, importTables
<1>. QED  BY <1>2, <1>3, <1>4, <1>5 DEF AdminStep

\* A coach import with everything beside it takes the steps of an import:
\* what ImportJobs asks of a commit, the transaction made sure of.
LEMMA CoachStepIsJobStep ==
    ASSUME CoachIndInv, [CoachNext]_importVars
    PROVE  [Next]_vars
<1>1. CASE UNCHANGED importVars
  BY <1>1 DEF importVars
<1>2. CASE AdminStep
  BY <1>2 DEF AdminStep, UpdateCoachStatus, DeleteCoaches, UpsertLead, TeamsChange
<1>3. CASE FailStale /\ UNCHANGED coachVars
  BY <1>3 DEF FailStale, Next
<1>4. ASSUME NEW j \in Jobs, JobOnly(j) PROVE Next
  <2>1. JobStep(j)
    BY <1>4, CoachAssumption DEF JobOnly, JobStep
  <2>. QED  BY <2>1 DEF Next
<1>5. ASSUME NEW j \in Jobs, TxnStep(j) PROVE [Next]_vars
  <2>1. txn[j] \in TxnType
    BY DEF CoachIndInv, CoachTypeOK
  <2>2. CASE CommitFinalize(j)
    <3>1. PICK errors \in BOOLEAN : FinalizeJob(j, txn[j].ok, txn[j].new, errors)
      BY <2>2 DEF CommitFinalize
    <3>2. txn[j].ok \in SUBSET Pending(j) /\ txn[j].new \in SUBSET Targets
      BY <2>1, <3>1 DEF FinalizeJob, TxnType
    <3>3. JobStep(j)
      BY <3>1, <3>2 DEF JobStep
    <3>. QED  BY <3>3 DEF Next
  <2>3. CASE CommitRollback(j)
    <3>1. RollbackJob(j, txn[j].blocked) /\ txn[j].blocked \in SUBSET live[j]
      BY <2>3 DEF CommitRollback, RollbackJob
    <3>2. JobStep(j)
      BY <3>1 DEF JobStep
    <3>. QED  BY <3>2 DEF Next
  <2>4. \/ CommitFinalize(j) \/ CommitRollback(j) \/ UNCHANGED vars
    BY <1>5 DEF TxnStep, BeginFinalize, LookUp, CheckTeams, UpdateCoach, InsertCoach,
       BeginRollback, CheckRecord, WriteRecord, Abort
  <2>. QED  BY <2>2, <2>3, <2>4
<1>. QED
  BY <1>1, <1>2, <1>3, <1>4, <1>5 DEF CoachNext, ImportStep, TxnStep

LEMMA CoachInitInv == CoachInit => CoachIndInv
<1> SUFFICES ASSUME CoachInit PROVE CoachIndInv
  OBVIOUS
<1>1. IndInv
  BY InitIndInv DEF CoachInit
<1>2. NoTxn \in TxnType /\ NoTxn.op = "none" /\ NoRows \in Table
  BY DEF NoTxn, TxnType, Table, RowType, NoRows
<1>3. CoachTypeOK
  BY <1>2 DEF CoachInit, CoachTypeOK
<1>4. \A c \in Targets \ born : coaches[c] = NoCoach
  BY DEF CoachInit, NoRows
<1>5. ASSUME NEW j \in Jobs PROVE CoachJobInv(j)
  <2>1. RecordsInv(j)
    BY DEF CoachInit, Init, RecordsInv, Undoes, NoRows
  <2>2. TxnInv(j)
    BY <1>2 DEF CoachInit, TxnInv
  <2>. QED  BY <2>1, <2>2 DEF CoachJobInv
<1>. QED  BY <1>1, <1>3, <1>4, <1>5 DEF CoachIndInv

LEMMA CoachInvariantStep ==
    ASSUME CoachIndInv, [CoachNext]_importVars
    PROVE  CoachIndInv'
<1>1. IndInv'
  BY CoachStepIsJobStep, InvariantStep DEF CoachIndInv
<1>2. CASE UNCHANGED importVars
  <2>1. ASSUME NEW j \in Jobs PROVE Undisturbed(j)
    BY <1>2 DEF Undisturbed, importVars, coachVars, importTables, vars, CoachIndInv,
                CoachJobInv, RecordsInv
  <2>2. CoachTypeOK' /\ \A c \in Targets \ born' : coaches'[c] = NoCoach
    BY <1>2 DEF CoachIndInv, CoachTypeOK, importVars, coachVars, importTables
  <2>. QED  BY <1>1, <2>1, <2>2, UndisturbedKeeps DEF CoachIndInv
<1>3. CASE AdminStep
  BY <1>1, <1>3, AdminUndisturbs, AdminTypeStep, UndisturbedKeeps DEF CoachIndInv
<1>4. ASSUME UNCHANGED coachVars
      PROVE  CoachTypeOK' /\ \A c \in Targets \ born' : coaches'[c] = NoCoach
  BY <1>4 DEF CoachIndInv, CoachTypeOK, coachVars, importTables
<1>5. CASE FailStale /\ UNCHANGED coachVars
  BY <1>1, <1>4, <1>5, FailStaleUndisturbs, UndisturbedKeeps DEF CoachIndInv
<1>6. ASSUME NEW i \in Jobs, JobOnly(i), UNCHANGED coachVars PROVE CoachIndInv'
  BY <1>1, <1>4, <1>6, JobOnlyUndisturbs, UndisturbedKeeps DEF CoachIndInv
<1>7. ASSUME NEW i \in Jobs, TxnStep(i) PROVE CoachIndInv'
  <2>1. CoachTypeOK' /\ \A c \in Targets \ born' : coaches'[c] = NoCoach
    BY <1>7, TxnTypeStep
  <2>2. ASSUME NEW j \in Jobs, j # i PROVE CoachJobInv(j)'
    BY <1>7, <2>2, OtherTxnUndisturbs, UndisturbedKeeps DEF CoachIndInv
  <2>3. CoachJobInv(i)'
    BY <1>7, OwnTxnKeeps
  <2>. QED  BY <1>1, <2>1, <2>2, <2>3 DEF CoachIndInv
<1>. QED
  BY <1>2, <1>3, <1>5, <1>6, <1>7 DEF CoachNext, ImportStep, TxnStep

LEMMA CoachInvariance == CoachSpec => []CoachIndInv
  BY CoachInitInv, CoachInvariantStep, PTL DEF CoachSpec

\* A coach import with everything that happens beside it is an import, of any
\* jobs, files and coaches, so every theorem about jobs holds of it.
THEOREM CoachImportsAreImports == CoachSpec => Spec
<1>1. CoachInit => Init
  BY DEF CoachInit
<1>2. CoachIndInv /\ [CoachNext]_importVars => [Next]_vars
  BY CoachStepIsJobStep
<1>. QED  BY <1>1, <1>2, CoachInvariance, PTL DEF CoachSpec, Spec

\* What a finalizer or a rollback read of its job is still so when it commits,
\* for any number of jobs and however long their files.
THEOREM TransactionsFit == CoachSpec => []CommitsFit
<1>1. ASSUME CoachIndInv, NEW j \in Jobs, Runs(j, "finalize", "next")
      PROVE  /\ CanFinalize(j)
             /\ txn[j].todo \cup txn[j].ok \subseteq Pending(j)
             /\ MayWrite(j, txn[j].ok, txn[j].new)
  <2>1. FinalizeInv(j) /\ kind[j] \in {"coaches", "absent"}
    BY <1>1 DEF CoachIndInv, CoachJobInv, RecordsInv, TxnInv, Runs
  <2>. QED  BY <2>1 DEF FinalizeInv, MayWrite
<1>2. ASSUME CoachIndInv, NEW j \in Jobs, Runs(j, "rollback", "next")
      PROVE  CanRollback(j) /\ txn[j].left \cup txn[j].blocked \subseteq live[j]
  BY <1>2 DEF CoachIndInv, CoachJobInv, TxnInv, RollbackInv, Runs
<1>3. CoachIndInv => CommitsFit
  BY <1>1, <1>2 DEF CommitsFit
<1>. QED  BY <1>3, CoachInvariance, PTL

\* The first application of a job is undone exactly: each coach nobody else
\* wrote meanwhile is put back, for any file, any coaches and any number of
\* jobs applied and rolled back at once.
THEOREM FirstApplicationUndone == CoachSpec => RollbackRestores
<1>1. CoachIndInv /\ [CoachNext]_importVars
        => [\A j \in Jobs : CompletesRollback(j) => Restored(j)]_importVars
  <2> SUFFICES ASSUME CoachIndInv, CoachNext, NEW j \in Jobs, CompletesRollback(j)
               PROVE  Restored(j)
    OBVIOUS
  <2>1. TypeOK /\ live'[j] # live[j] /\ live'[j] = {}
    BY DEF CoachIndInv, IndInv, CompletesRollback
  <2>2. ASSUME Undisturbed(j) PROVE FALSE
    BY <2>1, <2>2 DEF Undisturbed
  <2>3. PICK i \in Jobs : TxnStep(i)
    BY <2>2, AdminUndisturbs, FailStaleUndisturbs, JobOnlyUndisturbs
    DEF CoachNext, ImportStep, TxnStep
  <2>4. i = j
    BY <2>2, <2>3, OtherTxnUndisturbs
  <2>5. CASE UNCHANGED vars
    BY <2>1, <2>5 DEF vars
  <2>6. CASE CommitFinalize(j)
    BY <2>1, <2>6 DEF CommitFinalize, FinalizeJob, TypeOK
  <2>7. CASE CommitRollback(j)
    <3>1. /\ txn[j].op = "rollback" /\ txn[j].left = {} /\ coaches' = View(j)
          /\ RollbackJob(j, txn[j].blocked)
      BY <2>7 DEF CommitRollback, Runs
    <3>2. live'[j] = txn[j].blocked
      BY <2>1, <3>1 DEF RollbackJob, TypeOK
    <3>3. Standing(j) = {}
      BY <2>1, <3>1, <3>2 DEF Standing
    <3>4. Undoes(j, View(j), Standing(j), txn[j].shots)
      BY <3>1 DEF CoachIndInv, CoachJobInv, TxnInv
    <3>. QED  BY <3>1, <3>3, <3>4 DEF Undoes, Restored
  <2>8. \/ CommitFinalize(j) \/ CommitRollback(j) \/ UNCHANGED vars
    BY <2>3, <2>4 DEF TxnStep, BeginFinalize, LookUp, CheckTeams, UpdateCoach, InsertCoach,
       BeginRollback, CheckRecord, WriteRecord, Abort
  <2>. QED  BY <2>5, <2>6, <2>7, <2>8
<1>. QED  BY <1>1, CoachInvariance, PTL DEF CoachSpec, RollbackRestores
=============================================================================
