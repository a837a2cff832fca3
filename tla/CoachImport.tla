---------------------------- MODULE CoachImport ----------------------------
(***************************************************************************)
(* What a coach CSV import does to the coaches table, statement by         *)
(* statement, amid everything else that writes that table.                 *)
(*                                                                         *)
(* The module extends ImportJobs: its targets are the coach ids.  The      *)
(* finalizer and the rollback of a job hold the job's row (FOR UPDATE),    *)
(* but their transaction is READ COMMITTED and takes no lock on coaches or *)
(* teams before it writes: each look-up sees what others have committed by *)
(* then, overlaid by the rows the transaction itself has written, and what *)
(* it looked up may be stale when it writes.                               *)
(*                                                                         *)
(* Of the other sessions only what they commit matters here; their own     *)
(* checks, which the steps of an import may invalidate in turn, are those  *)
(* of CoachAssignment.                                                     *)
(***************************************************************************)
EXTENDS ImportJobs, Integers, FiniteSetsExt

CONSTANTS
    Emails,         \* normalised (lower-case) e-mail addresses
    ForeignEmails,  \* addresses of coaches of other organizations
    Files,          \* files that may be imported: the payload of each row
    AdminStatuses,  \* statuses the admin sets by hand (a bound)
    NoCoach         \* no row of coaches, no previous payload

CoachStatuses == {"active", "pending-confirmation", "inactive", "interested"}
Importable    == {"active", "pending-confirmation", "inactive"}

\* A payload without e-mail or name stands for any row the finalizer calls
\* invalid, as does one whose status it does not import.
PayloadType ==
    [email : Emails \cup {"missing"}, status : CoachStatuses, multi : {"yes", "no", "blank"}]
CoachType == [email : Emails, status : CoachStatuses, multi : BOOLEAN]
RowType   == CoachType \cup {NoCoach}
Table     == [Targets -> RowType]

ASSUME CoachAssumption ==
    /\ Targets \subseteq Nat
    /\ Rows \subseteq Nat
    /\ Files \subseteq [Rows -> PayloadType]
    /\ ForeignEmails \subseteq Emails
    /\ AdminStatuses \subseteq CoachStatuses
    /\ "coaches" \in Kinds
    /\ NoCoach \notin CoachType

VARIABLES
    payload,    \* normalized_payload of the rows of a job's file
    coaches,    \* the coaches table, by id
    born,       \* ids given out so far
    assigned,   \* coaches some team names as its head or an assistant
    image,      \* previous_payload of a job's 'updated' ledger records, by id;
                \* a record without one is an 'inserted' record
    txn,        \* the transaction that applies a job or rolls it back
    before      \* per job and coach, {the row its application started from},
                \* or {} once anyone else wrote it (an observer, not code)

importTables == <<coaches, born, image>>
coachVars    == <<payload, importTables, assigned, txn, before>>
importVars   == <<vars, coachVars>>

-----------------------------------------------------------------------------
(* Transactions.                                                            *)

NoRows == [c \in Targets |-> NoCoach]

NoTxn ==
    [op |-> "none", step |-> "next",
     todo |-> {},           \* rows of the cursor still to be applied
     left |-> {},           \* ledger records still to be undone
     coach |-> NoCoach,     \* the coach looked up,
     seen |-> NoCoach,      \* and his row as it was then
     held |-> {},           \* coaches written, whose rows are locked,
     mine |-> NoRows,       \* and the rows written
     shots |-> NoRows,      \* previous payloads in the ledger
     ok |-> {}, new |-> {}, \* rows applied, coaches they wrote
     blocked |-> {}]        \* records a rollback keeps

TxnType ==
    [op : {"none", "finalize", "rollback"}, step : {"next", "found", "absent", "write"},
     todo : SUBSET Rows, left : SUBSET Targets,
     coach : Targets \cup {NoCoach}, seen : RowType,
     held : SUBSET Targets, mine : Table, shots : Table,
     ok : SUBSET Rows, new : SUBSET Targets, blocked : SUBSET Targets]

Idle(j)           == txn[j].op = "none"
Runs(j, op, step) == txn[j].op = op /\ txn[j].step = step
Goes(j, t)        == txn' = [txn EXCEPT ![j] = t]

\* The coaches as the statements of job j's transaction see them
View(j) == [c \in Targets |-> IF c \in txn[j].held THEN txn[j].mine[c] ELSE coaches[c]]

\* Row locks last until the transaction ends.
LockedBy(i) == txn[i].held
Unlocked(C) == \A i \in Jobs : C \cap LockedBy(i) = {}
RowFree(j, c) == \A i \in Jobs \ {j} : c \notin LockedBy(i)

WithEmail(table, e) == {c \in Targets : table[c] # NoCoach /\ table[c].email = e}

\* No other transaction is about to commit or remove a coach of this address:
\* an insert would wait for it to end.
AddressFree(j, e) ==
    \A i \in Jobs \ {j} :
        LockedBy(i) \cap (WithEmail(coaches, e) \cup WithEmail(txn[i].mine, e)) = {}

Fresh == Targets \ (born \cup UNION {LockedBy(i) : i \in Jobs})

\* Coaches C were written by others than the transaction of a job in Own.
Touched(C, Own) ==
    [i \in Jobs |-> [c \in Targets |-> IF i \notin Own /\ c \in C THEN {} ELSE before[i][c]]]

CoachTypeOK ==
    /\ payload  \in [Jobs -> Files]
    /\ coaches  \in Table
    /\ born     \subseteq Targets
    /\ assigned \subseteq Targets
    /\ image    \in [Jobs -> Table]
    /\ txn      \in [Jobs -> TxnType]
    /\ before   \in [Jobs -> [Targets -> SUBSET RowType]]

CoachInit ==
    /\ Init
    /\ payload  \in [Jobs -> Files]
    /\ coaches  = NoRows
    /\ born     = {}
    /\ assigned = {}
    /\ image    = [j \in Jobs |-> NoRows]
    /\ txn      = [j \in Jobs |-> NoTxn]
    /\ before   = [j \in Jobs |-> [c \in Targets |-> {}]]

-----------------------------------------------------------------------------
(* Apply: the pending rows in the order of the file.                        *)

BeginFinalize(j) ==
    /\ Idle(j)
    /\ CanFinalize(j)
    /\ Goes(j, [NoTxn EXCEPT !.op = "finalize", !.todo = Pending(j), !.shots = image[j]])
    /\ before' = IF live[j] = {} THEN [before EXCEPT ![j] = [c \in Targets |-> {coaches[c]}]]
                 ELSE before
    /\ UNCHANGED <<vars, payload, importTables, assigned>>

Row(j) == payload[j][Min(txn[j].todo)]

\* On to the next row
Done(j) == [txn[j] EXCEPT !.step = "next", !.todo = @ \ {Min(@)},
                          !.coach = NoCoach, !.seen = NoCoach]

Invalid(p) == p.email = "missing" \/ p.status \notin Importable

\* The row gets a validation error instead of applied_at.
Rejects(j) == Goes(j, Done(j))

LookUp(j) ==
    /\ Runs(j, "finalize", "next")
    /\ txn[j].todo # {}
    /\ IF Invalid(Row(j)) \/ Row(j).email \in ForeignEmails THEN Rejects(j)
       ELSE LET found == WithEmail(View(j), Row(j).email)
                c     == Min(found)
            IN  IF found = {} THEN Goes(j, [txn[j] EXCEPT !.step = "absent"])
                ELSE Goes(j, [txn[j] EXCEPT
                         !.step = IF Row(j).status = "inactive" THEN "found" ELSE "write",
                         !.coach = c, !.seen = View(j)[c]])
    /\ UNCHANGED <<vars, payload, importTables, assigned, before>>

\* A coach some team names is not made inactive.
CheckTeams(j) ==
    /\ Runs(j, "finalize", "found")
    /\ IF txn[j].coach \in assigned THEN Rejects(j)
       ELSE Goes(j, [txn[j] EXCEPT !.step = "write"])
    /\ UNCHANGED <<vars, payload, importTables, assigned, before>>

Multi(p, old) == IF p.multi = "blank" THEN old ELSE p.multi = "yes"

\* Row r is applied to coach c; shots are the previous payloads then.
Applies(j, c, old, shots) ==
    LET p == Row(j) IN
    Goes(j, [Done(j) EXCEPT
        !.held  = @ \cup {c},
        !.mine  = [@ EXCEPT ![c] = [email |-> p.email, status |-> p.status,
                                    multi |-> Multi(p, old)]],
        !.shots = shots, !.ok = @ \cup {Min(txn[j].todo)}, !.new = @ \cup {c}])

\* Mutant: ON CONFLICT DO UPDATE, the last previous payload wins.
UpdateCoachOverwriting(j) ==
    /\ Runs(j, "finalize", "write")
    /\ LET c == txn[j].coach IN
           /\ RowFree(j, c)
           /\ View(j)[c] # NoCoach
           /\ Applies(j, c, txn[j].seen.multi, [txn[j].shots EXCEPT ![c] = txn[j].seen])
    /\ UNCHANGED <<vars, payload, importTables, assigned, before>>

\* What was seen, not what the update finds, fills in blanks and becomes the
\* previous payload; a coach already in the ledger keeps the record he has
\* (ON CONFLICT DO NOTHING).  For a coach deleted since he was seen the ledger
\* has no target_id: only Abort is left.
UpdateCoach(j) ==
    /\ Runs(j, "finalize", "write")
    /\ LET c == txn[j].coach IN
           /\ RowFree(j, c)
           /\ View(j)[c] # NoCoach
           /\ Applies(j, c, txn[j].seen.multi,
                  IF c \in live[j] \cup undone[j] \cup txn[j].new THEN txn[j].shots
                  ELSE [txn[j].shots EXCEPT ![c] = txn[j].seen])
    /\ UNCHANGED <<vars, payload, importTables, assigned, before>>

\* Where somebody committed the address since it was looked up, the unique
\* index leaves only Abort.
InsertCoach(j) ==
    /\ Runs(j, "finalize", "absent")
    /\ AddressFree(j, Row(j).email)
    /\ WithEmail(coaches, Row(j).email) = {}
    /\ Fresh # {}
    /\ Applies(j, Min(Fresh), FALSE, txn[j].shots)
    /\ UNCHANGED <<vars, payload, importTables, assigned, before>>

CommitFinalize(j) ==
    /\ Runs(j, "finalize", "next")
    /\ txn[j].todo = {}
    /\ \E errors \in BOOLEAN : FinalizeJob(j, txn[j].ok, txn[j].new, errors)
    /\ coaches' = View(j)
    /\ born'    = born \cup txn[j].new
    /\ image'   = [image EXCEPT ![j] = txn[j].shots]
    /\ before'  = Touched(txn[j].held, {j})
    /\ Goes(j, NoTxn)
    /\ UNCHANGED <<payload, assigned>>

\* An error, a deadlock with another session or a lost connection: nothing of
\* the transaction stays.
Abort(j) ==
    /\ ~Idle(j)
    /\ Goes(j, NoTxn)
    /\ UNCHANGED <<vars, payload, importTables, assigned, before>>

-----------------------------------------------------------------------------
(* Roll back: the live records one by one.  Each is about another coach, so *)
(* their order (the last transaction's come first) is left open.            *)

Inserted(j, c) == txn[j].shots[c] = NoCoach

BeginRollback(j) ==
    /\ Idle(j)
    /\ CanRollback(j)
    /\ Goes(j, [NoTxn EXCEPT !.op = "rollback", !.left = live[j], !.shots = image[j]])
    /\ UNCHANGED <<vars, payload, importTables, assigned, before>>

KeepsRecord(j, c) == Goes(j, [txn[j] EXCEPT !.left = @ \ {c}, !.blocked = @ \cup {c}])
TakesUp(j, c)     == Goes(j, [txn[j] EXCEPT !.step = "write", !.coach = c])

\* An inserted coach some team names is kept, and his record with him.
CheckRecord(j) ==
    /\ Runs(j, "rollback", "next")
    /\ \E c \in txn[j].left :
           IF Inserted(j, c) /\ c \in assigned THEN KeepsRecord(j, c) ELSE TakesUp(j, c)
    /\ UNCHANGED <<vars, payload, importTables, assigned, before>>

\* DELETE, or UPDATE to the previous payload, which finds no row where the
\* coach is gone; the record is stamped rolled_back_at all the same.
WriteRecord(j) ==
    /\ Runs(j, "rollback", "write")
    /\ LET c == txn[j].coach IN
           /\ RowFree(j, c)
           /\ Goes(j, [txn[j] EXCEPT
                  !.step = "next", !.left = @ \ {c}, !.coach = NoCoach,
                  !.held = @ \cup {c},
                  !.mine = [@ EXCEPT ![c] = IF View(j)[c] = NoCoach THEN NoCoach
                                            ELSE txn[j].shots[c]]])
    /\ UNCHANGED <<vars, payload, importTables, assigned, before>>

\* A team that came to name a deleted coach meanwhile loses its head by the
\* foreign key and keeps him as an assistant (TeamsChange).
CommitRollback(j) ==
    /\ Runs(j, "rollback", "next")
    /\ txn[j].left = {}
    /\ RollbackJob(j, txn[j].blocked)
    /\ coaches' = View(j)
    /\ before'  = Touched(txn[j].held, {j})
    /\ Goes(j, NoTxn)
    /\ UNCHANGED <<payload, born, image, assigned>>

-----------------------------------------------------------------------------
(* What other sessions commit; rows an import has written they wait for.    *)

\* admin_update_coach_status, whose check CoachAssignment has
UpdateCoachStatus(c, s) ==
    /\ coaches[c] # NoCoach /\ coaches[c].status # s
    /\ Unlocked({c})
    /\ coaches' = [coaches EXCEPT ![c].status = s]
    /\ before'  = Touched({c}, {})
    /\ UNCHANGED <<vars, payload, born, assigned, image, txn>>

\* admin_delete_coaches
DeleteCoaches(C) ==
    /\ \E c \in C : coaches[c] # NoCoach
    /\ Unlocked(C)
    /\ coaches'  = [c \in Targets |-> IF c \in C THEN NoCoach ELSE coaches[c]]
    /\ assigned' = assigned \ C
    /\ before'   = Touched(C, {})
    /\ UNCHANGED <<vars, payload, born, image, txn>>

NewLead(e) == [email |-> e, status |-> "interested", multi |-> FALSE]

\* upsert_coach_leads, one lead at a time: an address already taken only gets
\* a new timestamp
UpsertLead(e) ==
    /\ e \notin ForeignEmails
    /\ WithEmail(coaches, e) = {}
    /\ \A j \in Jobs : WithEmail(txn[j].mine, e) \cap LockedBy(j) = {}
    /\ \E c \in Fresh :
           /\ c = Min(Fresh)
           /\ born'    = born \cup {c}
           /\ coaches' = [coaches EXCEPT ![c] = NewLead(e)]
           /\ before'  = Touched({c}, {})
    /\ UNCHANGED <<vars, payload, assigned, image, txn>>

\* admin_assign_team_coach, persist_team_schedule: both check the coaches they
\* write some statements earlier, so they may write one deleted since.
TeamsChange(A) ==
    /\ assigned' = A
    /\ UNCHANGED <<vars, payload, importTables, txn, before>>

-----------------------------------------------------------------------------
\* Mutant: the finalizer reads its job without FOR UPDATE.
RowLockNotTaken(j) == TRUE

\* Every call that writes the job's row, or refers to it by a foreign key,
\* waits for the transaction that holds it.  A chunk's DELETE of staged rows
\* does neither; that no chunk is on its way when a job is applied is what
\* ImportClient has of the tabs (ClientInv, AppliedRowsStay).
JobRowFree(j) == Idle(j)

\* Steps of the job that leave coaches and ledger alone.
JobOnly(j) ==
    \/ HeartbeatExpires(j)
    \/ \E R \in (SUBSET Rows) \ {{}} : BeginUpload(j, R)
    \/ AbortUpload(j)
    \/ /\ JobRowFree(j)
       /\ \/ CreateJob(j, "coaches")
          \/ UpdateProgress(j)
          \/ FailJob(j)
          \/ MarkReady(j)
          \/ CancelReady(j)
          \/ DeleteStaged(j)
          \/ InsertStaged(j)

FailStale == (\A j \in StaleJobs : JobRowFree(j)) /\ FailStaleJobs

ImportStep(j) ==
    \/ JobOnly(j) /\ UNCHANGED coachVars
    \/ BeginFinalize(j) \/ LookUp(j) \/ CheckTeams(j) \/ UpdateCoach(j) \/ InsertCoach(j)
    \/ CommitFinalize(j)
    \/ BeginRollback(j) \/ CheckRecord(j) \/ WriteRecord(j) \/ CommitRollback(j)
    \/ Abort(j)

AdminStep ==
    \/ \E c \in Targets, s \in AdminStatuses : UpdateCoachStatus(c, s)
    \/ \E C \in (SUBSET born) \ {{}} : DeleteCoaches(C)
    \/ \E e \in Emails : UpsertLead(e)
    \/ \E A \in SUBSET born : TeamsChange(A)

CoachNext ==
    \/ \E j \in Jobs : ImportStep(j)
    \/ FailStale /\ UNCHANGED coachVars
    \/ AdminStep

CoachSpec == CoachInit /\ [][CoachNext]_importVars

-----------------------------------------------------------------------------
(* Safety.                                                                  *)

\* What a finalizer or a rollback read of its job when it began is still so
\* when it commits, whatever uploads, failures and clean-ups came meanwhile:
\* the job has not failed, the rows it applies are still pending, every row
\* applied wrote a coach, and the records it undoes are those still live.
CommitsFit ==
    \A j \in Jobs :
        /\ Runs(j, "finalize", "next") =>
               /\ CanFinalize(j)
               /\ txn[j].todo \cup txn[j].ok \subseteq Pending(j)
               /\ MayWrite(j, txn[j].ok, txn[j].new)
        /\ Runs(j, "rollback", "next") =>
               /\ CanRollback(j)
               /\ txn[j].left \cup txn[j].blocked \subseteq live[j]

\* A rollback that completes puts back, for each coach nobody else wrote since
\* the first application began, the row it began with, provided no earlier
\* rollback had stamped his record.
Restored(j) == \A c \in Targets \ undone[j] : before[j][c] \subseteq {coaches'[c]}

CompletesRollback(j) == live[j] # {} /\ live'[j] = {}

\* The first application of a job is undone exactly, coach by coach, however
\* often its file names one and whatever happens to the others meanwhile.
RollbackRestores == [][\A j \in Jobs : CompletesRollback(j) => Restored(j)]_importVars
=============================================================================
