---------------------------- MODULE FieldImport ----------------------------
(***************************************************************************)
(* What a field CSV import does to locations, fields, field halves and     *)
(* slots: finalize_field_import_job finds or creates a record of each      *)
(* level for every row, rollback_field_import_job takes them away again    *)
(* from the slots up and keeps what is in use, amid the admin's facility   *)
(* calls and the assignments of practices and games.                       *)
(*                                                                         *)
(* A record is [table, parent, half, name, val]: a slot's parent is its    *)
(* field, its name the time it is for; val says who last wrote the other   *)
(* columns.  The job side is ImportJobs, which this module implements: its *)
(* ledger keeps here the operation and the previous payload of a record.   *)
(***************************************************************************)
EXTENDS Integers, FiniteSets, FiniteSetsExt, SequencesExt

CONSTANTS
    Jobs,
    Rows,       \* source row numbers, in the order of the file
    MaxId,      \* ids are 1..MaxId, given out in order (a bound)
    File,       \* normalized_payload of each row of a job
    Names,      \* names the admin gives to fields
    Seeds,      \* tables the organization may start from
    Nil

Targets == 1..MaxId
Tables  == {"locations", "fields", "field_subunits", "practice_slots", "game_slots"}
Slots   == {"practice_slots", "game_slots"}

VARIABLES
    status, kind, stale, rows, upload,  \* as in ImportJobs
    ledger,     \* import_application_records of a job, by target id
    written,    \* targets holding a write of the job not rolled back
    rec,        \* the five tables, by id
    ids,        \* ids given out so far
    inUse,      \* slots with assignments or games
    before      \* {the tables a job's application started from}, or {} once
                \* something else wrote them (an observer, not code)

jobVars    == <<status, kind, stale, rows, upload>>
ledgerVars == <<ledger, written>>
domain     == <<rec, ids, inUse>>
fieldVars  == <<jobVars, ledgerVars, domain, before>>

\* UNIQUE (organization_id, name), (location_id, name) and (field_id, label).
SameKey(a, b) == /\ a.table = b.table /\ a.table \notin Slots
                 /\ a.parent = b.parent /\ a.name = b.name

\* Where the foreign keys and the writers of the tables put a record.
InPlace(r, a) ==
    LET Is(i, table) == i \in DOMAIN r /\ r[i].table = table
    IN  \/ a.table = "locations" /\ a.parent = Nil /\ a.half = Nil
        \/ a.table = "fields" /\ Is(a.parent, "locations") /\ a.half = Nil
        \/ a.table = "field_subunits" /\ Is(a.parent, "fields") /\ a.half = Nil
        \/ /\ a.table \in Slots /\ Is(a.parent, "fields")
           /\ a.half # Nil => Is(a.half, "field_subunits") /\ r[a.half].parent = a.parent

WellFormed(r) ==
    /\ \A i \in DOMAIN r : InPlace(r, r[i])
    /\ \A i, k \in DOMAIN r : SameKey(r[i], r[k]) => i = k

\* The organization starts from tables the schema and the imports could have
\* left: in particular the half of a slot is one of the slot's field.
ASSUME FieldAssumption ==
    /\ Rows \subseteq Nat \ {0} /\ Rows # {} /\ IsFiniteSet(Rows)
    /\ MaxId \in Nat /\ Nil \notin Nat
    /\ \A j \in Jobs, r \in Rows : File[j][r].slot \in Slots
    /\ \A seed \in Seeds :
           \E n \in 0 .. MaxId : seed = [i \in 1 .. n |-> seed[i]] /\ WellFormed(seed)

Live(j)   == {t \in DOMAIN ledger[j] : ledger[j][t].live}
Undone(j) == DOMAIN ledger[j] \ Live(j)

Abstract == INSTANCE ImportJobs WITH
    Kinds  <- {"fields"},
    live   <- [j \in Jobs |-> Live(j)],
    undone <- [j \in Jobs |-> Undone(j)]

\* A table after the record with id i was inserted or overwritten
Put(r, i, new) == [k \in DOMAIN r \cup {i} |-> IF k = i THEN new ELSE r[k]]

Of(t) == {i \in DOMAIN rec : rec[i].table = t}

Children(r, D) == {i \in DOMAIN r : r[i].parent \in D \/ r[i].half \in D}

\* Mutant: foreign keys without ON DELETE CASCADE.
WithoutOrphaning(r, D) == [i \in DOMAIN r \ D |-> r[i]]

\* A delete, with what the foreign keys cascade to.
Without(r, D) ==
    LET D1 == D \cup Children(r, D)
        D2 == D1 \cup Children(r, D1)
    IN  [i \in DOMAIN r \ D2 |-> r[i]]

\* What a row asks for is found by all it names.
SameRecord(a, b) == /\ a.table = b.table /\ a.parent = b.parent
                    /\ a.half = b.half /\ a.name = b.name

\* A record that may be written over id i: its parents exist and no other
\* record has its key.
Fits(r, i, new) ==
    /\ {new.parent, new.half} \subseteq DOMAIN r \cup {Nil}
    /\ \A k \in DOMAIN r \ {i} : ~SameKey(r[k], new)

Init ==
    /\ status  = [j \in Jobs |-> "absent"]
    /\ kind    = [j \in Jobs |-> "absent"]
    /\ stale   = [j \in Jobs |-> FALSE]
    /\ rows    = [j \in Jobs |-> [r \in Rows |-> "none"]]
    /\ upload  = [j \in Jobs |-> Abstract!NoUpload]
    /\ ledger  = [j \in Jobs |-> <<>>]
    /\ written = [j \in Jobs |-> {}]
    /\ rec     \in Seeds
    /\ ids     = Cardinality(DOMAIN rec)
    /\ inUse   = {}
    /\ before  = [j \in Jobs |-> {}]

\* What becomes of before when something else, or job j, writes the tables.
Forgotten     == [j \in Jobs |-> {}]
OnlyWriter(j) == [i \in Jobs |-> IF i = j THEN before[j] ELSE {}]

-----------------------------------------------------------------------------
(* Apply.  s is the state of the loop: tables, ids, ledger, targets written *)
(* and, in at, the record found or made last.                               *)

Entry(op, table, prev) == [op |-> op, table |-> table, prev |-> prev, live |-> TRUE]

\* Mutant: ON CONFLICT DO UPDATE, the last previous payload wins.
RecordedLast(l, t, e) == Put(l, t, e)

\* ON CONFLICT DO NOTHING: a target keeps the record it has, even one that was
\* rolled back.
Recorded(l, t, e) == IF t \in DOMAIN l THEN l ELSE Put(l, t, e)

Found(s, new) == {i \in DOMAIN s.rec : SameRecord(s.rec[i], new)}

Write(s, at, n, new, entry) ==
    [rec |-> Put(s.rec, at, new), ids |-> n, ledger |-> Recorded(s.ledger, at, entry),
     new |-> s.new \cup {at}, at |-> at]

Insert(s, new) ==
    Write(s, s.ids + 1, s.ids + 1, new, Entry("inserted", new.table, Nil))

\* SELECT ... LIMIT 1, else INSERT.
FindOrInsert(s, new) ==
    IF Found(s, new) = {} THEN Insert(s, new)
    ELSE [s EXCEPT !.at = Min(Found(s, new))]

\* The same for a row with columns for the record: one that is found is updated.
Upsert(s, new) ==
    LET old == Min(Found(s, new))
    IN  IF Found(s, new) = {} THEN Insert(s, new)
        ELSE Write(s, old, s.ids, new, Entry("updated", new.table, s.rec[old]))

\* A half is named by practice slots only.
ApplyRow(j, s, r) ==
    LET p     == File[j][r]
        New(t, parent, half, name) ==
            [table |-> t, parent |-> parent, half |-> half, name |-> name, val |-> j]
        park  == New("locations", Nil, Nil, p.location)
        place == IF p.details THEN Upsert(s, park) ELSE FindOrInsert(s, park)
        field == Upsert(place, New("fields", place.at, Nil, p.field))
        part  == IF p.half = Nil THEN field
                 ELSE FindOrInsert(field, New("field_subunits", field.at, Nil, p.half))
        half  == IF p.half # Nil /\ p.slot = "practice_slots" THEN part.at ELSE Nil
    IN  Upsert(part, New(p.slot, field.at, half, p.time))

PendingRows(j) == {r \in Rows : rows[j][r] = "staged"}
Applied(j)     == {r \in PendingRows(j) : File[j][r].valid}

Outcome(j) ==
    LET start == [rec |-> rec, ids |-> ids, ledger |-> ledger[j], new |-> {}, at |-> Nil]
        after[r \in 0 .. Max(Rows)] ==
            IF r = 0 THEN start
            ELSE IF r \in Applied(j) THEN ApplyRow(j, after[r - 1], r)
            ELSE after[r - 1]
    IN  after[Max(Rows)]

\* The status of a failed job is all that is consulted.
FinalizeFields(j, errors) ==
    /\ status[j] \notin {"absent", "failed"}
    /\ LET o == Outcome(j) IN
       /\ o.ids <= MaxId
       /\ rec'     = o.rec
       /\ ids'     = o.ids
       /\ ledger'  = [ledger EXCEPT ![j] = o.ledger]
       /\ written' = [written EXCEPT ![j] = @ \cup o.new]
       /\ rows'    = [rows EXCEPT ![j] =
                         [r \in Rows |-> IF r \in Applied(j) THEN "applied"
                                         ELSE IF r \in PendingRows(j) THEN "rejected"
                                         ELSE rows[j][r]]]
       /\ status'  = [status EXCEPT ![j] =
                         IF errors \/ Applied(j) # PendingRows(j)
                         THEN "completed_with_warnings" ELSE "completed"]
    /\ before' = [OnlyWriter(j) EXCEPT ![j] = IF ledger[j] = <<>> THEN {rec}
                                              ELSE IF Undone(j) = {} THEN @ ELSE {}]
    /\ UNCHANGED <<kind, stale, upload, inUse>>

-----------------------------------------------------------------------------
(* Roll back.                                                               *)

\* Mutant: locations first.
TopDown == <<"locations", "fields", "field_subunits", "practice_slots", "game_slots">>

RollbackOrder == <<"game_slots", "practice_slots", "field_subunits", "fields", "locations">>

\* Mutant: halves are thought to go with their field.
NeedsUnlessHalf(r, t) == CASE r[t].table \in Slots       -> t \in inUse
                           [] r[t].table = "field_subunits" -> FALSE
                           [] OTHER -> Children(r, {t}) # {}

\* A slot is kept if something is assigned to it, a half or a field if it has
\* slots, a location if it has fields.
Needed(r, t) ==
    IF r[t].table \in Slots THEN t \in inUse
    ELSE \E i \in Children(r, {t}) : r[t].table = "fields" => r[i].table \in Slots

\* One record of the ledger.  A target that is gone was deleted by others; a
\* payload that no longer fits raises an exception.
Undo(j, s, t) ==
    LET old == ledger[j][t].prev
    IN  IF t \notin DOMAIN s.rec THEN s
        ELSE IF ledger[j][t].op = "updated"
        THEN [rec |-> Put(s.rec, t, old), blocked |-> s.blocked,
              ok |-> s.ok /\ Fits(s.rec, t, old)]
        ELSE IF Needed(s.rec, t)
        THEN [rec |-> s.rec, blocked |-> s.blocked \cup {t}, ok |-> s.ok]
        ELSE [rec |-> Without(s.rec, {t}), blocked |-> s.blocked, ok |-> s.ok]

\* The records of the ledger, table by table.  Those of one table come in no
\* particular order: their ids are random.  That can matter for fields only,
\* whose key a rollback writes.
LiveOf(j, table) == {t \in Live(j) : ledger[j][t].table = table}

UndoOrder(j, fields) ==
    LET Part(n) == IF RollbackOrder[n] = "fields" THEN fields
                   ELSE SetToSeq(LiveOf(j, RollbackOrder[n]))
    IN  Part(1) \o Part(2) \o Part(3) \o Part(4) \o Part(5)

UndoAll(j, order) ==
    LET after[n \in 0 .. Len(order)] ==
            IF n = 0 THEN [rec |-> rec, blocked |-> {}, ok |-> TRUE]
            ELSE Undo(j, after[n - 1], order[n])
    IN  after[Len(order)]

RollbackFields(j) ==
    /\ Live(j) # {}
    /\ \E fields \in SetToSeqs(LiveOf(j, "fields")) :
       LET u == UndoAll(j, UndoOrder(j, fields)) IN
       /\ u.ok
       /\ rec'     = u.rec
       /\ inUse'   = inUse \cap DOMAIN u.rec
       /\ ledger'  = [ledger EXCEPT ![j] =
                         [t \in DOMAIN @ |-> [@[t] EXCEPT !.live = t \in u.blocked]]]
       /\ written' = [written EXCEPT ![j] = @ \ (Live(j) \ u.blocked)]
       /\ status'  = [status EXCEPT ![j] =
                         IF u.blocked # {} THEN "completed_with_warnings" ELSE "needs_fix"]
       /\ before'  = IF u.blocked = {} THEN Forgotten ELSE OnlyWriter(j)
    /\ UNCHANGED <<kind, stale, rows, upload, ids>>

-----------------------------------------------------------------------------
(* The admin's facility calls and the schedules.                            *)

Created(new) ==
    /\ ids < MaxId
    /\ Fits(rec, ids + 1, new)
    /\ rec' = Put(rec, ids + 1, new)
    /\ ids' = ids + 1
    /\ before' = Forgotten
    /\ UNCHANGED <<jobVars, ledgerVars, inUse>>

Edited(table, parent, name) ==
    [table |-> table, parent |-> parent, half |-> Nil, name |-> name, val |-> "edited"]

\* admin_create_location
CreateLocation(name) == Created(Edited("locations", Nil, name))

\* admin_create_field
CreateField(place, name) == Created(Edited("fields", place, name))

\* admin_update_field: the form writes every column.
UpdateField(f, place, name) ==
    /\ Fits(rec, f, Edited("fields", place, name))
    /\ rec' = Put(rec, f, Edited("fields", place, name))
    /\ before' = Forgotten
    /\ UNCHANGED <<jobVars, ledgerVars, ids, inUse>>

\* admin_delete_field: with its slots and what is assigned to them
DeleteField(f) ==
    /\ rec' = Without(rec, {f})
    /\ inUse' = inUse \cap DOMAIN rec'
    /\ before' = Forgotten
    /\ UNCHANGED <<jobVars, ledgerVars, ids>>

\* persist_practice_schedule, persist_game_schedule
AssignSlot(s) ==
    /\ inUse' = inUse \cup {s}
    /\ UNCHANGED <<jobVars, ledgerVars, rec, ids, before>>

\* admin_cancel_practice_assignment, admin_cancel_game_assignment
FreeSlot(s) ==
    /\ inUse' = inUse \ {s}
    /\ UNCHANGED <<jobVars, ledgerVars, rec, ids, before>>

AdminStep ==
    \/ \E name \in Names : CreateLocation(name)
    \/ \E place \in Of("locations"), name \in Names : CreateField(place, name)
    \/ \E f \in Of("fields"), place \in Of("locations"), name \in Names :
           UpdateField(f, place, name)
    \/ \E f \in Of("fields") : DeleteField(f)
    \/ \E s \in UNION {Of(t) : t \in Slots} \ inUse : AssignSlot(s)
    \/ \E s \in inUse : FreeSlot(s)

-----------------------------------------------------------------------------
\* The steps of ImportJobs by which rows are staged, once and again.  Those
\* that can only hold a job up or fail it, and the validation errors the client
\* adds, are left to ImportJobs.  Bounds: a file is staged as one chunk, and the
\* tables are not written meanwhile (staging neither reads nor writes them).
NoneStaging == \A i \in Jobs : upload[i] = Abstract!NoUpload

JobStep(j) ==
    /\ UNCHANGED <<ledgerVars, domain, before>>
    /\ \/ Abstract!CreateJob(j, "fields")
       \/ Abstract!MarkReady(j)
       \/ NoneStaging /\ Abstract!BeginUpload(j, Rows)
       \/ Abstract!DeleteStaged(j)
       \/ Abstract!InsertStaged(j)

Next ==
    \/ \E j \in Jobs : JobStep(j)
    \/ /\ NoneStaging
       /\ \/ \E j \in Jobs : FinalizeFields(j, FALSE) \/ RollbackFields(j)
          \/ AdminStep

Spec == Init /\ [][Next]_fieldVars

-----------------------------------------------------------------------------
(* Properties.                                                              *)

\* Whatever imports, rollbacks and admins do to the tables, every record keeps
\* its parents, no two fields of a location or halves of a field share a name,
\* and nothing is assigned to a slot that is gone - also when a previous
\* payload is written back after a field has been moved or a location deleted
\* (20260503070000_field_import_apply_rollback.sql:1078).
TablesSound ==
    /\ \A i \in DOMAIN rec : Fits(rec, i, rec[i])
    /\ inUse \subseteq DOMAIN rec
    /\ DOMAIN rec \subseteq 1..ids

\* An import or its rollback never takes a slot from under an assignment, not
\* even through the cascades that start at a half, a field or a location
\* (20260503070000_field_import_apply_rollback.sql:976).
AssignedSlotsKept == [][ledger' # ledger => inUse' = inUse]_fieldVars

\* What a rollback keeps is in use when the rollback is over: nothing stays
\* because of a record the same rollback goes on to delete
\* (20260503070000_field_import_apply_rollback.sql:964).
KeptForReason ==
    [][\A j \in Jobs : Undone(j)' # Undone(j) =>
           \A t \in Live(j)' : t \in DOMAIN rec' /\ Needed(rec, t)']_fieldVars

\* A rollback that keeps nothing puts back exactly the tables the job's
\* application found, if nothing else has written them since - however many
\* rows of the file named the same record
\* (20260503070000_field_import_apply_rollback.sql:378).
RollbackRestores ==
    [][\A j \in Jobs : before[j] # {} /\ Live(j) # {} /\ Live(j)' = {} => rec' \in before[j]]_fieldVars

\* To the rest of the system a field import is an import job: every step here
\* is a step of ImportJobs or none
\* (20260503070000_field_import_apply_rollback.sql:846 and 1144).
ImplementsImportJobs == Abstract!Spec
=============================================================================
