# A formal model of SquadLogic

TLA+ specifications of the parts of SquadLogic where data is overwritten, schedules are decided
and users run into each other; the TLC instances that model-check them, and the TLAPS proofs of
what they promise for every instance. Paths are relative to the repository's root;
`migrations/` abbreviates `supabase/migrations/`. Where several migrations define one function,
**the last definition is the one modelled**: it is the one in force.

1. [The system](#1-the-system)
2. [The modules](#2-the-modules)
3. [The runs](#3-the-runs)
4. [Fairness](#4-fairness)
5. [What is proved](#5-what-is-proved)
6. [Where code and documentation disagree](#6-where-code-and-documentation-disagree)
7. [What is not modelled](#7-what-is-not-modelled)
8. [How to run it](#8-how-to-run-it)

---

## 1. The system

SquadLogic turns a club's registration export into teams, practices and games. A React
application (`frontend/`) talks to a Postgres database through row-level-secured tables and
RPC functions (`supabase/migrations/`) and to Deno Edge Functions (`supabase/functions/`);
the algorithms are a plain JavaScript package (`packages/core/`), parts of which the Edge
Functions carry a copy of.

### Inventory

| Component | State it keeps | Operations | Talks to | What is hard | Module |
|---|---|---|---|---|---|
| **Import job life cycle** (`migrations/20260504080000`, `20260503090000`, `20260503100000`, `20260522130000`; `functions/import-validation`) | `import_jobs`, `staging_import_rows`, the ledger of applied records | create, progress, fail, stale clean-up, mark ready, cancel, stage, finalize, roll back | the browser's worker, the admin; finalizers write the domain tables | staging is three calls without a transaction; nothing enforces an order of calls; heartbeats and clean-up race | `ImportJobs` |
| **Coach import** (`migrations/20260726000300`, `20260503060000`) | `coaches`, previous payloads in the ledger | upsert row by row, rollback with blocked records | teams, leads, the admin's writes | a file naming a coach twice; a snapshot restored over later writes | `CoachImport` |
| **Coach administration** (`migrations/20260503050000`, `20260613000000`, `20260503000000`) | `coaches.status`, `teams.coach_id`, `teams.assistant_coach_ids` | status, assign, delete, lead upsert | imports, team persistence | READ COMMITTED sessions, an advisory lock only some take, an id array without foreign key | `CoachAssignment`, `CoachImport` |
| **Browser import session** (`frontend/src/contexts/ImportContext.jsx`) | job id, panel status (also in local storage), an async worker | start, apply, cancel, roll back, reset, page load, realtime events | life cycle RPCs, Edge Function, other tabs | lost answers, a 60 s limit while the upload goes on, reloads in the middle | `ImportClient` |
| **Field import** (`migrations/20260503070000`) | locations, fields, halves, slots | find or create level by level, rollback from the slots up | assignments, facility administration | parents kept because of a child, cascades, keys of moved fields | `FieldImport` |
| **Members and invites** (`migrations/20260613000005`, `20260421034626`, `20260613000002`) | memberships, invites | create, redeem, revoke, change role, remove | auth | the last admin, and the redemption of one code, under concurrent calls | `Membership` |
| **Season workflow** (`packages/core/src/freeze`, `resolve`) | a board of games, a ledger of moves, a cache of measures | freeze plan; staged re-solve of a change or a season; commit | published schedules, stages a caller adds | which game may still move; games lifted out and put back; reports measured on another board | `FreezePlan`, `Resolve` |
| **Practice scheduling** (`packages/core/src/practiceScheduling.js`, `autoScheduler.js`) | four maps beside the assignments; seed, current and best schedule | greedy placement, help for teams left over, hill climbing with restarts | – | maps that drift from what they summarise, undone trials, restarts | `ScheduleMoves`, `HillClimb`, `PracticeSchedule` |
| **Auto scheduler service** (`functions/auto-scheduler`, `_shared`) | one request; one run row and audit rows at its end | greedy seed, the same search, record, answer | the database, a browser hook | audits nobody waits for, a persist error that is only logged, an objective that cannot improve | `SchedulerService` |
| **Game scheduling** (`packages/core/src/gameScheduling.js`) | slots' room, coaches' times, use of shared slots, teams' habits | round robin, placement matchup by matchup | the game page | byes, coaches of two divisions, spreading shared slots without looking back | `GameSchedule` |
| **Game review and persistence** (`frontend/src/pages/GameSchedulingPage.jsx`, `functions/game-persistence`, `migrations/20260503030000`, `20260613000003`) | staged and shown lists of a tab; `game_assignments`, `scheduler_runs` | generate, drag, discard, apply, roll back, load; persist, delete a team | other tabs | rows that change their run, late and lost calls, edits while a call is away | `GameReview` |
| **Team persistence** (`functions/team-persistence`, `persist_team_schedule`) | teams, rosters, runs | one persist per run | coaches, players | a snapshot computed in the browser written over a database that moved on | coaches' part only |
| **Team generation** (`packages/core/src/teamGeneration.js`, `assignmentUnits.js`, `teamDelta.js`, `coachContinuity.js`) | the teams of a division, units not placed, who heads a team | generate, generate again around existing teams, continuity of coaches | registrations, the roster board, coach administration | late players meet locked, over-full and deleted teams; a kind-by-kind order of placement; a set of heads kept by hand | `TeamGeneration` |
| **Availability and player import, practice review, field calendar, waivers and publication, evaluation, rule engine, facility graph, external mapping, web shell, mock backend** | see section 7 | | | | – |

### What must hold

* *Jobs* - a job still being imported has written nothing; the ledger claims exactly the writes
  that stand; a rollback that reports success left nothing live; the halves of staging never
  collide.
* *Domain imports* - rolled back means restored; what a rollback keeps is in use; nothing assigned
  is deleted; what a transaction read of its job holds until it commits; records keep their parents.
* *Sessions* - a job marked ready has all rows of its file; an applied row is not staged again;
  no job stays "importing" for ever.
* *Administration* - a coach who may coach one team heads at most one; the head of a team exists and,
  but for calls that race and rollbacks, may coach, and no team keeps a deleted assistant (in races
  neither is so, section 6); an invite brings in one
  user; roles change for a reason; the organization keeps an admin (it does not, section 6).
* *Teams* - nobody registered is lost or on two teams, units stay together with the adults they
  bring, overflow is the last resort, no adult is silently put on a second team, and a run only
  adds to the teams there are.
* *Season* - held games stay put or the run says so; only what was asked for moves under a derived
  plan; no game is lost; a clean schedule stays clean; what is reported was measured on what is
  proposed.
* *Scheduling* - no coach is in two places, no slot overfull, no lock broken, nobody lost,
  nobody left out who would still fit; the search offers only better schedules.
* *Persistence* - the schedule on show has all its games; a rollback brings back what was shown.

---

## 2. The modules

```
ImportJobs <--EXTENDS-- CoachImport        ScheduleMoves <--EXTENDS-- ScheduleOffer  (abstract)
           <--EXTENDS-- ImportClient                     <--EXTENDS-- HillClimb
           <--refined-- FieldImport        HillClimb     <--EXTENDS-- PracticeSchedule
CoachAssignment    Membership                            <--EXTENDS-- SchedulerService
FreezePlan <--EXTENDS-- Resolve            ScheduleOffer <--refined-- both of them
TeamGeneration                             GameSchedule  <--EXTENDS-- GameReview
XProofs EXTENDS X:      CoachAssignment, FieldImport, Membership, Resolve, TeamGeneration
ImportProofs EXTENDS    ImportClient and CoachImport, and so ImportJobs
SchedulingProofs        PracticeSchedule and SchedulerService, and so HillClimb and ScheduleMoves
GameProofs              GameReview, and so GameSchedule
MCX EXTENDS X:      one module of constants per group of runs
```

Two abstract specifications are stated and implemented: `ImportJobs` is what a field import is to
the rest of the system (`FieldImport!ImplementsImportJobs`), and `ScheduleOffer` is what a
practice scheduler promises, whatever its search does (`ImplementsScheduleOffer` in
`PracticeSchedule`, `AnswersOffer` in `SchedulerService`). `CoachImport` and `ImportClient` *compose*: each
adds variables to `ImportJobs` and conjoins its own part to the shared actions.

Operators whose comment begins with *Mutant* are deliberate mistakes. No specification uses them;
each has been substituted for the definition that follows it to make sure that a run notices.

### ImportJobs

| State | Code |
|---|---|
| `status`, `kind`, `stale` | `import_jobs.status`, `import_type`, and "the last heartbeat is older than the cutoff" |
| `rows` | `staging_import_rows` by row number: `none`, `staged`, `rejected` (`validation_errors`), `applied` (`applied_at`) |
| `live`, `undone` | ledger records with `rolled_back_at` NULL or set, by the record they are about |
| `written` | records holding a write of the job which no rollback has taken back |
| `upload` | the Edge Function call: `checked` = it has read the job's status, `deleted` = it has deleted the rows it replaces |

Every SQL function locks the job's row first and is one action. The Edge Function is three
(`BeginUpload`, `DeleteStaged`, `InsertStaged`) and may end between any two (`AbortUpload`).
`FinalizeJob` leaves open which pending rows apply and which records they write, within what the
finalizers can do (`MayWrite`); so it stands for three finalizers, with their differences kept by
`kind`. Payloads, counters, messages and audit rows are left out.

### CoachImport

Adds the `coaches` table, which coaches some team names (`assigned`), the previous payloads in the
ledger (`image`) and the payload of each staged row. `finalize_coach_import_job` and
`rollback_coach_import_job` run **statement by statement**: they hold the job's row (`FOR UPDATE`),
but are READ COMMITTED and lock a coach only when they write him. `txn` is the transaction of a job:
rows still to do, the coach looked up and what was seen of him, the rows written but not committed.
`LookUp`, `CheckTeams`, `UpdateCoach` or `InsertCoach` are the loop body for one row; `CheckRecord`
and `WriteRecord` that for one ledger record; only `CommitFinalize` and `CommitRollback` show anything
to others, and `Abort` may come anywhere (an error, a deadlock, a lost connection). A coach who
already has a ledger record keeps it (`ON CONFLICT DO NOTHING`).

Of the other sessions this module has what they *commit* between those statements
(`UpdateCoachStatus`, `DeleteCoaches`, `UpsertLead`, `TeamsChange`), restrained by row locks and the
unique index alone; `TeamsChange` lets the teams name any coach ever born, deleted ones included.
What their own statements look at and may miss is the subject of `CoachAssignment`. `before` is an
observer: for each job and coach the row its first application started from, forgotten once anybody
else writes the coach. The `DELETE` of a chunk of staged rows does not wait for the job's row in the
code; here it does not fall into a running finalizer. `ImportClient` justifies that: a job the panel
offers to be applied has no chunk on its way.

### CoachAssignment

The same administration statement by statement. Under READ COMMITTED a statement sees what was
committed before it began, so a function is a chain of steps; the last one writes and commits.
Modelled locks: the advisory lock of `admin_assign_team_coach`, and rows of `teams` a delete has
updated before it commits; `admin_delete_coaches` has its two updates of `teams` as two statements
(`ScrubHeads`, `ScrubAssistants`), each waiting for the rows it changes. `same` and `kept` are what a
function remembers from an earlier statement. `Deactivate` and `Restore` are the statements of a
coach import that can make somebody who heads a team unusable, `Retract` its delete, which does not
wait for the rows of teams its foreign key writes (more behaviours, not fewer). Any transaction may
fail between any two statements (`Abort`). Two history variables: `scheduled`, the teams whose head a
schedule put there, and `raced`, the coaches about whom a call looked at something another call,
running at the same time, was about to change without either noticing (`MayMiss`), or whom a
rollback wrote.

### ImportClient

Tabs on top of `ImportJobs`. The worker of `startImport` is a chain of awaits: `place` is the
call it waits for, `answer` what came back. Any call can be lost on the way there or its answer
on the way back; a batch whose 60 s limit has passed keeps running on the server. `Reload` ends
the worker where it is and brings the panel back from local storage. An error awaited outside any
`try` leaves the tab `stuck`. When a worker ends (`Stops`), what it alone remembered is reset.

### FieldImport

Locations, fields, halves and the two kinds of slots are one table of records
`[table, parent, half, name, val]`; `val` says who last wrote the columns that are no key.
`ApplyRow` finds or creates each level for a row of the file (`FindOrInsert`; `Upsert` where the row
has columns for the record), `Undo` takes back one ledger record, `Without` is a delete with its
cascades. `Outcome` and `UndoAll` are the two loops, recursive functions over the row numbers and over
the ledger in the order of `rollback_field_import_job`. `WellFormed` is what foreign keys, unique keys
and the writers make of the tables, and what the organization is assumed to start from. The facility
administration (rename, move, delete, create) and the assignment of slots run between them. The
`handle_field_subunits` trigger of an early migration is not in the model: the definitive schema
drops it. Ids are random in the code, so where records of one table are taken in id order every
order is tried. `MaxId` bounds the ids.

### Membership

Remove, change role, create, redeem and revoke, statement by statement as in `CoachAssignment`;
the only lock held between statements is the row of an invite (`SELECT … FOR UPDATE`). `stale` is
`now()`, the start of the transaction, by which expiry is judged. `joined` is a history variable.

### FreezePlan and Resolve

`FreezePlan` has no state: what a plan is (`IsFreezePlan`), what a rule reaches (`JudgeFreezeMatch`,
with *unjudged* where a game lacks the field), rank, and `JudgeFreeze` as the left-to-right scan of the code, beside
`DeclaredDisposition`, what the plan's documentation declares. `Resolve` is the pipeline:
`ApplyChange`, `Dislodge` (clash by clash, last written first), `Assign`, `Search`, `Repair`, the
stage of a caller, `Verify` with its cache, `Audit` and `Commit`. The stage of a caller gets the whole
state: it moves games through applyMove (`ExtraThrough`), or returns a state it has built itself
(`ExtraAround`), where the placement, the disposition, the pin or the baseline of a game is another, or
a game is gone from the list of games - just what `freezeAudit` reads afterwards. What all stages
share, the ledger and the context, it is taken to leave alone, and so the lists of games that wait
or are unplaced. Abstractions, both towards more behaviours: the games of a stage are visited in any
order, and any legal slot may win, because weights are the caller's. A slot is what legality looks
at: date, surface, start; ground is a set of cells.

### TeamGeneration

One division. `reg` is the registration of each player (who is here, with which coach, assistant
and buddy), `teams` a sequence of `[id, head, locked, assistants, players]`. A run starts with
`GenerateFresh` or `GenerateAgain`, as `generateTeams` decides from the policy and the snapshot;
`todo` are the units of `buildAssignmentUnits`. A run around existing teams first goes through them
in order (`KeepHead`, `ReplaceHead`, `DropHead`, `AttachHead`: `applyCoachContinuity`; `anchored` is
`anchoredCoachIds`, `replaced` the keys of `appliedReplacements`), then both place unit by unit:
`PlaceWithHead` and `PlaceWithAssistant`, then `PlaceWithBuddy`, then `PlaceAnywhere`. Where the two
builders differ - assistants written down before or after there is room, new teams on demand, a
unit demoted or given up - `run.fresh` tells them apart. Any team with room may win, since scores,
weights and the random draw are data, and units of one kind come in any order. Roster limits are
whole numbers, and the target of a team at least 1: the code truncates a target between 0 and 1 to
0 and then divides the players by it. `preserve-with-overflow` does what `preserve-existing` does. Between runs people
register and withdraw, cards are dropped on any team, coaches appointed, teams locked and deleted.
A unit whose adults conflict ends a run before it has changed anything: the two start actions have
that as a guard.

### ScheduleMoves, HillClimb, ScheduleOffer

`Fits` is `checkHardConstraints`; `Swaps`, `Chains` and `Relocations` are `mutate`; a schedule is
a function from the placed teams to slots. `HillClimb` is the loop of `optimizePracticeSchedule`,
of which the Edge Function has a copy. A restart sets the current schedule to the seed: the
greedy construction is deterministic, so running it again gives the seed. `Stalls` is allowed at
any iteration (a draw may come to nothing). `Fitness` is a parameter: the code's objective is
configurable, and the proofs do not depend on it. `Sound` excuses locked teams from room and
coaches, as the code does.

### PracticeSchedule and SchedulerService

`PracticeSchedule` keeps the four maps of `schedulePractices` (`room`, `load`, `busy`, beside
`placed`) and updates them as the code does, so that *they agree with the assignments* is a
property and not a definition. Which viable slot ranks first is data: any may. `Base` stands for
the base slot and for the day, which are kept count of alike. `SchedulerService` is a request to
`auto-scheduler` from call to answer; `Score` is the service's own objective, which knows coverage
and conflicts only.

### GameSchedule and GameReview

`RoundRobinWeeks` is the circle method; `Placed` is `scheduleMatchup` on the record of what
`scheduleGames` keeps, with the full order in which the code prefers slots (`Rank`). `PlaceNext`
takes one matchup after the other; `Scheduled` does it at one go, for the page. Ids are numbers
whose order stands for that of the strings, times are minutes. The matchups placed, their slots
and reasons are the sequence `fate`; the final sorting is left out.

`GameReview` is the page in several tabs. `local`, `review`, `last` are the state hooks of those
names, `source` and `awaited` the run whose rows are shown or being read. `Send`, `Serve` and
`Answered` are apart: a call can be lost, refused, served with the answer lost, served late or out
of order, and the page goes on with what it held when it sent. `persist_game_schedule` looks at the
teams twice: `Validate` refuses a list for want of a team, `Serve` joins the teams there are by then,
so the games of a team deleted in between are dropped without a word. A list is a function from the
pair of teams to a slot; `rows` maps a row of `game_assignments` to its run, and `Upsert` moves a row to
the run that lists it last. Runs are known by `completed_at`, which the *tab* stamps: the model has
one clock and distinct stamps.

---

## 3. The runs

`tlc -config <cfg> <module>`; the configurations say what the constants are. Deadlock is checked
unless the system may really stop (a run that has ended, a request answered).

| Run | Instance | Question, and why the bounds are enough |
|---|---|---|
| `coach_import` | 1 job, 2 rows, 2 coach ids, an address of another organization | Amid the commits of other sessions between any two statements: do rollbacks restore whom nobody else wrote, does what a transaction read of its job hold until it commits (`CommitsFit`), and do status, rows and ledger of the job agree in every order of calls (`JobsAgree`)? One file names a coach twice, so it may insert and then change him; the other makes one inactive and names a foreign one. Two rows give partial application and staging, two ids a partly blocked rollback. Jobs meet in row locks, the unique index and the clean-up; the theorems are about any number of jobs, which TLC does not run. |
| `coach_assignment` | 2 sessions, 1 coach, 2 teams, calls of every kind | Does the lock keep a coach on one team, is no team headed by a deleted coach, is a coach unusable or dangling on a team only by calls that raced (`UncontestedSound`), does every call end? Two sessions show every pair of statements; two teams let a delete wait for one row while it holds another. |
| `import_client` | 2 tabs, 1 job, 2 batches | Is a ready job whole, does an applied row stay so, does every import end? Two batches make "the second failed", two tabs a second admin. |
| `field_import` | 2 jobs, 2 rows each, 5 ids, with or without the field in place | Are the tables sound, are assigned slots kept, is what is kept in use, do rollbacks restore, and is every step one of `ImportJobs`? Two jobs share a slot, one file names a field twice, one row does not apply. |
| `membership` | 2 users with any roles, 2 sessions, 2 invites, any calls | Is an invite used once, do roles change for a reason, can only overlapping calls cost the last admin? |
| `last_admin` | the same, member calls only | A counterexample, section 6. |
| `season_resolve` | 3 games on 2 half fields sharing ground with a full one, 6 slots, 3 baselines, 9 requests, 4 plans and the derived one, one write of a caller's stage in one of 5 combinations of what it rewrites | Do held games stay, is only what was asked for moved, is nothing lost, does clean stay clean, is the report true, does the scan of the rules say what they declare? Baselines include a clash; requests meet shut, taken, shared and unknown slots; plans include ties between rules. |
| `practice_schedule` | 7 teams for 6 places, one locked, shared coaches, 5 iterations, 1 restart | Are all schedules sound, is nobody lost, do the maps agree, and is the result an offer? |
| `auto_scheduler` | 7 teams, two locked in conflict, one that fits nowhere, 5 iterations, progress at the third | Is the answer the greedy seed, does whoever is left out fit nowhere, is it an offer? |
| `run_unrecorded` | the same | A counterexample, section 6. |
| `team_generation` | 3 players, 2 adults, 3 roster configurations, 4 policies, 2 changes between runs | Is nobody lost, is every unit placed as it asked, is overflow the last resort, is no adult put on two teams, does a run only add? Three players make a pair of buddies and a third in their way; limits of one and two make teams full, a cap of two teams stops creation; two changes give "move, then lock", "withdraw, then register" and "delete, then register". |
| `game_schedule` | some 170 leagues of 2 to 8 teams; two of them reviewed: 1 tab with a team deleted, 2 tabs without, 2 calls each | Is the round robin complete, is the schedule sound, is nothing better left, are shared slots spread, is the run on show whole, does a rollback restore? All six reasons for leaving a matchup out occur. |

What the properties say is above each of them; the ones it took several steps to break when a
plausible mistake was put into the model:

* `JobsAgree` (ImportJobs), in it `LedgerInv`: the ledger over apply, roll back, stage, apply. It says that a standing
  write has a record **live or undone**; "has a live record" is false, see section 6.
* `RollbackRestores` (CoachImport, FieldImport): the first application is undone exactly even if
  the file names a record twice, which hangs on the second row not replacing the first snapshot; for
  coaches one by one, whatever other sessions do to the rest.
* `CommitsFit` (CoachImport): uploads, failures and clean-ups keep off a job while a finalizer or a
  rollback goes through it row by row. It hangs on the job's row lock alone.
* `UncontestedSound` (CoachAssignment): what the checks of assignments, status changes, imports,
  deletes and schedules are worth when no two of them race: a coach given a team by hand may coach,
  a deleted one assists nobody. It says of what calls it is *not* true: a status is lowered while he
  is being assigned, a coach is deleted while a schedule that names him as an assistant is persisted,
  a rollback puts an old status back. These really go wrong, see section 6.
* `KeptForReason` (FieldImport): nothing stays because of a record the same rollback goes on to
  delete; the order from the slots up is what it is about.
* `OnlyRacesCostTheLastAdmin` (Membership): the guard works for every pair of calls that do not
  overlap, also for somebody who demotes himself.
* `CleanStaysClean` (Resolve): from a clean schedule, a change ends with an illegal game only if it
  and all it clashes with are held. `ReportIsTrue`, in it `MeasuredIsProposed`: the cache keyed by the
  length of the ledger, against a stage that writes without logging.
* `HeldOrReported` (Resolve): a held game that is elsewhere in the end has been reported, although a
  caller's stage may rewrite the very disposition, pin or baseline the audit's first half reads: the
  second half, which compares what each stage wrote with the ledger, catches those. What gets by both
  is in section 6.
* `SeedIsFinal` (SchedulerService): a result worth knowing. The service's objective counts coverage
  and conflicts. A swap or chain changes neither, so none is accepted, since only strictly better
  schedules are; and into a schedule no move has changed a team the seed left out fits nowhere. **The
  whole search of the service returns its greedy seed**, for any input.
* `NothingBetterLeft`, `SharedSpread` (GameSchedule): a greedy construction that never looks back
  nonetheless leaves nobody out who would fit at the end, and no slot of higher priority unused;
  the spread holds although full slots and busy coaches disturb the order of preference.
* `OverflowIsReal` (TeamGeneration): units are placed in three waves and never reconsidered, while
  teams are created on the way; still, a unit left out would find no place at the end where its
  kind may go. `GenerationSound`: teams deleted between runs do not lead to two teams of one id.
* `OneAnchor` (TeamGeneration): two teams get one head only if they had him before or he was taken
  off a team in this run; the second exception is a hole in the code, see section 6.
* `ShownIsWhole` (GameReview): persisting a run takes rows away from other runs. The run on show
  misses a game only if a call stamped earlier was stored later or a team was deleted.

Bounds in guards: `Fresh` (coach ids), `AdminStatuses` (statuses set by hand), `MaxId` (record ids), `Rests` (a tab runs
one worker), `MaxChanges` (changes between generations), `MaxExtra`, `Rewrites` and `Forged` (how often a caller's stage
writes, what of a game at once, and to which slots), `Calls`, `Used`, `Leaving`, `Reviewed` (how
much is asked of each league on the page). Symmetry is used only where no
liveness is checked: the sessions of `membership` and `last_admin`, the tabs of `game_schedule`.

---

## 4. Fairness

Safety runs assume none. Two liveness properties need it:

* `CallsEnd` (CoachAssignment, `FairSpec`): weak fairness of each session's next statement, strong
  fairness of the statements that wait for a lock, because Postgres queues waiters and serves
  them in turn, and weak fairness of the failure of one of several sessions that wait for each other,
  because Postgres detects deadlocks (`Deadlocked`; two deletes can meet so). No other `Abort` is fair,
  and nobody has to call.
* `ImportsEnd` (ImportClient, `VisitedSpec`): every call comes back - with the client's own error
  if nothing else -, the event loop continues a worker whose promise settled, an upload ends (the
  isolate has a time limit), time passes, some admin opens the page again and again, and the
  clean-up of such a load does not fail every time. Delivery of any one call is **not** fair. The
  code has no other clean-up: without a visit a job whose worker died stays `importing`.

The schedulers and the re-solve are loops with a counter; that they end is no question. The game
page sends without a time limit, so nothing promises that a call is answered.

---

## 5. What is proved

Eight modules of proofs, checked by TLAPS for every value of the constants, under the ASSUMEs
named in the modules (which TLC evaluates on every run).

**ImportProofs** has three parts, each resting on the assumptions of its own module only.

*The jobs.* `JobInv(j)` adds to the safety properties that a job that does not exist has no trace
and no upload; `IndInv` is `TypeOK` and `JobInv` for all jobs. One lemma for types, one for "a step
of one job leaves the others alone", one with a step per action; the clean-up, which changes many
jobs at once, is a case of its own. Then `TypeCorrect`, `ActiveJobsWroteNothing`, `LedgerAgrees`,
`StagingNeverCollides`, together `EveryJobAgrees`.

*The sessions.* `ClientsKeepToTheJobs`: every step of a tab is a step of `ImportJobs` or none, so
all of the above holds with any number of tabs whose calls are lost, late or repeated.
`ReadyJobsAreWhole` needs `ClientIndInv`: a job is worked on by one worker at most; a worker past
its first *k* batches has found them staged (`Progress`), a batch it was told was inserted is no
longer on its way (`Quiet`), a job that may be applied is staged and nothing will touch it
(`Settled`), and while something still may, nothing of it is applied (`Unapplied`) - else an upload
that a timeout left running could replace rows another tab had applied. From the same invariant `AppliedRowsAreKept`. Batches may share rows.

*The coaches.* `CoachImportsAreImports`: whatever other sessions commit between the statements of an
import, each of its steps is a step of `ImportJobs` or none, so all that is proved of jobs holds of it.
`TransactionsFit` and `FirstApplicationUndone` rest on `CoachIndInv`, which says of each job what its
transaction knows (`FinalizeInv`, `RollbackInv`) and that undoing the records which stand in its eyes
would give back what its observer remembers (`Undoes`, of the committed table and of the
transaction's view alike). Everything but the job's own statements is one case: it leaves transaction,
ledger and job as they are, and changes a coach only where the observer is told (`Undisturbed`).
No number of jobs, no file, no order of commits is fixed.

**CoachAssignmentProofs.** `SingleTeamCoaches` needs that what an assignment counted still holds
when it writes (`CountHolds`), and that needs that it owns its coach from lock to commit
(`LockOwned`): `CapacityRespected`. It concerns coaches assigned by hand: `persist_team_schedule`
looks neither at the lock nor at the flag. `HeadsAlwaysExist` and `IdleSessionsHoldNothing`
follow from the foreign key and from `Ends`; `HeadsAreSound` is what the run checks.
`OnlyRacesLeaveTeamsUnsound` rests on `RaceInv`: of two calls under way of which one may miss what the
other changes, the coach is in `raced` (`OverlapsNoticed`), and unless he is, what a call has looked at
is still so when it writes (`StillSo`).

**MembershipProofs.** `RowOwned` and `JoinsOpen` make `InviteUsedOnce` inductive (who is past the
lock holds the row, and the invite is open): `OneJoinsByAnInvite`. `WritersLooked` - who is about
to write keeps an admin, counted others, or found none to lose - gives
`LastAdminLostByRacesOnly`. `RolesChangeForAReason`.

**ResolveProofs.** One invariant per question on top of `RunInv`, which types the run: what
dislodge is about to lift, how the run ends, where each game is, why it is there, whether it is
legal there, which board the rule engine has seen. Theorems: `HeldGamesStayPut`,
`HeldGamesAreReported`, `NoGameLost`, `EveryMoveHasACause`, `CleanScheduleStaysClean` (the longest:
it follows each clash from the write that makes it to the game that is lifted for it),
`RequestMovesNoOther`, `ReportMeasuresTheProposal`; `ReportsAreTrue` joins two of them for the run.
`ScanDecidesAsDeclared`: for every plan and game the left-to-right scan of `judgeFreeze` picks what
the documentation declares, by an invariant over the rules scanned so far.

**FieldImportProofs**, for any number of jobs, rows and ids and for any file. `FieldInv`: the tables
are well formed; what a ledger says of a record still holds of it (same table; same place, unless it
is a field, which alone can be moved; and the place a field is to go back to, if still there, is a
location); and where nothing else has written since, undoing the ledger gives the tables the job
started from (`Undoes`). Well-formed includes that a slot's half is a half of the slot's field, which no
foreign key says: only the import writes `field_subunit_id`. That makes two levels of
cascade enough (`BelowIsClosed`) and is why the cascades of an unneeded record take no slot along
(`BelowUnneeded`). `LoopInv` carries this through the rows, `UndoInv` through the ledger: what tells the
tables from the old ones is still to come, and what was kept stays needed, because whatever comes later
is of the same table or above it (`UpTo`, `NeededAfterDelete`). Hence `TheTablesAreSound`,
`TheAssignedSlotsAreKept`, `TheKeptAreNeeded`, `TheRollbackRestores` and, step by step,
`TheFieldsImplementJobs`: all that `ImportProofs` says of jobs holds of field imports.
`FieldAssumption`: finite files with rows numbered from 1 and a slot type each (staging requires
it), and well-formed tables to start from.

**TeamGenerationProofs.** `GenerationInv` says, beside what is checked, which seats are taken and by
whom while a run goes on (`SeatsInv`), that a unit placed sits where it asked (`AskedInv`), that a
unit given up would still find no place (`HopelessInv`; in a fresh run because no team is added once
a unit without an adult is left over), and who heads what for which reason (`AnchorInv`): `EveryGenerationSound`, `OverflowNeverSpares`,
`NoAdultAnchoredTwice`, `RunsOnlyAdd`, for any number of players, adults and teams. The roster limits are
as `DivisionAssumption` has them.

**SchedulingProofs** begins with what both schedulers share. `MovesAreSound`: swap, chain and
relocation keep a schedule sound and drop no team; a move makes no room for a team that fits
nowhere. `ClimbKeepsTheBest`, `BestOnlyImproves` for any objective.

*The optimizer.* `Good`: the four maps are a recount of the assignments, and these are
sound; every `Assign`, `Remove` and trial keeps it. With `Apart` (the places a team can be in are
disjoint) it yields `CountersNeverDrift`, `EverySchedulesSound`, `NoTeamLost`, `BestStaysBest`,
and `OptimizerImplementsOffer`: each step of the optimizer is a step of `ScheduleOffer` or none.

*The service.* `SeedInv`: while the seed grows, whoever was passed over fits nowhere.
Sound schedules have the conflicts of the locked teams and no others (`SoundConflicts`), so a move
never raises the score: `SearchAddsNothing`, `NobodyLeftOutForNothing`, `ServiceImplementsOffer`,
`ServiceTypeCorrect`. Each part cites the assumptions of its own module only.

**GameProofs**, of leagues of any size and any lists of matchups, also faulty ones.
`LeagueAssumption`: ids above the bye, finitely many teams and slots, slots that end after they
start, lists of pairs of ids. *The weeks.*
After `w - 1` turns the team that stood in place `q` stands in `Place(n, w, q)` (`RotationIs`), and
two teams meet when their places add up to `n + 1`. As `n` is even, every two do so in one week only
(`FacingOnce`: three cases, as the sum of the two places is even, odd and small, or odd and large)
and each has one opposite in a week (`FacingOne`). The sorted lists, of teams and of a week's
matchups, name each element once (`RankLists`). Hence `TheRoundRobinIsComplete`, for any number of
teams. *The schedule.*
`TablesRight`: each table kept between matchups - room, teams' weeks, coaches' books, use of shared
slots, counts of starts - is a recount of the fates so far; only then does what `scheduleMatchup`
decides from the tables mean something for the games. The preference lists of numbers are ordered
totally (`LexicallyOrders`), so among finitely many slots there is a best, of the highest priority
and least used (`BestFacts`); slots only fill up and coaches only get busier (`OnlyMore`), so a
choice that was right stays so without being looked at again. Hence `ScheduleIsSound`,
`NothingBetterIsLeft`, `SharedIsSpread`.

*The page.* `PageInv`, for any number of tabs, calls and deletions: a call is stored once and before
it is answered as stored; a row bears a run that listed it; what a run listed is there, moved to a
later run or gone with a team (`StoreRight`); what a tab would send back is what was on show before
a call that was stored (`UndoRight`); and what it shows is accounted for (`ShownRight`). Hence
`TheShownIsWhole`, `TheRollbackRestores`. Nothing is assumed about what a list contains. *Both.*
The matchups are a list (`MatchesListed`), `Scheduled` takes them as `PlaceNext` does
(`TheLoopIsTheCall`), and a league without some of its teams is one (`LeftIsLeague`). So
`TheGeneratedIsPlayable`: what a tab stages for review, from the teams it loaded, can be played -
slots not overfull, teams once a week, coaches one game at a time - whatever was deleted since.
(What it *drags* need not be: `handleDragEnd` asks nothing.)

**Only model-checked.** Liveness (`CallsEnd`, `ImportsEnd`) and ENABLED are out of the prover's
reach, and so is induction over data in general. A recursive *function* over numbers can be reasoned
about through the least argument at which a claim fails (`LeastNumber`; so the `Outcome` of the field
import, `UndoAll`, and the rotations of the circle method), a RECURSIVE operator
cannot. Every invariant and every action property of the passing runs is stated by a theorem.

---

## 6. Where code and documentation disagree

With a run that finds it:

| Run | Source | What happens |
|---|---|---|
| `last_admin` | `migrations/20260613000005…:255` | "Block removing the last admin-equivalent member": the count takes no lock, two overlapping calls each see the other admin and both go through. |
| `run_unrecorded` | `functions/auto-scheduler/index.ts:551` | "Every run produces an evaluation_run record": `recordAudit` returns nothing, `.catch` on it throws, and a run that gets to a progress report answers 500 unrecorded. |

Seen while modelling, each reproduced by the model's steps or read off them:

* *Imports.* `cancel_ready_import_job` does not look at the status it leaves: a job applied in another
  tab becomes `failed`, its records stay (`20260522130000…:76`). The last definition of
  `mark_import_job_ready_to_apply` (`:53`) lost its guard against failed jobs. Apply, roll back,
  stage and apply again: the second application meets rolled-back ledger records and its writes
  stay without a live one; the next rollback leaves them (`20260726000300…:846`).
  `finalize_field_availability_import_job` has no guard against failed jobs. A progress call awaited
  outside any `try` fails and the panel says importing until it is loaded again
  (`ImportContext.jsx:639`, `:788`). A panel restored to `ready_to_apply` without a job offers buttons
  that throw.
* *Coaches.* `admin_update_coach_status` (`20260503050000…:82`) counts teams without the lock an
  assignment takes, and so does the finalizer of a coach file (`20260726000300…:777`), so an inactive
  coach may head a team; `persist_team_schedule` (`20260610000000…:519`) writes ids of assistants it
  validated before a concurrent delete scrubbed them; a rollback restores an old status even to a
  coach who heads a team by now, and its previous payload over every later edit of the coach.
  `UncontestedSound` excuses just these, and without any of its excuses TLC finds the race in seconds.
* *Members.* The removal of a member found to be a coach counts nobody; made an admin before the
  delete, and the other admin stepping down meanwhile, he may be the last one
  (`20260613000005…:245`). `OnlyRacesCostTheLastAdmin` excuses overlapping calls.
* *Teams.* `anchoredCoachIds` is there "so one adult is never silently attached to two teams"
  (`coachContinuity.js:63`), but replacing a coach on one of several teams he heads deletes him from
  the set although he keeps the others (`:124`), and a dropped one who stays on a locked team is
  deleted too (`:141`): a later coachless team of one of his children then gets him as well. A fresh
  run gives a unit with only an assistant up when every team with room has a head and an assistant
  (`teamGeneration.js:754`); a run around existing teams places it like any other (`:991`). After
  "save roster changes" the page does not read the teams again (`TeamAnalysisPage.jsx:966`, `:1339`),
  so a second run in the session starts from what was loaded before, against
  `docs/architecture/incremental-teaming-hardening.md:457`. A team emptied by hand gets its players
  back from the stale inline list when the snapshot of a re-run is built, and a manual save reads
  `coach_id` of rows that carry `coachId`, so that `persist_team_schedule` clears the head coaches.
* *Season.* `CleanStaysClean` excuses a game whose clash is held entirely: such a clash among four
  games, two of them held, can go unreported as unsatisfiable. `freezeAudit` is "enumerated from the
  **baseline** - the one thing a stage writing around the gate cannot have corrupted"
  (`stages.js:1027`), but a stage of a caller returns the state, baseline, dispositions and pins
  included, that the audit then reads: a forged baseline is caught only because the audit's second
  half compares every write with the ledger. Where the stage thaws a held game and then moves it
  through applyMove, nothing is reported. And "a game a stage dropped […] must appear here rather than
  vanish" (`state.js:481`) is not so for a game the stage leaves out of `gameIds`.
* *Practices.* The greedy placement avoids school hours, the optimizer draws from every slot
  (`autoScheduler.js:481`). An override re-applied under the same practice run leaves the old row:
  after a reload the run shows the team twice, and so do the portal and the calendar feed, which
  read by team (`docs/architecture/evaluation-pipeline.md:20`: "exactly one practice slot"). The cancel
  button of the practice page appears for staged rows only, whose ids are synthetic.
* *Games.* A team deleted between the validation and the insert of `persist_game_schedule`
  (`20260503030000…:587`) takes its games out of the list without an error. Rows of older runs are never deleted, only moved. A delayed apply with an older
  `completed_at` takes rows from the run on show, which `ShownIsWhole` allows for. Edits staged while an
  apply is away are dropped when its answer comes. An apply sent before the page's rows have
  arrived keeps an empty list for the rollback, which then takes every game off the run on show: what
  `RollbackRestores` promises is the list of the page, not of the store. The stored
  warnings of a run describe the generated schedule, not the dragged one. A drag may fill a slot
  twice; nothing between the page and the table looks at room. The cancel button of the page is in a
  list that edit mode does not render, and only edit mode enables it, so
  `admin_cancel_game_assignment` is not in the model. The evaluation reports two games in a slot
  of capacity two as an overlap.

---

## 7. What is not modelled

Left out of the modelled components: authorization other than "is an admin" where a property is
about it, preview and parsing of files, counters and messages, program-interest links of leads, the
audit log except in `SchedulerService`.

* **The stage of a caller** may do anything to the objects of the program; the model has what such a
  stage can return as its state, one game at a time, and not a forged ledger or context, nor forged
  lists of waiting and unplaced games. `ReportIsTrue` is about runs in which no game was taken off the
  list.
* **Coach records beyond their import**: names, certifications, attributes.
* **Availability import** (partly): its job, staged rows and ledger are in `ImportJobs`; its
  scenarios and profiles are not. Known there: `rollback_field_availability_import_job` deletes
  profiles before it looks scenarios up through them (`20260522153000…:216`).
* **Player import**: finalize, buddy pairs and coach leads are three calls of which the last two
  may fail alone (`ImportContext.jsx:856`). Its job is like the others'; players, buddies and
  re-import coalescing would be a module of the size of `CoachImport`.
* **Team persistence** (partly): coaches are in both coach modules; rosters and runs are not.
* **Practice page and practice persistence**: the structure of `GameReview` with one more kind of
  row; what differs is in section 6.
* **Browser hooks** `useAutoScheduler` (a run canceled while the session is being fetched, and a new
  one started, share one abort controller), and the stale answer of an organization switch in
  `OrganizationContext`.
* **Team review** (partly): what registrations and the staff change between two generations is in
  `TeamGeneration`; linking of buddies, eligibility (`teamingPipeline.js`) and the page's saving of
  teams are not. What is wrong with the latter is in section 6.
* **Field calendar, waivers, publication**: lookups on finished schedules by half-open ranges.
* **Evaluation, fairness, rule engine, facility graph, external mapping, reports**: pure functions
  over large tables, or arithmetic; nothing interleaves and nothing is kept.
* **Web shell, mock backend**: presentation and a test double; the migrations are the reference.

The repository has some 120 000 lines, most of them pages, season data, reports and lookups; the
modules cover what keeps state or decides. Next would come player import and practice persistence
(as extensions of `ImportJobs` and of the steps of `GameReview`).

`PROJECT.json` lists the components with their sources, the map from every definition to the lines it
models, the hazards of the code and the property that watches each.

---

## 8. How to run it

```
tlc -workers 2 -config MCCoachImport.cfg MCCoachImport    # and so on for the other configurations
tlapm ImportProofs.tla                                    # and the other seven
```

The longest runs, `game_schedule`, `coach_import`, `season_resolve` and `import_client`, take about two
minutes each with two workers; the longest proofs are `ResolveProofs` and
`FieldImportProofs`.
