----------------------------- MODULE GameReview -----------------------------
(***************************************************************************)
(* The game page (GameSchedulingPage.jsx) and what persist_game_schedule   *)
(* makes of its calls.  A tab generates a schedule, moves games by hand,   *)
(* applies what it has staged and takes the last application back; another *)
(* tab does the same, and teams are deleted meanwhile.                     *)
(* Calls may be slow, lost on the way there or on the way back, and have   *)
(* no time limit.                                                          *)
(*                                                                         *)
(* A list of games is a function from the two teams of a game to its slot; *)
(* a run is known by its completed_at, which the tab stamps on the call:   *)
(* the clocks of the tabs agree and no two stamps are alike.               *)
(***************************************************************************)
EXTENDS GameSchedule

CONSTANTS
    Tabs,
    NoTab,
    NoList,
    Reviewed,   \* bounds: the leagues that are brought to the page,
    Used,       \* the tabs used for each,
    Calls,      \* the calls they send for it
    Leaving     \* and the teams that may be deleted

ASSUME ReviewAssumption ==
    /\ Reviewed \subseteq Leagues /\ NoTab \notin Tabs
    /\ \A l \in Reviewed :
           Used[l] \subseteq Tabs /\ Calls[l] \in Nat /\ Leaving[l] \subseteq DOMAIN l.team

VARIABLES
    teams,      \* teams
    rows,       \* game_assignments: the run of a row
    stored,     \* scheduler_runs: their stamps in the order they were stored
    calls,      \* calls sent, by stamp
    local,      \* localAssignments
    review,     \* reviewAssignments
    last,       \* lastRollbackAssignments, and the call they are from
    source,     \* the run of localAssignments
    awaited,    \* the run whose rows are being read
    busy,       \* the button of this kind of call is disabled: applyStatus
    roster      \* the teams the page has loaded

pageVars   == <<local, review, last, source, awaited, busy, roster>>
storeVars  == <<teams, rows, stored>>
reviewVars == <<storeVars, calls, pageVars>>

NoRun == 0
NoUndo == [list |-> NoList, call |-> NoRun]
RowsOf(list) == {<<p, list[p]>> : p \in DOMAIN list}
Unserved == {"sent", "checked"}
ListOf(keys) == [p \in {k[1] : k \in keys} |-> (CHOOSE k \in keys : k[1] = p)[2]]

\* scheduleGames for the teams the page knows.
Left(ids) == [league EXCEPT !.team = [t \in ids |-> @[t]]]
Generated(l) ==
    LET m == Matches(l)
        b == Scheduled(l)
        placed == {i \in DOMAIN m : b.fate[i].slot # 0}
    IN  ListOf({<<Pair(m[i]), b.fate[i].slot>> : i \in placed})

\* The season has no schedule yet, or the one that was generated and stored
\* before the tabs were loaded.
Opened(list) ==
    /\ calls  = <<[tab |-> NoTab, kind |-> "opened", list |-> list, state |-> "over",
                   before |-> <<>>, undoes |-> NoRun]>>
    /\ stored = <<1>>
    /\ rows   = [k \in RowsOf(list) |-> 1]
    /\ local  = [t \in Tabs |-> list]
    /\ source = [t \in Tabs |-> 1]

Unopened ==
    /\ calls = <<>> /\ stored = <<>> /\ rows = <<>>
    /\ local  = [t \in Tabs |-> <<>>]
    /\ source = [t \in Tabs |-> NoRun]

ReviewInit ==
    /\ GameInit
    /\ Unopened \/ (league \in Reviewed /\ Opened(Generated(league)))
    /\ teams   = DOMAIN league.team
    /\ review  = [t \in Tabs |-> NoList]
    /\ last    = [t \in Tabs |-> NoUndo]
    /\ awaited = [t \in Tabs |-> NoRun]
    /\ busy    = [t \in Tabs |-> "none"]
    /\ roster  = [t \in Tabs |-> DOMAIN league.team]

-----------------------------------------------------------------------------
(* The page loads.                                                          *)

\* The latest run by completed_at, and the rows that bear its id.
Newest ==
    IF stored = <<>> THEN NoRun
    ELSE CHOOSE r \in ToSet(stored) : \A q \in ToSet(stored) : q <= r
Content(r) == {k \in DOMAIN rows : rows[k] = r}
\* Whatever the tab still awaits is awaited by nobody.
Load(t) ==
    /\ local'   = [local EXCEPT ![t] = <<>>]
    /\ review'  = [review EXCEPT ![t] = NoList]
    /\ last'    = [last EXCEPT ![t] = NoUndo]
    /\ source'  = [source EXCEPT ![t] = Newest]
    /\ awaited' = [awaited EXCEPT ![t] = Newest]
    /\ busy'  = [busy EXCEPT ![t] = "none"]
    /\ roster'  = [roster EXCEPT ![t] = teams]
    /\ calls'   = [c \in DOMAIN calls |->
                      IF calls[c].tab = t THEN [calls[c] EXCEPT !.tab = NoTab] ELSE calls[c]]
    /\ UNCHANGED storeVars

\* The second query.  It does not wait for what the admin does meanwhile.
RowsArrive(t) ==
    /\ awaited[t] # NoRun
    /\ awaited' = [awaited EXCEPT ![t] = NoRun]
    /\ local'   = [local EXCEPT ![t] = ListOf(Content(awaited[t]))]
    /\ source'  = [source EXCEPT ![t] = awaited[t]]
    /\ UNCHANGED <<storeVars, calls, review, last, busy, roster>>

-----------------------------------------------------------------------------
(* The admin.                                                               *)

Shown(t) == IF review[t] = NoList THEN local[t] ELSE review[t]

Stage(t, list) ==
    /\ review' = [review EXCEPT ![t] = list]
    /\ busy' = [busy EXCEPT ![t] = "none"]
    /\ UNCHANGED <<storeVars, calls, local, last, source, awaited, roster>>

Generate(t) ==
    /\ roster[t] # {}
    /\ Stage(t, Generated(Left(roster[t])))

\* handleDragEnd: any slot will do, whatever is in it.
Drag(t, p, s) ==
    /\ p \in DOMAIN Shown(t) /\ Shown(t)[p] # s
    /\ Stage(t, [Shown(t) EXCEPT ![p] = s])

Discard(t) ==
    /\ review[t] # NoList /\ busy[t] # "apply"
    /\ review' = [review EXCEPT ![t] = NoList]
    /\ busy' = [busy EXCEPT ![t] = "none"]
    /\ UNCHANGED <<storeVars, calls, local, last, source, awaited, roster>>

Send(t, kind, list) ==
    /\ Len(SelectSeq(calls, LAMBDA c : c.kind # "opened")) < Calls[league]
    /\ calls' = Append(calls, [tab |-> t, kind |-> kind, list |-> list, state |-> "sent",
                               before |-> IF kind = "apply" THEN local[t] ELSE <<>>,
                               undoes |-> IF kind = "apply" THEN NoRun ELSE last[t].call])
    /\ busy' = [busy EXCEPT ![t] = kind]
    /\ UNCHANGED <<storeVars, local, review, last, source, awaited, roster>>

\* Staging anything while a call is on its way frees the button again.
Apply(t) ==
    /\ review[t] # NoList /\ busy[t] # "apply"
    /\ Send(t, "apply", review[t])

Rollback(t) ==
    /\ review[t] = NoList /\ last[t].list # NoList /\ busy[t] # "rollback"
    /\ Send(t, "rollback", last[t].list)

-----------------------------------------------------------------------------
(* The server.                                                              *)

\* Mutant: a row that exists already keeps its run.
UpsertIgnoring(list, run) ==
    [k \in DOMAIN rows \cup RowsOf(list) |-> IF k \in DOMAIN rows THEN rows[k] ELSE run]

\* One row for a game, slot and week: a row that exists changes its run, a
\* row that is not in the list keeps the one it has.
Upsert(list, run) ==
    [k \in DOMAIN rows \cup RowsOf(list) |-> IF k \in RowsOf(list) THEN run ELSE rows[k]]

\* persist_game_schedule refuses a list for want of a team,
Validate(c) ==
    /\ calls[c].state = "sent"
    /\ UNION DOMAIN calls[c].list \subseteq teams
    /\ calls' = [calls EXCEPT ![c].state = "checked"]
    /\ UNCHANGED <<storeVars, pageVars>>

\* but stores it without the games of those deleted since.
OfTeams(list) == [p \in {q \in DOMAIN list : q \subseteq teams} |-> list[p]]

Serve(c, a) ==
    /\ calls[c].state = "checked"
    /\ stored' = Append(stored, c)
    /\ rows' = Upsert(OfTeams(calls[c].list), c)
    /\ calls' = [calls EXCEPT ![c].state = a]
    /\ UNCHANGED <<teams, pageVars>>

\* Refused, or lost on its way.
NotServed(c) ==
    /\ calls[c].state \in Unserved
    /\ calls' = [calls EXCEPT ![c] = [@ EXCEPT !.state = "error", !.list = <<>>, !.before = <<>>]]
    /\ UNCHANGED <<storeVars, pageVars>>

\* admin_delete_team: the rows of its games go with it.
DeleteTeam(id) ==
    /\ id \in teams
    /\ teams' = teams \ {id}
    /\ rows' = [h \in {k \in DOMAIN rows : id \notin k[1]} |-> rows[h]]
    /\ UNCHANGED <<stored, calls, pageVars>>

-----------------------------------------------------------------------------
(* The answer: the page goes on with what it held when it sent the call.    *)

Consumed(c) == calls' = [calls EXCEPT ![c].tab = NoTab, ![c].state = "over"]

\* Mutant: the games just applied are kept for the rollback.
AppliedKeepingNew(t, c) ==
    /\ calls[c].kind = "apply" /\ calls[c].state = "ok"
    /\ local'  = [local EXCEPT ![t] = calls[c].list]
    /\ last'   = [last EXCEPT ![t] = [list |-> calls[c].list, call |-> c]]
    /\ review' = [review EXCEPT ![t] = NoList]
    /\ source' = [source EXCEPT ![t] = c]
    /\ busy' = [busy EXCEPT ![t] = "none"]

\* Edits staged since then are dropped.
Applied(t, c) ==
    /\ calls[c].kind = "apply" /\ calls[c].state = "ok"
    /\ local'  = [local EXCEPT ![t] = calls[c].list]
    /\ last'   = [last EXCEPT ![t] = [list |-> calls[c].before, call |-> c]]
    /\ review' = [review EXCEPT ![t] = NoList]
    /\ source' = [source EXCEPT ![t] = c]
    /\ busy' = [busy EXCEPT ![t] = "none"]

RolledBack(t, c) ==
    /\ calls[c].kind = "rollback" /\ calls[c].state = "ok"
    /\ local'  = [local EXCEPT ![t] = calls[c].list]
    /\ last'   = [last EXCEPT ![t] = NoUndo]
    /\ source' = [source EXCEPT ![t] = c]
    /\ busy' = [busy EXCEPT ![t] = "none"]
    /\ UNCHANGED review

Failed(t, c) ==
    /\ calls[c].state = "error"
    /\ busy' = [busy EXCEPT ![t] = "none"]
    /\ UNCHANGED <<local, last, review, source>>

Answered(c) ==
    \E t \in Tabs :
        /\ calls[c].tab = t
        /\ Applied(t, c) \/ RolledBack(t, c) \/ Failed(t, c)
        /\ Consumed(c)
        /\ UNCHANGED <<storeVars, awaited, roster>>

-----------------------------------------------------------------------------
TabStep(t) ==
    \/ Load(t) \/ RowsArrive(t) \/ Generate(t) \/ Discard(t) \/ Apply(t) \/ Rollback(t)
    \/ \E p \in DOMAIN Shown(t), s \in DOMAIN league.slot : Drag(t, p, s)

CallStep(c) ==
    \/ Validate(c) \/ NotServed(c) \/ Answered(c)
    \/ \E a \in {"ok", "error"} : Serve(c, a)

ReviewStep ==
    \/ \E t \in Used[league] : TabStep(t)
    \/ \E c \in DOMAIN calls : CallStep(c)
    \/ \E id \in Leaving[league] : DeleteTeam(id)

ReviewNext ==
    \/ PlaceNext /\ UNCHANGED reviewVars
    \/ Done /\ league \in Reviewed /\ ReviewStep /\ UNCHANGED gameVars

ReviewSpec == ReviewInit /\ [][ReviewNext]_<<gameVars, reviewVars>>

-----------------------------------------------------------------------------
(* Properties.                                                              *)

StoredAfter(q, r) ==
    \E i, j \in DOMAIN stored : stored[i] = r /\ stored[j] = q /\ i < j

Removed(k) == ~(k[1] \subseteq teams)

\* A game that a run listed and no longer has went with a team, or is listed
\* by a run that was stored later.
Accounted(k, r) ==
    IF k \in DOMAIN rows THEN rows[k] = r \/ StoredAfter(rows[k], r) ELSE Removed(k)

\* persist_game_schedule moves rows from run to run, and the page asks for
\* those of one run only: the run that a page would load now holds the games
\* it was stored with and no others, unless a call stamped earlier came
\* later, and what a tab shows as the schedule of a run was stored under it.
ShownIsWhole ==
    /\ Newest # NoRun =>
           /\ Content(Newest) \subseteq RowsOf(calls[Newest].list)
           /\ \A k \in RowsOf(calls[Newest].list) : Accounted(k, Newest)
    /\ \A t \in Tabs : source[t] # NoRun =>
           /\ source[t] \in ToSet(stored)
           /\ \A k \in RowsOf(local[t]) : Accounted(k, source[t])

\* handleRollbackLastApply sends the list that the page held when it applied:
\* while a rollback is what was stored last, whatever was stored since, and
\* from whichever tab, its rows are those that were on show before the apply
\* it takes back, but for games of deleted teams.
RollbackRestores ==
    stored # <<>> =>
        LET r == stored[Len(stored)] a == calls[r].undoes IN
            calls[r].kind = "rollback" =>
                /\ a \in ToSet(stored)
                /\ Content(r) = {k \in RowsOf(calls[a].before) : ~Removed(k)}
=============================================================================
