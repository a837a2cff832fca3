---------------------------- MODULE GameSchedule ----------------------------
(***************************************************************************)
(* packages/core/src/gameScheduling.js: the weeks of a division are drawn  *)
(* by the circle method, then the matchups are placed one by one, each in  *)
(* the best slot of its week that has room and in which no coach of its    *)
(* teams has another game.  Whatever cannot be placed is left out with a   *)
(* reason.  A league is what the caller hands over: teams, slots, and the  *)
(* weeks of the divisions that it has drawn itself.                        *)
(*                                                                         *)
(* Ids are numbers, their order stands for the order of the strings; times *)
(* are minutes, two starts on the same minute of a day are alike.          *)
(***************************************************************************)
EXTENDS Integers, SequencesExt

CONSTANTS
    Leagues,    \* [team, slot, order, weeks]
    Shared,     \* division of a slot that any division may use
    Day         \* minutes of a day

\* A list is a sequence, whatever is in it.
IsList(s) == s \in Seq(ToSet(s))

\* SlotSchema and indexSlots; a matchup has two ids.
IsLeague(l) ==
    /\ DOMAIN l = {"team", "slot", "order", "weeks"}
    /\ DOMAIN l.team \subseteq Nat \ {0} /\ DOMAIN l.slot \subseteq Nat \ {0}
    /\ IsFiniteSet(DOMAIN l.team) /\ IsFiniteSet(DOMAIN l.slot)
    /\ \A s \in DOMAIN l.slot :
           /\ {l.slot[s].start, l.slot[s].end, l.slot[s].field} \subseteq Int
           /\ l.slot[s].priority \in Int
           /\ l.slot[s].start < l.slot[s].end
           /\ l.slot[s].capacity \in Nat
           /\ l.slot[s].week \in Nat \ {0}
    /\ IsList(l.order)
    /\ \A d \in DOMAIN l.weeks :
           /\ IsList(l.weeks[d])
           /\ \A w \in DOMAIN l.weeks[d] : l.weeks[d][w].matchups \in Seq(Nat \X Nat)

ASSUME LeagueAssumption == Day \in Nat \ {0} /\ \A l \in Leagues : IsLeague(l)

-----------------------------------------------------------------------------
(* generateRoundRobinWeeks                                                  *)

Bye == 0

\* Mutant: the first place turns with the others.
TurnAll(r) == <<r[Len(r)]>> \o SubSeq(r, 1, Len(r) - 1)

\* The first place stays, the others turn by one.
Turn(r) == <<r[1], r[Len(r)]>> \o SubSeq(r, 2, Len(r) - 1)

\* Before a is written before b.
Lexically(a, b) ==
    \E i \in DOMAIN a : a[i] < b[i] /\ \A h \in 1 .. i - 1 : a[h] = b[h]

\* A sorted list: as many come before an element as its place says.  (What
\* SetToSortSeq returns; the prover does not know the library's sorting.)
InOrder(S, before(_, _)) ==
    [i \in 1 .. Cardinality(S) |->
        CHOOSE x \in S : Cardinality({y \in S : before(y, x)}) = i - 1]

WeekOf(r) ==
    LET half     == 1 .. Len(r) \div 2
        meet(i)  == {r[i], r[Len(r) + 1 - i]}
        ordered(p) == CHOOSE m \in p \X p : m[1] < m[2]
    IN  [byes     |-> UNION {meet(i) \ {Bye} : i \in {h \in half : Bye \in meet(h)}},
         matchups |-> InOrder({ordered(meet(i)) : i \in {h \in half : Bye \notin meet(h)}},
                              Lexically)]

RoundRobinWeeks(ids) ==
    LET sorted == InOrder(ids, <)
        full   == IF Cardinality(ids) % 2 = 1 THEN Append(sorted, Bye) ELSE sorted
        rotation[w \in 1 .. Len(full) - 1] == IF w = 1 THEN full ELSE Turn(rotation[w - 1])
    IN  [w \in 1 .. Len(full) - 1 |-> WeekOf(rotation[w])]

\* The page draws the divisions that have two teams or more.
TeamsOf(l, d) == {t \in DOMAIN l.team : l.team[t].division = d}
Drawn(l) == {d \in {l.team[t].division : t \in DOMAIN l.team} \ DOMAIN l.weeks :
                 Cardinality(TeamsOf(l, d)) >= 2}
RoundRobin(l, d) == IF d \in Drawn(l) THEN RoundRobinWeeks(TeamsOf(l, d)) ELSE l.weeks[d]

\* The matchups in the order scheduleGames takes them.
Matches(l) ==
    LET inWeek(d, w, week) ==
            [i \in DOMAIN week.matchups |->
                [division |-> d, week |-> w,
                 home |-> week.matchups[i][1], away |-> week.matchups[i][2]]]
        inDivision(d) ==
            LET weeks == RoundRobin(l, d)
            IN  FlattenSeq([w \in DOMAIN weeks |-> inWeek(d, w, weeks[w])])
        played == Drawn(l) \cup DOMAIN l.weeks
    IN  FlattenSeq([k \in DOMAIN l.order |->
                       IF l.order[k] \in played THEN inDivision(l.order[k]) ELSE <<>>])

-----------------------------------------------------------------------------
(* scheduleMatchup.  b is what scheduleGames keeps between matchups; a fate *)
(* is a slot, or slot 0 and a reason.                                       *)

Coaches(l)   == UNION {l.team[t].coaches : t \in DOMAIN l.team}
Divisions(l) == {l.team[t].division : t \in DOMAIN l.team}
Minutes(l)   == {l.slot[s].start % Day : s \in DOMAIN l.slot}
NoLiking     == -1

Nothing(l) ==
    [fate    |-> <<>>,
     room    |-> [s \in DOMAIN l.slot |-> l.slot[s].capacity],              \* slotCapacityMap
     playing |-> {},                                                        \* teamWeekAssignments
     book    |-> [c \in Coaches(l) |-> {}],                                 \* coachAssignments
     used    |-> [s \in DOMAIN l.slot |-> [d \in Divisions(l) |-> 0]],      \* sharedSlotUsage
     onField |-> [f \in {l.slot[s].field : s \in DOMAIN l.slot} |->
                     [d \in Divisions(l) |-> 0]],                           \* sharedFieldUsage
     liking  |-> [t \in DOMAIN l.team |->                                   \* teamStartPreferences
                     [counts |-> [k \in Minutes(l) |-> 0], preferred |-> NoLiking]]]

Pair(m) == {m.home, m.away}
\* Mutant: only the coaches of the home team are kept in mind.
CoachesOfHome(l, m) == l.team[m.home].coaches

CoachesOf(l, m) == UNION {l.team[t].coaches : t \in Pair(m)}
Overlapping(l, s, r) ==
    l.slot[s].start < l.slot[r].end /\ l.slot[s].end > l.slot[r].start

\* hasCoachConflict
Clashes(l, b, m, s) == \E c \in CoachesOf(l, m) : \E r \in b.book[c] : Overlapping(l, s, r)

\* The candidates of the division, and those of all.
OfWeek(l, m, d) == {s \in DOMAIN l.slot : l.slot[s].week = m.week /\ l.slot[s].division = d}
WithRoom(b, slots) == {s \in slots : b.room[s] > 0}
Open(l, b, m, d) == {s \in WithRoom(b, OfWeek(l, m, d)) : ~Clashes(l, b, m, s)}

\* computeConsistencyScore
Score(l, b, m, s) ==
    Cardinality({t \in Pair(m) : b.liking[t].preferred = l.slot[s].start % Day})

\* Mutant: the use of the slot by the division is not looked at.
RankUnspread(l, b, m, s) ==
    <<-l.slot[s].priority>>
        \o <<-Score(l, b, m, s), l.slot[s].start, l.slot[s].field, s>>

\* Mutant: the use of a slot by the division comes before its priority.
RankUseFirst(l, b, m, s) ==
    (IF l.slot[s].division = Shared
     THEN <<b.used[s][m.division], b.onField[l.slot[s].field][m.division]>> ELSE <<>>)
        \o <<-l.slot[s].priority, -Score(l, b, m, s), l.slot[s].start, l.slot[s].field, s>>

\* The lower the better; a shared slot is judged by how much the division
\* has used it, and its field, before the times its teams are used to.
Rank(l, b, m, s) ==
    <<-l.slot[s].priority>>
        \o (IF l.slot[s].division = Shared
            THEN <<b.used[s][m.division], b.onField[l.slot[s].field][m.division]>> ELSE <<>>)
        \o <<-Score(l, b, m, s), l.slot[s].start, l.slot[s].field, s>>

Best(l, b, m, slots) ==
    CHOOSE s \in slots : \A r \in slots \ {s} : Lexically(Rank(l, b, m, s), Rank(l, b, m, r))

LeaveOut(b, reason) == [b EXCEPT !.fate = Append(@, [slot |-> 0, reason |-> reason])]

\* updateTeamStartPreference
Liking(old, minute) ==
    LET counts == [old.counts EXCEPT ![minute] = @ + 1] IN
        [counts    |-> counts,
         preferred |-> IF old.preferred = NoLiking \/ counts[minute] > counts[old.preferred]
                       THEN minute ELSE old.preferred]

Book(l, b, m, s) ==
    LET shared(n) == IF l.slot[s].division = Shared THEN n + 1 ELSE n IN
        [fate    |-> Append(b.fate, [slot |-> s, reason |-> "none"]),
         room    |-> [b.room EXCEPT ![s] = @ - 1],
         playing |-> b.playing \cup {<<t, m.week>> : t \in Pair(m)},
         book    |-> [c \in DOMAIN b.book |->
                         IF c \in CoachesOf(l, m) THEN b.book[c] \cup {s} ELSE b.book[c]],
         used    |-> [b.used EXCEPT ![s][m.division] = shared(@)],
         onField |-> [b.onField EXCEPT ![l.slot[s].field][m.division] = shared(@)],
         liking  |-> [t \in DOMAIN b.liking |->
                         IF t \in Pair(m) THEN Liking(b.liking[t], l.slot[s].start % Day)
                         ELSE b.liking[t]]]

\* The matchup is refused before any slot is looked at.
Refusal(l, b, m) ==
    IF ~(Pair(m) \subseteq DOMAIN l.team) THEN "unknown-team"
    ELSE IF ~(Pair(m) \subseteq TeamsOf(l, m.division)) THEN "division-mismatch"
    ELSE IF \E t \in Pair(m) : <<t, m.week>> \in b.playing THEN "duplicate-matchup"
    ELSE IF l.team[m.home].coaches \cap l.team[m.away].coaches # {}
         THEN "coach-coaches-both-teams"
    ELSE "none"

\* scheduleMatchup and selectSlotForMatchup
Placed(l, b, m) ==
    LET refusal == Refusal(l, b, m)
        own     == Open(l, b, m, m.division)
        shared  == Open(l, b, m, Shared)
        clash   == WithRoom(b, OfWeek(l, m, m.division) \cup OfWeek(l, m, Shared)) # {}
    IN  IF refusal # "none" THEN LeaveOut(b, refusal)
        ELSE IF own # {} THEN Book(l, b, m, Best(l, b, m, own))
        ELSE IF shared # {} THEN Book(l, b, m, Best(l, b, m, shared))
        ELSE LeaveOut(b, IF clash THEN "coach-scheduling-conflict" ELSE "no-slot-available")

\* What a league comes to, placed at one go.
Scheduled(l) ==
    LET matches == Matches(l)
        after[k \in 0 .. Len(matches)] ==
            IF k = 0 THEN Nothing(l) ELSE Placed(l, after[k - 1], matches[k])
    IN  after[Len(matches)]

-----------------------------------------------------------------------------
(* scheduleGames, matchup by matchup.                                       *)

VARIABLES
    league,
    matches,    \* the matchups of roundRobinByDivision
    built       \* what has become of those taken so far

gameVars == <<league, matches, built>>

GameInit ==
    /\ league \in Leagues
    /\ matches = Matches(league)
    /\ built = Nothing(league)

Taken == DOMAIN built.fate
Done  == Taken = DOMAIN matches

PlaceNext ==
    /\ ~Done
    /\ built' = Placed(league, built, matches[Len(built.fate) + 1])
    /\ UNCHANGED <<league, matches>>

-----------------------------------------------------------------------------
(* Properties.                                                              *)

SlotOf(i) == built.fate[i].slot
Games     == {i \in Taken : SlotOf(i) # 0}
In(s)     == {i \in Games : SlotOf(i) = s}
Full(s)   == Cardinality(In(s)) >= league.slot[s].capacity
Share(i, j) ==
    \E t \in Pair(matches[i]), u \in Pair(matches[j]) :
        league.team[t].coaches \cap league.team[u].coaches # {}

\* Some coach of matchup i has another game at the time of slot s.
Taught(i, s) == \E j \in Games \ {i} : Share(i, j) /\ Overlapping(league, s, SlotOf(j))

\* generateRoundRobinWeeks: a drawn division meets completely: every two of its teams once, nobody
\* twice in a week or not at all, and the one without an opponent has a bye.
RoundRobinComplete ==
    \A d \in Drawn(league) :
        LET weeks == RoundRobin(league, d)
            ids   == TeamsOf(league, d)
            held(w) == {{m[1], m[2]} : m \in {weeks[w].matchups[i] : i \in DOMAIN weeks[w].matchups}}
        IN  /\ \A t, u \in ids : t # u => Cardinality({w \in DOMAIN weeks : {t, u} \in held(w)}) = 1
            /\ \A w \in DOMAIN weeks, t \in ids :
                   Cardinality({p \in held(w) : t \in p}) = IF t \in weeks[w].byes THEN 0 ELSE 1
            /\ \A t \in ids : Cardinality({w \in DOMAIN weeks : t \in weeks[w].byes})
                                  = Cardinality(ids) % 2

\* scheduleGames: no slot holds more games than it has room for, no team has two games in
\* a week, no coach - head or assistant, of whatever division - two games
\* that overlap, and the maps kept along the way say what the games say.
GamesSound ==
    /\ \A i \in Games : LET m == matches[i] IN
           /\ league.slot[SlotOf(i)].week = m.week
           /\ league.slot[SlotOf(i)].division \in {m.division, Shared}
           /\ Pair(m) \subseteq TeamsOf(league, m.division)
           /\ ~Taught(i, SlotOf(i))
           /\ \A j \in Games \ {i} : matches[j].week = m.week => Pair(matches[j]) \cap Pair(m) = {}
    /\ \A s \in DOMAIN league.slot :
           /\ built.room[s] >= 0
           /\ built.room[s] + Cardinality(In(s)) = league.slot[s].capacity
    /\ \A t \in DOMAIN league.team :
           LET times(k) == {i \in Games : /\ t \in Pair(matches[i])
                                          /\ league.slot[SlotOf(i)].start % Day = k}
               liked    == built.liking[t].preferred
           IN  liked # NoLiking =>
                   \A k \in Minutes(league) : Cardinality(times(k)) <= Cardinality(times(liked))

\* selectSlotForMatchup never looks back, and the maps only fill up: a
\* matchup without a slot would still fit nowhere in the finished
\* schedule, and no game is in a shared slot, or in one of lower priority,
\* while a slot of the division, or one of higher priority, could take it.
NothingBetterLeft ==
    \A i \in Taken : LET m     == matches[i]
                        fate  == built.fate[i]
                        better(s) ==
                            \/ fate.slot = 0
                            \/ /\ league.slot[s].division # Shared
                               /\ league.slot[fate.slot].division = Shared
                            \/ /\ league.slot[s].division = league.slot[fate.slot].division
                               /\ league.slot[s].priority > league.slot[fate.slot].priority
    IN  fate.reason \in {"none", "no-slot-available", "coach-scheduling-conflict"} =>
            \A s \in OfWeek(league, m, m.division) \cup OfWeek(league, m, Shared) :
                better(s) => /\ Full(s) \/ Taught(i, s)
                             /\ fate.reason = "no-slot-available" => Full(s)

\* sharedSlotUsage spreads a division: of two shared slots of a week and
\* priority it uses neither two times more than the other, unless the other
\* is full or some coach of those games is busy then.
SharedSpread ==
    \A d \in Divisions(league), s, r \in DOMAIN league.slot :
        LET of(x) == {i \in In(x) : matches[i].division = d} IN
            /\ league.slot[s].division = Shared /\ league.slot[r].division = Shared
            /\ league.slot[s].week = league.slot[r].week
            /\ league.slot[s].priority = league.slot[r].priority
            /\ Cardinality(of(s)) > Cardinality(of(r)) + 1
            => Full(r) \/ \E i \in of(s) : Taught(i, r)
=============================================================================
