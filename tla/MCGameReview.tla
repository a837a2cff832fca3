---------------------------- MODULE MCGameReview ----------------------------
EXTENDS GameReview, TLC

CONSTANTS t1, t2

Team(d, cs) == [division |-> d, coaches |-> cs]
Slot(d, w, minute, field, priority, capacity) ==
    LET start == 7 * Day * w + minute IN
        [division |-> d, week |-> w, start |-> start, end |-> start + 60,
         field |-> field, priority |-> priority, capacity |-> capacity]

\* Two games and two slots on one tab, a game on two: what the page and the
\* store are asked about.
Small ==
    [team  |-> [t \in 1 .. 4 |-> Team(IF t <= 2 THEN "u10" ELSE "u12", {})],
     slot  |-> [s \in 1 .. 2 |-> Slot("any", 1, 600, s, 1, 1)],
     order |-> <<"u10", "u12">>, weeks |-> <<>>]
One ==
    [team  |-> [t \in 1 .. 2 |-> Team("u10", {})],
     slot  |-> [s \in 1 .. 2 |-> Slot("any", 1, 600, s, 1, 1)],
     order |-> <<"u10">>, weeks |-> <<>>]

\* Seven teams; a field of their own, which is closed in one week, and two
\* that others may use.
Wide ==
    [team  |-> [t \in 1 .. 7 |-> Team("u10", IF t \in {1, 4} THEN {"ada"} ELSE {})],
     slot  |-> [s \in 1 .. 21 |->
                   LET w == (s - 1) \div 3 + 1 IN
                   CASE s % 3 = 0 -> Slot("any", w, 600, 1, 1, 2)
                     [] s % 3 = 1 -> Slot("any", w, 540 + 60 * (w % 2), 2, 1, 2)
                     [] OTHER     -> Slot("u10", w, 600, 3, 1, IF w = 3 THEN 0 ELSE 1)],
     order |-> <<"u10">>, weeks |-> <<>>]

\* Two divisions share slots of two priorities; coaches have teams in both,
\* one has two teams in one, and in a week the second division has no room.
Mixed ==
    [team  |-> [t \in 1 .. 8 |-> Team(IF t <= 5 THEN "u10" ELSE "u12",
                    CASE t \in {1, 6} -> {"ada"} [] t \in {2, 7} -> {"ben"}
                      [] t \in {3, 4} -> {"cy"} [] OTHER -> {})],
     slot  |-> [s \in 1 .. 15 |->
                   LET w == (s - 1) \div 3 + 1 IN
                   CASE s % 3 = 0 -> Slot("any", w, 600, 1, 2, 1)
                     [] s % 3 = 1 -> Slot("any", w, 630, 2, 1, IF w = 2 THEN 1 ELSE 2)
                     [] OTHER     -> Slot("u12", w, 600, 3, 1, IF w = 2 THEN 0 ELSE 1)],
     order |-> <<"u10", "u12">>, weeks |-> <<>>]

\* Whoever coaches the four teams of one division and the two of another,
\* in slots that overlap or not.
Coached ==
    {[team  |-> [t \in 1 .. 6 |-> Team(IF t <= 4 THEN "u10" ELSE "u12",
                     IF t <= 4 THEN who[t] ELSE IF t = 5 THEN {"ada"} ELSE {"ben"})],
      slot  |-> [s \in 1 .. 9 |->
                    LET w == (s - 1) \div 3 + 1 IN
                    CASE s % 3 = 0 -> Slot("any", w, 600, 1, 1, 1)
                      [] s % 3 = 1 -> Slot("any", w, 600 + gap, 2, 1, 2)
                      [] OTHER     -> Slot("u10", w, 600 + 2 * gap, 1, 1, 1)],
      order |-> <<"u12", "u10">>, weeks |-> <<>>]
     : who \in [1 .. 4 -> {{}, {"ada"}, {"ada", "ben"}}], gap \in {30, 60}}

\* Weeks drawn by hand, with everything that can be wrong about them.
ByHand ==
    [team  |-> [t \in 1 .. 5 |-> Team(IF t <= 4 THEN "u10" ELSE "u12",
                                      IF t \in {3, 4} THEN {"cy"} ELSE {})],
     slot  |-> [s \in 1 .. 4 |-> Slot("any", 1, 600, s, 1, 3)],
     order |-> <<"u10">>,
     weeks |-> "u10" :> <<[byes |-> {},
                           matchups |-> <<<<1, 2>>, <<1, 3>>, <<3, 4>>, <<2, 5>>, <<4, 9>>>>]>>]

MCReviewed == {Small, One}
MCLeagues  == {Small, One, Wide, Mixed, ByHand} \cup Coached
MCUsed     == (Small :> {t1}) @@ (One :> {t1, t2})
MCCalls    == (Small :> 2) @@ (One :> 2)
MCLeaving  == (Small :> {1}) @@ (One :> {})

\* Where both tabs are used they may be exchanged; where one is, nothing ever
\* tells of the other.
MCAlike == Permutations({t1, t2})
=============================================================================
