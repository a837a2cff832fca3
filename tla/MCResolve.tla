----------------------------- MODULE MCResolve -----------------------------
(* A season of three games on two half fields that share ground with a      *)
(* full one, two kickoffs on one date and one on another.                   *)
EXTENDS Resolve, TLC

Slot(d, f, t) == [date |-> d, surface |-> f, start |-> t]
MCSlots == {Slot(1, "a", 1), Slot(1, "a", 2), Slot(1, "b", 1), Slot(1, "b", 2),
            Slot(1, "full", 1), Slot(2, "a", 1)}
MCForged == {Slot(1, "a", 2)}
MCRewrites == {{"placement"}, {"placement", "disposition"}, {"placement", "pin"},
               {"placement", "baseline"}, {"list"}}
MCShut == {Slot(1, "b", 2)}
MCVenue == [f \in {"a", "b", "full"} |-> "park"]
MCCells == [f \in {"a", "b", "full"} |->
              IF f = "a" THEN {1} ELSE IF f = "b" THEN {2} ELSE {1, 2}]
MCLineage == [f \in {"a", "b", "full"} |-> {f, "full"}]
MCFormat == [g \in Games |-> "7v7"]
MCFields == [g \in Games |-> IF g = "g3" THEN [f \in {"format"} |-> {"7v7"}]
              ELSE [f \in {"team", "format"} |->
                      IF f = "format" THEN {"7v7"} ELSE {"t1", g}]]

Board(x, y, z) == [g \in Games |-> IF g = "g1" THEN x ELSE IF g = "g2" THEN y ELSE z]
MCBaselines == {Board(Slot(1, "a", 1), Slot(1, "b", 1), Slot(1, "a", 2)),
                Board(Slot(1, "a", 1), Slot(1, "a", 2), Slot(2, "a", 1)),
                Board(Slot(1, "a", 1), Slot(1, "a", 1), Slot(1, "b", 1))}

Ask(g, s) == [h \in {g} |-> s]
Ask2(g, s, h, t) == [x \in {g, h} |-> IF x = g THEN s ELSE t]
MCRequests == {[h \in {} |-> MCShut],
               Ask("g1", Slot(1, "a", 2)), Ask("g1", Slot(1, "full", 1)),
               Ask("g2", Slot(1, "a", 1)), Ask("g3", Slot(1, "b", 2)),
               Ask("g3", Slot(2, "a", 1)), Ask("x", Slot(1, "a", 1)),
               Ask2("g1", Slot(1, "a", 2), "g3", Slot(1, "a", 1)),
               Ask2("g1", Slot(1, "a", 2), "g2", Slot(1, "a", 2))}

Rule(k, m) == [kind |-> k, match |-> m]
On(d, v) == [x \in {d} |-> v]
MCPlans ==
  [p \in {"teams", "ties", "season", "held"} |->
    CASE p = "teams"  -> [default |-> "frozen",
           rules |-> <<Rule("thaw", On("date", {1})), Rule("freeze", On("team", {"g2"}))>>]
      [] p = "ties"   -> [default |-> "frozen",
           rules |-> <<Rule("freeze", On("venue", {"park"})), Rule("thaw", On("date", {1})),
                       Rule("thaw", On("surface", {"a"})), Rule("freeze", On("surface", {"b"})),
                       Rule("freeze", [x \in {"surface", "date"} |->
                              IF x = "date" THEN {2} ELSE {"a"}])>>]
      [] p = "season" -> [default |-> "thawed", rules |-> <<>>]
      [] p = "held"   -> [default |-> "thawed",
           rules |-> <<Rule("freeze", On("date-range", {1, 2})), Rule("thaw", On("team", {"t1"}))>>]]
=============================================================================
