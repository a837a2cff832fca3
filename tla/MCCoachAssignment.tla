------------------------- MODULE MCCoachAssignment -------------------------
(* Model-checking instances of CoachAssignment.                             *)
EXTENDS CoachAssignment, TLC

CONSTANTS c1, c2, t1, t2

Call(op, t, c, st, A) ==
    [op |-> op, team |-> t, coach |-> c, status |-> st, assistants |-> A]

Assigns   == {Call("assign", t, c, "active", {}) : t \in Teams, c \in Coaches}
             \cup {Call("assign", t1, NoCoach, "active", {})}
Inactives == {Call("status", t1, c, "inactive", {}) : c \in Coaches}
Actives   == {Call("status", t1, c, "active", {}) : c \in Coaches}
Removals  == {Call("delete", t1, c, "active", {}) : c \in Coaches}
Imports   == {Call("deactivate", t1, c, "active", {}) : c \in Coaches}
Restores  == {Call("restore", t1, c, "inactive", {}) : c \in Coaches}
Retracts  == {Call("retract", t1, c, "active", {}) : c \in Coaches}
Persists  == {Call("persist", t, c1, "active", Coaches) : t \in Teams}
             \cup {Call("persist", t1, NoCoach, "active", Coaches)}

\* A call of every kind.
EveryCall == Assigns \cup Inactives \cup Actives \cup Removals \cup Imports \cup Restores
             \cup Retracts \cup Persists
=============================================================================
