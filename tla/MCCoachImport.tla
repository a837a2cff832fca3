--------------------------- MODULE MCCoachImport ---------------------------
(* Model-checking instances of CoachImport: files of two rows.              *)
EXTENDS CoachImport

Line(e, s, m) == [email |-> e, status |-> s, multi |-> m]

\* Both rows name one coach; the second makes him inactive.
SameCoach == <<Line("e1", "active", "yes"), Line("e1", "inactive", "blank")>>

\* A coach of this organization and one of another.
OneForeign == <<Line("e1", "inactive", "blank"), Line("e2", "active", "yes")>>

TwoFiles == {SameCoach, OneForeign}
=============================================================================
