------------------------ MODULE MCPracticeSchedule ------------------------
(***************************************************************************)
(* Seven teams, one locked; two coaches have two teams each and one team   *)
(* has two coaches.  The slots outside school hours seat six, so somebody  *)
(* is always left over, and two of them overlap.                           *)
(***************************************************************************)
EXTENDS PracticeSchedule, TLC

MCTeams    == {"t1", "t2", "t3", "t4", "t5", "t6", "t7"}
MCSlots    == {"mon", "mon late", "tue", "wed", "school"}
MCCapacity == [s \in MCSlots |-> IF s \in {"tue", "wed"} THEN 2 ELSE 1]
MCCoaches  == "t1" :> {"ada"} @@ "t2" :> {"ada"} @@ "t3" :> {"ben"} @@ "t4" :> {}
              @@ "t5" :> {"ben", "cy"} @@ "t6" :> {"cy"} @@ "t7" :> {"di"}
MCOverlap  == {<<s, s>> : s \in MCSlots}
              \cup {<<"mon", "mon late">>, <<"mon late", "mon">>}
MCUnavailable ==
    [t \in MCTeams |-> CASE t = "t3" -> {"mon late"} [] t = "t5" -> {"mon"}
                         [] t = "t7" -> {"wed", "mon", "mon late"} [] OTHER -> {}]
MCLocked   == "t1" :> "tue"
MCEarly    == {"school"}
MCBase     == [s \in MCSlots |-> IF s = "mon late" THEN "mon" ELSE s]
MCDivision == [t \in MCTeams |-> IF t \in {"t1", "t3", "t6"} THEN "u10" ELSE "u12"]

\* A team placed counts more than a slot at school costs; some slots please.
Pleasing == {<<"t2", "wed">>, <<"t3", "tue">>, <<"t4", "school">>, <<"t5", "mon late">>}

MCFitness(a) ==
    40 * Cardinality(DOMAIN a)
        - 37 * Cardinality({t \in DOMAIN a : a[t] \in MCEarly})
        + 2 * Cardinality({t \in DOMAIN a : <<t, a[t]>> \in Pleasing})
=============================================================================
