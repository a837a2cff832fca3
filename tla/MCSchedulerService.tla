------------------------ MODULE MCSchedulerService ------------------------
(***************************************************************************)
(* Two locked teams that overfill a slot and share a coach, four teams to  *)
(* place and one that cannot be; two slots overlap.                        *)
(***************************************************************************)
EXTENDS SchedulerService, TLC

MCTeams    == {"t1", "t2", "t3", "t4", "t5", "t6", "t7"}
MCSlots    == {"mon", "mon late", "tue", "wed"}
MCCapacity == [s \in MCSlots |-> IF s = "tue" THEN 2 ELSE 1]
MCCoaches  == "t1" :> {"ada"} @@ "t2" :> {"ada"} @@ "t3" :> {"ben"} @@ "t4" :> {}
              @@ "t5" :> {"ben", "cy"} @@ "t6" :> {"cy"} @@ "t7" :> {"ada"}
MCOverlap  == {<<s, s>> : s \in MCSlots}
              \cup {<<"mon", "mon late">>, <<"mon late", "mon">>}
MCUnavailable == [t \in MCTeams |-> IF t = "t6" THEN {"mon"} ELSE {}]
MCLocked   == "t1" :> "wed" @@ "t2" :> "wed"
=============================================================================
