--------------------------- MODULE MCFieldImport ---------------------------
(* Two field imports into an organization with or without the field they   *)
(* name: one names it twice, for a practice slot on a half and for a game  *)
(* slot, the other names the same practice slot and has a row that does    *)
(* not apply.                                                              *)
EXTENDS FieldImport

MCRow(half, slot, time, details, valid) ==
    [location |-> "park", field |-> "one", half |-> half, slot |-> slot,
     time |-> time, details |-> details, valid |-> valid]

MCFile == "j1" :> (1 :> MCRow("A", "practice_slots", "monday", FALSE, TRUE)
                @@ 2 :> MCRow(Nil, "game_slots", "saturday", TRUE, TRUE))
       @@ "j2" :> (1 :> MCRow("A", "practice_slots", "monday", TRUE, TRUE)
                @@ 2 :> MCRow(Nil, "game_slots", "saturday", FALSE, FALSE))

MCSeed(table, parent, name) ==
    [table |-> table, parent |-> parent, half |-> Nil, name |-> name, val |-> "seed"]

MCSeeds == {<<>>, <<MCSeed("locations", Nil, "park"), MCSeed("fields", 1, "one")>>}
=============================================================================
