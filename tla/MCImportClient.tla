--------------------------- MODULE MCImportClient ---------------------------
(* Model-checking instances of ImportClient.                                *)
EXTENDS ImportClient, TLC

TwoBatches == <<{1}, {2}>>
=============================================================================
