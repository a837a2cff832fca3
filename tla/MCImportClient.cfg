SPECIFICATION VisitedSpec
CONSTANTS
    Jobs = {j1}
    Rows = {1, 2}
    Targets = {c1}
    Kinds = {"coaches"}
    Tabs = {t1, t2}
    Batches <- TwoBatches
    NoJob = NoJob
INVARIANTS
    ClientInv
PROPERTY AppliedRowsStay
PROPERTY ImportsEnd
