SPECIFICATION Spec
CONSTANTS
    Jobs = {"j1", "j2"}
    Rows = {1, 2}
    MaxId = 5
    Nil = Nil
    Names = {"one"}
    File <- MCFile
    Seeds <- MCSeeds
INVARIANT TablesSound
PROPERTIES
    
    KeptForReason
    RollbackRestores
    ImplementsImportJobs
CHECK_DEADLOCK FALSE
