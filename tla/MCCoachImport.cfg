\* One job, a file of two rows, two coach ids, one address besides a foreign one.
SPECIFICATION CoachSpec
CONSTANTS
    Jobs = {j1}
    Rows = {1, 2}
    Targets = {1, 2}
    Kinds = {"coaches"}
    Emails = {"e1", "e2"}
    ForeignEmails = {"e2"}
    Files <- TwoFiles
    AdminStatuses = {"inactive"}
    NoCoach = NoCoach
INVARIANTS
    CommitsFit
    JobsAgree
PROPERTIES
    RollbackRestores
