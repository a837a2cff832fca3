CONSTANTS
  Games = {"g1", "g2", "g3"}
  NoGame = "none"
  Slots <- MCSlots
  VenueOf <- MCVenue
  CellsOf <- MCCells
  LineageOf <- MCLineage
  FormatOf <- MCFormat
  FieldsOf <- MCFields
  Duration = 1
  Shut <- MCShut
  Baselines <- MCBaselines
  Requests <- MCRequests
  Plans <- MCPlans
  Budgets = {2}
  MaxExtra = 1
  Rewrites <- MCRewrites
  Forged <- MCForged
SPECIFICATION Spec
INVARIANTS ResolveInv HeldOrReported OnlyRequestedMove CleanStaysClean
  ReportIsTrue JudgementIsDeclared
PROPERTIES HeldStaysPut
CHECK_DEADLOCK FALSE
