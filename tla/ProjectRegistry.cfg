SPECIFICATION Spec
CONSTANTS
  MaxProjects = 2
  MaxBegun = 4
  Awards = {"loa"}
  Texts = {"roads", "works"}
  Types = {"road", "bridge"}
  Matches <- MCMatches
  Batches <- MCBatches
  SeedRefs <- MCSeedRefs
  Entered <- MCEntered
  None = None
INVARIANTS TypeOK IndexedMeansFound ReportedRowsStand NoDuplicatePoison
CHECK_DEADLOCK FALSE
