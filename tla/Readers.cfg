SPECIFICATION Spec
CONSTANTS
  Docs <- MCDocs
  HeaderRows = 2
  Aliases <- MCAliases
  Folded <- MCFolded
  None = None
INVARIANTS  RowsStandWhereTheySay BoqFollowsHeading UnitIsHonoured
CHECK_DEADLOCK FALSE
