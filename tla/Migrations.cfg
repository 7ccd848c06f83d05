CONSTANTS
  None = None
  Emails = {owner, other}
  Bootstrap = owner
  MaxWrites = 3
SPECIFICATION Spec
CHECK_DEADLOCK TRUE
INVARIANTS TypeOK OnlyRetirementRefuses SchemaOfRevision LatestIsModels
PROPERTIES RecordsStand
