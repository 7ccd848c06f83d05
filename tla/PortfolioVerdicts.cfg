SPECIFICATION Spec
CONSTANTS
  None = None
  Digits = 5
  Projects = {1, 2, 3}
  Types <- MCTypes
  Phrases <- MCPhrases
  Texts <- MCTexts
  Bag <- MCBag
  Cosine <- MCCosine
  Seed <- MCSeed
  TypeTexts <- MCTypeTexts
  AliasUse <- MCAliasUse
  TagUse <- MCTagUse
  Rows <- MCRows
  Amounts <- MCAmounts
  Certified <- MCCertified
  Values = {50}
  Closings = {}
  Metadata <- MCMetadata
  MaxLimit = 3
INVARIANTS TypeOK SimilarWorksIsACount RequirementNeverUnderstated WindowIsCompletedYears
PROPERTIES EvidenceNeverHurts FailureIsFinal
CHECK_DEADLOCK FALSE
