SPECIFICATION Spec
CONSTANTS
  Tenders = {1, 2}
  Docs = {1, 2}
  Contents = {a}
  Requests = {r1}
  Downloader = downloader
  Workflow = workflow
  None = None
  DownloadBatch = 1
  WorkflowBatch = 1
  MaxBatch = 1
  Closings = {"older", "past"}
  Ops = {"create", "upload", "extract", "retire"}
  Faults = {}
  Unreadable = {}
  Serial = TRUE
INVARIANTS RetirementContinues
CHECK_DEADLOCK FALSE
