SPECIFICATION Spec
CONSTANTS
  Tenders = {1}
  Docs = {1, 2}
  Contents = {a, b, c}
  Requests = {r1}
  Downloader = downloader
  Workflow = workflow
  None = None
  DownloadBatch = 2
  WorkflowBatch = 2
  MaxBatch = 2
  Closings = {"past", "unknown"}
  Ops = {"create", "add_url", "upload", "retrigger", "extract", "screen", "retire", "patch", "delete", "download", "workflow"}
  Faults = {"crash", "download", "unlink"}
  Unreadable = {c}
  Serial = TRUE
INVARIANTS DownloadedTenderAdvanced FileMatchesRow
PROPERTIES TextSurvives
CHECK_DEADLOCK FALSE
