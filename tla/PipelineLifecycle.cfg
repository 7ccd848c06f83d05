SPECIFICATION Spec
CONSTANTS
  Tenders = {1, 2}
  Docs = {1, 2}
  Contents = {a}
  Requests = {r1}
  Downloader = downloader
  Workflow = workflow
  None = None
  DownloadBatch = 2
  WorkflowBatch = 2
  MaxBatch = 1
  Closings = {"past"}
  Ops = {"create", "add_url", "extract", "retire", "delete", "download", "workflow"}
  Faults = {"crash", "download", "unlink"}
  Unreadable = {}
  Serial = FALSE
INVARIANTS TypeOK NoStuckDownload
PROPERTIES RefinesLifecycle
CHECK_DEADLOCK FALSE
