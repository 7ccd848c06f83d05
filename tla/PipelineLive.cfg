SPECIFICATION FairSpec
CONSTANTS
  Tenders = {1, 2}
  Docs = {1, 2}
  Contents = {a, b}
  Requests = {r1}
  Downloader = downloader
  Workflow = workflow
  None = None
  DownloadBatch = 2
  WorkflowBatch = 1
  MaxBatch = 2
  Closings = {"later"}
  Ops = {"create", "add_url", "upload", "download", "delete", "workflow", "patch"}
  Faults = {"download"}
  Unreadable = {b}
  Serial = FALSE
PROPERTIES PendingResolves ScreenedInTurn
CHECK_DEADLOCK FALSE
