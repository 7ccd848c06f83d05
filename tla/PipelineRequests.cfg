SPECIFICATION Spec
CONSTANTS
  Tenders = {1}
  Docs = {1, 2}
  Contents = {a}
  Requests = {r1, r2}
  Downloader = downloader
  Workflow = workflow
  None = None
  DownloadBatch = 2
  WorkflowBatch = 2
  MaxBatch = 2
  Closings = {"past"}
  Ops = {"create", "add_url", "upload", "retrigger", "extract", "screen", "retire", "patch", "delete"}
  Faults = {"crash", "download", "unlink"}
  Unreadable = {}
  Serial = FALSE
SYMMETRY RequestSymmetry
INVARIANTS ParsedHasMetadata BytesOrMetadata
CHECK_DEADLOCK FALSE
