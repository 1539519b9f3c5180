SPECIFICATION Spec
CONSTANTS
  Nodes = {1, 2, 3}
  Parents <- Join
  Policy <- Mixed
  Retries <- SecondRetries
  MayFail = {2, 3}
  Executors = {e1, e2}
  Client = Client
  NoWorker = NoWorker
  NoTask = NoTask
  Dedup = TRUE
  Copies = 2
  MayCancel = TRUE
  Troubles = {"crash", "lapse", "fault", "lost", "expire", "evict", "cleanup"}
  MaxTroubles = 1
INVARIANTS ParentsRunFirst InputsPresent FiresOnce
SYMMETRY ExecutorSymmetry
