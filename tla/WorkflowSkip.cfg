SPECIFICATION Spec
CONSTANTS
  Nodes = {1, 2, 3}
  Parents <- Join
  Policy <- AllSkip
  Retries <- SecondRetries
  MayFail = {2, 3}
  Executors = {e1, e2}
  Client = Client
  NoWorker = NoWorker
  NoTask = NoTask
  Dedup = TRUE
  Copies = 1
  MayCancel = FALSE
  Troubles = {}
  MaxTroubles = 0
INVARIANTS SkippedNeverRuns
