SPECIFICATION Spec
CONSTANTS
  Nodes = {1, 2, 3}
  Parents <- Chain
  Policy <- AllContinue
  Retries <- NoRetries
  MayFail = {1, 2, 3}
  Executors = {e1}
  Client = Client
  NoWorker = NoWorker
  NoTask = NoTask
  Dedup = TRUE
  Copies = 1
  MayCancel = FALSE
  Troubles = {}
  MaxTroubles = 0
INVARIANTS ContinueSwallows
