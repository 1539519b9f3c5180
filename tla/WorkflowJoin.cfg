SPECIFICATION FairSpec
CONSTANTS
  Nodes = {1, 2, 3}
  Parents <- Join
  Policy <- Mixed
  Retries <- SecondRetries
  MayFail = {}
  Executors = {e1, e2}
  Client = Client
  NoWorker = NoWorker
  NoTask = NoTask
  Dedup = TRUE
  Copies = 1
  MayCancel = FALSE
  Troubles = {}
  MaxTroubles = 0
PROPERTIES InstanceEnds
