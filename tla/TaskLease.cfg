SPECIFICATION Spec
CONSTANTS
  Tasks <- OneTask
  Workers = {w1, w2}
  NoWorker = NoWorker
  Queues = {q1}
  Priorities <- OnePriority
  Keys = {}
  NoKey = NoKey
  DedupWindow = 1
  Visibility = 2
  Delays <- LongDelays
  Deadlines <- SomeDeadline
  ExplicitIDs = FALSE
  MaxTime = 6
  MaxAttempts = 3
SYMMETRY WorkerSymmetry
INVARIANTS TypeOK NoTaskStranded NotBeforeDue
PROPERTIES LeaseHonoured ImplementsLifecycle
