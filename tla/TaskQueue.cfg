SPECIFICATION Spec
CONSTANTS
  Tasks <- ThreeTasks
  Workers = {w1}
  NoWorker = NoWorker
  Queues = {q1}
  Priorities <- TwoPriorities
  Keys = {k1, k2}
  NoKey = NoKey
  DedupWindow = 1
  Visibility = 1
  Delays <- ShortDelays
  Deadlines <- NoDeadline
  ExplicitIDs = FALSE
  MaxTime = 4
  MaxAttempts = 2
SYMMETRY KeySymmetry
ACTION_CONSTRAINT OneQuestion
INVARIANTS NoTaskStranded
PROPERTIES PriorityRespected DedupSpacing
