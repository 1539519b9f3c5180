SPECIFICATION FairSpec
CONSTANTS
  e1 = e1
  e2 = e2
  Client = Client
  NoWorker = NoWorker
  NoTask = NoTask
INVARIANTS TypeOK CompletedMeansAll FailureSurfaces SkippedNeverRuns RootsReachAll ValidateExact DescendantsExact
PROPERTIES InstanceEnds
