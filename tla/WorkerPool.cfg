SPECIFICATION FairSpec
CONSTANTS
  t1 = t1
  t2 = t2
  w1 = w1
  w2 = w2
  s1 = s1
  s2 = s2
  Tasks = {t1, t2}
  Workers = {w1, w2}
  NoWorker = NoWorker
  Slots = {s1, s2}
  WorkerOf <- OneSlotEach
  Unregistered = {t2}
  Deadlined = {t1}
  Retries <- MixedRetries
  MayStop = {w2}
  MaxTroubles = 2
INVARIANTS TypeOK ExclusiveUntilReclaimed CompletedRan AttemptsAccountedFor
PROPERTIES LateCallsChangeNothing EventuallyTerminal
