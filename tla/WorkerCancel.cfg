SPECIFICATION Spec
CONSTANTS
  t1 = t1
  t2 = t2
  w1 = w1
  w2 = w2
  s1 = s1
  s2 = s2
  Tasks = {t1}
  Workers = {w1, w2}
  NoWorker = NoWorker
  Slots = {s1, s2}
  WorkerOf <- OneSlotEach
  Unregistered = {}
  Deadlined = {}
  Retries <- OneRetry
  MayStop = {w2}
  MaxTroubles = 0
PROPERTIES CancelStopsRetries
