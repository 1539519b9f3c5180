--------------------------- MODULE MCTaskWorker ---------------------------
\* TaskWorker with constants for TLC.
EXTENDS TaskWorker, TLC

CONSTANTS t1, t2, w1, w2, s1, s2

\* Two processes with one claim loop each.
OneSlotEach == s1 :> w1 @@ s2 :> w2
\* One process with Concurrency 2: both loops claim under one WorkerID.
SharedID == s1 :> w1 @@ s2 :> w1

OneRetry == [t \in Tasks |-> 1]
MixedRetries == [t \in Tasks |-> IF t = t1 THEN 1 ELSE 0]
=============================================================================
