---------------------------- MODULE MCTaskStore ----------------------------
\* TaskStore with constants for TLC.
EXTENDS TaskStore, TLC

OneTask == {1}
TwoTasks == {1, 2}
ThreeTasks == {1, 2, 3}
TwoPriorities == {0, 1}
OnePriority == {0}
ShortDelays == {0, 1}
LongDelays == {0, 2}
NoDeadline == {0}
SomeDeadline == {0, 4}

\* Nothing in the store tells one worker ID from another.
WorkerSymmetry == Permutations(Workers)

\* Nor one UniqueKey from another.
KeySymmetry == Permutations(Keys)

\* Two questions in one run, each with bounds of its own.  The order of a queue
\* needs claims, delays and priorities, but two instants and two unkeyed tasks;
\* the dedup window needs four instants and three tasks, but no claims.
OrderBounds == now <= 2 /\ issued \subseteq TwoTasks /\ \A k \in Keys : accepted[k] = NoTime
DedupBounds == scheduled = {} /\ \A t \in Tasks : records[t].attempts + records[t].priority = 0
OneQuestion == OrderBounds' \/ DedupBounds'
=============================================================================
