----------------------------- MODULE TaskStore -----------------------------
(***************************************************************************)
(* The in-memory task store, providers/tasks/memory.go.  One mutex guards  *)
(* everything, so every Store method is one atomic action.  The module is  *)
(* open: any client may call any method with any arguments at any instant. *)
(*                                                                         *)
(* Time is a counter; 0 is Go's zero time (time.Time.IsZero).  A heap is   *)
(* the set of its items: the code never removes an item from the middle,   *)
(* it leaves stale ones behind and skips them when they are popped.        *)
(***************************************************************************)
EXTENDS Integers, FiniteSets

CONSTANTS
  Tasks,       \* task IDs: naturals, in the order the heap's tie-break sees
  Workers,     \* worker IDs
  NoWorker,    \* OwnerWorker = ""
  Queues,      \* queue names
  Priorities,  \* Task.Priority values
  Keys,        \* UniqueKey values
  NoKey,       \* UniqueKey = ""
  DedupWindow, \* MemoryStoreOpts.DedupWindow
  Visibility,  \* the lease Claim and Heartbeat grant
  Delays,      \* offsets for DelayUntil and nextAttemptAt
  Deadlines,   \* Task.Deadline values, NoTime among them
  ExplicitIDs, \* callers may set Task.ID themselves, and so reuse one
  MaxTime,     \* bound on the clock
  MaxAttempts  \* bound on the claims of one task (a zero backoff allows
               \* any number of them at one instant)

NoTime == 0

ASSUME StoreAssumption ==
  /\ Tasks \subseteq Nat
  /\ Priorities \subseteq Int /\ Priorities # {}
  /\ Queues # {}
  /\ NoWorker \notin Workers
  /\ NoKey \notin Keys
  /\ DedupWindow \in Nat
  /\ Visibility \in Nat \ {0}
  /\ Delays \subseteq Nat
  /\ Deadlines \subseteq Nat
  /\ ExplicitIDs \in BOOLEAN
  /\ MaxTime \in Nat
  /\ MaxAttempts \in Nat

VARIABLES
  now,        \* the store's clock
  records,    \* s.records: ID -> Record ("absent" when the map has no entry)
  pending,    \* the pending heaps of all queues
  scheduled,  \* the scheduled heaps (by DelayUntil / NextAttempt)
  running,    \* the running heaps (by VisibilityAt)
  dedup,      \* s.dedup: UniqueKey -> expiry, NoTime when not in the map
  closed,     \* s.closed
  issued,     \* IDs handed out so far (newID never repeats one)
  accepted    \* history: when a task with this UniqueKey was last accepted

vars == <<now, records, pending, scheduled, running, dedup, closed, issued, accepted>>
heaps == <<pending, scheduled, running>>

Terminal == {"completed", "failed", "cancelled"}
State == {"absent", "pending", "scheduled", "running"} \cup Terminal

\* Task.MaxRetries: as the caller set it, or forced to zero by Cancel.
Budget == {"asSet", "zero"}

Record == [state: State, queue: Queues, priority: Priorities, deadline: Nat,
           maxRetries: Budget, attempts: Nat, owner: Workers \cup {NoWorker},
           due: Nat, visibilityAt: Nat, completedAt: Nat]

PendingItem == [queue: Queues, id: Tasks, priority: Priorities, at: Nat]
TimeItem == [queue: Queues, id: Tasks, when: Nat]

NewRecord(q, p, dl) ==
  [state |-> "pending", queue |-> q, priority |-> p, deadline |-> dl,
   maxRetries |-> "asSet", attempts |-> 0, owner |-> NoWorker,
   due |-> NoTime, visibilityAt |-> NoTime, completedAt |-> NoTime]

Missing == [NewRecord(CHOOSE q \in Queues : TRUE, CHOOSE p \in Priorities : TRUE, NoTime)
              EXCEPT !.state = "absent"]

Is(t, s) == records[t].state = s

\* A caller that passes the ownership checks of Complete and Fail.
Owns(w, t) == Is(t, "running") /\ records[t].owner = w

----------------------------------------------------------------------------

Init ==
  /\ now = 1
  /\ records = [t \in Tasks |-> Missing]
  /\ pending = {} /\ scheduled = {} /\ running = {}
  /\ dedup = [k \in Keys |-> NoTime]
  /\ closed = FALSE
  /\ issued = {}
  /\ accepted = [k \in Keys |-> NoTime]

\* Fault: a key is evicted at the instant it expires, not after it.
EvictedAtExpiry == [k \in Keys |-> IF dedup[k] <= now THEN NoTime ELSE dedup[k]]

\* evictDedupExpiredLocked: the dedup map without the entries that expired.
Evicted == [k \in Keys |-> IF dedup[k] < now THEN NoTime ELSE dedup[k]]

DedupChecked(k) == k # NoKey /\ DedupWindow > 0

\* The record and the heap item of an accepted task.
Insert(t, rec, delayUntil) ==
  IF delayUntil > now
  THEN /\ records' = [records EXCEPT ![t] = [rec EXCEPT !.state = "scheduled",
                                                        !.due = delayUntil]]
       /\ scheduled' = scheduled \cup {[queue |-> rec.queue, id |-> t, when |-> delayUntil]}
       /\ UNCHANGED <<pending, running>>
  ELSE /\ records' = [records EXCEPT ![t] = rec]
       /\ pending' = pending \cup {[queue |-> rec.queue, id |-> t,
                                    priority |-> rec.priority, at |-> now]}
       /\ UNCHANGED <<scheduled, running>>

\* A task with no ID gets a fresh one; with ExplicitIDs the caller may name
\* any, and the code writes over whatever record has that ID.
Enqueue(t, q, p, dl, d, k) ==
  /\ ~closed
  /\ t \notin issued \/ ExplicitIDs
  /\ \/ /\ ~DedupChecked(k)
        /\ UNCHANGED <<dedup, accepted>>
     \/ /\ DedupChecked(k)
        /\ Evicted[k] = NoTime
        /\ dedup' = [Evicted EXCEPT ![k] = now + DedupWindow]
        /\ accepted' = [accepted EXCEPT ![k] = now]
  /\ Insert(t, NewRecord(q, p, dl), now + d)
  /\ issued' = issued \cup {t}
  /\ UNCHANGED <<now, closed>>

\* ErrUniqueViolation: only the eviction of expired keys remains.
EnqueueDuplicate(k) ==
  /\ ~closed
  /\ DedupChecked(k)
  /\ Evicted[k] # NoTime
  /\ dedup' = Evicted
  /\ UNCHANGED <<now, records, heaps, closed, issued, accepted>>

----------------------------------------------------------------------------

\* Fault: Less compares priorities the wrong way round.
BeforeAscending(x, y) ==
  \/ x.priority < y.priority
  \/ x.priority = y.priority /\ x.at < y.at
  \/ x.priority = y.priority /\ x.at = y.at /\ x.id < y.id

\* pendingHeap.Less: priority descending, then enqueuedAt, then id ascending.
Before(x, y) ==
  \/ x.priority > y.priority
  \/ x.priority = y.priority /\ x.at < y.at
  \/ x.priority = y.priority /\ x.at = y.at /\ x.id < y.id

PendingOf(q) == {x \in pending : x.queue = q}
Stale(x) == ~Is(x.id, "pending")

\* The items Claim pops before it reaches x, and x itself.
PoppedUpTo(x) == {y \in PendingOf(x.queue) : y = x \/ Before(y, x)}

Claim(w, q) ==
  /\ ~closed
  /\ \E x \in PendingOf(q) :
       /\ ~Stale(x)
       /\ records[x.id].attempts < MaxAttempts
       /\ \A y \in PoppedUpTo(x) \ {x} : Stale(y)
       /\ records' = [records EXCEPT ![x.id].state = "running",
                                     ![x.id].attempts = @ + 1,
                                     ![x.id].owner = w,
                                     ![x.id].visibilityAt = now + Visibility]
       /\ pending' = pending \ PoppedUpTo(x)
       /\ running' = running \cup {[queue |-> q, id |-> x.id, when |-> now + Visibility]}
  /\ UNCHANGED <<now, scheduled, dedup, closed, issued, accepted>>

\* Claim finds no live item: it has popped every stale one and returns nil.
ClaimNothing(q) ==
  /\ ~closed
  /\ \A x \in PendingOf(q) : Stale(x)
  /\ pending' = pending \ PendingOf(q)
  /\ UNCHANGED <<now, records, scheduled, running, dedup, closed, issued, accepted>>

\* Fault: the new lease is recorded but gets no item in the running heap.
HeartbeatNoItem(w, t) ==
  /\ Owns(w, t)
  /\ records' = [records EXCEPT ![t].visibilityAt = now + Visibility]
  /\ UNCHANGED <<now, heaps, dedup, closed, issued, accepted>>

\* Fault: the extension is subtracted from the clock.
HeartbeatBackdated(w, t) ==
  /\ Owns(w, t)
  /\ records' = [records EXCEPT ![t].visibilityAt = now - Visibility]
  /\ running' = running \cup {[queue |-> records[t].queue, id |-> t, when |-> now - Visibility]}
  /\ UNCHANGED <<now, pending, scheduled, dedup, closed, issued, accepted>>

Heartbeat(w, t) ==
  /\ Owns(w, t)
  /\ records' = [records EXCEPT ![t].visibilityAt = now + Visibility]
  /\ running' = running \cup {[queue |-> records[t].queue, id |-> t,
                               when |-> now + Visibility]}
  /\ UNCHANGED <<now, pending, scheduled, dedup, closed, issued, accepted>>

Complete(w, t) ==
  /\ Owns(w, t)
  /\ records' = [records EXCEPT ![t].state = "completed",
                                ![t].completedAt = now,
                                ![t].owner = NoWorker]
  /\ UNCHANGED <<now, heaps, dedup, closed, issued, accepted>>

\* nextAttemptAt is honoured when the task has no deadline or it is earlier.
MayRetryAt(t, next) == records[t].deadline = NoTime \/ next < records[t].deadline

FailRetry(w, t, next) ==
  /\ Owns(w, t)
  /\ MayRetryAt(t, next)
  /\ records' = [records EXCEPT ![t].state = "scheduled",
                                ![t].due = next,
                                ![t].owner = NoWorker]
  /\ scheduled' = scheduled \cup {[queue |-> records[t].queue, id |-> t, when |-> next]}
  /\ UNCHANGED <<now, pending, running, dedup, closed, issued, accepted>>

\* Fail with a nil nextAttemptAt, or one the deadline forbids.
FailTerminal(w, t) ==
  /\ Owns(w, t)
  /\ records' = [records EXCEPT ![t].state = "failed",
                                ![t].completedAt = now,
                                ![t].owner = NoWorker]
  /\ UNCHANGED <<now, heaps, dedup, closed, issued, accepted>>

\* Fault: a running task is marked cancelled under its worker.
CancelRunningToo(t) ==
  /\ records[t].state \in {"pending", "scheduled", "running"}
  /\ records' = [records EXCEPT ![t].state = "cancelled", ![t].completedAt = now]
  /\ UNCHANGED <<now, heaps, dedup, closed, issued, accepted>>

Cancel(t) ==
  /\ \/ /\ records[t].state \in {"pending", "scheduled"}
        /\ records' = [records EXCEPT ![t].state = "cancelled", ![t].completedAt = now]
     \/ /\ Is(t, "running")
        /\ records' = [records EXCEPT ![t].maxRetries = "zero"]
  /\ UNCHANGED <<now, heaps, dedup, closed, issued, accepted>>

----------------------------------------------------------------------------

\* Fault: items due at the next instant are taken too.
DueSoonItems(heap, q, n) == {x \in heap : x.queue = q /\ x.when <= n + 1}

\* Both passes get the maintenance loop's clock reading n, taken earlier.
DueItems(heap, q, n) == {x \in heap : x.queue = q /\ x.when <= n}

\* Fault: the record goes back to pending without a pending item.
RequeuedNowhere(S, n) == {x \in S : FALSE}

Requeued(S, n) ==
  {[queue |-> x.queue, id |-> x.id, priority |-> records[x.id].priority, at |-> n] : x \in S}

PromoteScheduled(q, n) ==
  LET popped == DueItems(scheduled, q, n)
      live == {x \in popped : Is(x.id, "scheduled")}
      ids == {x.id : x \in live}
  IN /\ n <= now
     /\ ~closed
     /\ records' = [t \in Tasks |->
                      IF t \in ids THEN [records[t] EXCEPT !.state = "pending"] ELSE records[t]]
     /\ pending' = pending \cup Requeued(live, n)
     /\ scheduled' = scheduled \ popped
     /\ UNCHANGED <<now, running, dedup, closed, issued, accepted>>

\* Fault: an item left behind by a heartbeat acts on the renewed lease.
ExpiredByAnyItem(x) == Is(x.id, "running")

\* An item acts only if it carries the record's current visibility deadline.
Expired(x) == Is(x.id, "running") /\ records[x.id].visibilityAt = x.when

ReclaimExpired(q, n) ==
  LET popped == DueItems(running, q, n)
      live == {x \in popped : Expired(x)}
      ids == {x.id : x \in live}
  IN /\ n <= now
     /\ ~closed
     /\ records' = [t \in Tasks |->
                      IF t \in ids
                      THEN [records[t] EXCEPT !.state = "pending", !.owner = NoWorker]
                      ELSE records[t]]
     /\ pending' = pending \cup Requeued(live, n)
     /\ running' = running \ popped
     /\ UNCHANGED <<now, scheduled, dedup, closed, issued, accepted>>

PurgeOlderThan(cutoff) ==
  /\ records' = [t \in Tasks |->
                   IF records[t].state \in Terminal /\ records[t].completedAt < cutoff
                   THEN Missing ELSE records[t]]
  /\ UNCHANGED <<now, heaps, dedup, closed, issued, accepted>>

Close ==
  /\ closed' = TRUE
  /\ records' = [t \in Tasks |-> Missing]
  /\ pending' = {} /\ scheduled' = {} /\ running' = {}
  /\ dedup' = [k \in Keys |-> NoTime]
  /\ UNCHANGED <<now, issued, accepted>>

Tick ==
  /\ now < MaxTime
  /\ now' = now + 1
  /\ UNCHANGED <<records, heaps, dedup, closed, issued, accepted>>

Next ==
  \/ \E t \in Tasks, q \in Queues, p \in Priorities, dl \in Deadlines,
        d \in Delays, k \in Keys \cup {NoKey} : Enqueue(t, q, p, dl, d, k)
  \/ \E k \in Keys : EnqueueDuplicate(k)
  \/ \E w \in Workers, q \in Queues : Claim(w, q)
  \/ \E q \in Queues : ClaimNothing(q)
  \/ \E w \in Workers, t \in Tasks :
       \/ Heartbeat(w, t)
       \/ Complete(w, t)
       \/ \E d \in Delays : FailRetry(w, t, now + d)
       \/ FailTerminal(w, t)
  \/ \E t \in Tasks : Cancel(t)
  \/ \E q \in Queues, n \in 1..now : PromoteScheduled(q, n) \/ ReclaimExpired(q, n)
  \/ \E cutoff \in 1..(now + 1) : PurgeOlderThan(cutoff)
  \/ Close
  \/ Tick

Spec == Init /\ [][Next]_vars

----------------------------------------------------------------------------

TypeOK ==
  /\ now \in Nat
  /\ records \in [Tasks -> Record]
  /\ pending \subseteq PendingItem
  /\ scheduled \subseteq TimeItem
  /\ running \subseteq TimeItem
  /\ dedup \in [Keys -> Nat]
  /\ closed \in BOOLEAN
  /\ issued \subseteq Tasks
  /\ accepted \in [Keys -> Nat]

\* The code's heaps never lose a task.  A pending record has an item in the
\* pending heap of its own queue, where a later Claim finds it; a scheduled one
\* has an item that carries its due time, so PromoteScheduled will pop it; a
\* running one has an item that carries its current visibility deadline, so
\* ReclaimExpired will act on it if the worker goes silent.
NoTaskStranded ==
  \A t \in Tasks : LET r == records[t] IN
    /\ r.state = "pending" => \E x \in pending : x.id = t /\ x.queue = r.queue
    /\ r.state = "scheduled" => [queue |-> r.queue, id |-> t, when |-> r.due] \in scheduled
    /\ r.state = "running" => [queue |-> r.queue, id |-> t, when |-> r.visibilityAt] \in running

\* DelayUntil and NextAttempt are lower bounds: no stale item of the scheduled
\* heap, no late or repeated PromoteScheduled pass, makes a task claimable
\* before the time it was last scheduled for.
NotBeforeDue ==
  \A t \in Tasks : records[t].state \in {"pending", "running"} => records[t].due <= now

\* ReclaimExpired (the only way a running task goes back to pending) never
\* takes a task whose latest lease, Heartbeat extensions included, is still
\* good, whatever older items the running heap holds for it.
LeaseHonoured ==
  [][\A t \in Tasks :
       Is(t, "running") /\ (Is(t, "pending")' \/ records'[t].attempts > records[t].attempts)
         => records[t].visibilityAt <= now]_vars

\* Claim hands out a task of the highest priority that is pending in the
\* queue, in spite of the stale items it skips on the way.
PriorityRespected ==
  [][\A t, u \in Tasks :
       (/\ Is(t, "pending") /\ Is(t, "running")'
        /\ Is(u, "pending") /\ records[u].queue = records[t].queue)
         => records[t].priority >= records[u].priority]_vars

\* The store accepts a task with UniqueKey k.
Accepts(k) ==
  \E t \in Tasks, q \in Queues, p \in Priorities, dl \in Deadlines, d \in Delays :
    Enqueue(t, q, p, dl, d, k)

\* Two tasks with one UniqueKey are accepted more than DedupWindow apart, never
\* two at one instant, although any other keyed Enqueue, accepted or refused,
\* evicts the keys that have expired by then.
DedupSpacing ==
  [][\A k \in Keys :
       accepted[k] # NoTime /\ Accepts(k) => now - accepted[k] > DedupWindow]_vars

\* A duplicate ID is rejected: no accepted Enqueue names a task that is still
\* live, so no Record is replaced under the worker or the heap that refers to it.
DuplicateIDRejected ==
  [][~\E t \in Tasks, q \in Queues, p \in Priorities, dl \in Deadlines, d \in Delays,
        k \in Keys \cup {NoKey} :
       records[t].state \in State \ ({"absent"} \cup Terminal) /\ Enqueue(t, q, p, dl, d, k)]_vars

\* The store as the contract of store.go sees it: the heaps are gone and the
\* clock shows only in which leases have lapsed and which tasks are ripe.
Lifecycle == INSTANCE TaskLifecycle WITH
  life <- [t \in Tasks |-> [state |-> records[t].state, owner |-> records[t].owner,
                            attempts |-> records[t].attempts, maxRetries |-> records[t].maxRetries]],
  lapsed <- {t \in Tasks : Is(t, "running") /\ records[t].visibilityAt <= now},
  ripe <- {t \in Tasks : Is(t, "scheduled") /\ records[t].due <= now},
  open <- ~closed

\* The memory store implements the contract: whatever the heaps hold, each
\* method takes a task along one legal edge of its life, only for its owner,
\* and the two maintenance passes move lapsed and ripe tasks only.
ImplementsLifecycle == Lifecycle!Spec
=============================================================================
