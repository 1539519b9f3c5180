-------------------------- MODULE TaskStoreProofs --------------------------
(***************************************************************************)
(* Proofs about TaskStore, for every set of tasks, workers, queues and     *)
(* keys and every window, lease and bound.                                 *)
(***************************************************************************)
EXTENDS TaskStore, TLAPS

(***************************************************************************)
(* The inductive invariant.  NoTaskStranded alone is not inductive: a      *)
(* stale item of another queue or another due time could be the one that a *)
(* pass finds.  The parts below say what every item left in a heap may     *)
(* still refer to when IDs are never reused.                               *)
(***************************************************************************)

\* Whatever has a record or a heap item was enqueued.
IssuedInv ==
  /\ \A t \in Tasks : ~Is(t, "absent") => t \in issued
  /\ \A x \in pending \cup scheduled \cup running : x.id \in issued

\* A pending item is good, or belongs to a task that is over; no task has two.
PendingItems ==
  \A x \in pending :
    /\ \A y \in pending : y.id = x.id => y = x
    /\ records[x.id].state \notin {"scheduled", "running"}
    /\ ~Is(x.id, "absent") => x.queue = records[x.id].queue
                              /\ x.priority = records[x.id].priority

\* A scheduled item is good, or belongs to a task that is over.
ScheduledItems ==
  \A x \in scheduled :
    /\ records[x.id].state \notin {"pending", "running"}
    /\ Is(x.id, "scheduled") => x.queue = records[x.id].queue /\ x.when = records[x.id].due

\* A running item may be stale, but it is in the right queue.
RunningItems ==
  \A x \in running : ~Is(x.id, "absent") => x.queue = records[x.id].queue

\* Only a running task has an owner, and a missing one has nothing.
OwnerInv ==
  \A t \in Tasks : /\ ~Is(t, "running") => records[t].owner = NoWorker
                   /\ Is(t, "absent") => records[t] = Missing

HeapInv == IssuedInv /\ PendingItems /\ ScheduledItems /\ RunningItems /\ OwnerInv

IInv == TypeOK /\ HeapInv /\ NoTaskStranded /\ NotBeforeDue

\* A key in the dedup map expires DedupWindow after its last acceptance; one
\* that is not was last accepted longer ago than that.  With no window there
\* are no keys.
DedupInv ==
  /\ now # NoTime
  /\ \A k \in Keys :
       /\ dedup[k] # NoTime => accepted[k] # NoTime /\ dedup[k] = accepted[k] + DedupWindow
       /\ dedup[k] = NoTime /\ accepted[k] # NoTime /\ ~closed => accepted[k] + DedupWindow < now
       /\ accepted[k] # NoTime => DedupWindow > 0

----------------------------------------------------------------------------

USE DEF NoTime

\* The values a Record takes in each method are Records.
LEMMA RecordUpdate ==
  ASSUME NEW r \in Record, NEW s \in State, NEW n \in Nat
  PROVE /\ [r EXCEPT !.state = s, !.owner = NoWorker] \in Record
        /\ [r EXCEPT !.state = s, !.completedAt = n] \in Record
        /\ [r EXCEPT !.state = s, !.completedAt = n, !.owner = NoWorker] \in Record
        /\ [r EXCEPT !.state = s, !.due = n] \in Record
        /\ [r EXCEPT !.state = s, !.due = n, !.owner = NoWorker] \in Record
BY DEF Record

LEMMA RequeuedType ==
  ASSUME TypeOK, NEW S \in SUBSET TimeItem, NEW n \in Nat
  PROVE Requeued(S, n) \subseteq PendingItem
<1>1. \A x \in S : x.queue \in Queues /\ x.id \in Tasks /\ records[x.id].priority \in Priorities
  BY DEF TypeOK, TimeItem, Record
<1> QED
  BY <1>1 DEF Requeued, PendingItem

LEMMA NewRecordType ==
  ASSUME NEW q \in Queues, NEW p \in Priorities, NEW dl \in Nat
  PROVE NewRecord(q, p, dl) \in Record
BY DEF NewRecord, Record, State, Budget

\* The value that stands for an ID with no entry in s.records.
LEMMA MissingType ==
  /\ Missing \in Record
  /\ Missing.state = "absent"
  /\ Missing.owner = NoWorker
  /\ Missing.attempts = 0
  /\ Missing.maxRetries = "asSet"
<1>1. PICK q \in Queues, p \in Priorities :
        Missing = [NewRecord(q, p, NoTime) EXCEPT !.state = "absent"]
  <2>1. (CHOOSE q \in Queues : TRUE) \in Queues /\ (CHOOSE p \in Priorities : TRUE) \in Priorities
    BY StoreAssumption
  <2> QED
    BY <2>1 DEF Missing
<1>2. Missing = [state |-> "absent", queue |-> q, priority |-> p, deadline |-> 0,
                 maxRetries |-> "asSet", attempts |-> 0, owner |-> NoWorker,
                 due |-> 0, visibilityAt |-> 0, completedAt |-> 0]
  BY <1>1 DEF NewRecord
<1> QED
  BY <1>2 DEF Record, State, Budget

LEMMA TypeInit == Init => TypeOK
<1>1. Missing \in Record
  BY MissingType
<1>2. Init => records \in [Tasks -> Record] /\ closed \in BOOLEAN
  BY <1>1, Zenon DEF Init
<1>3. Init => now \in Nat /\ dedup \in [Keys -> Nat] /\ accepted \in [Keys -> Nat]
  BY DEF Init
<1> QED
  BY <1>2, <1>3 DEF Init, TypeOK

LEMMA TypeStep == TypeOK /\ [Next]_vars => TypeOK'
<1> SUFFICES ASSUME TypeOK, [Next]_vars PROVE TypeOK'
  OBVIOUS
<1> USE StoreAssumption DEF TypeOK
<1>1. ASSUME NEW t \in Tasks, NEW q \in Queues, NEW p \in Priorities, NEW dl \in Deadlines,
             NEW d \in Delays, NEW k \in Keys \cup {NoKey}, Enqueue(t, q, p, dl, d, k)
      PROVE TypeOK'
  <2>1. dedup' \in [Keys -> Nat] /\ accepted' \in [Keys -> Nat]
    BY <1>1 DEF Enqueue, Evicted
  <2>2. /\ records' \in [Tasks -> Record]
        /\ pending' \subseteq PendingItem
        /\ scheduled' \subseteq TimeItem
        /\ running' \subseteq TimeItem
    <3> DEFINE r == NewRecord(q, p, dl)
    <3>1. r \in Record /\ now + d \in Nat
      BY NewRecordType
    <3>2. CASE now + d > now
      <4>1. [r EXCEPT !.state = "scheduled", !.due = now + d] \in Record
        BY <3>1, RecordUpdate DEF State
      <4>2. records' \in [Tasks -> Record] /\ pending' = pending /\ running' = running
        BY <1>1, <3>2, <4>1 DEF Enqueue, Insert
      <4>3. r.queue \in Queues
        BY <3>1 DEF Record
      <4>4. scheduled' = scheduled \cup {[queue |-> r.queue, id |-> t, when |-> now + d]}
        BY <1>1, <3>2 DEF Enqueue, Insert
      <4> QED
        BY <3>1, <4>2, <4>3, <4>4 DEF TimeItem
    <3>3. CASE ~(now + d > now)
      BY <1>1, <3>1, <3>3 DEF Enqueue, Insert, Record, PendingItem
    <3> QED
      BY <3>2, <3>3
  <2> QED
    BY <1>1, <2>1, <2>2 DEF Enqueue
<1>2. ASSUME NEW k \in Keys, EnqueueDuplicate(k) PROVE TypeOK'
  BY <1>2, SMTT(30) DEF EnqueueDuplicate, Evicted, heaps
<1>3. ASSUME NEW w \in Workers, NEW q \in Queues, Claim(w, q) PROVE TypeOK'
  BY <1>3 DEF Claim, PendingOf, PoppedUpTo, PendingItem, TimeItem, Record, State
<1>4. ASSUME NEW q \in Queues, ClaimNothing(q) PROVE TypeOK'
  BY <1>4 DEF ClaimNothing
<1>5. ASSUME NEW w \in Workers, NEW t \in Tasks, Heartbeat(w, t) PROVE TypeOK'
  BY <1>5 DEF Heartbeat, TimeItem, Record
<1>6. ASSUME NEW w \in Workers, NEW t \in Tasks, Complete(w, t) PROVE TypeOK'
  BY <1>6, RecordUpdate DEF Complete, heaps, State, Terminal
<1>7. ASSUME NEW w \in Workers, NEW t \in Tasks, NEW d \in Delays, FailRetry(w, t, now + d)
      PROVE TypeOK'
  <2>1. records' \in [Tasks -> Record]
    <3>1. now + d \in Nat /\ records[t] \in Record /\ "scheduled" \in State
      BY DEF State
    <3>2. [records[t] EXCEPT !.state = "scheduled", !.due = now + d, !.owner = NoWorker] \in Record
      BY <3>1, RecordUpdate
    <3> QED
      BY <1>7, <3>2 DEF FailRetry
  <2>2. scheduled' \subseteq TimeItem
    <3>1. records[t].queue \in Queues
      BY DEF Record
    <3> QED
      BY <1>7, <3>1 DEF FailRetry, TimeItem
  <2> QED
    BY <1>7, <2>1, <2>2 DEF FailRetry
<1>8. ASSUME NEW w \in Workers, NEW t \in Tasks, FailTerminal(w, t) PROVE TypeOK'
  BY <1>8, RecordUpdate DEF FailTerminal, heaps, State, Terminal
<1>9. ASSUME NEW t \in Tasks, Cancel(t) PROVE TypeOK'
  <2>1. CASE records' = [records EXCEPT ![t].state = "cancelled", ![t].completedAt = now]
    BY <1>9, <2>1, RecordUpdate DEF Cancel, heaps, State, Terminal
  <2>2. CASE records' = [records EXCEPT ![t].maxRetries = "zero"]
    BY <1>9, <2>2 DEF Cancel, heaps, Record, Budget
  <2> QED
    BY <1>9, <2>1, <2>2 DEF Cancel
<1>10. ASSUME NEW q \in Queues, NEW n \in 1..now, PromoteScheduled(q, n) PROVE TypeOK'
  <2>1. records' \in [Tasks -> Record]
    BY <1>10 DEF PromoteScheduled, Record, State
  <2>2. pending' \subseteq PendingItem
    <3> DEFINE live == {x \in DueItems(scheduled, q, n) : Is(x.id, "scheduled")}
    <3>1. live \in SUBSET TimeItem /\ n \in Nat
      BY DEF DueItems
    <3>2. Requeued(live, n) \subseteq PendingItem
      BY <3>1, RequeuedType
    <3> QED
      BY <1>10, <3>2 DEF PromoteScheduled
  <2> QED
    BY <1>10, <2>1, <2>2 DEF PromoteScheduled
<1>11. ASSUME NEW q \in Queues, NEW n \in 1..now, ReclaimExpired(q, n) PROVE TypeOK'
  <2>1. records' \in [Tasks -> Record]
    BY <1>11, RecordUpdate DEF ReclaimExpired, State
  <2>2. pending' \subseteq PendingItem
    <3> DEFINE live == {x \in DueItems(running, q, n) : Expired(x)}
    <3>1. live \in SUBSET TimeItem /\ n \in Nat
      BY DEF DueItems
    <3>2. Requeued(live, n) \subseteq PendingItem
      BY <3>1, RequeuedType
    <3> QED
      BY <1>11, <3>2 DEF ReclaimExpired
  <2> QED
    BY <1>11, <2>1, <2>2 DEF ReclaimExpired
<1>12. ASSUME NEW cutoff \in 1..(now + 1), PurgeOlderThan(cutoff) PROVE TypeOK'
  BY <1>12, MissingType DEF PurgeOlderThan, heaps
<1>13. CASE Close
  BY <1>13, MissingType DEF Close
<1>14. CASE Tick
  BY <1>14 DEF Tick, heaps
<1>15. CASE UNCHANGED vars
  BY <1>15 DEF vars
<1> QED
  BY <1>1, <1>2, <1>3, <1>4, <1>5, <1>6, <1>7, <1>8, <1>9, <1>10, <1>11, <1>12, <1>13,
     <1>14, <1>15 DEF Next

\* Every method keeps records, heaps and maps well formed.
THEOREM TypeCorrect == Spec => []TypeOK
BY TypeInit, TypeStep, PTL DEF Spec

----------------------------------------------------------------------------

LEMMA HeapInit == Init => IInv
<1> SUFFICES ASSUME Init PROVE IInv
  OBVIOUS
<1>1. TypeOK
  BY TypeInit
<1>2. \A t \in Tasks : Is(t, "absent") /\ records[t] = Missing /\ records[t].owner = NoWorker
  BY MissingType DEF Init, Is
<1>3. pending = {} /\ scheduled = {} /\ running = {}
  BY DEF Init
<1> QED
  BY <1>1, <1>2, <1>3 DEF IInv, HeapInv, IssuedInv, PendingItems, ScheduledItems, RunningItems,
     OwnerInv, NoTaskStranded, NotBeforeDue, Is

\* What a method does to every other task: nothing.
Others(t) == \A u \in Tasks \ {t} : records'[u] = records[u]

LEMMA EnqueueStep ==
  ASSUME IInv, ~ExplicitIDs, NEW t \in Tasks, NEW q \in Queues, NEW p \in Priorities,
         NEW dl \in Deadlines, NEW d \in Delays, NEW k \in Keys \cup {NoKey},
         Enqueue(t, q, p, dl, d, k), TypeOK'
  PROVE  IInv'
<1> USE StoreAssumption
<1>1. /\ t \notin issued
      /\ issued' = issued \cup {t}
      /\ now' = now
      /\ now \in Nat /\ d \in Nat
  BY DEF Enqueue, IInv, TypeOK
<1>2. /\ Is(t, "absent")
      /\ \A x \in pending \cup scheduled \cup running : x.id \in Tasks /\ x.id # t
  BY <1>1 DEF IInv, HeapInv, IssuedInv, TypeOK, PendingItem, TimeItem
<1>3. CASE now + d > now
  <2>1. /\ Others(t)
        /\ records'[t].state = "scheduled" /\ records'[t].queue = q
        /\ records'[t].due = now + d /\ records'[t].owner = NoWorker
    <3>1. records' = [records EXCEPT ![t] =
                        [state |-> "scheduled", queue |-> q, priority |-> p, deadline |-> dl,
                         maxRetries |-> "asSet", attempts |-> 0, owner |-> NoWorker,
                         due |-> now + d, visibilityAt |-> 0, completedAt |-> 0]]
      BY <1>3 DEF Enqueue, Insert, NewRecord
    <3> QED
      BY <3>1 DEF IInv, TypeOK, Others
  <2>2. /\ scheduled' = scheduled \cup {[queue |-> q, id |-> t, when |-> now + d]}
        /\ pending' = pending /\ running' = running
    BY <1>3 DEF Enqueue, Insert, NewRecord
  <2>3. IssuedInv'
    BY <1>1, <1>2, <2>1, <2>2 DEF IInv, HeapInv, IssuedInv, Is, Others
  <2>4. PendingItems'
    <3>1. \A x \in pending : records'[x.id] = records[x.id]
      BY <1>2, <2>1 DEF Others
    <3> QED
      BY <1>2, <2>1, <2>2, <3>1 DEF IInv, HeapInv, PendingItems, Is
  <2>5. ScheduledItems'
    <3>1. \A x \in scheduled : records'[x.id] = records[x.id]
      BY <1>2, <2>1 DEF Others
    <3>2. \A x \in scheduled' \ scheduled : x.id = t /\ x.queue = q /\ x.when = now + d
      BY <2>2
    <3> QED
      BY <2>1, <3>1, <3>2 DEF IInv, HeapInv, ScheduledItems, Is
  <2>6. RunningItems'
    BY <1>1, <1>2, <2>1, <2>2 DEF IInv, HeapInv, RunningItems, Is, Others
  <2>7. OwnerInv'
    BY <1>1, <1>2, <2>1, <2>2 DEF IInv, HeapInv, OwnerInv, Is, Others
  <2>8. NoTaskStranded'
    BY <1>1, <1>2, <2>1, <2>2 DEF IInv, NoTaskStranded, Others
  <2>9. NotBeforeDue'
    BY <1>1, <1>2, <2>1, <2>2 DEF IInv, NotBeforeDue, Others
  <2> QED
    BY <2>3, <2>4, <2>5, <2>6, <2>7, <2>8, <2>9 DEF IInv, HeapInv
<1>4. CASE ~(now + d > now)
  <2>1. /\ Others(t)
        /\ records'[t].state = "pending" /\ records'[t].queue = q /\ records'[t].priority = p
        /\ records'[t].due = 0 /\ records'[t].owner = NoWorker
    BY <1>4 DEF Enqueue, Insert, IInv, TypeOK, Others, NewRecord
  <2>2. /\ pending' = pending \cup {[queue |-> q, id |-> t, priority |-> p, at |-> now]}
        /\ scheduled' = scheduled /\ running' = running
    BY <1>4 DEF Enqueue, Insert, NewRecord
  <2>3. IssuedInv'
    BY <1>1, <1>2, <2>1, <2>2 DEF IInv, HeapInv, IssuedInv, Is, Others
  <2>4. PendingItems'
    <3>1. \A x \in pending : records'[x.id] = records[x.id]
      BY <1>2, <2>1 DEF Others
    <3> QED
      BY <1>2, <2>1, <2>2, <3>1 DEF IInv, HeapInv, PendingItems, Is
  <2>5. ScheduledItems'
    BY <1>1, <1>2, <2>1, <2>2 DEF IInv, HeapInv, ScheduledItems, Is, Others
  <2>6. RunningItems'
    BY <1>1, <1>2, <2>1, <2>2 DEF IInv, HeapInv, RunningItems, Is, Others
  <2>7. OwnerInv'
    BY <1>1, <1>2, <2>1, <2>2 DEF IInv, HeapInv, OwnerInv, Is, Others
  <2>8. NoTaskStranded'
    <3>1. \E x \in pending' : x.id = t /\ x.queue = q
      <4> DEFINE x == [queue |-> q, id |-> t, priority |-> p, at |-> now]
      <4>1. x \in pending' /\ x.id = t /\ x.queue = q
        BY <2>2
      <4> QED
        BY <4>1
    <3> QED
      BY <2>1, <2>2, <3>1 DEF IInv, NoTaskStranded, Others
  <2>9. NotBeforeDue'
    BY <1>1, <1>2, <2>1, <2>2 DEF IInv, NotBeforeDue, Others
  <2> QED
    BY <2>3, <2>4, <2>5, <2>6, <2>7, <2>8, <2>9 DEF IInv, HeapInv
<1> QED
  BY <1>3, <1>4

\* Complete, the terminal Fail and Cancel of a waiting task: the task is over,
\* and the heap items that named it are stale from now on.
LEMMA FinishStep ==
  ASSUME IInv, NEW t \in Tasks, Others(t), TypeOK',
         t \in issued,
         records'[t].state \in Terminal, records'[t].owner = NoWorker,
         records'[t].queue = records[t].queue, records'[t].priority = records[t].priority,
         UNCHANGED <<now, heaps, issued>>, ~Is(t, "absent")
  PROVE  IInv'
<1>1. /\ pending' = pending /\ scheduled' = scheduled /\ running' = running
      /\ issued' = issued /\ now' = now
  BY DEF heaps
<1>2. \A x \in pending \cup scheduled \cup running : x.id \in Tasks
  BY DEF IInv, TypeOK, PendingItem, TimeItem
<1>3. IssuedInv'
  BY <1>1, <1>2 DEF IInv, HeapInv, IssuedInv, Is, Others
<1>4. PendingItems'
  BY <1>1, <1>2 DEF IInv, HeapInv, PendingItems, Is, Others, Terminal
<1>5. ScheduledItems'
  BY <1>1, <1>2 DEF IInv, HeapInv, ScheduledItems, Is, Others, Terminal
<1>6. RunningItems'
  BY <1>1, <1>2 DEF IInv, HeapInv, RunningItems, Is, Others, Terminal
<1>7. OwnerInv'
  BY <1>1, <1>2 DEF IInv, HeapInv, OwnerInv, Is, Others, Terminal
<1>8. NoTaskStranded'
  BY <1>1, <1>2 DEF IInv, NoTaskStranded, Others, Terminal
<1>9. NotBeforeDue'
  BY <1>1, <1>2 DEF IInv, NotBeforeDue, Others, Terminal
<1> QED
  BY <1>3, <1>4, <1>5, <1>6, <1>7, <1>8, <1>9 DEF IInv, HeapInv

LEMMA CompleteStep ==
  ASSUME IInv, NEW w \in Workers, NEW t \in Tasks, Complete(w, t), TypeOK'
  PROVE  IInv'
<1>1. /\ Others(t)
      /\ records'[t].state = "completed" /\ records'[t].owner = NoWorker
      /\ records'[t].queue = records[t].queue /\ records'[t].priority = records[t].priority
  BY DEF Complete, IInv, TypeOK, Others, Record
<1>2. t \in issued /\ ~Is(t, "absent") /\ UNCHANGED <<now, heaps, issued>>
  BY DEF Complete, Owns, Is, IInv, HeapInv, IssuedInv
<1> QED
  BY <1>1, <1>2, FinishStep DEF Terminal

LEMMA FailTerminalStep ==
  ASSUME IInv, NEW w \in Workers, NEW t \in Tasks, FailTerminal(w, t), TypeOK'
  PROVE  IInv'
<1>1. /\ Others(t)
      /\ records'[t].state = "failed" /\ records'[t].owner = NoWorker
      /\ records'[t].queue = records[t].queue /\ records'[t].priority = records[t].priority
  BY DEF FailTerminal, IInv, TypeOK, Others, Record
<1>2. t \in issued /\ ~Is(t, "absent") /\ UNCHANGED <<now, heaps, issued>>
  BY DEF FailTerminal, Owns, Is, IInv, HeapInv, IssuedInv
<1> QED
  BY <1>1, <1>2, FinishStep DEF Terminal

LEMMA CancelStep ==
  ASSUME IInv, NEW t \in Tasks, Cancel(t), TypeOK'
  PROVE  IInv'
<1>0. t \in issued /\ ~Is(t, "absent") /\ UNCHANGED <<now, heaps, issued>>
  BY DEF Cancel, Is, IInv, HeapInv, IssuedInv
<1>1. CASE /\ records[t].state \in {"pending", "scheduled"}
           /\ records' = [records EXCEPT ![t].state = "cancelled", ![t].completedAt = now]
  <2>1. /\ Others(t)
        /\ records'[t].state = "cancelled" /\ records'[t].owner = records[t].owner
        /\ records'[t].queue = records[t].queue /\ records'[t].priority = records[t].priority
    BY <1>1 DEF IInv, TypeOK, Others, Record
  <2>2. records[t].owner = NoWorker
    BY <1>1 DEF IInv, HeapInv, OwnerInv, Is
  <2> QED
    BY <1>0, <2>1, <2>2, FinishStep DEF Terminal
<1>2. CASE /\ Is(t, "running")
           /\ records' = [records EXCEPT ![t].maxRetries = "zero"]
  <2>1. \A u \in Tasks : /\ records'[u].state = records[u].state
                         /\ records'[u].queue = records[u].queue
                         /\ records'[u].priority = records[u].priority
                         /\ records'[u].due = records[u].due
                         /\ records'[u].visibilityAt = records[u].visibilityAt
                         /\ records'[u].owner = records[u].owner
                         /\ Is(u, "absent") => records'[u] = records[u]
    BY <1>2 DEF IInv, TypeOK, Record, Is
  <2>2. \A x \in pending \cup scheduled \cup running : x.id \in Tasks
    BY DEF IInv, TypeOK, PendingItem, TimeItem
  <2>3. /\ pending' = pending /\ scheduled' = scheduled /\ running' = running
        /\ issued' = issued /\ now' = now
    BY <1>0 DEF heaps
  <2>4. HeapInv'
    BY <2>1, <2>2, <2>3 DEF IInv, HeapInv, IssuedInv, PendingItems, ScheduledItems,
       RunningItems, OwnerInv, Is
  <2>5. NoTaskStranded'
    BY <2>1, <2>3 DEF IInv, NoTaskStranded
  <2>6. NotBeforeDue'
    BY <2>1, <2>3 DEF IInv, NotBeforeDue
  <2> QED
    BY <2>4, <2>5, <2>6 DEF IInv
<1> QED
  BY <1>1, <1>2 DEF Cancel

LEMMA FailRetryStep ==
  ASSUME IInv, NEW w \in Workers, NEW t \in Tasks, NEW next \in Nat, FailRetry(w, t, next), TypeOK'
  PROVE  IInv'
<1>1. /\ Others(t)
      /\ records'[t].state = "scheduled" /\ records'[t].owner = NoWorker
      /\ records'[t].due = next
      /\ records'[t].queue = records[t].queue /\ records'[t].priority = records[t].priority
  BY DEF FailRetry, IInv, TypeOK, Others, Record
<1>2. /\ scheduled' = scheduled \cup {[queue |-> records[t].queue, id |-> t, when |-> next]}
      /\ pending' = pending /\ running' = running /\ issued' = issued /\ now' = now
      /\ Is(t, "running") /\ t \in issued
  BY DEF FailRetry, Owns, Is, IInv, HeapInv, IssuedInv
<1>3. \A x \in pending \cup scheduled \cup running : x.id \in Tasks
  BY DEF IInv, TypeOK, PendingItem, TimeItem
<1>4. \A x \in pending \cup scheduled : x.id # t
  BY <1>2, <1>3 DEF IInv, HeapInv, PendingItems, ScheduledItems, Is
<1>5. IssuedInv'
  BY <1>1, <1>2, <1>3 DEF IInv, HeapInv, IssuedInv, Is, Others
<1>6. PendingItems'
  BY <1>1, <1>2, <1>3, <1>4 DEF IInv, HeapInv, PendingItems, Is, Others
<1>7. ScheduledItems'
  <2>1. \A x \in scheduled : records'[x.id] = records[x.id]
    BY <1>1, <1>3, <1>4 DEF Others
  <2>2. \A x \in scheduled' \ scheduled : x.id = t /\ x.queue = records[t].queue /\ x.when = next
    BY <1>2, SMTT(30)
  <2> QED
    BY <1>1, <2>1, <2>2 DEF IInv, HeapInv, ScheduledItems, Is
<1>8. RunningItems'
  BY <1>1, <1>2, <1>3 DEF IInv, HeapInv, RunningItems, Is, Others
<1>9. OwnerInv'
  BY <1>1 DEF IInv, HeapInv, OwnerInv, Is, Others
<1>10. NoTaskStranded'
  BY <1>1, <1>2 DEF IInv, NoTaskStranded, Others
<1>11. NotBeforeDue'
  BY <1>1, <1>2 DEF IInv, NotBeforeDue, Others
<1> QED
  BY <1>5, <1>6, <1>7, <1>8, <1>9, <1>10, <1>11 DEF IInv, HeapInv

LEMMA ItemTypes ==
  ASSUME IInv
  PROVE  /\ \A x \in pending : x.id \in Tasks /\ x.queue \in Queues
         /\ \A x \in scheduled \cup running : x.id \in Tasks /\ x.queue \in Queues /\ x.when \in Nat
BY DEF IInv, TypeOK, PendingItem, TimeItem

LEMMA HeartbeatStep ==
  ASSUME IInv, NEW w \in Workers, NEW t \in Tasks, Heartbeat(w, t), TypeOK'
  PROVE  IInv'
<1>1. /\ Others(t)
      /\ records'[t].state = records[t].state /\ records'[t].owner = records[t].owner
      /\ records'[t].due = records[t].due /\ records'[t].visibilityAt = now + Visibility
      /\ records'[t].queue = records[t].queue /\ records'[t].priority = records[t].priority
  BY DEF Heartbeat, IInv, TypeOK, Others, Record
<1>2. /\ running' = running \cup {[queue |-> records[t].queue, id |-> t, when |-> now + Visibility]}
      /\ pending' = pending /\ scheduled' = scheduled /\ issued' = issued /\ now' = now
      /\ records[t].state = "running" /\ t \in issued
  BY DEF Heartbeat, Owns, Is, IInv, HeapInv, IssuedInv
<1>3. \A x \in running' \ running : x.id = t /\ x.queue = records[t].queue
  BY <1>2
<1>4. IssuedInv'
  BY <1>1, <1>2, <1>3, SMTT(30) DEF IInv, HeapInv, IssuedInv, Is, Others
<1>5. PendingItems'
  BY <1>1, <1>2, ItemTypes, SMTT(30) DEF IInv, HeapInv, PendingItems, Is, Others
<1>6. ScheduledItems'
  BY <1>1, <1>2, ItemTypes, SMTT(30) DEF IInv, HeapInv, ScheduledItems, Is, Others
<1>7. RunningItems'
  BY <1>1, <1>2, <1>3, ItemTypes DEF IInv, HeapInv, RunningItems, Is, Others
<1>8. OwnerInv'
  BY <1>1, <1>2 DEF IInv, HeapInv, OwnerInv, Is, Others
<1>9. NoTaskStranded'
  BY <1>1, <1>2 DEF IInv, NoTaskStranded, Others
<1>10. NotBeforeDue'
  BY <1>1, <1>2 DEF IInv, NotBeforeDue, Others
<1> QED
  BY <1>4, <1>5, <1>6, <1>7, <1>8, <1>9, <1>10 DEF IInv, HeapInv

\* Claim pops x and stale items only, so no other pending task loses its item.
LEMMA ClaimStep ==
  ASSUME IInv, NEW w \in Workers, NEW q \in Queues, Claim(w, q), TypeOK'
  PROVE  IInv'
<1>1. PICK x \in PendingOf(q) :
        /\ ~Stale(x)
        /\ \A y \in PoppedUpTo(x) \ {x} : Stale(y)
        /\ records' = [records EXCEPT ![x.id].state = "running",
                                      ![x.id].attempts = @ + 1,
                                      ![x.id].owner = w,
                                      ![x.id].visibilityAt = now + Visibility]
        /\ pending' = pending \ PoppedUpTo(x)
        /\ running' = running \cup {[queue |-> q, id |-> x.id, when |-> now + Visibility]}
  BY DEF Claim
<1> DEFINE t == x.id
<1>2. x \in pending /\ x.queue = q /\ t \in Tasks /\ Is(t, "pending")
  BY <1>1, ItemTypes DEF PendingOf, Stale
<1>3. /\ Others(t)
      /\ records'[t].state = "running" /\ records'[t].owner = w
      /\ records'[t].due = records[t].due /\ records'[t].visibilityAt = now + Visibility
      /\ records'[t].queue = records[t].queue /\ records'[t].priority = records[t].priority
  BY <1>1, <1>2 DEF IInv, TypeOK, Others, Record
<1>4. /\ scheduled' = scheduled /\ issued' = issued /\ now' = now
      /\ t \in issued /\ q = records[t].queue
  BY <1>2 DEF Claim, IInv, HeapInv, IssuedInv, PendingItems, Is
<1>5. \A y \in running' \ running : y.id = t /\ y.queue = records[t].queue
  BY <1>1, <1>4
<1>r. running' = running \cup {[queue |-> records[t].queue, id |-> t, when |-> now + Visibility]}
  BY <1>1, <1>4
<1>p. pending' \subseteq pending
  BY <1>1
<1>6. \A y \in pending : y \notin pending' => y = x \/ ~Is(y.id, "pending")
  BY <1>1 DEF Stale
<1> HIDE DEF t
<1>7. IssuedInv'
  BY <1>1, <1>3, <1>4, <1>5 DEF IInv, HeapInv, IssuedInv, Is, Others
<1>8. PendingItems'
  <2>1. \A y \in pending' : y.id # t
    <3> SUFFICES ASSUME NEW y \in pending', y.id = t PROVE FALSE
      OBVIOUS
    <3>1. y \in pending /\ y \notin PoppedUpTo(x)
      BY <1>1
    <3>2. y = x
      BY <1>2, <3>1 DEF IInv, HeapInv, PendingItems, t
    <3> QED
      BY <1>2, <3>1, <3>2 DEF PoppedUpTo, PendingOf
  <2>2. \A y \in pending' : records'[y.id] = records[y.id]
    BY <1>3, <1>p, <2>1, ItemTypes, SMTT(30) DEF Others
  <2> QED
    BY <1>p, <2>2 DEF IInv, HeapInv, PendingItems, Is
<1>9. ScheduledItems'
  BY <1>2, <1>3, <1>4, ItemTypes, SMTT(30) DEF IInv, HeapInv, ScheduledItems, Is, Others
<1>10. RunningItems'
  <2>1. \A y \in running : ~Is(y.id, "absent")' => ~Is(y.id, "absent")
    BY <1>2, <1>3, ItemTypes DEF Is, Others
  <2>2. \A y \in running : records'[y.id].queue = records[y.id].queue
    BY <1>3, ItemTypes DEF Others
  <2> QED
    BY <1>3, <1>5, <2>1, <2>2, SMTT(30) DEF IInv, HeapInv, RunningItems, Is
<1>11. OwnerInv'
  BY <1>3 DEF IInv, HeapInv, OwnerInv, Is, Others
<1>12. NoTaskStranded'
  <2> SUFFICES ASSUME NEW u \in Tasks
               PROVE  LET r == records'[u] IN
                 /\ r.state = "pending" => \E y \in pending' : y.id = u /\ y.queue = r.queue
                 /\ r.state = "scheduled" => [queue |-> r.queue, id |-> u, when |-> r.due] \in scheduled'
                 /\ r.state = "running" =>
                      [queue |-> r.queue, id |-> u, when |-> r.visibilityAt] \in running'
    BY DEF NoTaskStranded
  <2>1. CASE u = t
    BY <1>3, <1>r, <2>1, SMTT(30)
  <2>2. CASE u # t
    <3>1. records'[u] = records[u]
      BY <1>3, <2>2 DEF Others
    <3>2. \A y \in pending : y.id = u /\ Is(u, "pending") => y \in pending'
      BY <1>6, <2>2 DEF t
    <3> QED
      BY <1>r, <1>4, <3>1, <3>2, SMTT(30) DEF IInv, NoTaskStranded, Is
  <2> QED
    BY <2>1, <2>2
<1>13. NotBeforeDue'
  BY <1>2, <1>3, <1>4 DEF IInv, NotBeforeDue, Others, Is
<1> QED
  BY <1>7, <1>8, <1>9, <1>10, <1>11, <1>12, <1>13 DEF IInv, HeapInv

LEMMA ClaimNothingStep ==
  ASSUME IInv, NEW q \in Queues, ClaimNothing(q), TypeOK'
  PROVE  IInv'
<1>1. /\ pending' \subseteq pending
      /\ \A x \in pending : x \notin pending' => ~Is(x.id, "pending")
      /\ records' = records /\ scheduled' = scheduled /\ running' = running
      /\ issued' = issued /\ now' = now
  BY DEF ClaimNothing, PendingOf, Stale
<1>2. HeapInv'
  BY <1>1 DEF IInv, HeapInv, IssuedInv, PendingItems, ScheduledItems, RunningItems, OwnerInv, Is
<1>3. NoTaskStranded'
  BY <1>1 DEF IInv, NoTaskStranded, Is
<1>4. NotBeforeDue'
  BY <1>1 DEF IInv, NotBeforeDue
<1> QED
  BY <1>2, <1>3, <1>4 DEF IInv

\* PromoteScheduled takes the item of every task it promotes out of the
\* scheduled heap and gives it one in the pending heap.
LEMMA PromoteStep ==
  ASSUME IInv, NEW q \in Queues, NEW n \in Nat, PromoteScheduled(q, n), TypeOK'
  PROVE  IInv'
<1> DEFINE popped == DueItems(scheduled, q, n)
           live == {x \in popped : Is(x.id, "scheduled")}
           ids == {x.id : x \in live}
<1>1. /\ records' = [t \in Tasks |->
                      IF t \in ids THEN [records[t] EXCEPT !.state = "pending"] ELSE records[t]]
      /\ pending' = pending \cup Requeued(live, n)
      /\ scheduled' = scheduled \ popped
      /\ running' = running /\ issued' = issued /\ now' = now /\ n <= now
  BY DEF PromoteScheduled
<1>2. \A x \in popped : x \in scheduled /\ x.queue = q /\ x.when <= n /\ x.id \in Tasks
  BY ItemTypes DEF DueItems
<1>3. \A t \in ids : /\ t \in Tasks /\ t \in issued /\ Is(t, "scheduled")
                     /\ records[t].queue = q /\ records[t].due <= n
  BY <1>2 DEF IInv, HeapInv, IssuedInv, ScheduledItems
<1>4. \A t \in Tasks : Is(t, "scheduled") /\ t \notin ids =>
        [queue |-> records[t].queue, id |-> t, when |-> records[t].due] \in scheduled'
  <2> SUFFICES ASSUME NEW t \in Tasks, Is(t, "scheduled"), t \notin ids
               PROVE  [queue |-> records[t].queue, id |-> t, when |-> records[t].due] \in scheduled'
    OBVIOUS
  <2> DEFINE x == [queue |-> records[t].queue, id |-> t, when |-> records[t].due]
  <2>1. x \in scheduled /\ x.id = t
    BY DEF IInv, NoTaskStranded, Is
  <2>2. x \notin popped
    BY <2>1
  <2> QED
    BY <1>1, <2>1, <2>2, SMTT(30)
<1>5. \A x \in scheduled' : x \in scheduled /\ x.id \in Tasks /\ x.id \notin ids
  <2> SUFFICES ASSUME NEW x \in scheduled', x.id \in ids PROVE FALSE
    BY <1>1, ItemTypes
  <2>1. x \in scheduled /\ x \notin popped
    BY <1>1
  <2>2. Is(x.id, "scheduled") /\ records[x.id].queue = q /\ records[x.id].due <= n
    BY <1>3
  <2>3. x.queue = q /\ x.when <= n
    BY <2>1, <2>2 DEF IInv, HeapInv, ScheduledItems
  <2> QED
    BY <2>1, <2>3 DEF DueItems
<1>6. \A t \in ids :
        /\ records'[t].state = "pending"
        /\ records'[t].queue = records[t].queue /\ records'[t].priority = records[t].priority
        /\ records'[t].due = records[t].due /\ records'[t].owner = records[t].owner
  BY <1>1, <1>3 DEF IInv, TypeOK, Record
<1>7. \A t \in Tasks : t \notin ids => records'[t] = records[t]
  BY <1>1
<1>8. /\ \A x \in Requeued(live, n) :
           x.id \in ids /\ x.queue = q /\ x.priority = records[x.id].priority /\ x.at = n
      /\ \A t \in ids : [queue |-> q, id |-> t, priority |-> records[t].priority, at |-> n]
                           \in Requeued(live, n)
  BY <1>2 DEF Requeued
<1>9. \A x, y \in Requeued(live, n) : x.id = y.id => x = y
  BY <1>2 DEF Requeued
<1>10. \A x \in pending : x.id \in Tasks /\ x.id \notin ids
  BY <1>3, ItemTypes DEF IInv, HeapInv, PendingItems, Is
<1> HIDE DEF ids, live, popped
<1>11. IssuedInv'
  BY <1>1, <1>3, <1>5, <1>7, <1>8 DEF IInv, HeapInv, IssuedInv, Is
<1>12. PendingItems'
  <2>1. \A x, y \in pending' : y.id = x.id => y = x
    BY <1>1, <1>8, <1>9, <1>10 DEF IInv, HeapInv, PendingItems
  <2>2. \A x \in pending : records'[x.id] = records[x.id]
    BY <1>7, <1>10
  <2> QED
    <3>1. \A x \in pending :
             /\ records'[x.id].state \notin {"scheduled", "running"}
             /\ records'[x.id].state # "absent" => x.queue = records'[x.id].queue
                                                  /\ x.priority = records'[x.id].priority
      BY <2>2 DEF IInv, HeapInv, PendingItems, Is
    <3>2. \A x \in Requeued(live, n) :
             /\ records'[x.id].state \notin {"scheduled", "running"}
             /\ x.queue = records'[x.id].queue
             /\ x.priority = records'[x.id].priority
      BY <1>3, <1>6, <1>8
    <3>3. pending' = pending \cup Requeued(live, n)
      BY <1>1, SMTT(30)
    <3>4. ASSUME NEW x \in pending'
          PROVE  /\ records'[x.id].state \notin {"scheduled", "running"}
                 /\ records'[x.id].state # "absent" => x.queue = records'[x.id].queue
                                            /\ x.priority = records'[x.id].priority
      <4>1. CASE x \in pending
        BY <3>1, <4>1
      <4>2. CASE x \in Requeued(live, n)
        BY <3>2, <4>2
      <4> QED
        BY <3>3, <4>1, <4>2
    <3> QED
      BY <2>1, <3>4, SMTT(30) DEF PendingItems, Is
<1>13. ScheduledItems'
  BY <1>5, <1>7 DEF IInv, HeapInv, ScheduledItems, Is
<1>14. RunningItems'
  <2>1. \A x \in running : records'[x.id].queue = records[x.id].queue
                          /\ (~Is(x.id, "absent")' => ~Is(x.id, "absent"))
    BY <1>3, <1>6, <1>7, ItemTypes DEF Is
  <2> QED
    BY <1>1, <2>1 DEF IInv, HeapInv, RunningItems
<1>15. OwnerInv'
  BY <1>3, <1>6, <1>7 DEF IInv, HeapInv, OwnerInv, Is
<1>16. NoTaskStranded'
  <2> SUFFICES ASSUME NEW u \in Tasks
               PROVE  LET r == records'[u] IN
                 /\ r.state = "pending" => \E y \in pending' : y.id = u /\ y.queue = r.queue
                 /\ r.state = "scheduled" => [queue |-> r.queue, id |-> u, when |-> r.due] \in scheduled'
                 /\ r.state = "running" =>
                      [queue |-> r.queue, id |-> u, when |-> r.visibilityAt] \in running'
    BY DEF NoTaskStranded
  <2>1. CASE u \in ids
    <3> DEFINE x == [queue |-> q, id |-> u, priority |-> records[u].priority, at |-> n]
    <3>1. x \in pending' /\ x.id = u /\ x.queue = q
      BY <1>1, <1>8, <2>1
    <3> QED
      BY <1>3, <1>6, <2>1, <3>1
  <2>2. CASE u \notin ids
    BY <1>1, <1>4, <1>7, <2>2 DEF IInv, NoTaskStranded, Is
  <2> QED
    BY <2>1, <2>2
<1>17. NotBeforeDue'
  <2>1. now \in Nat /\ \A t \in Tasks : records[t].due \in Nat
    BY DEF IInv, TypeOK, Record
  <2> QED
    BY <1>1, <1>3, <1>6, <1>7, <2>1 DEF IInv, NotBeforeDue
<1> QED
  BY <1>11, <1>12, <1>13, <1>14, <1>15, <1>16, <1>17 DEF IInv, HeapInv

\* ReclaimExpired moves the task of an item that carries the current deadline
\* and skips every older item, so a renewed lease keeps its own item.
LEMMA ReclaimStep ==
  ASSUME IInv, NEW q \in Queues, NEW n \in Nat, ReclaimExpired(q, n), TypeOK'
  PROVE  IInv'
<1> DEFINE popped == DueItems(running, q, n)
           live == {x \in popped : Expired(x)}
           ids == {x.id : x \in live}
<1>1. /\ records' = [t \in Tasks |->
                      IF t \in ids
                      THEN [records[t] EXCEPT !.state = "pending", !.owner = NoWorker]
                      ELSE records[t]]
      /\ pending' = pending \cup Requeued(live, n)
      /\ running' = running \ popped
      /\ scheduled' = scheduled /\ issued' = issued /\ now' = now
  BY DEF ReclaimExpired
<1>2. \A x \in popped : x \in running /\ x.queue = q /\ x.id \in Tasks
  BY ItemTypes DEF DueItems
<1>3. \A t \in ids : t \in Tasks /\ t \in issued /\ Is(t, "running") /\ records[t].queue = q
  BY <1>2 DEF IInv, HeapInv, IssuedInv, RunningItems, Expired, Is
<1>4. \A t \in Tasks : Is(t, "running") /\ t \notin ids =>
        [queue |-> records[t].queue, id |-> t, when |-> records[t].visibilityAt] \in running'
  <2> SUFFICES ASSUME NEW t \in Tasks, Is(t, "running"), t \notin ids
               PROVE  [queue |-> records[t].queue, id |-> t, when |-> records[t].visibilityAt]
                        \in running'
    OBVIOUS
  <2> DEFINE x == [queue |-> records[t].queue, id |-> t, when |-> records[t].visibilityAt]
  <2>1. x \in running /\ x.id = t /\ x.when = records[t].visibilityAt
    BY DEF IInv, NoTaskStranded, Is
  <2>2. x \notin popped
    BY <2>1 DEF Expired
  <2> QED
    BY <1>1, <2>1, <2>2
<1>5. \A t \in ids :
        /\ records'[t].state = "pending" /\ records'[t].owner = NoWorker
        /\ records'[t].queue = records[t].queue /\ records'[t].priority = records[t].priority
        /\ records'[t].due = records[t].due
  BY <1>1, <1>3 DEF IInv, TypeOK, Record
<1>6. \A t \in Tasks : t \notin ids => records'[t] = records[t]
  BY <1>1
<1>7. pending' = pending \cup Requeued(live, n)
  BY <1>1
<1>8. /\ \A x \in Requeued(live, n) :
           x.id \in ids /\ x.queue = q /\ x.priority = records[x.id].priority /\ x.at = n
      /\ \A t \in ids : [queue |-> q, id |-> t, priority |-> records[t].priority, at |-> n]
                           \in Requeued(live, n)
  BY <1>2, SMTT(30) DEF Requeued
<1>9. \A x, y \in Requeued(live, n) : x.id = y.id => x = y
  BY <1>2 DEF Requeued
<1>10. \A x \in pending : x.id \in Tasks /\ x.id \notin ids
  BY <1>3, ItemTypes, SMTT(30) DEF IInv, HeapInv, PendingItems, Is
<1>11. \A x \in scheduled : x.id \in Tasks /\ x.id \notin ids
  BY <1>3, ItemTypes DEF IInv, HeapInv, ScheduledItems, Is
<1>12. running' \subseteq running /\ scheduled' = scheduled /\ issued' = issued /\ now' = now
  BY <1>1
<1> HIDE DEF ids, live, popped
<1>13. IssuedInv'
  BY <1>3, <1>6, <1>7, <1>8, <1>12 DEF IInv, HeapInv, IssuedInv, Is
<1>14. PendingItems'
  <2>1. \A x, y \in pending' : y.id = x.id => y = x
    BY <1>7, <1>8, <1>9, <1>10, SMTT(30) DEF IInv, HeapInv, PendingItems
  <2>2. \A x \in pending : records'[x.id] = records[x.id]
    BY <1>6, <1>10
  <2>3. \A x \in pending :
          /\ records'[x.id].state \notin {"scheduled", "running"}
          /\ records'[x.id].state # "absent" => x.queue = records'[x.id].queue
                                               /\ x.priority = records'[x.id].priority
    BY <2>2 DEF IInv, HeapInv, PendingItems, Is
  <2>4. \A x \in Requeued(live, n) :
          /\ records'[x.id].state \notin {"scheduled", "running"}
          /\ x.queue = records'[x.id].queue
          /\ x.priority = records'[x.id].priority
    BY <1>3, <1>5, <1>8, SMTT(30)
  <2> QED
    BY <1>7, <2>1, <2>3, <2>4, SMTT(30) DEF PendingItems, Is
<1>15. ScheduledItems'
  BY <1>6, <1>11, <1>12 DEF IInv, HeapInv, ScheduledItems, Is
<1>16. RunningItems'
  <2>1. \A x \in running : /\ records'[x.id].queue = records[x.id].queue
                           /\ records'[x.id].state # "absent" => records[x.id].state # "absent"
    BY <1>3, <1>5, <1>6, ItemTypes DEF Is
  <2> QED
    BY <1>12, <2>1 DEF IInv, HeapInv, RunningItems, Is
<1>17. OwnerInv'
  BY <1>5, <1>6, SMTT(30) DEF IInv, HeapInv, OwnerInv, Is
<1>18. NoTaskStranded'
  <2> SUFFICES ASSUME NEW u \in Tasks
               PROVE  LET r == records'[u] IN
                 /\ r.state = "pending" => \E y \in pending' : y.id = u /\ y.queue = r.queue
                 /\ r.state = "scheduled" => [queue |-> r.queue, id |-> u, when |-> r.due] \in scheduled'
                 /\ r.state = "running" =>
                      [queue |-> r.queue, id |-> u, when |-> r.visibilityAt] \in running'
    BY DEF NoTaskStranded
  <2>1. CASE u \in ids
    <3> DEFINE x == [queue |-> q, id |-> u, priority |-> records[u].priority, at |-> n]
    <3>1. x \in pending' /\ x.id = u /\ x.queue = q
      BY <1>7, <1>8, <2>1, SMTT(30)
    <3> QED
      BY <1>3, <1>5, <2>1, <3>1, SMTT(30)
  <2>2. CASE u \notin ids
    BY <1>4, <1>6, <1>7, <1>12, <2>2 DEF IInv, NoTaskStranded, Is
  <2> QED
    BY <2>1, <2>2
<1>19. NotBeforeDue'
  BY <1>3, <1>5, <1>6, <1>12 DEF IInv, NotBeforeDue, Is
<1> QED
  BY <1>13, <1>14, <1>15, <1>16, <1>17, <1>18, <1>19 DEF IInv, HeapInv

LEMMA PurgeStep ==
  ASSUME IInv, NEW cutoff, PurgeOlderThan(cutoff), TypeOK'
  PROVE  IInv'
<1>1. /\ pending' = pending /\ scheduled' = scheduled /\ running' = running
      /\ issued' = issued /\ now' = now
  BY DEF PurgeOlderThan, heaps
<1>2. \A t \in Tasks : \/ records'[t] = records[t]
                       \/ records[t].state \in Terminal /\ records'[t] = Missing
  BY DEF PurgeOlderThan
<1>3. \A t \in Tasks : \/ records'[t] = records[t]
                       \/ /\ records'[t].state = "absent" /\ records'[t].owner = NoWorker
                          /\ records'[t] = Missing
  BY <1>2, MissingType
<1>4. HeapInv'
  <2>1. IssuedInv'
    BY <1>1, <1>3, SMTT(30) DEF IInv, HeapInv, IssuedInv, Is
  <2>2. PendingItems' /\ ScheduledItems' /\ RunningItems'
    BY <1>1, <1>3, ItemTypes, SMTT(30) DEF IInv, HeapInv, PendingItems, ScheduledItems, RunningItems, Is
  <2>3. OwnerInv'
    BY <1>3, SMTT(30) DEF IInv, HeapInv, OwnerInv, Is
  <2> QED
    BY <2>1, <2>2, <2>3 DEF HeapInv
<1>5. NoTaskStranded'
  BY <1>1, <1>3, SMTT(30) DEF IInv, NoTaskStranded
<1>6. NotBeforeDue'
  BY <1>1, <1>3, SMTT(30) DEF IInv, NotBeforeDue
<1> QED
  BY <1>4, <1>5, <1>6 DEF IInv

LEMMA CloseStep ==
  ASSUME IInv, Close, TypeOK'
  PROVE  IInv'
<1>1. \A t \in Tasks : /\ records'[t].state = "absent" /\ records'[t].owner = NoWorker
                       /\ records'[t] = Missing
  BY MissingType DEF Close
<1>2. pending' = {} /\ scheduled' = {} /\ running' = {}
  BY DEF Close
<1> QED
  BY <1>1, <1>2 DEF IInv, HeapInv, IssuedInv, PendingItems, ScheduledItems, RunningItems,
     OwnerInv, NoTaskStranded, NotBeforeDue, Is

\* A step that leaves records, heaps and IDs alone; the clock may advance.
LEMMA QuietStep ==
  ASSUME IInv, UNCHANGED <<records, heaps, issued>>, now' \in Nat, now' >= now, TypeOK'
  PROVE  IInv'
<1>1. /\ pending' = pending /\ scheduled' = scheduled /\ running' = running
      /\ issued' = issued /\ records' = records
  BY SMTT(30) DEF heaps
<1>2. HeapInv'
  BY <1>1 DEF IInv, HeapInv, IssuedInv, PendingItems, ScheduledItems, RunningItems, OwnerInv, Is
<1>3. NoTaskStranded'
  BY <1>1 DEF IInv, NoTaskStranded
<1>4. NotBeforeDue'
  <2>1. now \in Nat /\ \A t \in Tasks : records[t].due \in Nat
    BY DEF IInv, TypeOK, Record
  <2> QED
    BY <1>1, <2>1 DEF IInv, NotBeforeDue
<1> QED
  BY <1>2, <1>3, <1>4 DEF IInv

LEMMA IInvStep == ~ExplicitIDs /\ IInv /\ [Next]_vars => IInv'
<1> SUFFICES ASSUME ~ExplicitIDs, IInv, [Next]_vars PROVE IInv'
  OBVIOUS
<1>0. TypeOK' /\ now \in Nat
  BY TypeStep DEF IInv, TypeOK
<1>1. ASSUME NEW t \in Tasks, NEW q \in Queues, NEW p \in Priorities, NEW dl \in Deadlines,
             NEW d \in Delays, NEW k \in Keys \cup {NoKey}, Enqueue(t, q, p, dl, d, k)
      PROVE IInv'
  BY <1>0, <1>1, EnqueueStep
<1>2. ASSUME NEW k \in Keys, EnqueueDuplicate(k) PROVE IInv'
  BY <1>0, <1>2, QuietStep DEF EnqueueDuplicate
<1>3. ASSUME NEW w \in Workers, NEW q \in Queues, Claim(w, q) PROVE IInv'
  BY <1>0, <1>3, ClaimStep
<1>4. ASSUME NEW q \in Queues, ClaimNothing(q) PROVE IInv'
  BY <1>0, <1>4, ClaimNothingStep
<1>5. ASSUME NEW w \in Workers, NEW t \in Tasks, Heartbeat(w, t) PROVE IInv'
  BY <1>0, <1>5, HeartbeatStep
<1>6. ASSUME NEW w \in Workers, NEW t \in Tasks, Complete(w, t) PROVE IInv'
  BY <1>0, <1>6, CompleteStep
<1>7. ASSUME NEW w \in Workers, NEW t \in Tasks, NEW d \in Delays, FailRetry(w, t, now + d)
      PROVE IInv'
  <2>1. now + d \in Nat
    BY <1>0, StoreAssumption
  <2> QED
    BY <1>0, <1>7, <2>1, FailRetryStep
<1>8. ASSUME NEW w \in Workers, NEW t \in Tasks, FailTerminal(w, t) PROVE IInv'
  BY <1>0, <1>8, FailTerminalStep
<1>9. ASSUME NEW t \in Tasks, Cancel(t) PROVE IInv'
  BY <1>0, <1>9, CancelStep
<1>10. ASSUME NEW q \in Queues, NEW n \in 1..now, PromoteScheduled(q, n) PROVE IInv'
  BY <1>0, <1>10, PromoteStep
<1>11. ASSUME NEW q \in Queues, NEW n \in 1..now, ReclaimExpired(q, n) PROVE IInv'
  BY <1>0, <1>11, ReclaimStep
<1>12. ASSUME NEW cutoff \in 1..(now + 1), PurgeOlderThan(cutoff) PROVE IInv'
  BY <1>0, <1>12, PurgeStep
<1>13. CASE Close
  BY <1>0, <1>13, CloseStep
<1>14. CASE Tick
  BY <1>0, <1>14, QuietStep DEF Tick
<1>15. CASE UNCHANGED vars
  BY <1>0, <1>15, QuietStep DEF vars, heaps
<1> QED
  BY <1>1, <1>2, <1>3, <1>4, <1>5, <1>6, <1>7, <1>8, <1>9, <1>10, <1>11, <1>12, <1>13,
     <1>14, <1>15 DEF Next

LEMMA Invariance == ~ExplicitIDs /\ Spec => []IInv
<1>1. ASSUME ~ExplicitIDs PROVE Spec => []IInv
  <2>1. IInv /\ [Next]_vars => IInv'
    BY <1>1, IInvStep
  <2> QED
    BY <2>1, HeapInit, PTL DEF Spec
<1> QED
  BY <1>1

\* When the store issues the IDs, no call in any order leaves a live task
\* without the heap item that will bring it back: each pending record can be
\* claimed, each scheduled one promoted, each running one reclaimed.
THEOREM NothingStranded == ~ExplicitIDs /\ Spec => []NoTaskStranded
<1>1. IInv => NoTaskStranded
  BY DEF IInv
<1> QED
  BY <1>1, Invariance, PTL

\* When the store issues the IDs, no task is claimable or running before the
\* time its last DelayUntil or nextAttemptAt asked for.
THEOREM DelaysHonoured == ~ExplicitIDs /\ Spec => []NotBeforeDue
<1>1. IInv => NotBeforeDue
  BY DEF IInv
<1> QED
  BY <1>1, Invariance, PTL

----------------------------------------------------------------------------

\* The dedup map is written by Enqueue (both outcomes) and Close only.
LEMMA DedupStep == TypeOK /\ DedupInv /\ [Next]_vars => DedupInv'
<1> SUFFICES ASSUME TypeOK, DedupInv, [Next]_vars PROVE DedupInv'
  OBVIOUS
<1> USE StoreAssumption
<1>0. now \in Nat /\ DedupWindow \in Nat /\ dedup \in [Keys -> Nat] /\ accepted \in [Keys -> Nat]
  BY DEF TypeOK
<1>1. ASSUME NEW t \in Tasks, NEW q \in Queues, NEW p \in Priorities, NEW dl \in Deadlines,
             NEW d \in Delays, NEW k \in Keys \cup {NoKey}, Enqueue(t, q, p, dl, d, k)
      PROVE DedupInv'
  <2>1. CASE ~DedupChecked(k)
    BY <1>0, <1>1, <2>1 DEF Enqueue, DedupInv
  <2>2. CASE DedupChecked(k)
    <3>1. /\ k \in Keys /\ now' = now /\ closed' = closed
          /\ dedup' = [Evicted EXCEPT ![k] = now + DedupWindow]
          /\ accepted' = [accepted EXCEPT ![k] = now]
          /\ DedupWindow > 0
      BY <1>1, <2>2 DEF Enqueue, DedupChecked
    <3>2. dedup'[k] = now + DedupWindow /\ accepted'[k] = now
      BY <1>0, <3>1 DEF Evicted
    <3>3. \A x \in Keys \ {k} : /\ dedup'[x] = IF dedup[x] < now THEN 0 ELSE dedup[x]
                                /\ accepted'[x] = accepted[x]
      BY <1>0, <3>1 DEF Evicted
    <3>4. ASSUME NEW x \in Keys
          PROVE /\ dedup'[x] # 0 => accepted'[x] # 0 /\ dedup'[x] = accepted'[x] + DedupWindow
                /\ dedup'[x] = 0 /\ accepted'[x] # 0 /\ ~closed' => accepted'[x] + DedupWindow < now'
                /\ accepted'[x] # 0 => DedupWindow > 0
      <4>1. CASE x = k
        BY <1>0, <3>1, <3>2, <4>1 DEF DedupInv
      <4>2. CASE x # k
        BY <1>0, <3>1, <3>3, <4>2 DEF DedupInv
      <4> QED
        BY <4>1, <4>2
    <3> QED
      BY <3>1, <3>4 DEF DedupInv
  <2> QED
    BY <2>1, <2>2
<1>2. ASSUME NEW k \in Keys, EnqueueDuplicate(k) PROVE DedupInv'
  BY <1>0, <1>2 DEF EnqueueDuplicate, Evicted, DedupInv
<1>3. CASE Close
  BY <1>3 DEF Close, DedupInv
<1>4. CASE Tick
  BY <1>0, <1>4 DEF Tick, DedupInv
<1>5. CASE UNCHANGED <<now, dedup, closed, accepted>>
  BY <1>5 DEF DedupInv
<1> QED
  BY <1>1, <1>2, <1>3, <1>4, <1>5, ZenonT(30) DEF Next, vars, Claim, ClaimNothing, Heartbeat,
     Complete, FailRetry, FailTerminal, Cancel, PromoteScheduled, ReclaimExpired, PurgeOlderThan

\* For every DedupWindow, two tasks with one UniqueKey are accepted more than
\* DedupWindow apart, although expired keys are evicted lazily.
THEOREM DedupHolds == Spec => DedupSpacing
<1> DEFINE Spaced == \A k \in Keys : accepted[k] # NoTime /\ Accepts(k)
                                      => now - accepted[k] > DedupWindow
<1>1. Init => DedupInv
  BY DEF Init, DedupInv
<1>2. TypeOK /\ DedupInv => Spaced
  <2> SUFFICES ASSUME TypeOK, DedupInv, NEW k \in Keys, Accepts(k), accepted[k] # NoTime
               PROVE  now - accepted[k] > DedupWindow
    OBVIOUS
  <2>1. PICK t \in Tasks, q \in Queues, p \in Priorities, dl \in Deadlines, d \in Delays :
               Enqueue(t, q, p, dl, d, k)
    BY SMTT(30) DEF Accepts
  <2>2. DedupChecked(k)
    BY StoreAssumption DEF DedupChecked, DedupInv
  <2>3. ~closed /\ Evicted[k] = 0
    BY <2>1, <2>2 DEF Enqueue
  <2>4. dedup[k] < now \/ dedup[k] = 0
    BY <2>3 DEF Evicted
  <2> QED
    BY <2>3, <2>4, StoreAssumption DEF TypeOK, DedupInv
<1>3. Spec => []DedupInv
  BY <1>1, DedupStep, TypeCorrect, PTL DEF Spec
<1> QED
  BY <1>2, <1>3, TypeCorrect, PTL DEF Spec, DedupSpacing

\* When the store issues the IDs, a running task is taken back only after the
\* last lease it was granted, by Claim or by Heartbeat, has run out.
THEOREM LeasesHonoured == ~ExplicitIDs /\ Spec => LeaseHonoured
<1> DEFINE Honoured ==
      \A t \in Tasks :
        Is(t, "running") /\ (Is(t, "pending")' \/ records'[t].attempts > records[t].attempts)
          => records[t].visibilityAt <= now
<1>1. ASSUME ~ExplicitIDs, IInv, [Next]_vars PROVE [Honoured]_vars
  <2> SUFFICES ASSUME Next, NEW u \in Tasks, records[u].state = "running",
                      records'[u].state = "pending" \/ records'[u].attempts > records[u].attempts
               PROVE  records[u].visibilityAt <= now
    BY <1>1, SMTT(30) DEF Is
  <2>0. /\ records \in [Tasks -> Record] /\ now \in Nat
        /\ records[u].visibilityAt \in Nat /\ records[u].attempts \in Nat
    BY <1>1 DEF IInv, TypeOK, Record
  <2>1. ASSUME NEW t \in Tasks, NEW q \in Queues, NEW p \in Priorities, NEW dl \in Deadlines,
               NEW d \in Delays, NEW k \in Keys \cup {NoKey}, Enqueue(t, q, p, dl, d, k)
        PROVE FALSE
    <3>1. u # t
      BY <1>1, <2>1 DEF Enqueue, IInv, HeapInv, IssuedInv, Is
    <3>2. records'[u] = records[u]
      BY <2>0, <2>1, <3>1 DEF Enqueue, Insert
    <3> QED
      BY <2>0, <3>2, SMTT(30)
  <2>2. ASSUME NEW w \in Workers, NEW q \in Queues, Claim(w, q) PROVE FALSE
    <3>1. PICK x \in pending :
            /\ Is(x.id, "pending")
            /\ records' = [records EXCEPT ![x.id].state = "running",
                                          ![x.id].attempts = @ + 1,
                                          ![x.id].owner = w,
                                          ![x.id].visibilityAt = now + Visibility]
      BY <2>2 DEF Claim, PendingOf, Stale
    <3>2. records'[u] = records[u]
      BY <2>0, <3>1 DEF Is
    <3> QED
      BY <2>0, <3>2
  <2>3. ASSUME NEW w \in Workers, NEW t \in Tasks, Heartbeat(w, t) PROVE FALSE
    BY <2>0, <2>3 DEF Heartbeat, Record
  <2>4. ASSUME NEW w \in Workers, NEW t \in Tasks,
               Complete(w, t) \/ FailTerminal(w, t) \/ \E d \in Delays : FailRetry(w, t, now + d)
        PROVE FALSE
    <3>1. records'[u].attempts = records[u].attempts /\ records'[u].state # "pending"
      <4>1. CASE Complete(w, t)
        BY <2>0, <4>1 DEF Complete, Record
      <4>2. CASE FailTerminal(w, t)
        BY <2>0, <4>2 DEF FailTerminal, Record
      <4>3. ASSUME NEW d \in Delays, FailRetry(w, t, now + d)
            PROVE records'[u].attempts = records[u].attempts /\ records'[u].state # "pending"
        BY <2>0, <4>3 DEF FailRetry, Record
      <4> QED
        BY <2>4, <4>1, <4>2, <4>3
    <3> QED
      BY <2>0, <3>1, SMTT(30)
  <2>5. ASSUME NEW t \in Tasks, Cancel(t) PROVE FALSE
    <3>1. records'[u].attempts = records[u].attempts /\ records'[u].state # "pending"
      BY <2>0, <2>5 DEF Cancel, Record
    <3> QED
      BY <2>0, <3>1
  <2>6. ASSUME NEW q \in Queues, NEW n \in 1..now, PromoteScheduled(q, n) PROVE FALSE
    <3>1. records'[u] = records[u]
      BY <2>6 DEF PromoteScheduled, Is
    <3> QED
      BY <2>0, <3>1
  <2>7. ASSUME NEW q \in Queues, NEW n \in 1..now, ReclaimExpired(q, n)
        PROVE records[u].visibilityAt <= now
    <3> DEFINE live == {x \in DueItems(running, q, n) : Expired(x)}
    <3>1. CASE u \in {x.id : x \in live}
      <4>1. PICK x \in live : x.id = u
        BY <3>1
      <4>2. x.when <= n /\ x.when = records[u].visibilityAt /\ n <= now
        BY <2>7, <4>1 DEF ReclaimExpired, DueItems, Expired
      <4> QED
        BY <2>0, <4>2
    <3>2. CASE u \notin {x.id : x \in live}
      <4>1. records'[u] = records[u]
        BY <2>7, <3>2 DEF ReclaimExpired
      <4> QED
        BY <2>0, <4>1
    <3> QED
      BY <3>1, <3>2
  <2>8. ASSUME NEW cutoff, PurgeOlderThan(cutoff) PROVE FALSE
    <3>1. records'[u] = records[u]
      BY <2>8 DEF PurgeOlderThan, Terminal
    <3> QED
      BY <2>0, <3>1
  <2>9. CASE Close
    BY <2>0, <2>9, MissingType DEF Close
  <2>10. CASE records' = records
    BY <2>0, <2>10
  <2> QED
    BY <2>1, <2>2, <2>3, <2>4, <2>5, <2>6, <2>7, <2>8, <2>9, <2>10
       DEF Next, EnqueueDuplicate, ClaimNothing, Tick
<1>2. ASSUME ~ExplicitIDs PROVE Spec => LeaseHonoured
  <2>1. IInv /\ [Next]_vars => [Honoured]_vars
    BY <1>1, <1>2
  <2>2. Spec => []IInv
    BY <1>2, Invariance
  <2> QED
    BY <2>1, <2>2, PTL DEF Spec, LeaseHonoured
<1> QED
  BY <1>2
=============================================================================
