----------------------------- MODULE TaskWorker -----------------------------
(***************************************************************************)
(* Worker processes over a shared task store: providers/tasks/worker.go    *)
(* composed with the store's contract, TaskLifecycle.  A worker has one    *)
(* ID and several claim-loop goroutines (slots) that all claim under that  *)
(* ID.  Every store call is one step, so anything may happen between the   *)
(* claim, the heartbeats, the handler's return and the finalizing call.    *)
(* IDs are never reused and nothing is purged here.                        *)
(***************************************************************************)
EXTENDS Naturals, FiniteSets

CONSTANTS
  Tasks, Workers, NoWorker,
  Slots,        \* claim-loop goroutines
  WorkerOf,     \* the worker (and WorkerID) of each slot
  Unregistered, \* tasks whose Type has no handler
  Deadlined,    \* tasks with a Deadline (it may refuse a retry)
  Retries,      \* Task.MaxRetries, or the worker's DefaultMaxRetries
  MayStop,      \* workers that may be asked to Stop
  MaxTroubles   \* bound on process crashes, store calls that fail or whose
                \* answer is lost, and leases that lapse while the handler runs

ASSUME WorkerAssumption ==
  /\ NoWorker \notin Workers
  /\ WorkerOf \in [Slots -> Workers]
  /\ Unregistered \subseteq Tasks
  /\ Deadlined \subseteq Tasks
  /\ Retries \in [Tasks -> Nat]
  /\ MayStop \subseteq Workers
  /\ MaxTroubles \in Nat

VARIABLES
  life, lapsed, ripe, open,  \* the store
  slot,       \* what each claim loop is doing
  phase,      \* of each worker process
  troubles,   \* how many of them there were
  reclaims,   \* history: how often each task was reclaimed
  succeeded   \* history: tasks for which some handler call returned nil

Store == INSTANCE TaskLifecycle

storeVars == <<life, lapsed, ripe, open>>
history == <<troubles, reclaims, succeeded>>
vars == <<storeVars, slot, phase, history>>

\* A claim loop between two tasks: about to look at runCtx, or past that and
\* about to call Claim.
Idle == [pc |-> "idle"]
Looking == [pc |-> "looking"]

\* dispatchOne's local copy of the claimed Record, and its heartbeat.
Busy(pcs, beats) == [pc: pcs, task: Tasks, attempts: Nat, maxRetries: Store!Budget, beating: beats]

Dispatching(s) == slot[s] \notin {Idle, Looking}
Executing(s, t) == Dispatching(s) /\ slot[s].task = t

\* Fault: the budget counts retries as if Attempts started at zero.
RetryBudgetPlusOne(s) == IF slot[s].maxRetries = "zero" THEN 0 ELSE Retries[slot[s].task] + 1

\* The retry budget as the worker reads it from its claim-time copy.
RetryBudget(s) == IF slot[s].maxRetries = "zero" THEN 0 ELSE Retries[slot[s].task]

Trouble == troubles < MaxTroubles /\ troubles' = troubles + 1

\* The store turns down a call made with a cancelled runCtx: SQL and Redis do,
\* memory does not look at it.
Refused(w) == phase[w] = "stopping"

\* A store call of w fails without effect: the store is out of reach, or the
\* call is refused.
CallFails(w) ==
  \/ Refused(w) /\ UNCHANGED troubles
  \/ Trouble

Init ==
  /\ Store!Init
  /\ slot = [s \in Slots |-> Idle]
  /\ phase = [w \in Workers |-> "up"]
  /\ troubles = 0
  /\ reclaims = [t \in Tasks |-> 0]
  /\ succeeded = {}

----------------------------------------------------------------------------
\* Clients.

Submit(t) ==
  /\ Store!Enqueue(t)
  /\ UNCHANGED <<slot, phase, history>>

CancelTask(t) ==
  /\ Store!Cancel(t)
  /\ UNCHANGED <<slot, phase, history>>

----------------------------------------------------------------------------
\* claimLoop and dispatchOne.

\* The test of runCtx; a Stop that comes after it is not seen until the next
\* round.
LookForWork(s) ==
  /\ phase[WorkerOf[s]] = "up"
  /\ slot[s] = Idle
  /\ slot' = [slot EXCEPT ![s] = Looking]
  /\ UNCHANGED <<storeVars, phase, history>>

ClaimTask(s, t) ==
  LET w == WorkerOf[s] IN
  /\ slot[s] = Looking
  /\ Store!Claim(w, t)
  /\ slot' = [slot EXCEPT ![s] =
                [pc |-> IF t \in Unregistered THEN "unknown" ELSE "handler", task |-> t,
                 attempts |-> life'[t].attempts, maxRetries |-> life'[t].maxRetries,
                 beating |-> t \notin Unregistered]]
  /\ UNCHANGED <<phase, history>>

\* The store hands a task out and the answer is lost: it is running under w's
\* ID, and no loop knows.
ClaimLost(s, t) ==
  /\ slot[s] = Looking
  /\ Trouble
  /\ Store!Claim(WorkerOf[s], t)
  /\ slot' = [slot EXCEPT ![s] = Idle]
  /\ UNCHANGED <<phase, reclaims, succeeded>>

\* All queues are empty, or the call fails: the loop tries again, after
\* PollInterval, unless runCtx is done.
ClaimMisses(s) ==
  /\ slot[s] = Looking
  /\ \/ (\A t \in Tasks : ~Store!Is(t, "pending")) /\ UNCHANGED troubles
     \/ CallFails(WorkerOf[s])
  /\ slot' = [slot EXCEPT ![s] = Idle]
  /\ UNCHANGED <<storeVars, phase, reclaims, succeeded>>

\* The heartbeat goroutine's tick: ErrNotOwner cancels the attempt, any other
\* error is reported and changes nothing.
HeartbeatTick(s) ==
  LET w == WorkerOf[s]  t == slot[s].task IN
  /\ Dispatching(s) /\ slot[s].beating
  /\ \/ Store!Heartbeat(w, t) /\ UNCHANGED slot
     \/ /\ ~Store!Holds(w, t)
        /\ slot' = [slot EXCEPT ![s].beating = FALSE]
        /\ UNCHANGED storeVars
  /\ UNCHANGED <<phase, history>>

\* attemptCtx is done (Timeout, Deadline or Stop): the heartbeats end, while
\* the handler runs on until it notices.
AttemptDone(s) ==
  /\ Dispatching(s) /\ slot[s].beating
  /\ slot' = [slot EXCEPT ![s].beating = FALSE]
  /\ UNCHANGED <<storeVars, phase, history>>

\* Fault: a recovered panic leaves handlerErr nil.
HandlerPanicIgnored(s) ==
  /\ slot[s].pc = "handler"
  /\ slot' = [slot EXCEPT ![s].pc = "complete", ![s].beating = FALSE]
  /\ \/ succeeded' = succeeded \cup {slot[s].task}
     \/ UNCHANGED succeeded
  /\ UNCHANGED <<storeVars, phase, troubles, reclaims>>

\* Fault: the finalizing call is made while the heartbeat goroutine still runs.
HandlerLeavesHeartbeat(s) ==
  /\ slot[s].pc = "handler"
  /\ \/ /\ slot' = [slot EXCEPT ![s].pc = "complete"]
        /\ succeeded' = succeeded \cup {slot[s].task}
     \/ /\ slot' = [slot EXCEPT ![s].pc = "fail"]
        /\ UNCHANGED succeeded
  /\ UNCHANGED <<storeVars, phase, troubles, reclaims>>

\* The handler returns, with nil or with an error (a panic is one).
HandlerReturns(s) ==
  /\ slot[s].pc = "handler"
  /\ \/ /\ slot' = [slot EXCEPT ![s].pc = "complete", ![s].beating = FALSE]
        /\ succeeded' = succeeded \cup {slot[s].task}
     \/ /\ slot' = [slot EXCEPT ![s].pc = "fail", ![s].beating = FALSE]
        /\ UNCHANGED succeeded
  /\ UNCHANGED <<storeVars, phase, troubles, reclaims>>

\* The finalizing call; ErrNotOwner is ignored and any other error is reported,
\* neither is retried.
Finalize(s, pcs, Call(_, _)) ==
  LET w == WorkerOf[s]  t == slot[s].task IN
  /\ slot[s].pc \in pcs
  /\ \/ Call(w, t) /\ UNCHANGED troubles
     \/ ~Store!Holds(w, t) /\ UNCHANGED <<storeVars, troubles>>
     \/ CallFails(w) /\ UNCHANGED storeVars
  /\ slot' = [slot EXCEPT ![s] = Idle]
  /\ UNCHANGED <<phase, reclaims, succeeded>>

FinishOk(s) == Finalize(s, {"complete"}, Store!Complete)

\* Store.Fail with no next attempt: the type is unknown or retries are spent.
FinishFailed(s) ==
  /\ slot[s].pc = "unknown" \/ (slot[s].pc = "fail" /\ slot[s].attempts > RetryBudget(s))
  /\ Finalize(s, {"unknown", "fail"}, Store!FailForGood)

\* Store.Fail with a next attempt, which a Deadline may turn down.
FinishRetry(s) ==
  /\ slot[s].pc = "fail" /\ slot[s].attempts <= RetryBudget(s)
  /\ \/ Finalize(s, {"fail"}, Store!FailForNow)
     \/ slot[s].task \in Deadlined /\ Finalize(s, {"fail"}, Store!FailForGood)

----------------------------------------------------------------------------
\* maintenanceLoop.  Its clock reading may be old, hence any part of the due
\* tasks.  A pass that Stop finds under way ends before it here.

Promote(w) ==
  /\ phase[w] = "up"
  /\ \E S \in SUBSET ripe \ {{}} : Store!PromoteScheduled(S)
  /\ UNCHANGED <<slot, phase, history>>

\* Fault: a worker reclaims only the tasks it owns itself.
ReclaimOwn(w) ==
  /\ phase[w] = "up"
  /\ \E S \in SUBSET {t \in lapsed : life[t].owner = w} \ {{}} :
       /\ Store!ReclaimExpired(S)
       /\ reclaims' = [t \in Tasks |-> IF t \in S THEN reclaims[t] + 1 ELSE reclaims[t]]
  /\ UNCHANGED <<slot, phase, troubles, succeeded>>

Reclaim(w) ==
  /\ phase[w] = "up"
  /\ \E S \in SUBSET lapsed \ {{}} :
       /\ Store!ReclaimExpired(S)
       /\ reclaims' = [t \in Tasks |-> IF t \in S THEN reclaims[t] + 1 ELSE reclaims[t]]
  /\ UNCHANGED <<slot, phase, troubles, succeeded>>

----------------------------------------------------------------------------
\* Processes and time.

Stop(w) ==
  /\ w \in MayStop
  /\ phase[w] = "up"
  /\ phase' = [phase EXCEPT ![w] = "stopping"]
  /\ UNCHANGED <<storeVars, slot, history>>

\* A crashed process loses its slots; its tasks stay "running" in the store.
Crash(w) ==
  /\ Trouble
  /\ phase[w] # "down"
  /\ phase' = [phase EXCEPT ![w] = "down"]
  /\ slot' = [s \in Slots |-> IF WorkerOf[s] = w THEN Idle ELSE slot[s]]
  /\ UNCHANGED <<storeVars, reclaims, succeeded>>

\* The process comes back, with the same WorkerID when it is configured.
Restart(w) ==
  /\ phase[w] = "down"
  /\ phase' = [phase EXCEPT ![w] = "up"]
  /\ UNCHANGED <<storeVars, slot, history>>

\* The attempt that the store takes to be running is running.
Current(s) == Dispatching(s) /\ slot[s].attempts = life[slot[s].task].attempts
AttemptAlive(t) == \E s \in Slots : Executing(s, t) /\ Current(s)

\* A lease runs out: its attempt is gone, or its heartbeat came too late or
\* stopped before the handler did.
LeaseRunsOut(t) ==
  /\ Store!Is(t, "running") /\ t \notin lapsed
  /\ IF AttemptAlive(t) THEN Trouble ELSE UNCHANGED troubles
  /\ Store!TimePasses /\ lapsed' = lapsed \cup {t} /\ ripe' = ripe
  /\ UNCHANGED <<slot, phase, reclaims, succeeded>>

Ripen(t) ==
  /\ Store!Is(t, "scheduled") /\ t \notin ripe
  /\ Store!TimePasses /\ ripe' = ripe \cup {t} /\ lapsed' = lapsed
  /\ UNCHANGED <<slot, phase, history>>

----------------------------------------------------------------------------

SlotStep(s) ==
  \/ LookForWork(s)
  \/ \E t \in Tasks : ClaimTask(s, t) \/ ClaimLost(s, t)
  \/ ClaimMisses(s)
  \/ HandlerReturns(s)
  \/ FinishOk(s) \/ FinishFailed(s) \/ FinishRetry(s)

Next ==
  \/ \E t \in Tasks : Submit(t) \/ CancelTask(t) \/ LeaseRunsOut(t) \/ Ripen(t)
  \/ \E s \in Slots : SlotStep(s) \/ HeartbeatTick(s) \/ AttemptDone(s)
  \/ \E w \in Workers : Promote(w) \/ Reclaim(w) \/ Stop(w) \/ Crash(w) \/ Restart(w)

Spec == Init /\ [][Next]_vars

(***************************************************************************)
(* The loops keep running, handlers return, the clock moves and a crashed  *)
(* process is restarted.  Nothing makes clients, crashes or stops happen.  *)
(***************************************************************************)
Fairness ==
  /\ \A s \in Slots : WF_vars(SlotStep(s))
  /\ \A w \in Workers : WF_vars(Promote(w)) /\ WF_vars(Reclaim(w)) /\ WF_vars(Restart(w))
  /\ \A t \in Tasks : WF_vars(LeaseRunsOut(t) /\ ~AttemptAlive(t)) /\ WF_vars(Ripen(t))

FairSpec == Spec /\ Fairness

----------------------------------------------------------------------------

TypeOK ==
  /\ life \in [Tasks -> Store!Record]
  /\ lapsed \subseteq Tasks /\ ripe \subseteq Tasks /\ open \in BOOLEAN
  /\ slot \in [Slots -> {Idle, Looking} \cup Busy({"handler"}, BOOLEAN)
                                       \cup Busy({"unknown", "complete", "fail"}, {FALSE})]
  /\ phase \in [Workers -> {"up", "stopping", "down"}]
  /\ troubles \in 0..MaxTroubles
  /\ reclaims \in [Tasks -> Nat]
  /\ succeeded \subseteq Tasks

\* A task runs in one place at a time unless its lease lapsed and it was
\* reclaimed: with no reclaim, crashes, restarts under the same WorkerID, retries
\* and failing store calls never put it in two claim loops at once.
ExclusiveUntilReclaimed ==
  \A t \in Tasks : reclaims[t] = 0 => Cardinality({s \in Slots : Executing(s, t)}) <= 1

\* At-least-once delivery: a task is completed only if some run of its handler
\* returned nil, however stale the claim of the loop that completes it.
CompletedRan ==
  \A t \in Tasks : Store!Is(t, "completed") => t \in succeeded

\* MaxRetries bounds the attempts up to redelivery: each attempt beyond
\* MaxRetries + 1 follows a reclaim, never a failure.
AttemptsAccountedFor ==
  \A t \in Tasks : life[t].attempts <= Retries[t] + 1 + reclaims[t]

\* store.go: only the current owner can advance the state, and a late call
\* from a claim that was reclaimed changes nothing.
LateCallsChangeNothing ==
  [][\A s \in Slots :
       Dispatching(s) /\ slot'[s] = Idle /\ life'[slot[s].task] # life[slot[s].task]
         => Current(s)]_vars

\* memory.go, Cancel of a running task: "Force no-retry on next Fail".
CancelStopsRetries ==
  [][\A t \in Tasks :
       Store!Is(t, "running") /\ life[t].maxRetries = "zero" => ~Store!Is(t, "scheduled")']_vars

\* Every submitted task reaches a terminal state in spite of crashes, lapsed
\* leases, late calls, lost claims and finalizing calls that fail: nothing stays pending, scheduled or running for good.
EventuallyTerminal ==
  \A t \in Tasks : life[t].state \in Store!Live ~> life[t].state \in Store!Terminal
=============================================================================
