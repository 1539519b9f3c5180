--------------------------- MODULE WorkflowEngine ---------------------------
(***************************************************************************)
(* One instance of a workflow: providers/workflows/engine.go over the task *)
(* contract, TaskLifecycle, and a cache.  The engine keeps the instance    *)
(* header (meta), a record per node and the outputs in the cache and has   *)
(* no lock around them: every cache call and every task-store call is a    *)
(* step of its own.  Several executors (workers of one or more processes)  *)
(* run bridge handlers; a client runs Submit; another may call Cancel and  *)
(* Cleanup.  Instances share nothing but the task queue.                   *)
(***************************************************************************)
EXTENDS Naturals, FiniteSetsExt

CONSTANTS
  Nodes,       \* numbered in declaration order, which is also the sort order
  Parents,     \* DependsOn of each node: an acyclic graph
  Policy,      \* OnFail of each node: "halt", "skip" or "continue"
  Retries,     \* Retries of each node
  MayFail,     \* nodes whose handler may return an error
  Executors,   \* claim loops, each a worker of its own
  Client,      \* the goroutine that calls Submit
  NoWorker, NoTask,
  Dedup,       \* the task store honours UniqueKey (DedupWindow > 0)
  Copies,      \* bound on tasks per node
  MayCancel,   \* Cancel may be called
  Troubles,    \* what may come between, each once: "crash", a process dies;
               \* "lapse", a lease lapses while the bridge still runs; "fault", a
               \* cache or scheduler call fails; "lost", one takes effect and the
               \* answer is lost; "expire", the task store's window for a key ends;
               \* "evict", the cache drops a key; "cleanup", Cleanup is called
  MaxTroubles  \* bound on how many of them do

Tasks == Nodes \X (1..Copies)
Procs == Executors \cup {Client}

ASSUME EngineAssumption ==
  /\ Nodes \subseteq Nat
  /\ Parents \in [Nodes -> SUBSET Nodes]
  /\ Policy \in [Nodes -> {"halt", "skip", "continue"}]
  /\ Retries \in [Nodes -> Nat]
  /\ MayFail \subseteq Nodes
  /\ Client \notin Executors /\ NoWorker \notin Executors /\ NoTask \notin Tasks
  /\ Dedup \in BOOLEAN /\ MayCancel \in BOOLEAN
  /\ Copies \in Nat \ {0}
  /\ Troubles \subseteq {"crash", "lapse", "fault", "lost", "expire", "evict", "cleanup"}
  /\ MaxTroubles \in Nat

VARIABLES
  life, lapsed, ripe, open,  \* the task store
  keyed,     \* nodes whose UniqueKey the task store remembers
  meta,      \* State of the instance header, "none" when the key is missing
  node,      \* node records; a missing key reads as Fresh
  output,    \* node outputs: "none", "value", or the "empty" of FailContinue
  proc,      \* the goroutines' local state
  canceller, \* where a call of Cancel is: "idle", "write" or "done"
  runs,      \* history: handler calls of each node
  troubles   \* history: what came between so far

Store == INSTANCE TaskLifecycle WITH Workers <- Executors

storeVars == <<life, lapsed, ripe, open, keyed>>
cacheVars == <<meta, node, output>>
vars == <<storeVars, cacheVars, proc, canceller, runs, troubles>>

----------------------------------------------------------------------------
\* The definition (workflows.go).

NodeTerminal == {"completed", "failed", "skipped"}
NodeRecord == [state: {"pending", "enqueued"} \cup NodeTerminal, attempts: Nat]
InstanceTerminal == {"completed", "failed", "cancelled"}

Fresh == [state |-> "pending", attempts |-> 0]

Roots == {n \in Nodes : Parents[n] = {}}
Children(n) == {m \in Nodes : n \in Parents[m]}

\* The nodes reachable from n: the least set that holds its children and theirs.
Descendants(n) ==
  {m \in Nodes : \A S \in SUBSET Nodes :
     Children(n) \subseteq S /\ (\A x \in S : Children(x) \subseteq S) => m \in S}

----------------------------------------------------------------------------
\* A goroutine's local state, and where its loops go on.

Local == [pc: {"idle", "meta", "parents", "load", "mark", "run", "error", "failed", "empty",
               "output", "complete", "ready", "child", "fetch", "enqwrite", "enqueue",
               "skip", "skipwrite", "failmeta", "failwrite", "scan", "final", "finwrite", "return"},
          task: Tasks \cup {NoTask},
          attempts: Nat,          \* rec.Attempts as the worker got it
          seen: SUBSET Nodes,     \* parents whose output was found
          ns: NodeRecord,         \* the node record in hand
          todo: SUBSET Nodes,     \* what is left of the current loop
          check: SUBSET Nodes,    \* parents still to look at
          anyFailed: BOOLEAN,
          result: {"ok", "err"}]

Rest == [pc |-> "idle", task |-> NoTask, attempts |-> 0, seen |-> {}, ns |-> Fresh,
         todo |-> {}, check |-> {}, anyFailed |-> FALSE, result |-> "ok"]

NodeOf(l) == l.task[1]
Item(l) == Min(l.todo)
Left(l) == l.todo \ {Item(l)}

\* The locals a goroutine drops when it leaves a part of the code.
At(l, pc) == [Rest EXCEPT !.pc = pc, !.task = l.task, !.attempts = l.attempts,
                         !.result = l.result]
Returns(l, res) == [At(l, "return") EXCEPT !.result = res]

ScanLoop(l, S, f) == IF S = {} THEN [At(l, "final") EXCEPT !.anyFailed = f]
                     ELSE [At(l, "scan") EXCEPT !.todo = S, !.anyFailed = f]

\* Fault: a bridge whose node has no ready child leaves without maybeFinalize.
AdvanceLoopNoFinalize(l, S) ==
  CASE S = {} -> Returns(l, l.result)
    [] l.task = NoTask /\ S # {} -> [At(l, "fetch") EXCEPT !.todo = S]
    [] OTHER -> [At(l, "ready") EXCEPT !.todo = S, !.check = Parents[Min(S)]]

\* advance's loop over children, and Submit's over the roots.
AdvanceLoop(l, S) ==
  CASE l.task = NoTask /\ S = {} -> Returns(l, "ok")
    [] l.task = NoTask /\ S # {} -> [At(l, "fetch") EXCEPT !.todo = S]
    [] l.task # NoTask /\ S = {} -> ScanLoop(l, Nodes, FALSE)
    [] OTHER -> [At(l, "ready") EXCEPT !.todo = S, !.check = Parents[Min(S)]]

\* The loops of FailHaltWorkflow and FailSkipDownstream.
SkipLoop(l, S) ==
  CASE S # {} -> [At(l, "skip") EXCEPT !.todo = S]
    [] S = {} /\ Policy[NodeOf(l)] = "halt" -> At(l, "failmeta")
    [] OTHER -> ScanLoop(l, Nodes, FALSE)

\* applyFailurePolicy.
ApplyPolicy(l) ==
  LET n == NodeOf(l) IN
  CASE Policy[n] = "halt" -> SkipLoop(l, Nodes)
    [] Policy[n] = "skip" -> SkipLoop(l, Descendants(n))
    [] OTHER -> At(l, "empty")

\* Fault: the budget is compared as if attempts started at zero.
AfterErrorLate(l) ==
  IF l.ns.attempts > Retries[NodeOf(l)] + 1
  THEN [l EXCEPT !.pc = "failed", !.ns.state = "failed", !.result = "err"] ELSE Returns(l, "err")

\* isFinalAttempt, on the attempts the node record counts.
AfterError(l) ==
  IF l.ns.attempts > Retries[NodeOf(l)]
  THEN [l EXCEPT !.pc = "failed", !.ns.state = "failed", !.result = "err"] ELSE Returns(l, "err")

----------------------------------------------------------------------------

\* Where the code goes on when the cache or scheduler call at l.pc fails.
AfterFault(l) ==
  CASE l.pc \in {"meta", "parents", "output", "complete"} -> Returns(l, "err")
    [] l.pc = "load" -> [l EXCEPT !.pc = "mark", !.ns = [state |-> "enqueued", attempts |-> 1]]
    [] l.pc = "mark" -> [l EXCEPT !.pc = "run"]
    [] l.pc = "error" -> AfterError(l)
    [] l.pc = "failed" -> ApplyPolicy(l)
    [] l.pc = "empty" -> AdvanceLoop(l, Children(NodeOf(l)))
    [] l.pc = "fetch" -> [l EXCEPT !.pc = "enqwrite", !.ns = Fresh]
    [] l.pc \in {"ready", "child"} -> ScanLoop(l, Nodes, FALSE)
    [] l.pc \in {"enqwrite", "enqueue"} /\ l.task # NoTask -> ScanLoop(l, Nodes, FALSE)
    [] l.pc \in {"enqwrite", "enqueue"} /\ l.task = NoTask -> At(l, "failmeta")
    [] l.pc \in {"skip", "skipwrite"} -> SkipLoop(l, Left(l))
    [] OTHER -> Returns(l, l.result)

----------------------------------------------------------------------------

Init ==
  /\ Store!Init
  /\ keyed = {}
  /\ meta = "none"
  /\ node = [n \in Nodes |-> Fresh]
  /\ output = [n \in Nodes |-> "none"]
  /\ proc = [p \in Procs |-> Rest]
  /\ canceller = "idle"
  /\ runs = [n \in Nodes |-> 0]
  /\ troubles = {}

\* p moves to local state l.
Goto(p, l) == proc' = [proc EXCEPT ![p] = l]

\* Something comes between.
Trouble(kind) ==
  /\ kind \in Troubles \ troubles
  /\ Cardinality(troubles) < MaxTroubles
  /\ troubles' = troubles \cup {kind}

\* p made a call that took effect: it moves to l, or gets no answer.
Answered(p, l) ==
  \/ Goto(p, l) /\ UNCHANGED troubles
  \/ Trouble("lost") /\ Goto(p, AfterFault(proc[p]))

\* A step that only reads the cache.
Read(p, pc, l) ==
  /\ proc[p].pc = pc
  /\ Goto(p, l)
  /\ UNCHANGED <<storeVars, cacheVars, canceller, runs, troubles>>

\* A step that writes the record of node n.
Write(p, pc, n, rec, l) ==
  /\ proc[p].pc = pc
  /\ node' = [node EXCEPT ![n] = rec]
  /\ Answered(p, l)
  /\ UNCHANGED <<storeVars, meta, output, canceller, runs>>

WriteMeta(p, pc, s) ==
  /\ proc[p].pc = pc
  /\ meta' = s
  /\ Answered(p, Returns(proc[p], proc[p].result))
  /\ UNCHANGED <<storeVars, node, output, canceller, runs>>

\* Submit up to the first root: until a task exists nobody else can know the
\* instance, so the initial writes are one step.  A missing node record reads
\* as Fresh.
Submit ==
  /\ proc[Client] = Rest
  /\ meta' = "running"
  /\ node' = [n \in Nodes |-> Fresh]
  /\ Goto(Client, AdvanceLoop(Rest, Roots))
  /\ UNCHANGED <<storeVars, output, canceller, runs, troubles>>

\* One of the initial writes fails: the caller gets an error and no ID, and
\* whatever was written stays.
SubmitFails ==
  /\ proc[Client] = Rest
  /\ Trouble("fault")
  /\ meta' \in {"none", "running"}
  /\ Goto(Client, Returns(Rest, "err"))
  /\ UNCHANGED <<storeVars, node, output, canceller, runs>>

\* The worker claims a task and calls the bridge handler.
Claim(e, t) ==
  /\ proc[e] = Rest
  /\ Store!Claim(e, t)
  /\ Goto(e, [Rest EXCEPT !.pc = "meta", !.task = t, !.attempts = life'[t].attempts])
  /\ UNCHANGED <<keyed, cacheVars, canceller, runs, troubles>>

LoadMeta(e) ==
  LET l == proc[e] IN
  Read(e, "meta", CASE meta = "none" -> Returns(l, "err")
                    [] meta \in InstanceTerminal -> Returns(l, "ok")
                    [] OTHER -> [l EXCEPT !.pc = "parents", !.check = Parents[NodeOf(l)]])

\* The outputs are read one by one; a root reads the workflow's input instead.
CollectParents(e) ==
  LET l == proc[e]
      p == Min(l.check)
      rest == l.check \ {p}
  IN Read(e, "parents",
          IF l.check = {} THEN [l EXCEPT !.pc = "load"]
          ELSE [l EXCEPT !.check = rest,
                         !.seen = IF output[p] = "none" THEN @ ELSE @ \cup {p},
                         !.pc = IF rest = {} THEN "load" ELSE "parents"])

LoadStart(e) ==
  LET l == proc[e] IN
  Read(e, "load", [l EXCEPT !.pc = "mark",
                            !.ns = [state |-> "enqueued",
                                    attempts |-> node[NodeOf(l)].attempts + 1]])

\* Fault: a state that NodeState does not have.
MarkStartedRunning(e) ==
  LET l == proc[e] IN
  Write(e, "mark", NodeOf(l), [l.ns EXCEPT !.state = "running"], [l EXCEPT !.pc = "run"])

MarkStarted(e) ==
  LET l == proc[e] IN Write(e, "mark", NodeOf(l), l.ns, [l EXCEPT !.pc = "run"])

\* Fault: the node is marked completed before its output is stored.
HandlerReturnsMarksFirst(e) ==
  LET l == proc[e] n == NodeOf(l) IN
  /\ l.pc = "run"
  /\ \/ /\ Goto(e, [l EXCEPT !.pc = "output"])
        /\ node' = [node EXCEPT ![n] = [l.ns EXCEPT !.state = "completed"]]
     \/ n \in MayFail /\ Goto(e, [l EXCEPT !.pc = "error"]) /\ UNCHANGED node
  /\ runs' = [runs EXCEPT ![n] = @ + 1]
  /\ UNCHANGED <<storeVars, meta, output, canceller, troubles>>

HandlerReturns(e) ==
  LET l == proc[e] n == NodeOf(l) IN
  /\ l.pc = "run"
  /\ \/ Goto(e, [l EXCEPT !.pc = "output"])
     \/ n \in MayFail /\ Goto(e, [l EXCEPT !.pc = "error"])
  /\ runs' = [runs EXCEPT ![n] = @ + 1]
  /\ UNCHANGED <<storeVars, cacheVars, canceller, troubles>>

RecordError(e) == LET l == proc[e] IN Write(e, "error", NodeOf(l), l.ns, AfterError(l))
MarkFailed(e) == LET l == proc[e] IN Write(e, "failed", NodeOf(l), l.ns, ApplyPolicy(l))

StoreOutput(e, pc, val, l) ==
  /\ proc[e].pc = pc
  /\ output' = [output EXCEPT ![NodeOf(l)] = val]
  /\ Answered(e, l)
  /\ UNCHANGED <<storeVars, meta, node, canceller, runs>>

WriteOutput(e) ==
  LET l == proc[e] IN
  StoreOutput(e, "output", "value", [l EXCEPT !.pc = "complete", !.ns.state = "completed"])

ContinueOutput(e) ==
  LET l == proc[e] IN StoreOutput(e, "empty", "empty", AdvanceLoop(l, Children(NodeOf(l))))

MarkCompleted(e) ==
  LET l == proc[e] n == NodeOf(l) IN
  Write(e, "complete", n, l.ns, AdvanceLoop(l, Children(n)))

----------------------------------------------------------------------------
\* advance, parentsReady and enqueueNode.

\* Fault: one finished parent is enough.
ParentsReadyAny(e) ==
  LET l == proc[e] IN
  Read(e, "ready", IF node[Min(l.check)].state \in {"completed", "failed"}
                   THEN [l EXCEPT !.check = {}, !.pc = "child"]
                   ELSE AdvanceLoop(l, Left(l)))

ParentsReady(e) ==
  LET l == proc[e]  p == Min(l.check)  rest == l.check \ {p} IN
  Read(e, "ready", IF node[p].state \in {"completed", "failed"}
                   THEN [l EXCEPT !.check = rest, !.pc = IF rest = {} THEN "child" ELSE "ready"]
                   ELSE AdvanceLoop(l, Left(l)))

\* Fault: the child is enqueued whatever its state.
LoadChildAlways(e) ==
  LET l == proc[e] IN Read(e, "child", [l EXCEPT !.pc = "fetch"])

LoadChild(e) ==
  LET l == proc[e] IN
  Read(e, "child", IF node[Item(l)].state = "pending" THEN [l EXCEPT !.pc = "fetch"]
                   ELSE AdvanceLoop(l, Left(l)))

LoadForEnqueue(p) ==
  LET l == proc[p] IN
  Read(p, "fetch", [l EXCEPT !.pc = "enqwrite", !.ns = node[Item(l)]])

WriteEnqueued(p) ==
  LET l == proc[p] IN
  Write(p, "enqwrite", Item(l), [l.ns EXCEPT !.state = "enqueued"],
        [l EXCEPT !.pc = "enqueue", !.ns = Fresh])

\* Fault: the task carries no UniqueKey.
EnqueueTaskUnkeyed(p) ==
  LET l == proc[p]
      n == Item(l)
      free == {i \in 1..Copies : Store!Is(<<n, i>>, "absent")}
  IN /\ l.pc = "enqueue"
     /\ free # {} /\ Store!Enqueue(<<n, Min(free)>>)
     /\ life'[<<n, Min(free)>>].state = "pending"
     /\ Answered(p, AdvanceLoop(l, Left(l)))
     /\ UNCHANGED <<keyed, cacheVars, canceller, runs>>

\* Scheduler.Enqueue with the node's UniqueKey; ErrUniqueViolation is no error.
EnqueueTask(p) ==
  LET l == proc[p]
      n == Item(l)
      free == {i \in 1..Copies : Store!Is(<<n, i>>, "absent")}
  IN /\ l.pc = "enqueue"
     /\ \/ /\ n \notin keyed
           /\ free # {} /\ Store!Enqueue(<<n, Min(free)>>)
           /\ life'[<<n, Min(free)>>].state = "pending"
           /\ keyed' = IF Dedup THEN keyed \cup {n} ELSE keyed
        \/ n \in keyed /\ UNCHANGED storeVars
     /\ Answered(p, AdvanceLoop(l, Left(l)))
     /\ UNCHANGED <<cacheVars, canceller, runs>>

----------------------------------------------------------------------------
\* applyFailurePolicy, markInstanceFailed and maybeFinalize.

SkipLoad(e) ==
  LET l == proc[e]  n == Item(l) IN
  Read(e, "skip", IF node[n].state \in NodeTerminal THEN SkipLoop(l, Left(l))
                  ELSE [l EXCEPT !.pc = "skipwrite", !.ns = node[n]])

SkipWrite(e) ==
  LET l == proc[e] IN
  Write(e, "skipwrite", Item(l), [l.ns EXCEPT !.state = "skipped"], SkipLoop(l, Left(l)))

FailMetaLoad(p) ==
  LET l == proc[p] IN
  Read(p, "failmeta", IF meta = "running" THEN [l EXCEPT !.pc = "failwrite"]
                      ELSE Returns(l, l.result))

FailMetaWrite(p) == WriteMeta(p, "failwrite", "failed")

\* Fault: a pending node does not hold the instance open.
ScanNodeSkipsPending(e) ==
  LET l == proc[e]  s == node[Item(l)].state IN
  Read(e, "scan", IF s # "enqueued"
                  THEN ScanLoop(l, Left(l), l.anyFailed \/ s = "failed")
                  ELSE Returns(l, l.result))

ScanNode(e) ==
  LET l == proc[e]  s == node[Item(l)].state IN
  Read(e, "scan", IF s \in NodeTerminal
                  THEN ScanLoop(l, Left(l), l.anyFailed \/ s = "failed")
                  ELSE Returns(l, l.result))

FinalizeLoad(e) ==
  LET l == proc[e] IN
  Read(e, "final", IF meta = "running" THEN [l EXCEPT !.pc = "finwrite"]
                   ELSE Returns(l, l.result))

FinalizeWrite(e) ==
  WriteMeta(e, "finwrite", IF proc[e].anyFailed THEN "failed" ELSE "completed")

----------------------------------------------------------------------------
\* Back in the worker: Complete, or Fail with or without another attempt.  A
\* call by an executor that lost its task changes nothing.
Finish(e) ==
  LET l == proc[e]  t == l.task IN
  /\ l.pc = "return"
  /\ \/ l.result = "ok" /\ Store!Complete(e, t)
     \/ l.result = "err" /\ l.attempts > Retries[NodeOf(l)] /\ Store!FailForGood(e, t)
     \/ /\ l.result = "err" /\ l.attempts <= Retries[NodeOf(l)]
        /\ Store!FailForNow(e, t) /\ ripe' = ripe \cup {t}
     \/ ~Store!Holds(e, t) /\ UNCHANGED <<life, lapsed, ripe, open>>
  /\ Goto(e, Rest)
  /\ UNCHANGED <<keyed, cacheVars, canceller, runs, troubles>>

\* Maintenance of the task store.
Maintain(t) ==
  /\ Store!PromoteScheduled({t}) \/ Store!ReclaimExpired({t})
  /\ UNCHANGED <<keyed, cacheVars, proc, canceller, runs, troubles>>

\* A lease runs out: its executor is gone, or it is late.
LeaseRunsOut(t) ==
  /\ Store!Is(t, "running") /\ t \notin lapsed
  /\ IF \E e \in Executors : proc[e].task = t
     THEN Trouble("lapse") ELSE UNCHANGED troubles
  /\ Store!TimePasses /\ lapsed' = lapsed \cup {t} /\ ripe' = ripe
  /\ UNCHANGED <<keyed, cacheVars, proc, canceller, runs>>

\* A process dies in a bridge handler or in Submit.
Crash(p) ==
  /\ Trouble("crash")
  /\ proc[p].pc # "idle" /\ (p = Client => proc[p].pc # "return")
  /\ Goto(p, IF p = Client THEN Returns(Rest, "err") ELSE Rest)
  /\ UNCHANGED <<storeVars, cacheVars, canceller, runs>>

PollMisses(e) ==
  /\ proc[e] = Rest
  /\ \A t \in Tasks : ~Store!Is(t, "pending")
  /\ UNCHANGED vars

Fault(p) ==
  /\ Trouble("fault")
  /\ proc[p].pc \notin {"idle", "run", "return"}
  /\ Goto(p, AfterFault(proc[p]))
  /\ UNCHANGED <<storeVars, cacheVars, canceller, runs>>

\* DedupWindow has passed since the node's task was accepted.
KeyExpires(n) ==
  /\ Trouble("expire")
  /\ n \in keyed /\ keyed' = keyed \ {n}
  /\ UNCHANGED <<life, lapsed, ripe, open, cacheVars, proc, canceller, runs>>

\* The cache drops a key: InstanceTTL has passed, or its budget is used up.
Evict(n) ==
  /\ Trouble("evict")
  /\ \/ meta # "none" /\ meta' = "none" /\ UNCHANGED <<node, output>>
     \/ node[n] # Fresh /\ node' = [node EXCEPT ![n] = Fresh] /\ UNCHANGED <<meta, output>>
     \/ output[n] # "none" /\ output' = [output EXCEPT ![n] = "none"] /\ UNCHANGED <<meta, node>>
  /\ UNCHANGED <<storeVars, proc, canceller, runs>>

\* Engine.Cancel, by a caller that Submit gave an ID, reads the header and,
\* unless it is missing or terminal, writes it back.
CancelLoad ==
  /\ MayCancel /\ canceller = "idle"
  /\ proc[Client].pc = "return" /\ proc[Client].result = "ok"
  /\ canceller' = IF meta = "running" THEN "write" ELSE "done"
  /\ UNCHANGED <<storeVars, cacheVars, proc, runs, troubles>>

CancelWrite ==
  /\ canceller = "write" /\ canceller' = "done"
  /\ meta' = "cancelled"
  /\ UNCHANGED <<storeVars, node, output, proc, runs, troubles>>

\* Engine.Cleanup, called once the instance has ended.
Cleanup ==
  /\ Trouble("cleanup")
  /\ meta \in InstanceTerminal /\ meta' = "none"
  /\ node' = [n \in Nodes |-> Fresh]
  /\ output' = [n \in Nodes |-> "none"]
  /\ UNCHANGED <<storeVars, proc, canceller, runs>>

----------------------------------------------------------------------------

BridgeStep(e) ==
  \/ LoadMeta(e) \/ CollectParents(e) \/ LoadStart(e) \/ MarkStarted(e) \/ HandlerReturns(e)
  \/ RecordError(e) \/ MarkFailed(e) \/ WriteOutput(e) \/ ContinueOutput(e) \/ MarkCompleted(e)
  \/ ParentsReady(e) \/ LoadChild(e) \/ SkipLoad(e) \/ SkipWrite(e)
  \/ ScanNode(e) \/ FinalizeLoad(e) \/ FinalizeWrite(e) \/ Finish(e)

\* The steps that Submit shares with the bridge handler.
SharedStep(p) ==
  \/ LoadForEnqueue(p) \/ WriteEnqueued(p) \/ EnqueueTask(p)
  \/ FailMetaLoad(p) \/ FailMetaWrite(p)

ExecutorStep(e) == (\E t \in Tasks : Claim(e, t)) \/ BridgeStep(e) \/ SharedStep(e)

Next ==
  \/ Submit \/ SubmitFails
  \/ \E e \in Executors : ExecutorStep(e) \/ PollMisses(e)
  \/ SharedStep(Client)
  \/ \E p \in Procs : Fault(p) \/ Crash(p)
  \/ \E n \in Nodes : KeyExpires(n) \/ Evict(n)
  \/ \E t \in Tasks : Maintain(t) \/ LeaseRunsOut(t)
  \/ CancelLoad \/ CancelWrite \/ Cleanup

Spec == Init /\ [][Next]_vars

\* Goroutines run, handlers return, retries ripen, and the leases of dead
\* executors run out.  Clients, crashes and faults are not obliged to happen.
Fairness ==
  /\ \A e \in Executors : WF_vars(ExecutorStep(e))
  /\ WF_vars(SharedStep(Client))
  /\ WF_vars(CancelWrite)
  /\ \A t \in Tasks :
       WF_vars(Maintain(t)) /\ WF_vars(LeaseRunsOut(t) /\ ~\E e \in Executors : proc[e].task = t)

FairSpec == Spec /\ Fairness

----------------------------------------------------------------------------

TypeOK ==
  /\ life \in [Tasks -> Store!Record]
  /\ lapsed \subseteq Tasks /\ ripe \subseteq Tasks /\ open \in BOOLEAN
  /\ meta \in {"none", "running"} \cup InstanceTerminal
  /\ node \in [Nodes -> NodeRecord]
  /\ output \in [Nodes -> {"none", "value", "empty"}]
  /\ proc \in [Procs -> Local]
  /\ canceller \in {"idle", "write", "done"}
  /\ runs \in [Nodes -> Nat]
  /\ keyed \subseteq Nodes
  /\ troubles \subseteq Troubles

Running(e, n) == proc[e].pc = "run" /\ NodeOf(proc[e]) = n

\* advance and parentsReady order the handlers: no handler of a node is called
\* before a handler of each of its parents has returned, whatever crashes,
\* redeliveries and failing cache calls there are.
ParentsRunFirst ==
  \A e \in Executors, n \in Nodes :
    Running(e, n) => \A p \in Parents[n] : runs[p] > 0

\* Outputs are stored before the node state that lets a child start, by whatever
\* process: as long as nobody deletes them, a handler is given the output of
\* every parent whose own handler does not fail.
InputsPresent ==
  troubles \cap {"evict", "cleanup"} = {} =>
    \A e \in Executors, n \in Nodes : Running(e, n) => Parents[n] \ MayFail \subseteq proc[e].seen

\* maybeFinalize's separate reads add up: when the header says completed, every
\* node has completed, or failed under FailContinue, with its output stored, and
\* none of the instance's tasks is outstanding except the one that wrote the
\* header.
CompletedMeansAll ==
  meta = "completed" =>
    /\ \A n \in Nodes : \/ node[n].state = "completed" /\ output[n] = "value"
                        \/ /\ node[n].state = "failed" /\ Policy[n] = "continue"
                           /\ output[n] = "empty"
    /\ \A t \in Tasks : life[t].state \notin {"pending", "scheduled"}

\* The failure policy has been applied to n: FailHaltWorkflow has ended the
\* instance, FailSkipDownstream has skipped what depends on n, FailContinue has
\* stored an empty output and started the children that were waiting for n only.
PolicyApplied(n) ==
  /\ node[n].state \in {"failed", "skipped"}
  /\ Policy[n] = "halt" => meta # "running"
  /\ Policy[n] = "skip" => \A m \in Descendants(n) : node[m].state = "skipped"
  /\ Policy[n] = "continue" =>
       /\ output[n] = "empty"
       /\ \A m \in Children(n) : Parents[m] = {n} => node[m].state # "pending"

\* A bridge is under way to end the instance for FailHaltWorkflow.
Halting ==
  \E e \in Executors : /\ proc[e].pc \in {"skip", "skipwrite", "failmeta", "failwrite"}
                       /\ Policy[NodeOf(proc[e])] = "halt"

\* The bridge's own count of attempts agrees with the worker's: when the worker
\* gives a task up, the bridge has marked the node and applied its policy, unless
\* the instance has ended or another node is just ending it.
FailureSurfaces ==
  \A t \in Tasks : life[t].state = "failed" => PolicyApplied(t[1]) \/ meta # "running" \/ Halting

\* A node below one that failed under FailHaltWorkflow or FailSkipDownstream
\* is never run.
SkippedNeverRuns ==
  \A e \in Executors, n \in Nodes :
    Running(e, n) => ~\E a \in Nodes : /\ n \in Descendants(a) /\ Policy[a] # "continue"
                                       /\ node[a].state = "failed"

\* A terminal instance keeps its state: Cancel of a finished instance is a
\* no-op and no late bridge handler finalizes it again.
TerminalIsFinal == [][(meta \in InstanceTerminal) => (meta' \in {meta, "none"})]_vars

\* Two parents that finish together both enqueue their child, and failing calls,
\* lost answers and lost node records make bridges enqueue again: the UniqueKey
\* keeps it to Retries+1 handler calls per node, as long as the task store
\* remembers it and redelivers nothing.
FiresOnce ==
  troubles \cap {"crash", "lapse", "expire"} = {} => \A n \in Nodes : runs[n] <= Retries[n] + 1

\* Once the instance is cancelled, completing tasks enqueue no successors.
CancelStopsAdvance ==
  [][meta = "cancelled" => \A t \in Tasks : Store!Is(t, "absent") => life'[t].state = "absent"]_vars

\* An instance fails only if a node failed under FailHaltWorkflow or
\* FailSkipDownstream; FailContinue swallows the failure.
ContinueSwallows ==
  meta = "failed" => \E n \in Nodes : node[n].state = "failed" /\ Policy[n] # "continue"

\* A submitted instance ends.
InstanceEnds == meta = "running" ~> meta # "running"
=============================================================================
