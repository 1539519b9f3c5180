--------------------------- MODULE TaskLifecycle ---------------------------
(***************************************************************************)
(* What every backend of providers/tasks promises (the Store interface of  *)
(* store.go): the life of each task, who holds it, and when the two        *)
(* maintenance passes may move it.  Clocks, heaps, rows and dedup maps are *)
(* left to the backends; here time only shows as two sets, the running     *)
(* tasks whose lease has lapsed and the scheduled tasks that are ripe.     *)
(***************************************************************************)
EXTENDS Naturals

CONSTANTS Tasks,    \* task IDs
          Workers,  \* worker IDs, as passed to Claim
          NoWorker  \* OwnerWorker = ""

VARIABLES life,    \* the Record of each task
          lapsed,  \* running tasks with VisibilityAt <= now
          ripe,    \* scheduled tasks whose due time is <= now
          open     \* the store has not been closed

vars == <<life, lapsed, ripe, open>>

Live == {"pending", "scheduled", "running"}
Terminal == {"completed", "failed", "cancelled"}
State == {"absent"} \cup Live \cup Terminal

\* Task.MaxRetries: as the caller set it, or forced to zero by Cancel.
Budget == {"asSet", "zero"}

Record == [state: State, owner: Workers \cup {NoWorker},
           attempts: Nat, maxRetries: Budget]

Absent == [state |-> "absent", owner |-> NoWorker,
           attempts |-> 0, maxRetries |-> "asSet"]

Is(t, s) == life[t].state = s

\* Fault: the state is checked and the owner is not.
HoldsIfRunning(w, t) == Is(t, "running") /\ life[t].owner # NoWorker

Holds(w, t) == Is(t, "running") /\ life[t].owner = w

\* The record of t moves to state s and nobody owns it.
Moved(t, s) == [life[t] EXCEPT !.state = s, !.owner = NoWorker]
MoveTo(S, s) == life' = [t \in Tasks |-> IF t \in S THEN Moved(t, s) ELSE life[t]]

Init ==
  /\ life = [t \in Tasks |-> Absent]
  /\ lapsed = {}
  /\ ripe = {}
  /\ open = TRUE

Enqueue(t) ==
  /\ open
  /\ Is(t, "absent")
  /\ \E s \in {"pending", "scheduled"} : MoveTo({t}, s)
  /\ UNCHANGED <<lapsed, ripe, open>>

\* Fault: Claim also hands out a task that is running.
ClaimAnyLive(w, t) ==
  /\ open
  /\ life[t].state \in {"pending", "running"}
  /\ life' = [life EXCEPT ![t].state = "running", ![t].owner = w,
                          ![t].attempts = @ + 1]
  /\ UNCHANGED <<lapsed, ripe, open>>

Claim(w, t) ==
  /\ open
  /\ Is(t, "pending")
  /\ life' = [life EXCEPT ![t].state = "running", ![t].owner = w,
                          ![t].attempts = @ + 1]
  /\ UNCHANGED <<lapsed, ripe, open>>

Heartbeat(w, t) ==
  /\ Holds(w, t)
  /\ lapsed' = lapsed \ {t}
  /\ UNCHANGED <<life, ripe, open>>

Complete(w, t) ==
  /\ Holds(w, t)
  /\ MoveTo({t}, "completed")
  /\ lapsed' = lapsed \ {t}
  /\ UNCHANGED <<ripe, open>>

\* Fail with nextAttemptAt = nil, or with one at or past the deadline.
FailForGood(w, t) ==
  /\ Holds(w, t)
  /\ MoveTo({t}, "failed")
  /\ lapsed' = lapsed \ {t}
  /\ UNCHANGED <<ripe, open>>

\* Fail with a retry time; the backoff may be zero, so t may be ripe at once.
FailForNow(w, t) ==
  /\ Holds(w, t)
  /\ MoveTo({t}, "scheduled")
  /\ lapsed' = lapsed \ {t}
  /\ ripe' \in {ripe, ripe \cup {t}}
  /\ UNCHANGED open

Cancel(t) ==
  /\ \/ /\ life[t].state \in {"pending", "scheduled"}
        /\ MoveTo({t}, "cancelled")
     \/ /\ Is(t, "running")
        /\ life' = [life EXCEPT ![t].maxRetries = "zero"]
  /\ ripe' = ripe \ {t}
  /\ UNCHANGED <<lapsed, open>>

PromoteScheduled(S) ==
  /\ S \subseteq ripe
  /\ MoveTo(S, "pending")
  /\ ripe' = ripe \ S
  /\ UNCHANGED <<lapsed, open>>

ReclaimExpired(S) ==
  /\ S \subseteq lapsed
  /\ MoveTo(S, "pending")
  /\ lapsed' = lapsed \ S
  /\ UNCHANGED <<ripe, open>>

PurgeOlderThan(S) ==
  /\ \A t \in S : life[t].state \in Terminal
  /\ life' = [t \in Tasks |-> IF t \in S THEN Absent ELSE life[t]]
  /\ UNCHANGED <<lapsed, ripe, open>>

Close ==
  /\ life' = [t \in Tasks |-> Absent]
  /\ lapsed' = {}
  /\ ripe' = {}
  /\ open' = FALSE

\* The clock moves: leases lapse and scheduled tasks ripen.
TimePasses ==
  /\ \E S \in SUBSET {t \in Tasks : Is(t, "running")} : lapsed' = lapsed \cup S
  /\ \E S \in SUBSET {t \in Tasks : Is(t, "scheduled")} : ripe' = ripe \cup S
  /\ UNCHANGED <<life, open>>

Next ==
  \/ \E t \in Tasks : Enqueue(t) \/ Cancel(t)
  \/ \E w \in Workers, t \in Tasks :
       \/ Claim(w, t) \/ Heartbeat(w, t) \/ Complete(w, t)
       \/ FailForGood(w, t) \/ FailForNow(w, t)
  \/ \E S \in SUBSET Tasks :
       PromoteScheduled(S) \/ ReclaimExpired(S) \/ PurgeOlderThan(S)
  \/ Close
  \/ TimePasses

Spec == Init /\ [][Next]_vars
=============================================================================
