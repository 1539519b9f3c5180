------------------------------ MODULE Recurring ------------------------------
(***************************************************************************)
(* Recurring jobs: providers/tasks/recurring.go.  Several processes, each  *)
(* with a RecurringScheduler of its own, register the same jobs and        *)
(* enqueue into one store; the store's dedup keys are what makes them fire *)
(* a job once.  A tick copies the due jobs under the lock, then enqueues   *)
(* and advances them one by one with the lock released, so registrations   *)
(* come in between.  Of the store only Enqueue is modelled, with the ways  *)
(* it can fail.                                                            *)
(***************************************************************************)
EXTENDS Naturals

CONSTANTS
  Schedulers,   \* processes
  Names,        \* job names
  Choices,      \* the schedules each name may be registered with
  DedupWindow,  \* how long the store remembers a key
  Stops,        \* calls of Stop: pairs of a caller and the scheduler it stops
  Failures,     \* how Enqueue may fail: "refused", nothing is written;
                \* "lostReply", the task is written and the caller sees an error;
                \* "keyOnly", the key is taken, the task is not written and the caller
                \* sees an error (Redis)
  MaxTime, MaxRegistrations, MaxFailures

\* Instants are 1, 2, ...; Never is Go's zero time, and stands for an error where
\* the code returns a time and an error.
Never == 0

\* A schedule fires at the multiples of its period, an interval job forever, a cron
\* expression with a year field until its last instant.
Schedule == [kind: {"every", "cron"}, period: Nat \ {0}, last: Nat]
OnSchedule(sch, t) == t % sch.period = 0 /\ (sch.kind = "cron" => t <= sch.last)

ASSUME RecurringAssumption ==
  /\ Choices \in [Names -> SUBSET Schedule]
  /\ DedupWindow \in Nat \ {0}
  /\ \A c \in Stops : c[2] \in Schedulers
  /\ Failures \subseteq {"refused", "lostReply", "keyOnly"}
  /\ MaxTime \in Nat \ {0} /\ MaxRegistrations \in Nat /\ MaxFailures \in Nat

VARIABLES
  now,      \* the clock
  jobs,     \* the jobs of each scheduler; a name that is not registered has no schedule
  run,      \* where each Run is: "new", "select", "tick" or "done"
  due,      \* jobs of the current tick not yet looked at
  current,  \* the job enqueued and not yet advanced, as a set of at most one
  key,      \* when the store forgets the key of a (name, instant); Never when it has none
  fired,    \* history: tasks written for each (name, instant)
  stranded, \* history: keys that were taken without a task
  stop,     \* where each call of Stop is: "idle", "open" (found stopCh open) or "done"
  closes,   \* how often each stopCh was closed
  registrations, failures

vars == <<now, jobs, run, due, current, key, fired, stranded, stop, closes, registrations, failures>>

Absent == [sched |-> [kind |-> "none", period |-> 1, last |-> 0],
           nextFire |-> Never, lastFire |-> Never]
Job == [sched: UNION {Choices[n] : n \in Names}, nextFire: Nat, lastFire: Nat]
Registered(s, n) == jobs[s][n].sched.kind # "none"
Due == [name: Names, job: Job]
Keys == Names \X (1..2 * MaxTime)

----------------------------------------------------------------------------
\* nextAlignedFire: the first boundary strictly after an instant.
NextAlignedFire(period, after) == (after \div period + 1) * period

\* Fault: the search moves on by one instant and does not look whether it is due.
NextTickAfterUnchecked(sch, after) == after + 1

\* Fault: the start counts as a next instant (inclRefTime).
NextTickAfterInclusive(sch, after) ==
  IF OnSchedule(sch, after) THEN after ELSE NextAlignedFire(sch.period, after)

\* cron.NextTickAfter.  When no instant is left the search gives up and returns the
\* start, and with it an error unless the start is itself on schedule.  (A few such
\* expressions, those due at a midnight of New Year, get an instant a century on.)
NextTickAfter(sch, after) ==
  LET next == NextAlignedFire(sch.period, after) IN
  CASE next <= sch.last -> next
    [] next > sch.last /\ OnSchedule(sch, after) -> after
    [] OTHER -> Never

\* Fault: an interval job that is behind fires for every period it missed.
ComputeNextNoSkip(sch, after) ==
  IF sch.kind = "cron" THEN NextTickAfter(sch, after) ELSE NextAlignedFire(sch.period, after)

\* Fault: an interval job that is behind goes on from the end of the current period.
ComputeNextTooFar(sch, after) ==
  LET next == NextAlignedFire(sch.period, after) IN
  CASE sch.kind = "cron" -> NextTickAfter(sch, after)
    [] sch.kind = "every" /\ next < now -> NextAlignedFire(sch.period, NextAlignedFire(sch.period, now))
    [] OTHER -> next

\* computeNext.
ComputeNext(sch, after) ==
  LET next == NextAlignedFire(sch.period, after) IN
  CASE sch.kind = "cron" -> NextTickAfter(sch, after)
    [] sch.kind = "every" /\ next < now -> NextAlignedFire(sch.period, now)
    [] OTHER -> next

----------------------------------------------------------------------------
Init ==
  /\ now = 1
  /\ jobs = [s \in Schedulers |-> [n \in Names |-> Absent]]
  /\ run = [s \in Schedulers |-> "new"]
  /\ due = [s \in Schedulers |-> {}]
  /\ current = [s \in Schedulers |-> {}]
  /\ key = [k \in Keys |-> Never]
  /\ fired = [k \in Keys |-> 0]
  /\ stranded = {}
  /\ stop = [c \in Stops |-> "idle"]
  /\ closes = [s \in Schedulers |-> 0]
  /\ registrations = 0
  /\ failures = 0

Register(s, n, sch, next) ==
  /\ registrations < MaxRegistrations
  /\ registrations' = registrations + 1
  /\ jobs' = [jobs EXCEPT ![s][n] = [sched |-> sch, nextFire |-> next, lastFire |-> Never]]
  /\ UNCHANGED <<now, run, due, current, key, fired, stranded, stop, closes, failures>>

\* Cron refuses an expression without a next instant.
Cron(s, n, sch) ==
  /\ sch.kind = "cron"
  /\ NextTickAfter(sch, now) # Never
  /\ Register(s, n, sch, NextTickAfter(sch, now))

Every(s, n, sch) ==
  /\ sch.kind = "every"
  /\ Register(s, n, sch, NextAlignedFire(sch.period, now))

RemoveRecurring(s, n) ==
  /\ Registered(s, n)
  /\ jobs' = [jobs EXCEPT ![s][n] = Absent]
  /\ UNCHANGED <<now, run, due, current, key, fired, stranded, stop, closes, registrations, failures>>

Run(s) ==
  /\ run[s] = "new"
  /\ run' = [run EXCEPT ![s] = "select"]
  /\ UNCHANGED <<now, jobs, due, current, key, fired, stranded, stop, closes, registrations, failures>>

\* Run's select takes a tick, whose time may be old: the jobs due at that time.
Tick(s) ==
  /\ run[s] = "select"
  /\ \E at \in 1..now :
       LET ready == {n \in Names : Registered(s, n) /\ jobs[s][n].nextFire # Never
                                                    /\ jobs[s][n].nextFire <= at} IN
       /\ ready # {}
       /\ due' = [due EXCEPT ![s] = {[name |-> n, job |-> jobs[s][n]] : n \in ready}]
  /\ run' = [run EXCEPT ![s] = "tick"]
  /\ UNCHANGED <<now, jobs, current, key, fired, stranded, stop, closes, registrations, failures>>

\* Run's select sees ctx or stopCh.
Exit(s) ==
  /\ run[s] = "select"
  /\ closes[s] > 0
  /\ run' = [run EXCEPT ![s] = "done"]
  /\ UNCHANGED <<now, jobs, due, current, key, fired, stranded, stop, closes, registrations, failures>>

KeyOf(d) == <<d.name, d.job.nextFire>>

Remembered(k) == key[k] # Never /\ key[k] >= now

Takes(k) == key' = [key EXCEPT ![k] = now + DedupWindow]
Writes(k) == fired' = [fired EXCEPT ![k] = @ + 1]

\* What the loop does with the job when Enqueue is back.
Enqueued(s, d) == /\ due' = [due EXCEPT ![s] = @ \ {d}]
                  /\ current' = [current EXCEPT ![s] = {d}]
                  /\ UNCHANGED <<now, jobs, run, stop, closes, registrations>>
Failed(s, d) == /\ due' = [due EXCEPT ![s] = @ \ {d}]
                /\ failures < MaxFailures
                /\ failures' = failures + 1
                /\ UNCHANGED <<now, jobs, run, current, stop, closes, registrations>>

\* Fault: the key holds the time of the call, so each process has keys of its own.
FireAcceptedOwnKey(s, d) ==
  /\ key' = [key EXCEPT ![<<d.name, now>>] = now + DedupWindow]
  /\ Writes(KeyOf(d))
  /\ Enqueued(s, d)
  /\ UNCHANGED <<stranded, failures>>

\* The store accepts the task, or says ErrUniqueViolation.
FireAccepted(s, d) ==
  /\ ~Remembered(KeyOf(d))
  /\ Takes(KeyOf(d)) /\ Writes(KeyOf(d))
  /\ Enqueued(s, d)
  /\ UNCHANGED <<stranded, failures>>

FireDuplicate(s, d) ==
  /\ Remembered(KeyOf(d))
  /\ Enqueued(s, d)
  /\ UNCHANGED <<key, fired, stranded, failures>>

\* Fault: any error counts as a benign one, and the job is advanced.
FireRefusedIgnored(s, d) ==
  /\ "refused" \in Failures /\ failures < MaxFailures
  /\ failures' = failures + 1
  /\ Enqueued(s, d)
  /\ UNCHANGED <<key, fired, stranded>>

FireRefused(s, d) ==
  /\ "refused" \in Failures
  /\ Failed(s, d)
  /\ UNCHANGED <<key, fired, stranded>>

FireLostReply(s, d) ==
  /\ "lostReply" \in Failures /\ ~Remembered(KeyOf(d))
  /\ Takes(KeyOf(d)) /\ Writes(KeyOf(d))
  /\ Failed(s, d)
  /\ UNCHANGED stranded

\* The next try of the fire finds its own key and counts as a duplicate.
FireKeyOnly(s, d) ==
  /\ "keyOnly" \in Failures /\ ~Remembered(KeyOf(d))
  /\ Takes(KeyOf(d))
  /\ stranded' = stranded \cup {KeyOf(d)}
  /\ Failed(s, d)
  /\ UNCHANGED fired

Fire(s) ==
  /\ run[s] = "tick" /\ current[s] = {}
  /\ \E d \in due[s] : \/ FireAccepted(s, d) \/ FireDuplicate(s, d)
                       \/ FireRefused(s, d) \/ FireLostReply(s, d) \/ FireKeyOnly(s, d)

\* Fault: the name is not looked up again.
AdvanceJobUnchecked(s, d, next) ==
  jobs' = [jobs EXCEPT ![s][d.name].nextFire = next,
                       ![s][d.name].lastFire = d.job.nextFire]

AdvanceJob(s, d, next) ==
  IF next # Never /\ Registered(s, d.name)
  THEN jobs' = [jobs EXCEPT ![s][d.name] =
                  [@ EXCEPT !.nextFire = next, !.lastFire = d.job.nextFire]]
  ELSE UNCHANGED jobs

\* The schedule is advanced by name: the job found there may be a new one.
Advance(s) ==
  /\ \E d \in current[s] : AdvanceJob(s, d, ComputeNext(d.job.sched, d.job.nextFire))
  /\ current' = [current EXCEPT ![s] = {}]
  /\ UNCHANGED <<now, run, due, key, fired, stranded, stop, closes, registrations, failures>>

TickEnds(s) ==
  /\ run[s] = "tick" /\ due[s] = {} /\ current[s] = {}
  /\ run' = [run EXCEPT ![s] = "select"]
  /\ UNCHANGED <<now, jobs, due, current, key, fired, stranded, stop, closes, registrations, failures>>

\* Stop looks whether stopCh is closed, and closes it.
StopLooks(c) ==
  /\ stop[c] = "idle"
  /\ stop' = [stop EXCEPT ![c] = IF closes[c[2]] = 0 THEN "open" ELSE "done"]
  /\ UNCHANGED <<now, jobs, run, due, current, key, fired, stranded, closes, registrations, failures>>

StopCloses(c) ==
  /\ stop[c] = "open"
  /\ stop' = [stop EXCEPT ![c] = "done"]
  /\ closes' = [closes EXCEPT ![c[2]] = @ + 1]
  /\ UNCHANGED <<now, jobs, run, due, current, key, fired, stranded, registrations, failures>>

Clock ==
  /\ now < MaxTime
  /\ now' = now + 1
  /\ UNCHANGED <<jobs, run, due, current, key, fired, stranded, stop, closes, registrations, failures>>

SchedulerStep(s) == Tick(s) \/ Exit(s) \/ Fire(s) \/ Advance(s) \/ TickEnds(s)

Next ==
  \/ \E s \in Schedulers, n \in Names : \/ \E sch \in Choices[n] : Cron(s, n, sch) \/ Every(s, n, sch)
                                        \/ RemoveRecurring(s, n)
  \/ \E s \in Schedulers : Run(s) \/ SchedulerStep(s)
  \/ \E c \in Stops : StopLooks(c) \/ StopCloses(c)
  \/ Clock

Spec == Init /\ [][Next]_vars

\* The ticker goes on forever and Enqueue returns.  Clients and the clock are not
\* obliged to do anything.
FairSpec == Spec /\ \A s \in Schedulers : WF_vars(SchedulerStep(s))

----------------------------------------------------------------------------

TypeOK ==
  /\ now \in 1..MaxTime
  /\ jobs \in [Schedulers -> [Names -> Job \cup {Absent}]]
  /\ run \in [Schedulers -> {"new", "select", "tick", "done"}]
  /\ due \in [Schedulers -> SUBSET Due] /\ current \in [Schedulers -> SUBSET Due]
  /\ key \in [Keys -> Nat]
  /\ fired \in [Keys -> Nat]
  /\ stranded \subseteq Names \X Nat
  /\ stop \in [Stops -> {"idle", "open", "done"}]
  /\ closes \in [Schedulers -> Nat]
  /\ registrations \in 0..MaxRegistrations
  /\ failures \in 0..MaxFailures

\* The dedup key of a fire makes all schedulers together enqueue it once, whatever
\* order they tick in and however Enqueue fails, for as long as the store is sure to
\* remember it: a second task comes only more than DedupWindow after the instant.
OncePerFire == \A k \in Keys : fired[k] > 1 => now > k[2] + DedupWindow

\* lastFire is the "most recent successful enqueue": tick treats a duplicate as a
\* success, so a fire that the job has moved past has a task, unless the store kept
\* the key of an Enqueue that failed halfway.
LastFireEnqueued ==
  \A s \in Schedulers, n \in Names :
    jobs[s][n].lastFire # Never =>
      fired[<<n, jobs[s][n].lastFire>>] > 0 \/ <<n, jobs[s][n].lastFire>> \in stranded

\* Schedulers agree on the instants: nextAlignedFire and the cron search give every
\* process the same ones, whenever it registered the job and however far it is behind,
\* so no task stands for an instant that is not on the schedule.
FiresOnSchedule ==
  \A n \in Names, t \in 1..2 * MaxTime :
    fired[<<n, t>>] > 0 => \E sch \in Choices[n] : OnSchedule(sch, t)

\* A job's next fire belongs to the schedule it is registered with: Cron and Every
\* replace the previous schedule of the name.
ScheduleReplaced ==
  \A s \in Schedulers, n \in Names :
    Registered(s, n) => OnSchedule(jobs[s][n].sched, jobs[s][n].nextFire)

\* However late a tick is and whatever registration comes between, a job never moves
\* past an instant that is still to come: computeNext takes it to the first one after
\* the clock at most.
NothingSkipped ==
  \A s \in Schedulers, n \in Names :
    Registered(s, n) =>
      \A t \in (now + 1)..(jobs[s][n].nextFire - 1) : ~OnSchedule(jobs[s][n].sched, t)

\* A job of this kind, when advanced, is not left with a fire that is already past.
Advanced(kind) ==
  \A s \in Schedulers, n \in Names :
    LET before == jobs[s][n]
        after == jobs'[s][n] IN
    after.lastFire \notin {before.lastFire, Never} /\ after.sched.kind = kind
      => after.nextFire >= now

\* A tick that comes late does not make an interval job catch up period by period.
NoCatchUp == [][Advanced("every")]_vars

\* recurring.go, tick: the next fire is computed so that no job catches up multiple
\* periods if the tick is delayed, a cron job no more than an interval job.
CronNoCatchUp == [][Advanced("cron")]_vars

\* computeNext moves strictly forward, so a fire is dealt with once.
StrictlyAfter ==
  \A s \in Schedulers, n \in Names :
    jobs[s][n].lastFire # Never => jobs[s][n].nextFire > jobs[s][n].lastFire

\* A job that is due does not stay due: it is enqueued and advanced, after a failed
\* Enqueue by a later tick, until its next fire is to come, it is removed or Run ends.
DueIsFired ==
  \A s \in Schedulers, n \in Names :
    []<>~(run[s] \notin {"new", "done"} /\ Registered(s, n) /\ jobs[s][n].nextFire <= now)
=============================================================================
