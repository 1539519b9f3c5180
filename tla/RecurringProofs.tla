--------------------------- MODULE RecurringProofs ---------------------------
(***************************************************************************)
(* Theorems about Recurring, for any number of schedulers, jobs, failures  *)
(* and registrations.                                                      *)
(***************************************************************************)
EXTENDS Recurring, TLAPS

\* A tick works on jobs whose fire is due.
DueInv ==
  \A s \in Schedulers : \A d \in due[s] \cup current[s] : d.job.nextFire \in 1..now

LastDue == \A s \in Schedulers, n \in Names : jobs[s][n].lastFire \in 0..MaxTime

\* A key is taken with the task or stranded, and a job is advanced only past a fire
\* whose key was taken.
Settled(k) == fired[k] > 0 \/ k \in stranded
KeyMeansSettled == \A k \in Keys : key[k] # Never => Settled(k)
CurrentSettled == \A s \in Schedulers : \A d \in current[s] : Settled(KeyOf(d))

\* A fire that has a task has a key, taken when it was due, and nobody writes another
\* task before the store may have forgotten it.
FiredMeansKey ==
  \A k \in Keys : /\ fired[k] > 0 => key[k] >= k[2] + DedupWindow
                  /\ fired[k] > 1 => now > k[2] + DedupWindow

----------------------------------------------------------------------------
\* Type correctness.

LEMMA NextIsInstant ==
  ASSUME NEW sch \in Schedule, NEW a \in Nat, now \in Nat
  PROVE /\ NextAlignedFire(sch.period, a) \in Nat
        /\ NextTickAfter(sch, a) \in Nat
        /\ ComputeNext(sch, a) \in Nat
<1>1. sch.period \in Nat \ {0} /\ sch.last \in Nat /\ sch.kind \in {"every", "cron"}
  BY DEF Schedule
<1>2. ASSUME NEW p \in Nat \ {0}, NEW b \in Nat PROVE (b \div p + 1) * p \in Nat
  <2>1. b \div p \in Nat
    BY <1>2, SMT
  <2> QED
    BY <2>1, SMT
<1>3. \A b \in Nat : NextAlignedFire(sch.period, b) \in Nat
  BY <1>1, <1>2 DEF NextAlignedFire
<1>4. NextTickAfter(sch, a) \in Nat
  BY <1>1, <1>3 DEF NextTickAfter, Never
<1> QED
  BY <1>1, <1>3, <1>4 DEF ComputeNext

LEMMA ChosenSchedules ==
  \A sch \in UNION {Choices[n] : n \in Names} : sch \in Schedule
BY RecurringAssumption

LEMMA TypeInit == Init => TypeOK
BY RecurringAssumption DEF Init, TypeOK, Never

LEMMA TypeStep == TypeOK /\ [Next]_vars => TypeOK'
<1> SUFFICES ASSUME TypeOK, [Next]_vars PROVE TypeOK'
  OBVIOUS
<1> USE RecurringAssumption
<1>a. now \in Nat
  BY DEF TypeOK
<1>1. ASSUME NEW s \in Schedulers, NEW n \in Names, NEW sch \in Choices[n], NEW next \in Nat,
             Register(s, n, sch, next)
      PROVE TypeOK'
  <2>1. [sched |-> sch, nextFire |-> next, lastFire |-> Never] \in Job
    BY <1>a, <1>1 DEF Job, Never
  <2>2. jobs' \in [Schedulers -> [Names -> Job \cup {Absent}]]
    BY <1>1, <2>1 DEF Register, TypeOK
  <2> QED
    BY <1>1, <2>2 DEF Register, TypeOK
<1>2. ASSUME NEW s \in Schedulers, NEW n \in Names, NEW sch \in Choices[n], Cron(s, n, sch)
      PROVE TypeOK'
  BY <1>1, <1>2, <1>a, NextIsInstant, ChosenSchedules DEF Cron
<1>3. ASSUME NEW s \in Schedulers, NEW n \in Names, NEW sch \in Choices[n], Every(s, n, sch)
      PROVE TypeOK'
  BY <1>1, <1>3, <1>a, NextIsInstant, ChosenSchedules DEF Every
<1>4. ASSUME NEW s \in Schedulers, NEW n \in Names, RemoveRecurring(s, n) PROVE TypeOK'
  BY <1>4 DEF RemoveRecurring, TypeOK
<1>5. ASSUME NEW s \in Schedulers, Run(s) PROVE TypeOK'
  BY <1>5 DEF Run, TypeOK
<1>6. ASSUME NEW s \in Schedulers, Tick(s) PROVE TypeOK'
  <2>1. \A n \in Names : Registered(s, n) => jobs[s][n] \in Job
    BY DEF Registered, TypeOK, Absent
  <2>2. due' \in [Schedulers -> SUBSET Due]
    BY <1>6, <2>1 DEF Tick, TypeOK, Due
  <2> QED
    BY <1>6, <2>2 DEF Tick, TypeOK
<1>7. ASSUME NEW s \in Schedulers, Exit(s) PROVE TypeOK'
  BY <1>7 DEF Exit, TypeOK
<1>8. ASSUME NEW s \in Schedulers, Fire(s) PROVE TypeOK'
  <2> PICK d \in due[s] : \/ FireAccepted(s, d) \/ FireDuplicate(s, d)
                         \/ FireRefused(s, d) \/ FireLostReply(s, d) \/ FireKeyOnly(s, d)
    BY <1>8 DEF Fire
  <2>1. d \in Due
    BY DEF TypeOK
  <2>a. (Enqueued(s, d) /\ UNCHANGED failures) \/ Failed(s, d)
    BY DEF FireAccepted, FireDuplicate, FireRefused, FireLostReply, FireKeyOnly
  <2>b. UNCHANGED <<now, jobs, run, stop, closes, registrations>>
    BY <2>a DEF Enqueued, Failed
  <2>c. due' = [due EXCEPT ![s] = @ \ {d}]
    BY <2>a DEF Enqueued, Failed
  <2>d. current' = [current EXCEPT ![s] = {d}] \/ current' = current
    BY <2>a DEF Enqueued, Failed
  <2>e. failures' \in 0..MaxFailures
    BY <2>a DEF Failed, TypeOK
  <2>2. due' \in [Schedulers -> SUBSET Due] /\ current' \in [Schedulers -> SUBSET Due]
    <3>1. due \in [Schedulers -> SUBSET Due] /\ current \in [Schedulers -> SUBSET Due]
      BY DEF TypeOK
    <3>2. due' \in [Schedulers -> SUBSET Due]
      BY <2>c, <3>1
    <3>3. current' \in [Schedulers -> SUBSET Due]
      BY <2>1, <2>d, <3>1
    <3> QED
      BY <3>2, <3>3
  <2>f. stranded' \subseteq Names \X Nat
    <3>1. KeyOf(d) \in Names \X Nat
      BY <2>1 DEF KeyOf, Due, Job
    <3> QED
      BY <3>1 DEF FireAccepted, FireDuplicate, FireRefused, FireLostReply, FireKeyOnly, TypeOK
  <2>3. key' \in [Keys -> Nat] /\ fired' \in [Keys -> Nat]
    BY <1>a DEF FireAccepted, FireDuplicate, FireRefused, FireLostReply, FireKeyOnly, Takes, Writes, TypeOK
  <2> QED
    BY <2>b, <2>e, <2>f, <2>2, <2>3 DEF TypeOK
<1>9. ASSUME NEW s \in Schedulers, Advance(s) PROVE TypeOK'
  <2> PICK d \in current[s] : AdvanceJob(s, d, ComputeNext(d.job.sched, d.job.nextFire))
    BY <1>9 DEF Advance
  <2> DEFINE next == ComputeNext(d.job.sched, d.job.nextFire)
  <2>1. d.name \in Names /\ d.job \in Job
    BY DEF TypeOK, Due
  <2>2. d.job.sched \in Schedule /\ d.job.nextFire \in Nat
    BY <2>1, ChosenSchedules DEF Job
  <2>3. next \in Nat
    BY <2>2, <1>a, NextIsInstant
  <2> HIDE DEF next
  <2>4. ASSUME Registered(s, d.name), next # Never
        PROVE [jobs[s][d.name] EXCEPT !.nextFire = next, !.lastFire = d.job.nextFire] \in Job
    <3>1. jobs[s][d.name] \in Job
      BY <2>1, <2>4 DEF Registered, TypeOK, Absent
    <3> QED
      BY <2>2, <2>3, <3>1 DEF Job
  <2>a. jobs \in [Schedulers -> [Names -> Job \cup {Absent}]]
    BY DEF TypeOK
  <2>b. AdvanceJob(s, d, next)
    BY DEF next
  <2>c. ASSUME Registered(s, d.name), next # Never
        PROVE jobs' \in [Schedulers -> [Names -> Job \cup {Absent}]]
    <3> DEFINE j == [jobs[s][d.name] EXCEPT !.nextFire = next, !.lastFire = d.job.nextFire]
    <3>1. j \in Job
      BY <2>c, <2>4
    <3>2. jobs' = [jobs EXCEPT ![s][d.name] = j]
      BY <2>b, <2>c DEF AdvanceJob
    <3> HIDE DEF j
    <3> QED
      BY <2>a, <2>1, <3>1, <3>2
  <2>5. jobs' \in [Schedulers -> [Names -> Job \cup {Absent}]]
    BY <2>a, <2>b, <2>c DEF AdvanceJob
  <2> QED
    BY <1>9, <2>5 DEF Advance, TypeOK
<1>10. ASSUME NEW s \in Schedulers, TickEnds(s) PROVE TypeOK'
  BY <1>10 DEF TickEnds, TypeOK
<1>11. ASSUME NEW c \in Stops, StopLooks(c) \/ StopCloses(c) PROVE TypeOK'
  <2>1. stop' \in [Stops -> {"idle", "open", "done"}]
    BY <1>11 DEF StopLooks, StopCloses, TypeOK
  <2>2. closes' \in [Schedulers -> Nat]
    BY <1>11 DEF StopLooks, StopCloses, TypeOK
  <2> QED
    BY <1>11, <2>1, <2>2 DEF StopLooks, StopCloses, TypeOK
<1>12. CASE Clock
  BY <1>12 DEF Clock, TypeOK
<1>13. CASE UNCHANGED vars
  BY <1>13 DEF vars, TypeOK
<1> QED
  BY <1>2, <1>3, <1>4, <1>5, <1>6, <1>7, <1>8, <1>9, <1>10, <1>11, <1>12, <1>13
  DEF Next, SchedulerStep

\* The schedulers' jobs, the copies their ticks work on and the store's keys stay well
\* formed: recurring.go never computes a next fire that is not an instant.
THEOREM TypeCorrect == Spec => []TypeOK
<1> QED
  BY TypeInit, TypeStep, PTL DEF Spec

----------------------------------------------------------------------------
\* Every fire a job has moved past has a task.

IInv == TypeOK /\ DueInv /\ LastDue /\ KeyMeansSettled /\ CurrentSettled /\ LastFireEnqueued

LEMMA DueStep == TypeOK /\ DueInv /\ [Next]_vars => DueInv'
<1> SUFFICES ASSUME TypeOK, DueInv, [Next]_vars PROVE DueInv'
  OBVIOUS
<1> USE RecurringAssumption
<1>1. ASSUME NEW s \in Schedulers, Tick(s) PROVE DueInv'
  <2>1. PICK at \in 1..now :
          LET ready == {n \in Names : Registered(s, n) /\ jobs[s][n].nextFire # Never
                                                       /\ jobs[s][n].nextFire <= at} IN
          due' = [due EXCEPT ![s] = {[name |-> n, job |-> jobs[s][n]] : n \in ready}]
    BY <1>1 DEF Tick
  <2>2. \A n \in Names : Registered(s, n) => jobs[s][n].nextFire \in Nat
    BY DEF Registered, TypeOK, Absent, Job
  <2>3. \A d \in due'[s] : d.job.nextFire \in 1..now
    BY <2>1, <2>2 DEF TypeOK, Never
  <2>4. \A r \in Schedulers \ {s} : due'[r] = due[r]
    BY <2>1 DEF TypeOK
  <2>5. current' = current /\ now' = now
    BY <1>1 DEF Tick
  <2> QED
    BY <2>3, <2>4, <2>5, SMTT(30) DEF DueInv
<1>2. ASSUME NEW s \in Schedulers, Fire(s) PROVE DueInv'
  <2> PICK d \in due[s] : \/ FireAccepted(s, d) \/ FireDuplicate(s, d)
                         \/ FireRefused(s, d) \/ FireLostReply(s, d) \/ FireKeyOnly(s, d)
    BY <1>2 DEF Fire
  <2>1. Enqueued(s, d) \/ Failed(s, d)
    BY DEF FireAccepted, FireDuplicate, FireRefused, FireLostReply, FireKeyOnly
  <2>2. \A r \in Schedulers : due'[r] \cup current'[r] \subseteq due[r] \cup current[r]
    BY <2>1 DEF Enqueued, Failed, TypeOK
  <2>3. now' = now
    BY <2>1 DEF Enqueued, Failed
  <2> QED
    BY <2>2, <2>3 DEF DueInv
<1>3. ASSUME NEW s \in Schedulers, Advance(s) PROVE DueInv'
  BY <1>3 DEF Advance, DueInv, TypeOK
<1>4. CASE UNCHANGED <<now, due, current>>
  BY <1>4 DEF DueInv
<1>5. CASE Clock
  BY <1>5, SMTT(30) DEF Clock, DueInv, TypeOK
<1> QED
  BY <1>1, <1>2, <1>3, <1>4, <1>5 DEF Next, SchedulerStep, vars, Cron, Every, Register, RemoveRecurring,
     Run, Exit, TickEnds, StopLooks, StopCloses

\* What Enqueue does to the history: it only adds.
LEMMA HistoryGrows ==
  ASSUME TypeOK, NEW s \in Schedulers, NEW d \in due[s], KeyOf(d) \in Keys,
         \/ FireAccepted(s, d) \/ FireDuplicate(s, d)
         \/ FireRefused(s, d) \/ FireLostReply(s, d) \/ FireKeyOnly(s, d)
  PROVE /\ \A k \in Keys : Settled(k) => Settled(k)'
        /\ \A k \in Keys : key'[k] # key[k] => Settled(k)'
<1>1. CASE Takes(KeyOf(d)) /\ Writes(KeyOf(d)) /\ UNCHANGED stranded
  BY <1>1 DEF Takes, Writes, Settled, TypeOK
<1>2. CASE UNCHANGED <<key, fired, stranded>>
  BY <1>2 DEF Settled
<1>3. CASE Takes(KeyOf(d)) /\ stranded' = stranded \cup {KeyOf(d)} /\ UNCHANGED fired
  BY <1>3 DEF Takes, Settled, TypeOK
<1> QED
  BY <1>1, <1>2, <1>3 DEF FireAccepted, FireDuplicate, FireRefused, FireLostReply, FireKeyOnly

LEMMA KeyInKeys ==
  ASSUME TypeOK, DueInv, NEW s \in Schedulers, NEW d \in due[s] \cup current[s]
  PROVE d.name \in Names /\ KeyOf(d) \in Keys
<1>1. d \in Due
  BY DEF TypeOK
<1>2. d.name \in Names /\ d.job.nextFire \in 1..MaxTime
  BY <1>1, RecurringAssumption, SMTT(30) DEF DueInv, Due, TypeOK
<1> QED
  BY <1>2, RecurringAssumption DEF KeyOf, Keys

LEMMA EnqueuedStep ==
  IInv /\ [Next]_vars => LastDue' /\ KeyMeansSettled' /\ CurrentSettled' /\ LastFireEnqueued'
<1> SUFFICES ASSUME IInv, [Next]_vars
             PROVE LastDue' /\ KeyMeansSettled' /\ CurrentSettled' /\ LastFireEnqueued'
  OBVIOUS
<1> USE RecurringAssumption
<1>a. TypeOK /\ DueInv /\ LastDue /\ KeyMeansSettled /\ CurrentSettled /\ LastFireEnqueued
  BY DEF IInv
\* A registration or a removal leaves a job that has never fired.
<1>1. ASSUME NEW s \in Schedulers, NEW n \in Names, NEW j, j.lastFire = Never,
             jobs' = [jobs EXCEPT ![s][n] = j], UNCHANGED <<key, fired, stranded, current>>
      PROVE LastDue' /\ KeyMeansSettled' /\ CurrentSettled' /\ LastFireEnqueued'
  <2>1. \A r \in Schedulers, m \in Names : jobs'[r][m] = jobs[r][m] \/ jobs'[r][m] = j
    BY <1>1, <1>a DEF TypeOK
  <2>2. LastDue' /\ LastFireEnqueued'
    BY <1>1, <1>a, <2>1 DEF LastDue, LastFireEnqueued, Never
  <2> QED
    BY <1>1, <1>a, <2>2 DEF KeyMeansSettled, CurrentSettled, Settled, KeyOf
<1>2. ASSUME NEW s \in Schedulers, NEW n \in Names, NEW sch \in Choices[n],
             Cron(s, n, sch) \/ Every(s, n, sch)
      PROVE LastDue' /\ KeyMeansSettled' /\ CurrentSettled' /\ LastFireEnqueued'
  <2>1. PICK next : Register(s, n, sch, next)
    BY <1>2 DEF Cron, Every
  <2> DEFINE j == [sched |-> sch, nextFire |-> next, lastFire |-> Never]
  <2>2. j.lastFire = Never
    OBVIOUS
  <2>3. jobs' = [jobs EXCEPT ![s][n] = j] /\ UNCHANGED <<key, fired, stranded, current>>
    BY <2>1 DEF Register
  <2> HIDE DEF j
  <2> QED
    BY <1>1, <2>2, <2>3
<1>3. ASSUME NEW s \in Schedulers, NEW n \in Names, RemoveRecurring(s, n)
      PROVE LastDue' /\ KeyMeansSettled' /\ CurrentSettled' /\ LastFireEnqueued'
  <2>1. Absent.lastFire = Never
    BY DEF Absent
  <2>2. jobs' = [jobs EXCEPT ![s][n] = Absent] /\ UNCHANGED <<key, fired, stranded, current>>
    BY <1>3 DEF RemoveRecurring
  <2> QED
    BY <1>1, <2>1, <2>2
<1>4. ASSUME NEW s \in Schedulers, Fire(s)
      PROVE LastDue' /\ KeyMeansSettled' /\ CurrentSettled' /\ LastFireEnqueued'
  <2> PICK d \in due[s] : \/ FireAccepted(s, d) \/ FireDuplicate(s, d)
                         \/ FireRefused(s, d) \/ FireLostReply(s, d) \/ FireKeyOnly(s, d)
    BY <1>4 DEF Fire
  <2>1. KeyOf(d) \in Keys
    BY <1>a, KeyInKeys
  <2>2. /\ \A k \in Keys : Settled(k) => Settled(k)'
        /\ \A k \in Keys : key'[k] # key[k] => Settled(k)'
    BY <1>a, <2>1, HistoryGrows
  <2>4. jobs' = jobs
    BY DEF FireAccepted, FireDuplicate, FireRefused, FireLostReply, FireKeyOnly, Enqueued, Failed
  <2>5. KeyMeansSettled'
    BY <1>a, <2>2 DEF KeyMeansSettled
  <2>6. LastDue' /\ LastFireEnqueued'
    <3>1. ASSUME NEW r \in Schedulers, NEW n \in Names, jobs[r][n].lastFire # Never
          PROVE Settled(<<n, jobs[r][n].lastFire>>)'
      <4>1. Settled(<<n, jobs[r][n].lastFire>>)
        BY <1>a, <3>1 DEF LastFireEnqueued, Settled
      <4>2. <<n, jobs[r][n].lastFire>> \in Keys
        BY <1>a, <3>1 DEF LastDue, Keys, Never
      <4>3. Settled(<<n, jobs[r][n].lastFire>>) => fired'[<<n, jobs[r][n].lastFire>>] > 0
                                              \/ <<n, jobs[r][n].lastFire>> \in stranded'
        BY <2>2, <4>2 DEF Settled
      <4> QED
        BY <2>4, <4>1, <4>3 DEF Settled
    <3> QED
      BY <1>a, <2>4, <3>1 DEF LastDue, LastFireEnqueued, Settled
  <2>7. ASSUME NEW r \in Schedulers, NEW c \in current'[r] PROVE Settled(KeyOf(c))'
    <3>1. CASE c \in current[r]
      <4>1. KeyOf(c) \in Keys /\ Settled(KeyOf(c))
        BY <1>a, <3>1, KeyInKeys DEF CurrentSettled
      <4> QED
        BY <2>2, <4>1 DEF Settled, KeyOf
    <3>2. CASE c \notin current[r]
      <4>1. c = d /\ Enqueued(s, d)
        BY <1>a, <2>7, <3>2, SMTT(30)
        DEF FireAccepted, FireDuplicate, FireRefused, FireLostReply, FireKeyOnly, Enqueued, Failed, TypeOK
      <4>2. CASE FireAccepted(s, d)
        BY <1>a, <2>1, <4>1, <4>2, SMTT(30) DEF FireAccepted, Writes, Settled, KeyOf, TypeOK
      <4>3. CASE FireDuplicate(s, d)
        BY <1>a, <2>1, <4>1, <4>3 DEF FireDuplicate, Remembered, KeyMeansSettled, Settled, KeyOf
      <4>4. CASE Failed(s, d)
        BY <1>a, <2>7, <3>2, <4>4 DEF Failed
      <4> QED
        BY <4>2, <4>3, <4>4 DEF FireRefused, FireLostReply, FireKeyOnly
    <3> QED
      BY <3>1, <3>2
  <2> QED
    BY <2>5, <2>6, <2>7 DEF CurrentSettled
<1>5. ASSUME NEW s \in Schedulers, Advance(s)
      PROVE LastDue' /\ KeyMeansSettled' /\ CurrentSettled' /\ LastFireEnqueued'
  <2> PICK d \in current[s] : AdvanceJob(s, d, ComputeNext(d.job.sched, d.job.nextFire))
    BY <1>5 DEF Advance
  <2>1. UNCHANGED <<key, fired, stranded>> /\ current' = [current EXCEPT ![s] = {}]
    BY <1>5 DEF Advance
  <2>2. d.name \in Names /\ d.job.nextFire \in 1..MaxTime /\ Settled(KeyOf(d))
    BY <1>a, KeyInKeys DEF DueInv, CurrentSettled, TypeOK
  <2>3. ASSUME NEW r \in Schedulers, NEW m \in Names
        PROVE \/ jobs'[r][m].lastFire = jobs[r][m].lastFire
              \/ m = d.name /\ jobs'[r][m].lastFire = d.job.nextFire
    <3>1. CASE jobs' = jobs
      BY <3>1
    <3>2. CASE /\ Registered(s, d.name)
               /\ jobs' = [jobs EXCEPT ![s][d.name] =
                     [@ EXCEPT !.nextFire = ComputeNext(d.job.sched, d.job.nextFire),
                               !.lastFire = d.job.nextFire]]
      <4>1. jobs[s][d.name] \in Job
        BY <1>a, <2>2, <3>2 DEF Registered, TypeOK, Absent
      <4> DEFINE next == ComputeNext(d.job.sched, d.job.nextFire)
      <4> DEFINE j == [jobs[s][d.name] EXCEPT !.nextFire = next, !.lastFire = d.job.nextFire]
      <4>2. j.lastFire = d.job.nextFire
        <5> HIDE DEF next
        <5> QED
          BY <4>1 DEF Job
      <4>3. jobs' = [jobs EXCEPT ![s][d.name] = j]
        BY <3>2
      <4> HIDE DEF j
      <4> QED
        BY <1>a, <2>2, <4>2, <4>3 DEF TypeOK
    <3> QED
      BY <3>1, <3>2 DEF AdvanceJob
  <2>4. LastDue' /\ LastFireEnqueued'
    BY <1>a, <2>1, <2>2, <2>3 DEF LastDue, LastFireEnqueued, Settled, KeyOf
  <2>5. KeyMeansSettled' /\ CurrentSettled'
    BY <1>a, <2>1 DEF KeyMeansSettled, CurrentSettled, Settled, TypeOK, KeyOf
  <2> QED
    BY <2>4, <2>5
<1>6. CASE UNCHANGED <<jobs, key, fired, stranded, current>>
  BY <1>6, <1>a DEF LastDue, KeyMeansSettled, CurrentSettled, LastFireEnqueued, Settled, KeyOf
<1> QED
  BY <1>2, <1>3, <1>4, <1>5, <1>6 DEF Next, SchedulerStep, vars, Run, Tick, Exit, TickEnds,
     StopLooks, StopCloses, Clock

\* A scheduler never moves past a fire that nobody enqueued: tick advances a job after
\* a success or a duplicate only, and a duplicate's key was taken with its task unless
\* an Enqueue failed between the two.
THEOREM FiresNotLost == Spec => []LastFireEnqueued
<1>1. Init => IInv
  <2>1. Init => DueInv /\ LastDue /\ KeyMeansSettled /\ CurrentSettled /\ LastFireEnqueued
    BY RecurringAssumption
    DEF Init, DueInv, LastDue, KeyMeansSettled, CurrentSettled, LastFireEnqueued, Absent, Never
  <2> QED
    BY <2>1, TypeInit DEF IInv
<1>2. IInv /\ [Next]_vars => IInv'
  BY TypeStep, DueStep, EnqueuedStep DEF IInv
<1>3. IInv => LastFireEnqueued
  BY DEF IInv
<1> QED
  BY <1>1, <1>2, <1>3, PTL DEF Spec

----------------------------------------------------------------------------
\* One task per fire.

\* All schedulers together enqueue a fire once, in any order of their ticks and with
\* any failures of Enqueue, until DedupWindow has passed since the instant: the key
\* that tick builds from the name and the instant is all the coordination they need,
\* and a scheduler that comes to the fire later than that may enqueue it again.
THEOREM OneTaskPerFire == Spec => []OncePerFire
<1> DEFINE Inv == TypeOK /\ DueInv /\ FiredMeansKey
<1>1. Init => Inv
  <2>1. Init => DueInv /\ FiredMeansKey
    BY DEF Init, DueInv, FiredMeansKey
  <2> QED
    BY <2>1, TypeInit
<1>2. ASSUME Inv, [Next]_vars PROVE FiredMeansKey'
  <2>a. /\ now \in Nat /\ DedupWindow \in Nat /\ now' \in Nat /\ now' >= now
        /\ \A k \in Keys : k[2] \in Nat
    <3>1. now' = now \/ now' = now + 1
      BY <1>2 DEF Next, SchedulerStep, vars, Cron, Every, Register, RemoveRecurring, Run, Tick, Exit,
         Fire, FireAccepted, FireDuplicate, FireRefused, FireLostReply, FireKeyOnly, Enqueued, Failed,
         Advance, TickEnds, StopLooks, StopCloses, Clock
    <3> QED
      BY <1>2, <3>1, RecurringAssumption, SMTT(30) DEF TypeOK, Keys
  <2>b. key \in [Keys -> Nat] /\ fired \in [Keys -> Nat]
    BY <1>2 DEF TypeOK
  <2>1. ASSUME NEW s \in Schedulers, Fire(s) PROVE FiredMeansKey'
    <3> PICK d \in due[s] : \/ FireAccepted(s, d) \/ FireDuplicate(s, d)
                           \/ FireRefused(s, d) \/ FireLostReply(s, d) \/ FireKeyOnly(s, d)
      BY <2>1 DEF Fire
    <3> DEFINE k0 == KeyOf(d)
    <3>1. k0 \in Keys /\ k0[2] \in Nat /\ k0[2] <= now
      BY <1>2, <2>a, KeyInKeys DEF DueInv, KeyOf
    <3>2. CASE UNCHANGED <<key, fired>>
      BY <1>2, <2>a, <3>2 DEF FiredMeansKey
    <3>3. CASE ~Remembered(k0) /\ Takes(k0) /\ (Writes(k0) \/ UNCHANGED fired)
      <4> HIDE DEF k0
      <4>1. fired[k0] > 0 => now > k0[2] + DedupWindow
        BY <1>2, <2>a, <2>b, <3>1, <3>3, RecurringAssumption DEF FiredMeansKey, Remembered, Never
      <4>2. key'[k0] = now + DedupWindow /\ fired'[k0] \in {fired[k0], fired[k0] + 1}
        BY <2>b, <3>1, <3>3 DEF Takes, Writes
      <4>3. \A k \in Keys \ {k0} : key'[k] = key[k] /\ fired'[k] = fired[k]
        BY <2>b, <3>1, <3>3 DEF Takes, Writes
      <4>4. /\ fired'[k0] > 0 => key'[k0] >= k0[2] + DedupWindow
            /\ fired'[k0] > 1 => now' > k0[2] + DedupWindow
        BY <2>a, <2>b, <3>1, <4>1, <4>2
      <4>5. ASSUME NEW k \in Keys \ {k0}
            PROVE /\ fired'[k] > 0 => key'[k] >= k[2] + DedupWindow
                  /\ fired'[k] > 1 => now' > k[2] + DedupWindow
        BY <1>2, <2>a, <2>b, <4>3 DEF FiredMeansKey
      <4> QED
        BY <4>4, <4>5 DEF FiredMeansKey
    <3> QED
      BY <3>2, <3>3 DEF FireAccepted, FireDuplicate, FireRefused, FireLostReply, FireKeyOnly
  <2>2. CASE UNCHANGED <<key, fired>>
    BY <1>2, <2>a, <2>2 DEF FiredMeansKey
  <2> QED
    BY <1>2, <2>1, <2>2 DEF Next, SchedulerStep, vars, Cron, Every, Register, RemoveRecurring, Run,
       Tick, Exit, Advance, TickEnds, StopLooks, StopCloses, Clock
<1>3. Inv /\ [Next]_vars => Inv'
  BY <1>2, TypeStep, DueStep
<1>4. Inv => OncePerFire
  BY DEF FiredMeansKey, OncePerFire
<1> QED
  BY <1>1, <1>3, <1>4, PTL DEF Spec
=============================================================================
