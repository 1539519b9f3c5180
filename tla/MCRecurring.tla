---------------------------- MODULE MCRecurring ----------------------------
\* Schedules and instances for TLC.
EXTENDS Recurring, TLC

CONSTANTS report, sweep,  \* job names
          p1, p2          \* processes

Interval(p) == [kind |-> "every", period |-> p, last |-> 0]
Endless(p) == [kind |-> "cron", period |-> p, last |-> 100]
\* A cron expression whose year field ends the schedule.
Until(p, l) == [kind |-> "cron", period |-> p, last |-> l]

\* One interval job and one cron job.
Both == report :> {Interval(2)} @@ sweep :> {Endless(2)}
OneOfTwo == report :> {Interval(2), Interval(3)}
OneEndless == sweep :> {Endless(2)}
OneEnding == sweep :> {Until(2, 2)}

\* A call of Stop for the first process.
OneStop == {<<1, p1>>}
NoStop == {}

\* A behaviour has a failed Enqueue or a Stop, not both: neither touches what the other
\* changes.
OneDisturbance == failures' = 0 \/ \A c \in Stops : stop'[c] = "idle"
============================================================================
