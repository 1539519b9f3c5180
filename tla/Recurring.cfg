SPECIFICATION FairSpec
CONSTANTS
  report = report
  sweep = sweep
  p1 = p1
  p2 = p2
  Schedulers = {p1, p2}
  Names = {report, sweep}
  Choices <- Both
  DedupWindow = 1
  Stops <- OneStop
  Failures = {"refused", "lostReply", "keyOnly"}
  MaxTime = 5
  MaxRegistrations = 2
  MaxFailures = 1
ACTION_CONSTRAINT OneDisturbance
INVARIANTS TypeOK OncePerFire LastFireEnqueued FiresOnSchedule 
PROPERTIES NoCatchUp DueIsFired
CHECK_DEADLOCK FALSE
