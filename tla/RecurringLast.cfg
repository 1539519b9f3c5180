SPECIFICATION Spec
CONSTANTS
  report = report
  sweep = sweep
  p1 = p1
  p2 = p2
  Schedulers = {p1}
  Names = {sweep}
  Choices <- OneEnding
  DedupWindow = 20
  Stops <- NoStop
  Failures = {}
  MaxTime = 5
  MaxRegistrations = 2
  MaxFailures = 0
INVARIANTS StrictlyAfter
CHECK_DEADLOCK FALSE
