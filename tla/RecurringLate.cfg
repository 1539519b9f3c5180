SPECIFICATION Spec
CONSTANTS
  report = report
  sweep = sweep
  p1 = p1
  p2 = p2
  Schedulers = {p1}
  Names = {sweep}
  Choices <- OneEndless
  DedupWindow = 20
  Stops <- NoStop
  Failures = {}
  MaxTime = 5
  MaxRegistrations = 2
  MaxFailures = 0
PROPERTIES CronNoCatchUp
CHECK_DEADLOCK FALSE
