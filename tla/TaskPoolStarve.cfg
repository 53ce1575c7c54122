SPECIFICATION FairSpec
CONSTANTS
  t1 = t1
  t2 = t2
  t3 = t3
  d1 = d1
  d2 = d2
  Task = {t1, t2}
  MaxConcurrent = 1
  MaxAttempt = 1
  MaxEarly = 2
  MaxDispatch = 2
  Worker = worker
  Drain = {d1}
  Orchestrators = {"waits"}
  NoTask = NoTask
PROPERTY
  QueuedTaskStarts
CHECK_DEADLOCK FALSE
