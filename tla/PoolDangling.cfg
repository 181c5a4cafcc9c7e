SPECIFICATION Spec
CONSTANTS
  t1 = t1
  t2 = t2
  w1 = w1
  w2 = w2
  Idle = Idle
  Asleep = Asleep
  Checking = Checking
  Exited = Exited
  Threads = {t1, t2}
  Workers = {w1, w2}
  MaxTasks = 2
  MaxCalls = 1
  CanFail = TRUE
CHECK_DEADLOCK FALSE
INVARIANTS FramesOutliveTasks
