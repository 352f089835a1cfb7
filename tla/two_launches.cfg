SPECIFICATION Spec
CONSTANTS
  t1 = t1
  t2 = t2
  NoTask = NoTask
  Task <- TwoTasks
  PlanSize = 1
  MaxBaseRetry = 1
  MaxRechargeRetry = 1
  MaxPoints = 1
  MaxCommands = 0
  Events <- NoEvents
PROPERTIES OneTaskAtATime
\* The robot rests when every task has ended, and stops when it crashes.
CHECK_DEADLOCK FALSE
