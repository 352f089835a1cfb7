SPECIFICATION Spec
CONSTANTS
  t1 = t1
  t2 = t2
  NoTask = NoTask
  Task <- OneTask
  PlanSize = 2
  MaxBaseRetry = 0
  MaxRechargeRetry = 0
  MaxPoints = 2
  MaxCommands = 4
  Events <- Interruptions
INVARIANTS StopHalts
PROPERTIES PausedPlanKept LaserHalts
\* The robot rests when every task has ended, and stops when it crashes.
CHECK_DEADLOCK FALSE
