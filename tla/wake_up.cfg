SPECIFICATION FairSpec
CONSTANTS
  t1 = t1
  t2 = t2
  NoTask = NoTask
  Task <- OneTask
  PlanSize = 1
  MaxBaseRetry = 0
  MaxRechargeRetry = 0
  MaxPoints = 1
  MaxCommands = 2
  Events <- BackOrders
PROPERTIES SleepWaitEnds
\* The robot rests when every task has ended, and stops when it crashes.
CHECK_DEADLOCK FALSE
