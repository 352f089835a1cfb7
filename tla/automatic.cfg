SPECIFICATION FairSpec
CONSTANTS
  t1 = t1
  t2 = t2
  NoTask = NoTask
  Task <- TwoTasks
  PlanSize = 3
  MaxBaseRetry = 5
  MaxRechargeRetry = 5
  MaxPoints = 2
  MaxCommands = 0
  Events <- SlowThreads
INVARIANTS TypeOK TaskPlacement DocksMechanismUp EmptyPlanNeverRead
PROPERTIES PlanCompleted ExecutingEnds
\* The robot rests when every task has ended, and stops when it crashes.
CHECK_DEADLOCK FALSE
