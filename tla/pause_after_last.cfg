SPECIFICATION Spec
CONSTANTS
  t1 = t1
  t2 = t2
  NoTask = NoTask
  Task <- OneTask
  PlanSize = 1
  MaxBaseRetry = 1
  MaxRechargeRetry = 1
  MaxPoints = 2
  MaxCommands = 2
  Events <- Pauses
INVARIANTS PausedStandsStill
\* The robot rests when every task has ended, and stops when it crashes.
CHECK_DEADLOCK FALSE
