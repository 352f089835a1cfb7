SPECIFICATION Spec
CONSTANTS
  t1 = t1
  t2 = t2
  NoTask = NoTask
  Task <- TwoTasks
  PlanSize = 1
  MaxBaseRetry = 0
  MaxRechargeRetry = 1
  MaxPoints = 1
  MaxCommands = 2
  Events <- Returns
INVARIANTS ExecutingIsWorkTask NoTaskNoPlan AbandonedPlan ManualModeAgrees
PROPERTIES KeepsHistory
\* The robot rests when every task has ended, and stops when it crashes.
CHECK_DEADLOCK FALSE
