-------------------------- MODULE MCAsyncTaskCall --------------------------
(***************************************************************************)
(* Instances of the task executor for TLC: the tasks, and which outside    *)
(* events may happen in a run.                                             *)
(***************************************************************************)
EXTENDS AsyncTaskCall

CONSTANTS t1, t2

OneTask == {t1}
TwoTasks == {t1, t2}

NoEvents == {}
SlowThreads == {"slowThreads"}
Returns == {"back", "lowBattery", "equipmentError", "enterManual", "quitManual"}
Interruptions == {"pause", "resume", "urgencyStop", "navTimeout",
                  "stopAndCharge", "forceBack", "laser"}
Pauses == {"pause", "resume"}
BackOrders == {"back", "lowBattery"}
Stops == {"urgencyStop"}
============================================================================
