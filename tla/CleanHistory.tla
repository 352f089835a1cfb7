----------------------------- MODULE CleanHistory -----------------------------
(***************************************************************************)
(* The history of cleaning tasks: class CleanHistoryCenter over the table  *)
(* clean_history, with the threads that use it.  Two threads launch tasks  *)
(* (requests and the schedule); the dispatcher starts, updates and ends    *)
(* them, and writes its copy of the running task's row after every change. *)
(* The rows survive the process, the copy does not: the next start repairs *)
(* what was left open.                                                     *)
(*                                                                         *)
(* Every operation holds history_update_mutex_, so each is one step.  A    *)
(* row is told apart by its state, by whether it was executed, by its flow *)
(* and by its error code: those of a refused launch, an interrupted task,  *)
(* a blocked motor, and of a shutdown (while waiting, or in a flow).       *)
(* Times, areas, counters and the other events are left out.               *)
(***************************************************************************)
EXTENDS Naturals

CONSTANTS
  Task,           \* task ids
  Thread,         \* the threads that launch tasks
  NoTask,         \* the empty id
  MaxLaunches     \* bound

ASSUME EmptyIdAssumption == NoTask \notin Task
ASSUME LaunchBound == MaxLaunches \in Nat

VARIABLES
  rows,           \* the table
  current_history,
  launching,      \* the task each thread is launching
  queue,          \* tasks handed to the executor
  launches,       \* bound
  reused,         \* history variable: ids launched more than once
  here            \* history variable: tasks launched since the last start

historyVars == <<rows, current_history, launching, queue, launches, reused, here>>

-----------------------------------------------------------------------------
Id == Task \cup {NoTask}
Flow == {"waiting_for_task", "at_work"}
State == {"none", "waiting", "executing", "done", "error"}
Code == {"none", "launch", "interrupt", "motor", "shutdown"}

Row == [state : State, executed : BOOLEAN, flow : Flow, motor : BOOLEAN,
        code : Code, shutIn : Flow]
NewRow == [state |-> "waiting", executed |-> FALSE, flow |-> "waiting_for_task",
           motor |-> FALSE, code |-> "none", shutIn |-> "waiting_for_task"]
NoRow == [NewRow EXCEPT !.state = "none"]
DefaultHistory == [id |-> NoTask, row |-> NewRow]

Running == current_history.id # NoTask
Open(r) == r.state \in {"waiting", "executing"}

HistoryTypeOK ==
  /\ rows \in [Id -> Row]
  /\ current_history \in [id : Id, row : Row]
  /\ launching \in [Thread -> Id]
  /\ queue \subseteq Task
  /\ launches \in 0 .. MaxLaunches
  /\ reused \subseteq Task /\ here \subseteq Task

HistoryInit ==
  /\ rows = [i \in Id |-> NoRow]
  /\ current_history = DefaultHistory
  /\ launching = [th \in Thread |-> NoTask]
  /\ queue = {} /\ launches = 0 /\ reused = {} /\ here = {}

-----------------------------------------------------------------------------
(* updateHistory: the row is replaced, or added if it is not there. *)
Write(id, row) == rows' = [rows EXCEPT ![id] = row]

launchVars == <<launching, queue, launches, reused, here>>

AddCleanHistory(th, t) ==
  /\ launching[th] = NoTask /\ launches < MaxLaunches
  /\ Write(t, NewRow)
  /\ launching' = [launching EXCEPT ![th] = t]
  /\ launches' = launches + 1
  /\ reused' = IF rows[t] = NoRow THEN reused ELSE reused \cup {t}
  /\ here' = here \cup {t}
  /\ UNCHANGED <<current_history, queue>>

(* realExecuteTask threw: the row is read again and closed. *)
LaunchFailed(th) ==
  /\ launching[th] # NoTask
  /\ LET t == launching[th] IN
       Write(t, [rows[t] EXCEPT !.code = "launch", !.state = "error"])
  /\ launching' = [launching EXCEPT ![th] = NoTask]
  /\ UNCHANGED <<current_history, queue, launches, reused, here>>

(* upDateByRealTask writes the row back with the mechanisms and the number   *)
(* of points, then the executor gets the task.                               *)
Dispatch(th) ==
  /\ launching[th] # NoTask
  /\ queue' = queue \cup {launching[th]}
  /\ launching' = [launching EXCEPT ![th] = NoTask]
  /\ UNCHANGED <<rows, current_history, launches, reused, here>>

-----------------------------------------------------------------------------
(* The executor clears its queues, or takes a task it does not start: the    *)
(* row of the task is not told.                                              *)
ForgetTask ==
  /\ \E t \in queue : queue' = queue \ {t}
  /\ UNCHANGED <<rows, current_history, launching, launches, reused, here>>

(* Mutant: the task stays in the queue. *)
ExecuteTaskAgain(t) ==
  /\ t \in queue
  /\ current_history' =
       [id |-> t, row |-> [rows[t] EXCEPT !.executed = TRUE, !.state = "executing"]]
  /\ Write(t, current_history'.row)
  /\ UNCHANGED <<launching, queue, launches, reused, here>>

(* handleTask, also over a task that a released stop left in place. *)
ExecuteTask(t) ==
  /\ t \in queue /\ queue' = queue \ {t}
  /\ current_history' =
       [id |-> t, row |-> [rows[t] EXCEPT !.executed = TRUE, !.state = "executing"]]
  /\ Write(t, current_history'.row)
  /\ UNCHANGED <<launching, launches, reused, here>>

(* The guarded setters: they change the copy and write it. *)
Update(row) ==
  /\ Running
  /\ current_history' = [current_history EXCEPT !.row = row]
  /\ Write(current_history.id, row)
  /\ UNCHANGED launchVars

SetCurrentFlow ==
  \E f \in Flow : Update([current_history.row EXCEPT !.flow = f])
EquipmentErrorBack == Update([current_history.row EXCEPT !.motor = TRUE])

(* setRechargeRetries, setCloseMechanism and setOpenMechanism test the       *)
(* opposite: they write the row of the empty id.                             *)
SetMechanism ==
  /\ ~Running
  /\ Write(current_history.id, current_history.row)
  /\ UNCHANGED <<current_history, launchVars>>

-----------------------------------------------------------------------------
(* The ends: the row is written and the copy forgotten. *)
End(row) ==
  /\ Running
  /\ Write(current_history.id, row)
  /\ current_history' = DefaultHistory
  /\ UNCHANGED launchVars

(* Mutant: only a task without an event of a blocked motor is closed. *)
CompletedUnlessMotor ==
  LET r == current_history.row IN
  IF r.motor THEN [r EXCEPT !.code = "motor"]
  ELSE IF r.code = "none" THEN [r EXCEPT !.state = "done"] ELSE r

(* complete: a blocked motor is an error; otherwise the task is done, if it  *)
(* has no error yet, and is left as it is if it has one.                     *)
Completed ==
  LET r == current_history.row IN
  IF r.motor THEN [r EXCEPT !.code = "motor", !.state = "error"]
  ELSE IF r.code = "none" THEN [r EXCEPT !.state = "done"] ELSE r

Complete == End(Completed)

(* errorComplete and laserInterrupt *)
Interrupt == End([current_history.row EXCEPT !.state = "error", !.code = "interrupt"])

(* enterManualCleanMode and specialComplete *)
SpecialComplete == End([current_history.row EXCEPT !.state = "done", !.code = "none"])

-----------------------------------------------------------------------------
(* Mutant: a row that was still waiting is not repaired. *)
RepairedExecuting(r) ==
  IF r.state # "executing" THEN r
  ELSE [r EXCEPT !.state = "error", !.code = "shutdown",
                 !.shutIn = IF r.executed THEN r.flow ELSE "waiting_for_task"]

(* initialize: what a row left open becomes at the next start. *)
Repaired(r) ==
  IF ~Open(r) THEN r
  ELSE [r EXCEPT !.state = "error", !.code = "shutdown",
                 !.shutIn = IF r.executed THEN r.flow ELSE "waiting_for_task"]

Initialize ==
  /\ rows' = [i \in Id |-> Repaired(rows[i])]
  /\ UNCHANGED <<current_history, launchVars>>

(* The process dies: only the table is left. *)
Lost ==
  /\ current_history' = DefaultHistory
  /\ launching' = [th \in Thread |-> NoTask]
  /\ queue' = {} /\ here' = {}
  /\ UNCHANGED <<rows, launches, reused>>

Launch ==
  \E th \in Thread :
    (\E t \in Task : AddCleanHistory(th, t)) \/ LaunchFailed(th) \/ Dispatch(th)

Executor ==
  \/ ForgetTask \/ (\E t \in Task : ExecuteTask(t))
  \/ SetCurrentFlow \/ EquipmentErrorBack \/ SetMechanism
  \/ Complete \/ Interrupt \/ SpecialComplete

HistoryNext == Launch \/ Executor

-----------------------------------------------------------------------------
(* The history keeps the promise of TaskHistory for every id that is         *)
(* launched once.                                                            *)
stage == [t \in Task |-> IF t \in reused THEN "reused" ELSE rows[t].state]

Promised == INSTANCE TaskHistory WITH Outcome <- {"done", "error"}
KeepsHistory == Promised!Spec

(* A task that leaves the executor by an end has its row closed, unless its  *)
(* id was launched again while it ran: complete then finds the error of the  *)
(* second launch and leaves the row executing.                               *)
EndClosesRow ==
  [][Running /\ current_history' = DefaultHistory /\ UNCHANGED here =>
       \/ current_history.id \in reused
       \/ ~Open(rows'[current_history.id])]_historyVars
=============================================================================
