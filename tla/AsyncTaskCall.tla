---------------------------- MODULE AsyncTaskCall ----------------------------
(***************************************************************************)
(* The task executor: class AsyncTaskCall with its active subclass         *)
(* HeadTailPointCall (simulation.h: isTimely = false).                     *)
(*                                                                         *)
(* One dispatcher thread (execute) takes one event at a time from the      *)
(* triggers and deques guarded by cv_mut and handles it without the lock.  *)
(* The other threads are the ROS callback thread (status, station results, *)
(* operator commands), the cron thread and the app (new tasks), the        *)
(* actionlib thread (navigation results) and the event-loop thread         *)
(* (timers).  pc, job, jobTask and again are the dispatcher's call stack:  *)
(* the recursive calls of handleAutoPoint are tail calls, except that the  *)
(* one made by callResume in automatic state is followed by processControl *)
(* of the resume point, which again records.                               *)
(*                                                                         *)
(* Outside the object: the navigation server (goal, navResult), the base   *)
(* station (station), the cleaning mechanism and the motors.               *)
(***************************************************************************)
EXTENDS TaskPoints, FiniteSets, SequencesExt

CONSTANTS
  MaxBaseRetry,      \* MAX_BASE_POINT_RETRY_COUNT
  MaxRechargeRetry,  \* MAX_RECHARGE_RETRY_COUNT
  MaxPoints,         \* bound: no event while pointDeque is this long
  MaxCommands,       \* bound on the number of commands given
  Events           \* the outside events that may happen (a model bound)

ASSUME RetryAssumption == MaxBaseRetry \in Nat /\ MaxRechargeRetry \in Nat
ASSUME BoundAssumption == MaxPoints \in Nat \ {0} /\ MaxCommands \in Nat

EventName ==
  {"back", "forceBack", "resume", "pause", "enterManual", "quitManual",
   "urgencyStop", "stopAndCharge", "lowBattery", "equipmentError", "laser",
   "navTimeout", "slowThreads"}

VARIABLES
  event_flow, event_status, pauseInterception, manualClean,
  workTask, waitTaskQueue, plannerQueue,
  record,            \* recordFlow and recordPoint, for resuming after a pause
  lock,              \* urgencyStopEventFlow, Point and Status
  retries,           \* backBaseRetryCount and rechargeRetryCount
  arrive,            \* realError.arrive of the points that ask for a return
  armed,             \* the special points carry the id of some task
  taskDeque, pointDeque,
  urgencyStopState, triggerUrgencyStop,
  unrecoverableErrorState, triggerUnrecoverableError,
  sleepTimeout,
  pc, job, jobTask, again,
  commands,          \* number of commands given (a model bound)
  timers,            \* functors_ (queued) and timers_ (live) of the event loop
  goal, navResult, station, mechanism, motors,
  history,           \* the state of each task's row, see CleanHistoryCenter
  tried,             \* history variable: plan points whose goal was answered
  cut                \* history variable: the task's plan was abandoned

flowVars == <<event_flow, event_status>>
modeVars == <<pauseInterception, manualClean>>
taskVars == <<workTask, waitTaskQueue, plannerQueue, history>>
memoVars == <<record, lock>>
countVars == <<retries, arrive, armed, sleepTimeout>>
triggerVars == <<urgencyStopState, triggerUrgencyStop,
                 unrecoverableErrorState, triggerUnrecoverableError>>
inputVars == <<triggerVars, commands>>
stackVars == <<pc, job, jobTask, again>>
navVars == <<goal, navResult>>
hardwareVars == <<station, mechanism, motors>>
ghostVars == <<tried, cut>>
vars == <<flowVars, modeVars, taskVars, memoVars, countVars, taskDeque,
          pointDeque, inputVars, stackVars, timers, navVars, hardwareVars,
          ghostVars>>

-----------------------------------------------------------------------------
TimerKind == {"open", "close", "nav", "sleep"}
HistoryState == {"none", "waiting", "executing", "complete", "errorComplete",
                 "laserInterrupt", "enterManualCleanMode", "specialComplete",
                 "launchFailed"}
PC == {"wait", "unrecoverable", "stop", "task", "point", "auto", "manual",
       "force", "control", "asleep", "undefined"}

(* What the handlers of the dispatcher may change. *)
HandlerTypeOK ==
  /\ event_flow \in Flow
  /\ event_status \in Status
  /\ pauseInterception \in BOOLEAN
  /\ manualClean \in BOOLEAN
  /\ workTask \in Task \cup {NoTask}
  /\ waitTaskQueue \in Seq(Task)
  /\ plannerQueue \in Seq(1 .. PlanSize)
  /\ history \in [Task -> HistoryState]
  /\ retries \in [base : 0 .. MaxBaseRetry, recharge : 0 .. MaxRechargeRetry]
  /\ arrive \in [ReturnId -> BOOLEAN]
  /\ sleepTimeout \in BOOLEAN
  /\ taskDeque \in Seq(Task)
  /\ pointDeque \in Seq(Point)
  /\ timers \in [queued : SUBSET TimerKind, live : SUBSET TimerKind]
  /\ goal \in {"none", "plan", "base", "cancelled"}
  /\ station \in {"idle", "out", "in"}
  /\ mechanism \in {"up", "down"}
  /\ motors \in BOOLEAN
  /\ tried \in SUBSET (1 .. PlanSize)
  /\ cut \in BOOLEAN

MemoTypeOK ==
  /\ record \in [flow : Flow, point : Point]
  /\ lock \in [flow : Flow, point : Point, status : Status]
  /\ armed \in BOOLEAN

StackTypeOK ==
  /\ pc \in PC
  /\ job \in Point
  /\ jobTask \in Task \cup {NoTask}
  /\ again \in BOOLEAN

OutsideTypeOK ==
  /\ urgencyStopState \in BOOLEAN
  /\ triggerUrgencyStop \in BOOLEAN
  /\ unrecoverableErrorState \in BOOLEAN
  /\ triggerUnrecoverableError \in BOOLEAN
  /\ commands \in 0 .. MaxCommands
  /\ navResult \in {"none", "succeeded", "failed"}

TypeOK == HandlerTypeOK /\ MemoTypeOK /\ StackTypeOK /\ OutsideTypeOK

(* The state after the constructors: new HeadTailPointCall() zeroes the     *)
(* object first, so the unassigned members read as zero.                   *)
Init ==
  /\ event_flow = "waiting_for_task" /\ event_status = "AUTO"
  /\ pauseInterception = FALSE /\ manualClean = FALSE
  /\ workTask = NoTask /\ waitTaskQueue = <<>> /\ plannerQueue = <<>>
  /\ record = [flow |-> "waiting_for_task", point |-> NullPoint]
  /\ lock = [flow |-> "waiting_for_task", point |-> NullPoint, status |-> "AUTO"]
  /\ retries = [base |-> 0, recharge |-> 0]
  /\ arrive = [i \in ReturnId |-> FALSE] /\ armed = FALSE
  /\ taskDeque = <<>> /\ pointDeque = <<>>
  /\ urgencyStopState = FALSE /\ triggerUrgencyStop = FALSE
  /\ unrecoverableErrorState = FALSE /\ triggerUnrecoverableError = FALSE
  /\ sleepTimeout = FALSE
  /\ pc = "wait" /\ job = NullPoint /\ jobTask = NoTask /\ again = FALSE
  /\ commands = 0
  /\ timers = [queued |-> {}, live |-> {}]
  /\ goal = "none" /\ navResult = "none"
  /\ station = "idle" /\ mechanism = "up" /\ motors = TRUE
  /\ history = [t \in Task |-> "none"]
  /\ tried = {} /\ cut = FALSE

-----------------------------------------------------------------------------
(* Calls made by the handlers.  A goal that is sent replaces the one under *)
(* way, whose result is then no longer delivered.                          *)
Cancelled == IF goal \in {"plan", "base"} THEN "cancelled" ELSE goal
CancelGoal == goal' = Cancelled
BackBasePoint == goal' = "base"

(* Called off the loop thread, scheduleLater leaves the timer in functors_, *)
(* where cancelAny does not find it, until the loop comes round; without    *)
(* the event slowThreads the loop comes round at once.                         *)
ScheduleLater(k) ==
  timers' = IF "slowThreads" \in Events THEN [timers EXCEPT !.queued = @ \cup {k}]
                                     ELSE [timers EXCEPT !.live = @ \cup {k}]
CancelAny == timers' = [timers EXCEPT !.live = {}]

Push(p) == pointDeque' = Append(pointDeque, p)

Closed(outcome) ==
  IF workTask = NoTask THEN history ELSE [history EXCEPT ![workTask] = outcome]

ResetLock ==
  lock' = [flow |-> "waiting_for_task", point |-> SeizeSeat, status |-> "AUTO"]

(* Mutants: reset() without workTask_.clear(), and without the clearing of plannerQueue. *)
ResetKeepsTask(manual) ==
  /\ plannerQueue' = <<>> /\ UNCHANGED workTask
  /\ sleepTimeout' = FALSE
  /\ retries' = [base |-> 0, recharge |-> 0]
  /\ arrive' = [arrive EXCEPT !["MANUAL_BACK"] = FALSE]
  /\ pauseInterception' = FALSE
  /\ manualClean' = manual

ResetKeepsPlan(manual) ==
  /\ UNCHANGED plannerQueue /\ workTask' = NoTask
  /\ sleepTimeout' = FALSE
  /\ retries' = [base |-> 0, recharge |-> 0]
  /\ arrive' = [arrive EXCEPT !["MANUAL_BACK"] = FALSE]
  /\ pauseInterception' = FALSE
  /\ manualClean' = manual

(* reset(), with the value the caller leaves in manualClean_. *)
Reset(manual) ==
  /\ plannerQueue' = <<>> /\ workTask' = NoTask
  /\ sleepTimeout' = FALSE
  /\ retries' = [base |-> 0, recharge |-> 0]
  /\ arrive' = [arrive EXCEPT !["MANUAL_BACK"] = FALSE]
  /\ pauseInterception' = FALSE
  /\ manualClean' = manual

(* The block by which three handlers end whatever task is running. *)
StopTask(outcome, manual) ==
  /\ waitTaskQueue' = <<>>
  /\ CancelGoal /\ CancelAny
  /\ history' = Closed(outcome)
  /\ Reset(manual)

KeepTask ==
  UNCHANGED <<taskVars, retries, arrive, sleepTimeout, pauseInterception, goal,
              timers>>

-----------------------------------------------------------------------------
(* The bodies of the handlers.  Each says what becomes of handlerVars; the *)
(* dispatcher actions below add the call stack and what is remembered.     *)
handlerVars == <<flowVars, modeVars, taskVars, retries, arrive, sleepTimeout,
                 taskDeque, pointDeque, timers, goal, hardwareVars, ghostVars>>

ReturnStatus(id) == IF id = "MANUAL_BACK" THEN "MANUAL" ELSE "FORCE"
ReturnFlow(id) ==
  CASE id = "MANUAL_BACK" -> "manual_over_and_move_base_point"
    [] id = "MANUAL_CONTROL_FORCE_BACK" -> "manual_control_over_and_move_base_point"
    [] OTHER -> "force_over_and_move_base_point"

(* Mutant: the return without plannerQueue.clear(). *)
TriggerBackKeepsPlan(id) ==
  /\ event_status' = ReturnStatus(id) /\ event_flow' = ReturnFlow(id)
  /\ pauseInterception' = (id # "MANUAL_BACK" /\ pauseInterception)
  /\ CancelAny /\ BackBasePoint
  /\ waitTaskQueue' = <<>> /\ UNCHANGED plannerQueue
  /\ cut' = TRUE
  /\ UNCHANGED <<manualClean, workTask, history, retries, arrive, sleepTimeout,
                 taskDeque, pointDeque, hardwareVars, tried>>

TriggerBack(id) ==
  /\ event_status' = ReturnStatus(id) /\ event_flow' = ReturnFlow(id)
  /\ pauseInterception' = (id # "MANUAL_BACK" /\ pauseInterception)
  /\ CancelAny /\ BackBasePoint
  /\ waitTaskQueue' = <<>> /\ plannerQueue' = <<>>
  /\ cut' = TRUE
  /\ UNCHANGED <<manualClean, workTask, history, retries, arrive, sleepTimeout,
                 taskDeque, pointDeque, hardwareVars, tried>>

(* Mutant: the pause without its change of status. *)
callPauseInAuto ==
  /\ UNCHANGED event_status /\ event_flow' = "manual_task_pause"
  /\ pauseInterception' = TRUE
  /\ CancelGoal /\ CancelAny
  /\ plannerQueue' = IF plannerQueue = <<>> THEN <<>>
                     ELSE <<Head(plannerQueue)>> \o plannerQueue
  /\ UNCHANGED <<manualClean, workTask, waitTaskQueue, history, retries, arrive,
                 sleepTimeout, taskDeque, pointDeque, hardwareVars, ghostVars>>

callPause ==
  /\ event_status' = "MANUAL" /\ event_flow' = "manual_task_pause"
  /\ pauseInterception' = TRUE
  /\ CancelGoal /\ CancelAny
  /\ plannerQueue' = IF plannerQueue = <<>> THEN <<>>
                     ELSE <<Head(plannerQueue)>> \o plannerQueue
  /\ UNCHANGED <<manualClean, workTask, waitTaskQueue, history, retries, arrive,
                 sleepTimeout, taskDeque, pointDeque, hardwareVars, ghostVars>>

(* callResume up to its call of handleAutoPoint(recordPoint). *)
callResume ==
  /\ event_status' = "AUTO" /\ event_flow' = record.flow
  /\ pauseInterception' = FALSE
  /\ UNCHANGED <<manualClean, taskVars, retries, arrive, sleepTimeout, taskDeque,
                 pointDeque, timers, goal, hardwareVars, ghostVars>>

(* Mutant: manual cleaning entered without ending the task. *)
callManualCleanStartWithTask ==
  /\ KeepTask /\ manualClean' = TRUE
  /\ mechanism' = "up" /\ motors' = FALSE
  /\ event_status' = "MANUAL" /\ event_flow' = "manual_cleaning"
  /\ UNCHANGED <<taskDeque, pointDeque, station, ghostVars>>

callManualCleanStart ==
  /\ IF event_flow # "waiting_for_task" \/ workTask # NoTask
     THEN StopTask("enterManualCleanMode", TRUE)
     ELSE KeepTask /\ manualClean' = TRUE
  /\ mechanism' = "up" /\ motors' = FALSE
  /\ event_status' = "MANUAL" /\ event_flow' = "manual_cleaning"
  /\ UNCHANGED <<taskDeque, pointDeque, station, ghostVars>>

callManualCleanEnd ==
  /\ mechanism' = "up" /\ motors' = TRUE
  /\ manualClean' = FALSE
  /\ event_status' = "AUTO" /\ event_flow' = "waiting_for_task"
  /\ KeepTask
  /\ UNCHANGED <<taskDeque, pointDeque, station, ghostVars>>

(* callStopUrgentInBase but for the lock state it resets. *)
callStopUrgentInBase ==
  /\ IF event_flow # "waiting_for_task" \/ workTask # NoTask
     THEN StopTask("specialComplete", FALSE)
     ELSE KeepTask /\ UNCHANGED manualClean
  /\ mechanism' = "up"
  /\ UNCHANGED <<flowVars, taskDeque, pointDeque, station, motors, ghostVars>>

(* The call of callTaskInterrupt, made in the flow software_interrupt_task. *)
callTaskInterrupt ==
  /\ event_flow' = "software_interrupt_task" /\ event_status' = "AUTO"
  /\ waitTaskQueue' = <<>>
  /\ history' = Closed("errorComplete")
  /\ Reset(FALSE)
  /\ UNCHANGED <<taskDeque, pointDeque, timers, goal, hardwareVars, ghostVars>>

(* Mutant: goodGame without waitTaskQueue.pop_front(). *)
goodGameWithoutPop ==
  /\ history' = Closed("complete")
  /\ event_status' = "AUTO" /\ event_flow' = "waiting_for_task"
  /\ Reset(FALSE)
  /\ taskDeque' = IF waitTaskQueue = <<>> THEN taskDeque
                  ELSE Append(taskDeque, Head(waitTaskQueue))
  /\ UNCHANGED <<pointDeque, timers, goal, hardwareVars, ghostVars, waitTaskQueue>>

goodGame ==
  /\ history' = Closed("complete")
  /\ event_status' = "AUTO" /\ event_flow' = "waiting_for_task"
  /\ Reset(FALSE)
  /\ IF waitTaskQueue = <<>> THEN UNCHANGED <<taskDeque, waitTaskQueue>>
     ELSE /\ taskDeque' = Append(taskDeque, Head(waitTaskQueue))
          /\ waitTaskQueue' = Tail(waitTaskQueue)
  /\ UNCHANGED <<pointDeque, timers, goal, hardwareVars, ghostVars>>

(* Bodies that only move the flow on and ask for something. *)
Proceed(flow) ==
  /\ event_flow' = flow
  /\ UNCHANGED <<event_status, modeVars, taskVars, arrive, sleepTimeout,
                 taskDeque, pointDeque, motors, ghostVars>>
(* Mutants: the mechanism not moved, and its timer not started. *)
CloseMechanismUnmoved(flow) ==
  /\ Proceed(flow) /\ ScheduleLater("close")
  /\ UNCHANGED <<retries, goal, station, mechanism>>
CloseMechanismUnanswered(flow) ==
  /\ Proceed(flow) /\ mechanism' = "up"
  /\ UNCHANGED <<retries, goal, station, timers>>

CloseMechanism(flow) ==
  /\ Proceed(flow) /\ mechanism' = "up" /\ ScheduleLater("close")
  /\ UNCHANGED <<retries, goal, station>>
OpenMechanism(flow) ==
  /\ Proceed(flow) /\ mechanism' = "down" /\ ScheduleLater("open")
  /\ UNCHANGED <<retries, goal, station>>
AskStation(way, flow) ==
  /\ Proceed(flow) /\ station' = way
  /\ UNCHANGED <<retries, timers, goal, mechanism>>
GoBase(flow, r) ==
  /\ Proceed(flow) /\ retries' = r /\ BackBasePoint
  /\ UNCHANGED <<timers, station, mechanism>>

MoreBase == [retries EXCEPT !.base = @ + 1]
MoreRecharge == [base |-> 0, recharge |-> retries.recharge + 1]

-----------------------------------------------------------------------------
(* execute: one wait of the dispatcher takes one event; pc = "wait".  The   *)
(* newest of the pending tasks or points is taken and the others dropped.  *)
takeFrame == <<handlerVars, memoVars, armed, again, navResult>>

TakeUnrecoverable ==
  /\ pc = "wait" /\ triggerUnrecoverableError
  /\ triggerUnrecoverableError' = FALSE
  /\ pc' = "unrecoverable"
  /\ UNCHANGED <<takeFrame, job, jobTask, urgencyStopState, triggerUrgencyStop,
                 unrecoverableErrorState, commands>>

TakeStop ==
  /\ pc = "wait" /\ ~triggerUnrecoverableError /\ triggerUrgencyStop
  /\ triggerUrgencyStop' = FALSE
  /\ pc' = "stop"
  /\ UNCHANGED <<takeFrame, job, jobTask, urgencyStopState,
                 unrecoverableErrorState, triggerUnrecoverableError, commands>>

NoTrigger == ~triggerUnrecoverableError /\ ~triggerUrgencyStop

TakeTask ==
  /\ pc = "wait" /\ NoTrigger /\ taskDeque # <<>>
  /\ jobTask' = Last(taskDeque) /\ taskDeque' = <<>>
  /\ pc' = "task"
  /\ UNCHANGED <<flowVars, modeVars, taskVars, retries, arrive, sleepTimeout,
                 pointDeque, timers, goal, hardwareVars, ghostVars, memoVars,
                 armed, again, navResult, inputVars, job>>

TakePoint ==
  /\ pc = "wait" /\ NoTrigger /\ taskDeque = <<>> /\ pointDeque # <<>>
  /\ job' = Last(pointDeque) /\ pointDeque' = <<>>
  /\ pc' = "point"
  /\ UNCHANGED <<flowVars, modeVars, taskVars, retries, arrive, sleepTimeout,
                 taskDeque, timers, goal, hardwareVars, ghostVars, memoVars,
                 armed, again, navResult, inputVars, jobTask>>

(* What follows a handler: back to wait, unless callResume is still to     *)
(* return into processControl(specialResumePoint).                         *)
Return ==
  /\ IF again THEN pc' = "control" /\ job' = Special("MANUAL_RESUME")
              ELSE pc' = "wait" /\ job' = NullPoint
  /\ again' = FALSE /\ jobTask' = NoTask
Continue(next) == pc' = next /\ UNCHANGED <<job, jobTask, again>>

outside == <<inputVars, navResult>>

(* The branch EXECUTE_HANDLE_UNRECOVERABLE_ERROR of execute. *)
HandleUnrecoverable ==
  /\ pc = "unrecoverable"
  /\ event_flow' = "hardware_interrupt_task" /\ UNCHANGED event_status
  /\ IF workTask # NoTask THEN StopTask("laserInterrupt", FALSE)
                          ELSE KeepTask /\ UNCHANGED manualClean
  /\ mechanism' = "up"
  /\ ResetLock
  /\ Return
  /\ UNCHANGED <<taskDeque, pointDeque, station, motors, ghostVars, record,
                 armed, outside>>

(* handleStop reads the state of the switch when it runs. *)
IgnoreStop ==
  /\ pc = "stop" /\ unrecoverableErrorState
  /\ Return
  /\ UNCHANGED <<handlerVars, memoVars, armed, outside>>

StopPressed ==
  /\ pc = "stop" /\ ~unrecoverableErrorState /\ urgencyStopState
  /\ event_flow' = "force_task_pause"
  /\ CancelGoal /\ CancelAny
  /\ Return
  /\ UNCHANGED <<event_status, modeVars, taskVars, retries, arrive, sleepTimeout,
                 taskDeque, pointDeque, hardwareVars, ghostVars, memoVars, armed,
                 outside>>

Released == pc = "stop" /\ ~unrecoverableErrorState /\ ~urgencyStopState

ReleasedWithoutTask ==
  /\ Released /\ workTask = NoTask
  /\ event_flow' = "waiting_for_task" /\ event_status' = "AUTO"
  /\ ResetLock
  /\ mechanism' = "up"
  /\ Return
  /\ UNCHANGED <<modeVars, taskVars, retries, arrive, sleepTimeout, taskDeque,
                 pointDeque, timers, goal, station, motors, ghostVars, record,
                 armed, outside>>

ReleasedWhilePaused ==
  /\ Released /\ workTask # NoTask /\ pauseInterception
  /\ event_flow' = "manual_task_pause"
  /\ mechanism' = "down"
  /\ Return
  /\ UNCHANGED <<event_status, modeVars, taskVars, retries, arrive, sleepTimeout,
                 taskDeque, pointDeque, timers, goal, station, motors, ghostVars,
                 memoVars, armed, outside>>

MayNotPause == manualClean \/ plannerQueue = <<>> \/ lock.flow \in ReplayedFlow

ReleasedReplaying ==
  /\ Released /\ workTask # NoTask /\ ~pauseInterception /\ MayNotPause
  /\ event_flow' = lock.flow /\ event_status' = lock.status
  /\ Push(lock.point)
  /\ Return
  /\ UNCHANGED <<modeVars, taskVars, retries, arrive, sleepTimeout, taskDeque,
                 timers, goal, hardwareVars, ghostVars, memoVars, armed, outside>>

ReleasedIntoPause ==
  /\ Released /\ workTask # NoTask /\ ~pauseInterception /\ ~MayNotPause
  /\ event_flow' = "manual_task_pause" /\ event_status' = "MANUAL"
  /\ pauseInterception' = TRUE
  /\ CancelGoal /\ CancelAny
  /\ plannerQueue' = <<Head(plannerQueue)>> \o plannerQueue
  /\ mechanism' = "down"
  /\ Return
  /\ UNCHANGED <<manualClean, workTask, waitTaskQueue, history, retries, arrive,
                 sleepTimeout, taskDeque, pointDeque, station, motors, ghostVars,
                 memoVars, armed, outside>>

(* Mutants: either half of the condition forgotten. *)
RefusingErrorOnly == unrecoverableErrorState
RefusingStopOnly == urgencyStopState

Refusing == urgencyStopState \/ unrecoverableErrorState

(* The task taken is dropped; its row in the history is not updated. *)
DropTask ==
  /\ pc = "task" /\ Refusing
  /\ Return
  /\ UNCHANGED <<handlerVars, memoVars, armed, outside>>

(* Mutant: the test for waiting_for_task forgotten. *)
StartTaskWhileRunning ==
  /\ pc = "task" /\ ~Refusing
  /\ workTask' = jobTask
  /\ history' = [history EXCEPT ![jobTask] = "executing"]
  /\ arrive' = [i \in ReturnId |-> FALSE] /\ armed' = TRUE
  /\ plannerQueue' = PlanPoints
  /\ sleepTimeout' = FALSE
  /\ retries' = [base |-> 0, recharge |-> 0]
  /\ tried' = {} /\ cut' = FALSE
  /\ pc' = "auto" /\ job' = SeizeSeat /\ jobTask' = NoTask
  /\ UNCHANGED <<flowVars, modeVars, waitTaskQueue, taskDeque, pointDeque, timers,
                 goal, hardwareVars, memoVars, again, outside>>

(* handleTask, in the flow waiting_for_task. *)
StartTask ==
  /\ pc = "task" /\ ~Refusing /\ event_flow = "waiting_for_task"
  /\ workTask' = jobTask
  /\ history' = [history EXCEPT ![jobTask] = "executing"]
  /\ arrive' = [i \in ReturnId |-> FALSE] /\ armed' = TRUE
  /\ plannerQueue' = PlanPoints
  /\ sleepTimeout' = FALSE
  /\ retries' = [base |-> 0, recharge |-> 0]
  /\ tried' = {} /\ cut' = FALSE
  /\ pc' = "auto" /\ job' = SeizeSeat /\ jobTask' = NoTask
  /\ UNCHANGED <<flowVars, modeVars, waitTaskQueue, taskDeque, pointDeque, timers,
                 goal, hardwareVars, memoVars, again, outside>>

QueueTask ==
  /\ pc = "task" /\ ~Refusing /\ event_flow # "waiting_for_task"
  /\ waitTaskQueue' = Append(waitTaskQueue, jobTask)
  /\ Return
  /\ UNCHANGED <<flowVars, modeVars, workTask, plannerQueue, history, retries,
                 arrive, sleepTimeout, taskDeque, pointDeque, timers, goal,
                 hardwareVars, ghostVars, memoVars, armed, outside>>

-----------------------------------------------------------------------------
(* The branch EXECUTE_HANDLE_POINT of execute. *)
StopUrgentWhileStopped ==
  /\ pc = "point" /\ urgencyStopState /\ job.id = "STOP_URGENT_IN_BASE"
  /\ callStopUrgentInBase /\ ResetLock
  /\ Return
  /\ UNCHANGED <<record, armed, outside>>

DropPoint ==
  /\ pc = "point" /\ Refusing
  /\ ~(urgencyStopState /\ job.id = "STOP_URGENT_IN_BASE")
  /\ Return
  /\ UNCHANGED <<handlerVars, memoVars, armed, outside>>

ModeHandler == [AUTO |-> "auto", MANUAL |-> "manual", FORCE |-> "force"]

HandlePoint ==
  /\ pc = "point" /\ ~Refusing
  /\ lock' = [flow |-> event_flow, point |-> job, status |-> event_status]
  /\ Continue(ModeHandler[event_status])
  /\ UNCHANGED <<handlerVars, record, armed, outside>>

(* handleAutoPoint: handleSpecialPoint, handleFlowPoint or                 *)
(* handlePlannerPoint, and then processControl.                            *)
AutoReturn ==
  /\ pc = "auto" /\ job.id \in ReturnId
  /\ TriggerBack(job.id)
  /\ Continue("control") /\ UNCHANGED <<memoVars, armed, outside>>

AutoPause ==
  /\ pc = "auto" /\ job.id = "MANUAL_PAUSE"
  /\ callPause
  /\ Continue("control") /\ UNCHANGED <<memoVars, armed, outside>>

AutoResume ==
  /\ pc = "auto" /\ job.id = "MANUAL_RESUME"
  /\ callResume
  /\ pc' = "auto" /\ job' = record.point /\ again' = TRUE
  /\ UNCHANGED <<jobTask, memoVars, armed, outside>>

AutoManualClean ==
  /\ pc = "auto"
  /\ \/ job.id = "MANUAL_CLEAN_START" /\ callManualCleanStart
     \/ job.id = "MANUAL_CLEAN_END" /\ callManualCleanEnd
  /\ Continue("control") /\ UNCHANGED <<memoVars, armed, outside>>

AutoStopUrgent ==
  /\ pc = "auto" /\ job.id = "STOP_URGENT_IN_BASE"
  /\ callStopUrgentInBase /\ ResetLock
  /\ Continue("control") /\ UNCHANGED <<record, armed, outside>>

(* handleFlowPoint: the flow after step i of the itinerary went well or not. *)
FlowAfter(i, ok) ==
  CASE i = "SEIZE_SEAT" -> "out_base_station"
    [] i = "OUT_STATION" /\ ok -> "switch_node_work_mode"
    [] i = "END_SLEEP" /\ ok -> "preliminary_preparation_completed"
    [] i = "OPEN_MECHANISM" -> IF ok THEN "cleaning_mechanism_ready"
                                     ELSE "hardware_interrupt_task"
    [] i = "CLOSE_MECHANISM" -> IF ok THEN "flowing_water_execution_completed"
                                      ELSE "hardware_interrupt_task"
    [] i = "IN_BASE_POINT" /\ ok -> IF retries.recharge = 0
                                    THEN "arrive_base_point_success"
                                    ELSE "flowing_water_execution_completed"
    [] i = "IN_BASE_POINT" /\ ~ok /\ retries.base < MaxBaseRetry ->
         "try_move_base_point_again"
    [] i = "IN_STATION" /\ ok -> "arrive_base_station_success"
    [] i = "IN_STATION" /\ ~ok /\ retries.recharge < MaxRechargeRetry ->
         "try_recharging_again"
    [] OTHER -> "software_interrupt_task"

(* Mutant: retries that are counted without a limit. *)
RetriesAfterUnlimited(i, ok) ==
  CASE i = "IN_BASE_POINT" /\ ~ok -> MoreBase
    [] i = "IN_STATION" /\ ~ok -> [retries EXCEPT !.recharge = @ + 1]
    [] OTHER -> retries

RetriesAfter(i, ok) ==
  CASE i = "IN_BASE_POINT" /\ ~ok /\ retries.base < MaxBaseRetry -> MoreBase
    [] i = "IN_STATION" /\ ~ok /\ retries.recharge < MaxRechargeRetry ->
         [retries EXCEPT !.recharge = @ + 1]
    [] OTHER -> retries

Remember == record' = [flow |-> event_flow, point |-> job] /\ UNCHANGED lock

AutoFlow ==
  /\ pc = "auto" /\ job.id \in FlowId
  /\ Remember
  /\ event_flow' = FlowAfter(job.id, job.arrive)
  /\ retries' = RetriesAfter(job.id, job.arrive)
  /\ Continue("control")
  /\ UNCHANGED <<event_status, modeVars, taskVars, arrive, sleepTimeout, taskDeque,
                 pointDeque, timers, goal, hardwareVars, ghostVars, armed, outside>>

AutoPlan ==
  /\ pc = "auto" /\ job.id = "PLAN"
  /\ Remember
  /\ Continue("control")
  /\ UNCHANGED <<handlerVars, armed, outside>>

-----------------------------------------------------------------------------
(* processControl: one action per flow in which it does something. *)
controlFrame == <<memoVars, armed, outside>>
Control(flow) == pc = "control" /\ event_flow = flow

ControlAskStation ==
  /\ \/ Control("out_base_station") /\ AskStation("out", event_flow)
     \/ Control("flowing_water_execution_completed") /\ AskStation("in", event_flow)
  /\ Return /\ UNCHANGED controlFrame

(* callSwitchWorkMode: the nodes are at work already, or the handler waits *)
(* in the destructor of its thread pool until they are or the timer fires. *)
ControlAlreadyWorking ==
  /\ Control("switch_node_work_mode")
  /\ pc' = "auto" /\ job' = FlowPoint("END_SLEEP", TRUE)
  /\ UNCHANGED <<jobTask, again, handlerVars, controlFrame>>

ControlWakeUp ==
  /\ Control("switch_node_work_mode")
  /\ Proceed(event_flow) /\ ScheduleLater("sleep")
  /\ Continue("asleep")
  /\ UNCHANGED <<retries, goal, station, mechanism, controlFrame>>

ControlMechanism ==
  /\ \/ Control("preliminary_preparation_completed") /\ OpenMechanism(event_flow)
     \/ Control("arrive_base_point_success") /\ CloseMechanism(event_flow)
  /\ Return /\ UNCHANGED controlFrame

(* Drive to the point at the front of queue, which becomes plannerQueue. *)
GoTo(queue, flow) ==
  /\ event_flow' = flow
  /\ plannerQueue' = queue
  /\ goal' = "plan"
  /\ ScheduleLater("nav")
  /\ UNCHANGED <<event_status, modeVars, workTask, waitTaskQueue, history, retries,
                 arrive, sleepTimeout, taskDeque, pointDeque, hardwareVars,
                 ghostVars>>

ControlFirstPoint ==
  /\ Control("cleaning_mechanism_ready") /\ plannerQueue # <<>>
  /\ GoTo(plannerQueue, "ensure_move_to_start_point")
  /\ Return /\ UNCHANGED controlFrame

ControlEnsured ==
  /\ Control("ensure_move_to_start_point")
  /\ event_flow' = "flowing_water_production"
  /\ Continue("auto")
  /\ UNCHANGED <<event_status, modeVars, taskVars, retries, arrive, sleepTimeout,
                 taskDeque, pointDeque, timers, goal, hardwareVars, ghostVars,
                 controlFrame>>

ControlNextPoint ==
  /\ Control("flowing_water_production") /\ Len(plannerQueue) > 1
  /\ GoTo(Tail(plannerQueue), event_flow)
  /\ Return /\ UNCHANGED controlFrame

(* Mutant: the last point taken for reached when two are left. *)
ControlLastPointEarly ==
  /\ Control("flowing_water_production") /\ Len(plannerQueue) \in {1, 2}
  /\ plannerQueue' = <<>>
  /\ BackBasePoint
  /\ Return
  /\ UNCHANGED <<flowVars, modeVars, workTask, waitTaskQueue, history, retries,
                 arrive, sleepTimeout, taskDeque, pointDeque, timers, hardwareVars,
                 ghostVars, controlFrame>>

ControlLastPoint ==
  /\ Control("flowing_water_production") /\ Len(plannerQueue) = 1
  /\ plannerQueue' = <<>>
  /\ BackBasePoint
  /\ Return
  /\ UNCHANGED <<flowVars, modeVars, workTask, waitTaskQueue, history, retries,
                 arrive, sleepTimeout, taskDeque, pointDeque, timers, hardwareVars,
                 ghostVars, controlFrame>>

(* front() and pop_front() of an empty deque: the behaviour is undefined. *)
ControlUndefined ==
  /\ pc = "control" /\ plannerQueue = <<>>
  /\ event_flow \in {"cleaning_mechanism_ready", "flowing_water_production"}
  /\ Continue("undefined")
  /\ UNCHANGED <<handlerVars, controlFrame>>

ControlGoBase ==
  /\ \/ /\ Control("try_recharging_again")
        /\ GoBase(event_flow, [retries EXCEPT !.base = 0])
     \/ /\ Control("try_move_base_point_again") \/ Control("hardware_interrupt_task")
        /\ GoBase(event_flow, retries)
  /\ Return /\ UNCHANGED controlFrame

ControlEnd ==
  /\ \/ Control("arrive_base_station_success") /\ goodGame
     \/ Control("software_interrupt_task") /\ callTaskInterrupt
  /\ Return /\ UNCHANGED controlFrame

ControlNothing ==
  /\ pc = "control"
  /\ event_flow \notin
       {"out_base_station", "switch_node_work_mode",
        "preliminary_preparation_completed", "cleaning_mechanism_ready",
        "ensure_move_to_start_point", "flowing_water_production",
        "arrive_base_point_success", "flowing_water_execution_completed",
        "arrive_base_station_success", "try_recharging_again",
        "try_move_base_point_again", "hardware_interrupt_task",
        "software_interrupt_task"}
  /\ Return /\ UNCHANGED <<handlerVars, controlFrame>>

processControl ==
  \/ ControlAskStation \/ ControlAlreadyWorking \/ ControlWakeUp
  \/ ControlMechanism \/ ControlFirstPoint \/ ControlEnsured
  \/ ControlNextPoint \/ ControlLastPoint \/ ControlUndefined
  \/ ControlGoBase \/ ControlEnd \/ ControlNothing

-----------------------------------------------------------------------------
(* The answers awaited on the way home, in the two modes of an early return *)
(* (peculiarDisposeBasePoint, ..Mechanism, ..Station).                      *)
DisposeBasePoint(needFlow, withMechanism) ==
  CASE job.arrive /\ withMechanism -> CloseMechanism(needFlow)
    [] job.arrive /\ ~withMechanism -> AskStation("in", needFlow)
    [] ~job.arrive /\ retries.base < MaxBaseRetry -> GoBase(event_flow, MoreBase)
    [] OTHER -> callTaskInterrupt

DisposeMechanism(needFlow) == AskStation("in", needFlow)

DisposeStation(retryFlow) ==
  CASE job.arrive -> goodGame
    [] ~job.arrive /\ retries.recharge < MaxRechargeRetry ->
         GoBase(retryFlow, MoreRecharge)
    [] OTHER -> callTaskInterrupt

Ignore == UNCHANGED handlerVars

(* handleManualPoint *)
ManualCommand ==
  /\ pc = "manual"
  /\ \/ job.id = "MANUAL_BACK" /\ TriggerBack(job.id)
     \/ job.id = "MANUAL_PAUSE" /\ callPause
     \/ job.id = "MANUAL_CLEAN_START" /\ callManualCleanStart
     \/ job.id = "MANUAL_CLEAN_END" /\ callManualCleanEnd
  /\ Return /\ UNCHANGED <<memoVars, armed, outside>>

ManualResumeTask ==
  /\ pc = "manual" /\ job.id = "MANUAL_RESUME"
  /\ callResume
  /\ pc' = "auto" /\ job' = record.point
  /\ UNCHANGED <<jobTask, again, memoVars, armed, outside>>

ManualStopUrgent ==
  /\ pc = "manual" /\ job.id = "STOP_URGENT_IN_BASE"
  /\ callStopUrgentInBase /\ ResetLock
  /\ Return /\ UNCHANGED <<record, armed, outside>>

ManualFlow ==
  /\ pc = "manual"
  /\ \/ /\ job.id = "IN_BASE_POINT"
        /\ DisposeBasePoint("manual_base_point_and_close_mechanism", TRUE)
     \/ /\ job.id = "CLOSE_MECHANISM"
        /\ DisposeMechanism("manual_mechanism_close_and_charging")
     \/ /\ job.id = "IN_STATION"
        /\ DisposeStation("manual_back_try_move_base_point")
  /\ Return /\ UNCHANGED <<memoVars, armed, outside>>

ManualIgnore ==
  /\ pc = "manual"
  /\ job.id \notin {"MANUAL_BACK", "MANUAL_PAUSE", "MANUAL_CLEAN_START",
                    "MANUAL_CLEAN_END", "MANUAL_RESUME", "STOP_URGENT_IN_BASE",
                    "IN_BASE_POINT", "CLOSE_MECHANISM", "IN_STATION"}
  /\ Ignore
  /\ Return /\ UNCHANGED <<memoVars, armed, outside>>

(* handleForcePoint *)
ForceReturn ==
  /\ pc = "force" /\ job.id \in ReturnId \ {"MANUAL_BACK"}
  /\ TriggerBack(job.id)
  /\ Return /\ UNCHANGED <<memoVars, armed, outside>>

ForceStopUrgent ==
  /\ pc = "force" /\ job.id = "STOP_URGENT_IN_BASE"
  /\ callStopUrgentInBase /\ ResetLock
  /\ Return /\ UNCHANGED <<record, armed, outside>>

ForceBasePoint ==
  CASE event_flow \in {"force_over_and_move_base_point",
                       "force_back_try_move_base_point"} ->
         DisposeBasePoint("force_base_point_and_close_mechanism", TRUE)
    [] event_flow \in {"manual_control_over_and_move_base_point",
                       "manual_control_back_try_move_base_point"} ->
         DisposeBasePoint("manual_control_base_point_and_charging", FALSE)
    [] OTHER -> Ignore

ForceStation ==
  CASE event_flow = "force_mechanism_close_and_charging" ->
         DisposeStation("force_back_try_move_base_point")
    [] event_flow = "manual_control_base_point_and_charging" ->
         DisposeStation("manual_control_back_try_move_base_point")
    [] OTHER -> Ignore

ForceFlow ==
  /\ pc = "force"
  /\ \/ job.id = "IN_BASE_POINT" /\ ForceBasePoint
     \/ /\ job.id = "CLOSE_MECHANISM"
        /\ DisposeMechanism("force_mechanism_close_and_charging")
     \/ job.id = "IN_STATION" /\ ForceStation
  /\ Return /\ UNCHANGED <<memoVars, armed, outside>>

ForceIgnore ==
  /\ pc = "force"
  /\ job.id \notin (ReturnId \ {"MANUAL_BACK"}) \cup
       {"STOP_URGENT_IN_BASE", "IN_BASE_POINT", "CLOSE_MECHANISM", "IN_STATION"}
  /\ Ignore
  /\ Return /\ UNCHANGED <<memoVars, armed, outside>>

-----------------------------------------------------------------------------
(* The other threads.  None of them moves once the program has crashed.     *)
Alive == pc # "undefined"
Room == Len(pointDeque) < MaxPoints

(* What another thread leaves alone, whatever it does. *)
dispatcherVars == <<flowVars, modeVars, taskVars, memoVars, retries, job, jobTask,
                    again, cut, mechanism, motors>>

(* EventLoop: functors_ are run, which puts their timers into timers_.      *)
LoopSchedule ==
  /\ Alive /\ timers.queued # {}
  /\ timers' = [queued |-> {}, live |-> timers.live \cup timers.queued]
  /\ UNCHANGED <<dispatcherVars, tried, arrive, armed, sleepTimeout, taskDeque, pointDeque,
                 inputVars, pc, navVars, station>>

Fires(k) ==
  /\ Alive /\ k \in timers.live
  /\ timers' = [timers EXCEPT !.live = @ \ {k}]

MechanismTimer ==
  /\ \/ Fires("open") /\ Push(FlowPoint("OPEN_MECHANISM", TRUE))
     \/ Fires("close") /\ Push(FlowPoint("CLOSE_MECHANISM", TRUE))
  /\ UNCHANGED <<dispatcherVars, tried, arrive, armed, sleepTimeout, taskDeque, inputVars,
                 pc, navVars, station>>

SleepTimer ==
  /\ Fires("sleep")
  /\ sleepTimeout' = TRUE
  /\ UNCHANGED <<dispatcherVars, tried, arrive, armed, taskDeque, pointDeque, inputVars,
                 pc, navVars, station>>

(* Mutant: the base point not told from a plan point. *)
AnswerAlwaysPlan(ok) ==
  Push(IF plannerQueue = <<>> THEN NullPoint ELSE PlanPoint(Head(plannerQueue), ok))

(* executeOnNext: a plan point, or the base point once the plan is empty.   *)
Answer(ok) ==
  CASE plannerQueue # <<>> -> Push(PlanPoint(Head(plannerQueue), ok))
    [] plannerQueue = <<>> /\ event_flow # "manual_cleaning" ->
         Push(FlowPoint("IN_BASE_POINT", ok))
    [] OTHER -> UNCHANGED pointDeque

(* The robot was under way to the point at the front of the plan. *)
Tried == tried \cup (IF plannerQueue = <<>> THEN {} ELSE {Head(plannerQueue)})

(* The id the timer compares was captured by reference and is gone, so the *)
(* comparison may go either way; with an empty plan front() is undefined.  *)
NavTimer ==
  /\ "navTimeout" \in Events /\ Fires("nav") /\ Room
  /\ \/ UNCHANGED <<pointDeque, pc, tried>>
     \/ Answer(FALSE) /\ tried' = Tried /\ UNCHANGED pc
     \/ plannerQueue = <<>> /\ pc' = "undefined" /\ UNCHANGED <<pointDeque, tried>>
  /\ UNCHANGED <<dispatcherVars, arrive, armed, sleepTimeout, taskDeque, inputVars,
                 navVars, station>>

(* The navigation server ends a goal; the actionlib thread then calls back, *)
(* without the event slowThreads at once.                                   *)
TriedNow == IF goal = "plan" THEN Tried ELSE tried

NavDone ==
  /\ "slowThreads" \in Events
  /\ Alive /\ goal # "none" /\ navResult = "none"
  /\ navResult' \in {"succeeded", "failed"}
  /\ goal' = "none" /\ tried' = TriedNow
  /\ UNCHANGED <<dispatcherVars, arrive, armed, sleepTimeout, taskDeque, pointDeque,
                 inputVars, pc, timers, station>>

NavCallback ==
  /\ Alive /\ navResult # "none" /\ Room
  /\ CancelAny /\ Answer(navResult = "succeeded")
  /\ navResult' = "none"
  /\ UNCHANGED <<dispatcherVars, tried, arrive, armed, sleepTimeout, taskDeque,
                 inputVars, pc, goal, station>>

NavAnswer ==
  /\ "slowThreads" \notin Events
  /\ Alive /\ goal # "none" /\ Room
  /\ CancelAny /\ \E ok \in BOOLEAN : Answer(ok)
  /\ goal' = "none" /\ tried' = TriedNow
  /\ UNCHANGED <<dispatcherVars, arrive, armed, sleepTimeout, taskDeque, inputVars,
                 pc, navResult, station>>

(* executeOutStation and executeInStation *)
StationResult ==
  /\ Alive /\ station # "idle" /\ Room
  /\ station' = "idle"
  /\ \E ok \in BOOLEAN :
       Push(FlowPoint(IF station = "out" THEN "OUT_STATION" ELSE "IN_STATION", ok))
  /\ UNCHANGED <<dispatcherVars, tried, arrive, armed, sleepTimeout, taskDeque, inputVars,
                 pc, timers, navVars>>

(* The thread of callSwitchWorkMode, whose end releases the dispatcher.    *)
AwakeFrame == <<flowVars, modeVars, taskVars, memoVars, countVars, ghostVars,
                taskDeque, inputVars, navVars, hardwareVars>>

NodesAwake ==
  /\ pc = "asleep" /\ ~sleepTimeout
  /\ CancelAny
  /\ Push(FlowPoint("END_SLEEP", TRUE))
  /\ Return /\ UNCHANGED AwakeFrame

SleepGivenUp ==
  /\ pc = "asleep" /\ sleepTimeout
  /\ \E ok \in BOOLEAN : Push(FlowPoint("END_SLEEP", ok))
  /\ Return /\ UNCHANGED <<AwakeFrame, timers>>

-----------------------------------------------------------------------------
(* TaskCenter::executeTask: a row of the history is added, and the task is *)
(* handed over or refused.                                                  *)
MayLaunch == ~urgencyStopState /\ event_flow = "waiting_for_task"

LaunchTask(t) ==
  /\ Alive /\ history[t] = "none" /\ MayLaunch
  /\ history' = [history EXCEPT ![t] = "waiting"]
  /\ taskDeque' = Append(taskDeque, t)
  /\ UNCHANGED <<flowVars, modeVars, workTask, waitTaskQueue, plannerQueue, memoVars,
                 countVars, ghostVars, stackVars, pointDeque, inputVars, timers,
                 navVars, hardwareVars>>

(* Other reasons to refuse it are a low battery and mapping. *)
LaunchRefused(t) ==
  /\ Alive /\ history[t] = "none"
  /\ ~MayLaunch \/ "lowBattery" \in Events
  /\ history' = [history EXCEPT ![t] = "launchFailed"]
  /\ UNCHANGED <<flowVars, modeVars, workTask, waitTaskQueue, plannerQueue, memoVars,
                 countVars, ghostVars, stackVars, taskDeque, pointDeque, inputVars,
                 timers, navVars, hardwareVars>>

(* A command of the operator or of the machine, queued as a point. *)
commandFrame == <<dispatcherVars, tried, armed, sleepTimeout, taskDeque, triggerVars, pc,
                  timers, navVars, station>>
Asked(c) ==
  /\ c \in Events /\ Alive
  /\ commands < MaxCommands /\ commands' = commands + 1
Command(c) == Asked(c) /\ Room

Ask(id) ==
  /\ arrive' = [arrive EXCEPT ![id] = TRUE]
  /\ Push(FlowPoint(id, TRUE))
  /\ UNCHANGED commandFrame

(* manualBackToBase(false).  It is refused on the charger as well, and when *)
(* there is no task, near the base point: a refusal changes nothing.        *)
ManualBack ==
  /\ Command("back") /\ ~urgencyStopState
  /\ ~arrive["MANUAL_BACK"] /\ ~arrive["FORCE_LOW_BATTERY"]
  /\ ~arrive["MANUAL_CONTROL_FORCE_BACK"]
  /\ event_status # "FORCE"
  /\ Ask(IF event_flow = "waiting_for_task" THEN "MANUAL_CONTROL_FORCE_BACK"
                                            ELSE "MANUAL_BACK")

ManualForceBack == Command("forceBack") /\ Ask("MANUAL_CONTROL_FORCE_BACK")

Order(id) == Push(Special(id)) /\ UNCHANGED <<commandFrame, arrive>>

ManualResume ==
  /\ Command("resume") /\ ~urgencyStopState
  /\ event_status # "FORCE" /\ ~manualClean
  /\ pauseInterception
  /\ Order("MANUAL_RESUME")

ManualPause ==
  /\ Command("pause") /\ ~urgencyStopState
  /\ event_status # "FORCE" /\ ~manualClean
  /\ ~pauseInterception
  /\ plannerQueue # <<>> /\ event_flow \notin BeforePreparation
  /\ Order("MANUAL_PAUSE")

EnterManual ==
  /\ Command("enterManual") /\ ~urgencyStopState
  /\ event_status # "FORCE" /\ ~manualClean
  /\ Order("MANUAL_CLEAN_START")

QuitManual ==
  /\ Command("quitManual") /\ ~urgencyStopState
  /\ event_flow = "manual_cleaning" /\ manualClean
  /\ Order("MANUAL_CLEAN_END")

(* urgencyStopAndCharge: pushed onto the charger while stopped. *)
StopAndCharge ==
  /\ Command("stopAndCharge") /\ urgencyStopState /\ workTask # NoTask
  /\ Order("STOP_URGENT_IN_BASE")

(* forceBackToBase(0) and forceBackToBase(force_type > 0) *)
ForceBackToBase ==
  /\ ~urgencyStopState /\ event_flow \notin NoForcedReturn
  /\ ~arrive["EQUIPMENT_ERROR_BACK"] /\ ~arrive["FORCE_LOW_BATTERY"] /\ armed
  /\ \/ Command("lowBattery") /\ Ask("FORCE_LOW_BATTERY")
     \/ Command("equipmentError") /\ Ask("EQUIPMENT_ERROR_BACK")

(* executeUrgencyStop *)
UrgencyStop ==
  /\ Asked("urgencyStop")
  /\ urgencyStopState' = ~urgencyStopState /\ triggerUrgencyStop' = TRUE
  /\ UNCHANGED <<dispatcherVars, tried, arrive, armed, sleepTimeout, taskDeque, pointDeque,
                 unrecoverableErrorState, triggerUnrecoverableError, pc, timers,
                 navVars, station>>

(* executeUnrecoverableError: the laser failed for good. *)
UnrecoverableError ==
  /\ Asked("laser") /\ ~unrecoverableErrorState
  /\ unrecoverableErrorState' = TRUE /\ triggerUnrecoverableError' = TRUE
  /\ UNCHANGED <<dispatcherVars, tried, arrive, armed, sleepTimeout, taskDeque, pointDeque,
                 urgencyStopState, triggerUrgencyStop, pc, timers, navVars, station>>

-----------------------------------------------------------------------------
Take == TakeUnrecoverable \/ TakeStop \/ TakeTask \/ TakePoint
handleStop ==
  \/ IgnoreStop \/ StopPressed \/ ReleasedWithoutTask \/ ReleasedWhilePaused
  \/ ReleasedReplaying \/ ReleasedIntoPause
handleTask == DropTask \/ StartTask \/ QueueTask
handlePoint == StopUrgentWhileStopped \/ DropPoint \/ HandlePoint
handleAutoPoint ==
  \/ AutoReturn \/ AutoPause \/ AutoResume \/ AutoManualClean \/ AutoStopUrgent
  \/ AutoFlow \/ AutoPlan
handleManualPoint ==
  ManualCommand \/ ManualResumeTask \/ ManualStopUrgent \/ ManualFlow \/ ManualIgnore
handleForcePoint == ForceReturn \/ ForceStopUrgent \/ ForceFlow \/ ForceIgnore

Dispatcher ==
  \/ Take \/ HandleUnrecoverable \/ handleStop \/ handleTask \/ handlePoint
  \/ handleAutoPoint \/ handleManualPoint \/ handleForcePoint \/ processControl
  \/ SleepGivenUp

EventLoop == LoopSchedule \/ MechanismTimer \/ SleepTimer \/ NavTimer
Navigation == NavDone \/ NavCallback \/ NavAnswer
Operator ==
  \/ ManualBack \/ ManualForceBack \/ ManualResume \/ ManualPause \/ EnterManual
  \/ QuitManual \/ StopAndCharge \/ ForceBackToBase \/ UrgencyStop
  \/ UnrecoverableError
Launch == \E t \in Task : LaunchTask(t) \/ LaunchRefused(t)

Next ==
  Dispatcher \/ NodesAwake \/ EventLoop \/ Navigation \/ StationResult \/ Operator
  \/ Launch

Spec == Init /\ [][Next]_vars

(* The threads keep running, every timer is served, and the navigation     *)
(* server and the station answer every request.  Nothing makes the nodes   *)
(* wake up, an operator act, or a task be launched.                        *)
Fairness ==
  /\ WF_vars(Dispatcher)
  /\ WF_vars(LoopSchedule) /\ WF_vars(MechanismTimer)
  /\ WF_vars(SleepTimer) /\ WF_vars(NavTimer)
  /\ WF_vars(NavDone) /\ WF_vars(NavCallback) /\ WF_vars(NavAnswer)
  /\ WF_vars(StationResult)

FairSpec == Spec /\ Fairness

-----------------------------------------------------------------------------
(* Safety. *)

(* The row of a task says "executing" exactly while the executor works on  *)
(* it: handleTask, reset and the six ways to close a row keep the two      *)
(* records of one fact together.                                           *)
ExecutingIsWorkTask ==
  \A t \in Task : history[t] = "executing" <=> workTask = t

(* Rows of the history only move on, as TaskHistory has it: a task is       *)
(* started at most once, from waiting, and no later handler overwrites how  *)
(* it ended.                                                                *)
Promised ==
  INSTANCE TaskHistory WITH stage <- history,
                            Outcome <- HistoryState \ {"none", "waiting", "executing"}
KeepsHistory == Promised!Spec

Places(t) ==
  {<<"taskDeque", i>> : i \in {j \in DOMAIN taskDeque : taskDeque[j] = t}} \cup
  {<<"waitTaskQueue", i>> : i \in {j \in DOMAIN waitTaskQueue : waitTaskQueue[j] = t}}
  \cup (IF jobTask = t THEN {<<"jobTask", 0>>} ELSE {})

(* A task on its way to execution is held in one place only, and it has    *)
(* not been executed yet: handing over between the deques never doubles it. *)
TaskPlacement ==
  \A t \in Task : /\ Cardinality(Places(t)) <= 1
                  /\ Places(t) # {} => history[t] = "waiting"

(* Without a task there is nothing planned, whichever handler ended it.    *)
NoTaskNoPlan == workTask = NoTask => plannerQueue = <<>>

(* Once a return has been triggered the plan of that task is over: nothing *)
(* that arrives late sends the robot to a plan point again.                *)
AbandonedPlan == cut => plannerQueue = <<>> /\ goal # "plan"

(* While the emergency stop is down and has been handled, the robot has no *)
(* goal to drive to, whatever arrives in the meantime.                     *)
StopHalts ==
  (/\ urgencyStopState /\ ~triggerUrgencyStop /\ ~unrecoverableErrorState
   /\ pc \notin {"stop", "undefined"})
    => goal \notin {"plan", "base"}

(* After the failure of the laser was handled no goal is sent and the      *)
(* station is not called any more.                                         *)
LaserHalts ==
  [][(unrecoverableErrorState /\ ~triggerUnrecoverableError /\ pc # "unrecoverable")
       => /\ goal' \in {goal, "none", "cancelled"}
          /\ station' \in {station, "idle"}]_vars

(* A task that runs to its end without a return has had the navigation     *)
(* answer for every point of its plan.                                     *)
PlanCompleted ==
  [][\A t \in Task :
       (history[t] = "executing" /\ history'[t] = "complete" /\ ~cut)
         => tried = 1 .. PlanSize]_vars

(* The robot enters the station with its cleaning mechanism taken up.      *)
DocksMechanismUp == station = "in" => mechanism = "up"

(* front() and pop_front() are never called on an empty plannerQueue.      *)
EmptyPlanNeverRead == Alive

(* A pause keeps the rest of the plan: points are neither lost nor added   *)
(* until it is resumed, although answers still arrive.                     *)
PausedPlanKept ==
  [][pauseInterception /\ pauseInterception' /\ workTask' = workTask
       => Range(plannerQueue') = Range(plannerQueue)]_vars

(* manualClean_ and the flow are two records of the manual mode, changed by *)
(* different handlers: in the flow of manual cleaning the mode is on, and   *)
(* while it is on there is no task that could take the robot away and the   *)
(* executor is not free for one.                                            *)
ManualModeAgrees ==
  pc = "wait" =>
    /\ event_flow = "manual_cleaning" => manualClean
    /\ manualClean => workTask = NoTask /\ event_flow # "waiting_for_task"

(* Liveness, under FairSpec: a task that is executed ends one way or other. *)
ExecutingEnds ==
  \A t \in Task : history[t] = "executing" ~> history[t] # "executing"

-----------------------------------------------------------------------------
(* What comments and messages of the program say, and the code does not do. *)

(* TaskCenter.cpp: a new task is not accepted before the current one ended. *)
OneTaskAtATime ==
  [][\A t \in Task : history[t] = "none" /\ history'[t] = "waiting" =>
       \A u \in Task : history[u] \notin {"waiting", "executing"}]_vars

(* async_task_call.cpp: what recordLockState recorded brings the released  *)
(* executor back to the state before the stop, which for a running task is *)
(* never waiting_for_task.                                                 *)
RunningIsNotWaiting ==
  pc = "wait" /\ workTask # NoTask => event_flow # "waiting_for_task"

(* async_task_call.cpp: callSwitchWorkMode waits for the nodes to wake up   *)
(* for WAITING_TIME_OF_NODE_WORK_MODE at most, and nodes that do not wake   *)
(* are the failure "end of the sleep mode failed".  Under FairSpec.         *)
SleepWaitEnds == pc = "asleep" ~> pc # "asleep"

(* async_task_call.cpp: a pause cancels the goal, the robot stands still.   *)
PausedStandsStill ==
  pauseInterception /\ event_flow = "manual_task_pause" /\ pc = "wait"
    => goal \notin {"plan", "base"}
=============================================================================
