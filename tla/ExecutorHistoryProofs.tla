------------------------ MODULE ExecutorHistoryProofs ------------------------
(***************************************************************************)
(* Theorems about the tasks on their way through the executor and their    *)
(* rows of the history, for every set of tasks, every plan length, every   *)
(* bound and every set of outside events.                                  *)
(***************************************************************************)
EXTENDS AsyncTaskCallProofs, FiniteSetTheorems

Ended == HistoryState \ {"none", "waiting", "executing"}

(* Where a task waits: once in one queue, or in the hand of the dispatcher, *)
(* and its row says so.                                                     *)
RowsWait ==
  /\ \A i \in DOMAIN taskDeque : history[taskDeque[i]] = "waiting"
  /\ \A i \in DOMAIN waitTaskQueue : history[waitTaskQueue[i]] = "waiting"
  /\ jobTask # NoTask => history[jobTask] = "waiting"

HeldOnce ==
  /\ \A i, j \in DOMAIN taskDeque : taskDeque[i] = taskDeque[j] => i = j
  /\ \A i, j \in DOMAIN waitTaskQueue : waitTaskQueue[i] = waitTaskQueue[j] => i = j
  /\ \A i \in DOMAIN taskDeque, j \in DOMAIN waitTaskQueue :
       taskDeque[i] # waitTaskQueue[j]
  /\ \A i \in DOMAIN taskDeque : taskDeque[i] # jobTask
  /\ \A i \in DOMAIN waitTaskQueue : waitTaskQueue[i] # jobTask

(* The task worked on has an executing row; it may not be the only one.     *)
WorkTaskExecutes == workTask # NoTask => history[workTask] = "executing"

(* A task is in the dispatcher's hand only while handleTask is to run.      *)
HandEmpty == jobTask # NoTask => pc \in {"task", "undefined"}

RowInv == RowsWait /\ HeldOnce /\ WorkTaskExecutes /\ HandEmpty

RowsMove == \A t \in Task : Promised!Step(history[t], history'[t])

-----------------------------------------------------------------------------
(* What a handler does to the tasks and their rows: it forgets the waiting  *)
(* ones at most; it closes the row of the task worked on as well; or it     *)
(* closes the row and hands the first waiting task back (goodGame).         *)
KeepsTasks ==
  UNCHANGED <<workTask, taskDeque, history>> /\ waitTaskQueue' \in {waitTaskQueue, <<>>}

EndsTask ==
  /\ workTask' = NoTask /\ waitTaskQueue' = <<>> /\ UNCHANGED taskDeque
  /\ \E o \in Ended : history' = Closed(o)

RowStep == KeepsTasks \/ EndsTask \/ goodGame

LEMMA FrameKeepsTasks ==
  /\ UNCHANGED handlerVars => KeepsTasks
  /\ UNCHANGED taskVars /\ UNCHANGED taskDeque => KeepsTasks
  /\ UNCHANGED dispatcherVars /\ UNCHANGED taskDeque => KeepsTasks
  /\ KeepTask /\ UNCHANGED taskDeque => KeepsTasks
BY DEF KeepsTasks, handlerVars, taskVars, dispatcherVars, KeepTask

LEMMA StopEndsTask ==
  ASSUME NEW o \in Ended, NEW m, StopTask(o, m), UNCHANGED taskDeque
  PROVE  EndsTask
BY DEF StopTask, Reset, EndsTask

LEMMA Outcomes ==
  {"complete", "errorComplete", "laserInterrupt", "enterManualCleanMode",
   "specialComplete", "launchFailed"} = Ended
BY DEF Ended, HistoryState

LEMMA BodiesKeepRows ==
  ASSUME \/ \E id : TriggerBack(id)
         \/ callPause \/ callResume
         \/ callManualCleanStart \/ callManualCleanEnd \/ callStopUrgentInBase
         \/ goodGame \/ callTaskInterrupt
         \/ \E f : CloseMechanism(f) \/ OpenMechanism(f) \/ Proceed(f)
         \/ \E w, f : AskStation(w, f)
         \/ \E f, r : GoBase(f, r)
         \/ \E q, f : GoTo(q, f)
  PROVE  RowStep
<1>1. CASE \/ \E id : TriggerBack(id)
           \/ callPause \/ callResume
           \/ \E q, f : GoTo(q, f)
  BY <1>1 DEF TriggerBack, callPause, callResume, GoTo, taskVars, KeepsTasks, RowStep
<1>2. CASE \/ \E f : CloseMechanism(f) \/ OpenMechanism(f) \/ Proceed(f)
           \/ \E w, f : AskStation(w, f)
           \/ \E f, r : GoBase(f, r)
  BY <1>2, FrameKeepsTasks
     DEF CloseMechanism, OpenMechanism, AskStation, GoBase, Proceed, RowStep
<1>3. CASE callManualCleanStart \/ callManualCleanEnd
  <2>1. UNCHANGED taskDeque /\ (KeepTask \/ StopTask("enterManualCleanMode", TRUE))
    BY <1>3 DEF callManualCleanStart, callManualCleanEnd
  <2> QED BY <2>1, FrameKeepsTasks, StopEndsTask, Outcomes DEF RowStep
<1>4. CASE callStopUrgentInBase
  <2>1. UNCHANGED taskDeque /\ (KeepTask \/ StopTask("specialComplete", FALSE))
    BY <1>4 DEF callStopUrgentInBase
  <2> QED BY <2>1, FrameKeepsTasks, StopEndsTask, Outcomes DEF RowStep
<1>5. CASE callTaskInterrupt
  BY <1>5, Outcomes DEF callTaskInterrupt, Reset, EndsTask, RowStep
<1>6. CASE goodGame
  BY <1>6 DEF RowStep
<1> QED BY <1>1, <1>2, <1>3, <1>4, <1>5, <1>6

LEMMA DisposeKeepsRows ==
  ASSUME NEW f, \/ \E b \in BOOLEAN : DisposeBasePoint(f, b)
                \/ DisposeMechanism(f) \/ DisposeStation(f)
  PROVE  RowStep
BY BodiesKeepRows DEF DisposeBasePoint, DisposeMechanism, DisposeStation

-----------------------------------------------------------------------------
(* Each of them keeps the invariant, whatever becomes of the hand of the    *)
(* dispatcher as long as nothing new comes into it.                         *)
LEMMA Queued ==
  ASSUME TypeOK
  PROVE  /\ \A i \in DOMAIN taskDeque : taskDeque[i] \in Task /\ taskDeque[i] # NoTask
         /\ \A i \in DOMAIN waitTaskQueue :
              waitTaskQueue[i] \in Task /\ waitTaskQueue[i] # NoTask
         /\ jobTask \in Task \cup {NoTask} /\ workTask \in Task \cup {NoTask}
         /\ DOMAIN taskDeque = 1 .. Len(taskDeque) /\ Len(taskDeque) \in Nat
BY TaskAssumption DEF TypeOK, HandlerTypeOK, StackTypeOK

(* No task waits that did not wait before. *)
LEMMA FewerWait ==
  ASSUME TypeOK, RowInv, UNCHANGED taskDeque,
         waitTaskQueue' \in {waitTaskQueue, <<>>}, jobTask' \in {jobTask, NoTask},
         \A t \in Task : history[t] = "waiting" => history'[t] = "waiting"
  PROVE  RowsWait' /\ HeldOnce'
<1>1. DOMAIN <<>> = {}
  OBVIOUS
<1>2. CASE waitTaskQueue' = waitTaskQueue
  BY <1>2, Queued DEF RowInv, RowsWait, HeldOnce
<1>3. CASE waitTaskQueue' = <<>>
  BY <1>1, <1>3, Queued DEF RowInv, RowsWait, HeldOnce
<1> QED BY <1>2, <1>3

LEMMA KeepRows ==
  ASSUME TypeOK, RowInv, KeepsTasks, jobTask' \in {jobTask, NoTask}
  PROVE  RowsWait' /\ HeldOnce' /\ WorkTaskExecutes' /\ RowsMove
<1>1. RowsWait' /\ HeldOnce'
  BY FewerWait DEF KeepsTasks
<1>2. RowsMove /\ WorkTaskExecutes'
  BY DEF RowsMove, KeepsTasks, Promised!Step, RowInv, WorkTaskExecutes
<1> QED BY <1>1, <1>2

LEMMA CloseRow ==
  ASSUME TypeOK, RowInv, NEW o \in Ended, history' = Closed(o)
  PROVE  /\ RowsMove
         /\ \A t \in Task : history[t] = "waiting" => history'[t] = "waiting"
<1>1. CASE workTask = NoTask
  BY <1>1 DEF Closed, RowsMove, Promised!Step
<1>2. CASE workTask # NoTask
  <2>1. history[workTask] = "executing" /\ workTask \in Task
    BY <1>2 DEF RowInv, WorkTaskExecutes, TypeOK, HandlerTypeOK
  <2>2. history' = [history EXCEPT ![workTask] = o] /\ history \in [Task -> HistoryState]
    BY <1>2 DEF Closed, TypeOK, HandlerTypeOK
  <2>3. <<"executing", o>> \in Promised!Moves
    BY DEF Promised!Moves, Ended
  <2> QED BY <2>1, <2>2, <2>3 DEF RowsMove, Promised!Step
<1> QED BY <1>1, <1>2

LEMMA EndKeepsRows ==
  ASSUME TypeOK, RowInv, EndsTask, jobTask' \in {jobTask, NoTask}
  PROVE  RowsWait' /\ HeldOnce' /\ WorkTaskExecutes' /\ RowsMove
<1>1. /\ RowsMove
      /\ \A t \in Task : history[t] = "waiting" => history'[t] = "waiting"
  BY CloseRow DEF EndsTask
<1>2. RowsWait' /\ HeldOnce'
  BY <1>1, FewerWait DEF EndsTask
<1>3. WorkTaskExecutes'
  BY DEF EndsTask, WorkTaskExecutes
<1> QED BY <1>1, <1>2, <1>3

LEMMA GoodGameKeepsRows ==
  ASSUME TypeOK, RowInv, goodGame, jobTask' \in {jobTask, NoTask}
  PROVE  RowsWait' /\ HeldOnce' /\ WorkTaskExecutes' /\ RowsMove
<1>1. workTask' = NoTask /\ history' = Closed("complete")
  BY DEF goodGame, Reset
<1>2. /\ RowsMove
      /\ \A t \in Task : history[t] = "waiting" => history'[t] = "waiting"
  BY <1>1, CloseRow, Outcomes
<1>3. WorkTaskExecutes'
  BY <1>1 DEF WorkTaskExecutes
<1>4. CASE waitTaskQueue = <<>>
  <2>1. UNCHANGED <<taskDeque, waitTaskQueue>>
    BY <1>4 DEF goodGame
  <2> QED BY <1>2, <1>3, <2>1, FewerWait
<1>5. CASE waitTaskQueue # <<>>
  <2>1. /\ taskDeque' = Append(taskDeque, waitTaskQueue[1])
        /\ waitTaskQueue' = Tail(waitTaskQueue)
        /\ taskDeque \in Seq(Task) /\ waitTaskQueue \in Seq(Task) /\ Len(waitTaskQueue) > 0
    BY <1>5 DEF goodGame, TypeOK, HandlerTypeOK
  <2>2. /\ Len(taskDeque') = Len(taskDeque) + 1
        /\ \A i \in DOMAIN taskDeque' :
             taskDeque'[i] = IF i = Len(taskDeque) + 1 THEN waitTaskQueue[1] ELSE taskDeque[i]
        /\ DOMAIN taskDeque' = 1 .. Len(taskDeque) + 1
    BY <2>1
  <2>3. /\ \A i \in DOMAIN waitTaskQueue' :
             i + 1 \in DOMAIN waitTaskQueue /\ waitTaskQueue'[i] = waitTaskQueue[i + 1]
        /\ DOMAIN waitTaskQueue' \subseteq Nat \ {0}
    BY <2>1
  <2>4. 1 \in DOMAIN waitTaskQueue
    BY <2>1
  <2>5. /\ \A i \in DOMAIN taskDeque' :
             \/ i \in DOMAIN taskDeque /\ taskDeque'[i] = taskDeque[i]
             \/ i = Len(taskDeque) + 1 /\ taskDeque'[i] = waitTaskQueue[1]
    BY <2>2, Queued
  <2>6. RowsWait'
    <3>1. \A i \in DOMAIN taskDeque' : history'[taskDeque'[i]] = "waiting"
      BY <1>2, <2>4, <2>5, Queued DEF RowInv, RowsWait
    <3>2. \A i \in DOMAIN waitTaskQueue' : history'[waitTaskQueue'[i]] = "waiting"
      BY <1>2, <2>3, Queued DEF RowInv, RowsWait
    <3> QED BY <1>2, <3>1, <3>2, Queued DEF RowInv, RowsWait
  <2>7. HeldOnce'
    <3>1. \A i, j \in DOMAIN taskDeque' : taskDeque'[i] = taskDeque'[j] => i = j
      BY <2>4, <2>5 DEF RowInv, HeldOnce
    <3>2. \A i, j \in DOMAIN waitTaskQueue' : waitTaskQueue'[i] = waitTaskQueue'[j] => i = j
      <4> SUFFICES ASSUME NEW i \in DOMAIN waitTaskQueue', NEW j \in DOMAIN waitTaskQueue',
                          waitTaskQueue'[i] = waitTaskQueue'[j]
                   PROVE  i = j
        OBVIOUS
      <4>1. i + 1 = j + 1
        BY <2>3 DEF RowInv, HeldOnce
      <4> QED BY <2>3, <4>1
    <3>3. \A i \in DOMAIN taskDeque', j \in DOMAIN waitTaskQueue' :
            taskDeque'[i] # waitTaskQueue'[j]
      <4> SUFFICES ASSUME NEW i \in DOMAIN taskDeque', NEW j \in DOMAIN waitTaskQueue'
                   PROVE  taskDeque'[i] # waitTaskQueue'[j]
        OBVIOUS
      <4>1. j + 1 \in DOMAIN waitTaskQueue /\ j + 1 # 1 /\ waitTaskQueue'[j] = waitTaskQueue[j + 1]
        BY <2>3
      <4>2. CASE i \in DOMAIN taskDeque /\ taskDeque'[i] = taskDeque[i]
        BY <4>1, <4>2 DEF RowInv, HeldOnce
      <4>3. CASE taskDeque'[i] = waitTaskQueue[1]
        BY <2>4, <4>1, <4>3 DEF RowInv, HeldOnce
      <4> QED BY <2>5, <4>2, <4>3
    <3>4. /\ \A i \in DOMAIN taskDeque' : taskDeque'[i] # jobTask /\ taskDeque'[i] # NoTask
          /\ \A i \in DOMAIN waitTaskQueue' :
               waitTaskQueue'[i] # jobTask /\ waitTaskQueue'[i] # NoTask
      BY <2>3, <2>4, <2>5, Queued DEF RowInv, HeldOnce
    <3> QED BY <3>1, <3>2, <3>3, <3>4 DEF HeldOnce
  <2> QED BY <1>2, <1>3, <2>6, <2>7
<1> QED BY <1>4, <1>5

(* What the dispatcher does inside a handler. *)
LEMMA RowStepKeepsRows ==
  ASSUME TypeOK, RowInv, RowStep, jobTask' \in {jobTask, NoTask},
         jobTask' = NoTask \/ pc' = pc \/ pc' = "undefined"
  PROVE  RowInv' /\ RowsMove
<1>1. RowsWait' /\ HeldOnce' /\ WorkTaskExecutes' /\ RowsMove
  BY KeepRows, EndKeepsRows, GoodGameKeepsRows DEF RowStep
<1>2. HandEmpty'
  BY DEF RowInv, HandEmpty
<1> QED BY <1>1, <1>2 DEF RowInv

-----------------------------------------------------------------------------
(* The handlers: none of them starts with a task in hand but handleTask.    *)
LEMMA HandlersKeepHand ==
  ASSUME RowInv,
         \/ HandleUnrecoverable \/ handleStop \/ handlePoint \/ handleAutoPoint
         \/ handleManualPoint \/ handleForcePoint \/ processControl
         \/ NodesAwake \/ SleepGivenUp
  PROVE  jobTask' = NoTask
<1>1. CASE HandleUnrecoverable \/ handleStop \/ NodesAwake \/ SleepGivenUp
  BY <1>1 DEF HandleUnrecoverable, handleStop, IgnoreStop, StopPressed,
     ReleasedWithoutTask, ReleasedWhilePaused, ReleasedReplaying, ReleasedIntoPause,
     NodesAwake, SleepGivenUp, Return
<1>2. pc \in {"point", "auto", "manual", "force", "control"} => jobTask = NoTask
  BY DEF RowInv, HandEmpty
<1>3. CASE handlePoint
  BY <1>2, <1>3 DEF handlePoint, StopUrgentWhileStopped, DropPoint, HandlePoint, Return,
     Continue
<1>4. CASE handleAutoPoint
  BY <1>2, <1>4 DEF handleAutoPoint, AutoReturn, AutoPause, AutoResume, AutoManualClean,
     AutoStopUrgent, AutoFlow, AutoPlan, Continue
<1>5. CASE handleManualPoint \/ handleForcePoint
  BY <1>2, <1>5 DEF handleManualPoint, ManualCommand, ManualResumeTask, ManualStopUrgent,
     ManualFlow, ManualIgnore, handleForcePoint, ForceReturn, ForceStopUrgent, ForceFlow,
     ForceIgnore, Return
<1>6. CASE processControl
  BY <1>2, <1>6 DEF processControl, Control, ControlAskStation, ControlAlreadyWorking,
     ControlWakeUp, ControlMechanism, ControlFirstPoint, ControlEnsured, ControlNextPoint,
     ControlLastPoint, ControlUndefined, ControlGoBase, ControlEnd, ControlNothing,
     Continue, Return
<1> QED BY <1>1, <1>3, <1>4, <1>5, <1>6

LEMMA HandlersKeepRows ==
  ASSUME \/ HandleUnrecoverable \/ handleStop \/ handlePoint \/ handleAutoPoint
         \/ handleManualPoint \/ handleForcePoint \/ processControl
         \/ NodesAwake \/ SleepGivenUp
  PROVE  RowStep
<1> USE FrameKeepsTasks
<1>1. CASE HandleUnrecoverable
  <2>1. UNCHANGED taskDeque /\ (KeepTask \/ StopTask("laserInterrupt", FALSE))
    BY <1>1 DEF HandleUnrecoverable
  <2> QED BY <2>1, StopEndsTask, Outcomes DEF RowStep
<1>2. CASE handleStop
  BY <1>2 DEF handleStop, IgnoreStop, StopPressed, ReleasedWithoutTask,
     ReleasedWhilePaused, ReleasedReplaying, ReleasedIntoPause, KeepsTasks, RowStep, taskVars
<1>3. CASE handlePoint
  BY <1>3, BodiesKeepRows DEF handlePoint, StopUrgentWhileStopped, DropPoint, HandlePoint,
     RowStep
<1>4. CASE handleAutoPoint
  BY <1>4, BodiesKeepRows DEF handleAutoPoint, AutoReturn, AutoPause, AutoResume,
     AutoManualClean, AutoStopUrgent, AutoFlow, AutoPlan, RowStep
<1>5. CASE handleManualPoint
  BY <1>5, BodiesKeepRows, DisposeKeepsRows
     DEF handleManualPoint, ManualCommand, ManualResumeTask, ManualStopUrgent, ManualFlow,
         ManualIgnore, Ignore, RowStep
<1>6. CASE handleForcePoint
  <2>1. ForceBasePoint => RowStep
    BY DisposeKeepsRows DEF ForceBasePoint, Ignore, RowStep
  <2>2. ForceStation => RowStep
    BY DisposeKeepsRows DEF ForceStation, Ignore, RowStep
  <2> QED BY <1>6, <2>1, <2>2, BodiesKeepRows, DisposeKeepsRows
          DEF handleForcePoint, ForceReturn, ForceStopUrgent, ForceFlow, ForceIgnore, Ignore,
              RowStep
<1>7. CASE processControl
  <2>1. CASE \/ ControlAskStation \/ ControlMechanism \/ ControlGoBase \/ ControlEnd
             \/ ControlWakeUp \/ ControlFirstPoint \/ ControlNextPoint
    BY <2>1, BodiesKeepRows
       DEF ControlAskStation, ControlMechanism, ControlGoBase, ControlEnd, ControlWakeUp,
           ControlFirstPoint, ControlNextPoint
  <2>2. CASE ControlAlreadyWorking \/ ControlUndefined \/ ControlNothing
    BY <2>2 DEF ControlAlreadyWorking, ControlUndefined, ControlNothing, RowStep
  <2>3. CASE ControlEnsured \/ ControlLastPoint
    BY <2>3 DEF ControlEnsured, ControlLastPoint, taskVars, KeepsTasks, RowStep
  <2> QED BY <1>7, <2>1, <2>2, <2>3 DEF processControl
<1>8. CASE NodesAwake \/ SleepGivenUp
  BY <1>8 DEF NodesAwake, SleepGivenUp, AwakeFrame, taskVars, KeepsTasks, RowStep
<1> QED BY <1>1, <1>2, <1>3, <1>4, <1>5, <1>6, <1>7, <1>8

(* The other threads leave the tasks alone, but for the launch of one.      *)
LEMMA OtherThreadsKeepRows ==
  ASSUME EventLoop \/ Navigation \/ StationResult \/ Operator
  PROVE  KeepsTasks /\ UNCHANGED jobTask /\ pc' \in {pc, "undefined"}
<1>1. CASE EventLoop
  BY <1>1 DEF EventLoop, LoopSchedule, MechanismTimer, SleepTimer, NavTimer,
         dispatcherVars, taskVars, KeepsTasks
<1>2. CASE Navigation \/ StationResult
  BY <1>2 DEF Navigation, NavDone, NavCallback, NavAnswer, StationResult, dispatcherVars,
         taskVars, KeepsTasks
<1>3. CASE Operator
  <2>1. UNCHANGED <<dispatcherVars, taskDeque, pc>>
    BY <1>3 DEF Operator, ManualBack, ManualForceBack, ManualResume, ManualPause,
                EnterManual, QuitManual, StopAndCharge, ForceBackToBase, UrgencyStop,
                UnrecoverableError, Ask, Order, commandFrame
  <2> QED BY <2>1, FrameKeepsTasks DEF dispatcherVars
<1> QED BY <1>1, <1>2, <1>3

-----------------------------------------------------------------------------
(* The steps that move a task. *)
LEMMA TakeRows ==
  ASSUME TypeOK, RowInv, Take
  PROVE  RowInv' /\ RowsMove
<1>1. CASE TakeUnrecoverable \/ TakeStop \/ TakePoint
  <2>1. KeepsTasks /\ jobTask' = jobTask /\ pc = "wait"
    BY <1>1 DEF TakeUnrecoverable, TakeStop, TakePoint, takeFrame, handlerVars, taskVars,
                KeepsTasks
  <2>2. jobTask' = NoTask
    BY <2>1 DEF RowInv, HandEmpty
  <2> QED BY <2>1, <2>2, RowStepKeepsRows DEF RowStep
<1>2. CASE TakeTask
  <2>1. /\ jobTask' = taskDeque[Len(taskDeque)] /\ taskDeque' = <<>> /\ pc' = "task"
        /\ UNCHANGED <<workTask, waitTaskQueue, history>> /\ taskDeque # <<>>
    BY <1>2 DEF TakeTask, taskVars, Last
  <2>2. Len(taskDeque) \in DOMAIN taskDeque
    BY <2>1 DEF TypeOK, HandlerTypeOK
  <2>3. DOMAIN <<>> = {}
    OBVIOUS
  <2>4. RowsWait' /\ HeldOnce'
    BY <2>1, <2>2, <2>3 DEF RowInv, RowsWait, HeldOnce
  <2>5. WorkTaskExecutes' /\ HandEmpty' /\ RowsMove
    BY <2>1 DEF RowInv, WorkTaskExecutes, HandEmpty, RowsMove, Promised!Step
  <2> QED BY <2>4, <2>5 DEF RowInv
<1> QED BY <1>1, <1>2 DEF Take

LEMMA HandleTaskRows ==
  ASSUME TypeInv, RowInv, handleTask
  PROVE  RowInv' /\ RowsMove
<1> USE DEF TypeInv
<1>1. CASE DropTask
  <2>1. KeepsTasks /\ jobTask' = NoTask
    BY <1>1, FrameKeepsTasks DEF DropTask, Return
  <2> QED BY <2>1, RowStepKeepsRows DEF RowStep
<1>2. CASE StartTask
  <2>1. /\ workTask' = jobTask /\ jobTask' = NoTask
        /\ history' = [history EXCEPT ![jobTask] = "executing"]
        /\ UNCHANGED <<waitTaskQueue, taskDeque>>
    BY <1>2 DEF StartTask
  <2>2. jobTask \in Task /\ jobTask # NoTask /\ history[jobTask] = "waiting"
        /\ history \in [Task -> HistoryState]
    BY <1>2, TaskAssumption DEF StartTask, TaskInHand, TypeOK, StackTypeOK, HandlerTypeOK,
       RowInv, RowsWait
  <2>3. \A t \in Task : t # jobTask => history'[t] = history[t]
    BY <2>1, <2>2
  <2>4. RowsWait' /\ HeldOnce'
    BY <2>1, <2>3, Queued DEF RowInv, RowsWait, HeldOnce
  <2>5. <<"waiting", "executing">> \in Promised!Moves
    BY DEF Promised!Moves
  <2>6. RowsMove /\ WorkTaskExecutes' /\ HandEmpty'
    BY <2>1, <2>2, <2>3, <2>5 DEF RowsMove, Promised!Step, WorkTaskExecutes, HandEmpty
  <2> QED BY <2>4, <2>6 DEF RowInv
<1>3. CASE QueueTask
  <2>1. /\ waitTaskQueue' = Append(waitTaskQueue, jobTask) /\ jobTask' = NoTask
        /\ UNCHANGED <<workTask, taskDeque, history>>
        /\ waitTaskQueue \in Seq(Task)
        /\ jobTask # NoTask
    BY <1>3 DEF QueueTask, Return, TaskInHand, TypeOK, HandlerTypeOK
  <2>2. \A i \in DOMAIN waitTaskQueue' :
          \/ i \in DOMAIN waitTaskQueue /\ waitTaskQueue'[i] = waitTaskQueue[i]
          \/ i = Len(waitTaskQueue) + 1 /\ waitTaskQueue'[i] = jobTask
    BY <2>1, Queued
  <2>3. RowsWait'
    BY <2>1, <2>2 DEF RowInv, RowsWait
  <2>4. HeldOnce'
    BY <2>1, <2>2, Queued DEF RowInv, HeldOnce
  <2>5. WorkTaskExecutes' /\ HandEmpty' /\ RowsMove
    BY <2>1 DEF RowInv, WorkTaskExecutes, HandEmpty, RowsMove, Promised!Step
  <2> QED BY <2>3, <2>4, <2>5 DEF RowInv
<1> QED BY <1>1, <1>2, <1>3 DEF handleTask

LEMMA LaunchRows ==
  ASSUME TypeOK, RowInv, Launch
  PROVE  RowInv' /\ RowsMove
<1>1. PICK t \in Task : LaunchTask(t) \/ LaunchRefused(t)
  BY DEF Launch
<1>2. history[t] = "none" /\ history \in [Task -> HistoryState]
  BY <1>1 DEF LaunchTask, LaunchRefused, TypeOK, HandlerTypeOK
<1>3. UNCHANGED <<workTask, waitTaskQueue, jobTask, pc>>
  BY <1>1 DEF LaunchTask, LaunchRefused, stackVars
<1>4. PICK s \in {"waiting", "launchFailed"} : history' = [history EXCEPT ![t] = s]
  BY <1>1 DEF LaunchTask, LaunchRefused
<1>5. RowsMove
  <2>1. <<"none", s>> \in Promised!Moves
    BY Outcomes DEF Promised!Moves, Ended
  <2> QED BY <1>2, <1>4, <2>1 DEF RowsMove, Promised!Step
<1>6. \A u \in Task : history[u] # "none" => u # t /\ history'[u] = history[u]
  BY <1>2, <1>4
<1>7. HandEmpty' /\ WorkTaskExecutes'
  BY <1>3, <1>6, Queued DEF RowInv, HandEmpty, WorkTaskExecutes
<1>8. /\ \A i \in DOMAIN taskDeque : taskDeque[i] # t
      /\ \A i \in DOMAIN waitTaskQueue : waitTaskQueue[i] # t
      /\ jobTask # t
  BY <1>2, TaskAssumption DEF RowInv, RowsWait
<1>9. CASE LaunchRefused(t)
  <2>1. UNCHANGED taskDeque
    BY <1>9 DEF LaunchRefused
  <2> QED BY <1>3, <1>5, <1>6, <1>7, <2>1, FewerWait DEF RowInv
<1>10. CASE LaunchTask(t)
  <2>1. taskDeque' = Append(taskDeque, t) /\ history'[t] = "waiting"
    BY <1>2, <1>10 DEF LaunchTask
  <2>2. \A i \in DOMAIN taskDeque' :
          \/ i \in DOMAIN taskDeque /\ taskDeque'[i] = taskDeque[i]
          \/ i = Len(taskDeque) + 1 /\ taskDeque'[i] = t
    BY <2>1, Queued DEF TypeOK, HandlerTypeOK
  <2>3. RowsWait'
    BY <1>3, <1>6, <2>1, <2>2, Queued DEF RowInv, RowsWait
  <2>4. HeldOnce'
    BY <1>3, <1>8, <2>2 DEF RowInv, HeldOnce
  <2> QED BY <1>5, <1>7, <2>3, <2>4 DEF RowInv
<1> QED BY <1>1, <1>9, <1>10

-----------------------------------------------------------------------------
LEMMA RowInvInit == Init => RowInv
<1> SUFFICES ASSUME Init PROVE RowInv
  OBVIOUS
<1>1. taskDeque = <<>> /\ waitTaskQueue = <<>> /\ jobTask = NoTask /\ workTask = NoTask
  BY DEF Init
<1>2. DOMAIN <<>> = {}
  OBVIOUS
<1> QED BY <1>1, <1>2 DEF RowInv, RowsWait, HeldOnce, WorkTaskExecutes, HandEmpty

LEMMA RowInvStep == TypeInv /\ RowInv /\ [Next]_vars => RowInv' /\ RowsMove
<1> SUFFICES ASSUME TypeInv, RowInv, [Next]_vars PROVE RowInv' /\ RowsMove
  OBVIOUS
<1> USE DEF TypeInv
<1>1. CASE Take \/ handleTask \/ Launch
  BY <1>1, TakeRows, HandleTaskRows, LaunchRows
<1>2. CASE \/ HandleUnrecoverable \/ handleStop \/ handlePoint \/ handleAutoPoint
           \/ handleManualPoint \/ handleForcePoint \/ processControl
           \/ NodesAwake \/ SleepGivenUp
  BY <1>2, HandlersKeepHand, HandlersKeepRows, RowStepKeepsRows
<1>3. CASE EventLoop \/ Navigation \/ StationResult \/ Operator
  BY <1>3, OtherThreadsKeepRows, RowStepKeepsRows DEF RowStep
<1>4. CASE UNCHANGED vars
  <2>1. KeepsTasks /\ UNCHANGED <<jobTask, pc>>
    BY <1>4 DEF vars, taskVars, stackVars, KeepsTasks
  <2> QED BY <2>1, RowStepKeepsRows DEF RowStep
<1> QED BY <1>1, <1>2, <1>3, <1>4 DEF Next, Dispatcher

LEMMA RowInvHolds == Spec => []RowInv
<1>1. TypeInv /\ RowInv /\ [Next]_vars => RowInv'
  BY RowInvStep
<1> QED BY RowInvInit, <1>1, TypeCorrect, PTL DEF Spec

-----------------------------------------------------------------------------
(* A task that waits to be executed is in one place, once, and its row says *)
(* "waiting": no hand-over between the app, the two queues and handleTask   *)
(* doubles it or brings one back that was executed.                         *)
THEOREM TaskPlacementHolds == Spec => []TaskPlacement
<1>1. TypeInv /\ RowInv => TaskPlacement
  <2> SUFFICES ASSUME TypeInv, RowInv, NEW t \in Task
               PROVE  Cardinality(Places(t)) <= 1 /\ (Places(t) # {} => history[t] = "waiting")
    BY DEF TaskPlacement
  <2>1. t # NoTask
    BY TaskAssumption
  <2>2. \A p \in Places(t) :
          \/ p[1] = "taskDeque" /\ p = <<"taskDeque", p[2]>>
               /\ p[2] \in DOMAIN taskDeque /\ taskDeque[p[2]] = t
          \/ p[1] = "waitTaskQueue" /\ p = <<"waitTaskQueue", p[2]>>
               /\ p[2] \in DOMAIN waitTaskQueue /\ waitTaskQueue[p[2]] = t
          \/ p = <<"jobTask", 0>> /\ jobTask = t
    BY DEF Places
  <2>3. \A p, q \in Places(t) : p = q
    BY <2>1, <2>2 DEF RowInv, HeldOnce
  <2>4. Places(t) # {} => history[t] = "waiting"
    BY <2>1, <2>2 DEF RowInv, RowsWait
  <2>5. Cardinality(Places(t)) <= 1
    <3>1. CASE Places(t) = {}
      <4>1. Cardinality({}) = 0
        BY FS_EmptySet
      <4> QED BY <3>1, <4>1
    <3>2. CASE Places(t) # {}
      <4>1. PICK p \in Places(t) : TRUE
        BY <3>2
      <4>2. Places(t) = {p}
        BY <2>3, <4>1
      <4>3. Cardinality({p}) = 1
        BY FS_Singleton
      <4> QED BY <4>2, <4>3
    <3> QED BY <3>1, <3>2
  <2> QED BY <2>4, <2>5
<1> QED BY <1>1, RowInvHolds, TypeCorrect, PTL

(* The rows implement TaskHistory: a task is executed at most once, after   *)
(* it waited, and no handler that runs later changes how it ended, whatever *)
(* is commanded and whichever thread is late.                               *)
THEOREM ExecutorKeepsHistory == Spec => KeepsHistory
<1>1. Init => Promised!Init
  BY DEF Init, Promised!Init
<1>2. TypeInv /\ TypeInv' /\ RowInv /\ [Next]_vars => [Promised!Next]_history
  <2> SUFFICES ASSUME TypeInv, TypeInv', RowInv, [Next]_vars PROVE Promised!Next
    OBVIOUS
  <2>1. history' \in [Task -> HistoryState]
    BY DEF TypeInv, TypeOK, HandlerTypeOK
  <2>2. HistoryState \subseteq Promised!Stage
    BY DEF HistoryState, Promised!Stage
  <2>3. RowsMove
    BY RowInvStep
  <2> QED BY <2>1, <2>2, <2>3 DEF RowsMove, Promised!Next
<1> QED BY <1>1, <1>2, RowInvHolds, TypeCorrect, PTL DEF Spec, KeepsHistory, Promised!Spec

-----------------------------------------------------------------------------
(* Commands.  A command point that is pending, handled or remembered was    *)
(* ordered by an event of the instance, and nothing stops without a stop.   *)
Ordered(p) ==
  /\ p.id = "MANUAL_RESUME" => "resume" \in Events
  /\ p.id = "MANUAL_CLEAN_END" => "quitManual" \in Events
  /\ p.id = "STOP_URGENT_IN_BASE" => "urgencyStop" \in Events

Stopping == urgencyStopState \/ triggerUrgencyStop \/ pc = "stop"

OnlyOrdered ==
  /\ \A i \in DOMAIN pointDeque : Ordered(pointDeque[i])
  /\ Ordered(job) /\ Ordered(record.point) /\ Ordered(lock.point)
  /\ again => "resume" \in Events
  /\ Stopping => "urgencyStop" \in Events

(* The points the code itself makes are no commands. *)
LEMMA MadePoints ==
  /\ \A a : \A i \in FlowId \cup ReturnId \cup {"MANUAL_PAUSE", "MANUAL_CLEAN_START"} :
       Ordered(FlowPoint(i, a)) /\ Ordered(Special(i))
  /\ \A k, a : Ordered(PlanPoint(k, a))
  /\ Ordered(NullPoint) /\ Ordered(SeizeSeat)
  /\ "resume" \in Events => Ordered(Special("MANUAL_RESUME"))
  /\ "quitManual" \in Events => Ordered(Special("MANUAL_CLEAN_END"))
  /\ "urgencyStop" \in Events => Ordered(Special("STOP_URGENT_IN_BASE"))
BY DEF Ordered, FlowPoint, PlanPoint, NullPoint, SeizeSeat, Special, FlowId, ReturnId

LEMMA PushedPoint ==
  ASSUME TypeOK, OnlyOrdered, NEW p, Ordered(p), Push(p)
  PROVE  \A i \in DOMAIN pointDeque' : Ordered(pointDeque'[i])
<1>1. pointDeque \in Seq(Point) /\ pointDeque' = Append(pointDeque, p)
  BY DEF TypeOK, HandlerTypeOK, Push
<1>2. \A i \in DOMAIN pointDeque' :
        \/ i \in DOMAIN pointDeque /\ pointDeque'[i] = pointDeque[i]
        \/ pointDeque'[i] = p
  BY <1>1
<1> QED BY <1>2 DEF OnlyOrdered

(* The bodies of the handlers ask for no point. *)
LEMMA FrameKeepsPoints ==
  /\ UNCHANGED handlerVars => UNCHANGED pointDeque
  /\ UNCHANGED inputVars => UNCHANGED <<urgencyStopState, triggerUrgencyStop>>
  /\ UNCHANGED outside => UNCHANGED <<urgencyStopState, triggerUrgencyStop>>
  /\ UNCHANGED memoVars => UNCHANGED <<record, lock>>
BY DEF handlerVars, inputVars, triggerVars, outside, memoVars

LEMMA BodiesKeepPoints ==
  ASSUME \/ \E id : TriggerBack(id)
         \/ callPause \/ callResume
         \/ callManualCleanStart \/ callManualCleanEnd \/ callStopUrgentInBase
         \/ goodGame \/ callTaskInterrupt \/ Ignore
         \/ \E f : CloseMechanism(f) \/ OpenMechanism(f) \/ Proceed(f)
         \/ \E w, f : AskStation(w, f)
         \/ \E f, r : GoBase(f, r)
         \/ \E q, f : GoTo(q, f)
  PROVE  UNCHANGED pointDeque
BY DEF TriggerBack, callPause, callResume, callManualCleanStart, callManualCleanEnd,
       callStopUrgentInBase, goodGame, callTaskInterrupt, CloseMechanism, OpenMechanism,
       Proceed, AskStation, GoBase, GoTo, Ignore, handlerVars

LEMMA DisposeKeepsPoints ==
  ASSUME NEW f, \/ \E b \in BOOLEAN : DisposeBasePoint(f, b)
                \/ DisposeMechanism(f) \/ DisposeStation(f)
                \/ ForceBasePoint \/ ForceStation
  PROVE  UNCHANGED pointDeque
<1>1. CASE \/ \E b \in BOOLEAN : DisposeBasePoint(f, b)
           \/ DisposeMechanism(f) \/ DisposeStation(f)
  BY <1>1, BodiesKeepPoints DEF DisposeBasePoint, DisposeMechanism, DisposeStation
<1>2. \A g : /\ \A b \in BOOLEAN : DisposeBasePoint(g, b) => UNCHANGED pointDeque
             /\ DisposeStation(g) => UNCHANGED pointDeque
  BY BodiesKeepPoints DEF DisposeBasePoint, DisposeStation
<1>3. CASE ForceBasePoint \/ ForceStation
  BY <1>2, <1>3, BodiesKeepPoints DEF ForceBasePoint, ForceStation
<1> QED BY <1>1, <1>3

-----------------------------------------------------------------------------
LEMMA ReturnOrdered ==
  ASSUME OnlyOrdered, Return
  PROVE  Ordered(job') /\ ~again' /\ pc' # "stop"
BY MadePoints DEF OnlyOrdered, Return

LEMMA ContinueOrdered ==
  ASSUME OnlyOrdered, NEW next, next # "stop", Continue(next)
  PROVE  Ordered(job') /\ again' = again /\ pc' # "stop"
BY DEF OnlyOrdered, Continue

LEMMA ResetLockOrdered == ResetLock => Ordered(lock'.point)
BY MadePoints DEF ResetLock

LEMMA TakeOrdered ==
  ASSUME TypeOK, OnlyOrdered, Take
  PROVE  OnlyOrdered'
<1>1. DOMAIN <<>> = {}
  OBVIOUS
<1>2. CASE TakeUnrecoverable \/ TakeStop \/ TakeTask
  BY <1>2 DEF TakeUnrecoverable, TakeStop, TakeTask, takeFrame, handlerVars, memoVars,
              inputVars, triggerVars, OnlyOrdered, Stopping
<1>3. CASE TakePoint
  <2>1. /\ pointDeque' = <<>> /\ job' = pointDeque[Len(pointDeque)] /\ pc' = "point"
        /\ UNCHANGED <<record, lock, again, urgencyStopState, triggerUrgencyStop>>
    BY <1>3 DEF TakePoint, memoVars, inputVars, triggerVars, Last
  <2>2. Len(pointDeque) \in DOMAIN pointDeque
    BY <1>3 DEF TakePoint, TypeOK, HandlerTypeOK
  <2> QED BY <1>1, <2>1, <2>2 DEF OnlyOrdered, Stopping
<1> QED BY <1>2, <1>3 DEF Take

LEMMA HandlersOrdered ==
  ASSUME TypeOK, OnlyOrdered,
         \/ HandleUnrecoverable \/ handleStop \/ handleTask \/ handlePoint
         \/ handleManualPoint \/ handleForcePoint
  PROVE  OnlyOrdered'
<1> USE FrameKeepsPoints, ReturnOrdered, ContinueOrdered, ResetLockOrdered
<1>1. CASE HandleUnrecoverable
  BY <1>1 DEF HandleUnrecoverable, OnlyOrdered, Stopping
<1>2. CASE handleStop
  <2>1. CASE ReleasedReplaying
    <3>1. \A i \in DOMAIN pointDeque' : Ordered(pointDeque'[i])
      BY <2>1, PushedPoint DEF ReleasedReplaying, OnlyOrdered
    <3> QED BY <2>1, <3>1 DEF ReleasedReplaying, OnlyOrdered, Stopping
  <2>2. CASE ~ReleasedReplaying
    BY <1>2, <2>2 DEF handleStop, IgnoreStop, StopPressed, ReleasedWithoutTask,
       ReleasedWhilePaused, ReleasedIntoPause, OnlyOrdered, Stopping
  <2> QED BY <2>1, <2>2
<1>3. CASE handleTask
  BY <1>3, MadePoints DEF handleTask, DropTask, StartTask, QueueTask, OnlyOrdered, Stopping
<1>4. CASE handlePoint
  <2>1. CASE StopUrgentWhileStopped
    BY <2>1, BodiesKeepPoints DEF StopUrgentWhileStopped, OnlyOrdered, Stopping
  <2>2. CASE DropPoint
    BY <2>2 DEF DropPoint, OnlyOrdered, Stopping
  <2>3. CASE HandlePoint
    <3>1. ModeHandler[event_status] # "stop"
      BY DEF ModeHandler, TypeOK, HandlerTypeOK, Status
    <3>2. lock'.point = job /\ UNCHANGED record
      BY <2>3 DEF HandlePoint
    <3> QED BY <2>3, <3>1, <3>2 DEF HandlePoint, OnlyOrdered, Stopping
  <2> QED BY <1>4, <2>1, <2>2, <2>3 DEF handlePoint
<1>5. CASE handleManualPoint
  <2>1. CASE ManualResumeTask
    BY <2>1, BodiesKeepPoints DEF ManualResumeTask, OnlyOrdered, Stopping
  <2>2. CASE ManualStopUrgent
    BY <2>2, BodiesKeepPoints DEF ManualStopUrgent, OnlyOrdered, Stopping
  <2>3. CASE ManualCommand \/ ManualFlow \/ ManualIgnore
    <3>1. UNCHANGED pointDeque
      BY <2>3, BodiesKeepPoints, DisposeKeepsPoints
         DEF ManualCommand, ManualFlow, ManualIgnore
    <3>2. Return /\ UNCHANGED <<memoVars, outside>>
      BY <2>3 DEF ManualCommand, ManualFlow, ManualIgnore
    <3> QED BY <3>1, <3>2 DEF OnlyOrdered, Stopping
  <2> QED BY <1>5, <2>1, <2>2, <2>3 DEF handleManualPoint
<1>6. CASE handleForcePoint
  <2>1. CASE ForceStopUrgent
    BY <2>1, BodiesKeepPoints DEF ForceStopUrgent, OnlyOrdered, Stopping
  <2>2. CASE ForceReturn \/ ForceFlow \/ ForceIgnore
    <3>1. UNCHANGED pointDeque
      BY <2>2, BodiesKeepPoints, DisposeKeepsPoints
         DEF ForceReturn, ForceFlow, ForceIgnore
    <3>2. Return /\ UNCHANGED <<memoVars, outside>>
      BY <2>2 DEF ForceReturn, ForceFlow, ForceIgnore
    <3> QED BY <3>1, <3>2 DEF OnlyOrdered, Stopping
  <2> QED BY <1>6, <2>1, <2>2 DEF handleForcePoint
<1> QED BY <1>1, <1>2, <1>3, <1>4, <1>5, <1>6

LEMMA AutoOrdered ==
  ASSUME TypeOK, OnlyOrdered, handleAutoPoint
  PROVE  OnlyOrdered'
<1> USE FrameKeepsPoints, ContinueOrdered, BodiesKeepPoints
<1>1. CASE AutoReturn \/ AutoPause \/ AutoManualClean
  BY <1>1 DEF AutoReturn, AutoPause, AutoManualClean, OnlyOrdered, Stopping
<1>2. CASE AutoStopUrgent
  BY <1>2, ResetLockOrdered DEF AutoStopUrgent, OnlyOrdered, Stopping
<1>3. CASE AutoResume
  <2>1. "resume" \in Events
    BY <1>3 DEF AutoResume, OnlyOrdered, Ordered
  <2> QED BY <1>3, <2>1 DEF AutoResume, OnlyOrdered, Stopping
<1>4. CASE AutoFlow \/ AutoPlan
  <2>1. record'.point = job /\ UNCHANGED <<lock, pointDeque>>
    BY <1>4 DEF AutoFlow, AutoPlan, Remember
  <2>2. Continue("control") /\ UNCHANGED outside
    BY <1>4 DEF AutoFlow, AutoPlan
  <2> QED BY <2>1, <2>2 DEF OnlyOrdered, Stopping
<1> QED BY <1>1, <1>2, <1>3, <1>4 DEF handleAutoPoint

LEMMA ControlOrdered ==
  ASSUME TypeOK, OnlyOrdered, processControl
  PROVE  OnlyOrdered'
<1> USE FrameKeepsPoints, ReturnOrdered, ContinueOrdered, BodiesKeepPoints
<1>1. UNCHANGED <<record, lock, urgencyStopState, triggerUrgencyStop>>
  BY DEF processControl, ControlAskStation, ControlAlreadyWorking,
     ControlWakeUp, ControlMechanism, ControlFirstPoint, ControlEnsured, ControlNextPoint,
     ControlLastPoint, ControlUndefined, ControlGoBase, ControlEnd, ControlNothing,
     controlFrame
<1>2. UNCHANGED pointDeque
  BY DEF processControl, ControlAskStation, ControlAlreadyWorking,
     ControlWakeUp, ControlMechanism, ControlFirstPoint, ControlEnsured, ControlNextPoint,
     ControlLastPoint, ControlUndefined, ControlGoBase, ControlEnd, ControlNothing
<1>3. Ordered(job') /\ (again' => again) /\ pc' # "stop"
  <2>1. CASE ControlAlreadyWorking
    <3>1. pc' = "auto" /\ job' = FlowPoint("END_SLEEP", TRUE) /\ UNCHANGED again
      BY <2>1 DEF ControlAlreadyWorking
    <3> QED BY <3>1, MadePoints DEF FlowId
  <2>2. CASE ~ControlAlreadyWorking
    BY <2>2 DEF processControl, ControlAskStation, ControlWakeUp, ControlMechanism,
       ControlFirstPoint, ControlEnsured, ControlNextPoint, ControlLastPoint,
       ControlUndefined, ControlGoBase, ControlEnd, ControlNothing
  <2> QED BY <2>1, <2>2
<1> QED BY <1>1, <1>2, <1>3 DEF OnlyOrdered, Stopping

(* What the other threads push, and what the operator orders.               *)
LEMMA OtherThreadsOrdered ==
  ASSUME TypeOK, OnlyOrdered,
         \/ NodesAwake \/ SleepGivenUp \/ EventLoop \/ Navigation \/ StationResult
         \/ Operator \/ Launch
  PROVE  OnlyOrdered'
<1>1. CASE NodesAwake \/ SleepGivenUp
  <2>1. PICK ok \in BOOLEAN : Push(FlowPoint("END_SLEEP", ok))
    BY <1>1 DEF NodesAwake, SleepGivenUp
  <2>2. \A i \in DOMAIN pointDeque' : Ordered(pointDeque'[i])
    BY <2>1, MadePoints, PushedPoint DEF FlowId
  <2>3. Return /\ UNCHANGED <<memoVars, inputVars>>
    BY <1>1 DEF NodesAwake, SleepGivenUp, AwakeFrame
  <2> QED BY <2>2, <2>3, ReturnOrdered, FrameKeepsPoints DEF OnlyOrdered, Stopping
<1>2. CASE Launch
  BY <1>2 DEF Launch, LaunchTask, LaunchRefused, memoVars, stackVars, inputVars, triggerVars,
     OnlyOrdered, Stopping
<1>3. CASE EventLoop \/ Navigation \/ StationResult \/ Operator
  <2>1. UNCHANGED <<record, lock, job, again>>
    <3>1. UNCHANGED dispatcherVars
      BY <1>3 DEF EventLoop, LoopSchedule, MechanismTimer, SleepTimer, NavTimer, Navigation,
         NavDone, NavCallback, NavAnswer, StationResult, Operator, ManualBack,
         ManualForceBack, ManualResume, ManualPause, EnterManual, QuitManual, StopAndCharge,
         ForceBackToBase, UrgencyStop, UnrecoverableError, Ask, Order, commandFrame
    <3> QED BY <3>1 DEF dispatcherVars, memoVars
  <2>2. pc' \in {pc, "undefined"}
    BY <1>3, OtherThreadsKeepRows
  <2>3. UNCHANGED pointDeque \/ \E p : Ordered(p) /\ Push(p)
    <3>1. ASSUME NEW ok, Answer(ok)
          PROVE  UNCHANGED pointDeque \/ \E p : Ordered(p) /\ Push(p)
      BY <3>1, MadePoints DEF Answer, FlowId
    <3>2. CASE EventLoop
      BY <3>1, <3>2, MadePoints DEF EventLoop, LoopSchedule, MechanismTimer, SleepTimer,
         NavTimer, FlowId
    <3>3. CASE Navigation
      BY <3>1, <3>3 DEF Navigation, NavDone, NavCallback, NavAnswer
    <3>4. CASE StationResult
      BY <3>4, MadePoints DEF StationResult, FlowId
    <3>5. ASSUME NEW id \in ReturnId, Ask(id)
          PROVE  \E p : Ordered(p) /\ Push(p)
      BY <3>5, MadePoints DEF Ask
    <3>6. CASE ManualBack \/ ManualForceBack \/ ForceBackToBase
      BY <3>5, <3>6 DEF ManualBack, ManualForceBack, ForceBackToBase, ReturnId
    <3>7. CASE ManualPause \/ EnterManual
      BY <3>7, MadePoints DEF ManualPause, EnterManual, Order
    <3>8. CASE ManualResume
      BY <3>8, MadePoints DEF ManualResume, Order, Command, Asked
    <3>9. CASE QuitManual
      BY <3>9, MadePoints DEF QuitManual, Order, Command, Asked
    <3>10. CASE StopAndCharge
      BY <3>10, MadePoints DEF StopAndCharge, Order, OnlyOrdered, Stopping
    <3>11. CASE UrgencyStop \/ UnrecoverableError
      BY <3>11 DEF UrgencyStop, UnrecoverableError
    <3> QED BY <1>3, <3>2, <3>3, <3>4, <3>6, <3>7, <3>8, <3>9, <3>10, <3>11 DEF Operator
  <2>4. Stopping' => "urgencyStop" \in Events
    <3>1. CASE UrgencyStop
      BY <3>1 DEF UrgencyStop, Asked
    <3>2. CASE ~UrgencyStop
      <4>1. UNCHANGED <<urgencyStopState, triggerUrgencyStop>>
        BY <1>3, <3>2 DEF EventLoop, LoopSchedule, MechanismTimer, SleepTimer, NavTimer,
           Navigation, NavDone, NavCallback, NavAnswer, StationResult, Operator, ManualBack,
           ManualForceBack, ManualResume, ManualPause, EnterManual, QuitManual,
           StopAndCharge, ForceBackToBase, UnrecoverableError, Ask, Order, commandFrame,
           inputVars, triggerVars
      <4> QED BY <2>2, <4>1 DEF OnlyOrdered, Stopping
    <3> QED BY <3>1, <3>2
  <2>5. \A i \in DOMAIN pointDeque' : Ordered(pointDeque'[i])
    BY <2>3, PushedPoint DEF OnlyOrdered
  <2> QED BY <2>1, <2>4, <2>5 DEF OnlyOrdered
<1> QED BY <1>1, <1>2, <1>3

LEMMA OnlyOrderedHolds == Spec => []OnlyOrdered
<1>1. Init => OnlyOrdered
  <2> SUFFICES ASSUME Init PROVE OnlyOrdered
    OBVIOUS
  <2>1. DOMAIN <<>> = {}
    OBVIOUS
  <2> QED BY <2>1, MadePoints DEF Init, OnlyOrdered, Stopping
<1>2. TypeInv /\ OnlyOrdered /\ [Next]_vars => OnlyOrdered'
  <2> SUFFICES ASSUME TypeInv, OnlyOrdered, [Next]_vars PROVE OnlyOrdered'
    OBVIOUS
  <2>1. CASE Next
    BY <2>1, TakeOrdered, HandlersOrdered, AutoOrdered, ControlOrdered, OtherThreadsOrdered
       DEF Next, Dispatcher, TypeInv
  <2>2. CASE UNCHANGED vars
    BY <2>2 DEF vars, memoVars, stackVars, inputVars, triggerVars, OnlyOrdered, Stopping
  <2> QED BY <2>1, <2>2
<1> QED BY <1>1, <1>2, TypeCorrect, PTL DEF Spec

-----------------------------------------------------------------------------
(* The mode of manual cleaning.  Where no stop is pressed and no pause is   *)
(* resumed, a handler changes the two records of it together: it leaves     *)
(* both, ends the mode, or enters it without a task.                        *)
ModeInv ==
  /\ event_flow = "manual_cleaning" => manualClean
  /\ manualClean => workTask = NoTask /\ event_flow # "waiting_for_task"

NamedFlow == Flow \ {"manual_cleaning", "waiting_for_task"}

ModeStep ==
  \/ /\ UNCHANGED manualClean /\ workTask' \in {workTask, NoTask}
     /\ event_flow' = event_flow \/ event_flow' \notin {"manual_cleaning", "waiting_for_task"}
  \/ ~manualClean' /\ event_flow' # "manual_cleaning"
  \/ manualClean' /\ event_flow' = "manual_cleaning" /\ workTask' = NoTask

LEMMA ModeStepKeeps == ModeInv /\ ModeStep => ModeInv'
BY DEF ModeInv, ModeStep

LEMMA FrameMode ==
  /\ UNCHANGED handlerVars => ModeStep
  /\ UNCHANGED dispatcherVars => ModeStep
BY DEF ModeStep, handlerVars, dispatcherVars, flowVars, modeVars, taskVars

LEMMA BodiesMode ==
  ASSUME TypeOK,
         \/ \E id : TriggerBack(id)
         \/ callPause \/ callManualCleanStart \/ callManualCleanEnd
         \/ goodGame \/ callTaskInterrupt \/ Ignore
         \/ \E f \in NamedFlow \cup {event_flow} :
              \/ CloseMechanism(f) \/ OpenMechanism(f) \/ Proceed(f)
              \/ \E w : AskStation(w, f)
              \/ \E r : GoBase(f, r)
              \/ \E q : GoTo(q, f)
  PROVE  ModeStep
<1>1. CASE \E id : TriggerBack(id)
  BY <1>1 DEF TriggerBack, ReturnFlow, ModeStep
<1>2. CASE callPause \/ callManualCleanEnd
  BY <1>2 DEF callPause, callManualCleanEnd, ModeStep
<1>3. CASE callManualCleanStart
  BY <1>3 DEF callManualCleanStart, StopTask, Reset, KeepTask, taskVars, ModeStep
<1>4. CASE goodGame \/ callTaskInterrupt
  BY <1>4 DEF goodGame, callTaskInterrupt, Reset, ModeStep
<1>5. CASE Ignore
  BY <1>5, FrameMode DEF Ignore
<1>6. CASE \E f \in NamedFlow \cup {event_flow} :
              \/ CloseMechanism(f) \/ OpenMechanism(f) \/ Proceed(f)
              \/ \E w : AskStation(w, f)
              \/ \E r : GoBase(f, r)
              \/ \E q : GoTo(q, f)
  BY <1>6 DEF CloseMechanism, OpenMechanism, Proceed, AskStation, GoBase, GoTo, modeVars,
              taskVars, ModeStep, NamedFlow
<1> QED BY <1>1, <1>2, <1>3, <1>4, <1>5, <1>6

LEMMA DisposeMode ==
  ASSUME TypeOK, NEW f \in NamedFlow,
         \/ \E b \in BOOLEAN : DisposeBasePoint(f, b)
         \/ DisposeMechanism(f) \/ DisposeStation(f)
  PROVE  ModeStep
BY BodiesMode DEF DisposeBasePoint, DisposeMechanism, DisposeStation

LEMMA FlowAfterMode ==
  ASSUME NEW i, NEW ok
  PROVE  FlowAfter(i, ok) \notin {"manual_cleaning", "waiting_for_task"}
BY DEF FlowAfter

NoStop == "urgencyStop" \notin Events

LEMMA HandlersMode ==
  ASSUME TypeOK, OnlyOrdered, ModeInv, NoStop, "resume" \notin Events,
         \/ HandleUnrecoverable \/ handleStop \/ handleTask \/ handlePoint
         \/ handleAutoPoint \/ handleManualPoint \/ handleForcePoint
  PROVE  ModeInv'
<1>1. job.id \notin {"MANUAL_RESUME", "STOP_URGENT_IN_BASE"} /\ ~urgencyStopState /\ pc # "stop"
  BY DEF OnlyOrdered, Ordered, Stopping, NoStop
<1>2. CASE HandleUnrecoverable
  <2>1. ModeStep
    BY <1>2 DEF HandleUnrecoverable, StopTask, Reset, KeepTask, taskVars, ModeStep
  <2> QED BY <2>1, ModeStepKeeps
<1>3. CASE handleStop
  BY <1>1, <1>3 DEF handleStop, IgnoreStop, StopPressed, Released, ReleasedWithoutTask,
     ReleasedWhilePaused, ReleasedReplaying, ReleasedIntoPause
<1>4. CASE handleTask
  <2>1. CASE StartTask
    BY <2>1 DEF StartTask, flowVars, modeVars, ModeInv
  <2>2. CASE DropTask \/ QueueTask
    <3>1. ModeStep
      BY <2>2, FrameMode DEF DropTask, QueueTask, flowVars, modeVars, ModeStep
    <3> QED BY <3>1, ModeStepKeeps
  <2> QED BY <1>4, <2>1, <2>2 DEF handleTask
<1>5. CASE handlePoint
  <2>1. UNCHANGED handlerVars
    BY <1>1, <1>5 DEF handlePoint, StopUrgentWhileStopped, DropPoint, HandlePoint
  <2> QED BY <2>1, FrameMode, ModeStepKeeps
<1>6. CASE handleAutoPoint
  <2>1. CASE AutoFlow
    <3>1. ModeStep
      BY <2>1, FlowAfterMode DEF AutoFlow, modeVars, taskVars, ModeStep
    <3> QED BY <3>1, ModeStepKeeps
  <2>2. CASE AutoReturn \/ AutoPause \/ AutoManualClean \/ AutoPlan
    <3>1. ModeStep
      BY <2>2, BodiesMode, FrameMode DEF AutoReturn, AutoPause, AutoManualClean, AutoPlan
    <3> QED BY <3>1, ModeStepKeeps
  <2> QED BY <1>1, <1>6, <2>1, <2>2 DEF handleAutoPoint, AutoResume, AutoStopUrgent
<1>7. CASE handleManualPoint
  <2>1. ModeStep
    <3>1. CASE ManualCommand \/ ManualIgnore
      BY <3>1, BodiesMode DEF ManualCommand, ManualIgnore
    <3>2. CASE ManualFlow
      <4>1. {"manual_base_point_and_close_mechanism", "manual_mechanism_close_and_charging",
             "manual_back_try_move_base_point"}
              \subseteq NamedFlow
        BY DEF Flow, NamedFlow
      <4> QED BY <3>2, <4>1, DisposeMode DEF ManualFlow
    <3> QED BY <1>1, <1>7, <3>1, <3>2
            DEF handleManualPoint, ManualResumeTask, ManualStopUrgent
  <2> QED BY <2>1, ModeStepKeeps
<1>8. CASE handleForcePoint
  <2>1. {"force_base_point_and_close_mechanism", "manual_control_base_point_and_charging",
         "force_mechanism_close_and_charging", "force_back_try_move_base_point",
         "manual_control_back_try_move_base_point"}
          \subseteq NamedFlow
    BY DEF Flow, NamedFlow
  <2>2. ForceBasePoint \/ ForceStation => ModeStep
    BY <2>1, DisposeMode, BodiesMode DEF ForceBasePoint, ForceStation
  <2>3. ModeStep
    BY <1>1, <1>8, <2>1, <2>2, DisposeMode, BodiesMode
       DEF handleForcePoint, ForceReturn, ForceStopUrgent, ForceFlow, ForceIgnore
  <2> QED BY <2>3, ModeStepKeeps
<1> QED BY <1>2, <1>3, <1>4, <1>5, <1>6, <1>7, <1>8

LEMMA ControlMode ==
  ASSUME TypeOK, ModeInv, processControl
  PROVE  ModeInv'
<1> USE BodiesMode DEF Control
<1>1. {"ensure_move_to_start_point", "flowing_water_production"}
        \subseteq NamedFlow
  BY DEF Flow, NamedFlow
<1>2. CASE ControlAskStation \/ ControlMechanism \/ ControlGoBase \/ ControlWakeUp
  BY <1>2, ModeStepKeeps DEF ControlAskStation, ControlMechanism, ControlGoBase, ControlWakeUp
<1>3. CASE ControlFirstPoint \/ ControlNextPoint \/ ControlEnd
  BY <1>1, <1>3, ModeStepKeeps DEF ControlFirstPoint, ControlNextPoint, ControlEnd
<1>4. CASE ControlEnsured \/ ControlLastPoint
  <2>1. ModeStep
    BY <1>4 DEF ControlEnsured, ControlLastPoint, flowVars, modeVars, taskVars, ModeStep
  <2> QED BY <2>1, ModeStepKeeps
<1>5. CASE ControlAlreadyWorking \/ ControlUndefined \/ ControlNothing
  BY <1>5, FrameMode, ModeStepKeeps DEF ControlAlreadyWorking, ControlUndefined, ControlNothing
<1> QED BY <1>2, <1>3, <1>4, <1>5 DEF processControl

LEMMA OtherThreadsMode ==
  ASSUME ModeInv, \/ Take \/ NodesAwake \/ SleepGivenUp \/ EventLoop \/ Navigation
                  \/ StationResult \/ Operator \/ Launch
  PROVE  ModeInv'
<1>1. UNCHANGED <<event_flow, manualClean, workTask>>
  <2>1. CASE Take
    BY <2>1 DEF Take, TakeUnrecoverable, TakeStop, TakeTask, TakePoint, takeFrame, handlerVars,
       flowVars, modeVars, taskVars
  <2>2. CASE NodesAwake \/ SleepGivenUp
    BY <2>2 DEF NodesAwake, SleepGivenUp, AwakeFrame, flowVars, modeVars, taskVars
  <2>3. CASE Launch
    BY <2>3 DEF Launch, LaunchTask, LaunchRefused, flowVars, modeVars
  <2>4. CASE EventLoop \/ Navigation \/ StationResult \/ Operator
    <3>1. UNCHANGED dispatcherVars
      BY <2>4 DEF EventLoop, LoopSchedule, MechanismTimer, SleepTimer, NavTimer, Navigation,
         NavDone, NavCallback, NavAnswer, StationResult, Operator, ManualBack,
         ManualForceBack, ManualResume, ManualPause, EnterManual, QuitManual, StopAndCharge,
         ForceBackToBase, UrgencyStop, UnrecoverableError, Ask, Order, commandFrame
    <3> QED BY <3>1 DEF dispatcherVars, flowVars, modeVars, taskVars
  <2> QED BY <2>1, <2>2, <2>3, <2>4
<1> QED BY <1>1 DEF ModeInv

(* Manual cleaning, entered and left at any time and any number of times,   *)
(* with every return, timer and late answer: while manualClean_ is on there *)
(* is no task, and the flow says so.  (An emergency stop breaks it, and a   *)
(* resume leaves the flow to what was recorded.)                            *)
THEOREM ManualModeAgreesHolds ==
  ASSUME "urgencyStop" \notin Events, "resume" \notin Events
  PROVE  Spec => []ManualModeAgrees
<1>1. Init => ModeInv
  BY DEF Init, ModeInv
<1>2. TypeInv /\ OnlyOrdered /\ ModeInv /\ [Next]_vars => ModeInv'
  <2> SUFFICES ASSUME TypeInv, OnlyOrdered, ModeInv, [Next]_vars PROVE ModeInv'
    OBVIOUS
  <2>1. CASE Next
    BY <2>1, HandlersMode, ControlMode, OtherThreadsMode DEF Next, Dispatcher, NoStop, TypeInv
  <2>2. CASE UNCHANGED vars
    BY <2>2 DEF vars, flowVars, modeVars, taskVars, ModeInv
  <2> QED BY <2>1, <2>2
<1>3. ModeInv => ManualModeAgrees
  BY DEF ModeInv, ManualModeAgrees
<1> QED BY <1>1, <1>2, <1>3, TypeCorrect, OnlyOrderedHolds, PTL DEF Spec

-----------------------------------------------------------------------------
(* The row that says "executing".  A second task is started only in the     *)
(* flow waiting_for_task, so a running task must never be in it: it is for  *)
(* the moment between StartTask and SEIZE_SEAT only.  callResume may bring  *)
(* that flow back, but then with the step of the itinerary that leaves it.  *)
AtSeat == pc = "undefined" \/ (pc = "auto" /\ job.id \in FlowId)

SeatInv ==
  workTask # NoTask =>
    /\ event_flow = "waiting_for_task" => AtSeat
    /\ record.flow = "waiting_for_task" =>
         record.point.id \in FlowId \/ (AtSeat /\ event_flow = "waiting_for_task")

OneExecutes == \A t \in Task : history[t] = "executing" => workTask = t

SeatStep ==
  /\ UNCHANGED record
  /\ \/ workTask' = NoTask
     \/ UNCHANGED workTask /\ (event_flow' = event_flow \/ event_flow' # "waiting_for_task")

LEMMA SeatStepKeeps == SeatInv /\ ~AtSeat /\ SeatStep => SeatInv'
BY DEF SeatInv, SeatStep

LEMMA RowStepExecutes ==
  ASSUME TypeOK, OneExecutes, RowStep
  PROVE  OneExecutes' /\ workTask' \in {workTask, NoTask}
<1>1. CASE KeepsTasks
  BY <1>1 DEF KeepsTasks, OneExecutes
<1>2. CASE EndsTask \/ goodGame
  <2>1. workTask' = NoTask /\ \E o \in Ended : history' = Closed(o)
    BY <1>2, Outcomes DEF EndsTask, goodGame, Reset
  <2>2. PICK o \in Ended : history' = Closed(o)
    BY <2>1
  <2>3. history \in [Task -> HistoryState] /\ o # "executing"
    BY DEF TypeOK, HandlerTypeOK, Ended
  <2>4. SUFFICES ASSUME NEW t \in Task, history'[t] = "executing"
                 PROVE  FALSE
    BY <2>1 DEF OneExecutes
  <2>5. CASE workTask = NoTask
    <3>1. history' = history
      BY <2>2, <2>5 DEF Closed
    <3>2. workTask = t
      BY <2>4, <3>1 DEF OneExecutes
    <3> QED BY <3>2, <2>5, TaskAssumption
  <2>6. CASE workTask # NoTask
    <3>1. history' = [history EXCEPT ![workTask] = o]
      BY <2>2, <2>6 DEF Closed
    <3>2. CASE t = workTask
      BY <2>3, <2>4, <3>1, <3>2
    <3>3. CASE t # workTask
      BY <2>3, <2>4, <3>1, <3>3 DEF OneExecutes
    <3> QED BY <3>2, <3>3
  <2> QED BY <2>5, <2>6
<1> QED BY <1>1, <1>2 DEF RowStep

(* A body that changes the mode as ModeStep says never puts a running task  *)
(* into waiting_for_task, unless it ends the manual cleaning.               *)
LEMMA BodiesSeat ==
  ASSUME TypeOK, UNCHANGED record,
         \/ \E id : TriggerBack(id)
         \/ callPause \/ callManualCleanStart \/ callStopUrgentInBase
         \/ goodGame \/ callTaskInterrupt \/ Ignore
         \/ \E f \in NamedFlow \cup {event_flow} :
              \/ CloseMechanism(f) \/ OpenMechanism(f) \/ Proceed(f)
              \/ \E w : AskStation(w, f)
              \/ \E r : GoBase(f, r)
              \/ \E q : GoTo(q, f)
  PROVE  SeatStep
<1>1. CASE \E id : TriggerBack(id)
  BY <1>1 DEF TriggerBack, ReturnFlow, SeatStep
<1>2. CASE callPause
  BY <1>2 DEF callPause, SeatStep
<1>3. CASE callManualCleanStart \/ callStopUrgentInBase
  BY <1>3 DEF callManualCleanStart, callStopUrgentInBase, StopTask, Reset, KeepTask, taskVars,
              flowVars, SeatStep
<1>4. CASE goodGame \/ callTaskInterrupt
  BY <1>4 DEF goodGame, callTaskInterrupt, Reset, SeatStep
<1>5. CASE Ignore
  BY <1>5 DEF Ignore, handlerVars, flowVars, taskVars, SeatStep
<1>6. CASE \E f \in NamedFlow \cup {event_flow} :
              \/ CloseMechanism(f) \/ OpenMechanism(f) \/ Proceed(f)
              \/ \E w : AskStation(w, f)
              \/ \E r : GoBase(f, r)
              \/ \E q : GoTo(q, f)
  BY <1>6 DEF CloseMechanism, OpenMechanism, Proceed, AskStation, GoBase, GoTo,
              taskVars, SeatStep, NamedFlow
<1> QED BY <1>1, <1>2, <1>3, <1>4, <1>5, <1>6

LEMMA DisposeSeat ==
  ASSUME TypeOK, UNCHANGED record, NEW f \in NamedFlow,
         \/ \E b \in BOOLEAN : DisposeBasePoint(f, b)
         \/ DisposeMechanism(f) \/ DisposeStation(f)
  PROVE  SeatStep
BY BodiesSeat DEF DisposeBasePoint, DisposeMechanism, DisposeStation

LEMMA AutoSeat ==
  ASSUME TypeOK, OnlyOrdered, SeatInv, "quitManual" \notin Events, handleAutoPoint
  PROVE  SeatInv'
<1> USE FrameKeepsPoints
<1>1. job.id # "MANUAL_CLEAN_END"
  BY DEF OnlyOrdered, Ordered
<1>2. pc = "auto"
  BY DEF handleAutoPoint, AutoReturn, AutoPause, AutoResume, AutoManualClean, AutoStopUrgent,
         AutoFlow, AutoPlan
<1>3. CASE AutoReturn \/ AutoPause \/ AutoManualClean \/ AutoStopUrgent
  <2>1. UNCHANGED record
    BY <1>3 DEF AutoReturn, AutoPause, AutoManualClean, AutoStopUrgent
  <2>2. ~AtSeat
    BY <1>2, <1>3 DEF AtSeat, AutoReturn, AutoPause, AutoManualClean, AutoStopUrgent, ReturnId,
       FlowId
  <2>3. SeatStep
    BY <1>1, <1>3, <2>1, BodiesSeat DEF AutoReturn, AutoPause, AutoManualClean, AutoStopUrgent
  <2> QED BY <2>2, <2>3, SeatStepKeeps
<1>4. CASE AutoResume
  <2>1. /\ pc' = "auto" /\ job' = record.point /\ event_flow' = record.flow
        /\ UNCHANGED <<record, workTask>>
    BY <1>4 DEF AutoResume, callResume, taskVars
  <2>2. ~AtSeat
    BY <1>2, <1>4 DEF AtSeat, AutoResume, FlowId
  <2> QED BY <2>1, <2>2 DEF SeatInv, AtSeat
<1>5. CASE AutoFlow
  <2>1. /\ record'.point = job /\ UNCHANGED workTask /\ job.id \in FlowId
        /\ event_flow' # "waiting_for_task"
    BY <1>5, FlowAfterMode DEF AutoFlow, Remember, taskVars
  <2> QED BY <2>1 DEF SeatInv
<1>6. CASE AutoPlan
  <2>1. /\ record'.flow = event_flow /\ UNCHANGED <<workTask, event_flow>> /\ job.id = "PLAN"
    BY <1>6 DEF AutoPlan, Remember, handlerVars, taskVars, flowVars
  <2>2. ~AtSeat
    BY <1>2, <2>1 DEF AtSeat, FlowId
  <2> QED BY <2>1, <2>2 DEF SeatInv
<1> QED BY <1>3, <1>4, <1>5, <1>6 DEF handleAutoPoint

LEMMA ManualForceSeat ==
  ASSUME TypeOK, OnlyOrdered, SeatInv, "quitManual" \notin Events,
         handleManualPoint \/ handleForcePoint
  PROVE  SeatInv'
<1> USE FrameKeepsPoints
<1>1. job.id # "MANUAL_CLEAN_END"
  BY DEF OnlyOrdered, Ordered
<1>2. ~AtSeat
  BY DEF AtSeat, handleManualPoint, ManualCommand, ManualResumeTask, ManualStopUrgent,
     ManualFlow, ManualIgnore, handleForcePoint, ForceReturn, ForceStopUrgent, ForceFlow,
     ForceIgnore
<1>3. CASE ManualResumeTask
  <2>1. /\ pc' = "auto" /\ job' = record.point /\ event_flow' = record.flow
        /\ UNCHANGED <<record, workTask>>
    BY <1>3 DEF ManualResumeTask, callResume, taskVars
  <2> QED BY <1>2, <2>1 DEF SeatInv, AtSeat
<1>4. CASE ManualCommand \/ ManualStopUrgent \/ ManualFlow \/ ManualIgnore
  <2>1. UNCHANGED record
    BY <1>4 DEF ManualCommand, ManualStopUrgent, ManualFlow, ManualIgnore
  <2>2. {"manual_base_point_and_close_mechanism", "manual_mechanism_close_and_charging",
         "manual_back_try_move_base_point"} \subseteq NamedFlow
    BY DEF Flow, NamedFlow
  <2>3. SeatStep
    BY <1>1, <1>4, <2>1, <2>2, BodiesSeat, DisposeSeat
       DEF ManualCommand, ManualStopUrgent, ManualFlow, ManualIgnore
  <2> QED BY <1>2, <2>3, SeatStepKeeps
<1>5. CASE handleForcePoint
  <2>1. UNCHANGED record
    BY <1>5 DEF handleForcePoint, ForceReturn, ForceStopUrgent, ForceFlow, ForceIgnore
  <2>2. {"force_base_point_and_close_mechanism", "manual_control_base_point_and_charging",
         "force_mechanism_close_and_charging", "force_back_try_move_base_point",
         "manual_control_back_try_move_base_point"} \subseteq NamedFlow
    BY DEF Flow, NamedFlow
  <2>3. ForceBasePoint \/ ForceStation => SeatStep
    BY <2>1, <2>2, DisposeSeat, BodiesSeat DEF ForceBasePoint, ForceStation
  <2>4. SeatStep
    BY <1>5, <2>1, <2>2, <2>3, DisposeSeat, BodiesSeat
       DEF handleForcePoint, ForceReturn, ForceStopUrgent, ForceFlow, ForceIgnore
  <2> QED BY <1>2, <2>4, SeatStepKeeps
<1> QED BY <1>3, <1>4, <1>5 DEF handleManualPoint

LEMMA ControlSeat ==
  ASSUME TypeOK, SeatInv, processControl
  PROVE  SeatInv'
<1> USE FrameKeepsPoints DEF Control, controlFrame
<1>1. UNCHANGED record
  BY DEF processControl, ControlAskStation, ControlAlreadyWorking,
     ControlWakeUp, ControlMechanism, ControlFirstPoint, ControlEnsured, ControlNextPoint,
     ControlLastPoint, ControlUndefined, ControlGoBase, ControlEnd, ControlNothing
<1>2. ~AtSeat
  BY DEF AtSeat, processControl, ControlAskStation, ControlAlreadyWorking,
     ControlWakeUp, ControlMechanism, ControlFirstPoint, ControlEnsured, ControlNextPoint,
     ControlLastPoint, ControlUndefined, ControlGoBase, ControlEnd, ControlNothing
<1>3. {"ensure_move_to_start_point", "flowing_water_production"} \subseteq NamedFlow
  BY DEF Flow, NamedFlow
<1>4. SeatStep
  <2>1. CASE \/ ControlAskStation \/ ControlMechanism \/ ControlGoBase \/ ControlWakeUp
             \/ ControlFirstPoint \/ ControlNextPoint \/ ControlEnd
    BY <1>1, <1>3, <2>1, BodiesSeat
       DEF ControlAskStation, ControlMechanism, ControlGoBase, ControlWakeUp,
           ControlFirstPoint, ControlNextPoint, ControlEnd
  <2>2. CASE \/ ControlEnsured \/ ControlLastPoint \/ ControlAlreadyWorking
             \/ ControlUndefined \/ ControlNothing
    BY <1>1, <2>2 DEF ControlEnsured, ControlLastPoint, ControlAlreadyWorking,
       ControlUndefined, ControlNothing, handlerVars, flowVars, taskVars, SeatStep
  <2> QED BY <2>1, <2>2 DEF processControl
<1> QED BY <1>2, <1>4, SeatStepKeeps

LEMMA OtherSeat ==
  ASSUME TypeInv, SeatInv, OnlyOrdered, NoStop,
         \/ Take \/ HandleUnrecoverable \/ handleStop \/ handleTask \/ handlePoint
         \/ NodesAwake \/ SleepGivenUp \/ EventLoop \/ Navigation \/ StationResult
         \/ Operator \/ Launch
  PROVE  SeatInv'
<1> USE FrameKeepsPoints
<1>1. ~urgencyStopState /\ pc # "stop"
  BY DEF OnlyOrdered, Stopping, NoStop
<1>2. CASE Take
  <2>1. ~AtSeat /\ SeatStep
    BY <1>2 DEF Take, TakeUnrecoverable, TakeStop, TakeTask, TakePoint, takeFrame, handlerVars,
       flowVars, taskVars, memoVars, AtSeat, SeatStep
  <2> QED BY <2>1, SeatStepKeeps
<1>3. CASE HandleUnrecoverable
  <2>1. ~AtSeat /\ SeatStep
    BY <1>3 DEF HandleUnrecoverable, StopTask, Reset, KeepTask, taskVars, AtSeat, SeatStep
  <2> QED BY <2>1, SeatStepKeeps
<1>4. CASE handleStop
  BY <1>1, <1>4 DEF handleStop, IgnoreStop, StopPressed, Released, ReleasedWithoutTask,
     ReleasedWhilePaused, ReleasedReplaying, ReleasedIntoPause
<1>5. CASE StartTask
  BY <1>5 DEF StartTask, SeizeSeat, FlowPoint, FlowId, flowVars, SeatInv, AtSeat
<1>6. CASE DropTask \/ QueueTask \/ handlePoint
  <2>1. ~AtSeat /\ SeatStep
    BY <1>1, <1>6 DEF DropTask, QueueTask, handlePoint, StopUrgentWhileStopped, DropPoint,
       HandlePoint, handlerVars, flowVars, taskVars, memoVars, AtSeat, SeatStep
  <2> QED BY <2>1, SeatStepKeeps
<1>7. CASE NodesAwake \/ SleepGivenUp
  <2>1. ~AtSeat /\ SeatStep
    BY <1>7 DEF NodesAwake, SleepGivenUp, AwakeFrame, flowVars, taskVars, AtSeat, SeatStep
  <2> QED BY <2>1, SeatStepKeeps
<1>8. CASE EventLoop \/ Navigation \/ StationResult \/ Operator \/ Launch
  <2>1. UNCHANGED <<event_flow, workTask, record, job>> /\ pc' \in {pc, "undefined"}
    <3>1. CASE Launch
      BY <3>1 DEF Launch, LaunchTask, LaunchRefused, flowVars, memoVars, stackVars
    <3>2. CASE EventLoop \/ Navigation \/ StationResult \/ Operator
      <4>1. UNCHANGED dispatcherVars
        BY <3>2 DEF EventLoop, LoopSchedule, MechanismTimer, SleepTimer, NavTimer, Navigation,
           NavDone, NavCallback, NavAnswer, StationResult, Operator, ManualBack,
           ManualForceBack, ManualResume, ManualPause, EnterManual, QuitManual,
           StopAndCharge, ForceBackToBase, UrgencyStop, UnrecoverableError, Ask, Order,
           commandFrame
      <4> QED BY <3>2, <4>1, OtherThreadsKeepRows DEF dispatcherVars, flowVars, taskVars, memoVars
    <3> QED BY <1>8, <3>1, <3>2
  <2> QED BY <2>1 DEF SeatInv, AtSeat
<1> QED BY <1>2, <1>3, <1>4, <1>5, <1>6, <1>7, <1>8 DEF handleTask

LEMMA OneExecutesStep ==
  ASSUME TypeInv, RowInv, SeatInv, OneExecutes, [Next]_vars
  PROVE  OneExecutes'
<1>1. CASE StartTask
  <2>1. workTask = NoTask /\ workTask' = jobTask
        /\ history' = [history EXCEPT ![jobTask] = "executing"]
    BY <1>1 DEF StartTask, SeatInv, AtSeat
  <2>2. \A t \in Task : history[t] # "executing"
    BY <2>1, TaskAssumption DEF OneExecutes
  <2> QED BY <2>1, <2>2 DEF OneExecutes, TypeInv, TypeOK, HandlerTypeOK
<1>2. CASE Launch
  <2>1. UNCHANGED workTask
        /\ \E t \in Task : \E x \in {"waiting", "launchFailed"} : history' = [history EXCEPT ![t] = x]
    BY <1>2 DEF Launch, LaunchTask, LaunchRefused
  <2> QED BY <2>1 DEF OneExecutes, TypeInv, TypeOK, HandlerTypeOK
<1>3. CASE Take \/ DropTask \/ QueueTask \/ UNCHANGED vars
  BY <1>3 DEF Take, TakeUnrecoverable, TakeStop, TakeTask, TakePoint, takeFrame, handlerVars,
     taskVars, DropTask, QueueTask, vars, OneExecutes
<1>4. CASE \/ HandleUnrecoverable \/ handleStop \/ handlePoint \/ handleAutoPoint
           \/ handleManualPoint \/ handleForcePoint \/ processControl
           \/ NodesAwake \/ SleepGivenUp
  BY <1>4, HandlersKeepRows, RowStepExecutes DEF TypeInv
<1>5. CASE EventLoop \/ Navigation \/ StationResult \/ Operator
  BY <1>5, OtherThreadsKeepRows, RowStepExecutes DEF TypeInv, RowStep
<1> QED BY <1>1, <1>2, <1>3, <1>4, <1>5 DEF Next, Dispatcher, handleTask

LEMMA SeatInvHolds ==
  ASSUME "urgencyStop" \notin Events, "quitManual" \notin Events
  PROVE  Spec => []SeatInv
<1>1. Init => SeatInv
  BY DEF Init, SeatInv
<1>2. TypeInv /\ OnlyOrdered /\ SeatInv /\ [Next]_vars => SeatInv'
  <2> SUFFICES ASSUME TypeInv, OnlyOrdered, SeatInv, [Next]_vars PROVE SeatInv'
    OBVIOUS
  <2>1. CASE Next
    BY <2>1, AutoSeat, ManualForceSeat, ControlSeat, OtherSeat
       DEF Next, Dispatcher, NoStop, TypeInv
  <2>2. CASE UNCHANGED vars
    <3>1. UNCHANGED <<event_flow, workTask, record, pc, job>>
      BY <2>2 DEF vars, flowVars, taskVars, memoVars, stackVars
    <3> QED BY <3>1 DEF SeatInv, AtSeat
  <2> QED BY <2>1, <2>2
<1> QED BY <1>1, <1>2, TypeCorrect, OnlyOrderedHolds, PTL DEF Spec

(* Without the emergency stop, and without a command to quit the manual     *)
(* cleaning (given twice, its second point comes when a task may be running *)
(* and puts it into waiting_for_task): exactly the task worked on has an    *)
(* executing row, through every pause, return, failure and late answer.     *)
THEOREM ExecutingIsWorkTaskHolds ==
  ASSUME "urgencyStop" \notin Events, "quitManual" \notin Events
  PROVE  Spec => []ExecutingIsWorkTask
<1>1. Init => OneExecutes
  BY DEF Init, OneExecutes
<1>2. TypeInv /\ RowInv /\ SeatInv /\ OneExecutes /\ [Next]_vars => OneExecutes'
  BY OneExecutesStep
<1>3. TypeInv /\ RowInv /\ OneExecutes => ExecutingIsWorkTask
  BY TaskAssumption DEF RowInv, WorkTaskExecutes, OneExecutes, ExecutingIsWorkTask
<1> QED BY <1>1, <1>2, <1>3, TypeCorrect, RowInvHolds, SeatInvHolds, PTL DEF Spec
=============================================================================
