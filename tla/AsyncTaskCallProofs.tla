------------------------- MODULE AsyncTaskCallProofs -------------------------
(***************************************************************************)
(* Theorems about the task executor, for every set of tasks, every plan    *)
(* length, every bound and every set of outside events.                    *)
(*                                                                         *)
(* The handlers are bodies that several actions share; the lemmas say what *)
(* each body does to the variables a handler may change, and the steps of  *)
(* the theorems add what the action does to the call stack.                *)
(***************************************************************************)
EXTENDS AsyncTaskCall, TLAPS

(* The points the code builds are points. *)
LEMMA PointTypes ==
  /\ NullPoint \in Point /\ SeizeSeat \in Point
  /\ \A i \in SpecialId : Special(i) \in Point
  /\ \A i \in FlowId \cup ReturnId, a \in BOOLEAN : FlowPoint(i, a) \in Point
  /\ \A k \in 1 .. PlanSize, a \in BOOLEAN : PlanPoint(k, a) \in Point
BY PlanAssumption
   DEF NullPoint, SeizeSeat, Special, FlowPoint, PlanPoint, Point, SpecialId,
       FlowId, ReturnId

(* The ends of a queue are elements of it, and a prepended element stays in. *)
LEMMA QueueTypes ==
  ASSUME NEW S, NEW q \in Seq(S), q # <<>>
  PROVE  /\ Head(q) \in S /\ Tail(q) \in Seq(S) /\ Last(q) \in S
         /\ <<Head(q)>> \o q \in Seq(S)
<1>1. Len(q) \in Nat \ {0} /\ Head(q) \in S /\ Tail(q) \in Seq(S)
  OBVIOUS
<1>2. Last(q) \in S
  BY <1>1 DEF Last
<1>3. <<Head(q)>> \o q \in Seq(S)
  BY <1>1
<1> QED BY <1>1, <1>2, <1>3

-----------------------------------------------------------------------------
(* The calls made by the handlers. *)
Timers == [queued : SUBSET TimerKind, live : SUBSET TimerKind]
Goals == {"none", "plan", "base", "cancelled"}
Retries == [base : 0 .. MaxBaseRetry, recharge : 0 .. MaxRechargeRetry]

LEMMA PushTypes ==
  ASSUME HandlerTypeOK, NEW p \in Point, Push(p)
  PROVE  pointDeque' \in Seq(Point)
BY DEF HandlerTypeOK, Push

LEMMA CancelTypes ==
  ASSUME HandlerTypeOK
  PROVE  /\ CancelGoal => goal' \in Goals
         /\ CancelAny => timers' \in Timers
BY DEF HandlerTypeOK, CancelGoal, Cancelled, CancelAny, Goals, Timers

LEMMA ScheduleTypes ==
  ASSUME HandlerTypeOK, NEW k \in TimerKind, ScheduleLater(k)
  PROVE  timers' \in Timers
BY DEF HandlerTypeOK, ScheduleLater, Timers

LEMMA ClosedTypes ==
  ASSUME HandlerTypeOK, NEW h \in HistoryState
  PROVE  Closed(h) \in [Task -> HistoryState]
BY DEF HandlerTypeOK, Closed

LEMMA ResetTypes ==
  ASSUME HandlerTypeOK, NEW manual \in BOOLEAN, Reset(manual)
  PROVE  /\ plannerQueue' \in Seq(1 .. PlanSize)
         /\ workTask' \in Task \cup {NoTask}
         /\ sleepTimeout' \in BOOLEAN
         /\ retries' \in Retries
         /\ arrive' \in [ReturnId -> BOOLEAN]
         /\ pauseInterception' \in BOOLEAN
         /\ manualClean' \in BOOLEAN
<1>1. retries' \in Retries
  BY RetryAssumption DEF Reset, Retries
<1>2. arrive' \in [ReturnId -> BOOLEAN]
  BY DEF HandlerTypeOK, Reset
<1>3. sleepTimeout' \in BOOLEAN /\ pauseInterception' \in BOOLEAN
      /\ manualClean' \in BOOLEAN
  BY Zenon DEF Reset
<1>4. plannerQueue' \in Seq(1 .. PlanSize) /\ workTask' \in Task \cup {NoTask}
  BY DEF Reset
<1> QED BY <1>1, <1>2, <1>3, <1>4

LEMMA StopTaskTypes ==
  ASSUME HandlerTypeOK, NEW h \in HistoryState, NEW manual \in BOOLEAN,
         StopTask(h, manual)
  PROVE  /\ plannerQueue' \in Seq(1 .. PlanSize)
         /\ workTask' \in Task \cup {NoTask}
         /\ waitTaskQueue' \in Seq(Task)
         /\ history' \in [Task -> HistoryState]
         /\ sleepTimeout' \in BOOLEAN
         /\ retries' \in Retries
         /\ arrive' \in [ReturnId -> BOOLEAN]
         /\ pauseInterception' \in BOOLEAN
         /\ manualClean' \in BOOLEAN
         /\ goal' \in Goals
         /\ timers' \in Timers
<1>1. Reset(manual) /\ CancelGoal /\ CancelAny /\ history' = Closed(h)
      /\ waitTaskQueue' = <<>>
  BY DEF StopTask
<1> QED BY <1>1, ResetTypes, CancelTypes, ClosedTypes

-----------------------------------------------------------------------------
(* The bodies of the handlers preserve the types of what they change. *)
LEMMA TriggerBackTypes ==
  ASSUME HandlerTypeOK, NEW id \in ReturnId, TriggerBack(id)
  PROVE  HandlerTypeOK'
<1>1. event_flow' \in Flow /\ event_status' \in Status
  BY DEF TriggerBack, ReturnStatus, ReturnFlow, Flow, Status
<1>2. pauseInterception' \in BOOLEAN
  BY DEF TriggerBack
<1>3. timers' \in Timers
  BY CancelTypes DEF TriggerBack
<1> QED
  BY <1>1, <1>2, <1>3
     DEF HandlerTypeOK, TriggerBack, BackBasePoint, Timers, hardwareVars

LEMMA CallPauseTypes ==
  ASSUME HandlerTypeOK, callPause
  PROVE  HandlerTypeOK'
<1>1. event_flow' \in Flow /\ event_status' \in Status
  BY DEF callPause, Flow, Status
<1>2. goal' \in Goals /\ timers' \in Timers
  BY CancelTypes DEF callPause
<1>3. plannerQueue' \in Seq(1 .. PlanSize)
  BY QueueTypes DEF HandlerTypeOK, callPause
<1> QED
  BY <1>1, <1>2, <1>3
     DEF HandlerTypeOK, callPause, Goals, Timers, hardwareVars, ghostVars

LEMMA CallResumeTypes ==
  ASSUME HandlerTypeOK, MemoTypeOK, callResume
  PROVE  HandlerTypeOK'
<1>1. event_flow' \in Flow /\ event_status' \in Status
  BY DEF callResume, MemoTypeOK, Status
<1> QED
  BY <1>1 DEF HandlerTypeOK, callResume, taskVars, hardwareVars, ghostVars

LEMMA ManualCleanTypes ==
  ASSUME HandlerTypeOK, callManualCleanStart \/ callManualCleanEnd
  PROVE  HandlerTypeOK'
<1>1. event_flow' \in Flow /\ event_status' \in Status
  BY DEF callManualCleanStart, callManualCleanEnd, Flow, Status
<1>2. CASE callManualCleanStart /\ StopTask("enterManualCleanMode", TRUE)
  <2>1. "enterManualCleanMode" \in HistoryState
    BY DEF HistoryState
  <2> QED
    BY <1>1, <1>2, <2>1, StopTaskTypes
       DEF HandlerTypeOK, callManualCleanStart, ghostVars, Goals, Timers, Retries
<1>3. CASE callManualCleanStart /\ KeepTask /\ manualClean' = TRUE
  BY <1>1, <1>3 DEF HandlerTypeOK, callManualCleanStart, KeepTask, taskVars, ghostVars
<1>4. CASE callManualCleanEnd
  BY <1>1, <1>4 DEF HandlerTypeOK, callManualCleanEnd, KeepTask, taskVars, ghostVars
<1> QED BY <1>2, <1>3, <1>4 DEF callManualCleanStart

LEMMA StopUrgentTypes ==
  ASSUME HandlerTypeOK, callStopUrgentInBase
  PROVE  HandlerTypeOK'
<1>1. CASE StopTask("specialComplete", FALSE)
  <2>1. "specialComplete" \in HistoryState
    BY DEF HistoryState
  <2> QED
    BY <1>1, <2>1, StopTaskTypes
       DEF HandlerTypeOK, callStopUrgentInBase, flowVars, ghostVars, Goals, Timers,
           Retries
<1>2. CASE KeepTask /\ UNCHANGED manualClean
  BY <1>2 DEF HandlerTypeOK, callStopUrgentInBase, KeepTask, taskVars, flowVars,
              ghostVars
<1> QED BY <1>1, <1>2 DEF callStopUrgentInBase

LEMMA GoodGameTypes ==
  ASSUME HandlerTypeOK, goodGame
  PROVE  HandlerTypeOK'
<1>1. event_flow' \in Flow /\ event_status' \in Status /\ Reset(FALSE)
  BY DEF goodGame, Flow, Status
<1>2. history' \in [Task -> HistoryState]
  BY ClosedTypes DEF goodGame, HistoryState
<1>3. taskDeque' \in Seq(Task) /\ waitTaskQueue' \in Seq(Task)
  <2>1. CASE waitTaskQueue = <<>>
    BY <2>1 DEF HandlerTypeOK, goodGame
  <2>2. CASE waitTaskQueue # <<>>
    <3>1. Head(waitTaskQueue) \in Task /\ Tail(waitTaskQueue) \in Seq(Task)
      BY <2>2 DEF HandlerTypeOK
    <3>2. /\ taskDeque' = Append(taskDeque, Head(waitTaskQueue))
          /\ waitTaskQueue' = Tail(waitTaskQueue)
      BY <2>2 DEF goodGame
    <3>3. taskDeque \in Seq(Task)
      BY DEF HandlerTypeOK
    <3> QED BY <3>1, <3>2, <3>3
  <2> QED BY <2>1, <2>2
<1>4. /\ plannerQueue' \in Seq(1 .. PlanSize)
      /\ workTask' \in Task \cup {NoTask}
      /\ sleepTimeout' \in BOOLEAN
      /\ retries' \in Retries
      /\ arrive' \in [ReturnId -> BOOLEAN]
      /\ pauseInterception' \in BOOLEAN
      /\ manualClean' \in BOOLEAN
  BY <1>1, ResetTypes, Zenon
<1> QED
  BY <1>1, <1>2, <1>3, <1>4
     DEF HandlerTypeOK, goodGame, hardwareVars, ghostVars, Retries

LEMMA TaskInterruptTypes ==
  ASSUME HandlerTypeOK, callTaskInterrupt
  PROVE  HandlerTypeOK'
<1>1. event_flow' \in Flow /\ event_status' \in Status /\ Reset(FALSE)
  BY DEF callTaskInterrupt, Flow, Status
<1>2. history' \in [Task -> HistoryState]
  BY ClosedTypes DEF callTaskInterrupt, HistoryState
<1>3. /\ plannerQueue' \in Seq(1 .. PlanSize)
      /\ workTask' \in Task \cup {NoTask}
      /\ sleepTimeout' \in BOOLEAN
      /\ retries' \in Retries
      /\ arrive' \in [ReturnId -> BOOLEAN]
      /\ pauseInterception' \in BOOLEAN
      /\ manualClean' \in BOOLEAN
  BY <1>1, ResetTypes, Zenon
<1> QED
  BY <1>1, <1>2, <1>3
     DEF HandlerTypeOK, callTaskInterrupt, hardwareVars, ghostVars, Retries

LEMMA ProceedTypes ==
  ASSUME HandlerTypeOK, NEW f \in Flow,
         \/ CloseMechanism(f) \/ OpenMechanism(f)
         \/ AskStation("in", f) \/ AskStation("out", f)
         \/ \E r \in Retries : GoBase(f, r)
  PROVE  HandlerTypeOK'
<1>1. CASE CloseMechanism(f) \/ OpenMechanism(f)
  <2>1. timers' \in Timers
    BY <1>1, ScheduleTypes DEF CloseMechanism, OpenMechanism, TimerKind
  <2> QED
    BY <1>1, <2>1, ZenonT(30)
       DEF HandlerTypeOK, CloseMechanism, OpenMechanism, Proceed, Timers, modeVars,
           taskVars, ghostVars
<1>2. CASE AskStation("in", f) \/ AskStation("out", f)
  BY <1>2, ZenonT(30) DEF HandlerTypeOK, AskStation, Proceed, modeVars, taskVars, ghostVars
<1>3. CASE \E r \in Retries : GoBase(f, r)
  BY <1>3 DEF HandlerTypeOK, GoBase, BackBasePoint, Proceed, Retries, modeVars,
              taskVars, ghostVars
<1> QED BY <1>1, <1>2, <1>3

-----------------------------------------------------------------------------
(* The call stack.  A task is at hand whenever handleTask runs. *)
TaskInHand == pc = "task" => jobTask # NoTask

TypeInv == TypeOK /\ TaskInHand

LEMMA ReturnTypes ==
  ASSUME StackTypeOK, Return
  PROVE  StackTypeOK' /\ TaskInHand'
BY PointTypes DEF StackTypeOK, Return, TaskInHand, PC, SpecialId

LEMMA ContinueTypes ==
  ASSUME StackTypeOK, NEW next \in PC \ {"task"}, Continue(next)
  PROVE  StackTypeOK' /\ TaskInHand'
BY DEF StackTypeOK, Continue, TaskInHand

LEMMA FrameTypes ==
  ASSUME TypeOK
  PROVE  /\ UNCHANGED handlerVars => HandlerTypeOK'
         /\ UNCHANGED <<memoVars, armed>> => MemoTypeOK'
         /\ UNCHANGED outside => OutsideTypeOK'
<1>1. ASSUME UNCHANGED handlerVars PROVE HandlerTypeOK'
  BY <1>1 DEF TypeOK, HandlerTypeOK, handlerVars, flowVars, modeVars, taskVars,
              hardwareVars, ghostVars
<1>2. ASSUME UNCHANGED <<memoVars, armed>> PROVE MemoTypeOK'
  BY <1>2 DEF TypeOK, MemoTypeOK, memoVars
<1>3. ASSUME UNCHANGED outside PROVE OutsideTypeOK'
  BY <1>3 DEF TypeOK, OutsideTypeOK, outside, inputVars, triggerVars
<1> QED BY <1>1, <1>2, <1>3

LEMMA TypeInvInit == Init => TypeInv
<1> SUFFICES ASSUME Init PROVE TypeInv
  OBVIOUS
<1>1. HandlerTypeOK
  <2>1. retries \in Retries
    BY RetryAssumption DEF Init, Retries
  <2>2. /\ history \in [Task -> HistoryState]
        /\ arrive \in [ReturnId -> BOOLEAN]
        /\ timers \in Timers
    BY DEF Init, HistoryState, Timers
  <2>3. event_flow \in Flow /\ event_status \in Status
    BY DEF Init, Flow, Status
  <2>4. /\ waitTaskQueue \in Seq(Task) /\ taskDeque \in Seq(Task)
        /\ plannerQueue \in Seq(1 .. PlanSize) /\ pointDeque \in Seq(Point)
    BY DEF Init
  <2> QED
    BY <2>1, <2>2, <2>3, <2>4 DEF Init, HandlerTypeOK, Retries, Timers
<1>2. MemoTypeOK
  BY PointTypes DEF Init, MemoTypeOK, Flow, Status
<1>3. StackTypeOK /\ TaskInHand
  BY PointTypes DEF Init, StackTypeOK, TaskInHand, PC
<1>4. OutsideTypeOK
  <2>1. commands \in 0 .. MaxCommands
    BY BoundAssumption DEF Init
  <2> QED BY <2>1 DEF Init, OutsideTypeOK
<1> QED BY <1>1, <1>2, <1>3, <1>4 DEF TypeInv, TypeOK

-----------------------------------------------------------------------------
(* One wait of the dispatcher takes one event. *)
LEMMA TakeTypes ==
  ASSUME TypeInv, Take
  PROVE  TypeInv'
<1> USE DEF TypeInv, TypeOK
<1>1. CASE TakeUnrecoverable \/ TakeStop
  <2>1. UNCHANGED takeFrame
    BY <1>1 DEF TakeUnrecoverable, TakeStop
  <2>2. HandlerTypeOK' /\ MemoTypeOK'
    BY <2>1, FrameTypes DEF takeFrame
  <2>3. StackTypeOK' /\ TaskInHand'
    BY <1>1 DEF TakeUnrecoverable, TakeStop, takeFrame, StackTypeOK, TaskInHand, PC
  <2>4. OutsideTypeOK'
    BY <1>1 DEF TakeUnrecoverable, TakeStop, takeFrame, OutsideTypeOK
  <2> QED BY <2>2, <2>3, <2>4
<1>2. CASE TakeTask
  <2>1. Last(taskDeque) \in Task
    BY <1>2, QueueTypes DEF TakeTask, HandlerTypeOK
  <2>2. HandlerTypeOK'
    BY <1>2 DEF TakeTask, HandlerTypeOK, flowVars, modeVars, taskVars,
                hardwareVars, ghostVars
  <2>3. StackTypeOK' /\ TaskInHand'
    BY <1>2, <2>1, TaskAssumption DEF TakeTask, StackTypeOK, TaskInHand, PC
  <2>4. MemoTypeOK' /\ OutsideTypeOK'
    BY <1>2 DEF TakeTask, MemoTypeOK, OutsideTypeOK, memoVars, inputVars, triggerVars
  <2> QED BY <2>2, <2>3, <2>4
<1>3. CASE TakePoint
  <2>1. Last(pointDeque) \in Point
    BY <1>3, QueueTypes DEF TakePoint, HandlerTypeOK
  <2>2. HandlerTypeOK'
    BY <1>3 DEF TakePoint, HandlerTypeOK, flowVars, modeVars, taskVars,
                hardwareVars, ghostVars
  <2>3. StackTypeOK' /\ TaskInHand'
    BY <1>3, <2>1 DEF TakePoint, StackTypeOK, TaskInHand, PC
  <2>4. MemoTypeOK' /\ OutsideTypeOK'
    BY <1>3 DEF TakePoint, MemoTypeOK, OutsideTypeOK, memoVars, inputVars, triggerVars
  <2> QED BY <2>2, <2>3, <2>4
<1> QED BY <1>1, <1>2, <1>3 DEF Take

(* The branch for the unrecoverable error, and the emergency stop. *)
LEMMA UnrecoverableTypes ==
  ASSUME TypeInv, HandleUnrecoverable
  PROVE  TypeInv'
<1> USE DEF TypeInv, TypeOK
<1>1. HandlerTypeOK'
  <2>1. event_flow' \in Flow
    BY DEF HandleUnrecoverable, Flow
  <2>2. CASE StopTask("laserInterrupt", FALSE)
    <3>1. "laserInterrupt" \in HistoryState
      BY DEF HistoryState
    <3> QED
      BY <2>1, <2>2, <3>1, StopTaskTypes
         DEF HandlerTypeOK, HandleUnrecoverable, ghostVars, Goals, Timers, Retries
  <2>3. CASE KeepTask /\ UNCHANGED manualClean
    BY <2>1, <2>3 DEF HandlerTypeOK, HandleUnrecoverable, KeepTask, taskVars,
                      ghostVars
  <2> QED BY <2>2, <2>3 DEF HandleUnrecoverable
<1>2. MemoTypeOK'
  BY PointTypes DEF HandleUnrecoverable, ResetLock, MemoTypeOK, Flow, Status
<1>3. StackTypeOK' /\ TaskInHand' /\ OutsideTypeOK'
  BY ReturnTypes, FrameTypes DEF HandleUnrecoverable
<1> QED BY <1>1, <1>2, <1>3

LEMMA HandleStopTypes ==
  ASSUME TypeInv, handleStop
  PROVE  TypeInv'
<1> USE DEF TypeInv, TypeOK
<1>1. StackTypeOK' /\ TaskInHand' /\ OutsideTypeOK'
  BY ReturnTypes, FrameTypes
     DEF handleStop, IgnoreStop, StopPressed, ReleasedWithoutTask,
         ReleasedWhilePaused, ReleasedReplaying, ReleasedIntoPause
<1>2. CASE IgnoreStop
  BY <1>1, <1>2, FrameTypes DEF IgnoreStop
<1>3. CASE StopPressed
  <2>1. event_flow' \in Flow /\ goal' \in Goals /\ timers' \in Timers
    BY <1>3, CancelTypes DEF StopPressed, Flow
  <2> QED
    BY <1>1, <1>3, <2>1, FrameTypes
       DEF StopPressed, HandlerTypeOK, Goals, Timers, modeVars, taskVars,
           hardwareVars, ghostVars
<1>4. CASE ReleasedWithoutTask
  <2>1. HandlerTypeOK'
    BY <1>4 DEF ReleasedWithoutTask, HandlerTypeOK, Flow, Status, modeVars, taskVars,
                ghostVars
  <2>2. MemoTypeOK'
    BY <1>4, PointTypes DEF ReleasedWithoutTask, ResetLock, MemoTypeOK, Flow, Status
  <2> QED BY <1>1, <2>1, <2>2
<1>5. CASE ReleasedWhilePaused
  <2>1. HandlerTypeOK'
    BY <1>5 DEF ReleasedWhilePaused, HandlerTypeOK, Flow, modeVars, taskVars, ghostVars
  <2> QED BY <1>1, <1>5, <2>1, FrameTypes DEF ReleasedWhilePaused
<1>6. CASE ReleasedReplaying
  <2>1. event_flow' \in Flow /\ event_status' \in Status /\ lock.point \in Point
    BY <1>6 DEF ReleasedReplaying, MemoTypeOK
  <2>2. pointDeque' \in Seq(Point)
    BY <1>6, <2>1, PushTypes DEF ReleasedReplaying
  <2>3. HandlerTypeOK'
    BY <1>6, <2>1, <2>2
       DEF ReleasedReplaying, HandlerTypeOK, modeVars, taskVars, hardwareVars, ghostVars
  <2> QED BY <1>1, <1>6, <2>3, FrameTypes DEF ReleasedReplaying
<1>7. CASE ReleasedIntoPause
  <2>1. event_flow' \in Flow /\ event_status' \in Status
    BY <1>7 DEF ReleasedIntoPause, Flow, Status
  <2>2. goal' \in Goals /\ timers' \in Timers
    BY <1>7, CancelTypes DEF ReleasedIntoPause
  <2>3. plannerQueue' \in Seq(1 .. PlanSize)
    BY <1>7, QueueTypes DEF ReleasedIntoPause, MayNotPause, HandlerTypeOK
  <2>4. HandlerTypeOK'
    BY <1>7, <2>1, <2>2, <2>3
       DEF ReleasedIntoPause, HandlerTypeOK, Goals, Timers, ghostVars
  <2> QED BY <1>1, <1>7, <2>4, FrameTypes DEF ReleasedIntoPause
<1> QED BY <1>2, <1>3, <1>4, <1>5, <1>6, <1>7 DEF handleStop

LEMMA HandleTaskTypes ==
  ASSUME TypeInv, handleTask
  PROVE  TypeInv'
<1> USE DEF TypeInv, TypeOK
<1>1. CASE DropTask
  BY <1>1, ReturnTypes, FrameTypes DEF DropTask
<1>2. CASE StartTask
  <2>1. jobTask \in Task
    BY <1>2 DEF StartTask, StackTypeOK, TaskInHand
  <2>2. history' \in [Task -> HistoryState]
    BY <1>2 DEF StartTask, HandlerTypeOK, HistoryState
  <2>3. plannerQueue' \in Seq(1 .. PlanSize)
    BY <1>2, PlanAssumption DEF StartTask, PlanPoints
  <2>4. retries' \in Retries
    BY <1>2, RetryAssumption DEF StartTask, Retries
  <2>5. HandlerTypeOK'
    BY <1>2, <2>1, <2>2, <2>3, <2>4
       DEF StartTask, HandlerTypeOK, Retries, flowVars, modeVars, hardwareVars
  <2>6. MemoTypeOK' /\ OutsideTypeOK'
    BY <1>2, FrameTypes DEF StartTask, MemoTypeOK, memoVars
  <2>7. StackTypeOK' /\ TaskInHand'
    BY <1>2, PointTypes DEF StartTask, StackTypeOK, TaskInHand, PC
  <2> QED BY <2>5, <2>6, <2>7
<1>3. CASE QueueTask
  <2>1. jobTask \in Task
    BY <1>3 DEF QueueTask, StackTypeOK, TaskInHand
  <2>2. waitTaskQueue' \in Seq(Task)
    BY <1>3, <2>1 DEF QueueTask, HandlerTypeOK
  <2>3. HandlerTypeOK'
    BY <1>3, <2>2 DEF QueueTask, HandlerTypeOK, flowVars, modeVars, hardwareVars,
                      ghostVars
  <2> QED BY <1>3, <2>3, ReturnTypes, FrameTypes DEF QueueTask
<1> QED BY <1>1, <1>2, <1>3 DEF handleTask

LEMMA HandlePointTypes ==
  ASSUME TypeInv, handlePoint
  PROVE  TypeInv'
<1> USE DEF TypeInv, TypeOK
<1>1. CASE StopUrgentWhileStopped
  <2>1. MemoTypeOK'
    BY <1>1, PointTypes DEF StopUrgentWhileStopped, ResetLock, MemoTypeOK, Flow, Status
  <2> QED
    BY <1>1, <2>1, StopUrgentTypes, ReturnTypes, FrameTypes DEF StopUrgentWhileStopped
<1>2. CASE DropPoint
  BY <1>2, ReturnTypes, FrameTypes DEF DropPoint
<1>3. CASE HandlePoint
  <2>1. ModeHandler[event_status] \in PC \ {"task"}
    BY DEF HandlerTypeOK, Status, ModeHandler, PC
  <2>2. MemoTypeOK'
    BY <1>3 DEF HandlePoint, MemoTypeOK, HandlerTypeOK, StackTypeOK
  <2> QED
    BY <1>3, <2>1, <2>2, ContinueTypes, FrameTypes DEF HandlePoint
<1> QED BY <1>1, <1>2, <1>3 DEF handlePoint

-----------------------------------------------------------------------------
(* The three handlers of a point. *)
LEMMA FlowAfterTypes ==
  ASSUME HandlerTypeOK, NEW i, NEW ok \in BOOLEAN
  PROVE  FlowAfter(i, ok) \in Flow /\ RetriesAfter(i, ok) \in Retries
<1>1. FlowAfter(i, ok) \in Flow
  BY DEF FlowAfter, Flow
<1>2. RetriesAfter(i, ok) \in Retries
  <2>1. retries \in Retries
    BY DEF HandlerTypeOK, Retries
  <2>2. ASSUME retries.base < MaxBaseRetry PROVE MoreBase \in Retries
    BY <2>1, <2>2, RetryAssumption DEF Retries, MoreBase
  <2>3. ASSUME retries.recharge < MaxRechargeRetry
        PROVE  [retries EXCEPT !.recharge = @ + 1] \in Retries
    BY <2>1, <2>3, RetryAssumption DEF Retries
  <2> QED BY <2>1, <2>2, <2>3 DEF RetriesAfter
<1> QED BY <1>1, <1>2

LEMMA AutoTypes ==
  ASSUME TypeInv, handleAutoPoint
  PROVE  TypeInv'
<1> USE DEF TypeInv, TypeOK
<1>0. "control" \in PC \ {"task"}
  BY DEF PC
<1>1. CASE AutoReturn
  BY <1>0, <1>1, TriggerBackTypes, ContinueTypes, FrameTypes DEF AutoReturn
<1>2. CASE AutoPause
  BY <1>0, <1>2, CallPauseTypes, ContinueTypes, FrameTypes DEF AutoPause
<1>3. CASE AutoResume
  <2>1. StackTypeOK' /\ TaskInHand'
    BY <1>3 DEF AutoResume, StackTypeOK, MemoTypeOK, TaskInHand, PC
  <2> QED BY <1>3, <2>1, CallResumeTypes, FrameTypes DEF AutoResume
<1>4. CASE AutoManualClean
  BY <1>0, <1>4, ManualCleanTypes, ContinueTypes, FrameTypes DEF AutoManualClean
<1>5. CASE AutoStopUrgent
  <2>1. MemoTypeOK'
    BY <1>5, PointTypes DEF AutoStopUrgent, ResetLock, MemoTypeOK, Flow, Status
  <2> QED BY <1>0, <1>5, <2>1, StopUrgentTypes, ContinueTypes, FrameTypes
             DEF AutoStopUrgent
<1>6. CASE AutoFlow
  <2>1. event_flow' \in Flow /\ retries' \in Retries
    BY <1>6, FlowAfterTypes DEF AutoFlow, StackTypeOK, Point
  <2>2. HandlerTypeOK'
    BY <1>6, <2>1 DEF AutoFlow, HandlerTypeOK, Retries, modeVars, taskVars,
                      hardwareVars, ghostVars
  <2>3. MemoTypeOK'
    BY <1>6 DEF AutoFlow, Remember, MemoTypeOK, HandlerTypeOK, StackTypeOK
  <2> QED BY <1>0, <1>6, <2>2, <2>3, ContinueTypes, FrameTypes DEF AutoFlow
<1>7. CASE AutoPlan
  <2>1. MemoTypeOK'
    BY <1>7 DEF AutoPlan, Remember, MemoTypeOK, HandlerTypeOK, StackTypeOK
  <2> QED BY <1>0, <1>7, <2>1, ContinueTypes, FrameTypes DEF AutoPlan
<1> QED BY <1>1, <1>2, <1>3, <1>4, <1>5, <1>6, <1>7 DEF handleAutoPoint

LEMMA DisposeTypes ==
  ASSUME HandlerTypeOK, NEW f \in Flow
  PROVE  /\ \A b \in BOOLEAN : DisposeBasePoint(f, b) => HandlerTypeOK'
         /\ DisposeMechanism(f) => HandlerTypeOK'
         /\ DisposeStation(f) => HandlerTypeOK'
<1>0. retries \in Retries /\ event_flow \in Flow
  BY DEF HandlerTypeOK, Retries
<1>1. ASSUME NEW b \in BOOLEAN, DisposeBasePoint(f, b) PROVE HandlerTypeOK'
  <2>1. ASSUME retries.base < MaxBaseRetry, GoBase(event_flow, MoreBase)
        PROVE  HandlerTypeOK'
    <3>1. MoreBase \in Retries
      BY <1>0, <2>1, RetryAssumption DEF Retries, MoreBase
    <3> QED BY <1>0, <2>1, <3>1, ProceedTypes
  <2> QED
    BY <1>1, <2>1, ProceedTypes, TaskInterruptTypes DEF DisposeBasePoint
<1>2. ASSUME DisposeStation(f) PROVE HandlerTypeOK'
  <2>1. ASSUME retries.recharge < MaxRechargeRetry, GoBase(f, MoreRecharge)
        PROVE  HandlerTypeOK'
    <3>1. MoreRecharge \in Retries
      BY <1>0, <2>1, RetryAssumption DEF Retries, MoreRecharge
    <3> QED BY <1>0, <2>1, <3>1, ProceedTypes
  <2> QED
    BY <1>2, <2>1, GoodGameTypes, TaskInterruptTypes DEF DisposeStation
<1> QED BY <1>1, <1>2, ProceedTypes DEF DisposeMechanism

LEMMA ManualTypes ==
  ASSUME TypeInv, handleManualPoint
  PROVE  TypeInv'
<1> USE DEF TypeInv, TypeOK
<1>1. CASE ManualCommand
  <2>1. HandlerTypeOK'
    BY <1>1, TriggerBackTypes, CallPauseTypes, ManualCleanTypes
       DEF ManualCommand, ReturnId
  <2> QED BY <1>1, <2>1, ReturnTypes, FrameTypes DEF ManualCommand
<1>2. CASE ManualResumeTask
  <2>1. StackTypeOK' /\ TaskInHand'
    BY <1>2 DEF ManualResumeTask, StackTypeOK, MemoTypeOK, TaskInHand, PC
  <2> QED BY <1>2, <2>1, CallResumeTypes, FrameTypes DEF ManualResumeTask
<1>3. CASE ManualStopUrgent
  <2>1. MemoTypeOK'
    BY <1>3, PointTypes DEF ManualStopUrgent, ResetLock, MemoTypeOK, Flow, Status
  <2> QED
    BY <1>3, <2>1, StopUrgentTypes, ReturnTypes, FrameTypes DEF ManualStopUrgent
<1>4. CASE ManualFlow
  <2>1. {"manual_base_point_and_close_mechanism", "manual_back_try_move_base_point",
         "manual_mechanism_close_and_charging"} \subseteq Flow
    BY DEF Flow
  <2>2. HandlerTypeOK'
    BY <1>4, <2>1, DisposeTypes DEF ManualFlow
  <2> QED BY <1>4, <2>2, ReturnTypes, FrameTypes DEF ManualFlow
<1>5. CASE ManualIgnore
  BY <1>5, ReturnTypes, FrameTypes DEF ManualIgnore, Ignore
<1> QED BY <1>1, <1>2, <1>3, <1>4, <1>5 DEF handleManualPoint

LEMMA ForceTypes ==
  ASSUME TypeInv, handleForcePoint
  PROVE  TypeInv'
<1> USE DEF TypeInv, TypeOK
<1>1. CASE ForceReturn
  BY <1>1, TriggerBackTypes, ReturnTypes, FrameTypes DEF ForceReturn
<1>2. CASE ForceStopUrgent
  <2>1. MemoTypeOK'
    BY <1>2, PointTypes DEF ForceStopUrgent, ResetLock, MemoTypeOK, Flow, Status
  <2> QED
    BY <1>2, <2>1, StopUrgentTypes, ReturnTypes, FrameTypes DEF ForceStopUrgent
<1>3. CASE ForceFlow
  <2>1. {"force_base_point_and_close_mechanism",
         "manual_control_base_point_and_charging",
         "force_back_try_move_base_point",
         "manual_control_back_try_move_base_point",
         "force_mechanism_close_and_charging"} \subseteq Flow
    BY DEF Flow
  <2>2. ForceBasePoint \/ ForceStation \/ Ignore
          \/ DisposeMechanism("force_mechanism_close_and_charging")
    BY <1>3 DEF ForceFlow
  <2>3. ForceBasePoint => HandlerTypeOK'
    BY <2>1, DisposeTypes, FrameTypes DEF ForceBasePoint, Ignore
  <2>4. ForceStation => HandlerTypeOK'
    BY <2>1, DisposeTypes, FrameTypes DEF ForceStation, Ignore
  <2>5. HandlerTypeOK'
    BY <2>1, <2>2, <2>3, <2>4, DisposeTypes, FrameTypes DEF Ignore
  <2> QED BY <1>3, <2>5, ReturnTypes, FrameTypes DEF ForceFlow
<1>4. CASE ForceIgnore
  BY <1>4, ReturnTypes, FrameTypes DEF ForceIgnore, Ignore
<1> QED BY <1>1, <1>2, <1>3, <1>4 DEF handleForcePoint

-----------------------------------------------------------------------------
(* processControl *)
LEMMA GoToTypes ==
  ASSUME HandlerTypeOK, NEW queue \in Seq(1 .. PlanSize), NEW f \in Flow,
         GoTo(queue, f)
  PROVE  HandlerTypeOK'
<1>1. timers' \in Timers
  BY ScheduleTypes DEF GoTo, TimerKind
<1> QED
  BY <1>1 DEF HandlerTypeOK, GoTo, Timers, modeVars, hardwareVars, ghostVars

LEMMA ControlTypes ==
  ASSUME TypeInv, processControl
  PROVE  TypeInv'
<1> USE DEF TypeInv, TypeOK
<1>0. /\ event_flow \in Flow /\ retries \in Retries
      /\ {"ensure_move_to_start_point", "flowing_water_production"} \subseteq Flow
      /\ {"control", "asleep", "auto", "undefined"} \subseteq PC \ {"task"}
  BY DEF HandlerTypeOK, Retries, Flow, PC
<1>1. CASE ControlAskStation
  BY <1>0, <1>1, ProceedTypes, ReturnTypes, FrameTypes
     DEF ControlAskStation, controlFrame
<1>2. CASE ControlAlreadyWorking
  <2>1. StackTypeOK' /\ TaskInHand'
    BY <1>2, PointTypes DEF ControlAlreadyWorking, StackTypeOK, TaskInHand, PC, FlowId
  <2> QED BY <1>2, <2>1, FrameTypes DEF ControlAlreadyWorking, controlFrame
<1>3. CASE ControlWakeUp
  <2>1. timers' \in Timers
    BY <1>3, ScheduleTypes DEF ControlWakeUp, TimerKind
  <2>2. HandlerTypeOK'
    BY <1>0, <1>3, <2>1
       DEF ControlWakeUp, Proceed, HandlerTypeOK, Timers, modeVars, taskVars, ghostVars
  <2> QED BY <1>0, <1>3, <2>2, ContinueTypes, FrameTypes DEF ControlWakeUp, controlFrame
<1>4. CASE ControlMechanism
  BY <1>0, <1>4, ProceedTypes, ReturnTypes, FrameTypes
     DEF ControlMechanism, controlFrame
<1>5. CASE ControlFirstPoint
  <2>1. plannerQueue \in Seq(1 .. PlanSize)
    BY DEF HandlerTypeOK
  <2> QED
    BY <1>0, <1>5, <2>1, GoToTypes, ReturnTypes, FrameTypes
       DEF ControlFirstPoint, controlFrame
<1>6. CASE ControlEnsured
  <2>1. HandlerTypeOK'
    BY <1>0, <1>6
       DEF ControlEnsured, HandlerTypeOK, modeVars, taskVars, hardwareVars, ghostVars
  <2> QED
    BY <1>0, <1>6, <2>1, ContinueTypes, FrameTypes DEF ControlEnsured, controlFrame
<1>7. CASE ControlNextPoint
  <2>1. Tail(plannerQueue) \in Seq(1 .. PlanSize)
    BY <1>7 DEF ControlNextPoint, HandlerTypeOK
  <2> QED
    BY <1>0, <1>7, <2>1, GoToTypes, ReturnTypes, FrameTypes
       DEF ControlNextPoint, controlFrame
<1>8. CASE ControlLastPoint
  <2>1. HandlerTypeOK'
    BY <1>8 DEF ControlLastPoint, BackBasePoint, HandlerTypeOK, flowVars, modeVars,
                hardwareVars, ghostVars
  <2> QED BY <1>8, <2>1, ReturnTypes, FrameTypes DEF ControlLastPoint, controlFrame
<1>9. CASE ControlUndefined
  BY <1>0, <1>9, ContinueTypes, FrameTypes DEF ControlUndefined, controlFrame
<1>10. CASE ControlGoBase
  <2>1. [retries EXCEPT !.base = 0] \in Retries
    BY <1>0, RetryAssumption DEF Retries
  <2>2. HandlerTypeOK'
    BY <1>0, <1>10, <2>1, ProceedTypes DEF ControlGoBase
  <2> QED BY <1>10, <2>2, ReturnTypes, FrameTypes DEF ControlGoBase, controlFrame
<1>11. CASE ControlEnd
  BY <1>11, GoodGameTypes, TaskInterruptTypes, ReturnTypes, FrameTypes
     DEF ControlEnd, controlFrame
<1>12. CASE ControlNothing
  BY <1>12, ReturnTypes, FrameTypes DEF ControlNothing, controlFrame
<1> QED
  BY <1>1, <1>2, <1>3, <1>4, <1>5, <1>6, <1>7, <1>8, <1>9, <1>10, <1>11, <1>12
     DEF processControl

LEMMA AsleepTypes ==
  ASSUME TypeInv, NodesAwake \/ SleepGivenUp
  PROVE  TypeInv'
<1> USE DEF TypeInv, TypeOK
<1>1. pointDeque' \in Seq(Point)
  BY PointTypes, PushTypes DEF NodesAwake, SleepGivenUp, FlowId
<1>2. timers' \in Timers
  BY CancelTypes DEF NodesAwake, SleepGivenUp, HandlerTypeOK, Timers
<1>3. UNCHANGED AwakeFrame /\ Return
  BY DEF NodesAwake, SleepGivenUp
<1>4. HandlerTypeOK'
  BY <1>1, <1>2, <1>3
     DEF HandlerTypeOK, Timers, AwakeFrame, flowVars, modeVars, taskVars, countVars,
         ghostVars, hardwareVars, navVars
<1>5. MemoTypeOK' /\ OutsideTypeOK'
  BY <1>3 DEF MemoTypeOK, OutsideTypeOK, AwakeFrame, memoVars, countVars, inputVars,
              triggerVars, navVars
<1> QED BY <1>3, <1>4, <1>5, ReturnTypes

-----------------------------------------------------------------------------
(* The other threads. *)
EnvironmentFrame == <<dispatcherVars, armed, taskDeque>>

LEMMA FrontTypes ==
  ASSUME HandlerTypeOK, plannerQueue # <<>>
  PROVE  Head(plannerQueue) \in 1 .. PlanSize
<1>1. plannerQueue \in Seq(1 .. PlanSize)
  BY DEF HandlerTypeOK
<1> QED BY <1>1, QueueTypes

LEMMA AnswerTypes ==
  ASSUME HandlerTypeOK, NEW ok \in BOOLEAN, Answer(ok)
  PROVE  pointDeque' \in Seq(Point)
<1>1. CASE plannerQueue # <<>>
  <2>1. Head(plannerQueue) \in 1 .. PlanSize
    BY <1>1, FrontTypes
  <2>2. Push(PlanPoint(Head(plannerQueue), ok))
    BY <1>1 DEF Answer
  <2> QED BY <2>1, <2>2, PointTypes, PushTypes
<1>2. CASE plannerQueue = <<>>
  <2>1. Push(FlowPoint("IN_BASE_POINT", ok)) \/ UNCHANGED pointDeque
    BY <1>2 DEF Answer
  <2>2. FlowPoint("IN_BASE_POINT", ok) \in Point
    BY PointTypes DEF FlowId
  <2> QED BY <2>1, <2>2, PushTypes DEF HandlerTypeOK
<1> QED BY <1>1, <1>2

LEMMA TriedTypes ==
  ASSUME HandlerTypeOK
  PROVE  Tried \in SUBSET (1 .. PlanSize) /\ TriedNow \in SUBSET (1 .. PlanSize)
<1>1. plannerQueue # <<>> => Head(plannerQueue) \in 1 .. PlanSize
  BY FrontTypes
<1> QED BY <1>1 DEF HandlerTypeOK, Tried, TriedNow

LEMMA FiresTypes ==
  ASSUME HandlerTypeOK, NEW k, Fires(k)
  PROVE  timers' \in Timers
BY DEF HandlerTypeOK, Fires, Timers

LEMMA EventLoopTypes ==
  ASSUME TypeInv, EventLoop
  PROVE  TypeInv'
<1> USE DEF TypeInv, TypeOK
<1>1. timers' \in Timers
  <2>1. ASSUME NEW k, Fires(k) PROVE timers' \in Timers
    BY <2>1, FiresTypes
  <2>2. LoopSchedule => timers' \in Timers
    BY DEF LoopSchedule, HandlerTypeOK, Timers
  <2> QED BY <2>1, <2>2 DEF EventLoop, MechanismTimer, SleepTimer, NavTimer
<1>2. pointDeque' \in Seq(Point) /\ tried' \in SUBSET (1 .. PlanSize)
  <2>1. CASE LoopSchedule \/ SleepTimer
    BY <2>1 DEF LoopSchedule, SleepTimer, HandlerTypeOK
  <2>2. CASE MechanismTimer
    BY <2>2, PointTypes, PushTypes DEF MechanismTimer, HandlerTypeOK, FlowId
  <2>3. CASE NavTimer
    BY <2>3, AnswerTypes, TriedTypes DEF NavTimer, HandlerTypeOK
  <2> QED BY <2>1, <2>2, <2>3 DEF EventLoop
<1>3. sleepTimeout' \in BOOLEAN /\ pc' \in {pc, "undefined"}
  BY DEF EventLoop, LoopSchedule, MechanismTimer, SleepTimer, NavTimer, HandlerTypeOK
<1>4. UNCHANGED <<dispatcherVars, arrive, armed, taskDeque, inputVars, navVars, station>>
  BY DEF EventLoop, LoopSchedule, MechanismTimer, SleepTimer, NavTimer
<1>5. HandlerTypeOK'
  BY <1>1, <1>2, <1>3, <1>4
     DEF HandlerTypeOK, Timers, dispatcherVars, flowVars, modeVars, taskVars, navVars
<1>6. MemoTypeOK' /\ OutsideTypeOK' /\ StackTypeOK' /\ TaskInHand'
  BY <1>3, <1>4
     DEF MemoTypeOK, OutsideTypeOK, StackTypeOK, TaskInHand, PC, dispatcherVars,
         memoVars, inputVars, triggerVars, navVars
<1> QED BY <1>5, <1>6

LEMMA NavigationTypes ==
  ASSUME TypeInv, Navigation \/ StationResult
  PROVE  TypeInv'
<1> USE DEF TypeInv, TypeOK
<1>1. timers' \in Timers
  BY CancelTypes
     DEF Navigation, NavDone, NavCallback, NavAnswer, StationResult, HandlerTypeOK, Timers
<1>2. pointDeque' \in Seq(Point)
  <2>1. CASE NavDone
    BY <2>1 DEF NavDone, HandlerTypeOK
  <2>2. CASE NavCallback
    BY <2>2, AnswerTypes DEF NavCallback
  <2>3. CASE NavAnswer
    BY <2>3, AnswerTypes DEF NavAnswer
  <2>4. CASE StationResult
    BY <2>4, PointTypes, PushTypes DEF StationResult, FlowId
  <2> QED BY <2>1, <2>2, <2>3, <2>4 DEF Navigation
<1>3. /\ tried' \in SUBSET (1 .. PlanSize) /\ goal' \in Goals
      /\ navResult' \in {"none", "succeeded", "failed"}
      /\ station' \in {"idle", "out", "in"}
  BY TriedTypes
     DEF Navigation, NavDone, NavCallback, NavAnswer, StationResult, HandlerTypeOK,
         OutsideTypeOK, Goals, navVars
<1>4. UNCHANGED <<dispatcherVars, arrive, armed, sleepTimeout, taskDeque, inputVars, pc>>
  BY DEF Navigation, NavDone, NavCallback, NavAnswer, StationResult
<1>5. HandlerTypeOK'
  BY <1>1, <1>2, <1>3, <1>4
     DEF HandlerTypeOK, Timers, Goals, dispatcherVars, flowVars, modeVars, taskVars
<1>6. MemoTypeOK' /\ OutsideTypeOK' /\ StackTypeOK' /\ TaskInHand'
  BY <1>3, <1>4
     DEF MemoTypeOK, OutsideTypeOK, StackTypeOK, TaskInHand, dispatcherVars,
         memoVars, inputVars, triggerVars
<1> QED BY <1>5, <1>6

LEMMA LaunchTypes ==
  ASSUME TypeInv, Launch
  PROVE  TypeInv'
<1> USE DEF TypeInv, TypeOK
<1> PICK t \in Task : LaunchTask(t) \/ LaunchRefused(t)
  BY DEF Launch
<1>1. history' \in [Task -> HistoryState] /\ taskDeque' \in Seq(Task)
  <2>1. history \in [Task -> HistoryState] /\ taskDeque \in Seq(Task)
    BY DEF HandlerTypeOK
  <2>2. taskDeque' \in {taskDeque, Append(taskDeque, t)}
    BY DEF LaunchTask, LaunchRefused, countVars
  <2>3. history' \in {[history EXCEPT ![t] = h] : h \in HistoryState}
    BY DEF LaunchTask, LaunchRefused, HistoryState
  <2> QED BY <2>1, <2>2, <2>3
<1>2. UNCHANGED <<flowVars, modeVars, workTask, waitTaskQueue, plannerQueue, memoVars,
                 countVars, ghostVars, stackVars, pointDeque, inputVars, timers,
                 navVars, hardwareVars>>
  BY DEF LaunchTask, LaunchRefused
<1>3. HandlerTypeOK'
  BY <1>1, <1>2 DEF HandlerTypeOK, flowVars, modeVars, countVars, ghostVars, navVars,
                    hardwareVars
<1>4. MemoTypeOK' /\ OutsideTypeOK' /\ StackTypeOK' /\ TaskInHand'
  BY <1>2 DEF MemoTypeOK, OutsideTypeOK, StackTypeOK, TaskInHand, memoVars, countVars,
              stackVars, inputVars, triggerVars, navVars
<1> QED BY <1>3, <1>4

Orders ==
  ManualBack \/ ManualForceBack \/ ManualResume \/ ManualPause \/ EnterManual
  \/ QuitManual \/ StopAndCharge \/ ForceBackToBase

Presses == UrgencyStop \/ UnrecoverableError

LEMMA OperatorTypes ==
  ASSUME TypeInv, Operator
  PROVE  TypeInv'
<1> USE DEF TypeInv, TypeOK
<1>0. Orders \/ Presses
  BY DEF Operator, Orders, Presses
<1>1. commands' \in 0 .. MaxCommands
  BY BoundAssumption
     DEF Operator, OutsideTypeOK, ManualBack, ManualForceBack, ManualResume,
         ManualPause, EnterManual, QuitManual, StopAndCharge, ForceBackToBase,
         UrgencyStop, UnrecoverableError, Command, Asked
<1>2. CASE Orders
  <2>1. \/ \E id \in ReturnId : Ask(id)
        \/ \E id \in SpecialId : Order(id)
    BY <1>2 DEF Orders, ManualBack, ManualForceBack, ManualResume, ManualPause,
                EnterManual, QuitManual, StopAndCharge, ForceBackToBase, ReturnId,
                SpecialId
  <2>2. arrive' \in [ReturnId -> BOOLEAN] /\ pointDeque' \in Seq(Point)
        /\ UNCHANGED commandFrame
    BY <2>1, PointTypes, PushTypes DEF Ask, Order, HandlerTypeOK
  <2>3. HandlerTypeOK'
    BY <2>2 DEF HandlerTypeOK, commandFrame, dispatcherVars, flowVars, modeVars,
                taskVars, navVars
  <2>4. MemoTypeOK' /\ OutsideTypeOK' /\ StackTypeOK' /\ TaskInHand'
    BY <1>1, <2>2
       DEF MemoTypeOK, OutsideTypeOK, StackTypeOK, TaskInHand, commandFrame,
           dispatcherVars, memoVars, triggerVars, navVars
  <2> QED BY <2>3, <2>4
<1>3. CASE Presses
  <2>1. UNCHANGED <<dispatcherVars, tried, arrive, armed, sleepTimeout, taskDeque,
                    pointDeque, pc, timers, navVars, station>>
    BY <1>3 DEF Presses, UrgencyStop, UnrecoverableError
  <2>2. HandlerTypeOK'
    BY <2>1 DEF HandlerTypeOK, dispatcherVars, flowVars, modeVars, taskVars, navVars
  <2>3. MemoTypeOK' /\ StackTypeOK' /\ TaskInHand'
    BY <2>1 DEF MemoTypeOK, StackTypeOK, TaskInHand, dispatcherVars, memoVars
  <2>4. OutsideTypeOK'
    BY <1>1, <1>3, <2>1 DEF Presses, UrgencyStop, UnrecoverableError, OutsideTypeOK,
                            navVars
  <2> QED BY <2>2, <2>3, <2>4
<1> QED BY <1>0, <1>2, <1>3

-----------------------------------------------------------------------------
LEMMA TypeInvStep == TypeInv /\ [Next]_vars => TypeInv'
<1> SUFFICES ASSUME TypeInv, [Next]_vars PROVE TypeInv'
  OBVIOUS
<1>1. CASE Dispatcher
  BY <1>1, TakeTypes, UnrecoverableTypes, HandleStopTypes, HandleTaskTypes,
     HandlePointTypes, AutoTypes, ManualTypes, ForceTypes, ControlTypes, AsleepTypes
     DEF Dispatcher
<1>2. CASE NodesAwake
  BY <1>2, AsleepTypes
<1>3. CASE EventLoop
  BY <1>3, EventLoopTypes
<1>4. CASE Navigation \/ StationResult
  BY <1>4, NavigationTypes
<1>5. CASE Operator
  BY <1>5, OperatorTypes
<1>6. CASE Launch
  BY <1>6, LaunchTypes
<1>7. CASE UNCHANGED vars
  BY <1>7 DEF vars, TypeInv, TypeOK, HandlerTypeOK, MemoTypeOK, StackTypeOK,
              OutsideTypeOK, TaskInHand, flowVars, modeVars, taskVars, memoVars,
              countVars, inputVars, triggerVars, stackVars, navVars, hardwareVars,
              ghostVars
<1> QED BY <1>1, <1>2, <1>3, <1>4, <1>5, <1>6, <1>7 DEF Next

(* Every reachable state has its type, and a task is at hand whenever      *)
(* handleTask runs: the retry counters stay within their limits and every  *)
(* queue holds tasks or points only, whatever is pressed and when.         *)
THEOREM TypeCorrect == Spec => []TypeInv
<1>1. TypeInv /\ [Next]_vars => TypeInv'
  BY TypeInvStep
<1> QED BY TypeInvInit, <1>1, PTL DEF Spec

(* The type invariant that the runs check. *)
THEOREM TypeOKHolds == Spec => []TypeOK
<1>1. TypeInv => TypeOK
  BY DEF TypeInv
<1> QED BY TypeCorrect, <1>1, PTL

-----------------------------------------------------------------------------
(* The plan.  Most steps leave it alone or drop it whole, and do not send  *)
(* the robot to a plan point; ShrinksPlan is what they have in common.     *)
PlanInv == NoTaskNoPlan /\ AbandonedPlan

ShrinksPlan ==
  /\ plannerQueue' \in {plannerQueue, <<>>}
  /\ goal' \in {goal, "none", "base", "cancelled"}
  /\ workTask' = workTask \/ plannerQueue' = <<>>
  /\ cut' = cut \/ (plannerQueue' = <<>> /\ goal' # "plan")

LEMMA ShrinkKeepsPlanInv == PlanInv /\ ShrinksPlan => PlanInv'
BY DEF PlanInv, NoTaskNoPlan, AbandonedPlan, ShrinksPlan

LEMMA FrameShrinks ==
  /\ UNCHANGED handlerVars => ShrinksPlan
  /\ KeepTask /\ UNCHANGED ghostVars => ShrinksPlan
BY DEF ShrinksPlan, handlerVars, KeepTask, taskVars, ghostVars

LEMMA EndShrinks ==
  ASSUME UNCHANGED ghostVars,
         \/ \E h, m : StopTask(h, m)
         \/ \E m : Reset(m) /\ UNCHANGED goal
  PROVE  ShrinksPlan
BY DEF ShrinksPlan, StopTask, Reset, CancelGoal, Cancelled, ghostVars

LEMMA BodiesShrink ==
  ASSUME \/ \E id : TriggerBack(id)
         \/ callResume
         \/ callManualCleanStart \/ callManualCleanEnd \/ callStopUrgentInBase
         \/ goodGame \/ callTaskInterrupt
         \/ \E f : CloseMechanism(f) \/ OpenMechanism(f)
         \/ \E w, f : AskStation(w, f)
         \/ \E f, r : GoBase(f, r)
  PROVE  ShrinksPlan
<1>1. CASE \E id : TriggerBack(id)
  BY <1>1 DEF TriggerBack, BackBasePoint, ShrinksPlan
<1>2. CASE callResume
  BY <1>2 DEF callResume, ShrinksPlan, taskVars, ghostVars
<1>3. CASE callManualCleanStart \/ callManualCleanEnd
  <2>1. UNCHANGED ghostVars /\ (KeepTask \/ StopTask("enterManualCleanMode", TRUE))
    BY <1>3 DEF callManualCleanStart, callManualCleanEnd
  <2> QED BY <2>1, FrameShrinks, EndShrinks
<1>4. CASE callStopUrgentInBase
  <2>1. UNCHANGED ghostVars /\ (KeepTask \/ StopTask("specialComplete", FALSE))
    BY <1>4 DEF callStopUrgentInBase
  <2> QED BY <2>1, FrameShrinks, EndShrinks
<1>5. CASE goodGame \/ callTaskInterrupt
  <2>1. UNCHANGED ghostVars /\ Reset(FALSE) /\ UNCHANGED goal
    BY <1>5 DEF goodGame, callTaskInterrupt
  <2> QED BY <2>1, EndShrinks
<1>6. CASE \/ \E f : CloseMechanism(f) \/ OpenMechanism(f)
           \/ \E w, f : AskStation(w, f)
           \/ \E f, r : GoBase(f, r)
  BY <1>6 DEF CloseMechanism, OpenMechanism, AskStation, GoBase, Proceed,
              BackBasePoint, ShrinksPlan, taskVars, ghostVars
<1> QED BY <1>1, <1>2, <1>3, <1>4, <1>5, <1>6

(* Two bodies do more: a pause doubles the front point of a plan, and a    *)
(* drive goes to the front of what is left of it.                          *)
LEMMA PauseKeepsPlanInv ==
  ASSUME PlanInv, callPause \/ ReleasedIntoPause
  PROVE  PlanInv'
<1>1. UNCHANGED <<workTask, cut>> /\ goal' \in {goal, "cancelled"}
  BY DEF callPause, ReleasedIntoPause, ghostVars, CancelGoal, Cancelled
<1>2. plannerQueue = <<>> => plannerQueue' = <<>>
  BY DEF callPause, ReleasedIntoPause, MayNotPause
<1> QED BY <1>1, <1>2 DEF PlanInv, NoTaskNoPlan, AbandonedPlan

LEMMA DriveKeepsPlanInv ==
  ASSUME PlanInv, NEW q, NEW f, plannerQueue # <<>>, GoTo(q, f)
  PROVE  PlanInv'
BY DEF PlanInv, NoTaskNoPlan, AbandonedPlan, GoTo, ghostVars

LEMMA TakePlan ==
  ASSUME PlanInv, Take
  PROVE  PlanInv'
<1>1. ShrinksPlan
  BY DEF Take, TakeUnrecoverable, TakeStop, TakeTask, TakePoint, takeFrame,
         handlerVars, taskVars, ghostVars, ShrinksPlan
<1> QED BY <1>1, ShrinkKeepsPlanInv

LEMMA StopPlan ==
  ASSUME PlanInv, HandleUnrecoverable \/ handleStop
  PROVE  PlanInv'
<1>1. CASE HandleUnrecoverable
  <2>1. UNCHANGED ghostVars /\ (KeepTask \/ StopTask("laserInterrupt", FALSE))
    BY <1>1 DEF HandleUnrecoverable
  <2> QED BY <2>1, FrameShrinks, EndShrinks, ShrinkKeepsPlanInv
<1>2. CASE ReleasedIntoPause
  BY <1>2, PauseKeepsPlanInv
<1>3. CASE \/ IgnoreStop \/ StopPressed \/ ReleasedWithoutTask
           \/ ReleasedWhilePaused \/ ReleasedReplaying
  <2>1. ShrinksPlan
    BY <1>3 DEF IgnoreStop, StopPressed, ReleasedWithoutTask, ReleasedWhilePaused,
                ReleasedReplaying, handlerVars, taskVars, ghostVars, CancelGoal,
                Cancelled, ShrinksPlan
  <2> QED BY <2>1, ShrinkKeepsPlanInv
<1> QED BY <1>1, <1>2, <1>3 DEF handleStop

LEMMA TaskPlan ==
  ASSUME TypeInv, PlanInv, handleTask
  PROVE  PlanInv'
<1>1. CASE StartTask
  <2>1. workTask' # NoTask /\ ~cut'
    BY <1>1 DEF StartTask, TypeInv, TaskInHand
  <2> QED BY <2>1 DEF PlanInv, NoTaskNoPlan, AbandonedPlan
<1>2. CASE DropTask \/ QueueTask
  <2>1. ShrinksPlan
    BY <1>2 DEF DropTask, QueueTask, handlerVars, taskVars, ghostVars, ShrinksPlan
  <2> QED BY <2>1, ShrinkKeepsPlanInv
<1> QED BY <1>1, <1>2 DEF handleTask

LEMMA PointPlan ==
  ASSUME PlanInv, handlePoint
  PROVE  PlanInv'
<1>1. ShrinksPlan
  BY BodiesShrink, FrameShrinks
     DEF handlePoint, StopUrgentWhileStopped, DropPoint, HandlePoint
<1> QED BY <1>1, ShrinkKeepsPlanInv

LEMMA AutoPlanInv ==
  ASSUME PlanInv, handleAutoPoint
  PROVE  PlanInv'
<1>1. CASE AutoPause
  BY <1>1, PauseKeepsPlanInv DEF AutoPause
<1>2. CASE \/ AutoReturn \/ AutoResume \/ AutoManualClean \/ AutoStopUrgent
           \/ AutoPlan
  <2>1. ShrinksPlan
    BY <1>2, BodiesShrink, FrameShrinks
       DEF AutoReturn, AutoResume, AutoManualClean, AutoStopUrgent, AutoPlan
  <2> QED BY <2>1, ShrinkKeepsPlanInv
<1>3. CASE AutoFlow
  <2>1. ShrinksPlan
    BY <1>3 DEF AutoFlow, taskVars, ghostVars, ShrinksPlan
  <2> QED BY <2>1, ShrinkKeepsPlanInv
<1> QED BY <1>1, <1>2, <1>3 DEF handleAutoPoint

LEMMA DisposeShrinks ==
  ASSUME NEW f, \/ \E b \in BOOLEAN : DisposeBasePoint(f, b)
                \/ DisposeMechanism(f) \/ DisposeStation(f)
  PROVE  ShrinksPlan
BY BodiesShrink DEF DisposeBasePoint, DisposeMechanism, DisposeStation

LEMMA ManualPlan ==
  ASSUME PlanInv, handleManualPoint
  PROVE  PlanInv'
<1>1. callPause \/ ShrinksPlan
  BY BodiesShrink, DisposeShrinks, FrameShrinks
     DEF handleManualPoint, ManualCommand, ManualResumeTask, ManualStopUrgent,
         ManualFlow, ManualIgnore, Ignore
<1> QED BY <1>1, PauseKeepsPlanInv, ShrinkKeepsPlanInv

LEMMA ForcePlan ==
  ASSUME PlanInv, handleForcePoint
  PROVE  PlanInv'
<1>1. ForceBasePoint => ShrinksPlan
  BY DisposeShrinks, FrameShrinks DEF ForceBasePoint, Ignore
<1>2. ForceStation => ShrinksPlan
  BY DisposeShrinks, FrameShrinks DEF ForceStation, Ignore
<1>3. ShrinksPlan
  BY <1>1, <1>2, BodiesShrink, DisposeShrinks, FrameShrinks
     DEF handleForcePoint, ForceReturn, ForceStopUrgent, ForceFlow, ForceIgnore, Ignore
<1> QED BY <1>3, ShrinkKeepsPlanInv

LEMMA ControlPlan ==
  ASSUME PlanInv, processControl
  PROVE  PlanInv'
<1>1. CASE ControlFirstPoint \/ ControlNextPoint
  BY <1>1, DriveKeepsPlanInv DEF ControlFirstPoint, ControlNextPoint
<1>2. CASE ControlLastPoint \/ ControlEnsured \/ ControlWakeUp
  <2>1. ShrinksPlan
    BY <1>2 DEF ControlLastPoint, ControlEnsured, ControlWakeUp, Proceed,
                BackBasePoint, taskVars, ghostVars, ShrinksPlan
  <2> QED BY <2>1, ShrinkKeepsPlanInv
<1>3. CASE \/ ControlAskStation \/ ControlMechanism \/ ControlGoBase \/ ControlEnd
           \/ ControlAlreadyWorking \/ ControlUndefined \/ ControlNothing
  <2>1. ShrinksPlan
    BY <1>3, BodiesShrink, FrameShrinks
       DEF ControlAskStation, ControlMechanism, ControlGoBase, ControlEnd,
           ControlAlreadyWorking, ControlUndefined, ControlNothing
  <2> QED BY <2>1, ShrinkKeepsPlanInv
<1> QED BY <1>1, <1>2, <1>3 DEF processControl

LEMMA OtherThreadsPlan ==
  ASSUME PlanInv, \/ NodesAwake \/ SleepGivenUp \/ EventLoop \/ Navigation
                  \/ StationResult \/ Operator \/ Launch
  PROVE  PlanInv'
<1>1. CASE NodesAwake \/ SleepGivenUp
  BY <1>1, ShrinkKeepsPlanInv
     DEF NodesAwake, SleepGivenUp, AwakeFrame, taskVars, ghostVars, navVars, ShrinksPlan
<1>2. CASE EventLoop
  BY <1>2, ShrinkKeepsPlanInv
     DEF EventLoop, LoopSchedule, MechanismTimer, SleepTimer, NavTimer,
         dispatcherVars, taskVars, navVars, ShrinksPlan
<1>3. CASE Navigation \/ StationResult
  BY <1>3, ShrinkKeepsPlanInv
     DEF Navigation, NavDone, NavCallback, NavAnswer, StationResult, dispatcherVars,
         taskVars, navVars, ShrinksPlan
<1>4. CASE Operator
  <2>1. UNCHANGED <<dispatcherVars, navVars>>
    BY <1>4 DEF Operator, ManualBack, ManualForceBack, ManualResume, ManualPause,
                EnterManual, QuitManual, StopAndCharge, ForceBackToBase, UrgencyStop,
                UnrecoverableError, Ask, Order, commandFrame
  <2> QED BY <2>1, ShrinkKeepsPlanInv DEF dispatcherVars, taskVars, navVars, ShrinksPlan
<1>5. CASE Launch
  BY <1>5, ShrinkKeepsPlanInv
     DEF Launch, LaunchTask, LaunchRefused, ghostVars, navVars, ShrinksPlan
<1> QED BY <1>1, <1>2, <1>3, <1>4, <1>5

LEMMA PlanInvStep == TypeInv /\ PlanInv /\ [Next]_vars => PlanInv'
<1> SUFFICES ASSUME TypeInv, PlanInv, [Next]_vars PROVE PlanInv'
  OBVIOUS
<1>1. CASE Dispatcher
  BY <1>1, TakePlan, StopPlan, TaskPlan, PointPlan, AutoPlanInv, ManualPlan,
     ForcePlan, ControlPlan, OtherThreadsPlan DEF Dispatcher
<1>2. CASE UNCHANGED vars
  BY <1>2, ShrinkKeepsPlanInv DEF vars, taskVars, ghostVars, navVars, ShrinksPlan
<1>3. CASE NodesAwake \/ EventLoop \/ Navigation \/ StationResult \/ Operator \/ Launch
  BY <1>3, OtherThreadsPlan
<1> QED BY <1>1, <1>2, <1>3 DEF Next

LEMMA PlanInvHolds == Spec => []PlanInv
<1>1. Init => PlanInv
  BY DEF Init, PlanInv, NoTaskNoPlan, AbandonedPlan
<1>2. TypeInv /\ PlanInv /\ [Next]_vars => PlanInv'
  BY PlanInvStep
<1> QED BY <1>1, <1>2, TypeCorrect, PTL DEF Spec

(* However a task ends, nothing of its plan is left: the next task starts   *)
(* from its own points only (reset() and the handlers that call it).       *)
THEOREM NoTaskNoPlanHolds == Spec => []NoTaskNoPlan
<1>1. PlanInv => NoTaskNoPlan
  BY DEF PlanInv
<1> QED BY PlanInvHolds, <1>1, PTL

(* After handleSpecialPoint has triggered a return, no late answer, timer, *)
(* pause, resume or emergency stop sends the robot to a plan point again,   *)
(* until another task is started.                                          *)
THEOREM AbandonedPlanHolds == Spec => []AbandonedPlan
<1>1. PlanInv => AbandonedPlan
  BY DEF PlanInv
<1> QED BY PlanInvHolds, <1>1, PTL

-----------------------------------------------------------------------------
(* The emergency stop and the failed laser.  While one of them has been     *)
(* handled the dispatcher is outside the point handlers, and what it takes *)
(* is dropped; while it is inside them, a stop pressed waits in its trigger.*)
StopHandled ==
  urgencyStopState /\ ~triggerUrgencyStop /\ ~unrecoverableErrorState
  /\ pc \notin {"stop", "undefined"}

LaserHandled ==
  unrecoverableErrorState /\ ~triggerUnrecoverableError /\ pc # "unrecoverable"

Busy == {"auto", "manual", "force", "control", "asleep"}

HaltInv ==
  /\ again => pc \in Busy \cup {"undefined"}
  /\ pc = "unrecoverable" => unrecoverableErrorState
  /\ triggerUnrecoverableError => unrecoverableErrorState
  /\ StopHandled => pc \in {"wait", "task", "point"} /\ goal \notin {"plan", "base"}
  /\ LaserHandled => pc \in {"wait", "stop", "task", "point", "undefined"}

LEMMA HaltInvInit == Init => HaltInv
BY DEF Init, HaltInv, StopHandled, LaserHandled

(* A step inside the point handlers leaves the triggers alone. *)
LEMMA BusyHalt ==
  ASSUME HaltInv, pc \in Busy, UNCHANGED inputVars,
         \/ Return
         \/ again' \in BOOLEAN /\ pc' \in Busy \cup {"undefined"}
  PROVE  HaltInv'
<1>1. \/ ~again' /\ pc' \in {"wait", "control"}
      \/ pc' \in Busy \cup {"undefined"}
  BY DEF Return
<1>2. ~StopHandled /\ ~LaserHandled
  BY DEF HaltInv, Busy
<1>3. ~(urgencyStopState' /\ ~triggerUrgencyStop' /\ ~unrecoverableErrorState')
      /\ ~(unrecoverableErrorState' /\ ~triggerUnrecoverableError')
  BY <1>2 DEF StopHandled, LaserHandled, Busy, inputVars, triggerVars
<1> QED
  BY <1>1, <1>3 DEF HaltInv, StopHandled, LaserHandled, Busy, inputVars, triggerVars

LEMMA PointHandlersHalt ==
  ASSUME TypeInv, HaltInv,
         \/ handleAutoPoint \/ handleManualPoint \/ handleForcePoint
         \/ processControl \/ NodesAwake \/ SleepGivenUp
  PROVE  HaltInv'
<1>0. again \in BOOLEAN
  BY DEF TypeInv, TypeOK, StackTypeOK
<1>1. CASE handleAutoPoint
  BY <1>0, <1>1, BusyHalt
     DEF handleAutoPoint, AutoReturn, AutoPause, AutoResume, AutoManualClean,
         AutoStopUrgent, AutoFlow, AutoPlan, Continue, outside, Busy
<1>2. CASE handleManualPoint
  BY <1>0, <1>2, BusyHalt
     DEF handleManualPoint, ManualCommand, ManualResumeTask, ManualStopUrgent,
         ManualFlow, ManualIgnore, outside, Busy
<1>3. CASE handleForcePoint
  BY <1>0, <1>3, BusyHalt
     DEF handleForcePoint, ForceReturn, ForceStopUrgent, ForceFlow, ForceIgnore,
         outside, Busy
<1>4. CASE processControl
  BY <1>0, <1>4, BusyHalt
     DEF processControl, Control, ControlAskStation, ControlAlreadyWorking,
         ControlWakeUp, ControlMechanism, ControlFirstPoint, ControlEnsured,
         ControlNextPoint, ControlLastPoint, ControlUndefined, ControlGoBase,
         ControlEnd, ControlNothing, controlFrame, outside, Continue, Busy
<1>5. CASE NodesAwake \/ SleepGivenUp
  BY <1>5, BusyHalt DEF NodesAwake, SleepGivenUp, AwakeFrame, Busy
<1> QED BY <1>1, <1>2, <1>3, <1>4, <1>5

LEMMA TakeHalt ==
  ASSUME HaltInv, Take
  PROVE  HaltInv'
<1>1. CASE TakeUnrecoverable
  BY <1>1 DEF TakeUnrecoverable, takeFrame, HaltInv, StopHandled, LaserHandled, Busy
<1>2. CASE TakeStop
  BY <1>2 DEF TakeStop, takeFrame, HaltInv, StopHandled, LaserHandled, Busy
<1>3. CASE TakeTask
  BY <1>3 DEF TakeTask, NoTrigger, inputVars, triggerVars, HaltInv, StopHandled,
              LaserHandled, Busy
<1>4. CASE TakePoint
  BY <1>4 DEF TakePoint, NoTrigger, inputVars, triggerVars, HaltInv, StopHandled,
              LaserHandled, Busy
<1> QED BY <1>1, <1>2, <1>3, <1>4 DEF Take

(* handleStop ends with the goal cancelled if the switch is down. *)
LEMMA StopHalt ==
  ASSUME HaltInv, HandleUnrecoverable \/ handleStop
  PROVE  HaltInv'
<1>1. ~again /\ Return /\ UNCHANGED inputVars
  BY DEF HaltInv, Busy, HandleUnrecoverable, handleStop, IgnoreStop, StopPressed,
         Released, ReleasedWithoutTask, ReleasedWhilePaused, ReleasedReplaying,
         ReleasedIntoPause, outside
<1>2. pc' = "wait" /\ ~again'
  BY <1>1 DEF Return
<1>3. \/ unrecoverableErrorState \/ ~urgencyStopState
      \/ goal' \notin {"plan", "base"}
  BY DEF HaltInv, HandleUnrecoverable, handleStop, IgnoreStop, StopPressed,
         Released, ReleasedWithoutTask, ReleasedWhilePaused, ReleasedReplaying,
         ReleasedIntoPause, CancelGoal, Cancelled
<1>4. pc \in {"stop", "unrecoverable"}
  BY DEF HandleUnrecoverable, handleStop, IgnoreStop, StopPressed, Released,
         ReleasedWithoutTask, ReleasedWhilePaused, ReleasedReplaying, ReleasedIntoPause
<1> QED
  BY <1>1, <1>2, <1>3, <1>4
     DEF HaltInv, StopHandled, LaserHandled, Busy, inputVars, triggerVars

(* What is taken while the switch is down, or after the laser failed, is    *)
(* dropped; otherwise the handlers may start.                              *)
LEMMA DroppedHalt ==
  ASSUME HaltInv, pc \in {"task", "point"}, Return, UNCHANGED inputVars,
         goal' \in {goal, "none", "cancelled"}
  PROVE  HaltInv'
<1>1. ~again
  BY DEF HaltInv, Busy
<1>2. pc' = "wait" /\ ~again'
  BY <1>1 DEF Return
<1> QED
  BY <1>2 DEF HaltInv, StopHandled, LaserHandled, Busy, inputVars, triggerVars

LEMMA StartedHalt ==
  ASSUME HaltInv, pc \in {"task", "point"}, ~Refusing, UNCHANGED inputVars,
         \/ Return /\ UNCHANGED goal
         \/ pc' \in {"auto", "manual", "force"} /\ UNCHANGED again
  PROVE  HaltInv'
<1>1. ~again
  BY DEF HaltInv, Busy
<1>2. pc' \in {"wait", "auto", "manual", "force"} /\ ~again'
  BY <1>1 DEF Return
<1>3. ~urgencyStopState' /\ ~unrecoverableErrorState'
  BY DEF Refusing, inputVars, triggerVars
<1> QED
  BY <1>2, <1>3 DEF HaltInv, StopHandled, LaserHandled, Busy, inputVars, triggerVars

LEMMA TaskAndPointHalt ==
  ASSUME TypeInv, HaltInv, handleTask \/ handlePoint
  PROVE  HaltInv'
<1>1. CASE DropTask \/ DropPoint
  BY <1>1, DroppedHalt DEF DropTask, DropPoint, handlerVars, outside
<1>2. CASE StartTask \/ QueueTask
  BY <1>2, StartedHalt DEF StartTask, QueueTask, outside
<1>3. CASE StopUrgentWhileStopped
  <2>1. goal' \in {goal, "cancelled"}
    BY <1>3 DEF StopUrgentWhileStopped, callStopUrgentInBase, StopTask, KeepTask,
                CancelGoal, Cancelled
  <2> QED BY <1>3, <2>1, DroppedHalt DEF StopUrgentWhileStopped, outside
<1>4. CASE HandlePoint
  <2>1. pc' \in {"auto", "manual", "force"}
    BY <1>4 DEF HandlePoint, Continue, ModeHandler, TypeInv, TypeOK, HandlerTypeOK,
                Status
  <2> QED BY <1>4, <2>1, StartedHalt DEF HandlePoint, Continue, outside
<1> QED BY <1>1, <1>2, <1>3, <1>4 DEF handleTask, handlePoint

LEMMA OtherThreadsHalt ==
  ASSUME HaltInv, EventLoop \/ Navigation \/ StationResult \/ Operator \/ Launch
  PROVE  HaltInv'
<1>1. CASE EventLoop
  <2>1. UNCHANGED <<inputVars, again, goal>> /\ pc' \in {pc, "undefined"}
    BY <1>1 DEF EventLoop, LoopSchedule, MechanismTimer, SleepTimer, NavTimer,
                dispatcherVars, navVars
  <2> QED
    BY <2>1 DEF HaltInv, StopHandled, LaserHandled, Busy, inputVars, triggerVars
<1>2. CASE Navigation \/ StationResult
  <2>1. UNCHANGED <<inputVars, again, pc>> /\ goal' \in {goal, "none"}
    BY <1>2 DEF Navigation, NavDone, NavCallback, NavAnswer, StationResult,
                dispatcherVars, navVars
  <2> QED
    BY <2>1 DEF HaltInv, StopHandled, LaserHandled, inputVars, triggerVars
<1>3. CASE UrgencyStop
  BY <1>3 DEF UrgencyStop, dispatcherVars, navVars, HaltInv, StopHandled, LaserHandled
<1>4. CASE UnrecoverableError
  BY <1>4 DEF UnrecoverableError, dispatcherVars, navVars, HaltInv, StopHandled,
              LaserHandled
<1>5. CASE Orders
  <2>1. UNCHANGED <<dispatcherVars, triggerVars, pc, navVars>>
    BY <1>5 DEF Orders, ManualBack, ManualForceBack, ManualResume, ManualPause,
                EnterManual, QuitManual, StopAndCharge, ForceBackToBase, Ask, Order,
                commandFrame
  <2> QED
    BY <2>1 DEF dispatcherVars, navVars, triggerVars, HaltInv, StopHandled, LaserHandled
<1>6. CASE Launch
  BY <1>6 DEF Launch, LaunchTask, LaunchRefused, stackVars, inputVars, triggerVars,
              navVars, HaltInv, StopHandled, LaserHandled
<1> QED BY <1>1, <1>2, <1>3, <1>4, <1>5, <1>6 DEF Operator, Orders

LEMMA HaltInvStep == TypeInv /\ HaltInv /\ [Next]_vars => HaltInv'
<1> SUFFICES ASSUME TypeInv, HaltInv, [Next]_vars PROVE HaltInv'
  OBVIOUS
<1>1. CASE Dispatcher \/ NodesAwake
  BY <1>1, TakeHalt, StopHalt, TaskAndPointHalt, PointHandlersHalt DEF Dispatcher
<1>2. CASE EventLoop \/ Navigation \/ StationResult \/ Operator \/ Launch
  BY <1>2, OtherThreadsHalt
<1>3. CASE UNCHANGED vars
  BY <1>3 DEF vars, stackVars, inputVars, triggerVars, navVars, HaltInv, StopHandled,
              LaserHandled
<1> QED BY <1>1, <1>2, <1>3 DEF Next

LEMMA HaltInvHolds == Spec => []HaltInv
<1>1. TypeInv /\ HaltInv /\ [Next]_vars => HaltInv'
  BY HaltInvStep
<1> QED BY HaltInvInit, <1>1, TypeCorrect, PTL DEF Spec

(* While the emergency stop is down and handleStop has seen it, the robot   *)
(* has no goal: no task, command, answer or timer that execute takes in     *)
(* the meantime sends one.                                                 *)
THEOREM StopHaltsHolds == Spec => []StopHalts
<1>1. HaltInv => StopHalts
  BY DEF HaltInv, StopHandled, StopHalts
<1> QED BY HaltInvHolds, <1>1, PTL

(* One step after the failure: it is a take, a drop or another thread's.    *)
LEMMA LaserStep ==
  ASSUME HaltInv, LaserHandled, [Next]_vars
  PROVE  goal' \in {goal, "none", "cancelled"} /\ station' \in {station, "idle"}
<1>0. pc \in {"wait", "stop", "task", "point", "undefined"} /\ unrecoverableErrorState
  BY DEF HaltInv, LaserHandled
<1>1. CASE Take
  BY <1>1 DEF Take, TakeUnrecoverable, TakeStop, TakeTask, TakePoint, takeFrame,
              handlerVars, hardwareVars
<1>2. CASE handleStop
  BY <1>0, <1>2
     DEF handleStop, IgnoreStop, StopPressed, Released, ReleasedWithoutTask,
         ReleasedWhilePaused, ReleasedReplaying, ReleasedIntoPause, handlerVars,
         hardwareVars
<1>3. CASE handleTask \/ handlePoint
  BY <1>0, <1>3
     DEF handleTask, handlePoint, DropTask, StartTask, QueueTask, DropPoint,
         HandlePoint, StopUrgentWhileStopped, Refusing, callStopUrgentInBase,
         StopTask, KeepTask, CancelGoal, Cancelled, handlerVars, hardwareVars
<1>4. CASE EventLoop \/ Navigation \/ StationResult
  BY <1>4 DEF EventLoop, LoopSchedule, MechanismTimer, SleepTimer, NavTimer,
              Navigation, NavDone, NavCallback, NavAnswer, StationResult, navVars
<1>5. CASE Operator
  BY <1>5 DEF Operator, ManualBack, ManualForceBack, ManualResume, ManualPause,
              EnterManual, QuitManual, StopAndCharge, ForceBackToBase, UrgencyStop,
              UnrecoverableError, Ask, Order, commandFrame, navVars
<1>6. CASE Launch
  BY <1>6 DEF Launch, LaunchTask, LaunchRefused, navVars, hardwareVars
<1>7. ~HandleUnrecoverable /\ ~NodesAwake /\ ~SleepGivenUp
  BY <1>0 DEF HandleUnrecoverable, NodesAwake, SleepGivenUp
<1>8. ~handleAutoPoint /\ ~handleManualPoint /\ ~handleForcePoint
  BY <1>0
     DEF handleAutoPoint, AutoReturn, AutoPause, AutoResume, AutoManualClean,
         AutoStopUrgent, AutoFlow, AutoPlan, handleManualPoint, ManualCommand,
         ManualResumeTask, ManualStopUrgent, ManualFlow, ManualIgnore,
         handleForcePoint, ForceReturn, ForceStopUrgent, ForceFlow, ForceIgnore
<1>9. ~processControl
  BY <1>0
     DEF processControl, Control, ControlAskStation, ControlAlreadyWorking,
         ControlWakeUp, ControlMechanism, ControlFirstPoint, ControlEnsured,
         ControlNextPoint, ControlLastPoint, ControlUndefined, ControlGoBase,
         ControlEnd, ControlNothing
<1>10. CASE UNCHANGED vars
  BY <1>10 DEF vars, navVars, hardwareVars
<1> QED
  BY <1>1, <1>2, <1>3, <1>4, <1>5, <1>6, <1>7, <1>8, <1>9, <1>10 DEF Next, Dispatcher

(* Once the branch of execute for the unrecoverable error has run, no step *)
(* of any thread sends a goal or calls the station again: what is taken is *)
(* dropped, and only results that were under way still arrive.             *)
THEOREM LaserHaltsHolds == Spec => LaserHalts
<1>1. HaltInv /\ [Next]_vars =>
        [(unrecoverableErrorState /\ ~triggerUnrecoverableError /\ pc # "unrecoverable")
           => /\ goal' \in {goal, "none", "cancelled"}
              /\ station' \in {station, "idle"}]_vars
  BY LaserStep DEF LaserHandled
<1> QED BY HaltInvHolds, <1>1, PTL DEF Spec, LaserHalts
=============================================================================
