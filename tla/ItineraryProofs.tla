---------------------------- MODULE ItineraryProofs ----------------------------
(***************************************************************************)
(* Theorems about the itinerary of a task: out of the station, along its   *)
(* plan, back and into the station, for every set of tasks, every plan     *)
(* length and every limit of retries, when nobody interrupts; about the    *)
(* plan of a paused task; and about what a resume brings back, whatever    *)
(* the flow and the mode were when the pause was ordered.                  *)
(*                                                                         *)
(* Without commands there is one thing at a time that the executor waits   *)
(* for or has in hand: the answer of the navigation, of the station, of    *)
(* the mechanism or of the nodes, as a request, as a point that waits or   *)
(* as the point that is handled.  The flow says which one it is.           *)
(***************************************************************************)
EXTENDS ExecutorHistoryProofs

(* No command, no timeout of the navigation, and something to clean.        *)
Uninterrupted == MaxCommands = 0 /\ "navTimeout" \notin Events /\ PlanSize # 0

Calm ==
  /\ event_status = "AUTO" /\ ~again
  /\ ~urgencyStopState /\ ~triggerUrgencyStop
  /\ ~unrecoverableErrorState /\ ~triggerUnrecoverableError
  /\ pc \in {"wait", "task", "point", "auto", "control", "asleep"}

(* The plan is what is left of 1 .. PlanSize, and the rest has been tried.  *)
Whole == Len(plannerQueue) = PlanSize
Over == plannerQueue = <<>>
HeadTried == plannerQueue # <<>> /\ Head(plannerQueue) \in tried

PlanLeft ==
  /\ \A i \in DOMAIN plannerQueue :
       plannerQueue[i] = PlanSize - Len(plannerQueue) + i
  /\ Len(plannerQueue) <= PlanSize

PlanTried ==
  workTask # NoTask =>
    \A k \in 1 .. PlanSize : k <= PlanSize - Len(plannerQueue) => k \in tried

(* The flow in which the point id is what the executor waits for.           *)
FlowAwaits(id) ==
  \/ id = "SEIZE_SEAT" /\ event_flow = "waiting_for_task"
  \/ id = "OUT_STATION" /\ event_flow = "out_base_station"
  \/ id = "END_SLEEP" /\ event_flow = "switch_node_work_mode"
  \/ id = "OPEN_MECHANISM" /\ event_flow = "preliminary_preparation_completed"
  \/ id = "PLAN" /\ event_flow \in {"ensure_move_to_start_point",
                                    "flowing_water_production"}
  \/ id = "IN_BASE_POINT" /\ event_flow \in {"flowing_water_production",
                                             "try_move_base_point_again",
                                             "try_recharging_again"}
  \/ id = "CLOSE_MECHANISM" /\ event_flow = "arrive_base_point_success"
  \/ id = "IN_STATION" /\ event_flow = "flowing_water_execution_completed"

MechanismUp == mechanism = "up"
FirstReturn == retries.recharge = 0

Awaits(id) ==
  /\ workTask # NoTask
  /\ FlowAwaits(id)
  /\ id \in {"SEIZE_SEAT", "OUT_STATION", "END_SLEEP", "OPEN_MECHANISM"} => Whole
  /\ id = "PLAN" => ~Over
  /\ id \notin {"IN_BASE_POINT", "CLOSE_MECHANISM", "IN_STATION"} => FirstReturn
  /\ id \in {"IN_BASE_POINT", "CLOSE_MECHANISM", "IN_STATION"} => Over
  /\ id \in {"CLOSE_MECHANISM", "IN_STATION"} => MechanismUp
  /\ id = "IN_BASE_POINT" /\ retries.recharge > 0 => MechanismUp

Answered(point) ==
  /\ Awaits(point.id)
  /\ point.id = "PLAN" => HeadTried
  /\ point.id \in {"OPEN_MECHANISM", "CLOSE_MECHANISM"} => point.arrive

(* Before processControl. *)
Controlled ==
  /\ workTask # NoTask
  /\ \/ event_flow \in {"out_base_station", "switch_node_work_mode",
                        "preliminary_preparation_completed",
                        "cleaning_mechanism_ready"} /\ Whole /\ FirstReturn
     \/ event_flow \in {"ensure_move_to_start_point", "flowing_water_production"}
        /\ HeadTried /\ FirstReturn /\ job.id = "PLAN"
     \/ event_flow \in {"arrive_base_point_success", "arrive_base_station_success"}
        /\ Over
     \/ event_flow \in {"flowing_water_execution_completed", "try_recharging_again"}
        /\ Over /\ MechanismUp
     \/ event_flow = "try_move_base_point_again"
        /\ Over /\ (retries.recharge > 0 => MechanismUp)
     \/ event_flow = "software_interrupt_task"

(* The places where the one thing can be, and what is right there.          *)
Place == {"deque", "point", "auto", "control", "asleep", "goal", "result", "station",
          "open", "close"}

Scheduled(k) == k \in timers.queued \/ k \in timers.live

At(p) ==
  \/ p = "deque" /\ pointDeque # <<>>
  \/ p \in {"point", "auto", "control", "asleep"} /\ pc = p
  \/ p = "goal" /\ goal # "none"
  \/ p = "result" /\ navResult # "none"
  \/ p = "station" /\ station # "idle"
  \/ p \in {"open", "close"} /\ Scheduled(p)

Driving == (Over /\ Awaits("IN_BASE_POINT")) \/ (~Over /\ Awaits("PLAN"))

Right(p) ==
  CASE p = "deque" -> /\ Len(pointDeque) = 1 /\ Answered(pointDeque[1])
                      /\ pointDeque[1].id # "SEIZE_SEAT"
    [] p = "point" -> Answered(job) /\ job.id # "SEIZE_SEAT"
    [] p = "auto" -> Answered(job)
    [] p = "control" -> Controlled
    [] p = "asleep" -> Awaits("END_SLEEP")
    [] p = "goal" -> Driving /\ goal = IF Over THEN "base" ELSE "plan"
    [] p = "result" -> Driving /\ (Over \/ HeadTried)
    [] p = "station" -> Awaits(IF station = "out" THEN "OUT_STATION" ELSE "IN_STATION")
    [] p = "open" -> Awaits("OPEN_MECHANISM")
    [] p = "close" -> Awaits("CLOSE_MECHANISM")

(* A timer is queued or live. *)
TimersOnce ==
  \A k \in {"open", "close"} : ~(k \in timers.queued /\ k \in timers.live)

OnePlace == \A p, q \in Place : At(p) /\ At(q) => p = q
RightPlace == \A p \in Place : At(p) => Right(p)

ItineraryInv ==
  Calm /\ PlanLeft /\ PlanTried /\ TimersOnce /\ OnePlace /\ RightPlace

-----------------------------------------------------------------------------
(* Where the one thing goes. *)
LEMMA Arrives ==
  ASSUME NEW b \in Place, \A p \in Place : At(p)' => p = b, Right(b)'
  PROVE  OnePlace' /\ RightPlace'
BY DEF OnePlace, RightPlace

LEMMA Vanishes ==
  ASSUME \A p \in Place : ~At(p)'
  PROVE  OnePlace' /\ RightPlace'
BY DEF OnePlace, RightPlace

(* While it is at a, all other places are empty. *)
Elsewhere(a) ==
  /\ a # "deque" => pointDeque = <<>>
  /\ pc \in {"point", "auto", "control", "asleep"} => a = pc
  /\ a # "goal" => goal = "none"
  /\ a # "result" => navResult = "none"
  /\ a # "station" => station = "idle"
  /\ a # "open" => ~Scheduled("open")
  /\ a # "close" => ~Scheduled("close")

LEMMA OnlyThere ==
  ASSUME ItineraryInv, NEW a \in Place, At(a)
  PROVE  Elsewhere(a) /\ Right(a)
<1>1. Right(a)
  BY DEF ItineraryInv, RightPlace
<1>2. \A p \in Place : At(p) => p = a
  BY DEF ItineraryInv, OnePlace
<1>3. /\ a # "deque" => ~At("deque")
      /\ a # "goal" => ~At("goal")
      /\ a # "result" => ~At("result")
      /\ a # "station" => ~At("station")
      /\ a # "open" => ~At("open")
      /\ a # "close" => ~At("close")
  BY <1>2 DEF Place
<1>4. pc \in {"point", "auto", "control", "asleep"} => At(pc) /\ pc \in Place
  BY DEF At, Place
<1>5. Elsewhere(a)
  BY <1>2, <1>3, <1>4 DEF Elsewhere, At
<1> QED BY <1>1, <1>5

(* What the answers awaited depend on. *)
waitVars == <<workTask, event_flow, plannerQueue, mechanism, retries>>

LEMMA AwaitsStays ==
  ASSUME UNCHANGED waitVars
  PROVE  /\ \A id : Awaits(id)' <=> Awaits(id)
         /\ Driving' <=> Driving
         /\ Over' <=> Over
         /\ HeadTried /\ tried \subseteq tried' => HeadTried'
         /\ \A point : Answered(point) /\ tried \subseteq tried' => Answered(point)'
         /\ PlanLeft' <=> PlanLeft
         /\ PlanTried /\ tried \subseteq tried' => PlanTried'
<1>1. /\ \A id : Awaits(id)' <=> Awaits(id)
      /\ Over' <=> Over
  BY DEF waitVars, Awaits, FlowAwaits, Whole, Over, MechanismUp, FirstReturn
<1>2. Driving' <=> Driving
  BY <1>1 DEF Driving
<1>3. HeadTried /\ tried \subseteq tried' => HeadTried'
  BY DEF waitVars, HeadTried
<1>4. \A point : Answered(point) /\ tried \subseteq tried' => Answered(point)'
  BY <1>1, <1>3 DEF Answered
<1>5. PlanLeft' <=> PlanLeft
  BY DEF PlanLeft, waitVars
<1>6. PlanTried /\ tried \subseteq tried' => PlanTried'
  BY DEF PlanTried, waitVars
<1> QED BY <1>1, <1>2, <1>3, <1>4, <1>5, <1>6

(* Steps that move nothing from its place. *)
LEMMA NothingMoves ==
  ASSUME ItineraryInv, UNCHANGED waitVars, tried \subseteq tried',
         UNCHANGED <<pointDeque, goal, navResult, station>>,
         \A k \in {"open", "close"} : Scheduled(k)' <=> Scheduled(k),
         UNCHANGED <<pc, job>> \/ (pc' \in {"wait", "task"} /\ pc \in {"wait", "task"}),
         Calm', TimersOnce'
  PROVE  ItineraryInv'
<1>1. \A p \in Place : At(p)' <=> At(p)
  BY DEF At, Place
<1>2. \A p \in Place : At(p) /\ Right(p) => Right(p)'
  <2> SUFFICES ASSUME NEW p \in Place, At(p), Right(p) PROVE Right(p)'
    OBVIOUS
  <2>1. CASE p \in {"point", "auto", "control", "asleep"}
    <3>1. UNCHANGED <<pc, job>>
      BY <2>1 DEF At
    <3>2. Controlled => Controlled'
      BY <3>1, AwaitsStays
         DEF Controlled, waitVars, Over, Whole, MechanismUp, FirstReturn
    <3> QED BY <2>1, <3>1, <3>2, AwaitsStays DEF Right
  <2>2. CASE p = "deque"
    BY <2>2, AwaitsStays DEF Right
  <2>3. CASE p \in {"goal", "result"}
    BY <2>3, AwaitsStays DEF Right
  <2>4. CASE p \in {"station", "open", "close"}
    BY <2>4, AwaitsStays DEF Right
  <2> QED BY <2>1, <2>2, <2>3, <2>4 DEF Place
<1>3. OnePlace' /\ RightPlace'
  BY <1>1, <1>2 DEF ItineraryInv, OnePlace, RightPlace
<1> QED BY <1>3, AwaitsStays DEF ItineraryInv

-----------------------------------------------------------------------------
(* The other threads. *)
LEMMA TimerTypes ==
  ASSUME TypeOK
  PROVE  /\ CancelAny => timers' = [queued |-> timers.queued, live |-> {}]
         /\ \A k : Fires(k) => timers' = [queued |-> timers.queued,
                                          live |-> timers.live \ {k}]
BY DEF TypeOK, HandlerTypeOK, CancelAny, Fires

(* What was awaited at a comes as a point. *)
LEMMA AnswerComes ==
  ASSUME ItineraryInv, UNCHANGED waitVars, tried \subseteq tried', UNCHANGED <<pc, job>>,
         Calm', TimersOnce',
         NEW a \in {"goal", "result", "station", "open", "close"}, At(a), ~At(a)',
         NEW x, Push(x), Answered(x)', x.id # "SEIZE_SEAT",
         goal' \in {goal, "none"}, navResult' \in {navResult, "none"},
         station' \in {station, "idle"},
         \A k \in {"open", "close"} : Scheduled(k)' => Scheduled(k)
  PROVE  ItineraryInv'
<1>1. Elsewhere(a) /\ a \in Place
  BY OnlyThere DEF Place
<1>2. pointDeque' = <<x>> /\ Len(pointDeque') = 1 /\ pointDeque'[1] = x
  <2>1. pointDeque' = Append(<<>>, x)
    BY <1>1 DEF Elsewhere, Push
  <2>2. Append(<<>>, x) = <<x>>
    OBVIOUS
  <2> QED BY <2>1, <2>2
<1>3. \A p \in Place : At(p)' => p = "deque"
  <2> SUFFICES ASSUME NEW p \in Place, At(p)', p # "deque" PROVE FALSE
    OBVIOUS
  <2>1. p # a
    OBVIOUS
  <2>2. CASE p \in {"point", "auto", "control", "asleep"}
    BY <1>1, <2>2 DEF At, Elsewhere
  <2>3. CASE p \in {"goal", "result", "station"}
    BY <1>1, <2>1, <2>3 DEF At, Elsewhere
  <2>4. CASE p \in {"open", "close"}
    BY <1>1, <2>1, <2>4 DEF At, Elsewhere
  <2> QED BY <2>2, <2>3, <2>4 DEF Place
<1>4. Right("deque")'
  BY <1>2 DEF Right
<1>5. OnePlace' /\ RightPlace'
  BY <1>3, <1>4, Arrives DEF Place
<1> QED BY <1>5, AwaitsStays DEF ItineraryInv

(* Without a timeout, what the navigation answers is what is driven to. *)
LEMMA AnswerOfDriving ==
  ASSUME TypeOK, Driving, UNCHANGED waitVars, tried \subseteq tried',
         Over \/ HeadTried', NEW ok \in BOOLEAN, Answer(ok)
  PROVE  \E x : Push(x) /\ Answered(x)' /\ x.id # "SEIZE_SEAT"
<1>1. CASE Over
  <2>1. Awaits("IN_BASE_POINT")' /\ event_flow # "manual_cleaning"
    BY <1>1, AwaitsStays DEF Driving, Awaits, FlowAwaits
  <2>2. Push(FlowPoint("IN_BASE_POINT", ok))
    BY <1>1, <2>1 DEF Answer, Over
  <2> QED BY <2>1, <2>2 DEF Answered, FlowPoint
<1>2. CASE ~Over
  <2>1. Awaits("PLAN")' /\ HeadTried'
    BY <1>2, AwaitsStays DEF Driving
  <2>2. Push(PlanPoint(Head(plannerQueue), ok))
    BY <1>2 DEF Answer, Over
  <2> QED BY <2>1, <2>2 DEF Answered, PlanPoint
<1> QED BY <1>1, <1>2

LEMMA TriedIsHead ==
  ASSUME TypeOK
  PROVE  /\ tried \subseteq Tried /\ tried \subseteq TriedNow
         /\ ~Over /\ goal = "plan" => Head(plannerQueue) \in TriedNow
BY DEF Tried, TriedNow, Over

LEMMA NavigationItinerary ==
  ASSUME TypeInv, ItineraryInv, Navigation
  PROVE  ItineraryInv'
<1> TypeOK
  BY DEF TypeInv
<1>1. Calm' /\ UNCHANGED waitVars /\ UNCHANGED <<pc, job>>
  BY DEF ItineraryInv, Calm, Navigation, NavDone, NavCallback, NavAnswer, dispatcherVars,
         flowVars, taskVars, inputVars, triggerVars, waitVars
<1>2. CASE NavDone
  <2>1. At("goal") /\ "goal" \in Place
    BY <1>2 DEF NavDone, At, Place
  <2>2. Elsewhere("goal") /\ Right("goal")
    BY <2>1, OnlyThere
  <2>3. UNCHANGED <<pointDeque, station, timers>> /\ goal' = "none" /\ tried' = TriedNow
    BY <1>2 DEF NavDone
  <2>4. \A p \in Place : At(p)' => p = "result"
    BY <1>1, <2>2, <2>3 DEF At, Place, Elsewhere, Scheduled
  <2>5. tried \subseteq tried' /\ (~Over => HeadTried')
    BY <1>1, <2>2, <2>3, TriedIsHead DEF Right, HeadTried, waitVars, Over
  <2>6. Right("result")'
    BY <1>1, <2>2, <2>5, AwaitsStays DEF Right
  <2>7. OnePlace' /\ RightPlace'
    BY <2>4, <2>6, Arrives DEF Place
  <2>8. TimersOnce'
    BY <2>3 DEF ItineraryInv, TimersOnce
  <2> QED BY <1>1, <2>5, <2>7, <2>8, AwaitsStays DEF ItineraryInv
<1>3. CASE NavCallback
  <2>1. At("result") /\ "result" \in Place /\ ~At("result")'
    BY <1>3 DEF NavCallback, At, Place
  <2>2. Right("result")
    BY <2>1, OnlyThere
  <2>3. UNCHANGED <<goal, station, tried>> /\ navResult' = "none"
    BY <1>3 DEF NavCallback
  <2>4. TimersOnce' /\ \A k \in {"open", "close"} : Scheduled(k)' => Scheduled(k)
    BY <1>3, TimerTypes DEF NavCallback, TimersOnce, Scheduled
  <2>5. \E ok \in BOOLEAN : Answer(ok)
    BY <1>3 DEF NavCallback
  <2>6. Over \/ HeadTried'
    BY <1>1, <2>2, <2>3, AwaitsStays DEF Right
  <2>7. PICK x : Push(x) /\ Answered(x)' /\ x.id # "SEIZE_SEAT"
    BY <1>1, <2>2, <2>3, <2>5, <2>6, AnswerOfDriving DEF Right
  <2> QED BY <1>1, <2>1, <2>3, <2>4, <2>7, AnswerComes
<1>4. CASE NavAnswer
  <2>1. At("goal") /\ "goal" \in Place /\ ~At("goal")'
    BY <1>4 DEF NavAnswer, At, Place
  <2>2. Right("goal")
    BY <2>1, OnlyThere
  <2>3. UNCHANGED <<navResult, station>> /\ goal' = "none" /\ tried' = TriedNow
    BY <1>4 DEF NavAnswer
  <2>4. TimersOnce' /\ \A k \in {"open", "close"} : Scheduled(k)' => Scheduled(k)
    BY <1>4, TimerTypes DEF NavAnswer, TimersOnce, Scheduled
  <2>5. \E ok \in BOOLEAN : Answer(ok)
    BY <1>4 DEF NavAnswer
  <2>6. tried \subseteq tried' /\ (Over \/ HeadTried')
    BY <1>1, <2>2, <2>3, TriedIsHead DEF Right, HeadTried, waitVars, Over
  <2>7. PICK x : Push(x) /\ Answered(x)' /\ x.id # "SEIZE_SEAT"
    BY <1>1, <2>2, <2>5, <2>6, AnswerOfDriving DEF Right
  <2> QED BY <1>1, <2>1, <2>3, <2>4, <2>6, <2>7, AnswerComes
<1> QED BY <1>2, <1>3, <1>4 DEF Navigation

LEMMA StationItinerary ==
  ASSUME TypeInv, ItineraryInv, StationResult
  PROVE  ItineraryInv'
<1>1. /\ Calm' /\ TimersOnce' /\ UNCHANGED <<pc, job, tried, goal, navResult, timers>>
      /\ UNCHANGED waitVars /\ station' = "idle"
  BY DEF ItineraryInv, Calm, TimersOnce, StationResult, dispatcherVars, flowVars, taskVars,
         inputVars, triggerVars, waitVars, navVars
<1>2. At("station") /\ "station" \in Place /\ ~At("station")'
  BY DEF StationResult, At, Place
<1>3. Right("station")
  BY <1>2, OnlyThere
<1>4. PICK ok \in BOOLEAN :
        Push(FlowPoint(IF station = "out" THEN "OUT_STATION" ELSE "IN_STATION", ok))
  BY DEF StationResult
<1>5. PICK x : Push(x) /\ Answered(x)' /\ x.id # "SEIZE_SEAT"
  BY <1>1, <1>3, <1>4, AwaitsStays DEF Right, Answered, FlowPoint
<1>6. \A k \in {"open", "close"} : Scheduled(k)' => Scheduled(k)
  BY <1>1 DEF Scheduled
<1> QED BY <1>1, <1>2, <1>5, <1>6, AnswerComes

LEMMA EventLoopItinerary ==
  ASSUME Uninterrupted, TypeInv, ItineraryInv, EventLoop
  PROVE  ItineraryInv'
<1> TypeOK
  BY DEF TypeInv
<1>1. ~NavTimer
  BY DEF NavTimer, Uninterrupted
<1>2. /\ Calm' /\ UNCHANGED <<pc, job, tried, goal, navResult, station>>
      /\ UNCHANGED waitVars
  <2>1. UNCHANGED <<dispatcherVars, tried, inputVars, pc, navVars, station>>
    BY <1>1 DEF EventLoop, LoopSchedule, MechanismTimer, SleepTimer
  <2> QED BY <2>1 DEF ItineraryInv, Calm, dispatcherVars, flowVars, taskVars, inputVars,
             triggerVars, waitVars, navVars
<1>3. CASE LoopSchedule
  <2>1. UNCHANGED pointDeque /\ TimersOnce'
    BY <1>3 DEF LoopSchedule, TimersOnce
  <2>2. \A k \in {"open", "close"} : Scheduled(k)' <=> Scheduled(k)
    BY <1>3 DEF LoopSchedule, Scheduled
  <2> QED BY <1>2, <2>1, <2>2, NothingMoves
<1>4. CASE SleepTimer
  <2>1. UNCHANGED pointDeque
    BY <1>4 DEF SleepTimer
  <2>2. timers' = [queued |-> timers.queued, live |-> timers.live \ {"sleep"}]
    BY <1>4, TimerTypes DEF SleepTimer
  <2>3. TimersOnce' /\ \A k \in {"open", "close"} : Scheduled(k)' <=> Scheduled(k)
    BY <2>2 DEF ItineraryInv, TimersOnce, Scheduled
  <2> QED BY <1>2, <2>1, <2>3, NothingMoves
<1>5. ASSUME NEW k \in {"open", "close"}, NEW i \in {"OPEN_MECHANISM", "CLOSE_MECHANISM"},
             k = "open" <=> i = "OPEN_MECHANISM",
             Fires(k), Push(FlowPoint(i, TRUE))
      PROVE  ItineraryInv'
  <2>1. timers' = [queued |-> timers.queued, live |-> timers.live \ {k}] /\ k \in timers.live
    BY <1>5, TimerTypes DEF Fires
  <2>2. k \notin timers.queued
    BY <2>1 DEF ItineraryInv, TimersOnce
  <2>3. At(k) /\ ~At(k)' /\ k \in Place
    BY <2>1, <2>2 DEF At, Place, Scheduled
  <2>4. Right(k)
    BY <2>3, OnlyThere
  <2>5. Awaits(i)
    BY <1>5, <2>4 DEF Right
  <2>6. Answered(FlowPoint(i, TRUE))'
    BY <1>2, <2>5, AwaitsStays DEF Answered, FlowPoint
  <2>7. TimersOnce' /\ \A h \in {"open", "close"} : Scheduled(h)' => Scheduled(h)
    BY <2>1 DEF ItineraryInv, TimersOnce, Scheduled
  <2>8. PICK x : Push(x) /\ Answered(x)' /\ x.id # "SEIZE_SEAT"
    BY <1>5, <2>6 DEF FlowPoint
  <2> QED BY <1>2, <2>3, <2>7, <2>8, AnswerComes
<1>6. CASE MechanismTimer
  BY <1>5, <1>6 DEF MechanismTimer
<1> QED BY <1>1, <1>3, <1>4, <1>6 DEF EventLoop

-----------------------------------------------------------------------------
(* The dispatcher takes an event or starts a task. *)
LEMMA PlanStays ==
  ASSUME UNCHANGED <<workTask, plannerQueue, tried>>
  PROVE  /\ (PlanLeft => PlanLeft') /\ (PlanTried => PlanTried')
         /\ (Whole => Whole') /\ (Over <=> Over') /\ (HeadTried => HeadTried')
BY DEF PlanLeft, PlanTried, Whole, Over, HeadTried

LEMMA TimersStay ==
  ASSUME UNCHANGED timers
  PROVE  /\ TimersOnce <=> TimersOnce'
         /\ \A k : Scheduled(k)' <=> Scheduled(k)
BY DEF TimersOnce, Scheduled

LEMMA ReturnCalm ==
  ASSUME Calm, Return
  PROVE  pc' = "wait" /\ ~again'
BY DEF Calm, Return

LEMMA TakeItinerary ==
  ASSUME TypeInv, ItineraryInv, Take
  PROVE  ItineraryInv'
<1> TypeOK
  BY DEF TypeInv
<1>1. TakeTask \/ TakePoint
  BY DEF Take, TakeUnrecoverable, TakeStop, ItineraryInv, Calm
<1>2. /\ UNCHANGED waitVars /\ UNCHANGED <<timers, goal, navResult, station, tried>>
      /\ Calm'
  BY <1>1 DEF TakeTask, TakePoint, ItineraryInv, Calm, flowVars, taskVars, waitVars,
     hardwareVars, ghostVars, inputVars, triggerVars
<1>3. CASE TakeTask
  <2>1. pc = "wait" /\ pc' = "task" /\ UNCHANGED pointDeque
    BY <1>3 DEF TakeTask
  <2> QED BY <1>2, <2>1, TimersStay, NothingMoves DEF ItineraryInv
<1>4. CASE TakePoint
  <2>1. At("deque") /\ "deque" \in Place
    BY <1>4 DEF TakePoint, At, Place
  <2>2. Elsewhere("deque") /\ Right("deque")
    BY <2>1, OnlyThere
  <2>3. pointDeque' = <<>> /\ pc' = "point" /\ job' = pointDeque[1]
    BY <1>4, <2>2 DEF TakePoint, Right, Last
  <2>4. \A p \in Place : At(p)' => p = "point"
    BY <1>2, <2>2, <2>3, TimersStay DEF At, Place, Elsewhere
  <2>5. Right("point")'
    BY <1>2, <2>2, <2>3, AwaitsStays DEF Right
  <2>6. OnePlace' /\ RightPlace'
    BY <2>4, <2>5, Arrives DEF Place
  <2> QED BY <1>2, <2>6, TimersStay, AwaitsStays DEF ItineraryInv
<1> QED BY <1>1, <1>3, <1>4

LEMMA NothingAtRest ==
  ASSUME ItineraryInv, pc \in {"wait", "task"}, event_flow = "waiting_for_task"
  PROVE  \A p \in Place : ~At(p)
<1> SUFFICES ASSUME NEW p \in Place, At(p) PROVE FALSE
  OBVIOUS
<1>1. Right(p)
  BY DEF ItineraryInv, RightPlace
<1>2. \A id : Awaits(id) => id = "SEIZE_SEAT"
  BY DEF Awaits, FlowAwaits
<1>3. p \notin {"point", "auto", "control", "asleep"}
  BY DEF At
<1>4. CASE p = "deque"
  BY <1>1, <1>2, <1>4 DEF Right, Answered
<1>5. CASE p \in {"goal", "result"}
  BY <1>1, <1>2, <1>5 DEF Right, Driving
<1>6. CASE p = "station"
  BY <1>1, <1>2, <1>6 DEF Right
<1>7. CASE p \in {"open", "close"}
  BY <1>1, <1>2, <1>7 DEF Right
<1> QED BY <1>3, <1>4, <1>5, <1>6, <1>7 DEF Place

LEMMA TaskItinerary ==
  ASSUME TypeInv, ItineraryInv, handleTask
  PROVE  ItineraryInv'
<1> TypeOK
  BY DEF TypeInv
<1>1. StartTask \/ QueueTask
  BY DEF handleTask, DropTask, Refusing, ItineraryInv, Calm
<1>2. CASE QueueTask
  <2>1. pc = "task" /\ pc' = "wait" /\ ~again'
    BY <1>2, ReturnCalm DEF QueueTask, ItineraryInv
  <2>2. /\ UNCHANGED waitVars /\ UNCHANGED <<timers, goal, navResult, station, tried>>
        /\ UNCHANGED pointDeque /\ Calm'
    BY <1>2, <2>1 DEF QueueTask, ItineraryInv, Calm, flowVars, waitVars, hardwareVars,
       ghostVars, outside, inputVars, triggerVars
  <2> QED BY <2>1, <2>2, TimersStay, NothingMoves DEF ItineraryInv
<1>3. CASE StartTask
  <2>1. /\ workTask' # NoTask /\ plannerQueue' = PlanPoints /\ pc' = "auto"
        /\ job' = SeizeSeat /\ event_flow' = "waiting_for_task" /\ FirstReturn'
        /\ UNCHANGED <<pointDeque, timers, goal, navResult, station>>
    BY <1>3, TaskAssumption
       DEF StartTask, TypeInv, TaskInHand, flowVars, hardwareVars, outside, FirstReturn
  <2>2. Calm'
    BY <1>3 DEF StartTask, ItineraryInv, Calm, flowVars, outside, inputVars, triggerVars
  <2>3. Len(plannerQueue') = PlanSize /\ PlanLeft' /\ PlanTried'
    BY <2>1, PlanAssumption DEF PlanPoints, PlanLeft, PlanTried
  <2>4. \A p \in Place : ~At(p)
    BY <1>3, NothingAtRest DEF StartTask
  <2>5. \A p \in Place : At(p)' => p = "auto"
    BY <2>1, <2>4, TimersStay DEF At
  <2>6. Right("auto")'
    BY <2>1, <2>3 DEF Right, Answered, Awaits, FlowAwaits, SeizeSeat, FlowPoint, Whole
  <2>7. OnePlace' /\ RightPlace'
    BY <2>5, <2>6, Arrives DEF Place
  <2> QED BY <2>1, <2>2, <2>3, <2>7, TimersStay DEF ItineraryInv
<1> QED BY <1>1, <1>2, <1>3

(* What is in the hand of the dispatcher is nowhere else. *)
LEMMA HandOnly ==
  ASSUME ItineraryInv, pc \in {"point", "auto", "control", "asleep"}
  PROVE  /\ Right(pc) /\ pointDeque = <<>> /\ goal = "none" /\ navResult = "none"
         /\ station = "idle" /\ ~Scheduled("open") /\ ~Scheduled("close")
<1>1. At(pc) /\ pc \in Place
  BY DEF At, Place
<1>2. Elsewhere(pc) /\ Right(pc)
  BY <1>1, OnlyThere
<1> QED BY <1>2 DEF Elsewhere

(* A handler that leaves the one thing in hand. *)
LEMMA StaysInHand ==
  ASSUME ItineraryInv, pc \in {"point", "auto", "control", "asleep"},
         UNCHANGED <<pointDeque, goal, navResult, station>>,
         ~Scheduled("open")', ~Scheduled("close")', TimersOnce',
         NEW b \in {"point", "auto", "control", "asleep"}, pc' = b, Right(b)',
         Calm', PlanLeft', PlanTried'
  PROVE  ItineraryInv'
<1>1. \A p \in Place : At(p)' => p = b
  BY HandOnly DEF At, Place
<1>2. OnePlace' /\ RightPlace'
  BY <1>1, Arrives DEF Place
<1> QED BY <1>2 DEF ItineraryInv

-----------------------------------------------------------------------------
(* The handlers of points. *)
LEMMA AwaitedIds ==
  ASSUME NEW id, Awaits(id)
  PROVE  id \in FlowId \cup {"PLAN"} /\ id \notin SpecialId
BY DEF Awaits, FlowAwaits, FlowId, SpecialId, ReturnId

LEMMA PointItinerary ==
  ASSUME TypeInv, ItineraryInv, handlePoint
  PROVE  ItineraryInv'
<1>1. HandlePoint
  BY DEF handlePoint, StopUrgentWhileStopped, DropPoint, Refusing, ItineraryInv, Calm
<1>2. /\ UNCHANGED waitVars /\ UNCHANGED <<timers, goal, navResult, station, tried>>
      /\ UNCHANGED <<pointDeque, job>> /\ pc = "point" /\ pc' = "auto" /\ Calm'
  BY <1>1 DEF HandlePoint, ModeHandler, Continue, ItineraryInv, Calm, handlerVars, flowVars,
     taskVars, waitVars, hardwareVars, ghostVars, outside, inputVars, triggerVars
<1>3. Right("point") /\ ~Scheduled("open") /\ ~Scheduled("close")
  BY <1>2, HandOnly
<1>4. Right("auto")'
  BY <1>2, <1>3, AwaitsStays DEF Right
<1> QED BY <1>2, <1>3, <1>4, TimersStay, PlanStays, StaysInHand DEF ItineraryInv, waitVars

LEMMA AutoItinerary ==
  ASSUME TypeInv, ItineraryInv, handleAutoPoint
  PROVE  ItineraryInv'
<1> TypeOK
  BY DEF TypeInv
<1>1. pc = "auto"
  BY DEF handleAutoPoint, AutoReturn, AutoPause, AutoResume, AutoManualClean,
     AutoStopUrgent, AutoFlow, AutoPlan
<1>2. Right("auto") /\ ~Scheduled("open") /\ ~Scheduled("close")
  BY <1>1, HandOnly
<1>3. Answered(job) /\ Awaits(job.id)
  BY <1>2 DEF Right, Answered
<1>4. AutoFlow \/ AutoPlan
  BY <1>3, AwaitedIds DEF handleAutoPoint, AutoReturn, AutoPause, AutoResume,
     AutoManualClean, AutoStopUrgent, AutoFlow, AutoPlan, SpecialId
<1>5. /\ UNCHANGED <<workTask, plannerQueue, mechanism, tried>>
      /\ UNCHANGED <<timers, goal, navResult, station, pointDeque, job>>
      /\ pc' = "control" /\ Calm'
  BY <1>4 DEF AutoFlow, AutoPlan, Continue, ItineraryInv, Calm, handlerVars, flowVars,
     taskVars, hardwareVars, ghostVars, outside, inputVars, triggerVars
<1>6. ASSUME AutoPlan PROVE Controlled'
  <2>1. UNCHANGED event_flow /\ job.id = "PLAN" /\ HeadTried
    BY <1>3, <1>6 DEF AutoPlan, handlerVars, flowVars, Answered
  <2>2. event_flow \in {"ensure_move_to_start_point", "flowing_water_production"}
        /\ workTask # NoTask
    BY <1>3, <2>1 DEF Awaits, FlowAwaits
  <2>3. FirstReturn'
    BY <1>3, <1>6, <2>1 DEF AutoPlan, handlerVars, Awaits, FirstReturn
  <2> QED BY <1>5, <2>1, <2>2, <2>3, PlanStays DEF Controlled
<1>7. ASSUME AutoFlow PROVE Controlled'
  <2>1. /\ event_flow' = FlowAfter(job.id, job.arrive)
        /\ retries' = RetriesAfter(job.id, job.arrive)
        /\ job.id \in FlowId /\ workTask # NoTask
    BY <1>3, <1>7 DEF AutoFlow, Awaits
  <2>2. retries.recharge \in 0 .. MaxRechargeRetry /\ retries.base \in 0 .. MaxBaseRetry
    BY DEF TypeOK, HandlerTypeOK
  <2>3. CASE job.id \in {"SEIZE_SEAT", "OUT_STATION", "END_SLEEP"}
    <3>1. event_flow' \in {"out_base_station", "switch_node_work_mode",
                           "preliminary_preparation_completed",
                           "software_interrupt_task"}
      BY <2>1, <2>3 DEF FlowAfter
    <3>2. Whole /\ FirstReturn'
      BY <1>3, <2>1, <2>3 DEF Awaits, RetriesAfter, FirstReturn
    <3> QED BY <1>5, <2>1, <3>1, <3>2, PlanStays DEF Controlled
  <2>4. CASE job.id \in {"OPEN_MECHANISM", "CLOSE_MECHANISM"}
    <3>1. job.arrive
      BY <1>3, <2>4 DEF Answered
    <3>2. CASE job.id = "OPEN_MECHANISM"
      <4>1. event_flow' = "cleaning_mechanism_ready" /\ UNCHANGED retries
        BY <2>1, <3>1, <3>2 DEF FlowAfter, RetriesAfter
      <4> QED BY <1>3, <1>5, <2>1, <3>2, <4>1, PlanStays
              DEF Controlled, Awaits, FirstReturn
    <3>3. CASE job.id = "CLOSE_MECHANISM"
      <4>1. event_flow' = "flowing_water_execution_completed"
        BY <2>1, <3>1, <3>3 DEF FlowAfter
      <4> QED BY <1>3, <1>5, <2>1, <3>3, <4>1, PlanStays DEF Controlled, Awaits, MechanismUp
    <3> QED BY <2>4, <3>2, <3>3
  <2>5. CASE job.id = "IN_BASE_POINT"
    <3>1. Over' /\ (retries.recharge > 0 => MechanismUp')
      BY <1>3, <1>5, <2>5, PlanStays DEF Awaits, MechanismUp
    <3>2. retries'.recharge = retries.recharge
      BY <2>1, <2>5 DEF RetriesAfter, MoreBase, TypeOK, HandlerTypeOK
    <3>3. \/ event_flow' = "arrive_base_point_success"
          \/ event_flow' = "flowing_water_execution_completed" /\ retries.recharge # 0
          \/ event_flow' \in {"try_move_base_point_again", "software_interrupt_task"}
      BY <2>1, <2>5 DEF FlowAfter
    <3> QED BY <1>5, <2>1, <2>2, <3>1, <3>2, <3>3 DEF Controlled
  <2>6. CASE job.id = "IN_STATION"
    <3>1. Over' /\ MechanismUp'
      BY <1>3, <1>5, <2>6, PlanStays DEF Awaits, MechanismUp
    <3>2. event_flow' \in {"arrive_base_station_success", "try_recharging_again",
                           "software_interrupt_task"}
      BY <2>1, <2>6 DEF FlowAfter
    <3> QED BY <1>5, <2>1, <3>1, <3>2 DEF Controlled
  <2> QED BY <2>1, <2>3, <2>4, <2>5, <2>6 DEF FlowId
<1>8. Controlled'
  BY <1>4, <1>6, <1>7
<1>9. Right("control")'
  BY <1>8 DEF Right
<1> QED BY <1>1, <1>2, <1>5, <1>9, TimersStay, PlanStays, StaysInHand DEF ItineraryInv

(* The nodes are awake, or not awaited any longer. *)
LEMMA AsleepItinerary ==
  ASSUME TypeInv, ItineraryInv, NodesAwake \/ SleepGivenUp
  PROVE  ItineraryInv'
<1> TypeOK
  BY DEF TypeInv
<1>1. pc = "asleep" /\ pc' = "wait" /\ ~again'
  BY ReturnCalm DEF NodesAwake, SleepGivenUp, ItineraryInv
<1>2. /\ Awaits("END_SLEEP") /\ pointDeque = <<>> /\ goal = "none" /\ navResult = "none"
      /\ station = "idle" /\ ~Scheduled("open") /\ ~Scheduled("close")
  BY <1>1, HandOnly DEF Right
<1>3. /\ UNCHANGED waitVars /\ UNCHANGED <<goal, navResult, station, tried>> /\ Calm'
  <2>1. UNCHANGED AwakeFrame
    BY DEF NodesAwake, SleepGivenUp
  <2> QED BY <1>1, <2>1 DEF AwakeFrame, ItineraryInv, Calm, flowVars, taskVars, countVars,
             waitVars, hardwareVars, ghostVars, inputVars, triggerVars, navVars
<1>4. \E ok \in BOOLEAN : pointDeque' = Append(pointDeque, FlowPoint("END_SLEEP", ok))
  BY DEF NodesAwake, SleepGivenUp, Push
<1>5. PICK ok \in BOOLEAN : pointDeque' = Append(<<>>, FlowPoint("END_SLEEP", ok))
  BY <1>2, <1>4
<1>6. pointDeque' = <<FlowPoint("END_SLEEP", ok)>>
  BY <1>5
<1>7. Right("deque")'
  BY <1>2, <1>3, <1>6, AwaitsStays DEF Right, Answered, FlowPoint
<1>8. TimersOnce' /\ \A k \in {"open", "close"} : Scheduled(k)' => Scheduled(k)
  <2>1. CASE CancelAny
    BY <2>1, TimerTypes DEF ItineraryInv, TimersOnce, Scheduled
  <2>2. CASE UNCHANGED timers
    BY <2>2, TimersStay DEF ItineraryInv
  <2> QED BY <2>1, <2>2 DEF NodesAwake, SleepGivenUp
<1>9. \A p \in Place : At(p)' => p = "deque"
  BY <1>1, <1>2, <1>3, <1>8 DEF At, Place
<1>10. OnePlace' /\ RightPlace'
  BY <1>7, <1>9, Arrives DEF Place
<1> QED BY <1>3, <1>8, <1>10, AwaitsStays DEF ItineraryInv

-----------------------------------------------------------------------------
(* processControl asks for the next thing. *)
LEMMA LaterTypes ==
  ASSUME TypeOK, NEW k, ScheduleLater(k)
  PROVE  /\ \A h : Scheduled(h)' <=> Scheduled(h) \/ h = k
         /\ TimersOnce /\ ~Scheduled(k) => TimersOnce'
         /\ TimersOnce /\ k \notin {"open", "close"} => TimersOnce'
<1>1. \/ timers' = [queued |-> timers.queued \cup {k}, live |-> timers.live]
      \/ timers' = [queued |-> timers.queued, live |-> timers.live \cup {k}]
  BY DEF TypeOK, HandlerTypeOK, ScheduleLater
<1> QED BY <1>1 DEF Scheduled, TimersOnce

(* What is asked for is the one thing that is awaited. *)
LEMMA AsksFor ==
  ASSUME ItineraryInv, pc = "control", pc' = "wait", UNCHANGED <<pointDeque, navResult>>,
         NEW b \in {"goal", "station", "open", "close"}, Right(b)',
         b # "goal" => UNCHANGED goal, b # "station" => UNCHANGED station,
         \A k \in {"open", "close"} : Scheduled(k)' => Scheduled(k) \/ k = b,
         TimersOnce', Calm', PlanLeft', PlanTried'
  PROVE  ItineraryInv'
<1>1. \A p \in Place : At(p)' => p = b
  BY HandOnly DEF At, Place
<1>2. OnePlace' /\ RightPlace'
  BY <1>1, Arrives DEF Place
<1> QED BY <1>2 DEF ItineraryInv

LEMMA ControlCalm ==
  ASSUME ItineraryInv, processControl, ~ControlUndefined
  PROVE  /\ pc = "control" /\ Calm' /\ UNCHANGED navResult
         /\ Controlled /\ workTask # NoTask
<1>1. pc = "control" /\ UNCHANGED controlFrame
  BY DEF processControl, ControlAskStation, ControlAlreadyWorking, ControlWakeUp,
     ControlMechanism, ControlFirstPoint, ControlEnsured, ControlNextPoint,
     ControlLastPoint, ControlUndefined, ControlGoBase, ControlEnd, ControlNothing, Control
<1>2. Controlled
  BY <1>1, HandOnly DEF Right
<1>3. UNCHANGED event_status \/ event_status' = "AUTO"
  BY DEF processControl, ControlAskStation, ControlAlreadyWorking, ControlWakeUp,
     ControlMechanism, ControlFirstPoint, ControlEnsured, ControlNextPoint,
     ControlLastPoint, ControlUndefined, ControlGoBase, ControlEnd, ControlNothing,
     AskStation, OpenMechanism, CloseMechanism, GoTo, GoBase, Proceed, goodGame,
     callTaskInterrupt, handlerVars, flowVars
<1>4. ~again' /\ pc' \in {"wait", "auto", "asleep"}
  <2>1. Return \/ (pc' \in {"auto", "asleep"} /\ UNCHANGED again)
    BY DEF processControl, ControlAskStation, ControlAlreadyWorking, ControlWakeUp,
       ControlMechanism, ControlFirstPoint, ControlEnsured, ControlNextPoint,
       ControlLastPoint, ControlGoBase, ControlEnd, ControlNothing, Continue
  <2> QED BY <2>1, ReturnCalm DEF ItineraryInv, Calm
<1> QED BY <1>1, <1>2, <1>3, <1>4 DEF Controlled, ItineraryInv, Calm, controlFrame,
          outside, inputVars, triggerVars

LEMMA PlanNotEmpty ==
  ASSUME Uninterrupted, TypeInv, ItineraryInv, processControl
  PROVE  ~ControlUndefined
<1> SUFFICES ASSUME ControlUndefined PROVE FALSE
  OBVIOUS
<1>1. pc = "control" /\ Over
      /\ event_flow \in {"cleaning_mechanism_ready", "flowing_water_production"}
  BY DEF ControlUndefined, Over
<1>2. Controlled
  BY <1>1, HandOnly DEF Right
<1>3. Whole \/ HeadTried
  BY <1>1, <1>2 DEF Controlled
<1> QED BY <1>1, <1>3 DEF Over, Whole, HeadTried, Uninterrupted

LEMMA ControlAsks ==
  ASSUME TypeInv, ItineraryInv, ~ControlUndefined, processControl,
         ControlAskStation \/ ControlMechanism \/ ControlGoBase
  PROVE  ItineraryInv'
<1> TypeOK
  BY DEF TypeInv
<1>1. /\ pc = "control" /\ Calm' /\ UNCHANGED navResult /\ Controlled
      /\ workTask # NoTask
  BY ControlCalm
<1>2. pointDeque = <<>> /\ goal = "none" /\ navResult = "none" /\ station = "idle"
      /\ ~Scheduled("open") /\ ~Scheduled("close") /\ TimersOnce
  BY <1>1, HandOnly DEF ItineraryInv
<1>3. /\ pc' = "wait" /\ UNCHANGED <<workTask, plannerQueue, tried, pointDeque>>
      /\ PlanLeft' /\ PlanTried'
  <2>1. pc' = "wait"
    BY ReturnCalm DEF ItineraryInv, ControlAskStation, ControlMechanism, ControlGoBase
  <2>2. UNCHANGED <<taskVars, pointDeque, ghostVars>>
    BY DEF ControlAskStation, ControlMechanism, ControlGoBase, AskStation, OpenMechanism,
       CloseMechanism, GoBase, Proceed
  <2> QED BY <2>1, <2>2, PlanStays DEF ItineraryInv, taskVars, ghostVars
<1>4. CASE ControlAskStation
  <2>1. UNCHANGED <<event_flow, goal, timers, mechanism>>
    BY <1>4 DEF ControlAskStation, AskStation, Proceed
  <2>2. \/ event_flow = "out_base_station" /\ station' = "out"
        \/ event_flow = "flowing_water_execution_completed" /\ station' = "in"
    BY <1>4 DEF ControlAskStation, AskStation, Control
  <2>3. \/ event_flow = "out_base_station" /\ Whole' /\ FirstReturn'
        \/ event_flow = "flowing_water_execution_completed" /\ Over' /\ MechanismUp'
    <3>1. UNCHANGED retries
      BY <1>4 DEF ControlAskStation, AskStation
    <3> QED BY <1>1, <1>3, <2>1, <2>2, <3>1, PlanStays
            DEF Controlled, MechanismUp, FirstReturn
  <2>4. Right("station")'
    BY <1>1, <1>3, <2>1, <2>2, <2>3 DEF Right, Awaits, FlowAwaits
  <2> QED BY <1>1, <1>2, <1>3, <2>1, <2>4, TimersStay, AsksFor
<1>5. CASE ControlMechanism
  <2>1. UNCHANGED <<event_flow, goal, station>>
    BY <1>5 DEF ControlMechanism, OpenMechanism, CloseMechanism, Proceed
  <2>2. CASE Control("preliminary_preparation_completed") /\ OpenMechanism(event_flow)
    <3>1. Whole' /\ FirstReturn'
      <4>1. UNCHANGED retries
        BY <2>2 DEF OpenMechanism
      <4> QED BY <1>1, <1>3, <2>2, <4>1, PlanStays DEF Controlled, Control, FirstReturn
    <3>2. Right("open")'
      BY <1>1, <1>3, <2>1, <2>2, <3>1 DEF Right, Awaits, FlowAwaits, Control
    <3>3. ScheduleLater("open")
      BY <2>2 DEF OpenMechanism
    <3> QED BY <1>1, <1>2, <1>3, <2>1, <3>2, <3>3, LaterTypes, AsksFor
  <2>3. CASE Control("arrive_base_point_success") /\ CloseMechanism(event_flow)
    <3>1. MechanismUp'
      BY <2>3 DEF CloseMechanism, MechanismUp
    <3>2. Right("close")'
      BY <1>1, <1>3, <2>1, <2>3, <3>1, PlanStays
         DEF Right, Awaits, FlowAwaits, Controlled, Control
    <3>3. ScheduleLater("close")
      BY <2>3 DEF CloseMechanism
    <3> QED BY <1>1, <1>2, <1>3, <2>1, <3>2, <3>3, LaterTypes, AsksFor
  <2> QED BY <1>5, <2>2, <2>3 DEF ControlMechanism
<1>6. CASE ControlGoBase
  <2>1. UNCHANGED <<event_flow, station, timers, mechanism>> /\ goal' = "base"
    BY <1>6 DEF ControlGoBase, GoBase, Proceed, BackBasePoint
  <2>2. event_flow \in {"try_recharging_again", "try_move_base_point_again"} /\ Over
    BY <1>1, <1>6 DEF ControlGoBase, Control, Controlled
  <2>3. retries'.recharge = retries.recharge
    BY <1>6 DEF ControlGoBase, GoBase, TypeOK, HandlerTypeOK
  <2>4. retries'.recharge > 0 => MechanismUp'
    BY <1>1, <2>1, <2>2, <2>3 DEF Controlled, MechanismUp
  <2>5. Right("goal")'
    BY <1>1, <1>3, <2>1, <2>2, <2>4, PlanStays DEF Right, Driving, Awaits, FlowAwaits
  <2> QED BY <1>1, <1>2, <1>3, <2>1, <2>5, TimersStay, AsksFor
<1> QED BY <1>4, <1>5, <1>6

LEMMA ControlDrives ==
  ASSUME TypeInv, ItineraryInv, ~ControlUndefined, processControl,
         ControlFirstPoint \/ ControlNextPoint \/ ControlLastPoint
  PROVE  ItineraryInv'
<1> TypeOK
  BY DEF TypeInv
<1>1. /\ pc = "control" /\ Calm' /\ UNCHANGED navResult /\ Controlled
      /\ workTask # NoTask
  BY ControlCalm
<1>2. pointDeque = <<>> /\ goal = "none" /\ navResult = "none" /\ station = "idle"
      /\ ~Scheduled("open") /\ ~Scheduled("close") /\ TimersOnce /\ PlanLeft
  BY <1>1, HandOnly DEF ItineraryInv
<1>3. /\ pc' = "wait" /\ UNCHANGED <<workTask, tried, pointDeque, station, mechanism>>
      /\ UNCHANGED retries
  <2>1. pc' = "wait"
    BY ReturnCalm DEF ItineraryInv, ControlFirstPoint, ControlNextPoint, ControlLastPoint
  <2>2. UNCHANGED <<workTask, retries, pointDeque, hardwareVars, ghostVars>>
    BY DEF ControlFirstPoint, ControlNextPoint, ControlLastPoint, GoTo
  <2> QED BY <2>1, <2>2 DEF hardwareVars, ghostVars
<1>4. plannerQueue \in Seq(1 .. PlanSize) /\ Len(plannerQueue) \in Nat /\ PlanSize \in Nat
  BY PlanAssumption DEF TypeOK, HandlerTypeOK
<1>5. \A k \in 1 .. PlanSize : k <= PlanSize - Len(plannerQueue) => k \in tried
  BY <1>1 DEF ItineraryInv, PlanTried
<1>6. CASE ControlFirstPoint
  <2>1. /\ plannerQueue' = plannerQueue /\ goal' = "plan" /\ ScheduleLater("nav") /\ ~Over
        /\ event_flow' = "ensure_move_to_start_point"
    BY <1>6 DEF ControlFirstPoint, GoTo, Over
  <2>2. Right("goal")'
    <3>1. FirstReturn' /\ ~Over'
      BY <1>1, <1>3, <1>6, <2>1, PlanStays
         DEF Controlled, FirstReturn, ControlFirstPoint, Control
    <3> QED BY <1>1, <1>3, <2>1, <3>1 DEF Right, Driving, Awaits, FlowAwaits
  <2>3. PlanLeft' /\ PlanTried'
    BY <1>3, <2>1, PlanStays DEF ItineraryInv
  <2> QED BY <1>1, <1>2, <1>3, <2>1, <2>2, <2>3, LaterTypes, AsksFor
<1>7. CASE ControlNextPoint
  <2>1. /\ plannerQueue' = Tail(plannerQueue) /\ goal' = "plan" /\ ScheduleLater("nav")
        /\ event_flow' = "flowing_water_production" /\ Len(plannerQueue) > 1
        /\ event_flow = "flowing_water_production"
    BY <1>7 DEF ControlNextPoint, GoTo, Control
  <2>2. /\ Len(plannerQueue') = Len(plannerQueue) - 1
        /\ \A i \in 1 .. Len(plannerQueue) - 1 : plannerQueue'[i] = plannerQueue[i + 1]
        /\ plannerQueue' \in Seq(1 .. PlanSize)
    BY <1>4, <2>1
  <2>3. PlanLeft'
    BY <1>2, <1>4, <2>1, <2>2 DEF PlanLeft
  <2>4. Head(plannerQueue) = PlanSize - Len(plannerQueue) + 1
    BY <1>2, <1>4, <2>1 DEF PlanLeft
  <2>5. HeadTried
    BY <1>1, <2>1 DEF Controlled
  <2>6. PlanTried'
    BY <1>3, <1>4, <1>5, <2>2, <2>4, <2>5 DEF PlanTried, HeadTried
  <2>7. ~Over'
    <3>1. Len(plannerQueue) > 1 /\ Len(plannerQueue) \in Nat
      BY <1>4, <2>1
    <3>2. Len(plannerQueue') = Len(plannerQueue) - 1
      BY <2>2
    <3>3. Len(plannerQueue') # 0
      BY <3>1, <3>2
    <3>4. Len(<<>>) = 0
      OBVIOUS
    <3> QED BY <3>3, <3>4 DEF Over
  <2>8. FirstReturn'
    BY <1>1, <1>3, <2>1 DEF Controlled, FirstReturn
  <2>9. Right("goal")'
    BY <1>1, <1>3, <2>1, <2>7, <2>8 DEF Right, Driving, Awaits, FlowAwaits
  <2> QED BY <1>1, <1>2, <1>3, <2>1, <2>3, <2>6, <2>9, LaterTypes, AsksFor
<1>8. CASE ControlLastPoint
  <2>1. /\ plannerQueue' = <<>> /\ goal' = "base" /\ UNCHANGED <<timers, event_flow>>
        /\ Len(plannerQueue) = 1 /\ event_flow = "flowing_water_production"
    BY <1>8 DEF ControlLastPoint, BackBasePoint, flowVars, Control
  <2>2. PlanLeft' /\ Over' /\ Len(plannerQueue') = 0
    BY <1>4, <2>1 DEF PlanLeft, Over
  <2>3. Head(plannerQueue) = PlanSize - Len(plannerQueue) + 1
    BY <1>2, <1>4, <2>1 DEF PlanLeft
  <2>4. HeadTried
    BY <1>1, <2>1 DEF Controlled
  <2>5. PlanTried'
    BY <1>3, <1>4, <1>5, <2>1, <2>2, <2>3, <2>4 DEF PlanTried, HeadTried
  <2>6. ~(retries'.recharge > 0)
    BY <1>1, <1>3, <2>1 DEF Controlled, FirstReturn
  <2>7. Right("goal")'
    BY <1>1, <1>3, <2>1, <2>2, <2>6 DEF Right, Driving, Awaits, FlowAwaits
  <2> QED BY <1>1, <1>2, <1>3, <2>1, <2>2, <2>5, <2>7, TimersStay, AsksFor
<1> QED BY <1>6, <1>7, <1>8

LEMMA ControlGoesOn ==
  ASSUME TypeInv, ItineraryInv, ~ControlUndefined, processControl,
         ControlAlreadyWorking \/ ControlWakeUp \/ ControlEnsured
  PROVE  ItineraryInv'
<1> TypeOK
  BY DEF TypeInv
<1>1. /\ pc = "control" /\ Calm' /\ UNCHANGED navResult /\ Controlled
      /\ workTask # NoTask
  BY ControlCalm
<1>2. pointDeque = <<>> /\ goal = "none" /\ navResult = "none" /\ station = "idle"
      /\ ~Scheduled("open") /\ ~Scheduled("close") /\ TimersOnce
  BY <1>1, HandOnly DEF ItineraryInv
<1>3. /\ UNCHANGED <<workTask, plannerQueue, tried, pointDeque, goal, station, mechanism>>
      /\ UNCHANGED retries /\ PlanLeft' /\ PlanTried'
  <2>1. UNCHANGED <<taskVars, ghostVars, pointDeque, goal, station, mechanism, retries>>
    BY DEF ControlAlreadyWorking, ControlWakeUp, ControlEnsured, Proceed, handlerVars,
       hardwareVars
  <2> QED BY <2>1, PlanStays DEF ItineraryInv, taskVars, ghostVars
<1>4. CASE ControlAlreadyWorking
  <2>1. /\ UNCHANGED <<timers, event_flow>> /\ event_flow = "switch_node_work_mode"
        /\ pc' = "auto" /\ job' = FlowPoint("END_SLEEP", TRUE)
    BY <1>4 DEF ControlAlreadyWorking, Control, handlerVars, flowVars
  <2>2. Right("auto")'
    BY <1>1, <1>3, <2>1, PlanStays
       DEF Right, Answered, Awaits, FlowAwaits, Controlled, FlowPoint, FirstReturn
  <2> QED BY <1>1, <1>2, <1>3, <2>1, <2>2, TimersStay, StaysInHand
<1>5. CASE ControlWakeUp
  <2>1. /\ UNCHANGED event_flow /\ event_flow = "switch_node_work_mode"
        /\ pc' = "asleep" /\ ScheduleLater("sleep")
    BY <1>5 DEF ControlWakeUp, Control, Proceed, Continue
  <2>2. Right("asleep")'
    BY <1>1, <1>3, <2>1, PlanStays DEF Right, Awaits, FlowAwaits, Controlled, FirstReturn
  <2> QED BY <1>1, <1>2, <1>3, <2>1, <2>2, LaterTypes, StaysInHand
<1>6. CASE ControlEnsured
  <2>1. /\ UNCHANGED timers /\ event_flow = "ensure_move_to_start_point"
        /\ event_flow' = "flowing_water_production" /\ pc' = "auto" /\ UNCHANGED job
    BY <1>6 DEF ControlEnsured, Control, Continue
  <2>2. HeadTried /\ job.id = "PLAN" /\ ~Over
    BY <1>1, <2>1 DEF Controlled, HeadTried, Over
  <2>3. FirstReturn'
    BY <1>1, <1>3, <2>1 DEF Controlled, FirstReturn
  <2>4. HeadTried' /\ ~Over' /\ job'.id = "PLAN"
    BY <1>3, <2>1, <2>2, PlanStays DEF HeadTried
  <2>5. Right("auto")'
    BY <1>1, <1>3, <2>1, <2>3, <2>4 DEF Right, Answered, Awaits, FlowAwaits
  <2> QED BY <1>1, <1>2, <1>3, <2>1, <2>5, TimersStay, StaysInHand
<1> QED BY <1>4, <1>5, <1>6

LEMMA ControlEnds ==
  ASSUME TypeInv, ItineraryInv, ~ControlUndefined, processControl, ControlEnd
  PROVE  ItineraryInv'
<1>1. pc = "control" /\ Calm' /\ UNCHANGED navResult
  BY ControlCalm
<1>2. pointDeque = <<>> /\ goal = "none" /\ navResult = "none" /\ station = "idle"
      /\ ~Scheduled("open") /\ ~Scheduled("close") /\ TimersOnce
  BY <1>1, HandOnly DEF ItineraryInv
<1>3. /\ UNCHANGED <<pointDeque, goal, station, timers>> /\ workTask' = NoTask
      /\ plannerQueue' = <<>>
  BY DEF ControlEnd, goodGame, callTaskInterrupt, Reset, hardwareVars
<1>4. pc' = "wait"
  BY ReturnCalm DEF ControlEnd, ItineraryInv
<1>5. \A p \in Place : ~At(p)'
  BY <1>1, <1>2, <1>3, <1>4, TimersStay DEF At
<1>6. PlanLeft' /\ PlanTried'
  BY <1>3, PlanAssumption DEF PlanLeft, PlanTried
<1> QED BY <1>1, <1>2, <1>3, <1>5, <1>6, TimersStay, Vanishes DEF ItineraryInv

LEMMA ControlItinerary ==
  ASSUME Uninterrupted, TypeInv, ItineraryInv, processControl
  PROVE  ItineraryInv'
<1>1. ~ControlUndefined
  BY PlanNotEmpty
<1>2. ~ControlNothing
  BY <1>1, ControlCalm DEF ControlNothing, Controlled
<1> QED BY <1>1, <1>2, ControlAsks, ControlDrives, ControlGoesOn, ControlEnds
        DEF processControl

-----------------------------------------------------------------------------
(* Every step keeps the itinerary, when nobody interrupts.                  *)
LEMMA ItineraryInit == Init => ItineraryInv
<1> SUFFICES ASSUME Init PROVE ItineraryInv
  OBVIOUS
<1> USE DEF Init
<1>1. Calm /\ TimersOnce
  BY DEF Calm, TimersOnce
<1>2. PlanLeft /\ PlanTried
  BY PlanAssumption DEF PlanLeft, PlanTried
<1>3. \A p \in Place : ~At(p)
  BY DEF At, Scheduled
<1> QED BY <1>1, <1>2, <1>3 DEF ItineraryInv, OnePlace, RightPlace

LEMMA NobodyAsks ==
  ASSUME Uninterrupted, TypeInv
  PROVE  ~Operator
<1>1. ~(commands < MaxCommands)
  BY DEF Uninterrupted, TypeInv, TypeOK, OutsideTypeOK
<1> QED BY <1>1
  DEF Operator, ManualBack, ManualForceBack, ManualResume, ManualPause, EnterManual,
      QuitManual, StopAndCharge, ForceBackToBase, UrgencyStop, UnrecoverableError,
      Command, Asked

LEMMA NobodyInterrupts ==
  ASSUME ItineraryInv
  PROVE  ~HandleUnrecoverable /\ ~handleStop /\ ~handleManualPoint /\ ~handleForcePoint
  BY DEF ItineraryInv, Calm, HandleUnrecoverable, handleStop, IgnoreStop, StopPressed,
     Released, ReleasedWithoutTask, ReleasedWhilePaused, ReleasedReplaying,
     ReleasedIntoPause, handleManualPoint, ManualCommand, ManualResumeTask,
     ManualStopUrgent, ManualFlow, ManualIgnore, handleForcePoint, ForceReturn,
     ForceStopUrgent, ForceFlow, ForceIgnore

LEMMA LaunchItinerary ==
  ASSUME ItineraryInv, Launch \/ UNCHANGED vars
  PROVE  ItineraryInv'
<1>1. /\ UNCHANGED <<stackVars, flowVars, triggerVars, workTask, plannerQueue, retries>>
      /\ UNCHANGED <<pointDeque, navVars, hardwareVars, timers, ghostVars>>
  BY DEF Launch, LaunchTask, LaunchRefused, vars, taskVars, countVars, inputVars
<1>2. UNCHANGED <<waitVars, tried, goal, navResult, station, pc, job>>
  BY <1>1 DEF waitVars, flowVars, hardwareVars, ghostVars, navVars, stackVars
<1>3. Calm'
  BY <1>1 DEF ItineraryInv, Calm, stackVars, flowVars, triggerVars
<1> QED BY <1>1, <1>2, <1>3, TimersStay, NothingMoves DEF ItineraryInv

LEMMA ItineraryStep ==
  ASSUME Uninterrupted
  PROVE  TypeInv /\ ItineraryInv /\ [Next]_vars => ItineraryInv'
<1> SUFFICES ASSUME TypeInv, ItineraryInv, [Next]_vars PROVE ItineraryInv'
  OBVIOUS
<1>1. ~HandleUnrecoverable /\ ~handleStop /\ ~handleManualPoint /\ ~handleForcePoint
  BY NobodyInterrupts
<1>2. CASE Dispatcher
  BY <1>1, <1>2, TakeItinerary, TaskItinerary, PointItinerary, AutoItinerary,
     ControlItinerary, AsleepItinerary DEF Dispatcher
<1>3. CASE NodesAwake
  BY <1>3, AsleepItinerary
<1>4. CASE EventLoop \/ Navigation \/ StationResult
  BY <1>4, EventLoopItinerary, NavigationItinerary, StationItinerary
<1>5. CASE Launch \/ UNCHANGED vars
  BY <1>5, LaunchItinerary
<1> QED BY <1>2, <1>3, <1>4, <1>5, NobodyAsks DEF Next

LEMMA ItineraryHolds ==
  ASSUME Uninterrupted
  PROVE  Spec => []ItineraryInv
<1>1. TypeInv /\ ItineraryInv /\ [Next]_vars => ItineraryInv'
  BY ItineraryStep
<1> QED BY ItineraryInit, <1>1, TypeCorrect, PTL DEF Spec

(* The station is asked to take the robot in only with the mechanism up,    *)
(* and the mechanism stays up until it answers, whatever was late or was    *)
(* tried again on the way home.                                             *)
THEOREM DocksMechanismUpHolds ==
  ASSUME Uninterrupted
  PROVE  Spec => []DocksMechanismUp
<1>1. ItineraryInv => DocksMechanismUp
  <2> SUFFICES ASSUME ItineraryInv, station = "in" PROVE mechanism = "up"
    BY DEF DocksMechanismUp
  <2>1. At("station") /\ "station" \in Place
    BY DEF At, Place
  <2>2. Right("station")
    BY <2>1 DEF ItineraryInv, RightPlace
  <2> QED BY <2>2 DEF Right, Awaits, MechanismUp
<1> QED BY <1>1, ItineraryHolds, PTL

(* processControl never takes the front of an empty plan, in any order in   *)
(* which the answers of the navigation, the station and the timers arrive.  *)
THEOREM EmptyPlanNeverReadHolds ==
  ASSUME Uninterrupted
  PROVE  Spec => []EmptyPlanNeverRead
<1>1. ItineraryInv => EmptyPlanNeverRead
  BY DEF ItineraryInv, Calm, EmptyPlanNeverRead, Alive
<1> QED BY <1>1, ItineraryHolds, PTL

(* Without commands only goodGame at the end of the itinerary completes a   *)
(* task.                                                                    *)
LEMMA CompletesInTheEnd ==
  ASSUME Uninterrupted, TypeInv, ItineraryInv, [Next]_vars, NEW t \in Task,
         history[t] = "executing", history'[t] = "complete"
  PROVE  pc = "control" /\ event_flow = "arrive_base_station_success"
<1>1. CASE processControl
  <2>1. ControlEnd
    <3>1. history' # history
      OBVIOUS
    <3> QED BY <1>1, <3>1
        DEF processControl, ControlAskStation, ControlAlreadyWorking, ControlWakeUp,
            ControlMechanism, ControlFirstPoint, ControlEnsured, ControlNextPoint,
            ControlLastPoint, ControlUndefined, ControlGoBase, ControlNothing,
            AskStation, OpenMechanism, CloseMechanism, GoTo, GoBase, Proceed,
            handlerVars, taskVars
  <2>2. ~callTaskInterrupt
    <3> SUFFICES ASSUME callTaskInterrupt PROVE FALSE
      OBVIOUS
    <3>1. history' = Closed("errorComplete")
      BY DEF callTaskInterrupt
    <3>2. Closed("errorComplete")[t] \in {history[t], "errorComplete"}
      BY DEF Closed, TypeInv, TypeOK, HandlerTypeOK
    <3> QED BY <3>1, <3>2
  <2> QED BY <2>1, <2>2 DEF ControlEnd, Control
<1>2. CASE ~processControl
  <2>1. \/ StartTask
        \/ Launch
        \/ UNCHANGED history
    <3>1. CASE Dispatcher
      <4>1. CASE Take \/ handleTask \/ SleepGivenUp
        BY <4>1
           DEF Take, TakeUnrecoverable, TakeStop, TakeTask, TakePoint, handleTask,
               DropTask, QueueTask, SleepGivenUp, takeFrame, handlerVars, taskVars,
               AwakeFrame
      <4>2. CASE handlePoint
        BY <4>2 DEF handlePoint, StopUrgentWhileStopped, DropPoint, HandlePoint,
               handlerVars, taskVars, ItineraryInv, Calm
      <4>3. CASE handleAutoPoint
        <5>1. AutoFlow \/ AutoPlan
          <6>1. pc = "auto"
            BY <4>3 DEF handleAutoPoint, AutoReturn, AutoPause, AutoResume,
               AutoManualClean, AutoStopUrgent, AutoFlow, AutoPlan
          <6>2. Answered(job)
            BY <6>1, HandOnly DEF Right
          <6>3. job.id \notin SpecialId
            BY <6>2, AwaitedIds DEF Answered
          <6> QED BY <4>3, <6>3 DEF handleAutoPoint, AutoReturn, AutoPause, AutoResume,
                  AutoManualClean, AutoStopUrgent, SpecialId, ReturnId
        <5> QED BY <5>1 DEF AutoFlow, AutoPlan, handlerVars, taskVars
      <4>4. ~HandleUnrecoverable /\ ~handleStop /\ ~handleManualPoint
            /\ ~handleForcePoint
        BY DEF ItineraryInv, Calm, HandleUnrecoverable, handleStop, IgnoreStop,
           StopPressed, Released, ReleasedWithoutTask, ReleasedWhilePaused,
           ReleasedReplaying, ReleasedIntoPause, handleManualPoint, ManualCommand,
           ManualResumeTask, ManualStopUrgent, ManualFlow, ManualIgnore,
           handleForcePoint, ForceReturn, ForceStopUrgent, ForceFlow, ForceIgnore
      <4> QED BY <1>2, <3>1, <4>1, <4>2, <4>3, <4>4 DEF Dispatcher
    <3>2. CASE NodesAwake \/ EventLoop \/ Navigation \/ StationResult
      BY <3>2 DEF NodesAwake, EventLoop, LoopSchedule, MechanismTimer, SleepTimer,
         NavTimer, Navigation, NavDone, NavCallback, NavAnswer, StationResult,
         dispatcherVars, AwakeFrame, taskVars
    <3>3. CASE UNCHANGED vars
      BY <3>3 DEF vars, taskVars
    <3> QED BY <3>1, <3>2, <3>3, NobodyAsks DEF Next
  <2>2. ~StartTask
    <3> SUFFICES ASSUME StartTask PROVE FALSE
      OBVIOUS
    <3>1. history' = [history EXCEPT ![jobTask] = "executing"]
      BY DEF StartTask
    <3>2. history'[t] \in {history[t], "executing"}
      BY <3>1 DEF TypeInv, TypeOK, HandlerTypeOK
    <3> QED BY <3>2
  <2>3. ~Launch
    <3> SUFFICES ASSUME Launch PROVE FALSE
      OBVIOUS
    <3>1. PICK u \in Task : LaunchTask(u) \/ LaunchRefused(u)
      BY DEF Launch
    <3>2. \E h \in {"waiting", "launchFailed"} : history' = [history EXCEPT ![u] = h]
      BY <3>1 DEF LaunchTask, LaunchRefused
    <3>3. history'[t] \in {history[t], "waiting", "launchFailed"}
      BY <3>2 DEF TypeInv, TypeOK, HandlerTypeOK
    <3> QED BY <3>3
  <2> QED BY <2>1, <2>2, <2>3
<1> QED BY <1>1, <1>2

(* goodGame closes the row of a task as complete only when the navigation   *)
(* has answered for every point of its plan.                                *)
THEOREM PlanCompletedHolds ==
  ASSUME Uninterrupted
  PROVE  Spec => PlanCompleted
<1>1. TypeInv /\ ItineraryInv /\ [Next]_vars =>
        [\A t \in Task :
           (history[t] = "executing" /\ history'[t] = "complete" /\ ~cut)
             => tried = 1 .. PlanSize]_vars
  <2> SUFFICES ASSUME TypeInv, ItineraryInv, [Next]_vars, NEW t \in Task,
                      history[t] = "executing", history'[t] = "complete"
               PROVE  tried = 1 .. PlanSize
    OBVIOUS
  <2>1. pc = "control" /\ event_flow = "arrive_base_station_success"
    BY CompletesInTheEnd
  <2>2. Over /\ workTask # NoTask
    BY <2>1, HandOnly DEF Right, Controlled
  <2>3. Len(plannerQueue) = 0
    BY <2>2 DEF Over
  <2>4. \A k \in 1 .. PlanSize : k \in tried
    BY <2>2, <2>3, PlanAssumption DEF ItineraryInv, PlanTried
  <2> QED BY <2>4 DEF TypeInv, TypeOK, HandlerTypeOK
<1> QED BY <1>1, ItineraryHolds, TypeCorrect, PTL DEF Spec, PlanCompleted

-----------------------------------------------------------------------------
(* No running task is forgotten.  The itinerary says that what the executor *)
(* waits for is in one place at most; while a task runs it is also in one   *)
(* place at least, so some thread still owes the task its next step.        *)
TaskGoesOn == workTask # NoTask => \E p \in Place : At(p)

LEMMA PushedGoesOn ==
  ASSUME TypeInv, NEW x, Push(x)
  PROVE  TaskGoesOn'
<1> DEFINE longer == Append(pointDeque, x)
<1>1. pointDeque \in Seq(Point)
  BY DEF TypeInv, TypeOK, HandlerTypeOK
<1>2. Len(longer) = Len(pointDeque) + 1 /\ Len(pointDeque) \in Nat
  BY <1>1
<1>3. longer # <<>>
  BY <1>2
<1>4. pointDeque' # <<>>
  BY <1>3 DEF Push
<1> QED BY <1>4 DEF TaskGoesOn, At, Place

(* Steps that leave every place as it is. *)
LEMMA PlacesStay ==
  ASSUME TaskGoesOn, UNCHANGED <<workTask, pointDeque, goal, navResult, station>>,
         \A k \in {"open", "close"} : Scheduled(k)' <=> Scheduled(k),
         UNCHANGED pc \/ (pc' \in {"wait", "task"} /\ pc \in {"wait", "task"})
  PROVE  TaskGoesOn'
BY DEF TaskGoesOn, At, Place

LEMMA OthersGoOn ==
  ASSUME Uninterrupted, TypeInv, ItineraryInv, TaskGoesOn,
         EventLoop \/ Navigation \/ StationResult
  PROVE  TaskGoesOn'
<1> TypeOK
  BY DEF TypeInv
<1>1. CASE StationResult
  BY <1>1, PushedGoesOn DEF StationResult
<1>2. CASE NavDone
  BY <1>2 DEF NavDone, TaskGoesOn, At, Place
<1>3. CASE NavCallback \/ NavAnswer
  <2>1. PICK ok \in BOOLEAN : Answer(ok)
    BY <1>3 DEF NavCallback, NavAnswer
  <2>2. PICK p \in {"goal", "result"} : At(p)
    BY <1>3 DEF NavCallback, NavAnswer, At
  <2>3. Driving
    BY <2>2, OnlyThere DEF Right, Place
  <2>4. plannerQueue = <<>> => event_flow # "manual_cleaning"
    BY <2>3 DEF Driving, Over, Awaits, FlowAwaits
  <2>5. \E x : Push(x)
    BY <2>1, <2>4 DEF Answer
  <2> QED BY <2>5, PushedGoesOn
<1>4. CASE LoopSchedule
  <2>1. UNCHANGED <<workTask, pointDeque, goal, navResult, station, pc>>
    BY <1>4 DEF LoopSchedule, dispatcherVars, taskVars, navVars
  <2>2. \A k \in {"open", "close"} : Scheduled(k)' <=> Scheduled(k)
    BY <1>4 DEF LoopSchedule, Scheduled
  <2> QED BY <2>1, <2>2, PlacesStay
<1>5. CASE SleepTimer
  <2>1. UNCHANGED <<workTask, pointDeque, goal, navResult, station, pc>>
    BY <1>5 DEF SleepTimer, dispatcherVars, taskVars, navVars
  <2>2. timers' = [queued |-> timers.queued, live |-> timers.live \ {"sleep"}]
    BY <1>5, TimerTypes DEF SleepTimer
  <2> QED BY <2>1, <2>2, PlacesStay DEF Scheduled
<1>6. CASE MechanismTimer
  BY <1>6, PushedGoesOn DEF MechanismTimer
<1>7. ~NavTimer
  BY DEF NavTimer, Uninterrupted
<1> QED BY <1>1, <1>2, <1>3, <1>4, <1>5, <1>6, <1>7 DEF EventLoop, Navigation

(* The thread of the executor ends each turn with something asked for, a    *)
(* next body in hand, or the task over.                                     *)
LEMMA ControlAsksOn ==
  ASSUME Uninterrupted, TypeInv, ItineraryInv, processControl
  PROVE  TaskGoesOn'
<1> TypeOK
  BY DEF TypeInv
<1>1. ~ControlUndefined /\ ~ControlNothing
  BY PlanNotEmpty, ControlCalm DEF ControlNothing, Controlled
<1>2. CASE ControlAskStation
  BY <1>2 DEF ControlAskStation, AskStation, TaskGoesOn, At, Place
<1>3. CASE ControlMechanism
  <2>1. ScheduleLater("open") \/ ScheduleLater("close")
    BY <1>3 DEF ControlMechanism, OpenMechanism, CloseMechanism
  <2>2. Scheduled("open")' \/ Scheduled("close")'
    BY <2>1, LaterTypes
  <2> QED BY <2>2 DEF TaskGoesOn, At, Place
<1>4. CASE ControlFirstPoint \/ ControlNextPoint \/ ControlLastPoint \/ ControlGoBase
  <2>1. goal' \in {"plan", "base"}
    BY <1>4 DEF ControlFirstPoint, ControlNextPoint, ControlLastPoint, ControlGoBase,
       GoTo, GoBase, BackBasePoint
  <2> QED BY <2>1 DEF TaskGoesOn, At, Place
<1>5. CASE ControlAlreadyWorking \/ ControlWakeUp \/ ControlEnsured
  <2>1. pc' \in {"auto", "asleep"}
    BY <1>5 DEF ControlAlreadyWorking, ControlWakeUp, ControlEnsured, Continue
  <2> QED BY <2>1 DEF TaskGoesOn, At, Place
<1>6. CASE ControlEnd
  <2>1. workTask' = NoTask
    BY <1>6 DEF ControlEnd, goodGame, callTaskInterrupt, Reset
  <2> QED BY <2>1 DEF TaskGoesOn
<1> QED BY <1>1, <1>2, <1>3, <1>4, <1>5, <1>6 DEF processControl

LEMMA ExecutorGoesOn ==
  ASSUME Uninterrupted, TypeInv, ItineraryInv, TaskGoesOn, Dispatcher \/ NodesAwake
  PROVE  TaskGoesOn'
<1>1. CASE Take
  <2>1. TakeTask \/ TakePoint
    BY <1>1 DEF Take, TakeUnrecoverable, TakeStop, ItineraryInv, Calm
  <2>2. CASE TakePoint
    BY <2>2 DEF TakePoint, TaskGoesOn, At, Place
  <2>3. CASE TakeTask
    BY <2>3, PlacesStay, TimersStay DEF TakeTask, taskVars, hardwareVars
  <2> QED BY <2>1, <2>2, <2>3
<1>2. CASE handleTask
  <2>1. StartTask \/ QueueTask
    BY <1>2 DEF handleTask, DropTask, Refusing, ItineraryInv, Calm
  <2>2. CASE StartTask
    BY <2>2 DEF StartTask, TaskGoesOn, At, Place
  <2>3. CASE QueueTask
    <3>1. pc = "task" /\ pc' = "wait"
      BY <2>3, ReturnCalm DEF QueueTask, ItineraryInv
    <3> QED BY <2>3, <3>1, PlacesStay, TimersStay DEF QueueTask, hardwareVars, outside
  <2> QED BY <2>1, <2>2, <2>3
<1>3. CASE handlePoint
  <2>1. HandlePoint
    BY <1>3 DEF handlePoint, StopUrgentWhileStopped, DropPoint, Refusing, ItineraryInv, Calm
  <2>2. pc' = "auto"
    BY <2>1 DEF HandlePoint, ModeHandler, Continue, ItineraryInv, Calm
  <2> QED BY <2>2 DEF TaskGoesOn, At, Place
<1>4. CASE handleAutoPoint
  <2>1. pc = "auto"
    BY <1>4 DEF handleAutoPoint, AutoReturn, AutoPause, AutoResume, AutoManualClean,
       AutoStopUrgent, AutoFlow, AutoPlan
  <2>2. Awaits(job.id)
    BY <2>1, HandOnly DEF Right, Answered
  <2>3. AutoFlow \/ AutoPlan
    BY <1>4, <2>2, AwaitedIds DEF handleAutoPoint, AutoReturn, AutoPause, AutoResume,
       AutoManualClean, AutoStopUrgent, AutoFlow, AutoPlan, SpecialId
  <2>4. pc' = "control"
    BY <2>3 DEF AutoFlow, AutoPlan, Continue
  <2> QED BY <2>4 DEF TaskGoesOn, At, Place
<1>5. CASE processControl
  BY <1>5, ControlAsksOn
<1>6. CASE NodesAwake \/ SleepGivenUp
  BY <1>6, PushedGoesOn DEF NodesAwake, SleepGivenUp
<1>7. ~HandleUnrecoverable /\ ~handleStop /\ ~handleManualPoint /\ ~handleForcePoint
  BY NobodyInterrupts
<1> QED BY <1>1, <1>2, <1>3, <1>4, <1>5, <1>6, <1>7 DEF Dispatcher

(* While a task runs and nobody interrupts, what moves it on is always in   *)
(* exactly one place, whatever fails, answers late or is tried again: a     *)
(* request out at the navigation or the station, a timer of the mechanism,  *)
(* a point in the deque, or a handler of the executor.  So the dispatcher,  *)
(* which takes the newest point and drops the others, never drops an        *)
(* answer, and the executor never waits for what nobody owes.               *)
THEOREM RunningTaskGoesOn ==
  ASSUME Uninterrupted
  PROVE  Spec => [](TaskGoesOn /\ OnePlace /\ Len(pointDeque) <= 1)
<1>1. Init => TaskGoesOn
  BY DEF Init, TaskGoesOn
<1>2. TypeInv /\ ItineraryInv /\ TaskGoesOn /\ [Next]_vars => TaskGoesOn'
  <2> SUFFICES ASSUME TypeInv, ItineraryInv, TaskGoesOn, [Next]_vars PROVE TaskGoesOn'
    OBVIOUS
  <2>1. CASE Dispatcher \/ NodesAwake
    BY <2>1, ExecutorGoesOn
  <2>2. CASE EventLoop \/ Navigation \/ StationResult
    BY <2>2, OthersGoOn
  <2>3. CASE Launch \/ UNCHANGED vars
    <3>1. UNCHANGED <<pc, workTask, pointDeque, goal, navResult, station, timers>>
      BY <2>3 DEF Launch, LaunchTask, LaunchRefused, vars, taskVars, stackVars, navVars,
         hardwareVars
    <3> QED BY <3>1, PlacesStay, TimersStay
  <2> QED BY <2>1, <2>2, <2>3, NobodyAsks DEF Next
<1>3. ItineraryInv => OnePlace /\ Len(pointDeque) <= 1
  <2> SUFFICES ASSUME ItineraryInv PROVE Len(pointDeque) <= 1
    BY DEF ItineraryInv
  <2>1. CASE pointDeque = <<>>
    <3>1. Len(<<>>) = 0
      OBVIOUS
    <3> QED BY <2>1, <3>1
  <2>2. CASE pointDeque # <<>>
    <3>1. At("deque") /\ "deque" \in Place
      BY <2>2 DEF At, Place
    <3>2. Right("deque")
      BY <3>1, OnlyThere
    <3>3. Len(pointDeque) = 1
      BY <3>2 DEF Right
    <3> QED BY <3>3
  <2> QED BY <2>1, <2>2
<1> QED BY <1>1, <1>2, <1>3, ItineraryHolds, TypeCorrect, PTL DEF Spec

-----------------------------------------------------------------------------
(* The plan of a paused task.  While a task is paused the mode is manual,   *)
(* and nothing is handled on its behalf that reads the plan.                *)
Paused == pauseInterception /\ workTask # NoTask

PausedInv ==
  /\ again => pc \in {"auto", "control", "asleep", "undefined"}
  /\ Paused => /\ event_status = "MANUAL"
               /\ pc \notin {"auto", "force", "asleep"}
               /\ pc = "control" => event_flow = "manual_task_pause"

PlanKept ==
  Paused /\ pauseInterception' /\ workTask' = workTask =>
    Range(plannerQueue') = Range(plannerQueue)

(* A step leaves the pause, and the task, or ends one of them.              *)
KeepsPause == UNCHANGED <<event_status, pauseInterception, workTask, plannerQueue>>
EndsPause == ~Paused'
NoNewPause == workTask' \in {workTask, NoTask} /\ (pauseInterception' => pauseInterception)

LEMMA HeadDoubled ==
  ASSUME NEW S, NEW q \in Seq(S), q # <<>>
  PROVE  Range(<<Head(q)>> \o q) = Range(q)
<1> DEFINE d == <<Head(q)>> \o q
<1>1. Len(q) \in Nat \ {0} /\ Head(q) = q[1] /\ DOMAIN q = 1 .. Len(q)
  OBVIOUS
<1>2. DOMAIN d = 1 .. Len(q) + 1 /\ d[1] = Head(q)
  BY <1>1
<1>3. \A i \in 1 .. Len(q) : d[i + 1] = q[i]
  BY <1>1
<1>4. \A j \in DOMAIN d : \E i \in DOMAIN q : d[j] = q[i]
  <2> SUFFICES ASSUME NEW j \in DOMAIN d PROVE \E i \in DOMAIN q : d[j] = q[i]
    OBVIOUS
  <2>1. CASE j = 1
    <3>1. 1 \in DOMAIN q /\ d[j] = q[1]
      BY <1>1, <1>2, <2>1
    <3> QED BY <3>1
  <2>2. CASE j # 1
    <3>1. j - 1 \in 1 .. Len(q) /\ j = (j - 1) + 1
      BY <1>1, <1>2, <2>2
    <3>2. d[(j - 1) + 1] = q[j - 1]
      BY <1>3, <3>1
    <3> QED BY <1>1, <3>1, <3>2
  <2> QED BY <2>1, <2>2
<1>5. \A i \in DOMAIN q : \E j \in DOMAIN d : d[j] = q[i]
  <2> SUFFICES ASSUME NEW i \in DOMAIN q PROVE \E j \in DOMAIN d : d[j] = q[i]
    OBVIOUS
  <2>1. i + 1 \in DOMAIN d /\ d[i + 1] = q[i]
    BY <1>1, <1>2, <1>3
  <2> QED BY <2>1
<1> HIDE DEF d
<1>6. Range(d) = Range(q)
  BY <1>4, <1>5 DEF Range
<1> QED BY <1>6 DEF d

LEMMA PauseEnds ==
  /\ EndsPause => PlanKept
  /\ ~Paused /\ NoNewPause => EndsPause
  /\ KeepsPause => NoNewPause /\ PlanKept
BY DEF EndsPause, Paused, PlanKept, NoNewPause, KeepsPause

LEMMA FramePause ==
  /\ UNCHANGED handlerVars => KeepsPause
  /\ UNCHANGED dispatcherVars => KeepsPause
  /\ UNCHANGED AwakeFrame => KeepsPause
BY DEF handlerVars, dispatcherVars, AwakeFrame, flowVars, modeVars, taskVars, KeepsPause

LEMMA BodiesPause ==
  /\ \A id : TriggerBack(id) => NoNewPause
  /\ TriggerBack("MANUAL_BACK") => EndsPause
  /\ callResume => EndsPause
  /\ callManualCleanStart => EndsPause
  /\ callManualCleanEnd => NoNewPause
  /\ callStopUrgentInBase => EndsPause
  /\ goodGame => EndsPause
  /\ callTaskInterrupt => EndsPause
  /\ \A f : CloseMechanism(f) => KeepsPause
  /\ \A f : OpenMechanism(f) => KeepsPause
  /\ \A f : Proceed(f) => KeepsPause
  /\ \A w, f : AskStation(w, f) => KeepsPause
  /\ \A f, r : GoBase(f, r) => KeepsPause
  /\ \A q, f : GoTo(q, f) => NoNewPause
<1> USE DEF EndsPause, Paused, NoNewPause, KeepsPause
<1>1. /\ \A id : TriggerBack(id) => NoNewPause
      /\ TriggerBack("MANUAL_BACK") => EndsPause
      /\ callResume => EndsPause
  BY DEF TriggerBack, callResume, taskVars
<1>2. /\ callManualCleanStart => EndsPause
      /\ callManualCleanEnd => NoNewPause
      /\ callStopUrgentInBase => EndsPause
  BY DEF callManualCleanStart, callManualCleanEnd, callStopUrgentInBase, StopTask, Reset,
     KeepTask, taskVars
<1>3. /\ goodGame => EndsPause
      /\ callTaskInterrupt => EndsPause
  BY DEF goodGame, callTaskInterrupt, Reset
<1>4. /\ \A f : Proceed(f) => KeepsPause
      /\ \A q, f : GoTo(q, f) => NoNewPause
  BY DEF Proceed, GoTo, modeVars, taskVars
<1>5. /\ \A f : CloseMechanism(f) => KeepsPause
      /\ \A f : OpenMechanism(f) => KeepsPause
      /\ \A w, f : AskStation(w, f) => KeepsPause
      /\ \A f, r : GoBase(f, r) => KeepsPause
  BY <1>4 DEF CloseMechanism, OpenMechanism, AskStation, GoBase
<1> QED BY <1>1, <1>2, <1>3, <1>4, <1>5

LEMMA DisposePause ==
  ASSUME NEW f, \/ \E b \in BOOLEAN : DisposeBasePoint(f, b)
                \/ DisposeMechanism(f) \/ DisposeStation(f)
  PROVE  KeepsPause \/ EndsPause
BY BodiesPause DEF DisposeBasePoint, DisposeMechanism, DisposeStation

LEMMA CallPauseKept ==
  ASSUME TypeOK, callPause
  PROVE  event_status' = "MANUAL" /\ event_flow' = "manual_task_pause" /\ PlanKept
<1>1. plannerQueue # <<>> =>
        Range(<<Head(plannerQueue)>> \o plannerQueue) = Range(plannerQueue)
  BY HeadDoubled DEF TypeOK, HandlerTypeOK
<1> QED BY <1>1 DEF callPause, PlanKept

(* The handlers return to the wait, unless a resume is still to return.     *)
LEMMA ReturnPaused ==
  ASSUME Return
  PROVE  ~again' /\ (~again => pc' = "wait") /\ pc' \in {"wait", "control"}
BY DEF Return

LEMMA TakePaused ==
  ASSUME PausedInv, Take \/ Launch \/ UNCHANGED vars
  PROVE  PausedInv' /\ PlanKept
<1>1. KeepsPause /\ UNCHANGED event_flow
  BY DEF Take, TakeUnrecoverable, TakeStop, TakeTask, TakePoint, takeFrame, handlerVars,
     Launch, LaunchTask, LaunchRefused, vars, flowVars, modeVars, taskVars, KeepsPause
<1>2. /\ UNCHANGED again
      /\ UNCHANGED pc \/ (pc = "wait" /\ pc' \in {"unrecoverable", "stop", "task", "point"})
  BY DEF Take, TakeUnrecoverable, TakeStop, TakeTask, TakePoint, takeFrame,
     Launch, LaunchTask, LaunchRefused, vars, stackVars
<1> QED BY <1>1, <1>2, PauseEnds DEF PausedInv, KeepsPause, Paused

LEMMA OtherThreadsPaused ==
  ASSUME PausedInv, EventLoop \/ Navigation \/ StationResult \/ Operator
  PROVE  PausedInv' /\ PlanKept
<1>1. UNCHANGED dispatcherVars /\ pc' \in {pc, "undefined"}
  BY OtherThreadsKeepRows
     DEF EventLoop, LoopSchedule, MechanismTimer, SleepTimer, NavTimer, Navigation,
     NavDone, NavCallback, NavAnswer, StationResult, Operator, ManualBack,
     ManualForceBack, ManualResume, ManualPause, EnterManual, QuitManual, StopAndCharge,
     ForceBackToBase, UrgencyStop, UnrecoverableError, Ask, Order, commandFrame
<1>2. KeepsPause /\ UNCHANGED <<again, event_flow>>
  BY <1>1, FramePause DEF dispatcherVars, flowVars
<1> QED BY <1>1, <1>2, PauseEnds DEF PausedInv, KeepsPause, Paused

LEMMA AsleepPaused ==
  ASSUME PausedInv, NodesAwake \/ SleepGivenUp
  PROVE  PausedInv' /\ PlanKept
<1>1. KeepsPause /\ pc = "asleep" /\ ~again'
  BY FramePause, ReturnPaused DEF NodesAwake, SleepGivenUp
<1>2. EndsPause
  BY <1>1, PauseEnds DEF PausedInv
<1> QED BY <1>1, <1>2, PauseEnds DEF PausedInv, EndsPause

LEMMA StopPaused ==
  ASSUME TypeOK, PausedInv, HandleUnrecoverable \/ handleStop
  PROVE  PausedInv' /\ PlanKept
<1>1. /\ pc \in {"unrecoverable", "stop"} /\ Return
  BY DEF HandleUnrecoverable, handleStop, IgnoreStop, StopPressed, Released,
     ReleasedWithoutTask, ReleasedWhilePaused, ReleasedReplaying, ReleasedIntoPause
<1>2. ~again' /\ pc' = "wait"
  BY <1>1, ReturnPaused DEF PausedInv
<1>3. CASE HandleUnrecoverable
  <2>1. EndsPause
    BY <1>3 DEF HandleUnrecoverable, StopTask, Reset, KeepTask, taskVars, EndsPause,
       Paused
  <2> QED BY <1>2, <2>1, PauseEnds DEF PausedInv, EndsPause
<1>4. CASE IgnoreStop \/ StopPressed \/ ReleasedWithoutTask \/ ReleasedWhilePaused
  <2>1. KeepsPause \/ EndsPause
    BY <1>4, FramePause
       DEF IgnoreStop, StopPressed, ReleasedWithoutTask, ReleasedWhilePaused,
           KeepsPause, EndsPause, Paused, modeVars, taskVars
  <2> QED BY <1>2, <2>1, PauseEnds DEF PausedInv, EndsPause, KeepsPause, Paused
<1>5. CASE ReleasedReplaying
  <2>1. EndsPause
    BY <1>5 DEF ReleasedReplaying, EndsPause, Paused, modeVars
  <2> QED BY <1>2, <2>1, PauseEnds DEF PausedInv, EndsPause
<1>6. CASE ReleasedIntoPause
  <2>1. event_status' = "MANUAL" /\ ~Paused
    BY <1>6 DEF ReleasedIntoPause, Paused
  <2> QED BY <1>2, <2>1 DEF PausedInv, PlanKept
<1> QED BY <1>3, <1>4, <1>5, <1>6 DEF handleStop

LEMMA TaskPaused ==
  ASSUME TypeOK, PausedInv, StartTask => ~pauseInterception, handleTask \/ handlePoint
  PROVE  PausedInv' /\ PlanKept
<1>1. pc \in {"task", "point"}
  BY DEF handleTask, DropTask, StartTask, QueueTask, handlePoint, StopUrgentWhileStopped,
     DropPoint, HandlePoint
<1>2. CASE StartTask
  BY <1>1, <1>2, PauseEnds
     DEF StartTask, modeVars, PausedInv, EndsPause, Paused
<1>3. CASE DropTask \/ QueueTask \/ DropPoint
  <2>1. KeepsPause /\ Return
    BY <1>3, FramePause
       DEF DropTask, QueueTask, DropPoint, flowVars, modeVars, KeepsPause
  <2> QED BY <1>1, <2>1, ReturnPaused, PauseEnds DEF PausedInv, KeepsPause, Paused
<1>4. CASE StopUrgentWhileStopped
  <2>1. EndsPause /\ Return
    BY <1>4, BodiesPause DEF StopUrgentWhileStopped
  <2> QED BY <2>1, ReturnPaused, PauseEnds DEF PausedInv, EndsPause
<1>5. CASE HandlePoint
  <2>1. KeepsPause /\ UNCHANGED again /\ pc' = ModeHandler[event_status]
    BY <1>5, FramePause DEF HandlePoint, Continue
  <2>2. event_status = "MANUAL" => pc' = "manual"
    BY <2>1 DEF ModeHandler
  <2> QED BY <1>1, <2>1, <2>2, PauseEnds DEF PausedInv, KeepsPause, Paused
<1> QED BY <1>2, <1>3, <1>4, <1>5 DEF handleTask, handlePoint

LEMMA AutoPaused ==
  ASSUME TypeOK, PausedInv, handleAutoPoint
  PROVE  PausedInv' /\ PlanKept
<1>1. pc = "auto" /\ pc' \in {"auto", "control"} /\ ~Paused
  BY DEF handleAutoPoint, AutoReturn, AutoPause, AutoResume, AutoManualClean,
     AutoStopUrgent, AutoFlow, AutoPlan, Continue, PausedInv
<1>2. CASE AutoPause
  <2>1. event_status' = "MANUAL" /\ event_flow' = "manual_task_pause"
        /\ pc' = "control"
    BY <1>2, CallPauseKept DEF AutoPause, Continue
  <2> QED BY <1>1, <2>1 DEF PausedInv, PlanKept
<1>3. CASE ~AutoPause
  <2>1. NoNewPause \/ EndsPause
    BY <1>3, BodiesPause, FramePause, PauseEnds
       DEF handleAutoPoint, AutoReturn, AutoResume, AutoManualClean, AutoStopUrgent,
           AutoFlow, AutoPlan, NoNewPause, modeVars, taskVars
  <2>2. EndsPause
    BY <1>1, <2>1, PauseEnds
  <2> QED BY <1>1, <2>2, PauseEnds DEF PausedInv, EndsPause
<1> QED BY <1>2, <1>3

LEMMA ManualPaused ==
  ASSUME TypeOK, OnlyOrdered, PausedInv, "quitManual" \notin Events, handleManualPoint
  PROVE  PausedInv' /\ PlanKept
<1>1. pc = "manual" /\ ~again
  BY DEF handleManualPoint, ManualCommand, ManualResumeTask, ManualStopUrgent, ManualFlow,
     ManualIgnore, PausedInv
<1>2. CASE ManualResumeTask
  BY <1>1, <1>2, BodiesPause, PauseEnds DEF ManualResumeTask, PausedInv, EndsPause
<1>3. CASE ManualCommand /\ callPause
  <2>1. pc' = "wait" /\ ~again'
    BY <1>1, <1>3, ReturnPaused DEF ManualCommand
  <2> QED BY <1>3, <2>1, CallPauseKept DEF PausedInv
<1>4. CASE ~(ManualCommand /\ callPause) /\ ~ManualResumeTask
  <2>1. pc' = "wait" /\ ~again'
    BY <1>1, <1>4, ReturnPaused
       DEF handleManualPoint, ManualCommand, ManualStopUrgent, ManualFlow, ManualIgnore
  <2>2. job.id # "MANUAL_CLEAN_END"
    BY DEF OnlyOrdered, Ordered
  <2>3. KeepsPause \/ EndsPause
    BY <1>4, <2>2, BodiesPause, DisposePause, FramePause
       DEF handleManualPoint, ManualCommand, ManualStopUrgent, ManualFlow, ManualIgnore,
           Ignore
  <2> QED BY <2>1, <2>3, PauseEnds DEF PausedInv, EndsPause, KeepsPause, Paused
<1> QED BY <1>2, <1>3, <1>4

LEMMA ForcePaused ==
  ASSUME TypeOK, PausedInv, handleForcePoint
  PROVE  PausedInv' /\ PlanKept
<1>1. pc = "force" /\ ~again' /\ ~Paused
  BY ReturnPaused DEF handleForcePoint, ForceReturn, ForceStopUrgent, ForceFlow,
     ForceIgnore, PausedInv
<1>2. ForceBasePoint \/ ForceStation => KeepsPause \/ EndsPause
  <2>1. \A f, b : DisposeBasePoint(f, b) => KeepsPause \/ EndsPause
    BY BodiesPause DEF DisposeBasePoint
  <2>2. \A f : DisposeStation(f) => KeepsPause \/ EndsPause
    BY DisposePause
  <2> QED BY <2>1, <2>2, FramePause DEF ForceBasePoint, ForceStation, Ignore
<1>3. NoNewPause \/ EndsPause
  BY <1>2, BodiesPause, DisposePause, FramePause, PauseEnds
     DEF handleForcePoint, ForceReturn, ForceStopUrgent, ForceFlow, ForceIgnore, Ignore
<1>4. EndsPause
  BY <1>1, <1>3, PauseEnds
<1> QED BY <1>1, <1>4, PauseEnds DEF PausedInv, EndsPause

LEMMA ControlPaused ==
  ASSUME TypeOK, PausedInv, processControl
  PROVE  PausedInv' /\ PlanKept
<1>1. pc = "control"
  BY DEF processControl, ControlAskStation, ControlAlreadyWorking, ControlWakeUp,
     ControlMechanism, ControlFirstPoint, ControlEnsured, ControlNextPoint,
     ControlLastPoint, ControlUndefined, ControlGoBase, ControlEnd, ControlNothing, Control
<1>2. again' => pc' \in {"auto", "control", "asleep", "undefined"}
  BY ReturnPaused
     DEF processControl, ControlAskStation, ControlAlreadyWorking, ControlWakeUp,
     ControlMechanism, ControlFirstPoint, ControlEnsured, ControlNextPoint,
     ControlLastPoint, ControlUndefined, ControlGoBase, ControlEnd, ControlNothing, Continue
<1>3. CASE Paused
  <2>1. ControlNothing
    BY <1>1, <1>3 DEF PausedInv, processControl, ControlAskStation, ControlAlreadyWorking,
     ControlWakeUp, ControlMechanism, ControlFirstPoint, ControlEnsured, ControlNextPoint,
     ControlLastPoint, ControlUndefined, ControlGoBase, ControlEnd, Control
  <2>2. KeepsPause /\ UNCHANGED event_flow /\ Return
    BY <2>1, FramePause DEF ControlNothing, handlerVars, flowVars
  <2> QED BY <1>1, <1>2, <2>2, ReturnPaused, PauseEnds DEF PausedInv, KeepsPause, Paused
<1>4. CASE ~Paused
  <2>1. NoNewPause \/ EndsPause
    BY BodiesPause, FramePause, PauseEnds
       DEF processControl, ControlAskStation, ControlAlreadyWorking, ControlWakeUp,
           ControlMechanism, ControlFirstPoint, ControlEnsured, ControlNextPoint,
           ControlLastPoint, ControlUndefined, ControlGoBase, ControlEnd, ControlNothing,
           NoNewPause, modeVars, taskVars
  <2>2. EndsPause
    BY <1>4, <2>1, PauseEnds
  <2> QED BY <1>2, <2>2, PauseEnds DEF PausedInv, EndsPause
<1> QED BY <1>3, <1>4

LEMMA PausedStep ==
  ASSUME TypeInv, OnlyOrdered, PausedInv, "quitManual" \notin Events,
         StartTask => ~pauseInterception, [Next]_vars
  PROVE  PausedInv' /\ PlanKept
<1> TypeOK
  BY DEF TypeInv
<1>1. CASE Dispatcher
  BY <1>1, TakePaused, StopPaused, TaskPaused, AutoPaused, ManualPaused, ForcePaused,
     ControlPaused, AsleepPaused DEF Dispatcher
<1> QED BY <1>1, TakePaused, OtherThreadsPaused, AsleepPaused DEF Next

LEMMA PausedInvInit == Init => PausedInv
BY DEF Init, PausedInv, Paused

(* A pause keeps what is left of the plan, whatever answers, orders and     *)
(* emergency stops come in before the resume.  It needs that no task is     *)
(* started with the pause flag still on (callPause does not ask whether     *)
(* there is a task, and some ways to end one leave the flag), and that      *)
(* manual cleaning is not quit: a late MANUAL_CLEAN_END puts a paused task  *)
(* back into the automatic mode.                                            *)
THEOREM PausedPlanKeptHolds ==
  ASSUME "quitManual" \notin Events
  PROVE  Spec /\ [][StartTask => ~pauseInterception]_vars => PausedPlanKept
<1>1. TypeInv /\ OnlyOrdered /\ PausedInv /\ [Next]_vars
        /\ [StartTask => ~pauseInterception]_vars => PausedInv'
  <2>1. UNCHANGED vars => (StartTask => ~pauseInterception)
    <3>1. StartTask => pc' # pc
      BY DEF StartTask
    <3> QED BY <3>1 DEF vars, stackVars
  <2> QED BY <2>1, PausedStep
<1>2. TypeInv /\ OnlyOrdered /\ PausedInv /\ [Next]_vars /\ NoTaskNoPlan /\ NoTaskNoPlan'
        /\ [StartTask => ~pauseInterception]_vars =>
          [pauseInterception /\ pauseInterception' /\ workTask' = workTask
             => Range(plannerQueue') = Range(plannerQueue)]_vars
  <2> SUFFICES ASSUME TypeInv, OnlyOrdered, PausedInv, [Next]_vars, NoTaskNoPlan,
                      NoTaskNoPlan', StartTask => ~pauseInterception,
                      pauseInterception, pauseInterception', workTask' = workTask
               PROVE  Range(plannerQueue') = Range(plannerQueue)
    OBVIOUS
  <2>1. CASE workTask = NoTask
    BY <2>1 DEF NoTaskNoPlan
  <2>2. CASE workTask # NoTask
    BY <2>2, PausedStep DEF PlanKept, Paused
  <2> QED BY <2>1, <2>2
<1> QED BY PausedInvInit, <1>1, <1>2, TypeCorrect, OnlyOrderedHolds, NoTaskNoPlanHolds, PTL
        DEF Spec, PausedPlanKept

-----------------------------------------------------------------------------
(* Until a first task is started nothing is paused and no pause is ordered: *)
(* manualPause asks for a plan, and a released stop for a task.             *)
NotStarted == \A t \in Task : history[t] \in {"none", "waiting"}
NoPause(p) == p.id # "MANUAL_PAUSE"

FirstInv ==
  /\ NoPause(record.point)
  /\ NotStarted =>
       /\ ~pauseInterception
       /\ NoPause(job)
       /\ \A i \in DOMAIN pointDeque : NoPause(pointDeque[i])

(* A step before the first start leaves the points that are no pauses. *)
PointsStep ==
  \/ pointDeque' \in {pointDeque, <<>>}
  \/ \E p : Push(p) /\ (NoPause(p) \/ plannerQueue # <<>> \/ workTask # NoTask)

LEMMA OtherPoints ==
  /\ \A a : \A i \in FlowId \cup ReturnId : NoPause(FlowPoint(i, a))
  /\ \A k, a : NoPause(PlanPoint(k, a))
  /\ NoPause(NullPoint) /\ NoPause(SeizeSeat)
  /\ \A i \in {"MANUAL_RESUME", "MANUAL_CLEAN_START", "MANUAL_CLEAN_END",
               "STOP_URGENT_IN_BASE"} : NoPause(Special(i))
BY DEF NoPause, FlowPoint, PlanPoint, NullPoint, SeizeSeat, Special, FlowId, ReturnId

LEMMA StepsPoints ==
  ASSUME [Next]_vars
  PROVE  PointsStep
<1>1. CASE processControl
  BY <1>1, FrameKeepsPoints, BodiesKeepPoints
     DEF processControl, ControlAskStation, ControlAlreadyWorking,
     ControlWakeUp, ControlMechanism, ControlFirstPoint, ControlEnsured, ControlNextPoint,
     ControlLastPoint, ControlUndefined, ControlGoBase, ControlEnd, ControlNothing,
     PointsStep
<1>2. CASE handleManualPoint \/ handleForcePoint \/ handleAutoPoint
  <2>1. UNCHANGED pointDeque
    BY <1>2, FrameKeepsPoints, BodiesKeepPoints, DisposeKeepsPoints
       DEF handleManualPoint, ManualCommand, ManualResumeTask, ManualStopUrgent,
           ManualFlow, ManualIgnore, handleForcePoint, ForceReturn, ForceStopUrgent,
           ForceFlow, ForceIgnore, handleAutoPoint, AutoReturn, AutoPause, AutoResume,
           AutoManualClean, AutoStopUrgent, AutoFlow, AutoPlan
  <2> QED BY <2>1 DEF PointsStep
<1>3. CASE Take \/ HandleUnrecoverable \/ handleStop \/ handleTask \/ handlePoint
  BY <1>3, FrameKeepsPoints, BodiesKeepPoints
     DEF Take, TakeUnrecoverable, TakeStop, TakeTask, TakePoint, takeFrame,
         HandleUnrecoverable, handleStop, IgnoreStop, StopPressed, ReleasedWithoutTask,
         ReleasedWhilePaused, ReleasedReplaying, ReleasedIntoPause, handleTask, DropTask,
         StartTask, QueueTask, handlePoint, StopUrgentWhileStopped, DropPoint,
         HandlePoint, PointsStep
<1>4. CASE NodesAwake \/ SleepGivenUp
  BY <1>4, OtherPoints DEF NodesAwake, SleepGivenUp, PointsStep, FlowId
<1>5. CASE EventLoop \/ Navigation
  <2>1. \A ok : Answer(ok) => PointsStep
    BY OtherPoints DEF Answer, PointsStep, FlowId
  <2> QED BY <1>5, <2>1, OtherPoints
      DEF EventLoop, LoopSchedule, MechanismTimer, SleepTimer, NavTimer, Navigation,
          NavDone, NavCallback, NavAnswer, PointsStep, FlowId
<1>6. CASE StationResult
  BY <1>6, OtherPoints DEF StationResult, PointsStep, FlowId
<1>7. CASE Operator
  <2>1. \A id \in ReturnId : Ask(id) => PointsStep
    BY OtherPoints DEF Ask, PointsStep
  <2>2. ManualPause => PointsStep
    BY DEF ManualPause, Order, PointsStep
  <2>3. CASE ManualBack \/ ManualForceBack \/ ForceBackToBase
    BY <2>1, <2>3 DEF ManualBack, ManualForceBack, ForceBackToBase, ReturnId
  <2>4. CASE ManualResume \/ EnterManual \/ QuitManual \/ StopAndCharge
    BY <2>4, OtherPoints
       DEF ManualResume, EnterManual, QuitManual, StopAndCharge, Order, PointsStep
  <2>5. CASE UrgencyStop \/ UnrecoverableError
    BY <2>5 DEF UrgencyStop, UnrecoverableError, PointsStep
  <2> QED BY <1>7, <2>2, <2>3, <2>4, <2>5 DEF Operator
<1>8. CASE Launch \/ UNCHANGED vars
  BY <1>8 DEF Launch, LaunchTask, LaunchRefused, vars, PointsStep
<1> QED BY <1>1, <1>2, <1>3, <1>4, <1>5, <1>6, <1>7, <1>8 DEF Next, Dispatcher

(* The point in hand comes from the deque, from the record or from the code. *)
LEMMA StepsHand ==
  ASSUME TypeOK, [Next]_vars
  PROVE  \/ UNCHANGED job
         \/ job' = record.point
         \/ NoPause(job')
         \/ \E i \in DOMAIN pointDeque : job' = pointDeque[i]
<1>1. CASE TakePoint
  <2>1. Len(pointDeque) \in DOMAIN pointDeque /\ job' = pointDeque[Len(pointDeque)]
    BY <1>1 DEF TakePoint, TypeOK, HandlerTypeOK, Last
  <2> QED BY <2>1
<1>2. Return => NoPause(job') \/ UNCHANGED job
  BY OtherPoints DEF Return
<1>3. \A next : Continue(next) => UNCHANGED job
  BY DEF Continue
<1>4. CASE processControl
  BY <1>2, <1>3, <1>4, OtherPoints
     DEF processControl, ControlAskStation, ControlAlreadyWorking, FlowId,
     ControlWakeUp, ControlMechanism, ControlFirstPoint, ControlEnsured, ControlNextPoint,
     ControlLastPoint, ControlUndefined, ControlGoBase, ControlEnd, ControlNothing
<1>5. CASE handleManualPoint \/ handleForcePoint \/ handleAutoPoint
  BY <1>2, <1>3, <1>5
     DEF handleManualPoint, ManualCommand, ManualResumeTask, ManualStopUrgent,
         ManualFlow, ManualIgnore, handleForcePoint, ForceReturn, ForceStopUrgent,
         ForceFlow, ForceIgnore, handleAutoPoint, AutoReturn, AutoPause, AutoResume,
         AutoManualClean, AutoStopUrgent, AutoFlow, AutoPlan
<1>6. CASE \/ TakeUnrecoverable \/ TakeStop \/ TakeTask
           \/ HandleUnrecoverable \/ handleStop \/ handleTask \/ handlePoint
           \/ NodesAwake \/ SleepGivenUp
  BY <1>2, <1>3, <1>6, OtherPoints
     DEF TakeUnrecoverable, TakeStop, TakeTask,
         HandleUnrecoverable, handleStop, IgnoreStop, StopPressed, ReleasedWithoutTask,
         ReleasedWhilePaused, ReleasedReplaying, ReleasedIntoPause, handleTask, DropTask,
         StartTask, QueueTask, handlePoint, StopUrgentWhileStopped, DropPoint,
         HandlePoint, NodesAwake, SleepGivenUp
<1>7. CASE EventLoop \/ Navigation \/ StationResult \/ Operator \/ Launch \/ UNCHANGED vars
  BY <1>7 DEF EventLoop, LoopSchedule, MechanismTimer, SleepTimer, NavTimer, Navigation,
     NavDone, NavCallback, NavAnswer, StationResult, Operator, ManualBack,
     ManualForceBack, ManualResume, ManualPause, EnterManual, QuitManual, StopAndCharge,
     ForceBackToBase, UrgencyStop, UnrecoverableError, Ask, Order, commandFrame,
     dispatcherVars, Launch, LaunchTask, LaunchRefused, vars, stackVars
<1> QED BY <1>1, <1>4, <1>5, <1>6, <1>7 DEF Next, Dispatcher, Take

LEMMA StepsRecord ==
  ASSUME [Next]_vars
  PROVE  UNCHANGED record \/ record'.point.id \in FlowId \cup {"PLAN"}
<1>1. CASE AutoFlow \/ AutoPlan
  BY <1>1 DEF AutoFlow, AutoPlan, Remember
<1>2. CASE ~(AutoFlow \/ AutoPlan)
  <2>1. CASE processControl \/ handleManualPoint \/ handleForcePoint \/ handleAutoPoint
    BY <1>2, <2>1
       DEF processControl, ControlAskStation, ControlAlreadyWorking, ControlWakeUp,
       ControlMechanism, ControlFirstPoint, ControlEnsured, ControlNextPoint,
       ControlLastPoint, ControlUndefined, ControlGoBase, ControlEnd, ControlNothing,
       controlFrame, handleManualPoint, ManualCommand, ManualResumeTask,
       ManualStopUrgent, ManualFlow, ManualIgnore, handleForcePoint, ForceReturn,
       ForceStopUrgent, ForceFlow, ForceIgnore, handleAutoPoint, AutoReturn, AutoPause,
       AutoResume, AutoManualClean, AutoStopUrgent, memoVars
  <2>2. CASE Take \/ HandleUnrecoverable \/ handleStop \/ handleTask \/ handlePoint
    BY <2>2 DEF Take, TakeUnrecoverable, TakeStop, TakeTask, TakePoint, takeFrame,
       HandleUnrecoverable, handleStop, IgnoreStop, StopPressed, ReleasedWithoutTask,
       ReleasedWhilePaused, ReleasedReplaying, ReleasedIntoPause, handleTask, DropTask,
       StartTask, QueueTask, handlePoint, StopUrgentWhileStopped, DropPoint,
       HandlePoint, memoVars
  <2>3. CASE \/ NodesAwake \/ SleepGivenUp \/ Launch \/ UNCHANGED vars
             \/ EventLoop \/ Navigation \/ StationResult \/ Operator
    BY <2>3 DEF NodesAwake, SleepGivenUp, AwakeFrame, Launch, LaunchTask, LaunchRefused,
       vars, EventLoop, LoopSchedule, MechanismTimer, SleepTimer, NavTimer, Navigation,
       NavDone, NavCallback, NavAnswer, StationResult, Operator, ManualBack,
       ManualForceBack, ManualResume, ManualPause, EnterManual, QuitManual, StopAndCharge,
       ForceBackToBase, UrgencyStop, UnrecoverableError, Ask, Order, commandFrame,
       dispatcherVars, memoVars
  <2> QED BY <2>1, <2>2, <2>3 DEF Next, Dispatcher
<1> QED BY <1>1, <1>2

(* Who puts the pause flag on. *)
NoNewFlag == pauseInterception' => pauseInterception

LEMMA BodiesFlag ==
  ASSUME \/ \E id : TriggerBack(id)
         \/ callResume \/ callManualCleanStart \/ callManualCleanEnd
         \/ callStopUrgentInBase \/ goodGame \/ callTaskInterrupt
         \/ UNCHANGED handlerVars \/ UNCHANGED dispatcherVars \/ UNCHANGED AwakeFrame
         \/ \E f : CloseMechanism(f) \/ OpenMechanism(f) \/ Proceed(f)
         \/ \E w, f : AskStation(w, f)
         \/ \E f, r : GoBase(f, r)
         \/ \E q, f : GoTo(q, f)
  PROVE  NoNewFlag
BY DEF TriggerBack, callResume, callManualCleanStart, callManualCleanEnd,
       callStopUrgentInBase, goodGame, callTaskInterrupt, StopTask, Reset, KeepTask,
       CloseMechanism, OpenMechanism, Proceed, AskStation, GoBase, GoTo, handlerVars,
       dispatcherVars, AwakeFrame, modeVars, NoNewFlag

LEMMA DisposeFlag ==
  ASSUME NEW f, \/ \E b \in BOOLEAN : DisposeBasePoint(f, b)
                \/ DisposeMechanism(f) \/ DisposeStation(f)
                \/ ForceBasePoint \/ ForceStation
  PROVE  NoNewFlag
<1>1. CASE \/ \E b \in BOOLEAN : DisposeBasePoint(f, b)
           \/ DisposeMechanism(f) \/ DisposeStation(f)
  BY <1>1, BodiesFlag DEF DisposeBasePoint, DisposeMechanism, DisposeStation
<1>2. \A g : /\ \A b \in BOOLEAN : DisposeBasePoint(g, b) => NoNewFlag
             /\ DisposeStation(g) => NoNewFlag
  BY BodiesFlag DEF DisposeBasePoint, DisposeStation
<1>3. CASE ForceBasePoint \/ ForceStation
  BY <1>2, <1>3, BodiesFlag DEF ForceBasePoint, ForceStation, Ignore
<1> QED BY <1>1, <1>3

LEMMA StepsFlag ==
  ASSUME [Next]_vars
  PROVE  NoNewFlag \/ ~NoPause(job) \/ workTask # NoTask
<1>1. CASE processControl
  BY <1>1, BodiesFlag
     DEF processControl, ControlAskStation, ControlAlreadyWorking, ControlWakeUp,
     ControlMechanism, ControlFirstPoint, ControlEnsured, ControlNextPoint,
     ControlLastPoint, ControlUndefined, ControlGoBase, ControlEnd, ControlNothing,
     modeVars, NoNewFlag
<1>2. CASE handleAutoPoint
  BY <1>2, BodiesFlag
     DEF handleAutoPoint, AutoReturn, AutoPause, AutoResume, AutoManualClean,
         AutoStopUrgent, AutoFlow, AutoPlan, modeVars, NoNewFlag, NoPause
<1>3. CASE handleManualPoint \/ handleForcePoint
  BY <1>3, BodiesFlag, DisposeFlag
     DEF handleManualPoint, ManualCommand, ManualResumeTask, ManualStopUrgent,
         ManualFlow, ManualIgnore, handleForcePoint, ForceReturn, ForceStopUrgent,
         ForceFlow, ForceIgnore, Ignore, NoPause
<1>4. CASE Take \/ HandleUnrecoverable \/ handleStop \/ handleTask \/ handlePoint
  BY <1>4, BodiesFlag
     DEF Take, TakeUnrecoverable, TakeStop, TakeTask, TakePoint, takeFrame,
         HandleUnrecoverable, StopTask, Reset, KeepTask, handleStop, IgnoreStop,
         StopPressed, ReleasedWithoutTask, ReleasedWhilePaused, ReleasedReplaying,
         ReleasedIntoPause, handleTask, DropTask, StartTask, QueueTask, handlePoint,
         StopUrgentWhileStopped, DropPoint, HandlePoint, modeVars, NoNewFlag
<1>5. CASE \/ NodesAwake \/ SleepGivenUp \/ Launch \/ UNCHANGED vars
           \/ EventLoop \/ Navigation \/ StationResult \/ Operator
  BY <1>5, BodiesFlag
     DEF NodesAwake, SleepGivenUp, Launch, LaunchTask, LaunchRefused,
     vars, EventLoop, LoopSchedule, MechanismTimer, SleepTimer, NavTimer, Navigation,
     NavDone, NavCallback, NavAnswer, StationResult, Operator, ManualBack,
     ManualForceBack, ManualResume, ManualPause, EnterManual, QuitManual, StopAndCharge,
     ForceBackToBase, UrgencyStop, UnrecoverableError, Ask, Order, commandFrame,
     modeVars, NoNewFlag
<1> QED BY <1>1, <1>2, <1>3, <1>4, <1>5 DEF Next, Dispatcher

LEMMA FirstInvStep ==
  ASSUME TypeInv, TypeInv', RowInv, RowInv', NoTaskNoPlan, FirstInv, [Next]_vars
  PROVE  FirstInv'
<1> TypeOK /\ TypeOK'
  BY DEF TypeInv
<1>1. NoPause(record.point)'
  BY StepsRecord DEF FirstInv, NoPause, FlowId
<1>2. ASSUME NotStarted'
      PROVE  /\ (~pauseInterception)' /\ NoPause(job)'
             /\ \A i \in DOMAIN pointDeque' : NoPause(pointDeque'[i])
  <2>1. NotStarted
    <3> SUFFICES ASSUME NEW t \in Task PROVE history[t] \in {"none", "waiting"}
      BY DEF NotStarted
    <3>1. Promised!Step(history[t], history'[t])
      BY RowInvStep DEF RowsMove
    <3>2. history'[t] \in {"none", "waiting"}
      BY <1>2 DEF NotStarted
    <3> QED BY <3>1, <3>2
        DEF Promised!Step, Promised!Moves, HistoryState
  <2>2. workTask = NoTask /\ plannerQueue = <<>>
    BY <2>1 DEF NotStarted, RowInv, WorkTaskExecutes, NoTaskNoPlan, TypeOK, HandlerTypeOK
  <2>3. /\ ~pauseInterception /\ NoPause(job)
        /\ \A i \in DOMAIN pointDeque : NoPause(pointDeque[i])
    BY <2>1 DEF FirstInv
  <2>4. ~pauseInterception'
    BY <2>2, <2>3, StepsFlag DEF NoNewFlag
  <2>5. NoPause(job)'
    BY <2>3, StepsHand DEF NoPause, FirstInv
  <2>6. \A i \in DOMAIN pointDeque' : NoPause(pointDeque'[i])
    <3>1. CASE pointDeque' \in {pointDeque, <<>>}
      <4>1. DOMAIN <<>> = {}
        OBVIOUS
      <4> QED BY <2>3, <3>1, <4>1
    <3>2. CASE \E p : Push(p) /\ NoPause(p)
      <4>1. PICK p : Push(p) /\ NoPause(p)
        BY <3>2
      <4>2. pointDeque \in Seq(Point) /\ pointDeque' = Append(pointDeque, p)
        BY <4>1 DEF TypeOK, HandlerTypeOK, Push
      <4>3. \A i \in DOMAIN pointDeque' :
              \/ i \in DOMAIN pointDeque /\ pointDeque'[i] = pointDeque[i]
              \/ pointDeque'[i] = p
        BY <4>2
      <4> QED BY <2>3, <4>1, <4>3
    <3> QED BY <2>2, <3>1, <3>2, StepsPoints DEF PointsStep
  <2> QED BY <2>4, <2>5, <2>6
<1> QED BY <1>1, <1>2 DEF FirstInv

(* An executor that only ever has one task keeps the plan of its pauses.    *)
THEOREM OneTaskPausedPlanKept ==
  ASSUME "quitManual" \notin Events, \A t, u \in Task : t = u
  PROVE  Spec => PausedPlanKept
<1>1. Init => FirstInv
  <2>1. DOMAIN <<>> = {}
    OBVIOUS
  <2> QED BY <2>1, OtherPoints DEF Init, FirstInv
<1>2. TypeInv /\ TypeInv' /\ RowInv /\ RowInv' /\ NoTaskNoPlan /\ FirstInv /\ [Next]_vars
        => FirstInv'
  BY FirstInvStep
<1>3. TypeInv /\ RowInv /\ FirstInv => [StartTask => ~pauseInterception]_vars
  <2> SUFFICES ASSUME TypeInv, RowInv, FirstInv, StartTask PROVE ~pauseInterception
    OBVIOUS
  <2>1. jobTask \in Task
    BY DEF StartTask, TypeInv, TaskInHand, TypeOK, StackTypeOK
  <2>2. history[jobTask] = "waiting"
    BY <2>1, TaskAssumption DEF RowInv, RowsWait
  <2>3. NotStarted
    BY <2>1, <2>2 DEF NotStarted
  <2> QED BY <2>3 DEF FirstInv
<1>4. Spec /\ [][StartTask => ~pauseInterception]_vars => PausedPlanKept
  BY PausedPlanKeptHolds
<1> QED BY <1>1, <1>2, <1>3, <1>4, TypeCorrect, RowInvHolds, NoTaskNoPlanHolds, PTL DEF Spec

-----------------------------------------------------------------------------
(* Manual cleaning with pauses and resumes.  callResume brings back the     *)
(* recorded flow whatever the mode is by then, so what is recorded must     *)
(* never be manual_cleaning, and waiting_for_task only together with a step *)
(* of the itinerary that leaves it.  A late answer for a plan point would   *)
(* record waiting_for_task for good; it can only do so while no pause is on *)
(* or on its way.                                                           *)
Resuming == {"MANUAL_PAUSE", "MANUAL_RESUME"}

ResumeAhead ==
  \/ pauseInterception \/ again \/ job.id \in Resuming
  \/ \E i \in DOMAIN pointDeque : pointDeque[i].id \in Resuming

RecordLeaves ==
  /\ record.flow # "manual_cleaning" /\ record.point.id \in FlowId \cup {"PLAN"}
  /\ ResumeAhead => (record.point.id = "PLAN" => record.flow # "waiting_for_task")

CleaningMode ==
  event_flow = "manual_cleaning" => manualClean /\ event_status = "MANUAL" /\ pc # "auto"

ModeWithoutTask ==
  manualClean => workTask = NoTask /\ (event_flow = "waiting_for_task" => AtSeat)

PauseHolds == pauseInterception => event_status # "AUTO" /\ event_flow # "waiting_for_task"

ResumeReturns == again => pc \in {"auto", "control", "asleep", "undefined"}

PlanInHand == job.id = "PLAN" /\ (pc = "auto" \/ (pc = "point" /\ event_status = "AUTO"))
IdlePlan == PlanInHand /\ event_flow = "waiting_for_task" => ~ResumeAhead

ResumeInv ==
  RecordLeaves /\ CleaningMode /\ ModeWithoutTask /\ PauseHolds /\ ResumeReturns /\ IdlePlan

(* What the body of a handler does to mode, flow and pause: it leaves the   *)
(* mode, ends everything, enters manual cleaning, or pauses.                *)
LeavesMode ==
  /\ UNCHANGED manualClean /\ workTask' \in {workTask, NoTask}
  /\ event_flow' = event_flow \/ event_flow' \in NamedFlow
  /\ event_status' = event_status \/ (event_status' # "AUTO" /\ event_flow' \in NamedFlow)
  /\ pauseInterception' => pauseInterception
EndsMode ==
  ~manualClean' /\ ~pauseInterception' /\ event_flow' # "manual_cleaning"
EntersMode ==
  /\ manualClean' /\ workTask' = NoTask
  /\ event_flow' = "manual_cleaning" /\ event_status' = "MANUAL"
  /\ pauseInterception' => pauseInterception
Pauses ==
  /\ UNCHANGED <<manualClean, workTask>>
  /\ event_flow' = "manual_task_pause" /\ event_status' = "MANUAL"

ResumeStep == LeavesMode \/ EndsMode \/ EntersMode \/ (Pauses /\ job.id \in Resuming)

(* Where the dispatcher goes on: not into handleAutoPoint. *)
Leaves ==
  /\ pc' \notin {"auto", "point"}
  /\ job'.id \in Resuming => job.id \in Resuming \/ again
  /\ again' => again /\ pc' \in {"control", "asleep", "undefined"}

LEMMA ResumeStepKeeps ==
  ASSUME ResumeInv, ResumeStep, Leaves, UNCHANGED <<record, pointDeque>>,
         AtSeat => event_flow' # "waiting_for_task"
  PROVE  ResumeInv'
<1>1. ResumeAhead' => ResumeAhead
  BY DEF ResumeAhead, ResumeStep, LeavesMode, EndsMode, EntersMode, Pauses, Leaves
<1>2. RecordLeaves'
  BY <1>1 DEF ResumeInv, RecordLeaves
<1>3. CleaningMode'
  BY DEF ResumeInv, CleaningMode, ResumeStep, LeavesMode, EndsMode, EntersMode, Pauses, Leaves,
         NamedFlow
<1>4. ModeWithoutTask'
  BY DEF ResumeInv, ModeWithoutTask, ResumeStep, LeavesMode, EndsMode, EntersMode, Pauses,
         NamedFlow
<1>5. PauseHolds'
  BY DEF ResumeInv, PauseHolds, ResumeStep, LeavesMode, EndsMode, EntersMode, Pauses,
         NamedFlow
<1>6. ResumeReturns' /\ IdlePlan'
  BY DEF Leaves, ResumeReturns, IdlePlan, PlanInHand
<1> QED BY <1>2, <1>3, <1>4, <1>5, <1>6 DEF ResumeInv

LEMMA FrameResume ==
  /\ UNCHANGED handlerVars => LeavesMode /\ UNCHANGED <<event_flow, pointDeque>>
  /\ UNCHANGED dispatcherVars => LeavesMode /\ UNCHANGED <<event_flow, record, job, again>>
BY DEF LeavesMode, handlerVars, dispatcherVars, flowVars, modeVars, taskVars, memoVars

LEMMA BodiesResume ==
  ASSUME TypeOK,
         \/ \E id : TriggerBack(id)
         \/ callPause /\ job.id \in Resuming
         \/ callManualCleanStart
         \/ goodGame \/ callTaskInterrupt \/ Ignore
         \/ \E f \in NamedFlow \cup {event_flow} :
              \/ CloseMechanism(f) \/ OpenMechanism(f) \/ Proceed(f)
              \/ \E w : AskStation(w, f)
              \/ \E r : GoBase(f, r)
              \/ \E q : GoTo(q, f)
  PROVE  ResumeStep
<1>1. CASE \E id : TriggerBack(id)
  <2>1. PICK id : TriggerBack(id)
    BY <1>1
  <2>2. ReturnFlow(id) \in NamedFlow /\ ReturnStatus(id) # "AUTO"
    BY DEF ReturnFlow, ReturnStatus, NamedFlow, Flow
  <2> QED BY <2>1, <2>2 DEF TriggerBack, ResumeStep, LeavesMode
<1>2. CASE callPause /\ job.id \in Resuming
  BY <1>2 DEF callPause, ResumeStep, Pauses
<1>3. CASE callManualCleanStart
  BY <1>3 DEF callManualCleanStart, StopTask, Reset, KeepTask, taskVars, ResumeStep, EntersMode
<1>4. CASE goodGame \/ callTaskInterrupt
  BY <1>4 DEF goodGame, callTaskInterrupt, Reset, ResumeStep, EndsMode
<1>5. CASE Ignore
  BY <1>5, FrameResume DEF Ignore, ResumeStep
<1>6. CASE \E f \in NamedFlow \cup {event_flow} :
              \/ CloseMechanism(f) \/ OpenMechanism(f) \/ Proceed(f)
              \/ \E w : AskStation(w, f)
              \/ \E r : GoBase(f, r)
              \/ \E q : GoTo(q, f)
  BY <1>6 DEF CloseMechanism, OpenMechanism, Proceed, AskStation, GoBase, GoTo, modeVars,
              taskVars, ResumeStep, LeavesMode
<1> QED BY <1>1, <1>2, <1>3, <1>4, <1>5, <1>6

LEMMA DisposeResume ==
  ASSUME TypeOK, NEW f \in NamedFlow,
         \/ \E b \in BOOLEAN : DisposeBasePoint(f, b)
         \/ DisposeMechanism(f) \/ DisposeStation(f)
  PROVE  ResumeStep
BY BodiesResume DEF DisposeBasePoint, DisposeMechanism, DisposeStation

LEMMA StackResume ==
  ASSUME ResumeReturns
  PROVE  /\ Return => Leaves
         /\ \A next \in {"control", "asleep", "undefined"} : Continue(next) => Leaves
BY DEF Return, Continue, Leaves, ResumeReturns, Special, Resuming, NullPoint, PlanPoint

LEMMA ManualForceResume ==
  ASSUME TypeOK, OnlyOrdered, ResumeInv, NoStop, "quitManual" \notin Events,
         handleManualPoint \/ handleForcePoint
  PROVE  ResumeInv'
<1> USE FrameKeepsPoints
<1>1. job.id \notin {"MANUAL_CLEAN_END", "STOP_URGENT_IN_BASE"}
  BY DEF OnlyOrdered, Ordered, NoStop
<1>2. ~AtSeat
  BY DEF AtSeat, handleManualPoint, ManualCommand, ManualResumeTask, ManualStopUrgent,
     ManualFlow, ManualIgnore, handleForcePoint, ForceReturn, ForceStopUrgent, ForceFlow,
     ForceIgnore
<1>3. CASE ManualResumeTask
  <2>1. /\ pc' = "auto" /\ job' = record.point /\ event_flow' = record.flow
        /\ ~pauseInterception' /\ ~again' /\ job.id = "MANUAL_RESUME"
        /\ UNCHANGED <<record, workTask, manualClean, pointDeque>>
    BY <1>3 DEF ManualResumeTask, callResume, taskVars, ResumeInv, ResumeReturns
  <2>2. ResumeAhead /\ (ResumeAhead' => ResumeAhead)
    BY <2>1 DEF ResumeAhead, Resuming
  <2> QED BY <2>1, <2>2 DEF ResumeInv, RecordLeaves, CleaningMode, ModeWithoutTask, PauseHolds,
             ResumeReturns, IdlePlan, PlanInHand, AtSeat
<1>4. CASE ManualCommand \/ ManualFlow \/ ManualIgnore
  <2>1. Leaves /\ UNCHANGED <<record, pointDeque>>
    BY <1>4, BodiesKeepPoints, DisposeKeepsPoints, StackResume
       DEF ManualCommand, ManualFlow, ManualIgnore, ResumeInv
  <2>2. {"manual_base_point_and_close_mechanism", "manual_mechanism_close_and_charging",
         "manual_back_try_move_base_point"} \subseteq NamedFlow
    BY DEF Flow, NamedFlow
  <2>3. ResumeStep
    <3>1. CASE ManualCommand
      BY <1>1, <3>1, BodiesResume DEF ManualCommand, Resuming
    <3>2. CASE ManualFlow
      BY <3>2, <2>2, DisposeResume DEF ManualFlow
    <3>3. CASE ManualIgnore
      BY <3>3, BodiesResume DEF ManualIgnore
    <3> QED BY <1>4, <3>1, <3>2, <3>3
  <2> QED BY <1>2, <2>1, <2>3, ResumeStepKeeps
<1>5. CASE ManualStopUrgent \/ ForceStopUrgent
  BY <1>1, <1>5 DEF ManualStopUrgent, ForceStopUrgent
<1>6. CASE ForceReturn \/ ForceFlow \/ ForceIgnore
  <2>1. Leaves /\ UNCHANGED <<record, pointDeque>>
    BY <1>6, BodiesKeepPoints, DisposeKeepsPoints, StackResume
       DEF ForceReturn, ForceFlow, ForceIgnore, ResumeInv
  <2>2. {"force_base_point_and_close_mechanism", "manual_control_base_point_and_charging",
         "force_mechanism_close_and_charging", "force_back_try_move_base_point",
         "manual_control_back_try_move_base_point"} \subseteq NamedFlow
    BY DEF Flow, NamedFlow
  <2>3. ForceBasePoint \/ ForceStation => ResumeStep
    BY <2>2, DisposeResume, BodiesResume DEF ForceBasePoint, ForceStation
  <2>4. ResumeStep
    BY <1>6, <2>2, <2>3, DisposeResume, BodiesResume DEF ForceReturn, ForceFlow, ForceIgnore
  <2> QED BY <1>2, <2>1, <2>4, ResumeStepKeeps
<1> QED BY <1>3, <1>4, <1>5, <1>6 DEF handleManualPoint, handleForcePoint

LEMMA AutoResumeInv ==
  ASSUME TypeOK, OnlyOrdered, SeatInv, ResumeInv, NoStop, "quitManual" \notin Events,
         handleAutoPoint
  PROVE  ResumeInv'
<1> USE FrameKeepsPoints
<1>1. job.id \notin {"MANUAL_CLEAN_END", "STOP_URGENT_IN_BASE"}
  BY DEF OnlyOrdered, Ordered, NoStop
<1>2. pc = "auto"
  BY DEF handleAutoPoint, AutoReturn, AutoPause, AutoResume, AutoManualClean, AutoStopUrgent,
         AutoFlow, AutoPlan
<1>3. CASE AutoReturn \/ AutoPause \/ AutoManualClean
  <2>1. Leaves /\ UNCHANGED <<record, pointDeque>>
    BY <1>3, BodiesKeepPoints, StackResume
       DEF AutoReturn, AutoPause, AutoManualClean, ResumeInv
  <2>2. ~AtSeat
    BY <1>2, <1>3 DEF AtSeat, AutoReturn, AutoPause, AutoManualClean, ReturnId, FlowId
  <2>3. ResumeStep
    BY <1>1, <1>3, BodiesResume DEF AutoReturn, AutoPause, AutoManualClean, Resuming
  <2> QED BY <2>1, <2>2, <2>3, ResumeStepKeeps
<1>4. CASE AutoResume
  <2>1. /\ pc' = "auto" /\ job' = record.point /\ event_flow' = record.flow
        /\ ~pauseInterception' /\ again' /\ job.id = "MANUAL_RESUME"
        /\ UNCHANGED <<record, workTask, manualClean, pointDeque>>
    BY <1>4 DEF AutoResume, callResume, taskVars
  <2>2. ResumeAhead
    BY <2>1 DEF ResumeAhead, Resuming
  <2> QED BY <2>1, <2>2 DEF ResumeInv, RecordLeaves, CleaningMode, ModeWithoutTask, PauseHolds,
             ResumeReturns, IdlePlan, PlanInHand, AtSeat
<1>5. CASE AutoFlow
  <2>1. /\ record'.point = job /\ record'.flow = event_flow /\ job.id \in FlowId
        /\ Leaves
        /\ UNCHANGED <<workTask, manualClean, pauseInterception, event_status, pointDeque>>
    BY <1>5, StackResume DEF AutoFlow, Remember, taskVars, modeVars, ResumeInv
  <2>2. event_flow' \notin {"manual_cleaning", "waiting_for_task"}
    BY <1>5, FlowAfterMode DEF AutoFlow
  <2>3. "PLAN" \notin FlowId
    BY DEF FlowId
  <2> QED BY <1>2, <2>1, <2>2, <2>3 DEF ResumeInv, RecordLeaves, CleaningMode, ModeWithoutTask,
             PauseHolds, ResumeReturns, IdlePlan, PlanInHand, Leaves
<1>6. CASE AutoPlan
  <2>1. /\ record'.point = job /\ record'.flow = event_flow /\ job.id = "PLAN"
        /\ Leaves /\ pc' = "control"
        /\ UNCHANGED <<event_flow, workTask, manualClean, pauseInterception, event_status,
                       pointDeque, job, again>>
    BY <1>6, StackResume
       DEF AutoPlan, Remember, Continue, handlerVars, flowVars, taskVars, modeVars, ResumeInv
  <2>2. ResumeAhead' => ResumeAhead
    BY <2>1 DEF ResumeAhead
  <2>3. ~AtSeat
    BY <1>2, <2>1 DEF AtSeat, FlowId
  <2> QED BY <1>2, <2>1, <2>2, <2>3 DEF ResumeInv, RecordLeaves, CleaningMode, ModeWithoutTask,
             PauseHolds, ResumeReturns, IdlePlan, PlanInHand, Leaves
<1>7. CASE AutoStopUrgent
  BY <1>1, <1>7 DEF AutoStopUrgent
<1> QED BY <1>3, <1>4, <1>5, <1>6, <1>7 DEF handleAutoPoint

LEMMA ControlResume ==
  ASSUME TypeOK, ResumeInv, processControl
  PROVE  ResumeInv'
<1> USE FrameKeepsPoints DEF Control, controlFrame
<1>1. UNCHANGED <<record, pointDeque>>
  BY BodiesKeepPoints
     DEF processControl, ControlAskStation, ControlAlreadyWorking,
     ControlWakeUp, ControlMechanism, ControlFirstPoint, ControlEnsured, ControlNextPoint,
     ControlLastPoint, ControlUndefined, ControlGoBase, ControlEnd, ControlNothing
<1>2. ~AtSeat
  BY DEF AtSeat, processControl, ControlAskStation, ControlAlreadyWorking,
     ControlWakeUp, ControlMechanism, ControlFirstPoint, ControlEnsured, ControlNextPoint,
     ControlLastPoint, ControlUndefined, ControlGoBase, ControlEnd, ControlNothing
<1>3. {"ensure_move_to_start_point", "flowing_water_production"} \subseteq NamedFlow
  BY DEF Flow, NamedFlow
<1>4. CASE \/ ControlAskStation \/ ControlMechanism \/ ControlGoBase \/ ControlWakeUp
           \/ ControlFirstPoint \/ ControlNextPoint \/ ControlEnd
  <2>1. Leaves
    BY <1>4, StackResume
       DEF ControlAskStation, ControlMechanism, ControlGoBase, ControlWakeUp,
           ControlFirstPoint, ControlNextPoint, ControlEnd, ResumeInv
  <2>2. ResumeStep
    BY <1>3, <1>4, BodiesResume
       DEF ControlAskStation, ControlMechanism, ControlGoBase, ControlWakeUp,
           ControlFirstPoint, ControlNextPoint, ControlEnd
  <2> QED BY <1>1, <1>2, <2>1, <2>2, ResumeStepKeeps
<1>5. CASE ControlLastPoint \/ ControlUndefined \/ ControlNothing
  <2>1. Leaves
    BY <1>5, StackResume DEF ControlLastPoint, ControlUndefined, ControlNothing, ResumeInv
  <2>2. ResumeStep
    BY <1>5, FrameResume
       DEF ControlLastPoint, ControlUndefined, ControlNothing, flowVars, modeVars, ResumeStep,
           LeavesMode
  <2> QED BY <1>1, <1>2, <2>1, <2>2, ResumeStepKeeps
<1>6. CASE ControlEnsured \/ ControlAlreadyWorking
  <2>1. /\ pc' = "auto" /\ UNCHANGED <<again, manualClean, workTask, pauseInterception, event_status>>
        /\ UNCHANGED job \/ job'.id = "END_SLEEP"
    BY <1>6 DEF ControlEnsured, ControlAlreadyWorking, Continue, handlerVars, flowVars, modeVars,
       taskVars, FlowPoint
  <2>2. event_flow' \in {"flowing_water_production", "switch_node_work_mode"}
    BY <1>6 DEF ControlEnsured, ControlAlreadyWorking, handlerVars, flowVars
  <2>3. ResumeAhead' => ResumeAhead
    BY <1>1, <2>1 DEF ResumeAhead, Resuming
  <2> QED BY <1>1, <1>2, <2>1, <2>2, <2>3 DEF ResumeInv, RecordLeaves, CleaningMode,
             ModeWithoutTask, PauseHolds, ResumeReturns, IdlePlan
<1> QED BY <1>4, <1>5, <1>6 DEF processControl

LEMMA TakeResume ==
  ASSUME TypeOK, ResumeInv, Take
  PROVE  ResumeInv'
<1>1. /\ pc = "wait" /\ pc' \notin {"auto", "wait"} /\ ~AtSeat /\ ~again'
      /\ UNCHANGED <<record, event_flow, event_status, manualClean, workTask, pauseInterception>>
  BY DEF Take, TakeUnrecoverable, TakeStop, TakeTask, TakePoint, takeFrame, handlerVars,
     flowVars, modeVars, taskVars, memoVars, AtSeat, ResumeInv, ResumeReturns
<1>2. CASE TakeUnrecoverable \/ TakeStop \/ TakeTask
  <2>1. UNCHANGED <<job, pointDeque>> /\ pc' # "point"
    BY <1>2 DEF TakeUnrecoverable, TakeStop, TakeTask, takeFrame, handlerVars
  <2>2. ResumeAhead' => ResumeAhead
    BY <1>1, <2>1 DEF ResumeAhead
  <2> QED BY <1>1, <2>1, <2>2 DEF ResumeInv, RecordLeaves, CleaningMode, ModeWithoutTask,
             PauseHolds, ResumeReturns, IdlePlan, PlanInHand
<1>3. CASE TakePoint
  <2>1. pointDeque' = <<>> /\ job' = pointDeque[Len(pointDeque)]
    BY <1>3 DEF TakePoint, Last
  <2>2. Len(pointDeque) \in DOMAIN pointDeque
    BY <1>3 DEF TakePoint, TypeOK, HandlerTypeOK
  <2>3. DOMAIN <<>> = {}
    OBVIOUS
  <2>4. ResumeAhead' => ResumeAhead
    BY <1>1, <2>1, <2>2, <2>3 DEF ResumeAhead
  <2>5. PlanInHand' => ~ResumeAhead'
    BY <1>1, <2>1, <2>3 DEF PlanInHand, ResumeAhead, Resuming, ResumeInv, PauseHolds
  <2> QED BY <1>1, <2>4, <2>5 DEF ResumeInv, RecordLeaves, CleaningMode, ModeWithoutTask,
             PauseHolds, ResumeReturns, IdlePlan
<1> QED BY <1>2, <1>3 DEF Take

LEMMA HandlersResume ==
  ASSUME TypeOK, OnlyOrdered, ResumeInv, NoStop,
         HandleUnrecoverable \/ handleStop \/ handleTask \/ handlePoint
  PROVE  ResumeInv'
<1> USE FrameKeepsPoints
<1>1. ~urgencyStopState /\ pc # "stop"
  BY DEF OnlyOrdered, Stopping, NoStop
<1>2. CASE HandleUnrecoverable
  <2>1. Leaves /\ UNCHANGED <<record, pointDeque>> /\ ~AtSeat
    BY <1>2, StackResume DEF HandleUnrecoverable, AtSeat, ResumeInv
  <2>2. ResumeStep
    BY <1>2 DEF HandleUnrecoverable, StopTask, Reset, KeepTask, taskVars, ResumeStep, LeavesMode,
                EndsMode, NamedFlow, Flow
  <2> QED BY <2>1, <2>2, ResumeStepKeeps
<1>3. CASE handleStop
  BY <1>1, <1>3 DEF handleStop, IgnoreStop, StopPressed, Released, ReleasedWithoutTask,
     ReleasedWhilePaused, ReleasedReplaying, ReleasedIntoPause
<1>4. CASE StartTask
  <2>1. /\ pc = "task" /\ event_flow = "waiting_for_task" /\ pc' = "auto" /\ job'.id = "SEIZE_SEAT"
        /\ UNCHANGED <<record, pointDeque, event_flow, event_status, manualClean,
                       pauseInterception, again>>
    BY <1>4 DEF StartTask, SeizeSeat, FlowPoint, flowVars, modeVars, memoVars
  <2>2. ~manualClean /\ ~pauseInterception
    BY <2>1 DEF ResumeInv, ModeWithoutTask, AtSeat, PauseHolds
  <2>3. ResumeAhead' => ResumeAhead
    BY <2>1 DEF ResumeAhead, Resuming
  <2> QED BY <2>1, <2>2, <2>3 DEF ResumeInv, RecordLeaves, CleaningMode, ModeWithoutTask,
             PauseHolds, ResumeReturns, IdlePlan, PlanInHand
<1>5. CASE DropTask \/ QueueTask \/ DropPoint
  <2>1. Leaves /\ UNCHANGED <<record, pointDeque>> /\ ~AtSeat
    BY <1>5, StackResume DEF DropTask, QueueTask, DropPoint, AtSeat, ResumeInv
  <2>2. ResumeStep
    BY <1>5, FrameResume DEF DropTask, QueueTask, DropPoint, flowVars, modeVars, ResumeStep,
                             LeavesMode
  <2> QED BY <2>1, <2>2, ResumeStepKeeps
<1>6. CASE StopUrgentWhileStopped
  BY <1>1, <1>6 DEF StopUrgentWhileStopped
<1>7. CASE HandlePoint
  <2>1. /\ pc = "point" /\ pc' = ModeHandler[event_status]
        /\ UNCHANGED <<record, pointDeque, event_flow, event_status, manualClean, workTask,
                       pauseInterception, job, again>>
    BY <1>7 DEF HandlePoint, Continue, handlerVars, flowVars, modeVars, taskVars
  <2>2. /\ event_status \in Status /\ pc' \notin {"point", "asleep"}
        /\ pc' = "auto" => event_status = "AUTO"
    BY <2>1 DEF ModeHandler, Status, TypeOK, HandlerTypeOK
  <2>3. ~AtSeat /\ (ResumeAhead' => ResumeAhead)
    BY <2>1 DEF AtSeat, ResumeAhead
  <2> QED BY <2>1, <2>2, <2>3 DEF ResumeInv, RecordLeaves, CleaningMode, ModeWithoutTask,
             PauseHolds, ResumeReturns, IdlePlan, PlanInHand
<1> QED BY <1>2, <1>3, <1>4, <1>5, <1>6, <1>7 DEF handleTask, handlePoint

(* A pause or a resume that is ordered finds a record that leaves its flow. *)
LEMMA PushedResume ==
  ASSUME TypeOK, ResumeInv, NEW p, Push(p), p.id \notin Resuming
  PROVE  (\E i \in DOMAIN pointDeque' : pointDeque'[i].id \in Resuming) =>
           \E i \in DOMAIN pointDeque : pointDeque[i].id \in Resuming
<1>1. pointDeque \in Seq(Point) /\ pointDeque' = Append(pointDeque, p)
  BY DEF TypeOK, HandlerTypeOK, Push
<1>2. \A i \in DOMAIN pointDeque' :
        \/ i \in DOMAIN pointDeque /\ pointDeque'[i] = pointDeque[i]
        \/ pointDeque'[i] = p
  BY <1>1
<1> QED BY <1>2

LEMMA AwakeResume ==
  ASSUME TypeOK, ResumeInv, NodesAwake \/ SleepGivenUp
  PROVE  ResumeInv'
<1>1. PICK ok \in BOOLEAN : Push(FlowPoint("END_SLEEP", ok))
  BY DEF NodesAwake, SleepGivenUp
<1>2. FlowPoint("END_SLEEP", ok).id \notin Resuming
  BY DEF FlowPoint, Resuming
<1>3. /\ pc = "asleep" /\ ~AtSeat /\ Leaves
      /\ UNCHANGED <<record, event_flow, event_status, manualClean, workTask, pauseInterception>>
  BY StackResume DEF NodesAwake, SleepGivenUp, AwakeFrame, flowVars, modeVars, taskVars, memoVars,
     AtSeat, ResumeInv
<1>4. ResumeAhead' => ResumeAhead
  BY <1>1, <1>2, <1>3, PushedResume DEF ResumeAhead, Leaves
<1> QED BY <1>3, <1>4 DEF ResumeInv, RecordLeaves, CleaningMode, ModeWithoutTask,
           PauseHolds, ResumeReturns, IdlePlan, PlanInHand, Leaves

LEMMA OtherThreadsResume ==
  ASSUME TypeOK, NoTaskNoPlan, SeatInv, ResumeInv,
         EventLoop \/ Navigation \/ StationResult \/ Operator \/ Launch \/ UNCHANGED vars
  PROVE  ResumeInv'
<1>1. /\ UNCHANGED <<event_flow, event_status, manualClean, workTask, pauseInterception,
                     record, job, again>>
      /\ pc' \in {pc, "undefined"}
  <2>1. CASE Launch \/ UNCHANGED vars
    BY <2>1 DEF Launch, LaunchTask, LaunchRefused, vars, flowVars, modeVars, taskVars, memoVars,
                stackVars
  <2>2. CASE EventLoop \/ Navigation \/ StationResult \/ Operator
    <3>1. UNCHANGED dispatcherVars
      BY <2>2 DEF EventLoop, LoopSchedule, MechanismTimer, SleepTimer, NavTimer, Navigation,
         NavDone, NavCallback, NavAnswer, StationResult, Operator, ManualBack,
         ManualForceBack, ManualResume, ManualPause, EnterManual, QuitManual, StopAndCharge,
         ForceBackToBase, UrgencyStop, UnrecoverableError, Ask, Order, commandFrame
    <3> QED BY <2>2, <3>1, OtherThreadsKeepRows DEF dispatcherVars, flowVars, modeVars, taskVars,
               memoVars
  <2> QED BY <2>1, <2>2
<1>2. ASSUME ResumeAhead' => ResumeAhead
      PROVE  ResumeInv'
  BY <1>1, <1>2 DEF ResumeInv, RecordLeaves, CleaningMode, ModeWithoutTask, PauseHolds,
     ResumeReturns, IdlePlan, PlanInHand, AtSeat
<1>3. ASSUME UNCHANGED pointDeque \/ \E p : Push(p) /\ p.id \notin Resuming
      PROVE  ResumeInv'
  <2>1. ResumeAhead' => ResumeAhead
    BY <1>1, <1>3, PushedResume DEF ResumeAhead
  <2> QED BY <1>2, <2>1
<1>4. ASSUME NEW ok, Answer(ok)
      PROVE  UNCHANGED pointDeque \/ \E p : Push(p) /\ p.id \notin Resuming
  <2>1. PlanPoint(Head(plannerQueue), ok).id \notin Resuming
        /\ FlowPoint("IN_BASE_POINT", ok).id \notin Resuming
    BY DEF PlanPoint, FlowPoint, Resuming
  <2> QED BY <1>4, <2>1 DEF Answer
<1>5. CASE EventLoop
  <2>1. \A i \in FlowId : \A a : FlowPoint(i, a).id \notin Resuming
    BY DEF FlowPoint, FlowId, Resuming
  <2>2. CASE MechanismTimer
    <3>1. \E i \in FlowId : Push(FlowPoint(i, TRUE))
      BY <2>2 DEF MechanismTimer, FlowId
    <3> QED BY <1>3, <2>1, <3>1
  <2>3. CASE NavTimer
    BY <1>3, <1>4, <2>3 DEF NavTimer
  <2> QED BY <1>3, <1>5, <2>2, <2>3 DEF EventLoop, LoopSchedule, SleepTimer
<1>6. CASE Navigation
  BY <1>3, <1>4, <1>6 DEF Navigation, NavDone, NavCallback, NavAnswer
<1>7. CASE StationResult
  <2>1. \A i, a : FlowPoint(i, a).id = i
    BY DEF FlowPoint
  <2> QED BY <1>3, <1>7, <2>1 DEF StationResult, Resuming
<1>8. CASE Launch \/ UNCHANGED vars
  BY <1>3, <1>8 DEF Launch, LaunchTask, LaunchRefused, vars
<1>9. CASE ManualPause
  <2>1. /\ plannerQueue # <<>> /\ event_flow # "waiting_for_task" /\ workTask # NoTask
        /\ pointDeque' = Append(pointDeque, Special("MANUAL_PAUSE"))
    BY <1>9 DEF ManualPause, Order, Push, BeforePreparation, NoTaskNoPlan
  <2>2. record.point.id = "PLAN" => record.flow # "waiting_for_task"
    BY <2>1 DEF SeatInv, FlowId
  <2> QED BY <1>1, <2>1, <2>2 DEF ResumeInv, RecordLeaves, CleaningMode, ModeWithoutTask,
             PauseHolds, ResumeReturns, IdlePlan, AtSeat
<1>10. CASE ManualResume
  <2>1. pauseInterception
    BY <1>10 DEF ManualResume
  <2> QED BY <1>2, <2>1 DEF ResumeAhead
<1>11. CASE Operator /\ ~ManualPause /\ ~ManualResume
  <2>1. \A i, a : FlowPoint(i, a).id = i /\ Special(i).id = i
    BY DEF FlowPoint, Special
  <2>2. ASSUME NEW id \in ReturnId, Ask(id)
        PROVE  \E p : Push(p) /\ p.id \notin Resuming
    BY <2>1, <2>2 DEF Ask, ReturnId, Resuming
  <2>3. CASE ManualBack \/ ManualForceBack \/ ForceBackToBase
    BY <1>3, <2>2, <2>3 DEF ManualBack, ManualForceBack, ForceBackToBase, ReturnId
  <2>4. CASE EnterManual \/ QuitManual \/ StopAndCharge
    BY <1>3, <2>1, <2>4 DEF EnterManual, QuitManual, StopAndCharge, Order, Resuming
  <2>5. CASE UrgencyStop \/ UnrecoverableError
    BY <1>3, <2>5 DEF UrgencyStop, UnrecoverableError
  <2> QED BY <1>11, <2>3, <2>4, <2>5 DEF Operator
<1> QED BY <1>5, <1>6, <1>7, <1>8, <1>9, <1>10, <1>11

(* What is recorded and what is resumed fit together, without the emergency *)
(* stop and without quitting manual cleaning.                               *)
LEMMA ResumeInvHolds ==
  ASSUME "urgencyStop" \notin Events, "quitManual" \notin Events
  PROVE  Spec => []ResumeInv
<1>1. Init => ResumeInv
  <2> SUFFICES ASSUME Init PROVE ResumeInv
    OBVIOUS
  <2>1. DOMAIN <<>> = {}
    OBVIOUS
  <2> QED BY <2>1 DEF Init, ResumeInv, RecordLeaves, CleaningMode, ModeWithoutTask, PauseHolds,
             ResumeReturns, IdlePlan, PlanInHand, ResumeAhead, Resuming, NullPoint, PlanPoint
<1>2. TypeInv /\ OnlyOrdered /\ NoTaskNoPlan /\ SeatInv /\ ResumeInv /\ [Next]_vars => ResumeInv'
  <2> SUFFICES ASSUME TypeInv, OnlyOrdered, NoTaskNoPlan, SeatInv, ResumeInv, [Next]_vars
               PROVE  ResumeInv'
    OBVIOUS
  <2> QED BY TakeResume, HandlersResume, AutoResumeInv, ManualForceResume, ControlResume,
             AwakeResume, OtherThreadsResume DEF Next, Dispatcher, NoStop, TypeInv
<1> QED BY <1>1, <1>2, TypeCorrect, OnlyOrderedHolds, NoTaskNoPlanHolds, SeatInvHolds, PTL DEF Spec

(* Manual cleaning with any number of pauses and resumes, whatever flow a   *)
(* resume brings back: while manualClean_ is on there is no task, and the   *)
(* flow says so.  It needs that manual cleaning is not quit: quit twice, a  *)
(* late answer records waiting_for_task, which a resume brings back.        *)
THEOREM ResumedModeAgrees ==
  ASSUME "urgencyStop" \notin Events, "quitManual" \notin Events
  PROVE  Spec => []ManualModeAgrees
<1>1. ResumeInv => ManualModeAgrees
  BY DEF ResumeInv, CleaningMode, ModeWithoutTask, ManualModeAgrees, AtSeat
<1> QED BY <1>1, ResumeInvHolds, PTL

(* Without the emergency stop no task is started while a pause is on, and a *)
(* pause keeps the plan of every task.                                      *)
THEOREM PausedPlanKeptWithoutStop ==
  ASSUME "urgencyStop" \notin Events, "quitManual" \notin Events
  PROVE  Spec => PausedPlanKept
<1>1. ResumeInv /\ [Next]_vars => [StartTask => ~pauseInterception]_vars
  BY DEF StartTask, ResumeInv, PauseHolds
<1> QED BY <1>1, ResumeInvHolds, PausedPlanKeptHolds, PTL DEF Spec
=============================================================================
