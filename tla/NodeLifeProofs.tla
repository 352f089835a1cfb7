---------------------------- MODULE NodeLifeProofs ----------------------------
(***************************************************************************)
(* The history of tasks keeps the promise of TaskHistory through any       *)
(* number of launches, threads, crashes and starts.                        *)
(***************************************************************************)
EXTENDS NodeLife, TLAPS

(* A task in hand: handed over by one launch only, waiting until it is       *)
(* started, executing until it is ended, and launched since the last start.  *)
Launched(t) == \E th \in Thread : launching[th] = t

InHandHere ==
  \A t \in Task : t \in queue \/ Launched(t) \/ current_history.id = t => t \in here

OneLaunch ==
  \A t \in Task \ reused :
    /\ t \in queue => ~Launched(t)
    /\ \A th, other \in Thread :
         launching[th] = t /\ launching[other] = t => th = other

WaitingInHand ==
  \A t \in Task \ reused :
    t \in queue \/ Launched(t) => rows[t].state = "waiting" /\ rows[t].code = "none"

ExecutingInHand ==
  /\ Running => current_history.row.state = "executing"
  /\ current_history.id \in Task \ reused =>
       /\ rows[current_history.id].state = "executing"
       /\ current_history.row.code = "none"

TasksInHand == InHandHere /\ OneLaunch /\ WaitingInHand /\ ExecutingInHand

(* Nothing is in hand before the rows are repaired, and no row that was not  *)
(* launched here is open after.                                              *)
StartsEmpty ==
  ~repaired => /\ pc = "migrate"
               /\ current_history.id = NoTask /\ queue = {}
               /\ \A th \in Thread : launching[th] = NoTask

RepairedRows == repaired => \A t \in Task \ here : ~Open(rows[t])

HistoryInv ==
  HistoryTypeOK /\ TasksInHand /\ StartsEmpty /\ RepairedRows

(* The promise, and the closing of rows, as what one step may do. *)
Promise ==
  stage' \in [Task -> Promised!Stage] /\ \A t \in Task : Promised!Step(stage[t], stage'[t])

Closes ==
  Running /\ current_history' = DefaultHistory /\ UNCHANGED here =>
    current_history.id \in reused \/ ~Open(rows'[current_history.id])
LEMMA RowTypes == NewRow \in Row /\ NoRow \in Row /\ DefaultHistory \in [id : Id, row : Row]
BY DEF NewRow, NoRow, Row, State, Flow, Code, DefaultHistory, Id

LEMMA HistoryInitInv == NodeInit => HistoryInv
<1> SUFFICES ASSUME NodeInit PROVE HistoryInv
  OBVIOUS
<1>1. HistoryTypeOK
  BY RowTypes, LaunchBound DEF NodeInit, HistoryInit, HistoryTypeOK, Id
<1>2. TasksInHand
  BY EmptyIdAssumption
  DEF NodeInit, HistoryInit, TasksInHand, InHandHere, OneLaunch, WaitingInHand, ExecutingInHand,
      Launched, Running, DefaultHistory
<1>3. StartsEmpty /\ RepairedRows
  BY DEF NodeInit, HistoryInit, Init, StartsEmpty, RepairedRows, DefaultHistory
<1> QED BY <1>1, <1>2, <1>3 DEF HistoryInv

(* What a step may do to the row of a task that it does not name. *)
LEMMA PromiseKept ==
  ASSUME HistoryTypeOK, HistoryTypeOK', reused \subseteq reused',
         \A t \in Task \ reused' : <<rows[t].state, rows'[t].state>> \in Promised!Moves
                                   \/ rows'[t].state = rows[t].state
  PROVE  Promise
<1>1. stage' \in [Task -> Promised!Stage]
  <2>1. \A t \in Task : rows'[t].state \in State
    BY DEF HistoryTypeOK, Id, Row
  <2> QED BY <2>1 DEF stage, Promised!Stage, State
<1>2. ASSUME NEW t \in Task
      PROVE  Promised!Step(stage[t], stage'[t])
  BY DEF stage, Promised!Step
<1> QED BY <1>1, <1>2 DEF Promise

LEMMA AddCleanHistoryStep ==
  ASSUME HistoryTypeOK, TasksInHand, RepairedRows, repaired, repaired',
         NEW th \in Thread, NEW t \in Task, AddCleanHistory(th, t)
  PROVE  HistoryTypeOK' /\ TasksInHand' /\ RepairedRows' /\ Promise /\ Closes
<1> USE EmptyIdAssumption DEF AddCleanHistory, Write
<1>1. HistoryTypeOK'
  BY RowTypes, LaunchBound DEF HistoryTypeOK, Id
(* A task in hand has a row, so an id that gets its first row is not in hand. *)
<1>2. t \notin reused' => t \notin queue /\ ~Launched(t) /\ current_history.id # t
  BY DEF TasksInHand, WaitingInHand, ExecutingInHand, NoRow, NewRow
<1>3. /\ rows'[t] = NewRow /\ launching'[th] = t
      /\ \A u \in Id \ {t} : rows'[u] = rows[u]
      /\ \A o \in Thread \ {th} : launching'[o] = launching[o]
  BY DEF HistoryTypeOK, Id
<1>4. InHandHere'
  BY <1>3 DEF TasksInHand, InHandHere, Launched
<1>5. OneLaunch'
  BY <1>2, <1>3 DEF TasksInHand, OneLaunch, Launched
<1>6. WaitingInHand'
  BY <1>2, <1>3 DEF TasksInHand, WaitingInHand, Launched, NewRow, Id
<1>7. ExecutingInHand'
  BY <1>2, <1>3 DEF TasksInHand, ExecutingInHand, Running, Id
<1>8. RepairedRows'
  BY <1>3 DEF RepairedRows, Id
<1>9. Promise
  <2>1. \A u \in Task \ reused' : u # t => rows'[u].state = rows[u].state
    BY <1>3 DEF Id
  <2>2. t \notin reused' => rows[t].state = "none" /\ rows'[t].state = "waiting"
    BY <1>3 DEF NoRow, NewRow
  <2> QED BY <1>1, <2>1, <2>2, PromiseKept DEF Promised!Moves
<1>10. Closes
  BY DEF Closes, Running, DefaultHistory
<1> QED BY <1>1, <1>4, <1>5, <1>6, <1>7, <1>8, <1>9, <1>10 DEF TasksInHand

LEMMA LaunchFailedStep ==
  ASSUME HistoryTypeOK, TasksInHand, RepairedRows, repaired, repaired',
         NEW th \in Thread, LaunchFailed(th)
  PROVE  HistoryTypeOK' /\ TasksInHand' /\ RepairedRows' /\ Promise /\ Closes
<1> DEFINE t == launching[th]
<1> USE EmptyIdAssumption DEF LaunchFailed, Write
<1>0. t \in Task /\ Launched(t)
  BY DEF HistoryTypeOK, Id, Launched
<1>1. /\ rows' = [rows EXCEPT ![t] = [rows[t] EXCEPT !.code = "launch", !.state = "error"]]
      /\ launching' = [launching EXCEPT ![th] = NoTask]
  OBVIOUS
<1>2. /\ rows'[t].state = "error" /\ launching'[th] = NoTask
      /\ \A u \in Id \ {t} : rows'[u] = rows[u]
      /\ \A o \in Thread \ {th} : launching'[o] = launching[o]
  <2>1. rows[t] \in Row
    BY <1>0 DEF HistoryTypeOK, Id
  <2> QED BY <1>0, <1>1, <2>1 DEF HistoryTypeOK, Id, Row
<1>3. HistoryTypeOK'
  <2>1. [rows[t] EXCEPT !.code = "launch", !.state = "error"] \in Row
    BY <1>0 DEF HistoryTypeOK, Id, Row, State, Code
  <2>2. rows' \in [Id -> Row]
    BY <1>0, <1>1, <2>1 DEF HistoryTypeOK, Id
  <2> QED BY <1>1, <2>2 DEF HistoryTypeOK, Id
<1>4. InHandHere'
  BY <1>2 DEF TasksInHand, InHandHere, Launched
(* Only this thread had the task, and the executor has not got it. *)
<1>5. t \notin reused => t \notin queue /\ current_history.id # t
                        /\ \A o \in Thread \ {th} : launching[o] # t
  BY <1>0 DEF TasksInHand, OneLaunch, WaitingInHand, ExecutingInHand
<1>6. OneLaunch'
  BY <1>2 DEF TasksInHand, OneLaunch, Launched
<1>7. WaitingInHand'
  BY <1>0, <1>2, <1>5 DEF TasksInHand, WaitingInHand, Launched, Id
<1>8. ExecutingInHand'
  BY <1>0, <1>2, <1>5 DEF TasksInHand, ExecutingInHand, Running, Id
<1>9. RepairedRows'
  BY <1>0, <1>2 DEF RepairedRows, Open, Id
<1>10. Promise
  <2>1. t \notin reused => rows[t].state = "waiting"
    BY <1>0 DEF TasksInHand, WaitingInHand
  <2>2. \A u \in Task : u # t => rows'[u].state = rows[u].state
    BY <1>2 DEF Id
  <2> QED BY <1>0, <1>2, <1>3, <2>1, <2>2, PromiseKept DEF Promised!Moves
<1>11. Closes
  BY DEF Closes, Running, DefaultHistory
<1> QED BY <1>3, <1>4, <1>6, <1>7, <1>8, <1>9, <1>10, <1>11 DEF TasksInHand

LEMMA DispatchStep ==
  ASSUME HistoryTypeOK, TasksInHand, RepairedRows, repaired, repaired',
         NEW th \in Thread, Dispatch(th)
  PROVE  HistoryTypeOK' /\ TasksInHand' /\ RepairedRows' /\ Promise /\ Closes
<1> DEFINE t == launching[th]
<1> USE EmptyIdAssumption DEF Dispatch
<1>0. t \in Task /\ Launched(t)
  BY DEF HistoryTypeOK, Id, Launched
<1>1. /\ launching'[th] = NoTask /\ queue' = queue \cup {t}
      /\ \A o \in Thread \ {th} : launching'[o] = launching[o]
  BY DEF HistoryTypeOK
<1>2. HistoryTypeOK'
  BY <1>0 DEF HistoryTypeOK, Id
<1>3. InHandHere'
  BY <1>0, <1>1 DEF TasksInHand, InHandHere, Launched
<1>4. t \notin reused => \A o \in Thread \ {th} : launching[o] # t
  BY <1>0 DEF TasksInHand, OneLaunch
<1>5. OneLaunch'
  BY <1>0, <1>1, <1>4 DEF TasksInHand, OneLaunch, Launched
<1>6. WaitingInHand'
  BY <1>0, <1>1 DEF TasksInHand, WaitingInHand, Launched
<1>7. ExecutingInHand' /\ RepairedRows' /\ Closes
  BY DEF TasksInHand, ExecutingInHand, Running, RepairedRows, Closes, DefaultHistory
<1>8. Promise
  BY <1>2, PromiseKept
<1> QED BY <1>2, <1>3, <1>5, <1>6, <1>7, <1>8 DEF TasksInHand

LEMMA ForgetTaskStep ==
  ASSUME HistoryTypeOK, TasksInHand, RepairedRows, repaired, repaired', ForgetTask
  PROVE  HistoryTypeOK' /\ TasksInHand' /\ RepairedRows' /\ Promise /\ Closes
<1> USE DEF ForgetTask
<1>1. HistoryTypeOK'
  BY DEF HistoryTypeOK
<1>2. TasksInHand'
  BY DEF TasksInHand, InHandHere, OneLaunch, WaitingInHand, ExecutingInHand, Launched, Running
<1>3. RepairedRows' /\ Closes
  BY DEF RepairedRows, Closes, Running, DefaultHistory
<1>4. Promise
  BY <1>1, PromiseKept
<1> QED BY <1>1, <1>2, <1>3, <1>4

LEMMA ExecuteTaskStep ==
  ASSUME HistoryTypeOK, TasksInHand, RepairedRows, repaired, repaired',
         NEW t \in Task, ExecuteTask(t)
  PROVE  HistoryTypeOK' /\ TasksInHand' /\ RepairedRows' /\ Promise /\ Closes
<1> DEFINE row == [rows[t] EXCEPT !.executed = TRUE, !.state = "executing"]
<1> USE EmptyIdAssumption DEF ExecuteTask, Write
<1>1. rows[t] \in Row /\ row \in Row
  BY DEF HistoryTypeOK, Id, Row, State
<1>2. /\ row.state = "executing" /\ row.code = rows[t].code
      /\ current_history' = [id |-> t, row |-> row]
      /\ rows'[t] = row /\ \A u \in Id \ {t} : rows'[u] = rows[u]
  BY <1>1 DEF HistoryTypeOK, Id, Row
<1>3. HistoryTypeOK'
  <2>1. rows' \in [Id -> Row]
    BY <1>1, <1>2 DEF HistoryTypeOK, Id
  <2>2. current_history' \in [id : Id, row : Row]
    BY <1>1, <1>2 DEF Id
  <2> QED BY <2>1, <2>2 DEF HistoryTypeOK
<1>4. InHandHere' /\ OneLaunch'
  BY <1>2 DEF TasksInHand, InHandHere, OneLaunch, Launched
<1>5. WaitingInHand'
  <2>1. t \notin reused => ~Launched(t)
    BY DEF TasksInHand, OneLaunch
  <2> QED BY <1>2, <2>1 DEF TasksInHand, WaitingInHand, Launched, Id
<1>6. ExecutingInHand'
  <2>1. rows'[t].state = "executing" /\ rows'[t].code = rows[t].code
    BY <1>2
  <2>2. current_history'.id = t /\ current_history'.row = rows'[t]
    BY <1>2
  <2>3. t \notin reused => rows[t].code = "none"
    BY DEF TasksInHand, WaitingInHand
  <2> QED BY <2>1, <2>2, <2>3 DEF ExecutingInHand
<1>7. RepairedRows'
  BY <1>2 DEF TasksInHand, InHandHere, RepairedRows, Id
<1>8. Promise
  <2>1. t \notin reused => rows[t].state = "waiting"
    BY DEF TasksInHand, WaitingInHand
  <2>2. \A u \in Task : u # t => rows'[u].state = rows[u].state
    BY <1>2 DEF Id
  <2> QED BY <1>2, <1>3, <2>1, <2>2, PromiseKept DEF Promised!Moves
<1>9. Closes
  BY <1>2 DEF Closes, DefaultHistory
<1> QED BY <1>3, <1>4, <1>5, <1>6, <1>7, <1>8, <1>9 DEF TasksInHand

(* A setter leaves the task executing and its error code alone. *)
LEMMA UpdateStep ==
  ASSUME HistoryTypeOK, TasksInHand, RepairedRows, repaired, repaired',
         NEW row \in Row, row.state = current_history.row.state,
         row.code = current_history.row.code, Update(row)
  PROVE  HistoryTypeOK' /\ TasksInHand' /\ RepairedRows' /\ Promise /\ Closes
<1> DEFINE t == current_history.id
<1> USE EmptyIdAssumption DEF Update, Write, launchVars
<1>0. t \in Task /\ Running
  BY DEF Running, HistoryTypeOK, Id
<1>1. /\ current_history' = [id |-> t, row |-> row]
      /\ rows'[t] = row /\ \A u \in Id \ {t} : rows'[u] = rows[u]
  BY <1>0 DEF HistoryTypeOK, Id
<1>2. row.state = "executing"
  BY <1>0 DEF TasksInHand, ExecutingInHand
<1>3. HistoryTypeOK'
  <2>1. rows' \in [Id -> Row]
    BY <1>0 DEF HistoryTypeOK, Id
  <2>2. current_history' \in [id : Id, row : Row]
    BY <1>0, <1>1 DEF Id
  <2> QED BY <2>1, <2>2 DEF HistoryTypeOK
<1>4. InHandHere' /\ OneLaunch'
  BY <1>1 DEF TasksInHand, InHandHere, OneLaunch, Launched
<1>5. WaitingInHand'
  BY <1>0, <1>1 DEF TasksInHand, WaitingInHand, ExecutingInHand, Launched, Id
<1>6. ExecutingInHand'
  BY <1>1, <1>2 DEF TasksInHand, ExecutingInHand, Running
<1>7. RepairedRows'
  BY <1>0, <1>1 DEF TasksInHand, InHandHere, RepairedRows, Id
<1>8. Promise
  <2>1. t \notin reused => rows[t].state = "executing"
    BY <1>0 DEF TasksInHand, ExecutingInHand
  <2>2. \A u \in Task : u # t => rows'[u].state = rows[u].state
    BY <1>1 DEF Id
  <2> QED BY <1>1, <1>2, <1>3, <2>1, <2>2, PromiseKept
<1>9. Closes
  BY <1>0, <1>1 DEF Closes, DefaultHistory
<1> QED BY <1>3, <1>4, <1>5, <1>6, <1>7, <1>8, <1>9 DEF TasksInHand

LEMMA SetMechanismStep ==
  ASSUME HistoryTypeOK, TasksInHand, RepairedRows, repaired, repaired', SetMechanism
  PROVE  HistoryTypeOK' /\ TasksInHand' /\ RepairedRows' /\ Promise /\ Closes
<1> USE EmptyIdAssumption DEF SetMechanism, Write, launchVars
<1>1. \A u \in Task : rows'[u] = rows[u]
  BY DEF HistoryTypeOK, Id, Running
<1>2. HistoryTypeOK'
  BY DEF HistoryTypeOK, Id
<1>3. TasksInHand'
  BY <1>1 DEF TasksInHand, InHandHere, OneLaunch, WaitingInHand, ExecutingInHand, Launched,
              Running
<1>4. RepairedRows' /\ Closes
  BY <1>1 DEF RepairedRows, Closes
<1>5. Promise
  BY <1>1, <1>2, PromiseKept
<1> QED BY <1>2, <1>3, <1>4, <1>5

(* An end leaves nothing current; the row it writes is closed, unless its id *)
(* was used again.                                                           *)
LEMMA EndStep ==
  ASSUME HistoryTypeOK, TasksInHand, RepairedRows, repaired, repaired',
         NEW row \in Row, End(row),
         current_history.id \in reused \/ row.state \in {"done", "error"}
  PROVE  HistoryTypeOK' /\ TasksInHand' /\ RepairedRows' /\ Promise /\ Closes
<1> DEFINE t == current_history.id
<1> USE EmptyIdAssumption DEF End, Write, launchVars
<1>0. t \in Task /\ Running
  BY DEF Running, HistoryTypeOK, Id
<1>1. /\ current_history'.id = NoTask
      /\ rows'[t] = row /\ \A u \in Id \ {t} : rows'[u] = rows[u]
  BY <1>0 DEF HistoryTypeOK, Id, DefaultHistory
<1>2. HistoryTypeOK'
  BY <1>0, RowTypes DEF HistoryTypeOK, Id
<1>3. InHandHere' /\ OneLaunch'
  BY <1>1 DEF TasksInHand, InHandHere, OneLaunch, Launched
<1>4. WaitingInHand'
  BY <1>0, <1>1 DEF TasksInHand, WaitingInHand, ExecutingInHand, Launched, Id
<1>5. ExecutingInHand'
  BY <1>1 DEF ExecutingInHand, Running
<1>6. RepairedRows'
  BY <1>0, <1>1 DEF TasksInHand, InHandHere, RepairedRows, Id
<1>7. Promise
  <2>1. t \notin reused => rows[t].state = "executing"
    BY <1>0 DEF TasksInHand, ExecutingInHand
  <2>2. \A u \in Task : u # t => rows'[u].state = rows[u].state
    BY <1>1 DEF Id
  <2> QED BY <1>1, <1>2, <2>1, <2>2, PromiseKept DEF Promised!Moves
<1>8. Closes
  BY <1>1 DEF Closes, Open
<1> QED BY <1>2, <1>3, <1>4, <1>5, <1>6, <1>7, <1>8 DEF TasksInHand

LEMMA HistoryStep ==
  ASSUME HistoryTypeOK, TasksInHand, RepairedRows, repaired, repaired', HistoryNext
  PROVE  HistoryTypeOK' /\ TasksInHand' /\ RepairedRows' /\ Promise /\ Closes
<1> DEFINE r == current_history.row
<1>0. r \in Row
  BY DEF HistoryTypeOK
<1>1. ASSUME NEW th \in Thread, NEW t \in Task, AddCleanHistory(th, t)
      PROVE  HistoryTypeOK' /\ TasksInHand' /\ RepairedRows' /\ Promise /\ Closes
  BY <1>1, AddCleanHistoryStep
<1>2. ASSUME NEW th \in Thread, LaunchFailed(th) \/ Dispatch(th)
      PROVE  HistoryTypeOK' /\ TasksInHand' /\ RepairedRows' /\ Promise /\ Closes
  BY <1>2, LaunchFailedStep, DispatchStep
<1>3. ASSUME NEW t \in Task, ExecuteTask(t)
      PROVE  HistoryTypeOK' /\ TasksInHand' /\ RepairedRows' /\ Promise /\ Closes
  BY <1>3, ExecuteTaskStep
<1>4. CASE SetCurrentFlow
  <2>1. PICK f \in Flow : Update([r EXCEPT !.flow = f])
    BY <1>4 DEF SetCurrentFlow
  <2>2. [r EXCEPT !.flow = f] \in Row /\ [r EXCEPT !.flow = f].state = r.state
        /\ [r EXCEPT !.flow = f].code = r.code
    BY <1>0 DEF Row
  <2> QED BY <2>1, <2>2, UpdateStep
<1>5. CASE EquipmentErrorBack
  <2>1. [r EXCEPT !.motor = TRUE] \in Row /\ [r EXCEPT !.motor = TRUE].state = r.state
        /\ [r EXCEPT !.motor = TRUE].code = r.code
    BY <1>0 DEF Row
  <2> QED BY <1>5, <2>1, UpdateStep DEF EquipmentErrorBack
<1>6. CASE Complete
  <2>1. Completed \in Row
    BY <1>0 DEF Completed, Row, State, Code
  <2>2. current_history.id \notin reused => r.code = "none"
    <3>1. Running
      BY <1>6 DEF Complete, End
    <3> QED BY <3>1 DEF TasksInHand, ExecutingInHand, Running, HistoryTypeOK, Id
  <2>3. current_history.id \in reused \/ Completed.state \in {"done", "error"}
    BY <1>0, <2>2 DEF Completed, Row
  <2> QED BY <1>6, <2>1, <2>3, EndStep DEF Complete
<1>7. CASE Interrupt
  <2> DEFINE row == [r EXCEPT !.state = "error", !.code = "interrupt"]
  <2>1. row \in Row /\ row.state = "error"
    BY <1>0 DEF Row, State, Code
  <2>2. End(row)
    BY <1>7 DEF Interrupt
  <2> QED BY <2>1, <2>2, EndStep
<1>8. CASE SpecialComplete
  <2> DEFINE row == [r EXCEPT !.state = "done", !.code = "none"]
  <2>1. row \in Row /\ row.state = "done"
    BY <1>0 DEF Row, State, Code
  <2>2. End(row)
    BY <1>8 DEF SpecialComplete
  <2> QED BY <2>1, <2>2, EndStep
<1> QED
  BY <1>1, <1>2, <1>3, <1>4, <1>5, <1>6, <1>7, <1>8, ForgetTaskStep, SetMechanismStep
  DEF HistoryNext, Launch, Executor

-----------------------------------------------------------------------------
(* The starts: what a stop left open is closed, and nothing is in hand. *)
LEMMA StartStep ==
  ASSUME HistoryInv, Start
  PROVE  HistoryInv' /\ Promise /\ Closes
<1> USE EmptyIdAssumption DEF Start, Initialize, launchVars, HistoryInv
<1>1. /\ current_history.id = NoTask /\ queue = {} /\ \A th \in Thread : launching[th] = NoTask
  BY DEF StartsEmpty
<1>2. \A i \in Id : Repaired(rows[i]) \in Row /\ ~Open(Repaired(rows[i]))
  BY DEF HistoryTypeOK, Repaired, Open, Row, State, Code, Flow
<1>3. HistoryTypeOK'
  BY <1>2 DEF HistoryTypeOK
<1>4. TasksInHand'
  BY <1>1 DEF TasksInHand, InHandHere, OneLaunch, WaitingInHand, ExecutingInHand, Launched,
              Running
<1>5. StartsEmpty' /\ RepairedRows' /\ Closes
  BY <1>1, <1>2 DEF StartsEmpty, RepairedRows, Id, Closes, Running
<1>6. Promise
  <2>1. ASSUME NEW t \in Task
        PROVE  \/ <<rows[t].state, rows'[t].state>> \in Promised!Moves
               \/ rows'[t].state = rows[t].state
    <3>1. CASE Open(rows[t])
      <4>1. rows'[t].state = "error"
        BY <3>1 DEF HistoryTypeOK, Repaired, Id, Row
      <4> QED BY <3>1, <4>1 DEF Open, Promised!Moves
    <3>2. CASE ~Open(rows[t])
      BY <3>2 DEF Repaired, Id
    <3> QED BY <3>1, <3>2
  <2> QED BY <1>3, <2>1, PromiseKept
<1> QED BY <1>3, <1>4, <1>5, <1>6

(* The process dies, and with it all that is in hand. *)
LEMMA DiesStep ==
  ASSUME HistoryInv, Dies
  PROVE  HistoryInv' /\ Promise /\ Closes
<1> USE EmptyIdAssumption DEF Dies, Lost, HistoryInv
<1>1. pc' = "migrate"
  BY DEF Crash
<1>2. HistoryTypeOK'
  BY RowTypes DEF HistoryTypeOK, Id
<1>3. TasksInHand'
  BY DEF TasksInHand, InHandHere, OneLaunch, WaitingInHand, ExecutingInHand, Launched,
         Running, DefaultHistory
<1>4. StartsEmpty' /\ RepairedRows'
  BY <1>1 DEF StartsEmpty, RepairedRows, DefaultHistory
<1>5. Promise
  BY <1>2, PromiseKept
(* A task that runs was launched here, so a crash is told from an end. *)
<1>6. Closes
  <2>1. Running => here # {}
    BY DEF TasksInHand, InHandHere, Running, HistoryTypeOK, Id
  <2> QED BY <2>1 DEF Closes
<1> QED BY <1>2, <1>3, <1>4, <1>5, <1>6

LEMMA HistoryInvStep ==
  HistoryInv /\ [NodeNext]_nodeVars => HistoryInv' /\ Promise /\ Closes
<1> SUFFICES ASSUME HistoryInv, [NodeNext]_nodeVars
             PROVE  HistoryInv' /\ Promise /\ Closes
  OBVIOUS
<1>1. CASE UNCHANGED historyVars /\ UNCHANGED repaired /\ (repaired \/ UNCHANGED pc)
  <2>1. HistoryTypeOK' /\ TasksInHand'
    BY <1>1 DEF historyVars, HistoryInv, HistoryTypeOK, TasksInHand, InHandHere, OneLaunch,
                WaitingInHand, ExecutingInHand, Launched, Running
  <2>2. StartsEmpty' /\ RepairedRows' /\ Closes
    BY <1>1 DEF historyVars, HistoryInv, StartsEmpty, RepairedRows, Closes, Running,
                DefaultHistory
  <2>3. Promise
    BY <1>1, <2>1, PromiseKept DEF historyVars, HistoryInv
  <2> QED BY <2>1, <2>2, <2>3 DEF HistoryInv
<1>2. CASE Start
  BY <1>2, StartStep
<1>3. CASE Files
  BY <1>1, <1>3 DEF Files
<1>4. CASE Serve
  <2>1. repaired /\ repaired' /\ UNCHANGED <<pc, repaired>>
    BY <1>4 DEF Serve, Serving, HistoryInv, StartsEmpty, vars
  <2>2. HistoryTypeOK' /\ TasksInHand' /\ RepairedRows' /\ Promise /\ Closes
    BY <1>4, <2>1, HistoryStep DEF Serve, HistoryInv
  <2> QED BY <2>1, <2>2 DEF HistoryInv, StartsEmpty
<1>5. CASE Dies
  BY <1>5, DiesStep
<1>6. CASE UNCHANGED nodeVars
  BY <1>1, <1>6 DEF nodeVars, vars
<1> QED BY <1>2, <1>3, <1>4, <1>5, <1>6 DEF NodeNext

(* The history, the tasks in hand and the repair of a start fit together in *)
(* every life of the node: the invariant of the theorems below.             *)
THEOREM HistoryInvHolds == NodeSpec => []HistoryInv
BY HistoryInitInv, HistoryInvStep, PTL DEF NodeSpec

(* The history has its type, whatever the tasks, the threads that launch     *)
(* them and the operations on files.                                         *)
THEOREM HistoryTypeCorrect == NodeSpec => []HistoryTypeOK
<1>1. HistoryInv => HistoryTypeOK
  BY DEF HistoryInv
<1> QED BY <1>1, HistoryInvHolds, PTL

(* Once the node serves, no row is open that an earlier life left.           *)
THEOREM NoRowStaysOpen == NodeSpec => []NoRowLeftOpen
<1>1. HistoryInv => NoRowLeftOpen
  BY DEF HistoryInv, StartsEmpty, RepairedRows, NoRowLeftOpen, Serving
<1> QED BY <1>1, HistoryInvHolds, PTL

(* A task that ends has its row closed, unless its id was used again.        *)
THEOREM EndsCloseRows == NodeSpec => EndClosesRow
<1>1. HistoryInv /\ [NodeNext]_nodeVars =>
        [Running /\ current_history' = DefaultHistory /\ UNCHANGED here =>
           \/ current_history.id \in reused
           \/ ~Open(rows'[current_history.id])]_historyVars
  BY HistoryInvStep DEF Closes
<1> QED BY <1>1, HistoryInvHolds, PTL DEF NodeSpec, EndClosesRow

(* The history implements TaskHistory: a row is opened once, executed at     *)
(* most once and after it waited, and never changes after its end, through   *)
(* crashes and starts.                                                       *)
THEOREM HistoryIsKept == NodeSpec => KeepsHistory
<1>1. NodeInit => Promised!Init
  BY DEF NodeInit, HistoryInit, Promised!Init, stage, NoRow, NewRow, Id
<1>2. HistoryInv /\ [NodeNext]_nodeVars => [Promised!Next]_stage
  BY HistoryInvStep DEF Promise, Promised!Next
<1> QED BY <1>1, <1>2, HistoryInvHolds, PTL DEF NodeSpec, KeepsHistory, Promised!Spec

(* The life of the node is a life of its files: what UpgradeManagerProofs     *)
(* proves of the start holds while rows are opened and closed.                *)
THEOREM FilesLiveInNode == NodeSpec => Spec
<1>1. NodeInit => Init
  BY DEF NodeInit
<1>2. [NodeNext]_nodeVars => [Next]_vars
  BY DEF NodeNext, nodeVars, Start, Files, Serve, Dies, Next
<1> QED BY <1>1, <1>2, PTL DEF NodeSpec, Spec
=============================================================================
