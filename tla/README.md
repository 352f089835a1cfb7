# Formal model of the cleaning robot's application node

The program (`src/`, C++) is the ROS node that runs a cleaning robot: it takes
cleaning tasks from an app or a schedule, drives the robot out of its base
station, along the planned points and back, keeps the plans and the history of
tasks in files, and talks to apps over web sockets.  This directory holds TLA+
modules translated from that source, TLC configurations that check them on small
instances, and theorems that TLAPS checks for every value of the constants.

There are no tests of this logic in the repository (`catch_upload` tests the
upload only) and its README lists coding conventions only, so the code and its
comments are the reference.

## 1. The system

### Threads

| thread | started in | what it runs |
| --- | --- | --- |
| main | `rec_app_node.cpp` | repair and migrations at the start, then `ros::spinOnce`: status, station results, requests |
| dispatcher | `AsyncTaskCall` | `execute`: one event at a time |
| event loop | `TimerCall` | timers of the executor |
| actionlib | `PointPlanner` | results of navigation goals |
| schedule | `ScheduleThread` | cron table, launches tasks |
| mode | `SwitchModePublish` | delayed "sleep" message |
| asio | `WsServerManager` | connections and messages of the apps |
| request, data, topic threads | `WsServerManager` | one queue each, between asio and the topics |
| pool | `tool/ThreadPool.h` | long requests (full plan, images, uploads), three workers |

### Components

| component | state | operations | must hold | hard because |
| --- | --- | --- | --- | --- |
| task executor (`AsyncTaskCall`, `HeadTailPointCall`) | flow, status, running task and plan, waiting tasks, recorded points, retry counters, triggers, two deques | 1 handler per kind of event and status, 10 commands, 7 kinds of answer | tasks end, in step with the history; returns are final; stop and laser halt the robot; plan completed | five threads feed it; commands are checked when asked for and handled later; state is saved and restored around stops and pauses |
| timer loop (`EventLoop`, `Timer`) | queued functors, live timers | `scheduleLater`, `cancelAny`, `run` | a cancelled timer does not fire | cancelled from other threads, while it may still be queued |
| task launch (`TaskCenter`, `TaskDispatcher`) | none of its own | `executeTask` | one task at a time, one row per task | tests the flow that the dispatcher sets later; called by two threads |
| navigation client (`PointPlanner`, `PointRoutine`) | the goal | send, cancel, done | the answer belongs to the goal | answers of cancelled goals |
| station, mechanism (`StationManager`, `MechanismManager`) | last command, last report | enter, leave, open, close | docks with the mechanism up | a stale report suppresses a command |
| robot status (`ZooRobotStatusSubscribe`) | battery, stop switch, laser | callbacks | commands reach the executor | level and edge |
| clean history (`CleanHistoryCenter`) | rows, current copy | launch, start, setters, 5 ends, repair | rows open once, run once, end once; none left open | crashes; two launching threads; hand-written ends |
| schedule (`ScheduleThread`, `Cron`, `CronSchedule`) | timer file, table, last tick | requests, message, tick | each instant runs once, deleted timers go | table changed by two threads; clock jumps; message lost |
| upgrade (`UpgradeManager`) | files | 9 migrations, creation, removal of polygons | no data lost, the node starts | crash between two file operations |
| plans (`ViewPartManager`, `CombinationManager`, `FullCleanManager`) | list and file | add, edit, remove, look up, repair | edits are whole and on the disk; no part in use is deleted | two files; failed writes; two threads without a lock |
| web server (`WsServerManager`) | connections, subscriptions, last values, queues | open, close, fail, message, passes | a request is answered; the last status arrives | four threads; a failing handshake; queues that overflow |
| thread pool (`tool/ThreadPool.h`) | queue, workers | submit, run | no job is stranded | notified without the mutex of the condition |
| requests (`JsonSubscribe`, strategies) | none | route | - | - |
| work mode (`SwitchModePublish`) | delayed message | switch, cancel | a node that should work is not put to sleep | a late wake-up |
| maps, alignment, segmentation, exploration, point generation | images | geometry | - | out of reach of a model checker |

How they interact: a request comes in on the asio thread, goes through a queue to
the topic `/app_json` and from there to `JsonSubscribe` in the main loop, which
calls the manager or the executor's command (`manualBackToBase`, `manualPause`,
...); the answer goes back through a queue to every connection.  A command
tests its condition (only `forceBackToBase` under `cv_mut`) and queues a point or
sets a trigger; the model does both in one step, as what the handler finds later
differs from what was tested in any case.  The
dispatcher takes the newest queued event, handles it without the lock, and asks
for the next thing: a navigation goal, a timer (`TimerCall`), the station, the
mechanism, the work mode of the nodes.  Every answer comes back, on another
thread, as a point queued in `pointDeque`.  A task is launched by a request or by
the schedule thread: both look the plan up, open a row of the history, and hand
the task to the dispatcher, which alone starts, updates and ends rows.

`PROJECT.json` lists under `hazards` every place where this can go wrong in a
way a test would hardly reach.

## 2. Modules

| module | what it is |
| --- | --- |
| `TaskHistory` | abstract: what the history of tasks promises |
| `TaskPoints` | flows, statuses and points (`state_machine.h`, the constants of `async_task_call.h`) |
| `AsyncTaskCall` | the executor with its environment and properties; implements `TaskHistory` |
| `AsyncTaskCallProofs` | theorems about its types, its plan, the stop and the laser |
| `ExecutorHistoryProofs` | theorems about its tasks and their rows, and the manual mode |
| `ItineraryProofs` | theorems about the itinerary of a task, the plan of a paused one, and what a resume brings back |
| `MCAsyncTaskCall` | its instances: tasks and sets of outside events |
| `CleanHistory` | the history table, its current copy, launches and repair; implements `TaskHistory` |
| `UpgradeManager`, `UpgradeManagerProofs` | the files, migrations, crashes; theorems |
| `NodeLife`, `NodeLifeProofs` | composes the two: start, files, service, death; theorems |
| `MCNodeLife` | its instance |
| `Schedule`, `MCSchedule`, `ScheduleProofs` | timer file, message, thread, table, clock; theorems |
| `PlanFiles`, `MCPlanFiles`, `PlanFilesProofs` | parts and combinations: lists, files, requests, launches; theorems |
| `ThreadPool` | the pool |
| `MapEncoding` | the run-length encoding of the map, and what an app reads out of it |
| `WebServer`, `MCWebServer`, `WebServerProofs` | connections, queues, threads and passes; composed with `ThreadPool` and `MapEncoding`; theorems about it, the pool and the encoding |

*Mutants.*  Operators whose comment starts with "Mutant" are not used by any
specification.  Each stands before the definition it spoils and shows, in one
run, that a property is sensitive to the code.

### `AsyncTaskCall`

*State.*  `event_flow`, `event_status`, `pauseInterception`, `workTask`,
`waitTaskQueue`, `plannerQueue`, `taskDeque`, `pointDeque` and the triggers have
the names of the members.  `record` is `recordFlow`/`recordPoint`, `lock` the
three `urgencyStop...` members, `retries` the two retry counters, `arrive` the
flags `realError.arrive` of the special points, `armed` says that their
`task_id` is set.  `pc`, `job`, `jobTask`, `again` are the call stack of the
dispatcher: `again` is the second half of `callResume` in automatic state, whose
call of `handleAutoPoint` is followed by `processControl` of the resume point.
`timers` has the queued functors and the live timers of the event loop; `goal`
and `navResult` are the navigation server, `station` a pending request to the
station, `mechanism` and `motors` the hardware.  `history` is the state of each
task's row.  `tried` and `cut` are history variables that only properties read.

*Steps of the dispatcher.*  One action takes an event (`Take...`), one action runs
a handler (`handle...`), one runs `processControl` (`Control...`).  Between these
the other threads may act: that is as fine as the places where the code reads
shared state again (`handleStop` reads the switch when it runs, `execute` tests
stop and laser after it has taken the event).  Assignments inside one handler are
one step; the unlocked reads of `plannerQueue` in `executeOnNext` are not split.

*Bodies.*  `TriggerBack`, `callPause`, `callResume`, `goodGame`, `StopTask`, ... are the
member functions that several handlers call; an action is a body together with
the call stack and what is recorded.

*Orders.*  A command or a launch is one step: its tests, and the queueing of its point or
task.  In the code points may be generated between the two, so that the flow can have
changed when a task is queued; in the model it can only change afterwards, while the task waits.

*Undefined behaviour.*  The navigation timer compares with an id captured by
reference whose variable is gone: `NavTimer` lets the comparison go either way.
`front()` or `pop_front()` of an empty `plannerQueue` ends in `pc = "undefined"`,
after which nothing happens.

*Environment.*  A goal, a station request and a mechanism timer are answered at any
time later, with success or failure.  Without the event `slowThreads` the actionlib
thread calls back as soon as the goal ends and the loop turns functors into
timers as soon as they are queued; with it both are steps of their own.

### `CleanHistory`, `UpgradeManager`, `NodeLife`

*History.*  Every operation of `CleanHistoryCenter` holds `history_update_mutex_`, so
each is one action.  `rows` is the sqlite table and survives `Lost`;
`current_history` does not.  A launch is two steps of the launching thread
(`AddCleanHistory`, then `Dispatch` or `LaunchFailed`), as two threads launch and
ids made of the second can be equal: `reused` remembers them.  Setters that
differ only in their column are `Update`; the three with an inverted guard are
`SetMechanism`, which writes a row of the empty id when nothing runs.
`Initialize` is the repair at the start.

*Files.*  `content` says of each of the fourteen files which data it holds.  `pc` and
`m` follow main through the nine migrations in the order of `rec_app_node.cpp`; a
migration is read, create, save, remove, each of which may fail
(`Fails`) or be cut by a crash, inside a write too (`torn`).  Only `std::remove` is
taken to succeed.
`had` and `hurt` are history variables.

*Node.*  `NodeLife` orders the two (repair, files, service) and lets the process die
anywhere.

### `Schedule`

A rule is a period and a phase.  `NextDue`, the first instant of the rule, stands for the
search of `calculate_from` through months, days and hours, which is not modelled: nothing
is shown about what that search finds.  `EndFrom` is
`calculate_from_end` with what it really returns.  Apps are taken to give timers different
ids, which `TimerStrategy.cpp:63` does not check.  `AddTimer`, `UpdateTimer`,
`DeleteTimer` are the requests, `SubscribeCallback` the topic of the thread with its
queue of one, `AddSchedule` one turn of the loop that fills the table,
`Tick`/`Execute`/`Executed` the halves of `Cron::tick` around a launch, as the callback may
run between them.  The clock advances or jumps (`SetClock`).  `ran`, `stray` and
`disturbed` are history variables: the last two tell the timers and passes for
which the unlocked table gives no promise.

### `PlanFiles`

A handler is the sequence of manager operations it has still to do (`todo`), an
operation goes through `open`, `save`, `write`: `FileOpenRead` with its edit
(`ReadAndEdit`), the opening for writing that empties the file (`Truncate`), the write.
`Effect` is what an operation does to the list, `Accepts` when it does it,
`Refused` and `Succeeds` how the handler goes on.  Lists are sequences of entries
with an id and a name, and a combination has a sequence of ids of parts: the code
checks that names differ, and nothing else, so ids may be equal and a combination may
have a part twice or none.  Everything done by id is done to the `First` entry of
that id, and `Dropped` takes one occurrence of a part out of each combination.  A failed search means "unused",
the result of a repair is not looked at, every other failure ends the handler.
`text` is what is being written.  When both threads are inside one manager
nothing is defined: `Race` ends the behaviour.  The rest of an entry (polygons, rates,
work status, the main combination) is not told apart, so that `flag` and `get` leave the
list as it is.  `lost`, `missed`, `doubled` and `found` are history variables: the first
three are the exceptions of the properties, `found` is what there was when the operation
at hand began.

### `WebServer`, `ThreadPool`, `MapEncoding`

One action per callback of asio, per turn of each thread, per job.  `askMutex` is
held through a pass (`BeginPass` .. `EndTurn`), every other section under it is one
step.  `dataMap` keeps the last notice and the last status, which stand for its
ten topics.  The topic `/app_json` drops its oldest request when it is full;
such requests, and those of connections that a failed handshake unlisted, are in
`lost`.  In `ThreadPool` the queueing and the notification of `submit` are two steps and
a worker goes to sleep in two.  `Encode` is the loop of `setMapApp`, `Picture` what
happens to the cells before it, `Decode` what an app reads; the loops are recursive
functions, so that theorems can be stated about them.

## 3. Runs

### Executor

Bounds: `MaxPoints` limits how many events may wait in `pointDeque` (beyond it no
answer arrives: the dispatcher takes the newest and clears the rest, so 2 already
gives every order of a lost and a kept event); `MaxCommands` limits how many
commands are given in a behaviour; a timer of a kind is pending or not, so two pending
timers of one kind are one; `MaxBaseRetry` and `MaxRechargeRetry` are 5 in the
code (and in `automatic`), and 0 or 1 where a property is not about how often
something is tried; the plan has 1 to 3 points, enough for a first, a middle
and a last one.

| run | instance | properties |
| --- | --- | --- |
| `automatic` | 2 tasks, 3 points, 5 retries, slow threads, no commands, fair | `TypeOK`, `TaskPlacement`, `DocksMechanismUp`, `EmptyPlanNeverRead`, `PlanCompleted`, `ExecutingEnds` |
| `returns` | 2 tasks, 1 point, 2 commands out of back, low battery, equipment error, enter and quit manual cleaning | `ExecutingIsWorkTask`, `NoTaskNoPlan`, `AbandonedPlan`, `ManualModeAgrees`, `KeepsHistory` |
| `interruptions` | 1 task, 2 points, 4 commands out of pause, resume, emergency stop, push onto the charger, forced return, laser failure, with navigation timeouts | `StopHalts`, `PausedPlanKept`, `LaserHalts` |

`DocksMechanismUp`, `EmptyPlanNeverRead` and `PlanCompleted` hold without commands
only: what breaks them is described in section 5.  In the same way `ExecutingIsWorkTask`,
`ManualModeAgrees` and `PausedPlanKept` hold for the commands of their runs, not for
all: section 6 says for which they are proved, section 5 what breaks them otherwise.
`TaskPlacement`, `NoTaskNoPlan`, `AbandonedPlan`, `StopHalts`, `LaserHalts` and
`KeepsHistory` (the refinement of `TaskHistory`) hold whatever is ordered.

*Fairness* (`automatic`): weak fairness of the dispatcher thread as a whole, of each
kind of timer, of the navigation answers and of the station's answer.  The threads
are never blocked but in `callSwitchWorkMode`, whose wait ends with the sleep
timer; timers are polled at least every 100 ms; that navigation and station answer
every request is an assumption about other nodes, without which no task of the
program ends (there is no time limit on the station).  Nothing is assumed of
operators, of launches, or of the nodes waking up.

### The other components

| run | instance | properties |
| --- | --- | --- |
| `restart` | parts and combinations with their nine migrations and their references, 2 tasks launched by 2 threads, 1 save, 2 faults: crashes or one failing operation | `TypeOK`, `NothingLost`, `StartsAgain`, `ReferencesRemoved`, `NoRowLeftOpen`, `SavedStays`, `KeepsHistory`, `EndClosesRow` |
| `schedule` | 2 timers, 2 requests, 5 instants, 1 jump of the clock, fair | `TypeOK`, `NeverTwice`, `DeletedTimersGone`, `InstantsAreRun`, `NoneStaysOverdue`, `TableFollowsList` |
| `connections` | 2 connections of which 1 asks, 2 direct and 1 long request, 2 workers, a topic queue of 1, 3 further calls, fair; every map of up to 5 cells | `TypeOK`, `DirectAnswersInOrder`, `NoticeOnce`, `NoJobLeftBehind`, `MapShownRight`, `AskerIsAnswered`, `LastStatusSeen` |
| `plans` | 3 parts and 3 combinations an app may send (2 of one id each, with names to swap, a part twice), 3 starts (nothing, a sound plan, a plan with equal ids and a part that is gone), 3 requests, 1 launch, 1 failing operation, 1 restart | `TypeOK`, `RepairsOnlyDangling`, `EditsAreAtomic`, `DoneIsOnDisk`, `DeletedPartsUnused` |

*`restart`.*  The two families are the ones that refer to each other; the migrations
of the other three are the same code with another file name.  Two faults are
enough for one to hit the recovery from the other.  Task ids and launching threads are
interchangeable (`SYMMETRY`; no liveness is checked there).

*`schedule`.*  Durations are scaled: 5 s early, 10 s, 1 h and 3 h become 1, 2, 2 and 4 in their
order.  A period of 1 would be shorter than the margin the code looks ahead
(10 s against rules of whole minutes) and is not used.  Weak fairness of the thread, which polls
every 500 ms, and of the callback, which `spinOnce` serves; nothing of the requests
or the clock.

*`connections`.*  A queue of 1 overflows with two requests as the code's 3 does with four.  Each
thread of the node is weakly fair.  `Broadcast` is strongly fair: it needs `askMutex`,
which a pass holds and which is free between passes for about 2 s, again and
again.  Nothing is assumed of apps.  `AskerIsAnswered` promises an answer to every
request that was not dropped, to the app that is still listed.

*`plans`.*  One failure and one restart are enough to have each once in every place; three
requests, to add, delete and edit around them, or to add, rename and add an id again.  The
starts are what more requests lead to.  No fairness: the properties are about safety.
Requests and launches in a behaviour are bounded, so runs end (`CHECK_DEADLOCK FALSE`).

## 4. Disagreements between comments and code

Five runs show, by a counterexample, that the code does not do what a comment or a message
in it says (`findings` in `PROJECT.json` quotes both).  `wake_up` runs under the fairness of
`automatic`; `ExecutingEnds` shows there that the same wait ends when nothing interrupts the task.

| run | property | what happens |
| --- | --- | --- |
| `two_launches` | `OneTaskAtATime` | a second task is accepted before the dispatcher has taken the first, and one of the two is cleared |
| `stop_leaving` | `RunningIsNotWaiting` | stop pressed and released before the first answer: a running task in `waiting_for_task` |
| `wake_up` | `SleepWaitEnds` | the late answer of a return clears the timer that bounds the wait for the nodes to wake: the dispatcher is held while they sleep, whatever happens, the emergency stop included |
| `pause_after_last` | `PausedStandsStill` | the pause is handled after the last point, and the late answer drives the paused robot on |
| `schedule_end` | `OnlyEndedTimersAreHeld` | a timer whose end date is to come is held for ever: its computed end is one hour after the computation |

## 5. Other observations

Executor
- With a pause or navigation timeouts, `EmptyPlanNeverRead` and `PlanCompleted` fail:
  a timeout next to the answer for the last point pops an empty plan; a resume after
  a late answer replays the recorded point and skips the front of the plan.
- The emergency stop, pressed and released before the first answer, puts a running task
  into `waiting_for_task`: the next launch then starts a second task and the row of
  the first stays executing (`ExecutingIsWorkTask` fails).
- Three commands do the same without a stop: enter manual cleaning, quit it, and quit
  once more while the first order is handled, when the flow is still
  `manual_cleaning`.  The second `MANUAL_CLEAN_END` is pending when the next task has
  left the base, and sets its flow to `waiting_for_task`.  Two commands do not contain it,
  which is why `returns` does not show it.
- With eight commands and no stop `ManualModeAgrees` fails: enter manual cleaning, pause it
  (the flag stays on when it is quit), quit, enter, quit twice.  The second quit puts the
  next task, which runs, into `waiting_for_task`, and the late answer of its cancelled
  drive records that flow.  Enter again and order a resume while the entry is handled:
  it brings the recorded flow back, and `manualClean_` is on.  It takes a resume and a
  quit: section 6 proves the property without either of them.
- `callPause` does not ask whether there is a task (`async_task_call.cpp:1224`), and the release
  of a stop without one does not clear `pauseInterception` (`:165`).  A pause ordered
  just before its task fails therefore pauses nothing and leaves the flag on for the next
  task, which runs: a pause of it is refused as already paused, and `PausedPlanKept` fails
  (TLC, with two tasks, one pause and one stop).  Entering manual cleaning, pausing and quitting
  leaves the flag on as well; and with a stop between, a late second quit puts a paused task
  back into the automatic mode (TLC, with one task and two quits).
- Manual cleaning entered and a resume ordered while the entry is handled lead to
  `front()` of an empty plan: the resume replays the recorded step, the plan is gone.
- A task with an empty plan leads there too.  The schedule checks for an empty full
  path (`ScheduleThread.cpp:120`), the executor and the dispatcher do not.
- The emergency stop, released in manual cleaning, sets the flow to `waiting_for_task` and
  leaves `manualClean_` on (`async_task_call.cpp:170`): the mode can be neither left nor
  entered, and `ManualModeAgrees` fails.
- A late `OUT_STATION` answer after a return was triggered restarts the itinerary
  with an empty plan; the robot then docks with the mechanism down.
- The return of a mode command docks without taking the mechanism up, by intention
  (`ModeStrategy.cpp:21`).
- A low battery return is accepted while the robot retries a manually forced
  return: `manual_control_back_try_move_base_point` is missing from the flows listed
  at `async_task_call.cpp:917-929`.
- A task dropped because the stop was pressed after its launch stays `waiting` until
  the next start.
- `reset()` leaves the arrive flags of the forced returns set until the next task:
  another one is then refused as already under way.
- The wait for a full path (`TaskStrategy.cpp:110-114`, `ScheduleThread.cpp:114-119`) is on a
  shared condition without a predicate: a path meant for the other can end it.

History and files
- `complete()` of a row that already has an error code leaves it executing; the next start closes it.
- `setRechargeRetries`, `setCloseMechanism`, `setOpenMechanism` do nothing while a
  task runs, and write a row of the empty id when none does.
- A failed creation keeps the old file, whose next migration overwrites newer data; a
  failed save or open removes the old file all the same.  These are the
  exceptions named in `NothingLost` and `SavedStays`.
- A torn file ends the node at every start: the parse exception is not caught.
- A crash between the save of the parts and that of the combinations leaves
  references to parts that are gone; the next start does not repair them, the next look-up does.

Schedule
- A timer whose task, rate or end year alone is changed keeps its old closure in the
  table; `isExecute` and `isSkip` are not read.
- A message lost in the queue of one, or a callback between the reading of the list and the
  adding of its timers, leaves a deleted timer running (`stray`).
- Entries erased by the callback while one runs make `auto &t` another entry (`disturbed`).
- An exception of another kind than `app::exception` in `execTask` (a torn file of
  combinations) is caught outside the loop, which restarts at once: the timer is run again and again.
  `Schedule` takes a launch not to throw.
- A timer without a task launches mode 6 with an empty combination, and the
  dispatcher throws: it never cleans, against the comment in `ScheduleThread.cpp:76`.

Plans
- Every look-up rewrites its file.
- A failed write of an emptied file is filled again from memory by the next operation:
  an edit that was answered `save_failed`, or done by a write that failed unseen, comes into force then.
- A search that fails because of its file lets a part in use be deleted (`missed`).
- Deletion by force of a part no combination has is refused: the part stays.
- Only names are compared when something is added, and an update may change the name: a
  part or combination added, renamed and added again is there twice with one id.  Edits, look-ups
  and deletions then reach the first of the two.
- Deletion by force takes a part out of each combination once.  A combination that has it
  twice still refers to it after the part is gone (`doubled`).
- The schedule thread's repair may drop a reference to a part added after it copied the parts.

Web
- A handshake that fails clears the list of all connections: the apps stay connected and hear nothing more.
- A notice goes to the first subscriber of the pass only, and one that comes during the send is cleared unseen.
- Answers go to all apps: ids of requests must differ between apps.
- A map of one cell is sent without its run length; where no cell is free, or all
  cells are alike, wrong cells are shown as free.  Occupied cells are shown as unknown.

## 6. Proofs

All theorems hold for every value of the constants, under the assumptions the
modules name (numbers are naturals, markers such as `NoTask` are not members of the set they mark).

| theorem | invariant used | argument |
| --- | --- | --- |
| `TypeOKHolds` (executor) | `TypeInv` = `TypeOK` and `TaskInHand` | `TypeOK` alone is not inductive: `handleTask` appends `jobTask` to a queue of tasks, so a task must be at hand when `pc = "task"`.  One lemma per body, one per handler, one per thread |
| `NoTaskNoPlanHolds`, `AbandonedPlanHolds` | `PlanInv` | nearly every step shrinks the plan or leaves it (`ShrinksPlan`), which preserves both; only the pause, the drive to a plan point and the start of a task need their own argument |
| `StopHaltsHolds`, `LaserHaltsHolds` | `HaltInv` | it must be known that, once the stop or the laser has been handled, the dispatcher is not inside a point handler, and that inside one the trigger is still pending.  `LaserHalts` is an action property proved from the same invariant |
| `TaskPlacementHolds`, `ExecutorKeepsHistory` | `RowInv` = `RowsWait`, `HeldOnce`, `WorkTaskExecutes`, `HandEmpty` | a task on its way is in one place and its row waits; every handler leaves the tasks, ends the running one, or hands the next one back (`RowStep`), so rows only move on.  Whatever is ordered |
| `ManualModeAgreesHolds` | `OnlyOrdered`, `ModeInv` | a point of a command exists only where its event may happen; then each handler changes flow and mode together (`ModeStep`).  Without the emergency stop and without resume |
| `ResumedModeAgrees` | `OnlyOrdered`, `SeatInv`, `ResumeInv` | `callResume` brings back the recorded flow whatever the mode is by then, so what is recorded is never `manual_cleaning`, and `waiting_for_task` only together with a step of the itinerary that leaves it (`RecordLeaves`); a late answer for a plan point could record `waiting_for_task` for good, but only while no pause is on or on its way (`IdlePlan`).  Without the emergency stop and without quitting manual cleaning |
| `ExecutingIsWorkTaskHolds` | `OnlyOrdered`, `SeatInv`, `OneExecutes` | with a task at work the flow is `waiting_for_task` only between `StartTask` and the step that follows it, so no second task is started.  Without the emergency stop and without quitting manual cleaning; any number of commands |
| `DocksMechanismUpHolds`, `EmptyPlanNeverReadHolds`, `PlanCompletedHolds` | `ItineraryInv` = `Calm`, `PlanLeft`, `PlanTried`, `TimersOnce`, `OnePlace`, `RightPlace` | what the executor waits for is in one place only (a request, an answer, a point, the hand of the dispatcher: `OnePlace`), and the flow, the plan, the mechanism and the retries agree with it (`RightPlace`).  The plan is an end of the numbers of its points (`PlanLeft`), the others have been tried (`PlanTried`).  Under `Uninterrupted`: no commands, no navigation timeout, a plan that is not empty; any number of tasks, points and retries, with slow threads |
| `RunningTaskGoesOn` | `ItineraryInv`, `TaskGoesOn` | what the executor waits for is in one place at least, too: every handler that keeps the task asks for something or goes on, and every answer becomes a point.  This is the safety half of `ExecutingEnds`, for every instance: the task is never forgotten, and the dispatcher, which drops all points but the newest, never has two.  Under `Uninterrupted` |
| `PausedPlanKeptHolds` | `OnlyOrdered`, `PausedInv` | while a task is paused the mode is manual and `processControl` has nothing to do.  Without quitting manual cleaning, and for behaviours in which no task is started with the pause flag on |
| `PausedPlanKeptWithoutStop` | `OnlyOrdered`, `SeatInv`, `ResumeInv` | without the stop as well, a condition on the behaviour is not needed: while the flag is on the flow is not `waiting_for_task`, so no task is started (`PauseHolds`).  Any number of tasks and commands |
| `OneTaskPausedPlanKept` | the same and `FirstInv` | with one task the second condition holds: before the first start nothing can be paused, as a pause is only ordered when there is a plan.  It covers the run `interruptions`, for any number of commands |
| `UpgradeLosesNothing`, `UpgradeTypeCorrect` | `UInv` = `Places`, `OldHasData`, `NewHasData`, `TextHasData`, `NothingLost` | where the data of a family is follows from where main is: in the old file until the new one is saved, then in the new one, and in the text between; for every set of families and any number of crashes |
| `UpgradeStartsAgain`, `UpgradeRemovesReferences`, `UpgradeKeepsSaved` | `AbortInv` = `Known`, `Order`, `StartsAgain` | the order of the migrations as implications between files: an old file is gone only when its successor is there (`OldGone`), a torn file is one that is written again (`TornIsRedone`), the references go together with the polygons (`PolygonsTogether`) |
| `HistoryTypeCorrect`, `NoRowStaysOpen`, `EndsCloseRows` | `HistoryInv` = `HistoryTypeOK`, `TasksInHand`, `StartsEmpty`, `RepairedRows` | an open row of this life is in the hand of exactly one: a launching thread, the executor's queue, or the current copy; what a dead life left open is closed before the node serves |
| `HistoryIsKept`, `FilesLiveInNode` | the same | each step of the node maps to a step of `TaskHistory`, or of `UpgradeManager`, or leaves it; so the detailed history implements the abstract one through any number of crashes, and what is proved of the files holds in the node |
| `PlansTypeCorrect`, `PlanEditsAreAtomic`, `DonePlansOnDisk` | `IInv` = `TypeOK`, `OneInside`, `Edited`, `Writing` | one thread at a time is past the read of a manager; the list it saves is its operation applied to what there was (`found`), which is the file unless that is empty, and what it writes is the list.  So `Library` is the file, or the list where the file is empty (`LibraryIs`).  For lists with any ids, names and parts: `EffectTypes` rests on what the loops over them do (`FirstIs`, `RemoveAtIs`, `WithinTypes`) |
| `RepairsAreDue` | `IInv`, `CopyIsCurrent` | a handler that copies the parts edits none, and the schedule edits none: the copy of the main thread is what there is until the handler ends |
| `NoPartIsMissed` | `IInv`, `CopyIsCurrent`, `PartsFreed` | a removal is the second operation of its handler, after a search or a drop of the same part.  A drop leaves no reference to a part that no combination had twice (`DroppedIs`, `Freed`); between the two only the schedule is in the combinations, and it adds no reference.  An id is gone only by a removal (`GoneIsRemoved`) |
| `ScheduleTypeCorrect`, `NoTimerRunsTwice`, `NoInstantIsSkipped`, `DeletedTimersLeave` | `SInv` = `TableInv`, `DeletionInv`, `NothingYet` | the next instant of an entry is an instant of its rule, all earlier ones since its entry were run or excused, and none is both run and next; a deleted timer is in the table only while its message is on its way or its loss is recorded |
| `PoolLosesNoJob` | `PoolInv` = `PoolTypeOK`, `OneGoesToSleep`, `NoJobLeftBehind` | only one worker can be between its test and its wait, so a notification that falls there finds another; with at least two workers, and with spurious wake-ups |
| `ServerUsesPool`, `ServerLosesNoJob` | `PoolInv` | every step of the server is a step of the pool or leaves it |
| `ServerTypeCorrect`, `NoticesAreSentOnce` | `WInv` = `TypeOK`, `PoolInv`, `BusyWithJob`, `PassInv`, `NoticeInv`, `SentInv`, `InboxesInOrder`, `AskersOpened`, `NoneForgotten` | a notice that has been sent is no longer the value of its topic, in the middle of a pass either |
| `AnswersComeInOrder`, `AnswersComeOnce`, `NoRequestIsForgotten` | the same | the stages of the requests, from the queue to the inbox, are in order and without a repetition; a request is at one of them, or has been answered, or is recorded as lost |
| `RunsAreRead` | - | after each cell the loop has written pairs for the cells before the run it is in (`Written`), and a pair more is a run of cells more (`OneMorePair`, `RunAppended`).  For every sequence of numbers longer than one.  It is an induction over the cells; the library's principle takes an operator, so `SetInduction` states it for sets, from the well-foundedness of finite sets, and `FunctionByRecursion` shows that the recursive functions are what their equations say |
| `MapIsShownRight` | - | with `RunsAreRead`: in an unsigned byte free is the only 0, so where a cell is free the least pixels are the free cells, and spreading the values makes a 0 of no other (`FreeCellsShown`).  For every set of cell values in one signed byte (`CellsAssumption`) and maps of any size |

`ItineraryInv`, `PausedInv`, `FirstInv`, `ResumeInv` and the other strengthenings were checked
by TLC on small instances before they were proved.

Only model-checked: liveness (`ExecutingEnds`, `NoneStaysOverdue`, `TableFollowsList`,
`AskerIsAnswered`, `LastStatusSeen`), which is out of the prover's reach.  Every invariant
and every action property of the runs is proved.  The theorems with a condition say
less than "always": where the condition fails the property can fail too, as section 5
describes.  `ManualModeAgrees` is proved without resumes and without quitting, and fails
with both.

## 7. Not modelled, and the plan

Not modelled for good: image processing, geometry and point generation (data, not
control), JSON conversion, vendored code (two thirds of the lines of the
repository), the web socket client, which no configuration starts, the teach mode,
whose thread nothing starts, `TimelyPointCall` (never instantiated), the calendar of cron rules.
Inside the executor: the marks of visited points (`changeArrivalStatus`, display only, and
undefined as written), the texts and voice.  `resetWorkStatus` compares with a
report that the model takes to be up to date.

What is left of the plan, in this order:

1. `SwitchMode`: the delayed sleep message against new requests.
2. `TimerLoop`: the unguarded map of timers, cancelled by one thread while another walks it,
   and repeat counts.
