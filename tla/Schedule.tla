------------------------------- MODULE Schedule -------------------------------
(***************************************************************************)
(* The timers that start a task: the requests that edit the timer file     *)
(* (TimerStrategy), the thread that polls them (ScheduleThread) and its    *)
(* cron table (Cron, TaskQueue, TaskCron).                                 *)
(*                                                                         *)
(* The requests and the callback of the topic APP_SCHEDULE run on the main *)
(* thread; the table has a NullLock and both threads change it.            *)
(* What a timer launches is the executor's business (AsyncTaskCall): here  *)
(* it is run, for an instant at which it was due.                          *)
(***************************************************************************)
EXTENDS Integers, FiniteSets, Sequences

CONSTANTS
  Timer,        \* timer ids
  Info,         \* the timers the app may ask for: [id, rule, end]
  NoEnd,        \* IsNever
  Blank,        \* the text of a file nothing was written to
  NoMessage,
  Early,        \* 5 s:  a timer runs this long before it is due
  Margin,       \* 10 s: the next instant is looked for this long after a run
  EndSlack,     \* 1 h:  what calculate_from_end adds
  Correction,   \* 3 h:  a change of the clock that is a correction
  Horizon,      \* bound: the last instant
  MaxCorrections, MaxRequests   \* bounds on clock changes and on requests

ASSUME TimeAssumption ==
  /\ Early \in Nat /\ Margin \in Nat /\ Early < Margin
  /\ EndSlack \in Nat \ {0} /\ Correction \in Nat \ {0} /\ Horizon \in Nat
ASSUME InfoAssumption ==
  \A e \in Info :
    /\ e = [id |-> e.id, rule |-> e.rule, end |-> e.end]
    /\ e.id \in Timer
    /\ e.rule = [period |-> e.rule.period, at |-> e.rule.at]
    /\ e.rule.period \in Int /\ e.rule.at \in Nat
    /\ e.end # NoEnd => e.end \in Nat
ASSUME MarkerAssumption ==
  Blank \notin Seq(Info) /\ NoMessage \notin [method : {"add", "upd", "del"}, id : Timer]
ASSUME ScheduleBounds == MaxCorrections \in Nat /\ MaxRequests \in Nat

VARIABLES
  clock,
  file,         \* timer_info_json.txt: Blank or a list of timers
  message,      \* the queue of the subscriber, of length 1
  stimer_list,  \* the thread's copy of the file
  tasks,        \* the cron table
  pc, todo,     \* the schedule thread and the timers it has still to add
  last_tick, i, res,   \* members and locals of Cron::tick; its now is last_tick
  corrections, requests,    \* bounds
  ran,          \* history variable: the instant each table entry last ran for
  stray,        \* history variable: timers whose deletion missed the table
  disturbed     \* history variable: an entry was erased while another one ran

fileVars == <<file, message, requests>>
tickVars == <<last_tick, i, res>>
clockVars == <<clock, corrections>>
historyVars == <<ran, stray, disturbed>>
vars == <<clockVars, fileVars, stimer_list, tasks, pc, todo, tickVars, historyVars>>

-----------------------------------------------------------------------------
Time == 0 .. Horizon
Text == Seq(Info) \cup {Blank}

(* A rule that does not parse has a negative period; one that no date       *)
(* matches (30 February) has period 0.                                      *)
Valid(r) == r.period >= 0
Matches(r, t) == r.period > 0 /\ t % r.period = r.at
HasDue(r) == r.period > 0 /\ r.at < r.period

(* calculate_from: the first matching instant not before from. *)
NextDue(r, from) == from + ((r.at - from) % r.period)

(* calculate_from_end, whose result has little to do with the end date. *)
EndFrom(from, end) == IF end # NoEnd /\ clock > end THEN from ELSE from + EndSlack

(* TaskCron::calculate_next; it succeeds when the rule has an instant. *)
CalculateNext(e, from) ==
  [e EXCEPT !.next = NextDue(e.rule, from), !.next_end = EndFrom(from, e.end)]

(* Mutant: a timer runs only in the five seconds before it is due. *)
ExpiredInWindow(e, t) ==
  /\ e.next >= t /\ e.next <= t + Early
  /\ e.end = NoEnd \/ t < e.next_end

(* TaskCron::is_expired and time_until_expiry; last_run is never after t:    *)
(* calculate_next sets it to next - 10 s and follows every run.              *)
Expired(e, t) ==
  /\ e.next <= t + Early
  /\ e.end = NoEnd \/ t < e.next_end

Abs(n) == IF n < 0 THEN -n ELSE n
RangeOf(q) == {q[j] : j \in DOMAIN q}
Names(q) == {q[j].id : j \in DOMAIN q}

(* find_if and erase. *)
Erased(q, k) == [j \in 1 .. Len(q) - 1 |-> q[IF j < k THEN j ELSE j + 1]]
Without(q, id) ==
  IF id \in Names(q) THEN Erased(q, CHOOSE k \in DOMAIN q : q[k].id = id) ELSE q

(* std::sort by the next instant, which may order equal ones either way. *)
Sorted(q, s) ==
  \E p \in {f \in [DOMAIN q -> DOMAIN q] : \A j, k \in DOMAIN q : f[j] = f[k] => j = k} :
    /\ s = [j \in DOMAIN q |-> q[p[j]]]
    /\ \A j, k \in DOMAIN q : j < k => s[j].next <= s[k].next

-----------------------------------------------------------------------------
Entry == [id : Timer, rule : {e.rule : e \in Info}, end : {e.end : e \in Info},
          next : Int, next_end : Int]
Message == [method : {"add", "upd", "del"}, id : Timer] \cup {NoMessage}

(* And the table has one entry per timer. *)
TypeOK ==
  /\ clock \in Time
  /\ file \in Text /\ stimer_list \in Text
  /\ message \in Message
  /\ tasks \in Seq(Entry)
  /\ \A j, k \in DOMAIN tasks : tasks[j].id = tasks[k].id => j = k
  /\ pc \in {"start", "read", "add", "tick", "check", "executing"}
  /\ todo \in Seq(Info)
  /\ last_tick \in Time \cup {-1}
  /\ i \in Nat \ {0} /\ res \in BOOLEAN
  /\ corrections \in 0 .. MaxCorrections /\ requests \in 0 .. MaxRequests
  /\ ran \in [Timer -> Int]
  /\ stray \in SUBSET Timer /\ disturbed \in BOOLEAN

Init ==
  /\ clock = 0 /\ corrections = 0 /\ requests = 0
  /\ file = Blank \/ \E e \in Info : file = <<e>>
  /\ stimer_list = Blank /\ message = NoMessage
  /\ tasks = <<>> /\ pc = "start" /\ todo = <<>>
  /\ last_tick = -1 /\ i = 1 /\ res = FALSE
  /\ ran = [t \in Timer |-> -1]
  /\ stray = {} /\ disturbed = FALSE

-----------------------------------------------------------------------------
(* The clock: time passes, or somebody sets it. *)
Passes ==
  /\ clock < Horizon /\ clock' = clock + 1
  /\ UNCHANGED <<corrections, fileVars, stimer_list, tasks, pc, todo, tickVars, historyVars>>

SetClock ==
  /\ corrections < MaxCorrections /\ corrections' = corrections + 1
  /\ \E t \in Time \ {clock, clock + 1} : clock' = t
  /\ UNCHANGED <<fileVars, stimer_list, tasks, pc, todo, tickVars, historyVars>>

-----------------------------------------------------------------------------
(* Requests on the main thread.  Publishing replaces a message that still    *)
(* waits for spinOnce.                                                       *)
Publish(method, id) ==
  /\ message' = [method |-> method, id |-> id]
  /\ stray' = IF message # NoMessage /\ message.method = "del"
              THEN stray \cup {message.id} ELSE stray

Request ==
  /\ requests < MaxRequests /\ requests' = requests + 1
  /\ UNCHANGED <<clockVars, stimer_list, tasks, pc, todo, tickVars, ran, disturbed>>

Listed == IF file = Blank THEN <<>> ELSE file

(* The app gives every timer an id of its own. *)
AddTimer ==
  /\ Request
  /\ \E e \in Info :
       /\ e.id \notin Names(Listed)
       /\ file' = Append(Listed, e)
       /\ Publish("add", e.id)

UpdateTimer ==
  /\ Request
  /\ file # Blank
  /\ \E e \in Info :
       /\ file' = [j \in DOMAIN file |-> IF file[j].id = e.id THEN e ELSE file[j]]
       /\ Publish("upd", e.id)

DeleteTimer ==
  /\ Request
  /\ file # Blank
  /\ \E id \in Timer : file' = Without(file, id) /\ Publish("del", id)

(* saveTextTo has truncated the file when the write fails: the handler throws. *)
SaveFails ==
  /\ Request
  /\ file' = Blank /\ UNCHANGED message
  /\ stray' = stray \cup Names(Listed)

(* Mutant: the callback copies the file and leaves the table alone. *)
SubscribeCallbackListOnly ==
  /\ message # NoMessage /\ message' = NoMessage
  /\ stimer_list' = file
  /\ UNCHANGED <<tasks, stray, disturbed>>
  /\ UNCHANGED <<clockVars, file, requests, pc, todo, tickVars, ran>>

(* subscribeCallback: copies the file; only a deletion touches the table,    *)
(* also while the thread is inside it.                                       *)
SubscribeCallback ==
  /\ message # NoMessage /\ message' = NoMessage
  /\ stimer_list' = file
  /\ IF message.method = "del"
     THEN /\ tasks' = Without(tasks, message.id)
          /\ stray' = IF message.id \in Names(todo)
                      THEN stray \cup {message.id} ELSE stray \ {message.id}
          /\ disturbed' = (disturbed \/ (/\ pc = "executing"
                                        /\ \E j \in DOMAIN tasks : j <= i /\ tasks[j].id = message.id))
     ELSE UNCHANGED <<tasks, stray, disturbed>>
  /\ UNCHANGED <<clockVars, file, requests, pc, todo, tickVars, ran>>

-----------------------------------------------------------------------------
(* The schedule thread. *)
StartScheduleCheck ==
  /\ pc = "start" /\ pc' = "read"
  /\ stimer_list' = file
  /\ UNCHANGED <<clockVars, fileVars, tasks, todo, tickVars, historyVars>>

(* The head of the loop, after its sleep; while the text is empty there is no *)
(* tick.                                                                      *)
ReadList ==
  /\ pc = "read" /\ stimer_list # Blank
  /\ pc' = "add" /\ todo' = stimer_list
  /\ UNCHANGED <<clockVars, fileVars, stimer_list, tasks, tickVars, historyVars>>

NewEntry(e) ==
  CalculateNext([id |-> e.id, rule |-> e.rule, end |-> e.end, next |-> 0, next_end |-> 0], clock)

(* Mutant: only the rule is compared, not the end date. *)
KeptWithOtherEnd(e) == \E j \in DOMAIN tasks : tasks[j].id = e.id /\ tasks[j].rule = e.rule

(* The comparison of name, rule and end rule with every entry. *)
Kept(e) == \E j \in DOMAIN tasks : tasks[j].id = e.id /\ tasks[j].rule = e.rule /\ tasks[j].end = e.end

(* Mutant: the old entry of the timer is not removed. *)
Added(e) == Append(tasks, NewEntry(e))

Replaced(e) == Append(Without(tasks, e.id), NewEntry(e))

(* Cron::add_schedule.  What else a timer says (task, rate, end year) is not *)
(* compared, and the old entry keeps it.                                     *)
AddSchedule ==
  /\ pc = "add" /\ todo # <<>>
  /\ LET e == Head(todo) IN
       IF ~Valid(e.rule) \/ Kept(e)
       THEN UNCHANGED <<tasks, ran>>
       ELSE /\ ran' = [ran EXCEPT ![e.id] = -1]
            /\ IF HasDue(e.rule)
               THEN Sorted(Replaced(e), tasks')
               ELSE tasks' = Without(tasks, e.id)
  /\ todo' = Tail(todo)
  /\ UNCHANGED <<clockVars, fileVars, stimer_list, pc, tickVars, stray, disturbed>>

(* Mutant: every change of the clock recalculates. *)
CorrectedAlways(t) == last_tick # -1 /\ t # last_tick

(* A change of three hours or more. *)
Corrected(t) == last_tick # -1 /\ (t - last_tick >= Correction \/ last_tick - t >= Correction)

(* Cron::tick up to its loop. *)
Tick ==
  /\ pc = "add" /\ todo = <<>> /\ pc' = "check"
  /\ last_tick' = clock /\ i' = 1 /\ res' = FALSE
  /\ IF Corrected(clock)
     THEN /\ tasks' = [j \in DOMAIN tasks |-> CalculateNext(tasks[j], clock)]
          /\ ran' = [t \in Timer |-> -1]
     ELSE UNCHANGED <<tasks, ran>>
  /\ UNCHANGED <<clockVars, fileVars, stimer_list, todo, stray, disturbed>>

(* One pass over the entries that are not due is one step. *)
DueFrom(j) == {k \in DOMAIN tasks : k >= j /\ Expired(tasks[k], last_tick)}

(* execute: execTask may wait 7 s for the full path. *)
Execute ==
  /\ pc = "check"
  /\ \E k \in DueFrom(i) :
       /\ \A l \in DueFrom(i) : k <= l
       /\ i' = k
       /\ ran' = [ran EXCEPT ![tasks[k].id] = tasks[k].next]
  /\ pc' = "executing"
  /\ UNCHANGED <<clockVars, fileVars, stimer_list, tasks, todo, last_tick, res, stray, disturbed>>

(* Mutant: the next instant is looked for from the time of the run. *)
ExecutedWithoutMargin ==
  /\ pc = "executing" /\ pc' = "check"
  /\ tasks' = [j \in DOMAIN tasks |-> IF j = i THEN CalculateNext(tasks[j], last_tick) ELSE tasks[j]]
  /\ i' = i + 1 /\ res' = TRUE
  /\ UNCHANGED <<clockVars, fileVars, stimer_list, todo, last_tick, historyVars>>

(* auto &t = tasks.at(i) is used again after the run: by then it may be      *)
(* another entry, or none.                                                   *)
Executed ==
  /\ pc = "executing" /\ pc' = "check"
  /\ tasks' = [j \in DOMAIN tasks |->
                 IF j = i THEN CalculateNext(tasks[j], last_tick + Margin) ELSE tasks[j]]
  /\ i' = i + 1 /\ res' = TRUE
  /\ UNCHANGED <<clockVars, fileVars, stimer_list, todo, last_tick, historyVars>>

TickEnds ==
  /\ pc = "check" /\ DueFrom(i) = {} /\ pc' = "read"
  /\ IF res THEN Sorted(tasks, tasks') ELSE UNCHANGED tasks
  /\ i' = 1 /\ res' = FALSE
  /\ UNCHANGED <<clockVars, fileVars, stimer_list, todo, last_tick, historyVars>>

Loop ==
  \/ StartScheduleCheck \/ ReadList \/ AddSchedule \/ Tick
  \/ Execute \/ Executed \/ TickEnds

Main == AddTimer \/ UpdateTimer \/ DeleteTimer \/ SaveFails \/ SubscribeCallback

Next == Passes \/ SetClock \/ Main \/ Loop

Spec == Init /\ [][Next]_vars

(* The thread polls for ever and the main thread spins at 5 Hz. *)
FairSpec == Spec /\ WF_vars(Loop) /\ WF_vars(SubscribeCallback)

-----------------------------------------------------------------------------
(* A timer never runs twice for one instant, although it runs up to five      *)
(* seconds early, the clock may be set back by less than three hours and the  *)
(* table is edited meanwhile: what the table waits for is later than what it  *)
(* has run for.  Cron.h: "prevents running tasks twice".  (Not when an entry  *)
(* before the running one is erased: the reference then denotes another one.) *)
NeverTwice ==
  ~disturbed =>
    \A j \in DOMAIN tasks :
      (pc = "executing" /\ j = i) \/ tasks[j].next > ran[tasks[j].id]

(* The table never skips an instant: what an entry waits for changes only     *)
(* after it has run, or when the clock was corrected by three hours or more.  *)
(* A clock that jumps by less, or a late poll, loses nothing.                 *)
InstantsAreRun ==
  [][~disturbed =>
       \A j \in DOMAIN tasks, k \in DOMAIN tasks' :
         /\ tasks[j].id = tasks'[k].id
         /\ tasks[j].rule = tasks'[k].rule /\ tasks[j].end = tasks'[k].end
         /\ tasks[j].next # tasks'[k].next
         => \/ ran[tasks[j].id] = tasks[j].next
            \/ Abs(clock - last_tick) >= Correction]_vars

(* Every due timer without an end date is run in the end, however late the    *)
(* thread polls, as long as its text is not empty.                            *)
Overdue(t) ==
  /\ stimer_list # Blank
  /\ \E j \in DOMAIN tasks : tasks[j].id = t /\ tasks[j].end = NoEnd /\ tasks[j].next <= clock

NoneStaysOverdue == \A t \in Timer : []<>~Overdue(t)

(* A timer that was deleted is out of the table, except when its message was  *)
(* overtaken or its file lost, or when the thread had yet to add it from the  *)
(* copy it was working on: then it goes on running.                           *)
DeletedTimersGone ==
  \A j \in DOMAIN tasks : tasks[j].id \in Names(todo) \cup stray
                                          \cup Names(IF stimer_list = Blank THEN <<>> ELSE stimer_list)

(* Once requests cease the table has every timer of the thread's list, with   *)
(* the rule and the end date that were written last.                          *)
TableFollowsList ==
  <>[](stimer_list # Blank =>
         \A e \in RangeOf(stimer_list) : Valid(e.rule) /\ HasDue(e.rule) =>
           \E j \in DOMAIN tasks : tasks[j].id = e.id /\ tasks[j].rule = e.rule /\ tasks[j].end = e.end)

(* TaskCron.cpp calls the branch of time_until_expiry that keeps a timer from *)
(* running "past the end date" (in Chinese).                                  *)
OnlyEndedTimersAreHeld ==
  pc = "check" =>
    \A j \in DOMAIN tasks :
      tasks[j].end # NoEnd /\ last_tick >= tasks[j].next_end => last_tick >= tasks[j].end
=============================================================================
