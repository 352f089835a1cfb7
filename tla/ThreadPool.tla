------------------------------ MODULE ThreadPool ------------------------------
(***************************************************************************)
(* The pool of include/tool/ThreadPool.h.  A worker tests the queue and    *)
(* goes to sleep under m_conditional_mutex, but submit takes only the lock *)
(* of the queue itself: a job may be queued, and its notification given,   *)
(* between the test of a worker and its wait.                              *)
(*                                                                         *)
(* A worker is                                                             *)
(*   "test"     at the head of its loop, without the mutex                 *)
(*   "towait"   holding the mutex: it found the queue empty                *)
(*   "waiting"  in m_conditional_lock.wait                                 *)
(*   "woken"    notified, and about to take the mutex and a job            *)
(*   "running"  in a job                                                   *)
(* m_shutdown is never set: nothing calls shutdown.                        *)
(***************************************************************************)
EXTENDS Sequences, FiniteSets

CONSTANTS Workers,     \* the threads of the pool: three in rec_app_node.cpp
          Jobs,        \* what can be submitted
          NoJob

ASSUME WorkersAssumption == \E v, w \in Workers : v # w
ASSUME JobsAssumption == NoJob \notin Jobs

VARIABLES poolQueue,   \* m_queue
          worker,      \* where each worker is
          job,         \* the func of each worker that runs
          notifying    \* submit has queued its job and not yet notified

poolVars == <<poolQueue, worker, job, notifying>>

PoolTypeOK ==
  /\ poolQueue \in Seq(Jobs)
  /\ worker \in [Workers -> {"test", "towait", "waiting", "woken", "running"}]
  /\ job \in [Workers -> Jobs \cup {NoJob}]
  /\ notifying \in BOOLEAN

PoolInit ==
  /\ poolQueue = <<>>
  /\ worker = [w \in Workers |-> "test"]
  /\ job = [w \in Workers |-> NoJob]
  /\ notifying = FALSE

(* m_conditional_mutex is held by a worker that goes to sleep; every other   *)
(* section under it is one step here, as only workers take jobs.             *)
MutexFree == \A w \in Workers : worker[w] # "towait"

(* The two halves of submit, which no lock holds together. *)
Enqueue(j) ==
  /\ ~notifying
  /\ poolQueue' = Append(poolQueue, j)
  /\ notifying' = TRUE
  /\ UNCHANGED <<worker, job>>

(* Mutant: submit does not notify. *)
NotifyNobody == notifying /\ notifying' = FALSE /\ UNCHANGED <<poolQueue, worker, job>>

Notify ==
  /\ notifying
  /\ notifying' = FALSE
  /\ IF \E w \in Workers : worker[w] = "waiting"
     THEN \E w \in Workers :
            worker[w] = "waiting" /\ worker' = [worker EXCEPT ![w] = "woken"]
     ELSE UNCHANGED worker
  /\ UNCHANGED <<poolQueue, job>>

Dequeue(w) ==
  /\ poolQueue # <<>>
  /\ poolQueue' = Tail(poolQueue)
  /\ worker' = [worker EXCEPT ![w] = "running"]
  /\ job' = [job EXCEPT ![w] = Head(poolQueue)]
  /\ UNCHANGED notifying

Moves(w, place) ==
  /\ worker' = [worker EXCEPT ![w] = place]
  /\ UNCHANGED <<poolQueue, job, notifying>>

(* Mutant: a worker waits for a notification without a look at the queue. *)
TestNothing(w) == worker[w] = "test" /\ MutexFree /\ Moves(w, "towait")

Test(w) ==
  /\ worker[w] = "test" /\ MutexFree
  /\ Dequeue(w) \/ (poolQueue = <<>> /\ Moves(w, "towait"))

Wait(w) == worker[w] = "towait" /\ Moves(w, "waiting")

(* A condition variable may also wake a thread that nobody notified. *)
Spurious(w) == worker[w] = "waiting" /\ Moves(w, "woken")

Wake(w) ==
  /\ worker[w] = "woken" /\ MutexFree
  /\ Dequeue(w) \/ (poolQueue = <<>> /\ Moves(w, "test"))

Finish(w) ==
  /\ worker[w] = "running"
  /\ worker' = [worker EXCEPT ![w] = "test"]
  /\ job' = [job EXCEPT ![w] = NoJob]
  /\ UNCHANGED <<poolQueue, notifying>>

PoolNext ==
  \/ \E j \in Jobs : Enqueue(j)
  \/ Notify
  \/ \E w \in Workers : Test(w) \/ Wait(w) \/ Spurious(w) \/ Wake(w) \/ Finish(w)

PoolSpec == PoolInit /\ [][PoolNext]_poolVars

-----------------------------------------------------------------------------
(* The notification that submit gives without the mutex may find nobody      *)
(* asleep and be lost.  Yet no job is left behind: while one is queued and   *)
(* its notification given, some worker is still to look at the queue.        *)
NoJobLeftBehind ==
  poolQueue # <<>> /\ ~notifying =>
    \E w \in Workers : worker[w] \in {"test", "woken", "running"}

(* Two workers never go to sleep at once: the mutex keeps them apart. *)
OneGoesToSleep ==
  \A v, w \in Workers : worker[v] = "towait" /\ worker[w] = "towait" => v = w
=============================================================================
