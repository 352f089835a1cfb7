---------------------------- MODULE WebServerProofs ----------------------------
(***************************************************************************)
(* What the way of a request through the node keeps, for any number of     *)
(* connections, requests and workers and any length of the topic's queue:  *)
(* the order of the direct answers, each notice once, and no request       *)
(* forgotten; and what an app reads out of a map of any size.  First the   *)
(* pool of the workers by itself, then the server, then the map.           *)
(***************************************************************************)
EXTENDS WebServer, FiniteSetTheorems, SequenceTheorems, TLAPS

(* The pool by itself: it never leaves a job behind, whatever the number of *)
(* its workers, so long as there are two.                                   *)
PoolInv == PoolTypeOK /\ OneGoesToSleep /\ NoJobLeftBehind

LEMMA PoolInitInv == PoolInit => PoolInv
<1> SUFFICES ASSUME PoolInit PROVE PoolInv
  OBVIOUS
<1>1. PoolTypeOK
  <2>1. poolQueue \in Seq(Jobs)
    BY DEF PoolInit
  <2>2. worker \in [Workers -> {"test", "towait", "waiting", "woken", "running"}]
    BY DEF PoolInit
  <2>3. job \in [Workers -> Jobs \cup {NoJob}] /\ notifying \in BOOLEAN
    BY DEF PoolInit
  <2> QED BY <2>1, <2>2, <2>3 DEF PoolTypeOK
<1>2. OneGoesToSleep
  BY DEF PoolInit, OneGoesToSleep
<1>3. NoJobLeftBehind
  BY DEF PoolInit, NoJobLeftBehind
<1> QED BY <1>1, <1>2, <1>3 DEF PoolInv

LEMMA PoolStepInv == PoolInv /\ [PoolNext]_poolVars => PoolInv'
<1> SUFFICES ASSUME PoolInv, [PoolNext]_poolVars
             PROVE  PoolInv'
  OBVIOUS
<1> USE DEF PoolInv
<1>1. ASSUME NEW w \in Workers, Dequeue(w), worker[w] \in {"test", "woken"}
      PROVE  PoolInv'
  <2>1. worker'[w] = "running" /\ \A v \in Workers \ {w} : worker'[v] = worker[v]
    BY <1>1 DEF Dequeue, PoolTypeOK
  <2>2. PoolTypeOK'
    BY <1>1 DEF Dequeue, PoolTypeOK
  <2>3. OneGoesToSleep'
    BY <2>1 DEF OneGoesToSleep
  <2>4. NoJobLeftBehind'
    BY <2>1 DEF NoJobLeftBehind
  <2> QED BY <2>2, <2>3, <2>4
<1>2. ASSUME NEW w \in Workers, poolQueue = <<>>, Moves(w, "test")
      PROVE  PoolInv'
  BY <1>2 DEF Moves, PoolTypeOK, OneGoesToSleep, NoJobLeftBehind
<1>3. CASE UNCHANGED poolVars
  BY <1>3 DEF poolVars, PoolTypeOK, OneGoesToSleep, NoJobLeftBehind
<1>4. ASSUME NEW j \in Jobs, Enqueue(j)
      PROVE  PoolInv'
  BY <1>4 DEF Enqueue, PoolTypeOK, OneGoesToSleep, NoJobLeftBehind
<1>5. CASE Notify
  <2>1. CASE \E w \in Workers : worker[w] = "waiting"
    <3>1. PICK w \in Workers : worker' = [worker EXCEPT ![w] = "woken"]
      BY <1>5, <2>1 DEF Notify
    <3>2. worker'[w] = "woken" /\ \A v \in Workers \ {w} : worker'[v] = worker[v]
      BY <3>1 DEF PoolTypeOK
    <3>3. PoolTypeOK'
      BY <1>5, <3>1 DEF Notify, PoolTypeOK
    <3> QED BY <3>2, <3>3 DEF OneGoesToSleep, NoJobLeftBehind
  (* Nobody sleeps, so the notification is lost; but of two workers one at   *)
  (* most is about to sleep.                                                 *)
  <2>2. CASE ~ \E w \in Workers : worker[w] = "waiting"
    <3>1. UNCHANGED <<worker, poolQueue, job>> /\ notifying' = FALSE
      BY <1>5, <2>2 DEF Notify
    <3>2. PICK v, w \in Workers : v # w
      BY WorkersAssumption
    <3>3. worker[v] # "towait" \/ worker[w] # "towait"
      BY <3>2 DEF OneGoesToSleep
    <3>4. \E u \in Workers : worker[u] \in {"test", "woken", "running"}
      BY <2>2, <3>2, <3>3 DEF PoolTypeOK
    <3> QED BY <3>1, <3>4 DEF PoolTypeOK, OneGoesToSleep, NoJobLeftBehind
  <2> QED BY <2>1, <2>2
<1>6. ASSUME NEW w \in Workers, Test(w)
      PROVE  PoolInv'
  <2>1. CASE Dequeue(w)
    BY <1>1, <1>6, <2>1 DEF Test
  <2>2. CASE poolQueue = <<>> /\ Moves(w, "towait")
    BY <1>6, <2>2
    DEF Test, Moves, MutexFree, PoolTypeOK, OneGoesToSleep, NoJobLeftBehind
  <2> QED BY <1>6, <2>1, <2>2 DEF Test
<1>7. ASSUME NEW w \in Workers, Wait(w)
      PROVE  PoolInv'
  <2>1. worker[w] = "towait" /\ worker'[w] = "waiting"
        /\ \A v \in Workers \ {w} : worker'[v] = worker[v]
    BY <1>7 DEF Wait, Moves, PoolTypeOK
  <2>2. UNCHANGED <<poolQueue, job, notifying>> /\ PoolTypeOK'
    BY <1>7 DEF Wait, Moves, PoolTypeOK
  <2>3. OneGoesToSleep'
    BY <2>1 DEF OneGoesToSleep
  <2>4. NoJobLeftBehind'
    BY <2>1, <2>2 DEF NoJobLeftBehind
  <2> QED BY <2>2, <2>3, <2>4
<1>8. ASSUME NEW w \in Workers, Spurious(w)
      PROVE  PoolInv'
  <2>1. worker[w] = "waiting" /\ worker'[w] = "woken"
        /\ \A v \in Workers \ {w} : worker'[v] = worker[v]
    BY <1>8 DEF Spurious, Moves, PoolTypeOK
  <2>2. UNCHANGED <<poolQueue, job, notifying>> /\ PoolTypeOK'
    BY <1>8 DEF Spurious, Moves, PoolTypeOK
  <2> QED BY <2>1, <2>2 DEF OneGoesToSleep, NoJobLeftBehind
<1>9. ASSUME NEW w \in Workers, Wake(w)
      PROVE  PoolInv'
  BY <1>1, <1>2, <1>9 DEF Wake
<1>10. ASSUME NEW w \in Workers, Finish(w)
       PROVE  PoolInv'
  <2>1. worker[w] = "running" /\ worker'[w] = "test"
        /\ \A v \in Workers \ {w} : worker'[v] = worker[v]
    BY <1>10 DEF Finish, PoolTypeOK
  <2>2. UNCHANGED <<poolQueue, notifying>> /\ PoolTypeOK'
    BY <1>10 DEF Finish, PoolTypeOK
  <2> QED BY <2>1, <2>2 DEF OneGoesToSleep, NoJobLeftBehind
<1> QED BY <1>3, <1>4, <1>5, <1>6, <1>7, <1>8, <1>9, <1>10 DEF PoolNext

(* A queued job is never left to sleeping workers: the lost notification of  *)
(* ThreadPool::submit delays a job at most until a busy worker is done.      *)
THEOREM PoolLosesNoJob == PoolSpec => []NoJobLeftBehind
<1>1. PoolInv => NoJobLeftBehind
  BY DEF PoolInv
<1> QED BY <1>1, PoolInitInv, PoolStepInv, PTL DEF PoolSpec

-----------------------------------------------------------------------------
(* The server. *)

(* The members of a queue that JsonSubscribe answers itself. *)
Directs(q) == ToSet(q) \cap Direct

(* In the order o: r is before s, q has its direct requests in this order,   *)
(* those of p are before those of q.                                         *)
Precedes(o, r, s) == \E k, l \in DOMAIN o : k < l /\ o[k] = r /\ o[l] = s
InOrder(o, q) ==
  \A i, j \in DOMAIN q : i < j /\ {q[i], q[j]} \subseteq Direct => Precedes(o, q[i], q[j])
Ahead(o, p, q) == \A r \in Directs(p), s \in Directs(q) : Precedes(o, r, s)

(* Four queues, one behind the other, hold the direct requests in the order  *)
(* o: what has gone further was sent before.                                 *)
Chain(o, a, b, c, d) ==
  /\ InOrder(o, a) /\ InOrder(o, b) /\ InOrder(o, c) /\ InOrder(o, d)
  /\ Ahead(o, a, b) /\ Ahead(o, a, c) /\ Ahead(o, a, d)
  /\ Ahead(o, b, c) /\ Ahead(o, b, d) /\ Ahead(o, c, d)

(* askMutex is free when no connection is left to serve, and only then a     *)
(* connection leaves the list.                                               *)
PassInv ==
  /\ turn[2] = "rest" => left = {}
  /\ turn[2] = "clear" => turn[1] \in left

(* A notice in dataMap that is still to be sent is later than all sent ones; *)
(* while it is sent nothing is known of it, as it is cleared whatever it is. *)
NoticeInv ==
  /\ NoticeOnce
  /\ turn[2] # "clear" /\ dataMap.notice # 0 =>
       \A j \in DOMAIN notices : notices[j] < dataMap.notice

(* Every request is sent once, and what the queues hold was sent. *)
SentInv ==
  /\ \A r \in ToSet(sent) : asker[r] \in Clients
  /\ \A j, k \in DOMAIN sent : sent[j] = sent[k] => j = k
  /\ Directs(transformQueue) \cup Directs(appJson) \cup Directs(serverCollection)
       \subseteq ToSet(sent)
  /\ \A c \in Clients : Directs(inbox[c]) \subseteq ToSet(sent)

InboxesInOrder ==
  \A c \in Clients : Chain(sent, inbox[c], serverCollection, appJson, transformQueue)

(* A request whose sender is still listed is in one of the queues, with a    *)
(* worker of the pool, answered, or dropped by the topic.                    *)
UnderWay ==
  ToSet(transformQueue) \cup ToSet(appJson) \cup ToSet(poolQueue)
    \cup {job[w] : w \in {v \in Workers : worker[v] = "running"}} \cup ToSet(serverCollection)
NoneForgotten ==
  \A r \in Requests :
    asker[r] \in Listed => r \in UnderWay \cup ToSet(inbox[asker[r]]) \cup lost

(* No direct answer reaches a connection twice. *)
AnsweredOnce ==
  \A c \in Clients : \A i, j \in DOMAIN inbox[c] :
    inbox[c][i] \in Direct /\ inbox[c][i] = inbox[c][j] => i = j

(* A connection that sent a request was opened, and does not open again. *)
AskersOpened == \A r \in Requests : asker[r] \in Clients => con[asker[r]] # "none"

-----------------------------------------------------------------------------
(* Queues. *)
LEMMA AppendFacts ==
  ASSUME NEW S, NEW q \in Seq(S), NEW x \in S
  PROVE  /\ Append(q, x) \in Seq(S)
         /\ ToSet(Append(q, x)) = ToSet(q) \cup {x}
         /\ Len(Append(q, x)) = Len(q) + 1
<1>1. /\ Append(q, x) \in Seq(S) /\ Len(Append(q, x)) = Len(q) + 1
      /\ DOMAIN q = 1 .. Len(q) /\ Len(q) \in Nat
      /\ DOMAIN Append(q, x) = 1 .. Len(q) + 1
      /\ Append(q, x)[Len(q) + 1] = x
      /\ \A j \in 1 .. Len(q) : Append(q, x)[j] = q[j]
  OBVIOUS
<1> DEFINE s == Append(q, x)
<1> HIDE DEF s
<1>2. ToSet(s) \subseteq ToSet(q) \cup {x}
  BY <1>1 DEF ToSet, s
<1>3. ToSet(q) \subseteq ToSet(s) /\ x \in ToSet(s)
  BY <1>1 DEF ToSet, s
<1> QED BY <1>1, <1>2, <1>3 DEF s

LEMMA TailFacts ==
  ASSUME NEW S, NEW q \in Seq(S), q # <<>>
  PROVE  /\ Head(q) \in S /\ Tail(q) \in Seq(S)
         /\ Head(q) = q[1] /\ Len(q) \in Nat \ {0} /\ Len(Tail(q)) = Len(q) - 1
         /\ \A j \in 1 .. Len(q) - 1 : Tail(q)[j] = q[j + 1]
         /\ ToSet(q) = {Head(q)} \cup ToSet(Tail(q))
<1>1. /\ Head(q) \in S /\ Tail(q) \in Seq(S)
      /\ Head(q) = q[1] /\ Len(q) \in Nat \ {0} /\ Len(Tail(q)) = Len(q) - 1
      /\ DOMAIN q = 1 .. Len(q) /\ DOMAIN Tail(q) = 1 .. Len(q) - 1
      /\ \A j \in 1 .. Len(q) - 1 : Tail(q)[j] = q[j + 1]
  OBVIOUS
<1> DEFINE s == Tail(q)
<1> HIDE DEF s
<1>2. ToSet(s) \subseteq ToSet(q) /\ q[1] \in ToSet(q)
  BY <1>1 DEF ToSet, s
<1>3. ASSUME NEW j \in DOMAIN q, j # 1 PROVE q[j] \in ToSet(s)
  <2>1. j - 1 \in DOMAIN s /\ s[j - 1] = q[j]
    BY <1>1, <1>3 DEF s
  <2> QED BY <2>1 DEF ToSet
<1>4. ToSet(q) \subseteq {q[1]} \cup ToSet(s)
  BY <1>3 DEF ToSet
<1> QED BY <1>1, <1>2, <1>4 DEF s

LEMMA SeqSubset ==
  ASSUME NEW S, NEW T, S \subseteq T, NEW q \in Seq(S)
  PROVE  q \in Seq(T)
OBVIOUS

-----------------------------------------------------------------------------
(* The server uses the pool of ThreadPool and nothing else of it. *)
LEMMA PoolStep ==
  ASSUME [Next]_vars
  PROVE  [PoolNext]_poolVars
<1>1. CASE subscribeCallback
  <2>1. UNCHANGED poolVars \/ (Head(appJson) \in Jobs /\ Enqueue(Head(appJson)))
    BY <1>1 DEF subscribeCallback, Planned
  <2> QED BY <2>1 DEF PoolNext
<1>2. ASSUME NEW w \in Workers, Worker(w)
      PROVE  [PoolNext]_poolVars
  BY <1>2 DEF Worker, AnswerFullPath, PoolNext
<1>3. CASE NotifyOne
  BY <1>3 DEF NotifyOne, PoolNext
<1>4. CASE Asio
  BY <1>4 DEF Asio, on_open, on_close, on_fail, on_message, Subscribe, Publish
<1>5. CASE Publishers \/ funTransformBuffer \/ Broadcast \/ SubThread \/ UNCHANGED vars
  BY <1>5 DEF Publishers, sendRequestData, funTransformBuffer, Broadcast, SubThread,
     BeginPass, TakeTurn, ClearNotice, vars
<1> QED BY <1>1, <1>2, <1>3, <1>4, <1>5 DEF Next, Node

(* A worker that runs has a job. *)
BusyWithJob == \A w \in Workers : worker[w] = "running" => job[w] \in Jobs

LEMMA BusyStep ==
  ASSUME PoolTypeOK, BusyWithJob, [PoolNext]_poolVars
  PROVE  BusyWithJob'
<1>1. ASSUME NEW w \in Workers, Dequeue(w)
      PROVE  BusyWithJob'
  <2>1. Head(poolQueue) \in Jobs
    BY <1>1, TailFacts DEF Dequeue, PoolTypeOK
  <2> QED BY <1>1, <2>1 DEF Dequeue, PoolTypeOK, BusyWithJob
<1>2. ASSUME NEW w \in Workers, NEW place \in {"towait", "waiting", "woken", "test"}, Moves(w, place)
      PROVE  BusyWithJob'
  BY <1>2 DEF Moves, PoolTypeOK, BusyWithJob
<1>3. ASSUME NEW w \in Workers, Test(w) \/ Wait(w) \/ Spurious(w) \/ Wake(w) \/ Finish(w)
      PROVE  BusyWithJob'
  <2>1. CASE Finish(w)
    BY <2>1 DEF Finish, PoolTypeOK, BusyWithJob
  <2> QED BY <1>1, <1>2, <1>3, <2>1 DEF Test, Wait, Spurious, Wake
<1>4. CASE Notify
  BY <1>4 DEF Notify, PoolTypeOK, BusyWithJob
<1>5. CASE (\E j \in Jobs : Enqueue(j)) \/ UNCHANGED poolVars
  BY <1>5 DEF Enqueue, poolVars, BusyWithJob
<1> QED BY <1>3, <1>4, <1>5 DEF PoolNext

(* Of its jobs none is left behind, whatever the connections do: the server  *)
(* implements the pool.                                                      *)
THEOREM ServerUsesPool == Spec => PoolSpec
<1>1. Init => PoolInit
  BY DEF Init
<1>2. [Next]_vars => [PoolNext]_poolVars
  BY PoolStep
<1> QED BY <1>1, <1>2, PTL DEF Spec, PoolSpec

-----------------------------------------------------------------------------
(* Types, in the groups of variables that one step changes together. *)
LinkTypes ==
  /\ con \in [Clients -> {"none", "open", "closed", "failed"}]
  /\ Listed \subseteq {c \in Clients : con[c] = "open"}
  /\ \A c \in Listed : mMap[c] \subseteq Topics
  /\ left \subseteq Listed
  /\ turn \in Turns

QueueTypes ==
  /\ asker \in [Requests -> Clients \cup {NoClient}]
  /\ sent \in Seq(Requests)
  /\ transformQueue \in Seq(Requests)
  /\ appJson \in Seq(Requests) /\ Len(appJson) <= TopicQueue
  /\ lost \subseteq Requests
  /\ serverCollection \in Seq(Requests)
  /\ inbox \in [Clients -> Seq(Requests)]

NoticeTypes ==
  /\ dataMap \in [notice : 0 .. made, status : 0 .. MaxStatuses]
  /\ notices \in Seq(1 .. made)
  /\ statusSeen \in [Clients -> 0 .. MaxStatuses]
  /\ made \in 0 .. calls /\ calls \in 0 .. MaxCalls

LEMMA TypeParts == TypeOK <=> PoolTypeOK /\ LinkTypes /\ QueueTypes /\ NoticeTypes
BY DEF TypeOK, LinkTypes, QueueTypes, NoticeTypes

LEMMA LinkStep ==
  ASSUME LinkTypes, PassInv, [Next]_vars
  PROVE  LinkTypes' /\ PassInv'
<1> DEFINE Link == <<linkVars, passVars>>
<1>1. CASE UNCHANGED Link
  BY <1>1 DEF linkVars, passVars, LinkTypes, PassInv, Listed
<1>2. ASSUME NEW c \in Clients, on_open(c)
      PROVE  LinkTypes' /\ PassInv'
  BY <1>2 DEF on_open, passVars, LinkTypes, PassInv, Listed
<1>3. ASSUME NEW c \in Clients, on_close(c) \/ on_fail(c)
      PROVE  LinkTypes' /\ PassInv'
  <2>1. Listed' \subseteq Listed \ {c} /\ \A d \in Listed' : mMap'[d] = mMap[d]
    BY <1>3 DEF on_close, on_fail, Unlist, Restrict, Listed, LinkTypes
  <2>2. left = {} /\ UNCHANGED <<left, turn>>
    BY <1>3 DEF on_close, on_fail, askMutexFree, passVars, PassInv
  <2>3. con' \in [Clients -> {"none", "open", "closed", "failed"}]
        /\ \A d \in Clients \ {c} : con'[d] = con[d]
    BY <1>3 DEF on_close, on_fail, LinkTypes
  <2> QED BY <2>1, <2>2, <2>3 DEF LinkTypes, PassInv
<1>4. ASSUME NEW c \in Clients, NEW topic \in Topics, Subscribe(c, topic)
      PROVE  LinkTypes' /\ PassInv'
  <2>1. Listed' = Listed /\ \A d \in Listed : mMap'[d] \subseteq mMap[d] \cup {topic}
    BY <1>4 DEF Subscribe, Listed
  <2> QED BY <1>4, <2>1 DEF Subscribe, passVars, LinkTypes, PassInv
<1>5. CASE BeginPass
  <2>1. turn' = <<NoClient, "next">> /\ left' = Listed /\ Listed' = Listed /\ UNCHANGED linkVars
    BY <1>5 DEF BeginPass, linkVars, Listed
  <2> QED BY <2>1 DEF LinkTypes, PassInv, Turns, linkVars
<1>6. ASSUME NEW c \in left, left' = left \ {c},
             turn' = <<NoClient, IF left \ {c} = {} THEN "rest" ELSE "next">>, UNCHANGED linkVars
      PROVE  LinkTypes' /\ PassInv'
  <2>1. turn' \in Turns
    BY <1>6 DEF Turns
  <2>2. (turn'[2] = "rest" => left' = {}) /\ turn'[2] # "clear"
    BY <1>6
  <2> QED BY <1>6, <2>1, <2>2 DEF LinkTypes, PassInv, Listed, linkVars
<1>7. ASSUME NEW c \in Clients, TakeTurn(c)
      PROVE  LinkTypes' /\ PassInv'
  <2>1. CASE turn' = <<c, "clear">> /\ UNCHANGED left
    <3>1. turn' \in Turns /\ c \in left /\ UNCHANGED linkVars
      BY <1>7, <2>1 DEF TakeTurn, Turns
    <3> QED BY <2>1, <3>1 DEF LinkTypes, PassInv, Listed, linkVars
  <2>2. CASE EndTurn(c, left \ {c})
    BY <1>6, <1>7, <2>2 DEF TakeTurn, EndTurn
  <2> QED BY <1>7, <2>1, <2>2 DEF TakeTurn
<1>8. CASE ClearNotice
  BY <1>6, <1>8 DEF ClearNotice, EndTurn, PassInv
<1>9. CASE Asio
  <2>1. ASSUME NEW c \in Clients, NEW r \in Requests, Publish(c, r)
        PROVE  UNCHANGED Link
    BY <2>1 DEF Publish
  <2> QED BY <1>1, <1>2, <1>3, <1>4, <1>9, <2>1 DEF Asio, on_message
<1>10. CASE Publishers \/ (Node /\ ~SubThread) \/ UNCHANGED vars
  <2>1. UNCHANGED Link
    BY <1>10 DEF Publishers, sendRequestData, Node, funTransformBuffer, subscribeCallback, NotifyOne,
       Worker, AnswerFullPath, Broadcast, vars
  <2> QED BY <1>1, <2>1
<1> QED BY <1>5, <1>7, <1>8, <1>9, <1>10 DEF Next, Node, SubThread

LEMMA ToSetType ==
  ASSUME NEW S, NEW q \in Seq(S)
  PROVE  ToSet(q) \subseteq S
BY DEF ToSet

LEMMA QueueStep ==
  ASSUME BusyWithJob, QueueTypes, [Next]_vars
  PROVE  QueueTypes'
<1>1. CASE UNCHANGED <<queueVars, inbox>>
  BY <1>1 DEF queueVars, QueueTypes
<1>2. ASSUME NEW c \in Clients, NEW r \in Requests, Publish(c, r)
      PROVE  QueueTypes'
  <2>1. asker' \in [Requests -> Clients \cup {NoClient}] /\ lost' \subseteq Requests
    BY <1>2 DEF Publish, QueueTypes
  <2>2. Append(sent, r) \in Seq(Requests) /\ Append(transformQueue, r) \in Seq(Requests)
    BY AppendFacts DEF QueueTypes
  <2> QED BY <1>2, <2>1, <2>2 DEF Publish, QueueTypes, seenVars
<1>3. CASE funTransformBuffer
  <2> DEFINE head == Head(transformQueue)
             kept == IF Len(appJson) = TopicQueue THEN Tail(appJson) ELSE appJson
  <2>1. head \in Requests /\ transformQueue' \in Seq(Requests)
    BY <1>3, TailFacts DEF funTransformBuffer, QueueTypes
  <2>2. kept \in Seq(Requests) /\ Len(kept) < TopicQueue /\ lost' \subseteq Requests
    <3>1. Len(appJson) \in Nat /\ TopicQueue \in Nat \ {0}
      BY BoundsAssumption DEF QueueTypes
    <3>2. CASE Len(appJson) = TopicQueue
      <4>1. appJson # <<>>
        BY <3>1, <3>2
      <4> QED BY <1>3, <3>1, <3>2, <4>1, TailFacts DEF funTransformBuffer, QueueTypes
    <3>3. CASE Len(appJson) # TopicQueue
      BY <1>3, <3>1, <3>3 DEF funTransformBuffer, QueueTypes
    <3> QED BY <3>2, <3>3
  <2>3. appJson' = Append(kept, head)
    BY <1>3 DEF funTransformBuffer
  <2> HIDE DEF head, kept
  <2>4. appJson' \in Seq(Requests) /\ Len(appJson') = Len(kept) + 1
    BY <2>1, <2>2, <2>3, AppendFacts
  <2>5. Len(appJson') <= TopicQueue
    BY <2>2, <2>4, BoundsAssumption
  <2> QED BY <1>3, <2>1, <2>2, <2>4, <2>5 DEF funTransformBuffer, QueueTypes, seenVars
<1>4. CASE subscribeCallback
  <2>1. /\ Head(appJson) \in Requests /\ appJson' \in Seq(Requests)
        /\ Len(appJson) \in Nat /\ Len(appJson') = Len(appJson) - 1
    BY <1>4, TailFacts DEF subscribeCallback, QueueTypes
  <2>2. Len(appJson') <= TopicQueue
    BY <2>1, BoundsAssumption DEF QueueTypes
  <2>3. Append(serverCollection, Head(appJson)) \in Seq(Requests)
    BY <2>1, AppendFacts DEF QueueTypes
  <2>4. serverCollection' \in Seq(Requests)
    BY <1>4, <2>3 DEF subscribeCallback, QueueTypes
  <2> QED BY <1>4, <2>1, <2>2, <2>4 DEF subscribeCallback, QueueTypes, seenVars
<1>5. ASSUME NEW w \in Workers, AnswerFullPath(w)
      PROVE  QueueTypes'
  <2>1. job[w] \in Requests
    BY <1>5 DEF AnswerFullPath, Finish, BusyWithJob, Requests, Planned
  <2>2. Append(serverCollection, job[w]) \in Seq(Requests)
    BY <2>1, AppendFacts DEF QueueTypes
  <2> QED BY <1>5, <2>2 DEF AnswerFullPath, QueueTypes, seenVars
<1>6. CASE Broadcast
  <2>1. Head(serverCollection) \in Requests /\ serverCollection' \in Seq(Requests)
    BY <1>6, TailFacts DEF Broadcast, QueueTypes
  <2>2. \A c \in Clients : Append(inbox[c], Head(serverCollection)) \in Seq(Requests)
    BY <2>1, AppendFacts DEF QueueTypes
  <2>3. inbox' \in [Clients -> Seq(Requests)]
    BY <1>6, <2>2 DEF Broadcast, QueueTypes
  <2> QED BY <1>6, <2>1, <2>3 DEF Broadcast, QueueTypes
<1>7. CASE Asio
  <2>1. ASSUME NEW c \in Clients,
               on_open(c) \/ on_close(c) \/ on_fail(c) \/ \E topic \in Topics : Subscribe(c, topic)
        PROVE  UNCHANGED <<queueVars, inbox>>
    BY <2>1 DEF on_open, on_close, on_fail, Subscribe, seenVars
  <2> QED BY <1>1, <1>2, <1>7, <2>1 DEF Asio, on_message
<1>8. CASE Publishers \/ NotifyOne \/ SubThread \/ UNCHANGED vars
  <2>1. UNCHANGED <<queueVars, inbox>>
    BY <1>8 DEF Publishers, sendRequestData, NotifyOne, SubThread, BeginPass, TakeTurn, ClearNotice,
       vars, seenVars
  <2> QED BY <1>1, <2>1
<1>9. ASSUME NEW w \in Workers, Worker(w)
      PROVE  QueueTypes'
  BY <1>1, <1>5, <1>9 DEF Worker, seenVars
<1> QED BY <1>3, <1>4, <1>6, <1>7, <1>8, <1>9 DEF Next, Node

-----------------------------------------------------------------------------
(* The notices. *)
LEMMA NoticeStep ==
  ASSUME LinkTypes, NoticeTypes, NoticeInv, [Next]_vars
  PROVE  NoticeTypes' /\ NoticeInv'
<1> DEFINE Seen == <<dataMap, notices, statusSeen, made>>
<1>1. ASSUME UNCHANGED Seen, calls' = calls \/ Call,
             turn'[2] = turn[2] \/ (turn[2] # "clear" /\ turn'[2] # "clear")
      PROVE  NoticeTypes' /\ NoticeInv'
  <2>1. made' \in 0 .. calls' /\ calls' \in 0 .. MaxCalls
    BY <1>1, BoundsAssumption DEF Call, NoticeTypes
  <2>2. NoticeTypes'
    BY <1>1, <2>1 DEF NoticeTypes
  <2> QED BY <1>1, <2>2 DEF NoticeInv, NoticeOnce
<1>2. CASE Call /\ sendRequestData("notice")
  <2>1. /\ made' = made + 1 /\ made' \in 0 .. calls' /\ calls' \in 0 .. MaxCalls
        /\ dataMap' = [dataMap EXCEPT !.notice = made'] /\ UNCHANGED <<notices, statusSeen>>
    BY <1>2, BoundsAssumption DEF Call, sendRequestData, NoticeTypes, seenVars
  <2>2. dataMap' \in [notice : 0 .. made', status : 0 .. MaxStatuses] /\ dataMap'.notice = made + 1
    BY <2>1, SMTT(30) DEF NoticeTypes
  <2>3. made \in Nat /\ 1 .. made \subseteq 1 .. made'
    BY <2>1 DEF NoticeTypes
  <2>4. notices' \in Seq(1 .. made')
    BY <2>1, <2>3, SeqSubset DEF NoticeTypes
  <2>5. \A j \in DOMAIN notices : notices[j] \in 1 .. made
    BY DEF NoticeTypes
  <2>6. NoticeTypes'
    BY <2>1, <2>2, <2>4 DEF NoticeTypes
  <2> QED BY <2>1, <2>2, <2>3, <2>5, <2>6 DEF NoticeInv, NoticeOnce
<1>3. CASE Call /\ sendRequestData("status")
  <2>1. /\ UNCHANGED <<notices, statusSeen, made, turn>> /\ dataMap.status < MaxStatuses
        /\ made' \in 0 .. calls' /\ calls' \in 0 .. MaxCalls
        /\ dataMap' = [dataMap EXCEPT !.status = @ + 1]
    BY <1>3, BoundsAssumption DEF Call, sendRequestData, NoticeTypes, seenVars, passVars
  <2>2. dataMap' \in [notice : 0 .. made, status : 0 .. MaxStatuses] /\ dataMap'.notice = dataMap.notice
    BY <2>1, BoundsAssumption DEF NoticeTypes
  <2>3. NoticeTypes'
    BY <2>1, <2>2 DEF NoticeTypes
  <2> QED BY <2>1, <2>2, <2>3 DEF NoticeInv, NoticeOnce
<1>4. ASSUME NEW c, NEW rest, EndTurn(c, rest), UNCHANGED <<notices, bounds>>,
             \/ UNCHANGED dataMap /\ turn[2] = "next"
             \/ dataMap' = [dataMap EXCEPT !.notice = 0]
      PROVE  NoticeTypes' /\ NoticeInv'
  <2>1. statusSeen' \in [Clients -> 0 .. MaxStatuses] /\ turn'[2] # "clear"
    BY <1>4 DEF EndTurn, NoticeTypes
  <2>2. dataMap' \in [notice : 0 .. made, status : 0 .. MaxStatuses]
    BY <1>4 DEF NoticeTypes
  <2>3. NoticeTypes'
    BY <1>4, <2>1, <2>2 DEF NoticeTypes, bounds
  <2>4. dataMap'.notice = 0 \/ (dataMap' = dataMap /\ turn[2] = "next")
    BY <1>4 DEF NoticeTypes
  <2> QED BY <1>4, <2>3, <2>4 DEF NoticeInv, NoticeOnce
<1>5. ASSUME NEW c \in Clients, TakeTurn(c)
      PROVE  NoticeTypes' /\ NoticeInv'
  <2>1. turn[2] = "next" /\ UNCHANGED <<dataMap, bounds>>
    BY <1>5 DEF TakeTurn
  <2>2. CASE Wants(c, "notice") /\ notices' = Append(notices, dataMap.notice)
             /\ turn' = <<c, "clear">> /\ UNCHANGED statusSeen
    <3> DEFINE n == dataMap.notice
    <3>1. n \in 1 .. made /\ \A j \in DOMAIN notices : notices[j] < n
      BY <2>1, <2>2 DEF Wants, NoticeTypes, NoticeInv
    <3>2. /\ notices' \in Seq(1 .. made) /\ Len(notices') = Len(notices) + 1
          /\ notices \in Seq(1 .. made)
      BY <2>2, <3>1, AppendFacts DEF NoticeTypes
    <3>3. NoticeTypes'
      BY <2>1, <2>2, <3>2 DEF NoticeTypes, bounds
    <3> HIDE DEF n
    <3>4. /\ DOMAIN notices = 1 .. Len(notices) /\ Len(notices) \in Nat
          /\ DOMAIN notices' = 1 .. Len(notices) + 1
          /\ notices'[Len(notices) + 1] = n
          /\ \A j \in DOMAIN notices : notices'[j] = notices[j]
      BY <2>2, <3>1, <3>2 DEF n
    <3>5. NoticeOnce'
      BY <3>1, <3>4 DEF NoticeInv, NoticeOnce
    <3>6. turn'[2] = "clear"
      BY <2>2
    <3> QED BY <3>3, <3>5, <3>6 DEF NoticeInv
  <2>3. CASE EndTurn(c, left \ {c}) /\ UNCHANGED notices
    BY <1>4, <2>1, <2>3
  <2> QED BY <1>5, <2>2, <2>3 DEF TakeTurn
<1>6. CASE ClearNotice
  BY <1>4, <1>6 DEF ClearNotice
<1>7. CASE Asio
  <2>1. UNCHANGED <<Seen, turn>>
    BY <1>7 DEF Asio, on_open, on_close, on_fail, on_message, Subscribe, Publish, seenVars, passVars
  <2>2. calls' = calls \/ Call
    BY <1>7 DEF Asio
  <2> QED BY <1>1, <2>1, <2>2
<1>8. CASE (Node /\ ~SubThread) \/ UNCHANGED vars
  <2>1. UNCHANGED <<Seen, turn, calls>>
    BY <1>8 DEF Node, funTransformBuffer, subscribeCallback, NotifyOne, Worker, AnswerFullPath,
       Broadcast, vars, seenVars, passVars, bounds
  <2> QED BY <1>1, <2>1
<1>9. CASE BeginPass
  <2>1. UNCHANGED <<Seen, calls>> /\ turn[2] # "clear" /\ turn'[2] # "clear"
    BY <1>9 DEF BeginPass, askMutexFree, seenVars, bounds
  <2> QED BY <1>1, <2>1
<1>10. CASE Publishers
  BY <1>2, <1>3, <1>10 DEF Publishers, Topics
<1> QED BY <1>5, <1>6, <1>7, <1>8, <1>9, <1>10 DEF Next, Node, SubThread

-----------------------------------------------------------------------------
(* The order of the answers. *)
LEMMA DirectsFacts ==
  ASSUME NEW S, NEW q \in Seq(S)
  PROVE  /\ \A x \in S : Directs(Append(q, x)) = Directs(q) \cup ({x} \cap Direct)
         /\ q # <<>> => /\ Directs(Tail(q)) \subseteq Directs(q)
                        /\ Head(q) \in Direct => Head(q) \in Directs(q)
<1>1. ASSUME NEW x \in S PROVE ToSet(Append(q, x)) = ToSet(q) \cup {x}
  BY AppendFacts
<1>2. q # <<>> => ToSet(q) = {Head(q)} \cup ToSet(Tail(q))
  BY TailFacts
<1> QED BY <1>1, <1>2 DEF Directs

(* What leaves the head of a queue that is in order is ahead of the rest. *)
LEMMA TailInOrder ==
  ASSUME NEW o, NEW S, NEW q \in Seq(S), q # <<>>, InOrder(o, q)
  PROVE  /\ InOrder(o, Tail(q))
         /\ \A s \in Directs(Tail(q)) : Head(q) \in Direct => Precedes(o, Head(q), s)
<1> DEFINE t == Tail(q)
<1>1. /\ DOMAIN t = 1 .. Len(q) - 1 /\ DOMAIN q = 1 .. Len(q) /\ Len(q) \in Nat \ {0}
      /\ Head(q) = q[1] /\ \A j \in DOMAIN t : t[j] = q[j + 1]
  BY TailFacts
<1> HIDE DEF t
<1>2. InOrder(o, t)
  <2> SUFFICES ASSUME NEW j \in DOMAIN t, NEW k \in DOMAIN t, j < k, {t[j], t[k]} \subseteq Direct
               PROVE  Precedes(o, t[j], t[k])
    BY DEF InOrder
  <2>1. j + 1 \in DOMAIN q /\ k + 1 \in DOMAIN q /\ j + 1 < k + 1
    BY <1>1
  <2> QED BY <1>1, <2>1 DEF InOrder
<1>3. ASSUME NEW s \in Directs(t), Head(q) \in Direct PROVE Precedes(o, Head(q), s)
  <2>1. PICK j \in DOMAIN t : s = t[j]
    BY DEF Directs, ToSet
  <2>2. j + 1 \in DOMAIN q /\ 1 \in DOMAIN q /\ 1 < j + 1 /\ q[j + 1] = s /\ s \in Direct
    BY <1>1, <2>1 DEF Directs
  <2> QED BY <1>1, <1>3, <2>2 DEF InOrder
<1> QED BY <1>2, <1>3 DEF t

LEMMA AppendInOrder ==
  ASSUME NEW o, NEW S, NEW q \in Seq(S), NEW x \in S, InOrder(o, q),
         x \in Direct => \A r \in Directs(q) : Precedes(o, r, x)
  PROVE  InOrder(o, Append(q, x))
<1> DEFINE t == Append(q, x)
<1>1. /\ DOMAIN t = 1 .. Len(q) + 1 /\ DOMAIN q = 1 .. Len(q) /\ Len(q) \in Nat
      /\ t[Len(q) + 1] = x /\ \A j \in DOMAIN q : t[j] = q[j]
  OBVIOUS
<1> HIDE DEF t
<1> SUFFICES ASSUME NEW j \in DOMAIN t, NEW k \in DOMAIN t, j < k, {t[j], t[k]} \subseteq Direct
             PROVE  Precedes(o, t[j], t[k])
  BY DEF InOrder, t
<1>2. j \in DOMAIN q /\ t[j] = q[j]
  BY <1>1
<1>3. CASE k \in DOMAIN q
  BY <1>1, <1>2, <1>3 DEF InOrder
<1>4. CASE k = Len(q) + 1
  <2>1. t[j] \in Directs(q) /\ t[k] = x /\ x \in Direct
    BY <1>1, <1>2, <1>4 DEF Directs, ToSet
  <2> QED BY <2>1
<1> QED BY <1>1, <1>3, <1>4

(* A chain when its first queue loses its head, when a queue passes its head *)
(* on, and when what is not direct joins it.                                 *)
LEMMA ChainPasses ==
  ASSUME NEW o, NEW S, NEW p \in Seq(S), NEW q \in Seq(S), q # <<>>,
         InOrder(o, p), InOrder(o, q), Ahead(o, p, q)
  PROVE  /\ InOrder(o, Tail(q)) /\ InOrder(o, Append(p, Head(q)))
         /\ Ahead(o, p, Tail(q)) /\ Ahead(o, Append(p, Head(q)), Tail(q))
<1>1. Head(q) \in S
  BY TailFacts
<1>2. /\ InOrder(o, Tail(q))
      /\ \A s \in Directs(Tail(q)) : Head(q) \in Direct => Precedes(o, Head(q), s)
  BY TailInOrder
<1>3. /\ Directs(Append(p, Head(q))) = Directs(p) \cup ({Head(q)} \cap Direct)
      /\ Directs(Tail(q)) \subseteq Directs(q)
      /\ Head(q) \in Direct => Head(q) \in Directs(q)
  BY <1>1, DirectsFacts
<1>4. InOrder(o, Append(p, Head(q)))
  BY <1>1, <1>3, AppendInOrder DEF Ahead
<1> QED BY <1>2, <1>3, <1>4 DEF Ahead

LEMMA ChainDrops ==
  ASSUME NEW o, NEW S, NEW q \in Seq(S), q # <<>>, NEW p
  PROVE  /\ Ahead(o, p, q) => Ahead(o, p, Tail(q))
         /\ Ahead(o, q, p) => Ahead(o, Tail(q), p)
         /\ InOrder(o, q) => InOrder(o, Tail(q))
BY DirectsFacts, TailInOrder DEF Ahead

LEMMA ChainJoins ==
  ASSUME NEW o, NEW S, NEW q \in Seq(S), NEW x \in S, x \notin Direct, NEW p
  PROVE  /\ Ahead(o, p, q) => Ahead(o, p, Append(q, x))
         /\ Ahead(o, q, p) => Ahead(o, Append(q, x), p)
         /\ InOrder(o, q) => InOrder(o, Append(q, x))
BY DirectsFacts, AppendInOrder DEF Ahead

(* A chain when something is sent. *)
LEMMA PrecedesGrows ==
  ASSUME NEW S, NEW o \in Seq(S), NEW x \in S
  PROVE  /\ \A r, s : Precedes(o, r, s) => Precedes(Append(o, x), r, s)
         /\ \A r \in ToSet(o) : Precedes(Append(o, x), r, x)
<1> DEFINE t == Append(o, x)
<1>1. /\ DOMAIN t = 1 .. Len(o) + 1 /\ DOMAIN o = 1 .. Len(o) /\ Len(o) \in Nat
      /\ t[Len(o) + 1] = x /\ \A j \in DOMAIN o : t[j] = o[j]
  OBVIOUS
<1> HIDE DEF t
<1>2. \A r, s : Precedes(o, r, s) => Precedes(t, r, s)
  BY <1>1 DEF Precedes
<1>3. ASSUME NEW r \in ToSet(o) PROVE Precedes(t, r, x)
  <2>1. PICK j \in DOMAIN o : o[j] = r
    BY DEF ToSet
  <2>2. j \in DOMAIN t /\ Len(o) + 1 \in DOMAIN t /\ j < Len(o) + 1 /\ t[j] = r
    BY <1>1, <2>1
  <2> QED BY <1>1, <2>2 DEF Precedes
<1> QED BY <1>2, <1>3 DEF t

LEMMA ChainSends ==
  ASSUME NEW S, NEW o \in Seq(S), NEW x \in S,
         NEW a \in Seq(S), NEW b \in Seq(S), NEW c \in Seq(S), NEW d \in Seq(S),
         Directs(a) \cup Directs(b) \cup Directs(c) \cup Directs(d) \subseteq ToSet(o),
         Chain(o, a, b, c, d)
  PROVE  Chain(Append(o, x), a, b, c, Append(d, x))
<1> DEFINE t == Append(o, x)
<1>1. /\ \A r, s : Precedes(o, r, s) => Precedes(t, r, s)
      /\ \A r \in ToSet(o) : Precedes(t, r, x)
  BY PrecedesGrows
<1> HIDE DEF t
<1>2. /\ InOrder(t, a) /\ InOrder(t, b) /\ InOrder(t, c) /\ InOrder(t, d)
  BY <1>1 DEF Chain, InOrder
<1>3. /\ Ahead(t, a, b) /\ Ahead(t, a, c) /\ Ahead(t, a, d)
      /\ Ahead(t, b, c) /\ Ahead(t, b, d) /\ Ahead(t, c, d)
  BY <1>1 DEF Chain, Ahead
<1>4. Directs(Append(d, x)) = Directs(d) \cup ({x} \cap Direct)
  BY DirectsFacts
<1>5. InOrder(t, Append(d, x))
  BY <1>1, <1>2, AppendInOrder
<1>6. Ahead(t, a, Append(d, x)) /\ Ahead(t, b, Append(d, x)) /\ Ahead(t, c, Append(d, x))
  BY <1>1, <1>3, <1>4 DEF Ahead
<1> QED BY <1>2, <1>3, <1>5, <1>6 DEF Chain, t

(* What is in the queues was sent, and once. *)
LEMMA SentStep ==
  ASSUME BusyWithJob, QueueTypes, SentInv, [Next]_vars
  PROVE  SentInv'
<1> USE DEF SentInv
<1>1. CASE UNCHANGED <<asker, sent, transformQueue, appJson, serverCollection, inbox>>
  BY <1>1 DEF Directs
<1>2. ASSUME NEW c \in Clients, NEW r \in Requests, Publish(c, r)
      PROVE  SentInv'
  <2>1. asker[r] = NoClient /\ asker' = [asker EXCEPT ![r] = c]
        /\ UNCHANGED <<appJson, serverCollection, inbox>>
    BY <1>2 DEF Publish, seenVars
  <2>2. r \notin ToSet(sent) /\ asker'[r] = c /\ \A q \in ToSet(sent) : asker'[q] = asker[q]
    BY <2>1, RequestsAssumption, ToSetType DEF QueueTypes
  <2>3. CASE UNCHANGED <<sent, transformQueue>>
    BY <2>1, <2>2, <2>3 DEF Directs
  <2>4. CASE sent' = Append(sent, r) /\ transformQueue' = Append(transformQueue, r)
    <3>1. ToSet(sent') = ToSet(sent) \cup {r}
          /\ Directs(transformQueue)' \subseteq Directs(transformQueue) \cup {r}
      BY <2>4, AppendFacts, DirectsFacts DEF QueueTypes, Directs
    <3>2. UNCHANGED <<Directs(appJson), Directs(serverCollection)>>
          /\ \A d \in Clients : Directs(inbox[d])' = Directs(inbox[d])
      BY <2>1 DEF Directs
    <3>3. /\ DOMAIN sent' = 1 .. Len(sent) + 1 /\ DOMAIN sent = 1 .. Len(sent) /\ Len(sent) \in Nat
          /\ sent'[Len(sent) + 1] = r /\ \A j \in DOMAIN sent : sent'[j] = sent[j]
      BY <2>4 DEF QueueTypes
    <3>4. \A j \in DOMAIN sent : sent[j] # r
      BY <2>2 DEF ToSet
    <3>5. \A j, k \in DOMAIN sent' : sent'[j] = sent'[k] => j = k
      BY <3>3, <3>4
    <3>6. ToSet(sent)' = ToSet(sent')
      BY DEF ToSet
    <3> QED BY <2>2, <3>1, <3>2, <3>5, <3>6
  <2> QED BY <1>2, <2>3, <2>4 DEF Publish
<1>3. ASSUME UNCHANGED <<asker, sent>>,
             Directs(transformQueue)' \cup Directs(appJson)' \cup Directs(serverCollection)'
               \subseteq Directs(transformQueue) \cup Directs(appJson) \cup Directs(serverCollection),
             \A d \in Clients : Directs(inbox[d])' \subseteq Directs(inbox[d])
                                                            \cup Directs(serverCollection)
      PROVE  SentInv'
  <2>1. ToSet(sent)' = ToSet(sent)
    BY <1>3 DEF ToSet
  <2> QED BY <1>3, <2>1
<1>4. CASE funTransformBuffer
  <2> DEFINE head == Head(transformQueue)
             kept == IF Len(appJson) = TopicQueue THEN Tail(appJson) ELSE appJson
  <2>1. head \in Requests /\ Directs(Tail(transformQueue)) \subseteq Directs(transformQueue)
        /\ (head \in Direct => head \in Directs(transformQueue))
    BY <1>4, TailFacts, DirectsFacts DEF funTransformBuffer, QueueTypes
  <2>2. kept \in Seq(Requests) /\ Directs(kept) \subseteq Directs(appJson)
    <3>1. CASE Len(appJson) = TopicQueue
      <4>1. appJson # <<>>
        BY <3>1, BoundsAssumption DEF QueueTypes
      <4> QED BY <3>1, <4>1, TailFacts, DirectsFacts DEF QueueTypes
    <3> QED BY <3>1 DEF QueueTypes
  <2>3. appJson' = Append(kept, head) /\ transformQueue' = Tail(transformQueue)
        /\ UNCHANGED <<asker, sent, serverCollection, inbox>>
    BY <1>4 DEF funTransformBuffer, seenVars
  <2> HIDE DEF head, kept
  <2>4. Directs(Append(kept, head)) = Directs(kept) \cup ({head} \cap Direct)
    BY <2>1, <2>2, DirectsFacts
  <2>5. /\ Directs(appJson)' = Directs(appJson') /\ Directs(transformQueue)' = Directs(transformQueue')
        /\ Directs(serverCollection)' = Directs(serverCollection)
        /\ \A d \in Clients : Directs(inbox[d])' = Directs(inbox[d])
    BY <2>3 DEF Directs, ToSet
  <2> QED BY <1>3, <2>1, <2>2, <2>3, <2>4, <2>5
<1>5. CASE subscribeCallback
  <2> DEFINE head == Head(appJson)
  <2>1. head \in Requests /\ Directs(Tail(appJson)) \subseteq Directs(appJson)
        /\ (head \in Direct => head \in Directs(appJson))
    BY <1>5, TailFacts, DirectsFacts DEF subscribeCallback, QueueTypes
  <2>2. Directs(Append(serverCollection, head)) = Directs(serverCollection) \cup ({head} \cap Direct)
    BY <2>1, DirectsFacts DEF QueueTypes
  <2>3. /\ serverCollection' \in {serverCollection, Append(serverCollection, head)}
        /\ appJson' = Tail(appJson) /\ UNCHANGED <<asker, sent, transformQueue, inbox>>
    BY <1>5 DEF subscribeCallback, seenVars
  <2>4. /\ Directs(appJson)' = Directs(appJson') /\ Directs(transformQueue)' = Directs(transformQueue)
        /\ Directs(serverCollection)' = Directs(serverCollection')
        /\ \A d \in Clients : Directs(inbox[d])' = Directs(inbox[d])
    BY <2>3 DEF Directs, ToSet
  <2> QED BY <1>3, <2>1, <2>2, <2>3, <2>4
<1>6. ASSUME NEW w \in Workers, AnswerFullPath(w)
      PROVE  SentInv'
  <2>1. job[w] \in Requests \ Direct
    BY <1>6, RequestsAssumption DEF AnswerFullPath, Finish, BusyWithJob, Requests, Planned
  <2>2. Directs(Append(serverCollection, job[w]))
          = Directs(serverCollection) \cup ({job[w]} \cap Direct)
    BY <2>1, DirectsFacts DEF QueueTypes
  <2>3. /\ serverCollection' = Append(serverCollection, job[w])
        /\ UNCHANGED <<asker, sent, transformQueue, appJson, inbox>>
    BY <1>6 DEF AnswerFullPath, seenVars
  <2>4. /\ Directs(appJson)' = Directs(appJson) /\ Directs(transformQueue)' = Directs(transformQueue)
        /\ Directs(serverCollection)' = Directs(serverCollection')
        /\ \A d \in Clients : Directs(inbox[d])' = Directs(inbox[d])
    BY <2>3 DEF Directs, ToSet
  <2> QED BY <1>3, <2>1, <2>2, <2>3, <2>4
<1>7. CASE Broadcast
  <2> DEFINE head == Head(serverCollection)
  <2>1. head \in Requests /\ Directs(Tail(serverCollection)) \subseteq Directs(serverCollection)
        /\ (head \in Direct => head \in Directs(serverCollection))
    BY <1>7, TailFacts, DirectsFacts DEF Broadcast, QueueTypes
  <2>2. \A d \in Clients : Directs(Append(inbox[d], head)) = Directs(inbox[d]) \cup ({head} \cap Direct)
    BY <2>1, DirectsFacts DEF QueueTypes
  <2>3. /\ serverCollection' = Tail(serverCollection)
        /\ UNCHANGED <<asker, sent, transformQueue, appJson>>
        /\ \A d \in Clients : inbox'[d] \in {inbox[d], Append(inbox[d], head)}
    BY <1>7 DEF Broadcast
  <2>4. /\ Directs(appJson)' = Directs(appJson) /\ Directs(transformQueue)' = Directs(transformQueue)
        /\ Directs(serverCollection)' = Directs(serverCollection')
        /\ \A d \in Clients : Directs(inbox[d])' = Directs(inbox'[d])
    BY <2>3 DEF Directs, ToSet
  <2> HIDE DEF head
  <2>5. \A d \in Clients : Directs(inbox[d])' \subseteq Directs(inbox[d])
                                                      \cup Directs(serverCollection)
    <3> SUFFICES ASSUME NEW d \in Clients
                 PROVE  Directs(inbox'[d]) \subseteq Directs(inbox[d]) \cup Directs(serverCollection)
      BY <2>4
    <3>1. CASE inbox'[d] = inbox[d]
      BY <3>1
    <3>2. CASE inbox'[d] = Append(inbox[d], head)
      BY <2>1, <2>2, <3>2
    <3> QED BY <2>3, <3>1, <3>2
  <2> QED BY <1>3, <2>1, <2>3, <2>4, <2>5
<1>8. CASE Asio
  <2>1. ASSUME NEW c \in Clients,
               on_open(c) \/ on_close(c) \/ on_fail(c) \/ \E topic \in Topics : Subscribe(c, topic)
        PROVE  UNCHANGED <<queueVars, inbox>>
    BY <2>1 DEF on_open, on_close, on_fail, Subscribe, seenVars
  <2> QED BY <1>1, <1>2, <1>8, <2>1 DEF Asio, on_message, queueVars
<1>9. ASSUME NEW w \in Workers, Worker(w)
      PROVE  SentInv'
  BY <1>1, <1>6, <1>9 DEF Worker, seenVars, queueVars
<1>10. CASE Publishers \/ NotifyOne \/ SubThread \/ UNCHANGED vars
  <2>1. UNCHANGED <<queueVars, inbox>>
    BY <1>10 DEF Publishers, sendRequestData, NotifyOne, SubThread, BeginPass, TakeTurn, ClearNotice,
       vars, seenVars
  <2> QED BY <1>1, <2>1 DEF queueVars
<1> QED BY <1>4, <1>5, <1>7, <1>8, <1>9, <1>10 DEF Next, Node

(* The chain to each connection stays a chain. *)
LEMMA ChainStep ==
  ASSUME BusyWithJob, QueueTypes, SentInv, InboxesInOrder, [Next]_vars
  PROVE  InboxesInOrder'
<1> SUFFICES ASSUME NEW d \in Clients
             PROVE  Chain(sent', inbox'[d], serverCollection', appJson', transformQueue')
  BY DEF InboxesInOrder
<1> DEFINE a == inbox[d]
           b == serverCollection
           c == appJson
           q == transformQueue
<1>0. /\ Chain(sent, a, b, c, q) /\ sent \in Seq(Requests)
      /\ a \in Seq(Requests) /\ b \in Seq(Requests) /\ c \in Seq(Requests) /\ q \in Seq(Requests)
  BY DEF InboxesInOrder, QueueTypes
<1>1. CASE UNCHANGED <<sent, transformQueue, appJson, serverCollection, inbox>>
  BY <1>0, <1>1
<1>2. ASSUME NEW e \in Clients, NEW r \in Requests, Publish(e, r)
      PROVE  Chain(sent', inbox'[d], serverCollection', appJson', transformQueue')
  <2>1. UNCHANGED <<appJson, serverCollection, inbox>>
    BY <1>2 DEF Publish, seenVars
  <2>2. CASE UNCHANGED <<sent, transformQueue>>
    BY <1>1, <2>1, <2>2
  <2>3. CASE sent' = Append(sent, r) /\ transformQueue' = Append(transformQueue, r)
    <3>1. Directs(a) \cup Directs(b) \cup Directs(c) \cup Directs(q) \subseteq ToSet(sent)
      BY DEF SentInv
    <3>2. Chain(Append(sent, r), a, b, c, Append(q, r))
      BY <1>0, <3>1, ChainSends
    <3> QED BY <2>1, <2>3, <3>2
  <2> QED BY <1>2, <2>2, <2>3 DEF Publish
<1>3. CASE funTransformBuffer
  <2> DEFINE kept == IF Len(c) = TopicQueue THEN Tail(c) ELSE c
  <2>1. q # <<>> /\ appJson' = Append(kept, Head(q)) /\ transformQueue' = Tail(q)
        /\ UNCHANGED <<sent, serverCollection, inbox>>
    BY <1>3 DEF funTransformBuffer, seenVars
  <2>2. kept \in Seq(Requests) /\ Chain(sent, a, b, kept, q)
    <3>1. CASE Len(c) = TopicQueue
      <4>1. c # <<>>
        BY <1>0, <3>1, BoundsAssumption
      <4>2. Tail(c) \in Seq(Requests) /\ Chain(sent, a, b, Tail(c), q)
        BY <1>0, <4>1, ChainDrops, TailFacts DEF Chain
      <4> QED BY <3>1, <4>2
    <3> QED BY <1>0, <3>1
  <2> HIDE DEF kept
  <2>3. Directs(Append(kept, Head(q))) = Directs(kept) \cup ({Head(q)} \cap Direct)
    BY <1>0, <2>1, <2>2, TailFacts, DirectsFacts
  <2>4. Directs(Tail(q)) \subseteq Directs(q) /\ (Head(q) \in Direct => Head(q) \in Directs(q))
    BY <1>0, <2>1, DirectsFacts
  <2>5. /\ InOrder(sent, Tail(q)) /\ InOrder(sent, Append(kept, Head(q)))
        /\ Ahead(sent, Append(kept, Head(q)), Tail(q))
    BY <1>0, <2>1, <2>2, ChainPasses DEF Chain
  <2>6. /\ Ahead(sent, a, Append(kept, Head(q))) /\ Ahead(sent, b, Append(kept, Head(q)))
        /\ Ahead(sent, a, Tail(q)) /\ Ahead(sent, b, Tail(q))
    BY <2>2, <2>3, <2>4 DEF Chain, Ahead
  <2> QED BY <2>1, <2>2, <2>5, <2>6 DEF Chain
<1>4. CASE subscribeCallback
  <2>1. c # <<>> /\ appJson' = Tail(c) /\ UNCHANGED <<sent, inbox, transformQueue>>
    BY <1>4 DEF subscribeCallback, seenVars
  <2>2. CASE UNCHANGED serverCollection
    <3>1. Chain(sent, a, b, Tail(c), q)
      BY <1>0, <2>1, ChainDrops DEF Chain
    <3> QED BY <2>1, <2>2, <3>1
  <2>3. CASE serverCollection' = Append(b, Head(c))
    <3>1. Directs(Append(b, Head(c))) = Directs(b) \cup ({Head(c)} \cap Direct)
      BY <1>0, <2>1, TailFacts, DirectsFacts
    <3>2. Directs(Tail(c)) \subseteq Directs(c) /\ (Head(c) \in Direct => Head(c) \in Directs(c))
      BY <1>0, <2>1, DirectsFacts
    <3>3. /\ InOrder(sent, Tail(c)) /\ InOrder(sent, Append(b, Head(c)))
          /\ Ahead(sent, Append(b, Head(c)), Tail(c))
      BY <1>0, <2>1, ChainPasses DEF Chain
    <3>4. /\ Ahead(sent, a, Append(b, Head(c))) /\ Ahead(sent, a, Tail(c))
          /\ Ahead(sent, Append(b, Head(c)), q) /\ Ahead(sent, Tail(c), q)
      BY <1>0, <3>1, <3>2 DEF Chain, Ahead
    <3>5. Chain(sent, a, Append(b, Head(c)), Tail(c), q)
      BY <1>0, <3>3, <3>4 DEF Chain
    <3> QED BY <2>1, <2>3, <3>5
  <2> QED BY <1>4, <2>2, <2>3 DEF subscribeCallback
<1>5. ASSUME NEW w \in Workers, AnswerFullPath(w)
      PROVE  Chain(sent', inbox'[d], serverCollection', appJson', transformQueue')
  <2>1. job[w] \in Requests /\ job[w] \notin Direct
    BY <1>5, RequestsAssumption DEF AnswerFullPath, Finish, BusyWithJob, Requests, Planned
  <2>2. Chain(sent, a, Append(b, job[w]), c, q)
    BY <1>0, <2>1, ChainJoins DEF Chain
  <2> QED BY <1>5, <2>2 DEF AnswerFullPath, seenVars
<1>6. CASE Broadcast
  <2>1. /\ b # <<>> /\ serverCollection' = Tail(b) /\ UNCHANGED <<sent, appJson, transformQueue>>
        /\ inbox'[d] \in {a, Append(a, Head(b))}
    BY <1>6 DEF Broadcast
  <2>2. CASE inbox'[d] = a
    <3>1. Chain(sent, a, Tail(b), c, q)
      BY <1>0, <2>1, ChainDrops DEF Chain
    <3> QED BY <2>1, <2>2, <3>1
  <2>3. CASE inbox'[d] = Append(a, Head(b))
    <3>1. Directs(Append(a, Head(b))) = Directs(a) \cup ({Head(b)} \cap Direct)
      BY <1>0, <2>1, TailFacts, DirectsFacts
    <3>2. Directs(Tail(b)) \subseteq Directs(b) /\ (Head(b) \in Direct => Head(b) \in Directs(b))
      BY <1>0, <2>1, DirectsFacts
    <3>3. /\ InOrder(sent, Tail(b)) /\ InOrder(sent, Append(a, Head(b)))
          /\ Ahead(sent, Append(a, Head(b)), Tail(b))
      BY <1>0, <2>1, ChainPasses DEF Chain
    <3>4. /\ Ahead(sent, Append(a, Head(b)), c) /\ Ahead(sent, Append(a, Head(b)), q)
          /\ Ahead(sent, Tail(b), c) /\ Ahead(sent, Tail(b), q)
      BY <1>0, <3>1, <3>2 DEF Chain, Ahead
    <3>5. Chain(sent, Append(a, Head(b)), Tail(b), c, q)
      BY <1>0, <3>3, <3>4 DEF Chain
    <3> QED BY <2>1, <2>3, <3>5
  <2> QED BY <2>1, <2>2, <2>3
<1>7. CASE Asio
  <2>1. ASSUME NEW e \in Clients,
               on_open(e) \/ on_close(e) \/ on_fail(e) \/ \E topic \in Topics : Subscribe(e, topic)
        PROVE  UNCHANGED <<queueVars, inbox>>
    BY <2>1 DEF on_open, on_close, on_fail, Subscribe, seenVars
  <2> QED BY <1>1, <1>2, <1>7, <2>1 DEF Asio, on_message, queueVars
<1>8. ASSUME NEW w \in Workers, Worker(w)
      PROVE  Chain(sent', inbox'[d], serverCollection', appJson', transformQueue')
  BY <1>1, <1>5, <1>8 DEF Worker, seenVars, queueVars
<1>9. CASE Publishers \/ NotifyOne \/ SubThread \/ UNCHANGED vars
  <2>1. UNCHANGED <<queueVars, inbox>>
    BY <1>9 DEF Publishers, sendRequestData, NotifyOne, SubThread, BeginPass, TakeTurn, ClearNotice,
       vars, seenVars
  <2> QED BY <1>1, <2>1 DEF queueVars
<1> QED BY <1>3, <1>4, <1>6, <1>7, <1>8, <1>9 DEF Next, Node

-----------------------------------------------------------------------------
(* No request is forgotten. *)
LEMMA AskersStep ==
  ASSUME LinkTypes, QueueTypes, AskersOpened, [Next]_vars
  PROVE  AskersOpened'
<1> USE DEF AskersOpened
<1>1. \A c \in Clients : con[c] # "none" => con'[c] # "none"
  <2>1. con' = con \/ \E c \in Clients : \E s \in {"open", "closed", "failed"} :
                        con' = [con EXCEPT ![c] = s]
    BY DEF Next, Asio, on_message, on_open, on_close, on_fail, Subscribe, Publish, Publishers,
       sendRequestData, Node, funTransformBuffer, subscribeCallback, NotifyOne, Worker,
       AnswerFullPath, Broadcast, SubThread, BeginPass, TakeTurn, ClearNotice, vars, linkVars
  <2> QED BY <2>1 DEF LinkTypes
<1>2. ASSUME NEW c \in Clients, NEW r \in Requests, Publish(c, r)
      PROVE  AskersOpened'
  <2>1. asker' = [asker EXCEPT ![r] = c] /\ con[c] # "none"
    BY <1>2 DEF Publish
  <2> QED BY <1>1, <2>1 DEF QueueTypes
<1>3. CASE UNCHANGED asker
  BY <1>1, <1>3
<1>4. UNCHANGED asker \/ \E c \in Clients : \E r \in Requests : Publish(c, r)
  BY DEF Next, Asio, on_message, on_open, on_close, on_fail, Subscribe, Publishers,
     sendRequestData, Node, funTransformBuffer, subscribeCallback, NotifyOne, Worker,
     AnswerFullPath, Broadcast, SubThread, BeginPass, TakeTurn, ClearNotice, vars, queueVars
<1> QED BY <1>2, <1>3, <1>4

(* Nothing is forgotten when what is under way stays so, is answered to all  *)
(* that are listed, or is dropped.                                           *)
LEMMA ForgottenStep ==
  ASSUME TypeOK, BusyWithJob, AskersOpened, NoneForgotten, [Next]_vars
  PROVE  NoneForgotten'
<1> DEFINE Places == <<transformQueue, appJson, serverCollection, poolQueue, worker, job>>
<1>1. ASSUME UNCHANGED asker, lost \subseteq lost',
             \A r \in Requests : asker[r] \in Listed' => asker[r] \in Listed,
             \A c \in Listed : ToSet(inbox[c]) \subseteq ToSet(inbox'[c]),
             \A r \in UnderWay : r \in UnderWay' \/ r \in lost'
                                   \/ \A c \in Listed : r \in ToSet(inbox'[c])
      PROVE  NoneForgotten'
  <2> SUFFICES ASSUME NEW r \in Requests, asker[r] \in Listed'
               PROVE  r \in UnderWay' \cup ToSet(inbox'[asker[r]]) \cup lost'
    BY <1>1 DEF NoneForgotten, ToSet
  <2>1. asker[r] \in Listed /\ r \in UnderWay \cup ToSet(inbox[asker[r]]) \cup lost
    BY <1>1 DEF NoneForgotten
  <2> QED BY <1>1, <2>1
<1>2. ASSUME UNCHANGED <<Places, inbox, lost, asker>>,
             \A r \in Requests : asker[r] \in Listed' => asker[r] \in Listed
      PROVE  NoneForgotten'
  <2>1. UnderWay' = UnderWay
    BY <1>2 DEF UnderWay, ToSet
  <2> QED BY <1>1, <1>2, <2>1
<1>3. ASSUME NEW c \in Clients, on_open(c)
      PROVE  NoneForgotten'
  <2>1. con[c] = "none" /\ Listed' = Listed \cup {c} /\ UNCHANGED <<Places, inbox, lost, asker>>
    BY <1>3 DEF on_open, Listed, queueVars, poolVars, seenVars
  <2>2. \A r \in Requests : asker[r] # c
    BY <2>1 DEF AskersOpened
  <2> QED BY <1>2, <2>1, <2>2
<1>4. ASSUME NEW c \in Clients,
             on_close(c) \/ on_fail(c) \/ \E topic \in Topics : Subscribe(c, topic)
      PROVE  NoneForgotten'
  <2>1. Listed' \subseteq Listed /\ UNCHANGED <<Places, inbox, lost, asker>>
    BY <1>4 DEF on_close, on_fail, Subscribe, Unlist, Restrict, Listed, queueVars, poolVars, seenVars
  <2> QED BY <1>2, <2>1
<1>5. ASSUME NEW c \in Clients, NEW r \in Requests, Publish(c, r)
      PROVE  NoneForgotten'
  <2>1. /\ asker' = [asker EXCEPT ![r] = c] /\ Listed' = Listed
        /\ UNCHANGED <<appJson, serverCollection, poolQueue, worker, job, inbox>>
    BY <1>5 DEF Publish, linkVars, Listed, poolVars, seenVars
  <2>2. \/ ToSet(transformQueue') = ToSet(transformQueue) \cup {r} /\ UNCHANGED lost
        \/ UNCHANGED transformQueue /\ lost' = lost \cup {r}
    <3>1. ToSet(Append(transformQueue, r)) = ToSet(transformQueue) \cup {r}
      BY AppendFacts DEF TypeOK
    <3> QED BY <1>5, <3>1 DEF Publish
  <2>3. UnderWay \cup lost \cup {r} \subseteq UnderWay' \cup lost'
    BY <2>1, <2>2 DEF UnderWay, ToSet
  <2>4. \A s \in Requests \ {r} : asker'[s] = asker[s]
    BY <2>1 DEF TypeOK
  <2> SUFFICES ASSUME NEW s \in Requests, asker'[s] \in Listed
               PROVE  s \in UnderWay' \cup ToSet(inbox[asker'[s]]) \cup lost'
    BY <2>1 DEF NoneForgotten, ToSet
  <2>5. CASE s = r
    BY <2>3, <2>5
  <2>6. CASE s # r
    BY <2>3, <2>4, <2>6 DEF NoneForgotten
  <2> QED BY <2>5, <2>6
<1>6. CASE funTransformBuffer
  <2> DEFINE head == Head(transformQueue)
             full == Len(appJson) = TopicQueue
             kept == IF full THEN Tail(appJson) ELSE appJson
  <2>1. ToSet(transformQueue) = {head} \cup ToSet(Tail(transformQueue)) /\ head \in Requests
    BY <1>6, TailFacts DEF funTransformBuffer, TypeOK
  <2>2. kept \in Seq(Requests) /\ ToSet(appJson) \subseteq ToSet(kept) \cup lost' /\ lost \subseteq lost'
    <3>1. CASE full
      <4>1. appJson # <<>>
        BY <3>1, BoundsAssumption DEF TypeOK
      <4>2. ToSet(appJson) = {Head(appJson)} \cup ToSet(Tail(appJson))
            /\ Tail(appJson) \in Seq(Requests)
        BY <4>1, TailFacts DEF TypeOK
      <4> QED BY <1>6, <3>1, <4>2 DEF funTransformBuffer
    <3>2. CASE ~full
      BY <1>6, <3>2 DEF funTransformBuffer, TypeOK
    <3> QED BY <3>1, <3>2
  <2>3. /\ appJson' = Append(kept, head) /\ transformQueue' = Tail(transformQueue)
        /\ UNCHANGED <<asker, mMap, inbox, serverCollection, poolQueue, worker, job>>
    BY <1>6 DEF funTransformBuffer, seenVars, linkVars, poolVars
  <2> HIDE DEF head, kept, full
  <2>4. ToSet(appJson') = ToSet(kept) \cup {head}
    BY <2>1, <2>2, <2>3, AppendFacts
  <2>5. UnderWay \subseteq UnderWay' \cup lost'
    BY <2>1, <2>2, <2>3, <2>4 DEF UnderWay, ToSet
  <2> QED BY <1>1, <2>2, <2>3, <2>5 DEF Listed
<1>7. CASE subscribeCallback
  <2> DEFINE head == Head(appJson)
  <2>1. ToSet(appJson) = {head} \cup ToSet(Tail(appJson)) /\ head \in Requests
    BY <1>7, TailFacts DEF subscribeCallback, TypeOK
  <2>2. /\ appJson' = Tail(appJson) /\ UNCHANGED <<asker, mMap, inbox, lost, transformQueue, worker, job>>
        /\ \/ UNCHANGED serverCollection /\ head \in Jobs /\ poolQueue' = Append(poolQueue, head)
           \/ UNCHANGED poolQueue /\ serverCollection' = Append(serverCollection, head)
    BY <1>7 DEF subscribeCallback, Enqueue, seenVars, linkVars, poolVars, Planned
  <2> HIDE DEF head
  <2>3. \/ UNCHANGED serverCollection /\ ToSet(poolQueue') = ToSet(poolQueue) \cup {head}
        \/ UNCHANGED poolQueue /\ ToSet(serverCollection') = ToSet(serverCollection) \cup {head}
    <3>1. head \in Jobs => ToSet(Append(poolQueue, head)) = ToSet(poolQueue) \cup {head}
      BY AppendFacts DEF TypeOK, PoolTypeOK
    <3>2. ToSet(Append(serverCollection, head)) = ToSet(serverCollection) \cup {head}
      BY <2>1, AppendFacts DEF TypeOK
    <3> QED BY <2>2, <3>1, <3>2
  <2>4. UnderWay \subseteq UnderWay'
    BY <2>1, <2>2, <2>3 DEF UnderWay, ToSet
  <2> QED BY <1>1, <2>2, <2>4 DEF Listed
<1>8. ASSUME NEW w \in Workers, AnswerFullPath(w)
      PROVE  NoneForgotten'
  <2>1. job[w] \in Requests /\ worker' = [worker EXCEPT ![w] = "test"]
        /\ job' = [job EXCEPT ![w] = NoJob]
    BY <1>8 DEF AnswerFullPath, Finish, BusyWithJob, Requests, Planned
  <2>2. ToSet(Append(serverCollection, job[w])) = ToSet(serverCollection) \cup {job[w]}
    BY <2>1, AppendFacts DEF TypeOK
  <2>3. /\ serverCollection' = Append(serverCollection, job[w])
        /\ UNCHANGED <<asker, mMap, inbox, lost, transformQueue, appJson, poolQueue>>
    BY <1>8 DEF AnswerFullPath, Finish, seenVars, linkVars
  <2>4. \A v \in Workers \ {w} : worker'[v] = worker[v] /\ job'[v] = job[v]
    BY <2>1 DEF TypeOK, PoolTypeOK
  <2>5. UnderWay \subseteq UnderWay'
    BY <2>2, <2>3, <2>4 DEF UnderWay, ToSet
  <2> QED BY <1>1, <2>3, <2>5 DEF Listed
<1>9. ASSUME NEW w \in Workers, Test(w) \/ Wait(w) \/ Wake(w), UNCHANGED <<linkVars, queueVars, seenVars>>
      PROVE  NoneForgotten'
  <2>0. UNCHANGED <<asker, mMap, inbox, lost, transformQueue, appJson, serverCollection>>
    BY <1>9 DEF linkVars, queueVars, seenVars
  <2>1. CASE Dequeue(w) /\ worker[w] # "running"
    <3>1. ToSet(poolQueue) = {Head(poolQueue)} \cup ToSet(Tail(poolQueue))
      BY <2>1, TailFacts DEF Dequeue, TypeOK, PoolTypeOK
    <3>2. /\ worker'[w] = "running" /\ job'[w] = Head(poolQueue) /\ poolQueue' = Tail(poolQueue)
          /\ \A v \in Workers \ {w} : worker'[v] = worker[v] /\ job'[v] = job[v]
      BY <2>1 DEF Dequeue, TypeOK, PoolTypeOK
    <3>3. UnderWay \subseteq UnderWay'
      BY <2>0, <2>1, <3>1, <3>2, ZenonT(30) DEF UnderWay, ToSet
    <3> QED BY <1>1, <2>0, <3>3 DEF Listed
  <2>2. ASSUME NEW place \in {"towait", "waiting", "test"}, Moves(w, place), worker[w] # "running"
        PROVE  NoneForgotten'
    <3>1. /\ UNCHANGED <<poolQueue, job>> /\ worker'[w] # "running"
          /\ \A v \in Workers \ {w} : worker'[v] = worker[v]
      BY <2>2 DEF Moves, TypeOK, PoolTypeOK
    <3>2. UnderWay = UnderWay'
      BY <2>0, <2>2, <3>1 DEF UnderWay, ToSet
    <3> QED BY <1>1, <2>0, <3>2 DEF Listed
  <2> QED BY <1>9, <2>1, <2>2 DEF Test, Wait, Wake
<1>10. CASE Broadcast
  <2> DEFINE head == Head(serverCollection)
  <2>1. /\ ToSet(serverCollection) = {head} \cup ToSet(Tail(serverCollection)) /\ head \in Requests
        /\ serverCollection' = Tail(serverCollection)
        /\ UNCHANGED <<asker, mMap, lost, transformQueue, appJson, poolQueue, worker, job>>
    BY <1>10, TailFacts DEF Broadcast, TypeOK, linkVars, poolVars
  <2>2. \A c \in Listed : c \in Clients /\ inbox'[c] = Append(inbox[c], head)
    BY <1>10 DEF Broadcast, TypeOK
  <2> HIDE DEF head
  <2>3. ASSUME NEW c \in Listed
        PROVE  ToSet(inbox'[c]) = ToSet(inbox[c]) \cup {head}
    <3>1. inbox[c] \in Seq(Requests)
      BY <2>2 DEF TypeOK
    <3>2. ToSet(Append(inbox[c], head)) = ToSet(inbox[c]) \cup {head}
      BY <2>1, <3>1, AppendFacts
    <3> QED BY <2>2, <3>2
  <2>4. UnderWay \subseteq UnderWay' \cup {head}
    BY <2>1 DEF UnderWay, ToSet
  <2> QED BY <1>1, <2>1, <2>3, <2>4 DEF Listed
<1>11. CASE NotifyOne
  <2>1. /\ UNCHANGED <<asker, mMap, inbox, lost, transformQueue, appJson, serverCollection, poolQueue, job>>
        /\ \A v \in Workers : worker[v] = "running" <=> worker'[v] = "running"
    BY <1>11 DEF NotifyOne, Notify, linkVars, queueVars, seenVars, TypeOK, PoolTypeOK
  <2>2. UnderWay = UnderWay'
    BY <2>1 DEF UnderWay, ToSet
  <2> QED BY <1>1, <2>1, <2>2 DEF Listed
<1>12. CASE Publishers \/ SubThread \/ UNCHANGED vars
  <2>1. UNCHANGED <<linkVars, queueVars, inbox, poolVars>>
    BY <1>12 DEF Publishers, sendRequestData, SubThread, BeginPass, TakeTurn, ClearNotice, vars, seenVars
  <2> QED BY <1>2, <2>1 DEF linkVars, queueVars, poolVars, Listed
<1>13. ASSUME NEW w \in Workers, Worker(w)
       PROVE  NoneForgotten'
  BY <1>8, <1>9, <1>13 DEF Worker
<1>14. CASE Asio
  BY <1>3, <1>4, <1>5, <1>14 DEF Asio, on_message
<1> QED BY <1>6, <1>7, <1>10, <1>11, <1>12, <1>13, <1>14 DEF Next, Node

-----------------------------------------------------------------------------
WInv ==
  /\ TypeOK /\ PoolInv /\ BusyWithJob
  /\ PassInv /\ NoticeInv
  /\ SentInv /\ InboxesInOrder
  /\ AskersOpened /\ NoneForgotten

LEMMA ServerInit == Init => WInv
<1> SUFFICES ASSUME Init PROVE WInv
  OBVIOUS
<1>1. PoolInv /\ PoolTypeOK /\ BusyWithJob
  <2>1. PoolInv
    BY PoolInitInv DEF Init
  <2> QED BY <2>1 DEF Init, PoolInit, PoolInv, BusyWithJob
<1>2. LinkTypes /\ PassInv
  <2>1. Listed = {} /\ left = {} /\ turn = <<NoClient, "rest">>
    BY DEF Init, Listed
  <2> QED BY <2>1 DEF Init, LinkTypes, PassInv, Turns
<1>3. QueueTypes
  <2>1. <<>> \in Seq(Requests) /\ Len(<<>>) = 0
    OBVIOUS
  <2> QED BY <2>1, BoundsAssumption DEF Init, QueueTypes
<1>4. NoticeTypes /\ NoticeInv
  <2>1. /\ made = 0 /\ calls = 0 /\ notices = <<>> /\ DOMAIN notices = {}
        /\ dataMap = [notice |-> 0, status |-> 0] /\ statusSeen = [c \in Clients |-> 0]
    BY DEF Init
  <2> QED BY <2>1, BoundsAssumption DEF NoticeTypes, NoticeInv, NoticeOnce
<1>5. /\ DOMAIN <<>> = {} /\ ToSet(<<>>) = {} /\ Directs(<<>>) = {}
  BY DEF ToSet, Directs
<1>6. SentInv /\ InboxesInOrder
  BY <1>5 DEF Init, SentInv, InboxesInOrder, Chain, InOrder, Ahead
<1>7. AskersOpened /\ NoneForgotten
  BY RequestsAssumption DEF Init, AskersOpened, NoneForgotten, Listed
<1> QED BY <1>1, <1>2, <1>3, <1>4, <1>6, <1>7, TypeParts DEF WInv

LEMMA ServerStep == WInv /\ [Next]_vars => WInv'
<1> SUFFICES ASSUME WInv, [Next]_vars PROVE WInv'
  OBVIOUS
<1> USE DEF WInv
<1>1. PoolTypeOK /\ LinkTypes /\ QueueTypes /\ NoticeTypes
  BY TypeParts
<1>2. [PoolNext]_poolVars
  BY PoolStep
<1>3. PoolInv' /\ PoolTypeOK' /\ BusyWithJob'
  BY <1>1, <1>2, PoolStepInv, BusyStep DEF PoolInv
<1>4. LinkTypes' /\ PassInv' /\ QueueTypes' /\ NoticeTypes' /\ NoticeInv'
  BY <1>1, LinkStep, QueueStep, NoticeStep
<1>5. TypeOK'
  BY <1>3, <1>4 DEF TypeOK, LinkTypes, QueueTypes, NoticeTypes
<1>6. SentInv' /\ InboxesInOrder' /\ AskersOpened' /\ NoneForgotten'
  BY <1>1, SentStep, ChainStep, AskersStep, ForgottenStep
<1> QED BY <1>3, <1>4, <1>5, <1>6

(* Queues, workers, lists and inboxes fit together in every interleaving of *)
(* the threads: the invariant of the theorems below.                        *)
THEOREM ServerInvHolds == Spec => []WInv
BY ServerInit, ServerStep, PTL DEF Spec

(* Queues, lists and notices have their types; only open connections are     *)
(* listed.                                                                   *)
THEOREM ServerTypeCorrect == Spec => []TypeOK
<1>1. WInv => TypeOK BY DEF WInv
<1> QED BY <1>1, ServerInvHolds, PTL

(* No notice is sent twice, though it is cleared only after it was sent, to  *)
(* whomever, and may be replaced in between.                                 *)
THEOREM NoticesAreSentOnce == Spec => []NoticeOnce
<1>1. WInv => NoticeOnce BY DEF WInv, NoticeInv
<1> QED BY <1>1, ServerInvHolds, PTL

(* Every connection gets the direct answers in the order of the requests and *)
(* none twice, whatever the topic drops and the pool is given.               *)
THEOREM AnswersComeInOrder == Spec => []DirectAnswersInOrder
<1>1. WInv => DirectAnswersInOrder
  BY DEF WInv, InboxesInOrder, Chain, InOrder, Precedes, DirectAnswersInOrder, Before
<1> QED BY <1>1, ServerInvHolds, PTL

(* Nor does the broadcast to all connections repeat one.                    *)
THEOREM AnswersComeOnce == Spec => []AnsweredOnce
<1>1. WInv => AnsweredOnce
  <2> SUFFICES ASSUME WInv, NEW c \in Clients, NEW i \in DOMAIN inbox[c], NEW j \in DOMAIN inbox[c],
                      inbox[c][i] \in Direct, inbox[c][i] = inbox[c][j], i < j
               PROVE  FALSE
    <3>1. WInv => \A c \in Clients : DOMAIN inbox[c] \subseteq Nat
      BY DEF WInv, TypeOK
    <3> QED BY <3>1 DEF AnsweredOnce
  <2>1. Precedes(sent, inbox[c][i], inbox[c][i])
    BY DEF WInv, InboxesInOrder, Chain, InOrder
  <2>2. DOMAIN sent \subseteq Nat /\ \A k, l \in DOMAIN sent : sent[k] = sent[l] => k = l
    BY DEF WInv, SentInv, TypeOK
  <2> QED BY <2>1, <2>2 DEF Precedes
<1> QED BY <1>1, ServerInvHolds, PTL

(* A request whose sender is still listed is on its way, answered or dropped *)
(* by the topic: no queue, thread or worker loses it.                        *)
THEOREM NoRequestIsForgotten == Spec => []NoneForgotten
<1>1. WInv => NoneForgotten BY DEF WInv
<1> QED BY <1>1, ServerInvHolds, PTL

(* The pool of the server leaves no job behind. *)
THEOREM ServerLosesNoJob == Spec => []NoJobLeftBehind
BY ServerUsesPool, PoolLosesNoJob, PTL

-----------------------------------------------------------------------------
(* The map that is sent.  What a loop over a list of any length computes is  *)
(* an induction over the list; the numbers for which a fact holds are a set, *)
(* and a set of naturals with 0 and with every next number is all of them.   *)
LEMMA LeastNumber ==
  ASSUME NEW T \in SUBSET Nat, T # {}
  PROVE  \E x \in T : \A y \in T : x <= y
<1> DEFINE Upto == {0 .. x : x \in T}
<1>1. Upto \subseteq FiniteSubsetsOf(Nat)
  <2> SUFFICES ASSUME NEW x \in T PROVE 0 .. x \in FiniteSubsetsOf(Nat)
    OBVIOUS
  <2>1. IsFiniteSet(0 .. x)
    BY FS_Interval
  <2> QED BY <2>1 DEF FiniteSubsetsOf
<1>2. Upto # {}
  OBVIOUS
<1>3. PICK s \in Upto : \A t \in Upto : <<t, s>> \notin StrictSubsetOrdering(Nat)
  BY <1>1, <1>2, WFMin, FS_StrictSubsetOrderingWellFounded
<1>4. PICK x \in T : s = 0 .. x
  OBVIOUS
<1>5. ASSUME NEW y \in T, ~ (x <= y) PROVE FALSE
  <2>1. 0 .. y \in Upto /\ 0 .. y \subseteq s /\ 0 .. y # s
    BY <1>4, <1>5
  <2>2. <<0 .. y, s>> \in StrictSubsetOrdering(Nat)
    BY <2>1, <1>4 DEF StrictSubsetOrdering
  <2> QED BY <2>1, <2>2, <1>3
<1> QED BY <1>4, <1>5

(* Induction, over a set.                                                   *)
LEMMA SetInduction ==
  ASSUME NEW S, 0 \in S, \A n \in Nat : n \in S => n + 1 \in S
  PROVE  Nat \subseteq S
<1> SUFFICES ASSUME Nat \ S # {} PROVE FALSE
  OBVIOUS
<1>1. PICK x \in Nat \ S : \A y \in Nat \ S : x <= y
  BY LeastNumber
<1>2. x # 0 /\ x - 1 \in Nat
  BY <1>1
<1>3. x - 1 \in S
  BY <1>1, <1>2
<1> QED BY <1>1, <1>2, <1>3

(* A function over 0 .. N that is defined by recursion exists.             *)
Iterates(N, V, a, g) ==
  \E f \in [0 .. N -> V] : f[0] = a /\ \A i \in 1 .. N : f[i] = g[i][f[i - 1]]

LEMMA FunctionByRecursion ==
  ASSUME NEW N \in Nat, NEW V, NEW a \in V, NEW g \in [1 .. N -> [V -> V]]
  PROVE  Iterates(N, V, a, g)
<1> DEFINE Upto(n, f) == f[0] = a /\ \A i \in 1 .. n : f[i] = g[i][f[i - 1]]
           S == {n \in Nat : n <= N => \E f \in [0 .. n -> V] : Upto(n, f)}
<1>1. 0 \in S
  <2>1. [i \in 0 .. 0 |-> a] \in [0 .. 0 -> V] /\ Upto(0, [i \in 0 .. 0 |-> a])
    OBVIOUS
  <2> QED BY <2>1
<1>2. ASSUME NEW n \in Nat, n \in S PROVE n + 1 \in S
  <2> SUFFICES ASSUME n + 1 <= N PROVE \E f \in [0 .. n + 1 -> V] : Upto(n + 1, f)
    OBVIOUS
  <2>1. PICK f \in [0 .. n -> V] : Upto(n, f)
    BY <1>2
  <2> DEFINE h == [i \in 0 .. n + 1 |-> IF i = n + 1 THEN g[n + 1][f[n]] ELSE f[i]]
  <2>2. h \in [0 .. n + 1 -> V]
    OBVIOUS
  <2>3. h[0] = a
    BY <2>1
  <2>4. ASSUME NEW i \in 1 .. n + 1 PROVE h[i] = g[i][h[i - 1]]
    BY <2>1
  <2> QED BY <2>2, <2>3, <2>4
<1>3. N \in S
  <2> HIDE DEF S
  <2> QED BY <1>1, <1>2, SetInduction
<1> QED BY <1>3 DEF Iterates

(* What the loop has before and after a cell.                              *)
Passes == [dataList : Seq(Int), count : Nat]

LEMMA LoopRuns ==
  ASSUME NEW cells \in Seq(Int)
  PROVE  /\ Loop(cells) \in [0 .. Len(cells) -> Passes]
         /\ Loop(cells)[0] = [dataList |-> <<>>, count |-> 1]
         /\ \A i \in 1 .. Len(cells) :
              Loop(cells)[i] = Iteration(cells, Loop(cells)[i - 1], i)
<1> DEFINE N == Len(cells)
           a == [dataList |-> <<>>, count |-> 1]
           g == [i \in 1 .. N |-> [x \in Passes |-> Iteration(cells, x, i)]]
           Run(f) == [i \in 0 .. N |->
                        IF i = 0 THEN a
                        ELSE Iteration(cells, f[i - 1], i)]
<1>1. a \in Passes
  BY DEF Passes
<1>2. ASSUME NEW i \in 1 .. N, NEW x \in Passes
      PROVE  Iteration(cells, x, i) \in Passes
  BY DEF Iteration, Passes
<1>3. g \in [1 .. N -> [Passes -> Passes]]
  BY <1>2
<1>4. PICK f \in [0 .. N -> Passes] : f[0] = a /\ \A i \in 1 .. N : f[i] = g[i][f[i - 1]]
  <2>1. N \in Nat
    OBVIOUS
  <2> HIDE DEF g, a, N
  <2>2. Iterates(N, Passes, a, g)
    BY <2>1, <1>1, <1>3, FunctionByRecursion
  <2> QED BY <2>2 DEF Iterates
<1>5. f = Run(f)
  <2>1. ASSUME NEW i \in 1 .. N
        PROVE  f[i] = Iteration(cells, f[i - 1], i)
    <3>1. f[i - 1] \in Passes
      OBVIOUS
    <3>2. g[i] = [x \in Passes |-> Iteration(cells, x, i)]
      OBVIOUS
    <3>3. f[i] = g[i][f[i - 1]]
      BY <1>4
    <3> HIDE DEF g
    <3> QED BY <3>1, <3>2, <3>3
  <2> QED BY <2>1, <1>4
<1>6. Loop(cells) = Run(Loop(cells))
  <2> HIDE DEF a
  <2>1. Loop(cells) = CHOOSE h : h = Run(h)
    BY DEF Loop, a
  <2> HIDE DEF Run
  <2> QED BY <2>1, <1>5
<1>7. ASSUME NEW n \in Nat, n <= N => Loop(cells)[n] \in Passes, n + 1 <= N
      PROVE  Loop(cells)[n + 1] \in Passes
  BY <1>6, <1>7, <1>2
<1>8. Nat \subseteq {n \in Nat : n <= N => Loop(cells)[n] \in Passes}
  <2> DEFINE S == {n \in Nat : n <= N => Loop(cells)[n] \in Passes}
  <2>1. 0 \in S
    BY <1>6, <1>1
  <2>2. \A n \in Nat : n \in S => n + 1 \in S
    BY <1>7
  <2> HIDE DEF S
  <2>3. Nat \subseteq S
    BY <2>1, <2>2, SetInduction
  <2> QED BY <2>3 DEF S
<1>9. \A n \in 0 .. N : Loop(cells)[n] \in Passes
  BY <1>8
<1>10. Loop(cells) \in [0 .. N -> Passes]
  <2> DEFINE h == Loop(cells)
  <2>1. h = [i \in 0 .. N |-> h[i]]
    BY <1>6
  <2> HIDE DEF h
  <2> QED BY <2>1, <1>9 DEF h
<1>11. ASSUME NEW i \in 1 .. N
       PROVE  Loop(cells)[i] = Iteration(cells, Loop(cells)[i - 1], i)
  <2> DEFINE h == Loop(cells)
  <2>1. h = [k \in 0 .. N |-> IF k = 0 THEN a ELSE Iteration(cells, h[k - 1], k)]
    BY <1>6
  <2>2. i \in 0 .. N /\ i # 0
    OBVIOUS
  <2> HIDE DEF a, g, N, h
  <2>3. h[i] = Iteration(cells, h[i - 1], i)
    BY <2>1, <2>2
  <2> QED BY <2>3 DEF h
<1>12. Loop(cells)[0] = a
  <2> HIDE DEF a
  <2> QED BY <1>6
<1> QED BY <1>10, <1>11, <1>12

(* The first m pairs of the list are read as the first n cells; ends says   *)
(* with which cell each of them ends.                                       *)
Reads(list, m, cells, n) ==
  \E ends \in [0 .. m -> Nat] :
    /\ ends[0] = 0 /\ ends[m] = n
    /\ \A k \in 1 .. m :
         /\ list[2 * k] \in Nat /\ ends[k] = ends[k - 1] + list[2 * k]
         /\ \A j \in ends[k - 1] + 1 .. ends[k] : cells[j] = list[2 * k - 1]

(* A pair more is a run of cells more.                                     *)
LEMMA OneMorePair ==
  ASSUME NEW list \in Seq(Int), NEW longer \in Seq(Int), NEW m \in Nat,
         NEW cells \in Seq(Int), NEW n \in Nat, NEW count \in Nat,
         Reads(list, m, cells, n), 2 * m <= Len(list),
         \A k \in 1 .. 2 * m : longer[k] = list[k],
         longer[2 * m + 2] = count,
         \A j \in n + 1 .. n + count : cells[j] = longer[2 * m + 1]
  PROVE  Reads(longer, m + 1, cells, n + count)
<1>1. PICK ends \in [0 .. m -> Nat] :
        /\ ends[0] = 0 /\ ends[m] = n
        /\ \A k \in 1 .. m :
             /\ list[2 * k] \in Nat /\ ends[k] = ends[k - 1] + list[2 * k]
             /\ \A j \in ends[k - 1] + 1 .. ends[k] : cells[j] = list[2 * k - 1]
  BY DEF Reads
<1> DEFINE to == [k \in 0 .. m + 1 |-> IF k = m + 1 THEN n + count ELSE ends[k]]
<1>2. to \in [0 .. m + 1 -> Nat] /\ to[0] = 0 /\ to[m + 1] = n + count
  BY <1>1
<1>3. ASSUME NEW k \in 1 .. m
      PROVE  /\ longer[2 * k] \in Nat /\ to[k] = to[k - 1] + longer[2 * k]
             /\ \A j \in to[k - 1] + 1 .. to[k] : cells[j] = longer[2 * k - 1]
  <2>1. to[k] = ends[k] /\ to[k - 1] = ends[k - 1]
    <3>1. k # m + 1 /\ k - 1 # m + 1 /\ k \in 0 .. m + 1 /\ k - 1 \in 0 .. m + 1
      OBVIOUS
    <3> QED BY <3>1
  <2>2. longer[2 * k] = list[2 * k] /\ longer[2 * k - 1] = list[2 * k - 1]
    <3>1. 2 * k \in 1 .. 2 * m /\ 2 * k - 1 \in 1 .. 2 * m
      OBVIOUS
    <3> HIDE DEF to
    <3> QED BY <3>1
  <2>3. /\ list[2 * k] \in Nat /\ ends[k] = ends[k - 1] + list[2 * k]
        /\ \A j \in ends[k - 1] + 1 .. ends[k] : cells[j] = list[2 * k - 1]
    BY <1>1
  <2> HIDE DEF to
  <2> QED BY <2>1, <2>2, <2>3
<1>4. /\ longer[2 * (m + 1)] \in Nat /\ to[m + 1] = to[m] + longer[2 * (m + 1)]
      /\ \A j \in to[m] + 1 .. to[m + 1] : cells[j] = longer[2 * (m + 1) - 1]
  <2>1. to[m] = n /\ to[m + 1] = n + count
    BY <1>1
  <2>2. 2 * (m + 1) = 2 * m + 2 /\ 2 * (m + 1) - 1 = 2 * m + 1
    OBVIOUS
  <2> HIDE DEF to
  <2>3. longer[2 * (m + 1)] = count /\ longer[2 * (m + 1) - 1] = longer[2 * m + 1]
    BY <2>2
  <2> QED BY <2>1, <2>3
<1>5. \A k \in 1 .. m + 1 :
        /\ longer[2 * k] \in Nat /\ to[k] = to[k - 1] + longer[2 * k]
        /\ \A j \in to[k - 1] + 1 .. to[k] : cells[j] = longer[2 * k - 1]
  <2> HIDE DEF to
  <2> TAKE k \in 1 .. m + 1
  <2>1. CASE k \in 1 .. m
    BY <2>1, <1>3
  <2>2. CASE k = m + 1
    BY <2>2, <1>4
  <2> QED BY <2>1, <2>2
<1> HIDE DEF to
<1> QED BY <1>2, <1>5 DEF Reads

(* After cell i, and it is not the last one: what the list holds is every   *)
(* run but the one that lasts, and the value of that one.                   *)
RunOpen(cells, i) ==
  LET list == Loop(cells)[i].dataList
      count == Loop(cells)[i].count
  IN /\ count \in 1 .. i
     /\ \A j \in i - count + 1 .. i : cells[j] = cells[i]
     /\ \E m \in Nat :
          /\ Len(list) = 2 * m + 1 /\ list[2 * m + 1] = cells[i]
          /\ Reads(list, m, cells, i - count)

(* After the last cell every run is in the list.                           *)
Written(list, cells) ==
  \E m \in Nat : Len(list) = 2 * m /\ Reads(list, m, cells, Len(cells))

LEMMA ReadsNothing ==
  ASSUME NEW list, NEW cells PROVE Reads(list, 0, cells, 0)
<1> DEFINE ends == [k \in 0 .. 0 |-> 0]
<1>1. ends \in [0 .. 0 -> Nat] /\ ends[0] = 0
  OBVIOUS
<1> HIDE DEF ends
<1> QED BY <1>1 DEF Reads

LEMMA LongerByOne ==
  ASSUME NEW list \in Seq(Int), NEW x \in Int
  PROVE  /\ Append(list, x) \in Seq(Int) /\ Len(Append(list, x)) = Len(list) + 1
         /\ \A k \in 1 .. Len(list) : Append(list, x)[k] = list[k]
         /\ Append(list, x)[Len(list) + 1] = x
OBVIOUS

LEMMA LongerByTwo ==
  ASSUME NEW list \in Seq(Int), NEW x \in Int, NEW y \in Int
  PROVE  /\ list \o <<x, y>> \in Seq(Int) /\ Len(list \o <<x, y>>) = Len(list) + 2
         /\ \A k \in 1 .. Len(list) : (list \o <<x, y>>)[k] = list[k]
         /\ (list \o <<x, y>>)[Len(list) + 1] = x
         /\ (list \o <<x, y>>)[Len(list) + 2] = y
<1>1. Len(<<x, y>>) = 2 /\ <<x, y>>[1] = x /\ <<x, y>>[2] = y /\ <<x, y>> \in Seq(Int)
  OBVIOUS
<1> DEFINE more == <<x, y>>
<1> HIDE DEF more
<1>2. /\ list \o more \in Seq(Int) /\ Len(list \o more) = Len(list) + 2
      /\ \A k \in 1 .. Len(list) : (list \o more)[k] = list[k]
      /\ (list \o more)[Len(list) + 1] = more[1]
      /\ (list \o more)[Len(list) + 2] = more[2]
  BY <1>1 DEF more
<1> QED BY <1>1, <1>2 DEF more

LEMMA FirstCell ==
  ASSUME NEW cells \in Seq(Int), Len(cells) > 1
  PROVE  RunOpen(cells, 1)
<1>1. Loop(cells)[1] = Iteration(cells, Loop(cells)[0], 1)
  BY LoopRuns
<1>2. Loop(cells)[1] = [dataList |-> <<cells[1]>>, count |-> 1]
  <2>1. Loop(cells)[0].count = 1
    BY LoopRuns
  <2> QED BY <1>1, <2>1 DEF Iteration
<1>3. Len(<<cells[1]>>) = 2 * 0 + 1 /\ <<cells[1]>>[2 * 0 + 1] = cells[1]
  OBVIOUS
<1>4. Reads(<<cells[1]>>, 0, cells, 0)
  BY ReadsNothing
<1> QED BY <1>2, <1>3, <1>4 DEF RunOpen

(* One pass of the loop.                                                   *)
LEMMA NextCell ==
  ASSUME NEW cells \in Seq(Int), NEW i \in 2 .. Len(cells), RunOpen(cells, i - 1)
  PROVE  /\ i # Len(cells) => RunOpen(cells, i)
         /\ i = Len(cells) => Written(Loop(cells)[i].dataList, cells)
<1> DEFINE list == Loop(cells)[i - 1].dataList
           count == Loop(cells)[i - 1].count
           longer == Loop(cells)[i].dataList
           n == i - 1 - count
<1>1. /\ list \in Seq(Int) /\ longer \in Seq(Int)
      /\ Loop(cells)[i] = Iteration(cells, Loop(cells)[i - 1], i)
      /\ cells[i] \in Int
  <2>1. i \in 1 .. Len(cells) /\ i - 1 \in 0 .. Len(cells) /\ i \in 0 .. Len(cells)
    OBVIOUS
  <2>2. Loop(cells)[i - 1] \in Passes /\ Loop(cells)[i] \in Passes
    BY <2>1, LoopRuns
  <2>3. Loop(cells)[i] = Iteration(cells, Loop(cells)[i - 1], i)
    BY <2>1, LoopRuns
  <2> QED BY <2>1, <2>2, <2>3 DEF Passes
<1>2. /\ count \in 1 .. i - 1 /\ n \in Nat
      /\ \A j \in n + 1 .. i - 1 : cells[j] = cells[i - 1]
  BY DEF RunOpen
<1>3. PICK m \in Nat : /\ Len(list) = 2 * m + 1 /\ list[2 * m + 1] = cells[i - 1]
                       /\ Reads(list, m, cells, n)
  BY DEF RunOpen
<1> HIDE DEF list, count, longer, n
<1>4. n + count = i - 1 /\ count \in Nat /\ count + 1 \in Nat /\ i - 1 \in Nat
  BY <1>2 DEF n
<1>5. 2 * (m + 1) = 2 * m + 2 /\ 2 * ((m + 1) + 1) = 2 * m + 4 /\ 2 * m <= Len(list)
      /\ \A k \in 1 .. 2 * m : k \in 1 .. 2 * m + 1
  BY <1>3
<1>6. CASE cells[i] = cells[i - 1]
  <2>1. Loop(cells)[i] = [dataList |-> IF i = Len(cells) THEN Append(list, count + 1) ELSE list,
                          count |-> count + 1]
    <3>1. i # 1
      OBVIOUS
    <3> QED BY <3>1, <1>1, <1>6, Zenon DEF Iteration, list, count
  <2>2. \A j \in n + 1 .. n + (count + 1) : cells[j] = cells[i]
    BY <1>2, <1>4, <1>6
  <2>3. CASE i # Len(cells)
    <3>1. longer = list /\ Loop(cells)[i].count = count + 1
      BY <2>3, <2>1 DEF longer
    <3>2. i - (count + 1) = n
      BY <1>2 DEF n
    <3> QED BY <3>1, <3>2, <2>2, <2>3, <1>2, <1>3, <1>6 DEF RunOpen, longer
  <2>4. CASE i = Len(cells)
    <3>1. longer = Append(list, count + 1)
      BY <2>4, <2>1 DEF longer
    <3>2. /\ \A k \in 1 .. 2 * m + 1 : longer[k] = list[k]
          /\ longer[2 * m + 2] = count + 1 /\ Len(longer) = 2 * m + 2
      <4>1. /\ Len(longer) = Len(list) + 1 /\ longer[Len(list) + 1] = count + 1
            /\ \A k \in 1 .. Len(list) : longer[k] = list[k]
        BY <3>1, <1>1, <1>4, LongerByOne
      <4>2. Len(list) + 1 = 2 * m + 2
        BY <1>3
      <4> QED BY <4>1, <4>2, <1>3
    <3>3. longer[2 * m + 1] = cells[i]
      BY <3>2, <1>3, <1>6
    <3>4. \A k \in 1 .. 2 * m : longer[k] = list[k]
      BY <3>2
    <3>5. Reads(longer, m + 1, cells, n + (count + 1))
      BY <3>2, <3>3, <3>4, <2>2, <1>1, <1>2, <1>3, <1>4, <1>5, OneMorePair
    <3>6. n + (count + 1) = Len(cells)
      BY <1>2, <2>4 DEF n
    <3>7. Written(longer, cells)
      BY <3>2, <3>5, <3>6, <1>5 DEF Written
    <3> QED BY <3>7, <2>4 DEF longer
  <2> QED BY <2>3, <2>4
<1>7. CASE cells[i] # cells[i - 1]
  <2>1. \A j \in n + 1 .. n + count : cells[j] = cells[i - 1]
    BY <1>2, <1>4
  <2>2. ASSUME \A k \in 1 .. 2 * m + 1 : longer[k] = list[k], longer[2 * m + 2] = count
        PROVE  Reads(longer, m + 1, cells, i - 1)
    <3>1. longer[2 * m + 1] = cells[i - 1] /\ \A k \in 1 .. 2 * m : longer[k] = list[k]
      BY <2>2, <1>3
    <3>2. Reads(longer, m + 1, cells, n + count)
      BY <3>1, <2>1, <2>2, <1>1, <1>2, <1>3, <1>4, <1>5, OneMorePair
    <3> QED BY <3>2, <1>4
  <2> DEFINE more == list \o <<count, cells[i]>>
  <2>3. /\ more \in Seq(Int) /\ Len(more) = 2 * m + 3
        /\ \A k \in 1 .. 2 * m + 1 : more[k] = list[k]
        /\ more[2 * m + 2] = count /\ more[2 * m + 3] = cells[i]
    <3>1. /\ more \in Seq(Int) /\ Len(more) = Len(list) + 2
          /\ \A k \in 1 .. Len(list) : more[k] = list[k]
          /\ more[Len(list) + 1] = count /\ more[Len(list) + 2] = cells[i]
      BY <1>1, <1>4, LongerByTwo, SMTT(30)
    <3> HIDE DEF more
    <3>2. Len(list) + 1 = 2 * m + 2 /\ Len(list) + 2 = 2 * m + 3
      BY <1>3
    <3> QED BY <3>1, <3>2, <1>3
  <2>4. Loop(cells)[i] = [dataList |-> more \o (IF i = Len(cells) THEN <<1>> ELSE <<>>),
                          count |-> 1]
    <3>1. i # 1
      OBVIOUS
    <3> QED BY <3>1, <1>1, <1>7, Zenon DEF Iteration, list, count, more
  <2> HIDE DEF more
  <2>5. CASE i # Len(cells)
    <3>1. longer = more /\ Loop(cells)[i].count = 1
      <4>1. more \o <<>> = more
        BY <2>3
      <4>2. more \o (IF i = Len(cells) THEN <<1>> ELSE <<>>) = more
        BY <4>1, <2>5
      <4>3. Loop(cells)[i] = [dataList |-> more, count |-> 1]
        BY <4>2, <2>4
      <4> QED BY <4>3 DEF longer
    <3>2. Reads(longer, m + 1, cells, i - 1)
      BY <3>1, <2>2, <2>3
    <3>3. Len(longer) = 2 * (m + 1) + 1 /\ longer[2 * (m + 1) + 1] = cells[i] /\ m + 1 \in Nat
      <4>1. 2 * (m + 1) + 1 = 2 * m + 3 /\ m + 1 \in Nat
        OBVIOUS
      <4>2. Len(longer) = 2 * m + 3
        BY <3>1, <2>3
      <4>3. longer[2 * m + 3] = cells[i]
        BY <3>1, <2>3
      <4> HIDE DEF longer
      <4> QED BY <4>1, <4>2, <4>3, Zenon
    <3>4. \A j \in i - 1 + 1 .. i : cells[j] = cells[i]
      OBVIOUS
    <3> QED BY <3>1, <3>2, <3>3, <3>4, <2>5 DEF RunOpen, longer
  <2>6. CASE i = Len(cells)
    <3>1. longer = Append(more, 1)
      BY <2>3, <2>4, <2>6 DEF longer
    <3>2. /\ Len(longer) = 2 * m + 4 /\ longer[2 * m + 4] = 1
          /\ \A k \in 1 .. 2 * m + 3 : longer[k] = more[k]
      <4>1. /\ Len(longer) = Len(more) + 1 /\ longer[Len(more) + 1] = 1
            /\ \A k \in 1 .. Len(more) : longer[k] = more[k]
        <5>1. \A x \in Int : /\ Len(Append(more, x)) = Len(more) + 1
                             /\ Append(more, x)[Len(more) + 1] = x
                             /\ \A k \in 1 .. Len(more) : Append(more, x)[k] = more[k]
          BY <2>3, LongerByOne
        <5> QED BY <5>1, <3>1
      <4>2. Len(more) + 1 = 2 * m + 4
        BY <2>3
      <4> QED BY <4>1, <4>2, <2>3
    <3>3. /\ \A k \in 1 .. 2 * m + 1 : longer[k] = list[k]
          /\ longer[2 * m + 2] = count /\ longer[2 * m + 3] = cells[i]
      BY <3>2, <2>3
    <3>4. Reads(longer, m + 1, cells, i - 1)
      BY <3>3, <2>2
    <3>5. /\ longer[2 * (m + 1) + 2] = 1
          /\ \A j \in (i - 1) + 1 .. (i - 1) + 1 : cells[j] = longer[2 * (m + 1) + 1]
          /\ 2 * (m + 1) <= Len(longer) /\ m + 1 \in Nat
      <4>1. 2 * (m + 1) + 2 = 2 * m + 4 /\ 2 * (m + 1) + 1 = 2 * m + 3
        OBVIOUS
      <4> QED BY <3>2, <3>3, <4>1
    <3>6. Reads(longer, (m + 1) + 1, cells, (i - 1) + 1)
      BY <3>4, <3>5, <1>1, <1>4, OneMorePair
    <3>7. (i - 1) + 1 = Len(cells) /\ Len(longer) = 2 * ((m + 1) + 1) /\ (m + 1) + 1 \in Nat
      BY <2>6, <3>2, <1>5
    <3>8. Written(longer, cells)
      BY <3>6, <3>7 DEF Written
    <3> QED BY <3>8, <2>6 DEF longer
  <2> QED BY <2>5, <2>6
<1> QED BY <1>6, <1>7

(* What is encoded stands for the cells.                                   *)
LEMMA EncodeWritten ==
  ASSUME NEW cells \in Seq(Int), Len(cells) > 1
  PROVE  Written(Encode(cells), cells)
<1> DEFINE S == {n \in Nat : n + 1 < Len(cells) => RunOpen(cells, n + 1)}
<1>1. 0 \in S
  BY FirstCell
<1>2. ASSUME NEW n \in Nat, n \in S PROVE n + 1 \in S
  <2> SUFFICES ASSUME (n + 1) + 1 < Len(cells) PROVE RunOpen(cells, (n + 1) + 1)
    OBVIOUS
  <2>1. (n + 1) + 1 \in 2 .. Len(cells) /\ (n + 1) + 1 # Len(cells)
        /\ ((n + 1) + 1) - 1 = n + 1 /\ n + 1 < Len(cells)
    OBVIOUS
  <2>2. RunOpen(cells, n + 1)
    BY <1>2, <2>1
  <2> HIDE DEF S
  <2> QED BY <2>1, <2>2, NextCell
<1>3. Len(cells) - 2 \in S
  <2>1. Len(cells) - 2 \in Nat
    OBVIOUS
  <2> HIDE DEF S
  <2> QED BY <2>1, <1>1, <1>2, SetInduction
<1>4. RunOpen(cells, Len(cells) - 1)
  BY <1>3
<1>5. Len(cells) \in 2 .. Len(cells)
  OBVIOUS
<1>6. Written(Loop(cells)[Len(cells)].dataList, cells)
  BY <1>4, <1>5, NextCell
<1> QED BY <1>6 DEF Encode

(* What an app reads, pair by pair.                                         *)
LEMMA ReadingRuns ==
  ASSUME NEW list \in Seq(Int), NEW m \in Nat, Len(list) = 2 * m,
         \A k \in 1 .. m : list[2 * k] \in Nat
  PROVE  /\ Reading(list)[0] = <<>>
         /\ \A k \in 1 .. m : Reading(list)[k] = ReadPair(Reading(list)[k - 1], list, k)
<1> DEFINE g == [k \in 1 .. m |-> [x \in Seq(Int) |-> ReadPair(x, list, k)]]
           Run(f) == [k \in 0 .. m |-> IF k = 0 THEN <<>> ELSE ReadPair(f[k - 1], list, k)]
<1>1. <<>> \in Seq(Int) /\ Len(list) \div 2 = m
  OBVIOUS
<1>2. ASSUME NEW k \in 1 .. m, NEW x \in Seq(Int)
      PROVE  ReadPair(x, list, k) \in Seq(Int)
  <2>1. 2 * k \in 1 .. Len(list) /\ 2 * k - 1 \in 1 .. Len(list)
    OBVIOUS
  <2>2. list[2 * k - 1] \in Int /\ list[2 * k] \in Nat
    BY <2>1
  <2>3. [j \in 1 .. list[2 * k] |-> list[2 * k - 1]] \in Seq(Int)
    BY <2>2
  <2> QED BY <2>3, ConcatProperties DEF ReadPair
<1>3. g \in [1 .. m -> [Seq(Int) -> Seq(Int)]]
  BY <1>2
<1>4. PICK f \in [0 .. m -> Seq(Int)] : f[0] = <<>> /\ \A k \in 1 .. m : f[k] = g[k][f[k - 1]]
  <2> HIDE DEF g
  <2>1. Iterates(m, Seq(Int), <<>>, g)
    BY <1>1, <1>3, FunctionByRecursion
  <2> QED BY <2>1 DEF Iterates
<1>5. f = Run(f)
  <2>1. ASSUME NEW k \in 1 .. m PROVE f[k] = ReadPair(f[k - 1], list, k)
    <3>1. f[k - 1] \in Seq(Int)
      OBVIOUS
    <3>2. g[k] = [x \in Seq(Int) |-> ReadPair(x, list, k)]
      OBVIOUS
    <3>3. f[k] = g[k][f[k - 1]]
      BY <1>4
    <3> HIDE DEF g
    <3> QED BY <3>1, <3>2, <3>3
  <2> HIDE DEF g
  <2> QED BY <2>1, <1>4
<1>6. Reading(list) = Run(Reading(list))
  <2>1. Reading(list) = CHOOSE h : h = Run(h)
    BY <1>1 DEF Reading
  <2> HIDE DEF Run
  <2> QED BY <2>1, <1>5
<1> HIDE DEF g
<1>7. Reading(list)[0] = <<>>
  BY <1>6
<1>8. ASSUME NEW k \in 1 .. m
      PROVE  Reading(list)[k] = ReadPair(Reading(list)[k - 1], list, k)
  BY <1>6, SMTT(30)
<1> QED BY <1>7, <1>8

Run(value, length) == [j \in 1 .. length |-> value]

AllAre(cells, from, to, value) == \A j \in from + 1 .. to : cells[j] = value

(* The first cells, up to one and, with a run of the value, up to another.  *)
Extends(cells, from, to, value, length) ==
  SubSeq(cells, 1, from) \o Run(value, length) = SubSeq(cells, 1, to)

LEMMA RunAppended ==
  ASSUME NEW cells \in Seq(Int), NEW value \in Int, NEW length \in Nat,
         NEW from \in Nat, NEW to \in Nat, to = from + length, to <= Len(cells),
         AllAre(cells, from, to, value)
  PROVE  Extends(cells, from, to, value, length)
<1> DEFINE front == SubSeq(cells, 1, from)
           run == Run(value, length)
           whole == SubSeq(cells, 1, to)
<1>1. front \in Seq(Int) /\ Len(front) = from /\ \A j \in 1 .. from : front[j] = cells[j]
  OBVIOUS
<1>2. run \in Seq(Int) /\ Len(run) = length /\ \A j \in 1 .. length : run[j] = value
  BY DEF Run
<1>3. whole \in Seq(Int) /\ Len(whole) = to /\ \A j \in 1 .. to : whole[j] = cells[j]
  OBVIOUS
<1> HIDE DEF front, run, whole
<1>4. /\ front \o run \in Seq(Int) /\ Len(front \o run) = from + length
      /\ \A i \in 1 .. from + length :
           (front \o run)[i] = IF i <= from THEN front[i] ELSE run[i - from]
  BY <1>1, <1>2, ConcatProperties, ZenonT(30)
<1> DEFINE both == front \o run
<1> HIDE DEF both
<1>5. ASSUME NEW j \in 1 .. to PROVE both[j] = whole[j]
  <2>1. CASE j <= from
    <3>1. j \in 1 .. from
      BY <2>1
    <3> QED BY <3>1, <2>1, <1>1, <1>3, <1>4 DEF both
  <2>2. CASE j > from
    <3>1. j - from \in 1 .. length /\ j \in from + 1 .. to /\ ~ (j <= from)
      BY <2>2
    <3>2. both[j] = run[j - from]
      BY <3>1, <1>4 DEF both
    <3> QED BY <3>1, <3>2, <1>2, <1>3 DEF AllAre
  <2> QED BY <2>1, <2>2
<1>6. both = whole
  BY <1>3, <1>4, <1>5, SeqEqual DEF both
<1> QED BY <1>6 DEF front, run, whole, both, Extends

(* A list that stands for the cells is read as the cells.                  *)
LEMMA WrittenIsRead ==
  ASSUME NEW cells \in Seq(Int), NEW list \in Seq(Int), Written(list, cells)
  PROVE  Decode(list) = cells
<1>1. PICK m \in Nat : Len(list) = 2 * m /\ Reads(list, m, cells, Len(cells))
  BY DEF Written
<1>2. PICK ends \in [0 .. m -> Nat] :
        /\ ends[0] = 0 /\ ends[m] = Len(cells)
        /\ \A k \in 1 .. m :
             /\ list[2 * k] \in Nat /\ ends[k] = ends[k - 1] + list[2 * k]
             /\ \A j \in ends[k - 1] + 1 .. ends[k] : cells[j] = list[2 * k - 1]
  BY <1>1 DEF Reads
<1>3. \A k \in 0 .. m : ends[k] <= Len(cells)
  <2> DEFINE T == {d \in Nat : d <= m => ends[m - d] <= Len(cells)}
  <2>1. 0 \in T
    BY <1>2
  <2>2. ASSUME NEW d \in Nat, d \in T PROVE d + 1 \in T
    <3> SUFFICES ASSUME d + 1 <= m PROVE ends[m - (d + 1)] <= Len(cells)
      OBVIOUS
    <3>1. /\ m - d \in 1 .. m /\ (m - d) - 1 = m - (d + 1)
          /\ m - d \in 0 .. m /\ m - (d + 1) \in 0 .. m
      OBVIOUS
    <3>2. list[2 * (m - d)] \in Nat /\ ends[m - d] = ends[m - (d + 1)] + list[2 * (m - d)]
      BY <3>1, <1>2
    <3>3. ends[m - d] <= Len(cells) /\ ends[m - d] \in Nat /\ ends[m - (d + 1)] \in Nat
      BY <2>2, <3>1
    <3> QED BY <3>2, <3>3, SMTT(30)
  <2>3. Nat \subseteq T
    <3> HIDE DEF T
    <3> QED BY <2>1, <2>2, SetInduction
  <2>4. ASSUME NEW k \in 0 .. m PROVE ends[k] <= Len(cells)
    <3>1. m - k \in Nat /\ m - (m - k) = k /\ m - k <= m
      OBVIOUS
    <3>2. m - k \in T
      <4> HIDE DEF T
      <4> QED BY <2>3, <3>1
    <3> QED BY <3>1, <3>2
  <2> QED BY <2>4
<1> DEFINE Part(k) == SubSeq(cells, 1, ends[k])
           S == {k \in Nat : k <= m => Reading(list)[k] = Part(k)}
<1>4. 0 \in S
  <2>1. Reading(list)[0] = <<>>
    BY <1>1, <1>2, ReadingRuns
  <2>2. Part(0) = <<>>
    BY <1>2
  <2> QED BY <2>1, <2>2
<1>5. ASSUME NEW k \in Nat, k \in S PROVE k + 1 \in S
  <2> SUFFICES ASSUME k + 1 <= m PROVE Reading(list)[k + 1] = Part(k + 1)
    OBVIOUS
  <2>1. Reading(list)[k] = Part(k)
    BY <1>5
  <2>2. k + 1 \in 1 .. m /\ (k + 1) - 1 = k
    OBVIOUS
  <2> DEFINE value == list[2 * (k + 1) - 1]
             length == list[2 * (k + 1)]
  <2>3. Reading(list)[k + 1] = Part(k) \o Run(value, length)
    <3>1. Reading(list)[k + 1] = ReadPair(Reading(list)[(k + 1) - 1], list, k + 1)
      BY <2>2, <1>1, <1>2, ReadingRuns
    <3>2. Reading(list)[k + 1] = ReadPair(Part(k), list, k + 1)
      BY <3>1, <2>1, <2>2, Zenon
    <3> QED BY <3>2, Zenon DEF ReadPair, Run
  <2>4. /\ length \in Nat /\ ends[k + 1] = ends[k] + length /\ value \in Int
        /\ \A j \in ends[k] + 1 .. ends[k + 1] : cells[j] = value
    <3>1. /\ length \in Nat /\ ends[k + 1] = ends[k] + length
          /\ \A j \in ends[k] + 1 .. ends[k + 1] : cells[j] = value
      BY <1>2, <2>2
    <3>2. 2 * (k + 1) - 1 \in 1 .. Len(list)
      BY <2>2, <1>1
    <3> QED BY <3>1, <3>2, ElementOfSeq
  <2>5. ends[k] \in Nat /\ ends[k + 1] \in Nat /\ ends[k + 1] <= Len(cells)
    BY <1>3, <2>2
  <2> HIDE DEF value, length
  <2>6. Part(k) \o Run(value, length) = Part(k + 1)
    <3> DEFINE from == ends[k]
               to == ends[k + 1]
    <3>1. /\ from \in Nat /\ to \in Nat /\ length \in Nat /\ value \in Int
          /\ to = from + length /\ to <= Len(cells)
          /\ AllAre(cells, from, to, value)
      BY <2>4, <2>5 DEF AllAre
    <3> HIDE DEF from, to
    <3>2. Extends(cells, from, to, value, length)
      BY <3>1, RunAppended
    <3> QED BY <3>2 DEF from, to, Extends
  <2> HIDE DEF Part
  <2> QED BY <2>3, <2>6
<1>6. m \in S
  <2> HIDE DEF S
  <2> QED BY <1>4, <1>5, SetInduction
<1>7. Reading(list)[m] = SubSeq(cells, 1, Len(cells))
  BY <1>6, <1>2
<1>8. SubSeq(cells, 1, Len(cells)) = cells
  OBVIOUS
<1>9. Len(list) \div 2 = m
  BY <1>1
<1> QED BY <1>7, <1>8, <1>9 DEF Decode

(* Whatever the cells of a map of more than one are, an app that reads the  *)
(* runs reads the cells.                                                    *)
THEOREM RunsAreRead ==
  ASSUME NEW cells \in Seq(Int), Len(cells) > 1
  PROVE  Decode(Encode(cells)) = cells
<1>1. Encode(cells) \in Seq(Int)
  <2>1. Loop(cells)[Len(cells)] \in Passes
    BY LoopRuns, SMTT(30)
  <2> QED BY <2>1 DEF Encode, Passes
<1> QED BY <1>1, EncodeWritten, WrittenIsRead

-----------------------------------------------------------------------------
(* The free cells are the least pixels of the picture, and no other is 0.  *)
LEMMA LeastPixel ==
  ASSUME NEW T \in SUBSET Nat, 0 \in T
  PROVE  Min(T) = 0
<1>1. \A y \in T : 0 <= y
  OBVIOUS
<1>2. \A x \in T : (\A y \in T : x <= y) => x = 0
  OBVIOUS
<1> QED BY <1>1, <1>2 DEF Min

LEMMA GreatestPixel ==
  ASSUME NEW T \in SUBSET (0 .. 255), T # {}
  PROVE  Max(T) \in T /\ \A y \in T : Max(T) >= y
<1> DEFINE D == {255 - x : x \in T}
<1>1. ASSUME NEW x \in T PROVE x \in 0 .. 255
  OBVIOUS
<1>2. D \subseteq Nat
  BY <1>1
<1>3. D # {}
  OBVIOUS
<1>4. PICK d \in D : \A e \in D : d <= e
  <2> HIDE DEF D
  <2> QED BY <1>2, <1>3, LeastNumber
<1>5. PICK x \in T : d = 255 - x
  OBVIOUS
<1>6. ASSUME NEW y \in T PROVE x >= y
  <2>1. 255 - x <= 255 - y
    BY <1>4, <1>5, ZenonT(30)
  <2> QED BY <2>1, <1>1
<1> QED BY <1>6 DEF Max

LEMMA Spread ==
  ASSUME NEW p \in 0 .. 255, NEW high \in 0 .. 255, p <= high, p # 0
  PROVE  ((p - 0) * 255) \div (high - 0) # 0
<1>1. (p * 255) \div high >= 1
  <2>1. p * 255 >= high /\ high > 0 /\ p * 255 \in Nat /\ high \in Nat
    OBVIOUS
  <2> QED BY <2>1
<1> QED BY <1>1

LEMMA FreePixel ==
  ASSUME NEW c \in -128 .. 127
  PROVE  c % 256 \in 0 .. 255 /\ (c % 256 = 0 <=> c = 0)
OBVIOUS

LEMMA PictureOfFree ==
  ASSUME NEW n \in Nat, NEW grid \in [1 .. n -> -128 .. 127], NEW free \in 1 .. n,
         grid[free] = 0
  PROVE  Picture(grid) = [i \in 1 .. n |-> IF grid[i] = 0 THEN 0 ELSE -1]
<1> DEFINE pixel == [i \in DOMAIN grid |-> grid[i] % 256]
           pixels == {pixel[i] : i \in DOMAIN grid}
           low == Min(pixels)
           high == Max(pixels)
           normal(p) == IF high = low THEN 0 ELSE ((p - low) * 255) \div (high - low)
<1>1. DOMAIN grid = 1 .. n
  OBVIOUS
<1>2. ASSUME NEW i \in 1 .. n
      PROVE  /\ pixel[i] \in 0 .. 255 /\ (pixel[i] = 0 <=> grid[i] = 0)
             /\ pixel[i] \in pixels
  <2>1. grid[i] \in -128 .. 127 /\ pixel[i] = grid[i] % 256
    OBVIOUS
  <2> QED BY <2>1, FreePixel
<1>3. pixels \in SUBSET (0 .. 255) /\ 0 \in pixels
  <2>1. ASSUME NEW p \in pixels PROVE p \in 0 .. 255
    <3>1. PICK i \in 1 .. n : p = pixel[i]
      BY <1>1
    <3> HIDE DEF pixel
    <3> QED BY <3>1, <1>2
  <2>2. 0 \in pixels
    BY <1>2
  <2> QED BY <2>1, <2>2
<1>4. low = 0
  <2> HIDE DEF pixels
  <2>1. pixels \in SUBSET Nat
    BY <1>3
  <2> QED BY <2>1, <1>3, LeastPixel
<1>5. high \in 0 .. 255 /\ \A p \in pixels : p <= high
  <2> HIDE DEF pixels
  <2> QED BY <1>3, GreatestPixel, ZenonT(30)
<1>6. ASSUME NEW i \in 1 .. n PROVE normal(pixel[i]) = 0 <=> grid[i] = 0
  <2> DEFINE p == pixel[i]
  <2>1. p \in 0 .. 255 /\ (p = 0 <=> grid[i] = 0) /\ p <= high
    <3> HIDE DEF pixel, pixels, high
    <3> QED BY <1>2, <1>5
  <2> HIDE DEF p, high, low
  <2>2. CASE p = 0
    <3>1. high # 0 => (0 - 0) * 255 = 0 /\ 0 \div (high - 0) = 0
      BY <1>5
    <3>2. (IF high = low THEN 0 ELSE ((p - low) * 255) \div (high - low)) = 0
      BY <3>1, <2>2, <1>4, <1>5
    <3> QED BY <3>2, <2>1, <2>2 DEF p
  <2>3. CASE p # 0
    <3>1. high # low
      BY <2>1, <2>3, <1>4, <1>5
    <3>2. ((p - low) * 255) \div (high - low) # 0
      BY <2>1, <2>3, <1>4, <1>5, Spread, SMTT(30)
    <3> QED BY <3>1, <3>2, <2>1, <2>3 DEF p
  <2> QED BY <2>2, <2>3
<1>7. Picture(grid) = [i \in DOMAIN grid |-> IF normal(pixel[i]) = 0 THEN 0 ELSE -1]
  BY DEF Picture
<1> HIDE DEF normal, pixel
<1> QED BY <1>1, <1>6, <1>7

(* Every map of more than one cell with a free one among them is shown as    *)
(* it is, whatever its size and the other occupancies.                       *)
THEOREM FreeCellsShown ==
  ASSUME NEW grid \in Grids, Len(grid) > 1, NEW free \in DOMAIN grid, grid[free] = 0
  PROVE  ShownRight(grid)
<1>1. PICK n \in 1 .. MaxCells : grid \in [1 .. n -> Cells]
  BY DEF Grids
<1>2. n \in Nat /\ grid \in [1 .. n -> -128 .. 127] /\ free \in 1 .. n /\ DOMAIN grid = 1 .. n
  <2>1. DOMAIN grid = 1 .. n /\ n \in Nat
    BY <1>1, CellsAssumption
  <2>2. ASSUME NEW i \in 1 .. n PROVE grid[i] \in -128 .. 127
    <3>1. grid[i] \in Cells
      BY <1>1
    <3> QED BY <3>1, CellsAssumption
  <2>3. grid = [i \in 1 .. n |-> grid[i]]
    BY <1>1
  <2> QED BY <2>1, <2>2, <2>3
<1> DEFINE shown == [i \in 1 .. n |-> IF grid[i] = 0 THEN 0 ELSE -1]
<1>3. Picture(grid) = shown
  BY <1>2, PictureOfFree
<1>4. shown \in Seq(Int) /\ Len(shown) = n
  BY <1>2
<1>5. Len(grid) = n
  BY <1>2
<1> HIDE DEF shown
<1>6. Decode(Encode(shown)) = shown
  BY <1>4, <1>5, RunsAreRead
<1> QED BY <1>2, <1>3, <1>6 DEF ShownRight, shown

(* So it is at every moment of the server.                                   *)
THEOREM MapIsShownRight == Spec => []MapShownRight
<1>1. MapShownRight
  <2> SUFFICES ASSUME NEW grid \in Grids, Len(grid) > 1, NEW free \in DOMAIN grid, grid[free] = 0
               PROVE  ShownRight(grid)
    BY DEF MapShownRight
  <2> QED BY FreeCellsShown
<1> QED BY <1>1, PTL
=============================================================================
