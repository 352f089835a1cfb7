------------------------------ MODULE WebServer ------------------------------
(***************************************************************************)
(* The web socket server of WsServerManager.cpp and the way of a request   *)
(* through the node.  The asio thread calls on_open, on_close, on_fail and *)
(* on_message.  A request goes to transformQueue, from there to the topic  *)
(* /app_json, from there to JsonSubscribe in the main loop, and is         *)
(* answered there or, for a plan, by a job of the pool.  Answers wait in   *)
(* serverCollection until WsServerDataThread sends each to every listed    *)
(* connection.  What is subscribed to is kept in dataMap, the last value   *)
(* of each topic, and WsServerSubThread sends it in passes.                *)
(*                                                                         *)
(* askMutex guards mMap.  It is held through a pass, which is many steps   *)
(* here as the setters of dataMap do not take it; every other section      *)
(* under it is one step.                                                   *)
(***************************************************************************)
EXTENDS Naturals, Sequences, SequencesExt, FiniteSets, Functions, ThreadPool,
        MapEncoding

CONSTANTS Clients,       \* the connections that may be opened
          Askers,        \* those that send requests, a bound
          Direct,        \* requests answered by JsonSubscribe
          TopicQueue,    \* queue of the subscriber of /app_json: 3 in the code
          MaxCalls,      \* bound on what apps do and the node publishes
          MaxStatuses,   \* bound on the statuses published
          NoClient

Planned == Jobs          \* requests answered by the pool: GetFullPlanStrategy
Requests == Direct \cup Planned
Topics == {"notice", "status"}

ASSUME RequestsAssumption == Direct \cap Planned = {} /\ NoClient \notin Clients
ASSUME BoundsAssumption ==
  TopicQueue \in Nat \ {0} /\ MaxCalls \in Nat /\ MaxStatuses \in Nat

VARIABLES con,            \* each connection: "none", "open", "closed" or "failed"
          mMap,           \* the subscriptions of the connections that are listed
          asker,          \* who sent each request
          sent,           \* the requests in the order on_message took them
          transformQueue,
          appJson,        \* the callback queue of /app_json
          lost,           \* requests that were dropped or not listened to
          serverCollection,
          dataMap,        \* the last notice and status; 0 is the empty string
          left,           \* connections this pass has still to serve
          turn,           \* the connection it is serving, and what comes next
          inbox,          \* the answers sent to each connection
          notices,        \* the notices sent, to whomever
          statusSeen,     \* the last status sent to each connection
          made,           \* how many notices were published
          calls           \* how many of MaxCalls are used up

linkVars == <<con, mMap>>
queueVars == <<asker, sent, transformQueue, appJson, lost, serverCollection>>
passVars == <<left, turn>>
seenVars == <<inbox, notices, statusSeen>>
bounds == <<made, calls>>
vars == <<linkVars, queueVars, dataMap, passVars, seenVars, bounds, poolVars>>

Listed == DOMAIN mMap
Turns == ({NoClient} \cup Clients) \X {"rest", "next", "clear"}

TypeOK ==
  /\ PoolTypeOK
  /\ con \in [Clients -> {"none", "open", "closed", "failed"}]
  /\ Listed \subseteq {c \in Clients : con[c] = "open"}
  /\ \A c \in Listed : mMap[c] \subseteq Topics
  /\ asker \in [Requests -> Clients \cup {NoClient}]
  /\ sent \in Seq(Requests)
  /\ transformQueue \in Seq(Requests)
  /\ appJson \in Seq(Requests) /\ Len(appJson) <= TopicQueue
  /\ lost \subseteq Requests
  /\ serverCollection \in Seq(Requests)
  /\ dataMap \in [notice : 0..made, status : 0..MaxStatuses]
  /\ left \subseteq Listed
  /\ turn \in Turns
  /\ inbox \in [Clients -> Seq(Requests)]
  /\ notices \in Seq(1..made)
  /\ statusSeen \in [Clients -> 0..MaxStatuses]
  /\ made \in 0..calls /\ calls \in 0..MaxCalls

Init ==
  /\ PoolInit
  /\ con = [c \in Clients |-> "none"]
  /\ mMap = [c \in {} |-> {}]
  /\ asker = [r \in Requests |-> NoClient]
  /\ sent = <<>> /\ transformQueue = <<>> /\ appJson = <<>> /\ lost = {}
  /\ serverCollection = <<>>
  /\ dataMap = [notice |-> 0, status |-> 0]
  /\ left = {} /\ turn = <<NoClient, "rest">>
  /\ inbox = [c \in Clients |-> <<>>] /\ notices = <<>>
  /\ statusSeen = [c \in Clients |-> 0]
  /\ made = 0 /\ calls = 0

askMutexFree == turn[2] = "rest"

Call == calls < MaxCalls /\ calls' = calls + 1

-----------------------------------------------------------------------------
(* The handlers of the asio thread. *)

Unlist(C) == mMap' = Restrict(mMap, Listed \ C)

on_open(c) ==
  /\ con[c] = "none" /\ askMutexFree
  /\ con' = [con EXCEPT ![c] = "open"]
  /\ mMap' = [d \in Listed \cup {c} |-> IF d = c THEN {} ELSE mMap[d]]
  /\ UNCHANGED <<queueVars, dataMap, passVars, seenVars, poolVars>>

(* Mutant: a connection that is closed stays on the list. *)
on_closeStaysListed(c) ==
  /\ con[c] = "open" /\ askMutexFree
  /\ con' = [con EXCEPT ![c] = "closed"]
  /\ UNCHANGED <<mMap, queueVars, dataMap, passVars, seenVars, poolVars>>

on_close(c) ==
  /\ con[c] = "open" /\ askMutexFree
  /\ con' = [con EXCEPT ![c] = "closed"]
  /\ Unlist({c})
  /\ UNCHANGED <<queueVars, dataMap, passVars, seenVars, poolVars>>

(* A handshake fails, and the whole list is cleared. *)
on_fail(c) ==
  /\ con[c] = "none" /\ askMutexFree
  /\ con' = [con EXCEPT ![c] = "failed"]
  /\ Unlist(Clients)
  /\ UNCHANGED <<queueVars, dataMap, passVars, seenVars, poolVars>>

Subscribe(c, topic) ==
  /\ c \in Listed /\ askMutexFree
  /\ mMap' = [mMap EXCEPT ![c] = @ \cup {topic}]
  /\ UNCHANGED <<con, queueVars, dataMap, passVars, seenVars, poolVars>>

(* The request of a connection that is not listed is not looked at. *)
Publish(c, r) ==
  /\ con[c] = "open" /\ askMutexFree /\ asker[r] = NoClient
  /\ asker' = [asker EXCEPT ![r] = c]
  /\ IF c \in Listed
     THEN /\ transformQueue' = Append(transformQueue, r)
          /\ sent' = Append(sent, r)
          /\ UNCHANGED lost
     ELSE /\ lost' = lost \cup {r}
          /\ UNCHANGED <<transformQueue, sent>>
  /\ UNCHANGED <<linkVars, appJson, serverCollection, dataMap, passVars,
                 seenVars, poolVars>>

on_message(c) ==
  \/ \E topic \in Topics : Subscribe(c, topic)
  \/ c \in Askers /\ \E r \in Requests : Publish(c, r)

-----------------------------------------------------------------------------
(* The thread of startWebSocket, which passes a request on every 300 ms.     *)
(* The topic drops its oldest message when the main loop does not keep up.   *)
funTransformBuffer ==
  /\ transformQueue # <<>>
  /\ transformQueue' = Tail(transformQueue)
  /\ LET full == Len(appJson) = TopicQueue
     IN /\ appJson' = Append(IF full THEN Tail(appJson) ELSE appJson,
                             Head(transformQueue))
        /\ lost' = IF full THEN lost \cup {Head(appJson)} ELSE lost
  /\ UNCHANGED <<linkVars, asker, sent, serverCollection, dataMap, passVars,
                 seenVars, bounds, poolVars>>

(* Mutant: every request is given to the pool. *)
subscribeCallbackPool ==
  /\ appJson # <<>> /\ ~notifying
  /\ appJson' = Tail(appJson)
  /\ Enqueue(Head(appJson))
  /\ UNCHANGED <<linkVars, asker, sent, transformQueue, lost, serverCollection,
                 dataMap, passVars, seenVars, bounds>>

(* The main loop takes a request: a strategy answers it, or gives it to the  *)
(* pool.  It is back in spinOnce only when submit has returned.              *)
subscribeCallback ==
  /\ appJson # <<>> /\ ~notifying
  /\ appJson' = Tail(appJson)
  /\ \/ /\ Head(appJson) \in Direct
        /\ serverCollection' = Append(serverCollection, Head(appJson))
        /\ UNCHANGED poolVars
     \/ /\ Head(appJson) \in Planned
        /\ Enqueue(Head(appJson))
        /\ UNCHANGED serverCollection
  /\ UNCHANGED <<linkVars, asker, sent, transformQueue, lost, dataMap, passVars,
                 seenVars, bounds>>

(* answerFullPath, which a worker runs, sends the answer. *)
AnswerFullPath(w) ==
  /\ Finish(w)
  /\ serverCollection' = Append(serverCollection, job[w])
  /\ UNCHANGED <<linkVars, asker, sent, transformQueue, appJson, lost, dataMap,
                 passVars, seenVars, bounds>>

Worker(w) ==
  \/ /\ Test(w) \/ Wait(w) \/ Wake(w)
     /\ UNCHANGED <<linkVars, queueVars, dataMap, passVars, seenVars, bounds>>
  \/ AnswerFullPath(w)

(* submit goes on to its notification. *)
NotifyOne ==
  /\ Notify
  /\ UNCHANGED <<linkVars, queueVars, dataMap, passVars, seenVars, bounds>>

(* WsServerDataThread: each answer goes to every listed connection, which    *)
(* finds its own by the id it gave the request.                              *)
Broadcast ==
  /\ serverCollection # <<>> /\ askMutexFree
  /\ serverCollection' = Tail(serverCollection)
  /\ inbox' = [c \in Clients |->
                 IF c \in Listed THEN Append(inbox[c], Head(serverCollection))
                 ELSE inbox[c]]
  /\ UNCHANGED <<linkVars, asker, sent, transformQueue, appJson, lost, dataMap,
                 passVars, notices, statusSeen, bounds, poolVars>>

-----------------------------------------------------------------------------
(* The setters, which threads of the node call at any time. *)
sendRequestData(topic) ==
  \/ /\ topic = "notice"
     /\ made' = made + 1 /\ dataMap' = [dataMap EXCEPT !.notice = made']
  \/ /\ topic = "status" /\ dataMap.status < MaxStatuses
     /\ dataMap' = [dataMap EXCEPT !.status = @ + 1]
     /\ UNCHANGED made
  /\ UNCHANGED <<linkVars, queueVars, passVars, seenVars, poolVars>>

(* WsServerSubThread: every two seconds a pass over the list in its order,   *)
(* which is that of the addresses of the connections.                        *)
BeginPass ==
  /\ askMutexFree /\ Listed # {}
  /\ left' = Listed /\ turn' = <<NoClient, "next">>
  /\ UNCHANGED <<linkVars, queueVars, dataMap, seenVars, bounds, poolVars>>

Wants(c, topic) == topic \in mMap[c] /\ dataMap[topic] # 0

(* Mutant: the pass ends with the first connection it serves. *)
EndTurnAndPass(c, rest) ==
  /\ statusSeen' = [statusSeen EXCEPT ![c] = IF Wants(c, "status") THEN dataMap.status
                                             ELSE @]
  /\ left' = {}
  /\ turn' = <<NoClient, "rest">>

(* The status of a connection is sent after its notice; to read it at the    *)
(* end of the turn is no different from reading it a moment before or after. *)
EndTurn(c, rest) ==
  /\ statusSeen' = [statusSeen EXCEPT ![c] = IF Wants(c, "status") THEN dataMap.status
                                             ELSE @]
  /\ left' = rest
  /\ turn' = <<NoClient, IF rest = {} THEN "rest" ELSE "next">>

TakeTurn(c) ==
  /\ turn[2] = "next" /\ c \in left
  /\ \/ /\ Wants(c, "notice")
        /\ notices' = Append(notices, dataMap.notice)
        /\ turn' = <<c, "clear">>
        /\ UNCHANGED <<left, statusSeen>>
     \/ /\ ~Wants(c, "notice")
        /\ EndTurn(c, left \ {c})
        /\ UNCHANGED notices
  /\ UNCHANGED <<linkVars, queueVars, dataMap, inbox, bounds, poolVars>>

(* Mutant: a notice stays, as the other topics do. *)
ClearNothing ==
  /\ turn[2] = "clear"
  /\ EndTurn(turn[1], left \ {turn[1]})
  /\ UNCHANGED <<linkVars, queueVars, dataMap, inbox, notices, bounds, poolVars>>

(* What was sent is cleared, or what replaced it meanwhile. *)
ClearNotice ==
  /\ turn[2] = "clear"
  /\ dataMap' = [dataMap EXCEPT !.notice = 0]
  /\ EndTurn(turn[1], left \ {turn[1]})
  /\ UNCHANGED <<linkVars, queueVars, inbox, notices, bounds, poolVars>>

SubThread ==
  BeginPass \/ (\E c \in Clients : TakeTurn(c)) \/ ClearNotice

-----------------------------------------------------------------------------
(* A connection opens once; the bound is on what comes after. *)
Asio ==
  /\ UNCHANGED made
  /\ \E c \in Clients :
       \/ on_open(c) /\ UNCHANGED calls
       \/ Call /\ (on_close(c) \/ on_fail(c) \/ on_message(c))

Publishers == Call /\ \E topic \in Topics : sendRequestData(topic)

Node ==
  \/ funTransformBuffer
  \/ subscribeCallback
  \/ NotifyOne
  \/ \E w \in Workers : Worker(w)
  \/ Broadcast
  \/ SubThread

Next == Asio \/ Publishers \/ Node

(* Every thread of the node runs on; main returns from each callback and a   *)
(* plan is answered after seven seconds at most.  Passes are two seconds     *)
(* apart, so that who waits for askMutex gets it in between.  The apps owe   *)
(* nothing.                                                                  *)
Fairness ==
  /\ WF_vars(funTransformBuffer)
  /\ WF_vars(subscribeCallback)
  /\ WF_vars(NotifyOne)
  /\ \A w \in Workers : WF_vars(Worker(w))
  /\ SF_vars(Broadcast)
  /\ WF_vars(SubThread)

Spec == Init /\ [][Next]_vars /\ Fairness

-----------------------------------------------------------------------------
(* Every request is answered to the app that sent it, unless the topic       *)
(* dropped it or the connection was closed or taken off the list: none is    *)
(* forgotten between the queues, nor left in the pool by a lost wake-up.     *)
AskerIsAnswered ==
  \A r \in Requests :
    asker[r] # NoClient ~> \/ asker[r] \notin Listed
                           \/ r \in ToSet(inbox[asker[r]]) \cup lost

Before(r, s) == \E k, l \in DOMAIN sent : k < l /\ sent[k] = r /\ sent[l] = s

(* The requests JsonSubscribe answers itself are answered in the order they  *)
(* were sent and once; only a plan may be overtaken.                         *)
DirectAnswersInOrder ==
  \A c \in Clients :
    \A i, j \in DOMAIN inbox[c] :
      i < j /\ {inbox[c][i], inbox[c][j]} \subseteq Direct
        => Before(inbox[c][i], inbox[c][j])

(* A notice is an event and sent once, to the first subscriber of a pass,    *)
(* although it is cleared only after the send.                               *)
NoticeOnce ==
  \A i, j \in DOMAIN notices : i < j => notices[i] < notices[j]

(* Status is a state: who subscribes to it sees the last one in the end, and *)
(* so does the next who subscribes.                                          *)
LastStatusSeen ==
  \A c \in Clients :
    (c \in Listed /\ "status" \in mMap[c] /\ dataMap.status = MaxStatuses)
      ~> (statusSeen[c] = MaxStatuses \/ c \notin Listed)

(* Every map is shown as it is by the apps that read the runs setMapApp      *)
(* writes.  It needs a free cell in the map (the smallest value is what is   *)
(* shown as free) and a second cell (the length of the only run of a map of  *)
(* one cell is not written).  A picture depends on no state, so the maps are *)
(* looked at once, before the first call.                                    *)
MapShownRight ==
  calls = 0 =>
    \A grid \in Grids :
      Len(grid) > 1 /\ (\E i \in DOMAIN grid : grid[i] = 0) => ShownRight(grid)
=============================================================================
