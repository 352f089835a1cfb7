---------------------------- MODULE ScheduleProofs ----------------------------
(***************************************************************************)
(* The table of the schedule keeps its promises for every set of timers    *)
(* and rules, any durations in the order of the code's, and any number of  *)
(* requests, messages and changes of the clock.                            *)
(***************************************************************************)
EXTENDS Schedule, TLAPS

(* What the table knows of an entry that runs: the instant it runs for,      *)
(* which is not later than the run looks ahead.                              *)
Running ==
  ~disturbed /\ pc = "executing" =>
    /\ i \in DOMAIN tasks
    /\ ran[tasks[i].id] = tasks[i].next
    /\ tasks[i].next <= last_tick + Early

(* An entry always has a next instant. *)
AllDue == \A j \in DOMAIN tasks : HasDue(tasks[j].rule)

TableInv == TypeOK /\ AllDue /\ Running /\ NeverTwice

(* Where a timer's id may still be once the file has lost it. *)
Deletion == IF message # NoMessage /\ message.method = "del" THEN {message.id} ELSE {}
List(text) == IF text = Blank THEN <<>> ELSE text

ListIsOld == Names(List(stimer_list)) \subseteq Names(Listed) \cup stray \cup Deletion
TodoIsListed == Names(todo) \subseteq Names(List(stimer_list)) \cup stray
TableIsListed == Names(tasks) \subseteq Names(List(stimer_list)) \cup stray

DeletionInv == ListIsOld /\ TodoIsListed /\ TableIsListed

-----------------------------------------------------------------------------
(* Division with remainder, and that there is one way to do it. *)
LEMMA Division ==
  ASSUME NEW p \in Nat \ {0}, NEW a \in Int
  PROVE  \E q \in Int, x \in 0 .. p - 1 : a = p * q + x /\ x = a % p
<1>1. a = p * (a \div p) + (a % p) /\ a \div p \in Int /\ a % p \in 0 .. p - 1
  OBVIOUS
<1> QED BY <1>1

LEMMA OneDivision ==
  ASSUME NEW p \in Nat \ {0}, NEW k \in Int, NEW j \in Int,
         NEW x \in 0 .. p - 1, NEW y \in 0 .. p - 1, p * k + x = p * j + y
  PROVE  x = y
<1>1. p * (k - j) = y - x
  OBVIOUS
<1>2. CASE k > j
  <2>1. p * (k - j) >= p BY <1>2
  <2> QED BY <2>1, <1>1
<1>3. CASE k < j
  <2>1. p * (j - k) >= p BY <1>3
  <2>2. p * (j - k) = x - y BY <1>1
  <2> QED BY <2>1, <2>2
<1>4. CASE k = j BY <1>1, <1>4
<1> QED BY <1>2, <1>3, <1>4

LEMMA Remainder ==
  ASSUME NEW p \in Nat \ {0}, NEW k \in Int, NEW x \in 0 .. p - 1, NEW a \in Int, a = p * k + x
  PROVE  a % p = x
<1>1. PICK q \in Int, y \in 0 .. p - 1 : a = p * q + y /\ y = a % p
  BY Division
<1>2. p * k + x = p * q + y
  BY <1>1
<1>3. x = y
  BY ONLY <1>2, OneDivision, k \in Int, x \in 0 .. p - 1, q \in Int, y \in 0 .. p - 1,
     p \in Nat \ {0}
<1> QED BY <1>1, <1>3

LEMMA FirstInstant ==
  ASSUME NEW p \in Nat \ {0}, NEW at \in 0 .. p - 1, NEW from \in Int
  PROVE  \E t \in Int : /\ t = from + ((at - from) % p) /\ t >= from /\ t % p = at
                        /\ \A u \in from .. t - 1 : u % p # at
<1>1. PICK q \in Int, x \in 0 .. p - 1 : at - from = p * q + x /\ x = (at - from) % p
  BY Division, at - from \in Int
<1>2. PICK t \in Int : t = from + x
  BY <1>1
<1>3. t = p * (-q) + at
  <2>1. p * q \in Int /\ p * (-q) = -(p * q)
    OBVIOUS
  <2>2. at - from = p * q + x
    BY <1>1
  <2> HIDE <1>1
  <2> QED BY <2>1, <2>2, <1>2
<1>4. t % p = at
  BY <1>3, Remainder, -q \in Int
<1>5. ASSUME NEW u \in from .. t - 1, u % p = at PROVE FALSE
  <2>1. PICK k \in Int : u = p * k + at
    BY <1>5, Division, u \in Int
  <2>2. PICK y \in 1 .. p - 1 : y = t - u
    BY <1>2
  <2>3. p * k + y = p * (-q) + 0
    BY <2>1, <2>2, <1>3
  <2>4. y = 0
    BY ONLY <2>3, OneDivision, -q \in Int, 0 \in 0 .. p - 1, k \in Int, y \in 0 .. p - 1,
       p \in Nat \ {0}, <2>2
  <2> QED BY <2>2, <2>4
<1>6. t = from + ((at - from) % p) /\ t >= from
  BY <1>1, <1>2
<1>7. \A u \in from .. t - 1 : u % p # at
  BY <1>5
<1> QED BY ONLY <1>4, <1>6, <1>7, t \in Int

(* The formula NextDue is the first instant of a rule that is not before     *)
(* from.  It stands for the search of calculate_from through the calendar,   *)
(* CronSchedule.cpp:18-77, about which this says nothing.                    *)
LEMMA NextDueIsFirst ==
  ASSUME NEW r, r.period \in Int, r.at \in Nat, HasDue(r), NEW from \in Int
  PROVE  /\ NextDue(r, from) \in Int /\ NextDue(r, from) >= from
         /\ Matches(r, NextDue(r, from))
         /\ \A u \in from .. NextDue(r, from) - 1 : ~Matches(r, u)
<1>0. PICK p \in Nat \ {0} : p = r.period
  BY DEF HasDue
<1>1. PICK at \in 0 .. p - 1 : at = r.at
  BY <1>0 DEF HasDue
<1>2. PICK t \in Int : /\ t = from + ((at - from) % p) /\ t >= from /\ t % p = at
                       /\ \A u \in from .. t - 1 : u % p # at
  BY FirstInstant
<1>3. t = NextDue(r, from)
  BY <1>0, <1>1, <1>2 DEF NextDue
<1> QED BY <1>0, <1>1, <1>2, <1>3 DEF Matches

-----------------------------------------------------------------------------
LEMMA EntryRule ==
  ASSUME NEW e \in Entry
  PROVE  /\ e.rule.period \in Int /\ e.rule.at \in Nat
         /\ e.end # NoEnd => e.end \in Nat
BY InfoAssumption DEF Entry

LEMMA Calculated ==
  ASSUME NEW e \in Entry, HasDue(e.rule), NEW from \in Int, clock \in Int
  PROVE  LET c == CalculateNext(e, from)
         IN  /\ c \in Entry /\ c.id = e.id /\ c.rule = e.rule /\ c.end = e.end
             /\ c.next >= from
<1>1. NextDue(e.rule, from) \in Int /\ NextDue(e.rule, from) >= from
  BY EntryRule, NextDueIsFirst
<1>2. EndFrom(from, e.end) \in Int
  BY TimeAssumption DEF EndFrom
<1> QED BY <1>1, <1>2 DEF CalculateNext, Entry

LEMMA NewEntryFacts ==
  ASSUME NEW e \in Info, HasDue(e.rule), clock \in Time
  PROVE  /\ NewEntry(e) \in Entry /\ NewEntry(e).id = e.id /\ NewEntry(e).rule = e.rule
         /\ NewEntry(e).end = e.end /\ NewEntry(e).next >= 0
<1> DEFINE b == [id |-> e.id, rule |-> e.rule, end |-> e.end, next |-> 0, next_end |-> 0]
<1>1. b \in Entry /\ b.rule = e.rule /\ b.id = e.id /\ b.end = e.end
  <2>1. e.id \in Timer /\ e.rule \in {x.rule : x \in Info} /\ e.end \in {x.end : x \in Info}
    BY InfoAssumption
  <2> QED BY <2>1 DEF Entry
<1>2. clock \in Int /\ clock >= 0
  BY TimeAssumption DEF Time
<1> HIDE DEF b
<1>3. LET c == CalculateNext(b, clock)
      IN  /\ c \in Entry /\ c.id = b.id /\ c.rule = b.rule /\ c.end = b.end /\ c.next >= clock
  BY <1>1, <1>2, Calculated
<1>4. NewEntry(e) = CalculateNext(b, clock)
  BY DEF NewEntry, b
<1>5. CalculateNext(b, clock).next \in Int
  BY <1>3 DEF Entry
<1> QED BY <1>1, <1>2, <1>3, <1>4, <1>5

(* Erasing leaves the rest in its order. *)
LEMMA ErasedFacts ==
  ASSUME NEW S, NEW q \in Seq(S), NEW k \in DOMAIN q
  PROVE  /\ Erased(q, k) \in Seq(S) /\ DOMAIN Erased(q, k) = 1 .. Len(q) - 1
         /\ \A j \in 1 .. Len(q) - 1 :
              /\ j < k => Erased(q, k)[j] = q[j] /\ j \in DOMAIN q
              /\ j >= k => Erased(q, k)[j] = q[j + 1] /\ j + 1 \in DOMAIN q
<1>1. DOMAIN q = 1 .. Len(q) /\ Len(q) \in Nat /\ Len(q) - 1 \in Nat
  OBVIOUS
<1>2. \A j \in 1 .. Len(q) - 1 : q[IF j < k THEN j ELSE j + 1] \in S
  BY <1>1
<1>3. Erased(q, k) \in [1 .. Len(q) - 1 -> S]
  BY <1>2 DEF Erased
<1>4. Erased(q, k) \in Seq(S)
  BY <1>1, <1>3
<1> QED BY <1>1, <1>4 DEF Erased

Distinct(q) == \A j, k \in DOMAIN q : q[j].id = q[k].id => j = k

(* s has entries of q only, each at most once. *)
Picked(q, s) ==
  \E p \in [DOMAIN s -> DOMAIN q] :
    /\ \A j, k \in DOMAIN s : p[j] = p[k] => j = k
    /\ \A j \in DOMAIN s : s[j] = q[p[j]]

LEMMA PickedDistinct ==
  ASSUME NEW q, NEW s, Picked(q, s), Distinct(q)
  PROVE  Distinct(s)
BY DEF Picked, Distinct

LEMMA PickedNames ==
  ASSUME NEW q, NEW s, Picked(q, s)
  PROVE  Names(s) \subseteq Names(q)
BY DEF Picked, Names

LEMMA PickedEntry ==
  ASSUME NEW q, NEW s, Picked(q, s), NEW j \in DOMAIN s
  PROVE  \E k \in DOMAIN q : s[j] = q[k]
BY DEF Picked

LEMMA WithoutFacts ==
  ASSUME NEW S, NEW q \in Seq(S), NEW id
  PROVE  /\ Without(q, id) \in Seq(S)
         /\ Picked(q, Without(q, id))
         /\ Distinct(q) => id \notin Names(Without(q, id))
         /\ Names(q) \subseteq Names(Without(q, id)) \cup {id}
<1> DEFINE s == Without(q, id)
<1>1. CASE id \notin Names(q)
  <2>1. s = q
    BY <1>1 DEF Without
  <2>2. Picked(q, q)
    <3>1. [j \in DOMAIN q |-> j] \in [DOMAIN q -> DOMAIN q]
      OBVIOUS
    <3> QED BY <3>1 DEF Picked
  <2> QED BY <1>1, <2>1, <2>2
<1>2. CASE id \in Names(q)
  <2>1. PICK k \in DOMAIN q : q[k].id = id /\ s = Erased(q, k)
    <3>1. \E k \in DOMAIN q : q[k].id = id
      BY <1>2 DEF Names
    <3> QED BY <1>2, <3>1 DEF Without
  <2>2. /\ s \in Seq(S) /\ DOMAIN s = 1 .. Len(q) - 1
        /\ \A j \in 1 .. Len(q) - 1 :
             /\ j < k => s[j] = q[j] /\ j \in DOMAIN q
             /\ j >= k => s[j] = q[j + 1] /\ j + 1 \in DOMAIN q
    BY <2>1, ErasedFacts
  <2> HIDE DEF s
  <2>3. Picked(q, s)
    <3> DEFINE p == [j \in DOMAIN s |-> IF j < k THEN j ELSE j + 1]
    <3>1. p \in [DOMAIN s -> DOMAIN q]
      BY <2>2
    <3>2. \A j, l \in DOMAIN s : p[j] = p[l] => j = l
      BY <2>2
    <3>3. \A j \in DOMAIN s : s[j] = q[p[j]]
      BY <2>2
    <3> QED BY <3>1, <3>2, <3>3 DEF Picked
  <2>4. Distinct(q) => id \notin Names(s)
    <3> SUFFICES ASSUME Distinct(q), NEW j \in DOMAIN s, s[j].id = id PROVE FALSE
      BY DEF Names
    <3>1. CASE j < k BY <3>1, <2>1, <2>2 DEF Distinct
    <3>2. CASE j >= k BY <3>2, <2>1, <2>2 DEF Distinct
    <3> QED BY <3>1, <3>2, <2>2
  <2>5. Names(q) \subseteq Names(s) \cup {id}
    <3> SUFFICES ASSUME NEW l \in DOMAIN q, l # k PROVE \E j \in DOMAIN s : s[j].id = q[l].id
      BY <2>1 DEF Names
    <3>1. l \in 1 .. Len(q) /\ k \in 1 .. Len(q) /\ Len(q) \in Nat
      OBVIOUS
    <3>2. CASE l < k BY <3>1, <3>2, <2>2
    <3>3. CASE l > k
      <4>1. l - 1 \in DOMAIN s /\ l - 1 >= k /\ (l - 1) + 1 = l
        BY <3>1, <3>3, <2>2
      <4> QED BY <4>1, <2>2
    <3> QED BY <3>1, <3>2, <3>3
  <2> QED BY <2>2, <2>3, <2>4, <2>5 DEF s
<1> QED BY <1>1, <1>2

(* Sorting keeps the entries. *)
LEMMA SortedFacts ==
  ASSUME NEW S, NEW q \in Seq(S), NEW s, Sorted(q, s)
  PROVE  s \in Seq(S) /\ Picked(q, s)
<1>1. PICK p \in [DOMAIN q -> DOMAIN q] :
        /\ \A j, k \in DOMAIN q : p[j] = p[k] => j = k
        /\ s = [j \in DOMAIN q |-> q[p[j]]]
  BY DEF Sorted
<1>2. Picked(q, s)
  BY <1>1 DEF Picked
<1>3. s \in Seq(S)
  <2>1. DOMAIN q = 1 .. Len(q) /\ Len(q) \in Nat
    OBVIOUS
  <2>2. s \in [1 .. Len(q) -> S]
    BY <1>1, <2>1
  <2> QED BY <2>1, <2>2
<1> QED BY <1>2, <1>3

-----------------------------------------------------------------------------
(* Lists of timers. *)
LEMMA ListTypes ==
  ASSUME TypeOK
  PROVE  /\ Listed \in Seq(Info) /\ List(stimer_list) \in Seq(Info)
         /\ Names(Listed) \subseteq Timer /\ Names(todo) \subseteq Timer
<1>1. ASSUME NEW q \in Seq(Info) PROVE Names(q) \subseteq Timer
  <2>1. \A j \in DOMAIN q : q[j] \in Info
    OBVIOUS
  <2> QED BY <2>1, InfoAssumption DEF Names
<1>2. Listed \in Seq(Info) /\ List(stimer_list) \in Seq(Info) /\ todo \in Seq(Info)
  BY DEF TypeOK, Text, Listed, List
<1> QED BY <1>1, <1>2

LEMMA AppendNames ==
  ASSUME NEW S, NEW q \in Seq(S), NEW e \in S
  PROVE  Names(Append(q, e)) = Names(q) \cup {e.id}
<1> DEFINE s == Append(q, e)
<1>1. /\ s \in Seq(S) /\ Len(s) = Len(q) + 1 /\ Len(q) \in Nat
      /\ \A j \in 1 .. Len(q) : s[j] = q[j]
      /\ s[Len(q) + 1] = e
  OBVIOUS
<1> HIDE DEF s
<1>2. DOMAIN s = 1 .. Len(q) + 1 /\ DOMAIN q = 1 .. Len(q)
  BY <1>1
<1>3. \A x \in Names(s) : x \in Names(q) \cup {e.id}
  BY <1>1, <1>2 DEF Names
<1>4. \A x \in Names(q) \cup {e.id} : x \in Names(s)
  BY <1>1, <1>2 DEF Names
<1> QED BY <1>3, <1>4 DEF s

LEMMA TailNames ==
  ASSUME NEW S, NEW q \in Seq(S), q # <<>>
  PROVE  /\ Tail(q) \in Seq(S) /\ Head(q) \in S /\ Head(q).id \in Names(q)
         /\ Names(Tail(q)) \subseteq Names(q)
<1>1. /\ Tail(q) \in Seq(S) /\ Len(q) \in Nat \ {0} /\ Len(Tail(q)) = Len(q) - 1
      /\ Head(q) = q[1] /\ 1 \in DOMAIN q /\ q[1] \in S
      /\ \A j \in 1 .. Len(q) - 1 : Tail(q)[j] = q[j + 1] /\ j + 1 \in DOMAIN q
  OBVIOUS
<1>2. DOMAIN Tail(q) = 1 .. Len(q) - 1
  BY <1>1
<1> QED BY <1>1, <1>2 DEF Names

(* What a request does, for the table: nothing.                              *)
LEMMA RequestStep ==
  ASSUME TypeOK, AddTimer \/ UpdateTimer \/ DeleteTimer \/ SaveFails
  PROVE  TypeOK' /\ UNCHANGED <<tasks, pc, i, ran, disturbed, last_tick, todo, stimer_list, clock>>
<1>1. /\ requests' \in 0 .. MaxRequests
      /\ UNCHANGED <<clock, corrections, stimer_list, tasks, pc, todo, last_tick, i, res, ran,
                     disturbed>>
  BY ScheduleBounds
  DEF TypeOK, AddTimer, UpdateTimer, DeleteTimer, SaveFails, Request, clockVars, tickVars
<1>2. ASSUME NEW method \in {"add", "upd", "del"}, NEW id \in Timer, Publish(method, id)
      PROVE  message' \in Message /\ stray' \in SUBSET Timer
  BY <1>2 DEF Publish, Message, TypeOK
<1>3. message' \in Message /\ stray' \in SUBSET Timer
  <2>1. CASE AddTimer
    BY <1>2, <2>1, InfoAssumption DEF AddTimer
  <2>2. CASE UpdateTimer
    BY <1>2, <2>2, InfoAssumption DEF UpdateTimer
  <2>3. CASE DeleteTimer
    BY <1>2, <2>3 DEF DeleteTimer
  <2>4. CASE SaveFails
    BY <2>4, ListTypes DEF SaveFails, TypeOK
  <2> QED BY <2>1, <2>2, <2>3, <2>4
<1>4. file' \in Text
  <2>1. CASE AddTimer
    BY <2>1, ListTypes DEF AddTimer, Text
  <2>2. CASE UpdateTimer
    <3>1. PICK e \in Info :
            file' = [j \in DOMAIN file |-> IF file[j].id = e.id THEN e ELSE file[j]]
      BY <2>2 DEF UpdateTimer
    <3>2. file \in Seq(Info)
      BY <2>2 DEF UpdateTimer, TypeOK, Text
    <3>3. DOMAIN file = 1 .. Len(file) /\ Len(file) \in Nat
      BY <3>2
    <3>4. file' \in [1 .. Len(file) -> Info]
      BY <3>1, <3>2, <3>3
    <3> QED BY <3>3, <3>4 DEF Text
  <2>3. CASE DeleteTimer
    BY <2>3, WithoutFacts DEF DeleteTimer, TypeOK, Text
  <2>4. CASE SaveFails
    BY <2>4 DEF SaveFails, Text
  <2> QED BY <2>1, <2>2, <2>3, <2>4
<1> QED BY <1>1, <1>3, <1>4 DEF TypeOK

LEMMA TableKept ==
  ASSUME TableInv, TypeOK', UNCHANGED <<tasks, pc, i, ran, disturbed, last_tick>>
  PROVE  TableInv'
BY DEF TableInv, AllDue, Running, NeverTwice

-----------------------------------------------------------------------------
(* The callback takes an entry away; the one that runs keeps its place unless *)
(* the entry is before it or is itself.                                       *)
LEMMA CallbackStep ==
  ASSUME TableInv, SubscribeCallback
  PROVE  TableInv'
<1> USE DEF TableInv
<1>1. CASE message.method # "del"
  <2>1. UNCHANGED <<tasks, pc, i, ran, disturbed, last_tick>>
    BY <1>1 DEF SubscribeCallback, tickVars
  <2>2. TypeOK'
    BY <1>1 DEF SubscribeCallback, TypeOK, Message, clockVars, tickVars
  <2> QED BY <2>1, <2>2, TableKept
<1>2. CASE message.method = "del"
  <2>1. /\ message # NoMessage /\ tasks' = Without(tasks, message.id) /\ message' = NoMessage
        /\ stimer_list' = file
        /\ UNCHANGED <<clock, corrections, file, requests, pc, todo, last_tick, i, res, ran>>
        /\ stray' \subseteq stray \cup {message.id}
        /\ disturbed' = (disturbed \/ (/\ pc = "executing"
                                      /\ \E j \in DOMAIN tasks : j <= i /\ tasks[j].id = message.id))
    BY <1>2 DEF SubscribeCallback, clockVars, tickVars
  <2>2. message.id \in Timer
    BY <2>1 DEF TypeOK, Message
  <2>3. tasks \in Seq(Entry) /\ Distinct(tasks)
    BY DEF TypeOK, Distinct
  <2>4. tasks' \in Seq(Entry) /\ Picked(tasks, tasks')
    BY <2>1, <2>3, WithoutFacts
  <2>5. TypeOK'
    <3>1. Distinct(tasks')
      BY <2>3, <2>4, PickedDistinct
    <3>2. disturbed' \in BOOLEAN
      BY <2>1 DEF TypeOK
    <3> QED BY <2>1, <2>2, <2>4, <3>1, <3>2 DEF TypeOK, Distinct, Message
  <2>6. AllDue'
    BY <2>4, PickedEntry DEF AllDue
  <2>7. CASE pc # "executing"
    <3>1. \A j \in DOMAIN tasks' : \E k \in DOMAIN tasks : tasks'[j] = tasks[k]
      BY <2>4, PickedEntry
    <3>2. Running' /\ disturbed' = disturbed
      BY <2>1, <2>7 DEF Running, TypeOK
    <3>3. NeverTwice'
      BY <2>1, <2>7, <3>1, <3>2 DEF NeverTwice
    <3> QED BY <2>5, <2>6, <3>2, <3>3
  <2>8. CASE message.id \notin Names(tasks)
    <3>1. tasks' = tasks /\ disturbed' = disturbed
      BY <2>1, <2>8 DEF Without, Names, TypeOK
    <3> QED BY <2>1, <2>5, <3>1, TableKept
  <2>9. CASE pc = "executing" /\ message.id \in Names(tasks)
    <3>1. PICK k \in DOMAIN tasks : tasks[k].id = message.id /\ tasks' = Erased(tasks, k)
      <4>1. \E k \in DOMAIN tasks : tasks[k].id = message.id
        BY <2>9 DEF Names
      <4> QED BY <2>1, <2>9, <4>1 DEF Without
    <3>2. /\ DOMAIN tasks' = 1 .. Len(tasks) - 1
          /\ \A j \in 1 .. Len(tasks) - 1 :
               /\ j < k => tasks'[j] = tasks[j] /\ j \in DOMAIN tasks
               /\ j >= k => tasks'[j] = tasks[j + 1] /\ j + 1 \in DOMAIN tasks
      BY <2>3, <3>1, ErasedFacts
    <3>3. SUFFICES ASSUME ~disturbed' PROVE Running' /\ NeverTwice'
      BY <2>5, <2>6 DEF Running, NeverTwice
    <3>4. ~disturbed /\ k > i /\ i \in Nat \ {0} /\ k \in 1 .. Len(tasks) /\ Len(tasks) \in Nat
      <4>1. disturbed' = (disturbed \/ \E j \in DOMAIN tasks : j <= i /\ tasks[j].id = message.id)
        BY <2>1, <2>9
      <4>2. ~disturbed /\ ~(k <= i)
        BY <4>1, <3>1, <3>3
      <4>3. i \in Nat \ {0} /\ k \in 1 .. Len(tasks) /\ Len(tasks) \in Nat
        BY <2>3 DEF TypeOK
      <4> QED BY <4>2, <4>3
    <3>5. i \in DOMAIN tasks' /\ tasks'[i] = tasks[i]
      BY <3>2, <3>4
    <3>6. Running'
      BY <2>1, <2>9, <3>4, <3>5 DEF Running
    <3>7. NeverTwice'
      <4> SUFFICES ASSUME NEW j \in DOMAIN tasks', j # i
                   PROVE  tasks'[j].next > ran[tasks'[j].id]
        BY <2>1, <2>9 DEF NeverTwice
      <4>1. PICK l \in DOMAIN tasks : tasks'[j] = tasks[l] /\ l # i
        <5>1. CASE j < k
          BY <3>2, <5>1
        <5>2. CASE j >= k
          BY <3>2, <3>4, <5>2
        <5> QED BY <3>2, <3>4, <5>1, <5>2
      <4> QED BY <4>1, <3>4 DEF NeverTwice
    <3> QED BY <3>6, <3>7
  <2> QED BY <2>7, <2>8, <2>9
<1> QED BY <1>1, <1>2

-----------------------------------------------------------------------------
(* The thread.  A list of entries picked from the table, in any order, keeps  *)
(* what holds of each of them.                                                *)
LEMMA PickedTable ==
  ASSUME TableInv, pc # "executing", pc' # "executing", NEW s \in Seq(Entry), Picked(tasks, s),
         tasks' = s, UNCHANGED <<ran, disturbed>>
  PROVE  Distinct(s) /\ AllDue' /\ Running' /\ NeverTwice'
<1> USE DEF TableInv
<1>1. \A j \in DOMAIN s : \E k \in DOMAIN tasks : s[j] = tasks[k]
  BY PickedEntry
<1>2. Distinct(s)
  BY PickedDistinct DEF TypeOK, Distinct
<1>3. AllDue'
  BY <1>1 DEF AllDue
<1>4. Running' /\ NeverTwice'
  BY <1>1 DEF Running, NeverTwice
<1> QED BY <1>2, <1>3, <1>4

LEMMA AddScheduleStep ==
  ASSUME TableInv, AddSchedule
  PROVE  TableInv'
<1> USE DEF TableInv
<1> DEFINE e == Head(todo)
           rest == Without(tasks, e.id)
<1>1. /\ pc = "add" /\ pc' = "add" /\ todo' = Tail(todo)
      /\ UNCHANGED <<clock, corrections, file, message, requests, stimer_list, last_tick, i, res,
                     stray, disturbed>>
  BY DEF AddSchedule, clockVars, fileVars, tickVars
<1>2. todo' \in Seq(Info) /\ e \in Info
  BY <1>1, TailNames DEF AddSchedule, TypeOK
<1>3. e.id \in Timer /\ tasks \in Seq(Entry) /\ Distinct(tasks) /\ ran \in [Timer -> Int]
  BY <1>2, InfoAssumption DEF TypeOK, Distinct
<1>4. /\ rest \in Seq(Entry) /\ Picked(tasks, rest) /\ e.id \notin Names(rest)
  BY <1>3, WithoutFacts
<1>5. CASE ~Valid(e.rule) \/ Kept(e)
  <2>1. UNCHANGED <<tasks, ran>>
    BY <1>5 DEF AddSchedule
  <2>2. TypeOK'
    BY <1>1, <1>2, <2>1 DEF TypeOK
  <2> QED BY <1>1, <2>1, <2>2, TableKept
<1>6. CASE Valid(e.rule) /\ ~Kept(e)
  <2>1. ran' = [ran EXCEPT ![e.id] = -1]
    BY <1>6 DEF AddSchedule
  <2>2. ran' \in [Timer -> Int] /\ ran'[e.id] = -1
        /\ \A t \in Timer : t # e.id => ran'[t] = ran[t]
    BY <1>3, <2>1
  <2>3. \A j \in DOMAIN rest : /\ rest[j] \in Entry /\ rest[j].id # e.id
                               /\ HasDue(rest[j].rule)
                               /\ ~disturbed => rest[j].next > ran'[rest[j].id]
    <3> SUFFICES ASSUME NEW j \in DOMAIN rest
                 PROVE  /\ rest[j] \in Entry /\ rest[j].id # e.id
                        /\ HasDue(rest[j].rule)
                        /\ ~disturbed => rest[j].next > ran'[rest[j].id]
      OBVIOUS
    <3> HIDE DEF rest, e
    <3>1. rest[j] \in Entry
      BY <1>4
    <3>2. rest[j].id # e.id
      BY <1>4 DEF Names
    <3>3. PICK k \in DOMAIN tasks : rest[j] = tasks[k]
      BY <1>4, PickedEntry
    <3>4. rest[j].id \in Timer
      BY <3>1 DEF Entry
    <3> QED BY <1>1, <2>2, <3>1, <3>2, <3>3, <3>4 DEF AllDue, NeverTwice
  <2>4. SUFFICES ASSUME \/ tasks' = rest
                        \/ HasDue(e.rule) /\ Sorted(Append(rest, NewEntry(e)), tasks')
                 PROVE  TableInv'
    BY <1>6 DEF AddSchedule, Replaced
  <2> HIDE DEF rest, e
  <2>5. /\ tasks' \in Seq(Entry) /\ Distinct(tasks')
        /\ \A j \in DOMAIN tasks' :
             HasDue(tasks'[j].rule) /\ (~disturbed => tasks'[j].next > ran'[tasks'[j].id])
    <3>1. CASE tasks' = rest
      BY <3>1, <1>3, <1>4, <2>3, PickedDistinct
    <3>2. CASE HasDue(e.rule) /\ Sorted(Append(rest, NewEntry(e)), tasks')
      <4> DEFINE n == NewEntry(e)
                 q == Append(rest, n)
      <4>1. n \in Entry /\ n.id = e.id /\ n.rule = e.rule /\ n.next >= 0 /\ n.next \in Int
        <5>1. n \in Entry /\ n.id = e.id /\ n.rule = e.rule /\ n.next >= 0
          BY <1>2, <3>2, NewEntryFacts DEF TypeOK
        <5> QED BY <5>1 DEF Entry
      <4>2. /\ q \in Seq(Entry) /\ Len(q) = Len(rest) + 1 /\ Len(rest) \in Nat
            /\ \A j \in 1 .. Len(rest) : q[j] = rest[j] /\ j \in DOMAIN rest
            /\ q[Len(rest) + 1] = n
        BY <1>4, <4>1
      <4> HIDE DEF n, q
      <4>3. DOMAIN q = 1 .. Len(rest) + 1
        BY <4>2
      <4>4. Distinct(q)
        <5>1. Distinct(rest)
          BY <1>3, <1>4, PickedDistinct
        <5> QED BY <2>3, <4>1, <4>2, <4>3, <5>1 DEF Distinct
      <4>5. \A j \in DOMAIN q : HasDue(q[j].rule) /\ (~disturbed => q[j].next > ran'[q[j].id])
        BY <2>2, <2>3, <3>2, <4>1, <4>2, <4>3
      <4>6. tasks' \in Seq(Entry) /\ Picked(q, tasks')
        BY <3>2, <4>2, SortedFacts DEF q, n
      <4>7. Distinct(tasks')
        BY <4>4, <4>6, PickedDistinct
      <4>8. \A j \in DOMAIN tasks' : \E k \in DOMAIN q : tasks'[j] = q[k]
        BY <4>6, PickedEntry
      <4> QED BY <4>5, <4>6, <4>7, <4>8
    <3> QED BY <2>4, <3>1, <3>2
  <2>6. TypeOK'
    BY <1>1, <1>2, <2>2, <2>5 DEF TypeOK, Distinct
  <2> QED BY <1>1, <2>5, <2>6 DEF AllDue, Running, NeverTwice
<1> QED BY <1>5, <1>6

LEMMA TickStep ==
  ASSUME TableInv, Tick
  PROVE  TableInv'
<1> USE DEF TableInv
<1>1. /\ pc = "add" /\ pc' = "check" /\ last_tick' = clock /\ i' = 1 /\ res' \in BOOLEAN
      /\ UNCHANGED <<clock, corrections, file, message, requests, stimer_list, todo, stray,
                     disturbed>>
  BY DEF Tick, clockVars, fileVars
<1>2. CASE ~Corrected(clock)
  <2>1. UNCHANGED <<tasks, ran>>
    BY <1>2 DEF Tick
  <2> QED BY <1>1, <2>1 DEF TypeOK, AllDue, Running, NeverTwice
<1>3. CASE Corrected(clock)
  <2>1. /\ tasks' = [j \in DOMAIN tasks |-> CalculateNext(tasks[j], clock)]
        /\ ran' = [t \in Timer |-> -1]
    BY <1>3 DEF Tick
  <2>2. clock \in Int /\ clock >= 0
    BY TimeAssumption DEF TypeOK, Time
  <2>3. \A j \in DOMAIN tasks :
          /\ tasks'[j] \in Entry /\ tasks'[j].id = tasks[j].id
          /\ tasks'[j].rule = tasks[j].rule /\ tasks'[j].next >= clock
    <3> SUFFICES ASSUME NEW j \in DOMAIN tasks
                 PROVE  /\ tasks'[j] \in Entry /\ tasks'[j].id = tasks[j].id
                        /\ tasks'[j].rule = tasks[j].rule /\ tasks'[j].next >= clock
      OBVIOUS
    <3>1. tasks[j] \in Entry /\ HasDue(tasks[j].rule)
      BY DEF TypeOK, AllDue
    <3> QED BY <2>1, <2>2, <3>1, Calculated
  <2>4. tasks' \in Seq(Entry) /\ DOMAIN tasks' = DOMAIN tasks
    <3>1. DOMAIN tasks = 1 .. Len(tasks) /\ Len(tasks) \in Nat
      BY DEF TypeOK
    <3>2. tasks' \in [1 .. Len(tasks) -> Entry]
      BY <2>1, <2>3, <3>1
    <3> QED BY <3>1, <3>2
  <2>5. TypeOK'
    BY <1>1, <2>1, <2>3, <2>4 DEF TypeOK
  <2>6. NeverTwice'
    <3> SUFFICES ASSUME NEW j \in DOMAIN tasks' PROVE tasks'[j].next > ran'[tasks'[j].id]
      BY DEF NeverTwice
    <3>1. tasks'[j] \in Entry /\ tasks'[j].next >= clock
      BY <2>3, <2>4
    <3> QED BY <2>1, <2>2, <3>1 DEF Entry
  <2> QED BY <1>1, <2>3, <2>4, <2>5, <2>6 DEF AllDue, Running
<1> QED BY <1>2, <1>3

LEMMA ExecuteStep ==
  ASSUME TableInv, Execute
  PROVE  TableInv'
<1> USE DEF TableInv
<1>1. PICK k \in DueFrom(i) : i' = k /\ ran' = [ran EXCEPT ![tasks[k].id] = tasks[k].next]
  BY DEF Execute
<1>2. /\ pc' = "executing"
      /\ UNCHANGED <<clock, corrections, file, message, requests, stimer_list, tasks, todo,
                     last_tick, res, stray, disturbed>>
  BY DEF Execute, clockVars, fileVars
<1>3. /\ k \in DOMAIN tasks /\ k \in Nat \ {0} /\ tasks[k] \in Entry
      /\ tasks[k].next <= last_tick + Early
  BY <1>1 DEF DueFrom, Expired, TypeOK
<1>4. tasks[k].id \in Timer /\ tasks[k].next \in Int
  BY <1>3 DEF Entry
<1>5. /\ ran' \in [Timer -> Int] /\ ran'[tasks[k].id] = tasks[k].next
      /\ \A t \in Timer : t # tasks[k].id => ran'[t] = ran[t]
  BY <1>1, <1>4 DEF TypeOK
<1>6. TypeOK'
  BY <1>1, <1>2, <1>3, <1>5 DEF TypeOK
<1>7. NeverTwice'
  <2> SUFFICES ASSUME ~disturbed, NEW j \in DOMAIN tasks, j # k
               PROVE  tasks[j].next > ran'[tasks[j].id]
    BY <1>1, <1>2 DEF NeverTwice
  <2>1. tasks[j] \in Entry /\ tasks[j].id # tasks[k].id
    BY <1>3 DEF TypeOK
  <2>2. tasks[j].id \in Timer
    BY <2>1 DEF Entry
  <2> QED BY <1>5, <2>1, <2>2 DEF Execute, NeverTwice
<1> QED BY <1>1, <1>2, <1>3, <1>5, <1>6, <1>7 DEF AllDue, Running

(* The next instant lies behind the margin, further than a run looks ahead.  *)
LEMMA ExecutedStep ==
  ASSUME TableInv, Executed
  PROVE  TableInv'
<1> USE DEF TableInv
<1>1. /\ pc = "executing" /\ pc' = "check" /\ i' = i + 1 /\ res' = TRUE
      /\ tasks' = [j \in DOMAIN tasks |->
                     IF j = i THEN CalculateNext(tasks[j], last_tick + Margin) ELSE tasks[j]]
      /\ UNCHANGED <<clock, corrections, file, message, requests, stimer_list, todo, last_tick,
                     ran, stray, disturbed>>
  BY DEF Executed, clockVars, fileVars, historyVars
<1>2. last_tick \in Int /\ clock \in Int /\ Early \in Int /\ Margin \in Int /\ Early < Margin
  BY TimeAssumption DEF TypeOK, Time
<1>3. \A j \in DOMAIN tasks :
        /\ tasks'[j] \in Entry /\ tasks'[j].id = tasks[j].id /\ tasks'[j].rule = tasks[j].rule
        /\ j = i => tasks'[j].next >= last_tick + Margin
        /\ j # i => tasks'[j] = tasks[j]
  <2> SUFFICES ASSUME NEW j \in DOMAIN tasks
               PROVE  /\ tasks'[j] \in Entry /\ tasks'[j].id = tasks[j].id
                      /\ tasks'[j].rule = tasks[j].rule
                      /\ j = i => tasks'[j].next >= last_tick + Margin
                      /\ j # i => tasks'[j] = tasks[j]
    OBVIOUS
  <2>1. tasks[j] \in Entry /\ HasDue(tasks[j].rule) /\ last_tick + Margin \in Int
    BY <1>2 DEF TypeOK, AllDue
  <2> QED BY <1>1, <1>2, <2>1, Calculated
<1>4. tasks' \in Seq(Entry) /\ DOMAIN tasks' = DOMAIN tasks
  <2>1. DOMAIN tasks = 1 .. Len(tasks) /\ Len(tasks) \in Nat
    BY DEF TypeOK
  <2>2. tasks' \in [1 .. Len(tasks) -> Entry]
    BY <1>1, <1>3, <2>1
  <2> QED BY <2>1, <2>2
<1>5. TypeOK'
  BY <1>1, <1>3, <1>4 DEF TypeOK
<1>6. NeverTwice'
  <2> SUFFICES ASSUME ~disturbed, NEW j \in DOMAIN tasks
               PROVE  tasks'[j].next > ran[tasks'[j].id]
    BY <1>1, <1>4 DEF NeverTwice
  <2>1. CASE j # i
    BY <1>3, <2>1 DEF NeverTwice
  <2>2. CASE j = i
    <3>1. tasks[i] \in Entry
      BY <2>2 DEF TypeOK
    <3>2. ran[tasks[j].id] <= last_tick + Early /\ ran[tasks[j].id] \in Int
      BY <1>1, <2>2, <3>1 DEF Running, Entry
    <3>3. tasks'[j].next \in Int /\ tasks'[j].next >= last_tick + Margin
      BY <1>3, <2>2 DEF Entry
    <3> QED BY <1>2, <1>3, <3>2, <3>3
  <2> QED BY <2>1, <2>2
<1> QED BY <1>1, <1>3, <1>4, <1>5, <1>6 DEF AllDue, Running

LEMMA TickEndsStep ==
  ASSUME TableInv, TickEnds
  PROVE  TableInv'
<1>1. /\ pc = "check" /\ pc' = "read" /\ i' = 1 /\ res' \in BOOLEAN
      /\ UNCHANGED <<clock, corrections, file, message, requests, stimer_list, todo, last_tick,
                     ran, stray, disturbed>>
  BY DEF TickEnds, clockVars, fileVars, historyVars
<1>2. CASE res
  <2>1. tasks' \in Seq(Entry) /\ Picked(tasks, tasks')
    BY <1>2, SortedFacts DEF TickEnds, TableInv, TypeOK
  <2>2. Distinct(tasks') /\ AllDue' /\ Running' /\ NeverTwice'
    BY <1>1, <2>1, PickedTable
  <2>3. TypeOK'
    BY <1>1, <2>1, <2>2 DEF TableInv, TypeOK, Distinct
  <2> QED BY <2>2, <2>3 DEF TableInv
<1>3. CASE ~res
  <2>1. tasks' = tasks
    BY <1>3 DEF TickEnds
  <2> QED BY <1>1, <2>1 DEF TableInv, TypeOK, AllDue, Running, NeverTwice
<1> QED BY <1>2, <1>3

LEMMA TableStep == TableInv /\ [Next]_vars => TableInv'
<1> SUFFICES ASSUME TableInv, [Next]_vars PROVE TableInv'
  OBVIOUS
<1>1. CASE Passes \/ SetClock
  <2>1. /\ clock' \in Time /\ corrections' \in 0 .. MaxCorrections
        /\ UNCHANGED <<file, message, requests, stimer_list, tasks, pc, todo, last_tick, i, res,
                       ran, stray, disturbed>>
    BY <1>1, TimeAssumption, ScheduleBounds
    DEF Passes, SetClock, fileVars, tickVars, historyVars, TableInv, TypeOK, Time
  <2> QED BY <2>1 DEF TableInv, TypeOK, AllDue, Running, NeverTwice
<1>2. CASE AddTimer \/ UpdateTimer \/ DeleteTimer \/ SaveFails
  <2>1. TypeOK' /\ UNCHANGED <<tasks, pc, i, ran, disturbed, last_tick>>
    BY <1>2, RequestStep DEF TableInv
  <2> QED BY <2>1, TableKept
<1>3. CASE SubscribeCallback
  BY <1>3, CallbackStep
<1>4. CASE StartScheduleCheck \/ ReadList
  BY <1>4 DEF StartScheduleCheck, ReadList, clockVars, fileVars, tickVars, historyVars,
     TableInv, TypeOK, Text, AllDue, Running, NeverTwice
<1>5. CASE AddSchedule \/ Tick \/ Execute \/ Executed \/ TickEnds
  BY <1>5, AddScheduleStep, TickStep, ExecuteStep, ExecutedStep, TickEndsStep
<1>6. CASE UNCHANGED vars
  BY <1>6 DEF vars, clockVars, fileVars, tickVars, historyVars, TableInv, TypeOK, AllDue,
     Running, NeverTwice
<1> QED BY <1>1, <1>2, <1>3, <1>4, <1>5, <1>6 DEF Next, Main, Loop

-----------------------------------------------------------------------------
(* What a step may do to the instant an entry waits for. *)
NoneSkipped ==
  ~disturbed =>
    \A j \in DOMAIN tasks, k \in DOMAIN tasks' :
      /\ tasks[j].id = tasks'[k].id
      /\ tasks[j].rule = tasks'[k].rule /\ tasks[j].end = tasks'[k].end
      /\ tasks[j].next # tasks'[k].next
      => \/ ran[tasks[j].id] = tasks[j].next
         \/ Abs(clock - last_tick) >= Correction

(* Entries that stay are the entries they were. *)
LEMMA PickedSkipsNone ==
  ASSUME TableInv, Picked(tasks, tasks')
  PROVE  NoneSkipped
<1>1. \A k \in DOMAIN tasks' : \E l \in DOMAIN tasks : tasks'[k] = tasks[l]
  BY PickedEntry
<1> QED BY <1>1 DEF NoneSkipped, TableInv, TypeOK

LEMMA PickedItself == ASSUME NEW q PROVE Picked(q, q)
<1>1. [j \in DOMAIN q |-> j] \in [DOMAIN q -> DOMAIN q]
  OBVIOUS
<1> QED BY <1>1 DEF Picked

LEMMA AddSkipsNone ==
  ASSUME TableInv, AddSchedule
  PROVE  NoneSkipped
<1> DEFINE e == Head(todo)
           rest == Without(tasks, e.id)
<1>1. e \in Info /\ tasks \in Seq(Entry)
  BY TailNames DEF AddSchedule, TableInv, TypeOK
<1>2. rest \in Seq(Entry) /\ Picked(tasks, rest)
  BY <1>1, WithoutFacts
<1>3. CASE tasks' = tasks
  BY <1>3, PickedItself, PickedSkipsNone
<1>4. CASE tasks' = rest
  BY <1>2, <1>4, PickedSkipsNone
<1>5. CASE ~Kept(e) /\ HasDue(e.rule) /\ Sorted(Append(rest, NewEntry(e)), tasks')
  <2> DEFINE n == NewEntry(e)
             q == Append(rest, n)
  <2>1. n \in Entry /\ n.id = e.id /\ n.rule = e.rule /\ n.end = e.end
    BY <1>1, <1>5, NewEntryFacts DEF TableInv, TypeOK
  <2>2. /\ q \in Seq(Entry) /\ Len(q) = Len(rest) + 1 /\ Len(rest) \in Nat
        /\ \A j \in 1 .. Len(rest) : q[j] = rest[j] /\ j \in DOMAIN rest
        /\ q[Len(rest) + 1] = n
    BY <1>2, <2>1
  <2> SUFFICES ASSUME NEW j \in DOMAIN tasks, NEW k \in DOMAIN tasks',
                      tasks[j].id = tasks'[k].id, tasks[j].rule = tasks'[k].rule,
                      tasks[j].end = tasks'[k].end
               PROVE  tasks[j].next = tasks'[k].next
    BY DEF NoneSkipped
  <2> HIDE DEF n, q, rest, e
  <2>3. PICK l \in DOMAIN q : tasks'[k] = q[l]
    <3>1. Picked(q, tasks')
      BY <1>5, <2>2, SortedFacts DEF q, n
    <3> QED BY <3>1, PickedEntry
  <2>4. l \in 1 .. Len(rest) + 1
    BY <2>2
  <2>5. CASE l = Len(rest) + 1
    BY <2>1, <2>2, <2>3, <2>5, <1>5 DEF Kept
  <2>6. CASE l \in 1 .. Len(rest)
    <3>1. PICK h \in DOMAIN tasks : tasks'[k] = tasks[h]
      BY <1>2, <2>2, <2>3, <2>6, PickedEntry
    <3> QED BY <3>1 DEF TableInv, TypeOK
  <2> QED BY <2>2, <2>4, <2>5, <2>6
<1> QED BY <1>3, <1>4, <1>5 DEF AddSchedule, Replaced

LEMMA SkipsNone == TableInv /\ [Next]_vars => NoneSkipped
<1> SUFFICES ASSUME TableInv, [Next]_vars PROVE NoneSkipped
  OBVIOUS
<1>1. CASE tasks' = tasks
  BY <1>1, PickedItself, PickedSkipsNone
<1>2. CASE SubscribeCallback
  <2>1. tasks' = tasks \/ tasks' = Without(tasks, message.id)
    BY <1>2 DEF SubscribeCallback
  <2>2. Picked(tasks, Without(tasks, message.id))
    BY WithoutFacts DEF TableInv, TypeOK
  <2> QED BY <1>1, <2>1, <2>2, PickedSkipsNone
<1>3. CASE AddSchedule
  BY <1>3, AddSkipsNone
<1>4. CASE Tick
  <2>1. CASE ~Corrected(clock)
    BY <1>1, <1>4, <2>1 DEF Tick
  <2>2. CASE Corrected(clock)
    <3>1. clock \in Int /\ last_tick \in Int /\ Correction \in Nat
      BY TimeAssumption DEF TableInv, TypeOK, Time
    <3>2. Abs(clock - last_tick) >= Correction
      BY <2>2, <3>1 DEF Corrected, Abs
    <3> QED BY <3>2 DEF NoneSkipped
  <2> QED BY <2>1, <2>2
<1>5. CASE Executed
  <2> SUFFICES ASSUME ~disturbed, NEW j \in DOMAIN tasks, NEW k \in DOMAIN tasks',
                      tasks[j].id = tasks'[k].id, tasks[j].next # tasks'[k].next
               PROVE  ran[tasks[j].id] = tasks[j].next
    BY DEF NoneSkipped
  <2>1. /\ pc = "executing" /\ k \in DOMAIN tasks
        /\ k # i => tasks'[k] = tasks[k]
        /\ k = i => tasks'[k] = CalculateNext(tasks[k], last_tick + Margin)
    BY <1>5 DEF Executed
  <2>2. CASE k # i
    BY <2>1, <2>2 DEF TableInv, TypeOK
  <2>3. CASE k = i
    <3>1. tasks[k] \in Entry /\ HasDue(tasks[k].rule) /\ last_tick + Margin \in Int /\ clock \in Int
      BY <2>1, TimeAssumption DEF TableInv, TypeOK, AllDue, Time
    <3>2. tasks'[k].id = tasks[k].id
      BY <2>1, <2>3, <3>1, Calculated
    <3>3. j = k
      BY <2>1, <3>2 DEF TableInv, TypeOK
    <3> QED BY <2>1, <2>3, <3>3 DEF TableInv, Running
  <2> QED BY <2>2, <2>3
<1>6. CASE TickEnds
  <2>1. CASE res
    <3>1. Picked(tasks, tasks')
      BY <1>6, <2>1, SortedFacts DEF TickEnds, TableInv, TypeOK
    <3> QED BY <3>1, PickedSkipsNone
  <2>2. CASE ~res
    BY <1>1, <1>6, <2>2 DEF TickEnds
  <2> QED BY <2>1, <2>2
<1>7. CASE tasks' # tasks /\ ~SubscribeCallback
  <2>1. AddSchedule \/ Tick \/ Executed \/ TickEnds
    BY <1>7 DEF Next, Main, Loop, vars, Passes, SetClock, AddTimer, UpdateTimer, DeleteTimer,
       SaveFails, Request, StartScheduleCheck, ReadList, Execute
  <2> QED BY <2>1, <1>3, <1>4, <1>5, <1>6
<1> QED BY <1>1, <1>2, <1>7

-----------------------------------------------------------------------------
(* Deletion.  A request takes at most one id off the file, and says which.   *)
LEMMA PublishedDeletion ==
  ASSUME TypeOK, NEW method \in {"add", "upd", "del"}, NEW id \in Timer, Publish(method, id)
  PROVE  /\ stray \cup Deletion \subseteq stray'
         /\ method = "del" => id \in Deletion'
<1>1. /\ message' = [method |-> method, id |-> id] /\ message' # NoMessage
      /\ message'.method = method /\ message'.id = id
  BY MarkerAssumption DEF Publish
<1> QED BY <1>1 DEF Publish, Deletion

LEMMA ListedNames ==
  ASSUME file' \in Seq(Info)
  PROVE  Listed' = file'
BY MarkerAssumption DEF Listed

LEMMA RequestDeletion ==
  ASSUME TypeOK, DeletionInv, AddTimer \/ UpdateTimer \/ DeleteTimer \/ SaveFails
  PROVE  DeletionInv'
<1>1. UNCHANGED <<tasks, todo, stimer_list>>
  BY RequestStep
<1>2. /\ stray \subseteq stray'
      /\ Names(Listed) \cup stray \cup Deletion \subseteq Names(Listed)' \cup stray' \cup Deletion'
  <2>1. CASE AddTimer
    <3>1. PICK e \in Info : file' = Append(Listed, e) /\ Publish("add", e.id)
      BY <2>1 DEF AddTimer
    <3>0. e \in Info /\ e.id \in Timer
      BY <3>1, InfoAssumption
    <3>2. Listed \in Seq(Info) /\ Append(Listed, e) \in Seq(Info)
      BY <3>0, ListTypes
    <3>3. Listed' = file'
      BY <3>1, <3>2, ListedNames
    <3>4. Names(Append(Listed, e)) = Names(Listed) \cup {e.id}
      BY <3>2, AppendNames
    <3>5. Names(Listed)' = Names(Listed')
      BY DEF Names
    <3>6. Names(Listed)' = Names(Listed) \cup {e.id}
      BY <3>1, <3>3, <3>4, <3>5
    <3> QED BY <3>0, <3>1, <3>6, PublishedDeletion
  <2>2. CASE UpdateTimer
    <3>1. PICK e \in Info :
            /\ file' = [j \in DOMAIN file |-> IF file[j].id = e.id THEN e ELSE file[j]]
            /\ Publish("upd", e.id)
      BY <2>2 DEF UpdateTimer
    <3>2. file \in Seq(Info) /\ Listed = file
      BY <2>2 DEF UpdateTimer, TypeOK, Text, Listed
    <3>0. e \in Info /\ e.id \in Timer
      BY <3>1, InfoAssumption
    <3>3. DOMAIN file = 1 .. Len(file) /\ Len(file) \in Nat
      BY <3>2
    <3>4. file' \in [1 .. Len(file) -> Info]
      BY <3>1, <3>2, <3>3
    <3>5. file' \in Seq(Info)
      BY <3>3, <3>4
    <3>6. Listed' = file'
      BY <3>5, ListedNames
    <3>7. Names(Listed)' = Names(Listed)
      BY <3>1, <3>2, <3>6 DEF Names
    <3> QED BY <3>0, <3>1, <3>7, PublishedDeletion
  <2>3. CASE DeleteTimer
    <3>1. PICK id \in Timer : file' = Without(file, id) /\ Publish("del", id)
      BY <2>3 DEF DeleteTimer
    <3>2. file \in Seq(Info) /\ Listed = file
      BY <2>3 DEF DeleteTimer, TypeOK, Text, Listed
    <3>3. Without(file, id) \in Seq(Info) /\ Names(file) \subseteq Names(Without(file, id)) \cup {id}
      BY <3>2, WithoutFacts
    <3>4. Listed' = Without(file, id)
      BY <3>1, <3>3, ListedNames
    <3>5. Names(Listed)' = Names(Listed')
      BY DEF Names
    <3> QED BY <3>1, <3>2, <3>3, <3>4, <3>5, PublishedDeletion
  <2>4. CASE SaveFails
    BY <2>4 DEF SaveFails, Deletion
  <2> QED BY <2>1, <2>2, <2>3, <2>4
<1>3. ListIsOld'
  BY <1>1, <1>2 DEF DeletionInv, ListIsOld, List
<1>4. TodoIsListed' /\ TableIsListed'
  BY <1>1, <1>2 DEF DeletionInv, TodoIsListed, TableIsListed, List
<1> QED BY <1>3, <1>4 DEF DeletionInv

LEMMA CallbackDeletion ==
  ASSUME TypeOK, DeletionInv, SubscribeCallback
  PROVE  DeletionInv'
<1> USE DEF DeletionInv
<1>1. /\ message # NoMessage /\ message' = NoMessage /\ stimer_list' = file /\ UNCHANGED <<file, todo>>
  BY DEF SubscribeCallback
<1>2. Listed' = Listed /\ List(stimer_list)' = Listed
  BY <1>1 DEF Listed, List
<1>3. ListIsOld'
  BY <1>2 DEF ListIsOld
<1>4. CASE message.method = "del"
  <2>1. /\ Deletion = {message.id} /\ tasks' = Without(tasks, message.id)
        /\ stray' = IF message.id \in Names(todo) THEN stray \cup {message.id}
                                                  ELSE stray \ {message.id}
    BY <1>1, <1>4 DEF SubscribeCallback, Deletion
  <2>2. Names(tasks') \subseteq Names(tasks) \ {message.id}
    <3>1. Picked(tasks, tasks') /\ message.id \notin Names(tasks')
      BY <2>1, WithoutFacts DEF TypeOK, Distinct
    <3> QED BY <3>1, PickedNames
  <2>3. TodoIsListed'
    BY <1>1, <1>2, <2>1 DEF TodoIsListed, ListIsOld
  <2>4. TableIsListed'
    BY <1>2, <2>1, <2>2 DEF TableIsListed, ListIsOld
  <2> QED BY <1>3, <2>3, <2>4
<1>5. CASE message.method # "del"
  <2>1. Deletion = {} /\ UNCHANGED <<tasks, stray>>
    BY <1>5 DEF SubscribeCallback, Deletion
  <2> QED BY <1>1, <1>2, <1>3, <2>1 DEF TodoIsListed, TableIsListed, ListIsOld
<1> QED BY <1>4, <1>5

(* The thread adds what it copied, and forgets what it has added. *)
LEMMA AddDeletion ==
  ASSUME TypeOK, DeletionInv, AddSchedule
  PROVE  DeletionInv'
<1> USE DEF DeletionInv
<1> DEFINE e == Head(todo)
           rest == Without(tasks, e.id)
<1>1. /\ todo' = Tail(todo) /\ todo \in Seq(Info) /\ todo # <<>>
      /\ UNCHANGED <<file, message, stimer_list, stray>>
  BY DEF AddSchedule, fileVars, TypeOK
<1>2. e \in Info /\ e.id \in Names(todo) /\ Names(todo') \subseteq Names(todo)
  BY <1>1, TailNames
<1>3. ListIsOld' /\ TodoIsListed'
  BY <1>1, <1>2 DEF ListIsOld, TodoIsListed, List, Listed, Deletion
<1>4. Names(tasks') \subseteq Names(tasks) \cup {e.id}
  <2>1. rest \in Seq(Entry) /\ Picked(tasks, rest)
    BY WithoutFacts DEF TypeOK
  <2>2. Names(rest) \subseteq Names(tasks)
    BY <2>1, PickedNames
  <2>3. CASE tasks' = tasks \/ tasks' = rest
    BY <2>2, <2>3
  <2>4. CASE HasDue(e.rule) /\ Sorted(Append(rest, NewEntry(e)), tasks')
    <3> DEFINE n == NewEntry(e)
               q == Append(rest, n)
    <3>1. n \in Entry /\ n.id = e.id
      BY <1>2, <2>4, NewEntryFacts DEF TypeOK
    <3>2. Names(q) = Names(rest) \cup {e.id} /\ q \in Seq(Entry)
      BY <2>1, <3>1, AppendNames
    <3> HIDE DEF n, q, e, rest
    <3>3. Picked(q, tasks')
      BY <2>4, <3>2, SortedFacts DEF q, n
    <3> QED BY <2>2, <3>2, <3>3, PickedNames
  <2> QED BY <2>3, <2>4 DEF AddSchedule, Replaced
<1>5. TableIsListed'
  BY <1>1, <1>2, <1>4 DEF TodoIsListed, TableIsListed, List
<1> QED BY <1>3, <1>5

(* Before the thread starts it has nothing to forget. *)
NothingYet == pc = "start" => tasks = <<>> /\ todo = <<>>

LEMMA NothingYetStep ==
  ASSUME TypeOK, NothingYet, [Next]_vars
  PROVE  NothingYet'
<1> SUFFICES ASSUME pc' = "start" PROVE tasks' = <<>> /\ todo' = <<>>
  BY DEF NothingYet
<1>1. pc = "start" /\ todo' = todo /\ (tasks' = tasks \/ \E id : tasks' = Without(tasks, id))
  BY DEF Next, Main, Loop, vars, Passes, SetClock, AddTimer, UpdateTimer, DeleteTimer,
     SaveFails, Request, SubscribeCallback, StartScheduleCheck, ReadList, AddSchedule, Tick,
     Execute, Executed, TickEnds
<1>2. tasks = <<>> /\ todo = <<>>
  BY <1>1 DEF NothingYet
<1>3. \A id : Without(<<>>, id) = <<>>
  BY DEF Without, Names
<1> QED BY <1>1, <1>2, <1>3

LEMMA DeletionStep ==
  ASSUME TypeOK, DeletionInv, NothingYet, [Next]_vars
  PROVE  DeletionInv'
<1> DEFINE Lists == <<file, message, stimer_list, stray>>
<1>1. CASE UNCHANGED <<Lists, todo>> /\ Names(tasks') \subseteq Names(tasks)
  BY <1>1 DEF DeletionInv, ListIsOld, TodoIsListed, TableIsListed, List, Listed, Deletion
<1>2. CASE Passes \/ SetClock \/ Execute \/ UNCHANGED vars
  BY <1>1, <1>2 DEF Passes, SetClock, Execute, vars, fileVars, historyVars, clockVars
<1>3. CASE AddTimer \/ UpdateTimer \/ DeleteTimer \/ SaveFails
  BY <1>3, RequestDeletion
<1>4. CASE SubscribeCallback
  BY <1>4, CallbackDeletion
<1>5. CASE AddSchedule
  BY <1>5, AddDeletion
<1>6. CASE StartScheduleCheck
  <2>1. tasks = <<>> /\ todo = <<>> /\ UNCHANGED <<tasks, todo, file, message, stray>>
        /\ stimer_list' = file
    BY <1>6 DEF StartScheduleCheck, NothingYet, fileVars, historyVars
  <2>2. Names(<<>>) = {}
    BY DEF Names
  <2> QED BY <2>1, <2>2 DEF DeletionInv, ListIsOld, TodoIsListed, TableIsListed, List, Listed
<1>7. CASE ReadList
  BY <1>7 DEF ReadList, fileVars, historyVars, DeletionInv, ListIsOld, TodoIsListed,
     TableIsListed, List, Listed, Deletion
<1>8. CASE Tick \/ Executed \/ TickEnds
  <2>1. UNCHANGED <<Lists, todo>>
    BY <1>8 DEF Tick, Executed, TickEnds, fileVars, historyVars
  <2>2. Names(tasks') \subseteq Names(tasks)
    <3>1. CASE tasks' = tasks
      BY <3>1
    <3>2. CASE Sorted(tasks, tasks')
      BY <3>2, SortedFacts, PickedNames DEF TypeOK
    <3>3. CASE \E from : \A j \in DOMAIN tasks' :
                 /\ j \in DOMAIN tasks
                 /\ tasks'[j] = tasks[j] \/ tasks'[j] = CalculateNext(tasks[j], from)
      <4>1. \A j \in DOMAIN tasks : \A from : CalculateNext(tasks[j], from).id = tasks[j].id
        <5> SUFFICES ASSUME NEW j \in DOMAIN tasks, NEW from
                     PROVE  CalculateNext(tasks[j], from).id = tasks[j].id
          OBVIOUS
        <5>1. tasks[j] \in Entry
          BY DEF TypeOK
        <5> QED BY <5>1 DEF CalculateNext, Entry
      <4> QED BY <3>3, <4>1 DEF Names
    <3>4. CASE Tick /\ tasks' # tasks
      <4>1. tasks' = [j \in DOMAIN tasks |-> CalculateNext(tasks[j], clock)]
        BY <3>4 DEF Tick
      <4> QED BY <3>3, <4>1
    <3>5. CASE Executed
      <4>1. tasks' = [j \in DOMAIN tasks |->
                 IF j = i THEN CalculateNext(tasks[j], last_tick + Margin) ELSE tasks[j]]
        BY <3>5 DEF Executed
      <4> QED BY <3>3, <4>1
    <3>6. CASE TickEnds /\ tasks' # tasks
      BY <3>2, <3>6 DEF TickEnds
    <3> QED BY <1>8, <3>1, <3>4, <3>5, <3>6
  <2> QED BY <1>1, <2>1, <2>2
<1> QED BY <1>2, <1>3, <1>4, <1>5, <1>6, <1>7, <1>8 DEF Next, Main, Loop

-----------------------------------------------------------------------------
SInv == TableInv /\ DeletionInv /\ NothingYet

LEMMA ScheduleInit == Init => SInv
<1> SUFFICES ASSUME Init PROVE SInv
  OBVIOUS
<1>1. file \in Text
  <2>1. \A e \in Info : <<e>> \in Seq(Info)
    OBVIOUS
  <2> QED BY <2>1 DEF Init, Text
<1>2. /\ tasks = <<>> /\ todo = <<>> /\ DOMAIN tasks = {} /\ tasks \in Seq(Entry)
      /\ todo \in Seq(Info) /\ ran \in [Timer -> Int]
  BY DEF Init
<1>3. TypeOK
  <2>1. clock \in Time /\ last_tick \in Time \cup {-1}
    BY TimeAssumption DEF Init, Time
  <2>2. message \in Message /\ stimer_list \in Text
    BY DEF Init, Message, Text
  <2>3. /\ pc \in {"start", "read", "add", "tick", "check", "executing"}
        /\ stray \in SUBSET Timer /\ i \in Nat \ {0}
        /\ corrections \in 0 .. MaxCorrections /\ requests \in 0 .. MaxRequests
    BY ScheduleBounds DEF Init
  <2>4. res \in BOOLEAN /\ disturbed \in BOOLEAN
    BY DEF Init
  <2> QED BY <1>1, <1>2, <2>1, <2>2, <2>3, <2>4 DEF TypeOK
<1>4. AllDue /\ Running /\ NeverTwice
  BY <1>2 DEF Init, AllDue, Running, NeverTwice
<1>5. Names(<<>>) = {}
  BY DEF Names
<1>6. DeletionInv /\ NothingYet
  BY <1>2, <1>5 DEF Init, DeletionInv, NothingYet, ListIsOld, TodoIsListed, TableIsListed, List
<1> QED BY <1>3, <1>4, <1>6 DEF SInv, TableInv

LEMMA ScheduleStep == SInv /\ [Next]_vars => SInv' /\ NoneSkipped
BY TableStep, DeletionStep, NothingYetStep, SkipsNone DEF SInv, TableInv

(* Cron table, list, message and clock fit together between poll, requests  *)
(* and deletions: the invariant of the theorems below.                      *)
THEOREM ScheduleInvHolds == Spec => []SInv
BY ScheduleInit, ScheduleStep, PTL DEF Spec

(* The table, the file and the message have their types; no timer has two    *)
(* entries.                                                                  *)
THEOREM ScheduleTypeCorrect == Spec => []TypeOK
<1>1. SInv => TypeOK BY DEF SInv, TableInv
<1> QED BY <1>1, ScheduleInvHolds, PTL

(* No timer runs twice for one instant, whatever the rules, the requests and  *)
(* the changes of the clock are.                                              *)
THEOREM NoTimerRunsTwice == Spec => []NeverTwice
<1>1. SInv => NeverTwice BY DEF SInv, TableInv
<1> QED BY <1>1, ScheduleInvHolds, PTL

(* No instant is passed over.                                                *)
THEOREM NoInstantIsSkipped == Spec => InstantsAreRun
<1>1. SInv /\ [Next]_vars => NoneSkipped
  BY ScheduleStep
<1> QED BY <1>1, ScheduleInvHolds, PTL DEF Spec, InstantsAreRun, NoneSkipped

(* A timer that was deleted leaves the table.                                *)
THEOREM DeletedTimersLeave == Spec => []DeletedTimersGone
<1>1. SInv => DeletedTimersGone
  <2>1. SInv => Names(tasks) \subseteq
                  Names(IF stimer_list = Blank THEN <<>> ELSE stimer_list) \cup stray
    BY DEF SInv, DeletionInv, TableIsListed, List
  <2> QED BY <2>1 DEF DeletedTimersGone, Names
<1> QED BY <1>1, ScheduleInvHolds, PTL
=============================================================================
