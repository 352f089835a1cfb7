------------------------------ MODULE PlanFiles ------------------------------
(***************************************************************************)
(* The plans an app keeps on the robot: the parts of a map to clean         *)
(* (ViewPartManager) and the combinations of parts (CombinationManager),   *)
(* each a list in memory and a file, with the requests that edit them and  *)
(* the launches that look them up.  FullCleanManager is written like       *)
(* CombinationManager, for a list that refers to nothing.                  *)
(*                                                                         *)
(* Requests run on the main thread, timers launch on the schedule thread.  *)
(* Every operation, a look-up too, reads the file over the list, edits the *)
(* list, and writes the list over the file.  A handler is the operations   *)
(* it has still to do.  The managers have no lock: when both threads are   *)
(* in one manager the behaviour is undefined, and nothing more happens.    *)
(***************************************************************************)
EXTENDS Naturals, Sequences, FiniteSets, SequencesExt

CONSTANTS
  Part, Comb, Name,     \* ids of parts and of combinations, and names of both
  Parts, Plans,         \* the parts and combinations an app may send
  Saved,                \* what earlier lives may have left: [parts, combs]
  Blank, Torn,          \* a file without text, and one that does not parse
  MaxRequests, MaxLaunches, MaxFailures, MaxCrashes    \* bounds

(* An entry keeps what the managers tell entries apart by, and what they     *)
(* search.  The app is free in all of it: ids may be equal, a combination    *)
(* may have a part twice, one that does not exist, or none.                  *)
PartEntry == [id : Part, name : Name]
Combination == [id : Comb, name : Name, parts : Seq(Part)]

ASSUME PlansAssumption ==
  /\ Parts \subseteq PartEntry /\ Plans \subseteq Combination
  /\ Saved \subseteq [parts : Seq(PartEntry), combs : Seq(Combination)]
ASSUME PlanBounds ==
  /\ MaxRequests \in Nat /\ MaxLaunches \in Nat
  /\ MaxFailures \in Nat /\ MaxCrashes \in Nat

VARIABLES
  file, list,           \* of each manager
  todo,                 \* what the handler of each thread has still to do
  stage,                \* where it is in the first operation of these
  text,                 \* what it is about to write
  partsRead,            \* the ids in its copy of the parts, or Blank
  race,                 \* both threads are in one manager
  requests, launches, failures, crashes,    \* bounds
  lost,                 \* history variable: managers whose data was lost
  missed,               \* history variable: parts whose search found no file
  doubled,              \* history variable: parts dropped where they were twice
  found                 \* history variable: what there was for an operation

boundVars == <<requests, launches, failures, crashes>>
handlerVars == <<todo, stage, text, partsRead, found>>
vars == <<file, list, handlerVars, race, boundVars, lost, missed, doubled>>

-----------------------------------------------------------------------------
Manager == {"parts", "combs"}
Thread == {"main", "schedule"}
List(m) == IF m = "parts" THEN Seq(PartEntry) ELSE Seq(Combination)

ASSUME MarkersAssumption ==
  /\ Blank # Torn
  /\ \A m \in Manager : Blank \notin List(m) /\ Torn \notin List(m)
  /\ \A s \in SUBSET Part : s # Blank

PartOps == {"addPart", "updatePart", "removePart"}
Of(op) == IF op[1] \in PartOps \cup {"list"} THEN "parts" ELSE "combs"

Op ==
  ({"addPart", "updatePart"} \X PartEntry)
  \cup ({"removePart", "search", "drop", "repair"} \X Part)
  \cup ({"removeComb", "get", "flag", "list"} \X Comb)
  \cup ({"addComb", "resetComb"} \X Combination)

Ids(l) == {e.id : e \in ToSet(l)}
Names(l) == {e.name : e \in ToSet(l)}
Refer(l, p) == {e \in ToSet(l) : p \in ToSet(e.parts)}

(* The elements of a sequence that are in a set. *)
Within(s, S) ==
  LET kept[i \in 0 .. Len(s)] ==
        IF i = 0 THEN <<>>
        ELSE IF s[i] \in S THEN Append(kept[i - 1], s[i]) ELSE kept[i - 1]
  IN kept[Len(s)]

(* The first entry with an id: what is removed, replaced and looked up.      *)
First(l, id) == SelectInSeq(l, LAMBDA e : e.id = id)

(* What an operation needs of the list.  Only names must be new.             *)
Accepts(op, l) ==
  CASE op[1] \in {"addPart", "addComb"} -> op[2].name \notin Names(l)
    [] op[1] \in {"updatePart", "resetComb"} -> op[2].id \in Ids(l)
    [] op[1] \in {"removePart", "removeComb", "get", "flag"} -> op[2] \in Ids(l)
    [] op[1] \in {"search", "drop", "repair"} -> Refer(l, op[2]) # {}
    [] OTHER -> TRUE

(* delatePartID of a combination: the first occurrence goes.                 *)
Without(e, p) == [e EXCEPT !.parts = RemoveFirst(@, p)]

(* delatePartID of the list: a combination that had no other part goes too.  *)
Dropped(l, p) ==
  LET kept == Within(l, {e \in ToSet(l) : e.parts # <<p>>})
  IN [i \in DOMAIN kept |-> Without(kept[i], p)]

Effect(op, l) ==
  CASE op[1] \in {"addPart", "addComb"} -> Append(l, op[2])
    [] op[1] \in {"updatePart", "resetComb"} -> [l EXCEPT ![First(l, op[2].id)] = op[2]]
    [] op[1] \in {"removePart", "removeComb"} -> RemoveAt(l, First(l, op[2]))
    [] op[1] \in {"drop", "repair"} -> Dropped(l, op[2])
    [] OTHER -> l

-----------------------------------------------------------------------------
DataTypes ==
  /\ DOMAIN file = Manager /\ DOMAIN list = Manager
  /\ \A m \in Manager : /\ file[m] \in List(m) \cup {Blank, Torn}
                        /\ list[m] \in List(m)

HandlerTypes ==
  /\ todo \in [Thread -> Seq(Op)]
  /\ stage \in [Thread -> {"open", "save", "write"}]
  /\ DOMAIN text = Thread /\ DOMAIN found = Thread
  /\ \A th \in Thread :
       /\ stage[th] # "open" => todo[th] # <<>>
       /\ stage[th] = "write" => text[th] \in List(Of(Head(todo[th])))
       /\ stage[th] # "open" => found[th] \in List(Of(Head(todo[th])))
  /\ partsRead \in [Thread -> (SUBSET Part) \cup {Blank}]

BoundTypes ==
  /\ requests \in 0 .. MaxRequests /\ launches \in 0 .. MaxLaunches
  /\ failures \in 0 .. MaxFailures /\ crashes \in 0 .. MaxCrashes
  /\ race \in BOOLEAN /\ lost \in SUBSET Manager
  /\ missed \in SUBSET Part /\ doubled \in SUBSET Part

TypeOK == DataTypes /\ HandlerTypes /\ BoundTypes

Init ==
  /\ \E s \in Saved :
       file = [m \in Manager |-> IF m = "parts" THEN s.parts
                                 ELSE IF s.combs = <<>> THEN Blank ELSE s.combs]
  /\ list = [m \in Manager |-> <<>>]
  /\ todo = [th \in Thread |-> <<>>] /\ stage = [th \in Thread |-> "open"]
  /\ text = [th \in Thread |-> Blank] /\ partsRead = [th \in Thread |-> Blank]
  /\ requests = 0 /\ launches = 0 /\ failures = 0 /\ crashes = 0
  /\ race = FALSE /\ lost = {} /\ missed = {} /\ doubled = {}
  /\ found = [th \in Thread |-> Blank]

-----------------------------------------------------------------------------
(* Handlers.  A handler is called when its thread has ended the one before.  *)
Call(th, ops) ==
  /\ todo[th] = <<>> /\ ~race
  /\ todo' = [todo EXCEPT ![th] = ops]
  /\ partsRead' = [partsRead EXCEPT ![th] = Blank]
  /\ UNCHANGED <<file, list, stage, text, found, race, failures, crashes,
                 lost, missed, doubled>>

(* Deletion looks whether a combination has the part; what it then does      *)
(* about the taught points is left out, as nothing saves any.                *)
PartDelete(p) == <<<<"search", p>>, <<"removePart", p>>>>

(* Mutant: the part goes before what refers to it. *)
PartDeleteForceInOrder(p) == <<<<"removePart", p>>, <<"drop", p>>>>

PartDeleteForce(p) == <<<<"drop", p>>, <<"removePart", p>>>>

Details(c) == <<<<"list", c>>, <<"get", c>>>>

(* dispatcherTask and the generator of the points. *)
Dispatch(c) == <<<<"get", c>>>> \o Details(c)

EditParts(e) ==
  {<<<<"addPart", e>>>>, <<<<"updatePart", e>>>>, PartDelete(e.id), PartDeleteForce(e.id)}

EditCombs(e) ==
  {<<<<"addComb", e>>>>, <<<<"resetComb", e>>>>, <<<<"removeComb", e.id>>>>,
   <<<<"flag", e.id>>>>, Details(e.id)}

Request ==
  /\ requests < MaxRequests /\ requests' = requests + 1
  /\ \/ \E e \in Parts : \E ops \in EditParts(e) : Call("main", ops)
     \/ \E e \in Plans : \E ops \in EditCombs(e) : Call("main", ops)
  /\ UNCHANGED launches

(* executeTask of the app, and execTask of a timer, which looks up the type   *)
(* of the combination first.  TaskCenter may refuse the task.                *)
Launch ==
  /\ launches < MaxLaunches /\ launches' = launches + 1
  /\ \E c \in Comb :
       \/ Call("main", Dispatch(c))
       \/ Call("schedule", <<<<"get", c>>>>)
       \/ Call("schedule", <<<<"get", c>>>> \o Dispatch(c))
  /\ UNCHANGED requests

-----------------------------------------------------------------------------
Mine(th) == Of(Head(todo[th]))
At(th, s) == todo[th] # <<>> /\ stage[th] = s
Alone(th) == ~\E o \in Thread \ {th} : stage[o] # "open" /\ Mine(o) = Mine(th)

(* What the node has of the data of each manager: what a thread is writing,  *)
(* or what the file says, or what the list says when the file is empty.      *)
Library ==
  [m \in Manager |->
     IF \E th \in Thread : At(th, "write") /\ Mine(th) = m
     THEN text[CHOOSE th \in Thread : At(th, "write") /\ Mine(th) = m]
     ELSE IF file[m] \in {Blank, Torn} THEN list[m] ELSE file[m]]

Fails == failures < MaxFailures /\ failures' = failures + 1
Works == UNCHANGED failures

(* How an operation ends for its handler. *)
Ends(th, ops) ==
  /\ todo' = [todo EXCEPT ![th] = ops]
  /\ stage' = [stage EXCEPT ![th] = "open"]
  /\ found' = [found EXCEPT ![th] = Blank]

(* A handler throws, but a search that fails means that the part is free, and *)
(* what a repair says is not looked at.                                      *)
Refused(th) ==
  Ends(th, IF Head(todo[th])[1] \in {"search", "repair"} THEN Tail(todo[th]) ELSE <<>>)

(* A search that finds the part is what makes its handler throw. *)
Succeeds(th) ==
  Ends(th, IF Head(todo[th])[1] = "search" THEN <<>> ELSE Tail(todo[th]))

(* Whatever made a search fail. *)
Misses(th) ==
  missed' = IF Head(todo[th])[1] = "search" THEN missed \cup {Head(todo[th])[2]} ELSE missed

(* A drop takes a part away once where it is twice. *)
Doubles(op, l) ==
  IF op[1] = "drop"
     /\ \E e \in ToSet(l) : \E i, j \in DOMAIN e.parts :
          i # j /\ e.parts[i] = op[2] /\ e.parts[j] = op[2]
  THEN {op[2]} ELSE {}

(* Mutant: once a part is not found, no later one is. *)
UnmatchedFromThenOn(th, e) ==
  LET i == SelectInSeq(e.parts, LAMBDA p : p \notin partsRead[th])
  IN IF i = 0 THEN <<>> ELSE SubSeq(e.parts, i, Len(e.parts))

(* toDetail: the parts of a combination that are not in the copy of them. *)
Unmatched(th, e) == Within(e.parts, Part \ partsRead[th])

(* The repairs that a look-up after a copy of the parts leads to. *)
Repairs(th, l) ==
  LET op == Head(todo[th]) IN
  IF op[1] = "get" /\ partsRead[th] # Blank
  THEN LET q == Unmatched(th, l[First(l, op[2])])
       IN [i \in DOMAIN q |-> <<"repair", q[i]>>]
  ELSE <<>>

-----------------------------------------------------------------------------
(* FileOpenRead. *)
OpenFails(th) ==
  /\ At(th, "open") /\ Fails
  /\ Refused(th) /\ Misses(th)
  /\ UNCHANGED <<file, list, text, partsRead, lost, doubled>>

ParseThrows(th) ==
  /\ At(th, "open") /\ file[Mine(th)] = Torn
  /\ Ends(th, <<>>) /\ Works
  /\ UNCHANGED <<file, list, text, partsRead, lost, missed, doubled>>

(* Mutant: no text, no list. *)
ReadAfresh(m) == IF file[m] = Blank THEN <<>> ELSE file[m]

(* An empty file leaves the list as it was. *)
Read(m) == IF file[m] = Blank THEN list[m] ELSE file[m]

(* The list is read, and what the operation wants done to it.                *)
ReadAndEdit(th) ==
  /\ At(th, "open") /\ Alone(th) /\ file[Mine(th)] # Torn
  /\ LET op == Head(todo[th])
         m == Mine(th)
         l == Read(m)
     IN \/ /\ op[1] = "list"
           /\ partsRead' = [partsRead EXCEPT ![th] = Ids(l)]
           /\ list' = [list EXCEPT ![m] = l]
           /\ Succeeds(th)
           /\ UNCHANGED doubled
        \/ /\ op[1] # "list" /\ ~Accepts(op, l)
           /\ list' = [list EXCEPT ![m] = l]
           /\ Refused(th)
           /\ UNCHANGED <<partsRead, doubled>>
        \/ /\ op[1] # "list" /\ Accepts(op, l)
           /\ list' = [list EXCEPT ![m] = Effect(op, l)]
           /\ todo' = [todo EXCEPT ![th] = @ \o Repairs(th, l)]
           /\ stage' = [stage EXCEPT ![th] = "save"]
           /\ found' = [found EXCEPT ![th] = Library[m]]
           /\ doubled' = doubled \cup Doubles(op, l)
           /\ UNCHANGED partsRead
  /\ Works
  /\ UNCHANGED <<file, text, lost, missed>>

(* FileSave.  The list stays edited until the file is read again, or for     *)
(* good if the file is empty.                                                *)
SaveFails(th) ==
  /\ At(th, "save") /\ Fails
  /\ Refused(th) /\ Misses(th)
  /\ UNCHANGED <<file, list, text, partsRead, lost, doubled>>

(* Mutant: what was read is written back. *)
EncodedAsRead(m) == Read(m)

(* Mutant: what the file said is written back. *)
EncodedAsFiled(m) == file[m]

Encoded(m) == list[m]

(* The list is encoded and the file emptied. *)
Truncate(th) ==
  /\ At(th, "save")
  /\ text' = [text EXCEPT ![th] = Encoded(Mine(th))]
  /\ file' = [file EXCEPT ![Mine(th)] = Blank]
  /\ stage' = [stage EXCEPT ![th] = "write"]
  /\ Works
  /\ UNCHANGED <<list, todo, partsRead, found, lost, missed, doubled>>

(* An empty list of combinations is written as no text at all. *)
Written(th) == IF Mine(th) = "combs" /\ text[th] = <<>> THEN Blank ELSE text[th]

(* A write that fails is not noticed. *)
Write(th) ==
  /\ At(th, "write")
  /\ \E c \in {Written(th), Blank, Torn} :
       /\ file' = [file EXCEPT ![Mine(th)] = c]
       /\ IF c = Written(th) THEN Works ELSE Fails
       /\ lost' = IF c = Torn THEN lost \cup {Mine(th)} ELSE lost
  /\ text' = [text EXCEPT ![th] = Blank]
  /\ Succeeds(th)
  /\ UNCHANGED <<list, partsRead, missed, doubled>>

Operate(th) ==
  /\ ~race
  /\ \/ OpenFails(th) \/ ParseThrows(th) \/ ReadAndEdit(th)
     \/ SaveFails(th) \/ Truncate(th) \/ Write(th)
  /\ UNCHANGED <<race, requests, launches, crashes>>

(* The lists, the texts and the streams of a manager are shared. *)
Race ==
  /\ ~race /\ race' = TRUE
  /\ \E th \in Thread : At(th, "open") /\ ~Alone(th)
  /\ UNCHANGED <<file, list, handlerVars, boundVars, lost, missed, doubled>>

(* The node dies and starts again, unless a file keeps it from that: see     *)
(* UpgradeManager.                                                           *)
Restart ==
  /\ ~race /\ crashes < MaxCrashes /\ crashes' = crashes + 1
  /\ \A m \in Manager : file[m] # Torn
  /\ lost' = lost \cup {m \in Manager : file[m] = Blank /\ Library[m] # <<>>}
  /\ list' = [m \in Manager |-> <<>>]
  /\ todo' = [th \in Thread |-> <<>>] /\ stage' = [th \in Thread |-> "open"]
  /\ text' = [th \in Thread |-> Blank] /\ partsRead' = [th \in Thread |-> Blank]
  /\ found' = [th \in Thread |-> Blank]
  /\ UNCHANGED <<file, race, requests, launches, failures, missed, doubled>>

Next == Request \/ Launch \/ (\E th \in Thread : Operate(th)) \/ Race \/ Restart

Spec == Init /\ [][Next]_vars

-----------------------------------------------------------------------------
(* What the node has of the app's plans changes only by what the operations  *)
(* at hand do, where they may, and by each as a whole: look-ups, operations  *)
(* that are refused, repeated reads, a file that could not be opened or      *)
(* written and the other thread change nothing and lose nothing as long as   *)
(* the node lives.  That ends when a write leaves half a text, or the node   *)
(* dies over an empty file.                                                  *)
EditsAreAtomic ==
  [][\A m \in Manager \ lost' :
       Library[m]' # Library[m] =>
         \E th \in Thread :
           /\ todo[th] # <<>> /\ Mine(th) = m /\ stage[th] # "write"
           /\ Accepts(Head(todo[th]), Library[m])
           /\ Library[m]' = Effect(Head(todo[th]), Library[m])]_vars

(* An operation that is answered as done has been done to what there was     *)
(* when it began, and that is on the disk: nothing that failed before, came  *)
(* between or was read again is lost or brought back by it.                  *)
DoneIsOnDisk ==
  [][\A th \in Thread :
       At(th, "write") /\ stage'[th] = "open" /\ failures' = failures /\ crashes' = crashes =>
         (IF file'[Mine(th)] = Blank THEN <<>> ELSE file'[Mine(th)])
           = Effect(Head(todo[th]), found[th])]_vars

(* When the last part of an id is deleted no combination refers to it any    *)
(* more, also when it was deleted by force, an operation on a file failed or *)
(* the schedule repaired a combination meanwhile.  There are two exceptions: *)
(* the search for combinations that have it could not be done, whose failure *)
(* is taken for "none", and a combination had the part twice.                *)
DeletedPartsUnused ==
  [][lost' = {} =>
       \A p \in (Ids(Library["parts"]) \ Ids(Library["parts"]')) \ (missed' \cup doubled') :
         Refer(Library["combs"]', p) = {}]_vars

(* Details and launches of the main thread remove references only to parts   *)
(* that are gone.  (The schedule may remove one to a part that was added     *)
(* after it copied the parts.)                                               *)
RepairsOnlyDangling ==
  \A p \in Part :
    At("main", "open") /\ Head(todo["main"]) = <<"repair", p>> /\ "parts" \notin lost =>
      p \notin Ids(Library["parts"])
=============================================================================
