----------------------------- MODULE TaskHistory -----------------------------
(***************************************************************************)
(* What the history of cleaning tasks promises, whatever keeps it: the row *)
(* of a task is opened once, by its launch; it is executed at most once,   *)
(* and only after it waited; once it has ended it never changes.  A task   *)
(* whose id is launched again has no such promise.                         *)
(*                                                                         *)
(* Several rows may move in one step: a start of the node ends every row   *)
(* that the last stop left open.                                           *)
(***************************************************************************)
CONSTANTS
  Task,
  Outcome      \* the states a row may end in

VARIABLE stage    \* the state of the row of each task, or that it was reused

Stage == {"none", "waiting", "executing", "reused"} \cup Outcome

Moves ==
  ({"none"} \X ({"waiting"} \cup Outcome))         \* launched, or refused at once
  \cup ({"waiting"} \X ({"executing"} \cup Outcome))  \* started, or refused
  \cup ({"executing"} \X Outcome)

Step(from, to) == from = to \/ to = "reused" \/ <<from, to>> \in Moves

Init == stage = [t \in Task |-> "none"]

Next == stage' \in [Task -> Stage] /\ \A t \in Task : Step(stage[t], stage'[t])

Spec == Init /\ [][Next]_stage
=============================================================================
