------------------------------ MODULE MCSchedule ------------------------------
(* Instances of Schedule for TLC. *)
EXTENDS Schedule

CONSTANTS a, b

Timers == {a, b}

Often == [period |-> 3, at |-> 2]
Seldom == [period |-> 5, at |-> 4]
Impossible == [period |-> 0, at |-> 0]
Wrong == [period |-> -1, at |-> 0]

Plain(id, rule) == [id |-> id, rule |-> rule, end |-> NoEnd]
Limited(id, rule, end) == [id |-> id, rule |-> rule, end |-> end]

(* One timer that is edited, one that is added beside it. *)
Edited == {Plain(a, Often), Limited(a, Often, 4), Plain(b, Often)}

(* Every kind of rule, and end dates near and far. *)
Kinds == {Plain(a, Often), Plain(a, Seldom), Plain(a, Impossible), Plain(a, Wrong),
          Limited(a, Seldom, 4), Limited(a, Seldom, 20)}
=============================================================================
