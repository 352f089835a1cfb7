----------------------------- MODULE MCPlanFiles -----------------------------
EXTENDS PlanFiles

CONSTANTS p1, p2, c1, c2, x, y

(* Two parts, the first of which may be renamed to the name of the second.   *)
PartsSent == {[id |-> p1, name |-> x], [id |-> p1, name |-> y], [id |-> p2, name |-> y]}

(* Two combinations that share a part, the first of which may be renamed,    *)
(* and then has its part twice.                                              *)
PlansSent ==
  {[id |-> c1, name |-> x, parts |-> <<p1>>],
   [id |-> c1, name |-> y, parts |-> <<p1, p1>>],
   [id |-> c2, name |-> y, parts |-> <<p2, p1>>]}

(* Nothing; a plan as it should be; and two parts and two combinations of    *)
(* one id, with a part that is there twice and one that is gone.             *)
Left ==
  {[parts |-> <<>>, combs |-> <<>>],
   [parts |-> <<[id |-> p1, name |-> x], [id |-> p2, name |-> y]>>,
    combs |-> <<[id |-> c2, name |-> y, parts |-> <<p2, p1>>]>>],
   [parts |-> <<[id |-> p1, name |-> y], [id |-> p1, name |-> x]>>,
    combs |-> <<[id |-> c1, name |-> y, parts |-> <<p1, p1>>],
                [id |-> c1, name |-> x, parts |-> <<p2, p1>>]>>]}
=============================================================================
