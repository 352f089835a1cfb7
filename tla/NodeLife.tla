------------------------------- MODULE NodeLife -------------------------------
(***************************************************************************)
(* The life of the node over its files and its history, from start to      *)
(* crash to start: main repairs the history, then migrates the files, then *)
(* serves.  A migration that cannot read a file ends the node.             *)
(***************************************************************************)
EXTENDS UpgradeManager, CleanHistory

VARIABLE repaired      \* initialize has returned in this start

nodeVars == <<vars, historyVars, repaired>>

NodeInit == Init /\ HistoryInit /\ repaired = FALSE

Serving == pc \in {"running", "saving"}

Start ==
  /\ ~repaired /\ Initialize /\ repaired' = TRUE
  /\ UNCHANGED vars

Files ==
  /\ repaired
  /\ Migrate \/ CheckWhetherFileExists \/ InPlace
  /\ UNCHANGED <<historyVars, repaired>>

Serve ==
  /\ Serving /\ HistoryNext
  /\ UNCHANGED <<vars, repaired>>

Dies == Crash /\ Lost /\ repaired' = FALSE

NodeNext == Start \/ Files \/ Serve \/ Dies

NodeSpec == NodeInit /\ [][NodeNext]_nodeVars

-----------------------------------------------------------------------------
(* Once the node serves, an open row is one that was launched since it       *)
(* started: nothing an earlier life left open is still open.                 *)
NoRowLeftOpen ==
  Serving => \A t \in Task \ here : ~Open(rows[t])
=============================================================================
