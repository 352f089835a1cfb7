----------------------------- MODULE MapEncoding -----------------------------
(***************************************************************************)
(* The picture of the map that WsServerManager::setMapApp sends to the     *)
(* apps: the cells are normalised and reduced to two values, and the list  *)
(* of cells is encoded in runs.                                            *)
(***************************************************************************)
EXTENDS Integers, Sequences, FiniteSetsExt

CONSTANTS Cells,       \* occupancies of a cell: -1 unknown, 0 free, 100 occupied
          MaxCells     \* bound on the size of a map

(* An occupancy is an int8.                                                 *)
ASSUME CellsAssumption == Cells \subseteq -128 .. 127 /\ MaxCells \in Nat

Grids == UNION {[1..n -> Cells] : n \in 1..MaxCells}

(* A cell is stored in an unsigned char, so that unknown becomes 255, and    *)
(* cv::normalize then spreads the values over 0..255; a map of one value     *)
(* becomes 0.  What is not 0 after that is sent as -1.  (cv::normalize       *)
(* rounds where \div cuts off: neither makes a 0 of a value above the        *)
(* least, as the factor is 1 or more.)                                       *)
Picture(grid) ==
  LET pixel == [i \in DOMAIN grid |-> grid[i] % 256]
      low == Min({pixel[i] : i \in DOMAIN grid})
      high == Max({pixel[i] : i \in DOMAIN grid})
      normal(p) == IF high = low THEN 0 ELSE ((p - low) * 255) \div (high - low)
  IN [i \in DOMAIN grid |-> IF normal(pixel[i]) = 0 THEN 0 ELSE -1]

(* Mutant: a run is written only when the next one begins. *)
IterationWithoutEnd(cells, before, i) ==
  IF i > 1 /\ cells[i] = cells[i - 1] THEN [before EXCEPT !.count = @ + 1]
  ELSE [dataList |-> before.dataList
                       \o (IF i = 1 THEN <<cells[i]>> ELSE <<before.count, cells[i]>>),
        count |-> 1]

(* The loop that writes value, length, value, length ...: a run is written   *)
(* when the next one begins, and the last one with the last cell.            *)
Iteration(cells, before, i) ==
  IF i = 1 THEN [dataList |-> <<cells[1]>>, count |-> before.count]
  ELSE IF cells[i] = cells[i - 1]
  THEN [dataList |-> IF i = Len(cells) THEN Append(before.dataList, before.count + 1)
                     ELSE before.dataList,
        count |-> before.count + 1]
  ELSE [dataList |-> (before.dataList \o <<before.count, cells[i]>>)
                       \o (IF i = Len(cells) THEN <<1>> ELSE <<>>),
        count |-> 1]

Loop(cells) ==
  LET run[i \in 0 .. Len(cells)] ==
        IF i = 0 THEN [dataList |-> <<>>, count |-> 1]
        ELSE Iteration(cells, run[i - 1], i)
  IN run

Encode(cells) == Loop(cells)[Len(cells)].dataList

(* What an app reads out of the list, pair by pair. *)
ReadPair(cells, list, k) ==
  cells \o [j \in 1 .. list[2 * k] |-> list[2 * k - 1]]

Reading(list) ==
  LET read[k \in 0 .. Len(list) \div 2] ==
        IF k = 0 THEN <<>> ELSE ReadPair(read[k - 1], list, k)
  IN read

Decode(list) == Reading(list)[Len(list) \div 2]

(* Whether an app that reads the runs gets every cell, the free ones and no  *)
(* others shown as free.                                                     *)
ShownRight(grid) ==
  Decode(Encode(Picture(grid))) = [i \in DOMAIN grid |-> IF grid[i] = 0 THEN 0 ELSE -1]
=============================================================================
