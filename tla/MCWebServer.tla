----------------------------- MODULE MCWebServer -----------------------------
EXTENDS WebServer

(* Values of a cell of the map: the sign cannot be written in a .cfg file. *)
MCCells == {-1, 0, 100}
=============================================================================
