------------------------------ MODULE MCNodeLife ------------------------------
EXTENDS NodeLife, TLC

CONSTANTS t1, t2, requests, schedule

Tasks == {t1, t2}
Threads == {requests, schedule}

(* Nothing tells the ids, or the launching threads, apart. *)
Alike == Permutations(Tasks) \cup Permutations(Threads)
=============================================================================
