---------------------------- MODULE MCHostClient ----------------------------
(* Two callers: one that waits may give up and queue again behind the entry   *)
(* it has left in the queue.                                                 *)
EXTENDS HostClient

CONSTANTS p1, p2, w1, w2, c1, c2, cleaner

Waits == [MaxConns |-> 1, wait |-> TRUE]
Refuses == [MaxConns |-> 1, wait |-> FALSE]
WaitsForTwo == [MaxConns |-> 2, wait |-> TRUE]
AllConfigs == {Waits, Refuses, WaitsForTwo}
=============================================================================
