---------------------------- MODULE MCTCPDialer ----------------------------
(* Two callers and one token, so that an abandoned dial keeps the other      *)
(* caller waiting; there is one dial at a time, and one channel is enough.   *)
EXTENDS TCPDialer

CONSTANTS p1, p2, g1, c1, t1, t2
=============================================================================
