---------------------------- MODULE MCAddrCache ----------------------------
(* Callers enough for a resolution that fails late, one that succeeds in the *)
(* meantime and one that refreshes its entry; an entry for each of them.     *)
EXTENDS AddrCache

CONSTANTS p1, p2, p3, h1, e1, e2, e3
=============================================================================
