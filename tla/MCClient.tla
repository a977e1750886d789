------------------------------ MODULE MCClient ------------------------------
(* Two addresses, and a spare HostClient for one that is removed under the   *)
(* hands of its callers.                                                     *)
EXTENDS Client

CONSTANTS p1, p2, h1, h2, i1, i2, i3, k1, k2
=============================================================================
