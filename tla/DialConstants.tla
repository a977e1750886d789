--------------------------- MODULE DialConstants ---------------------------
(***************************************************************************)
(* What the two halves of TCPDialer.dial have in common (src/sleepytcp/    *)
(* dial_tcp.go): the callers that AddrCache gives an address and an index, *)
(* and that TCPDialer takes from there.                                    *)
(***************************************************************************)
EXTENDS Integers

CONSTANTS
    Caller,     \* goroutines that call Dial
    IdxSize,    \* addrsIdx is a uint32: 2^32
    None

ASSUME IdxAssumption == IdxSize \in Nat \ {0}
=============================================================================
