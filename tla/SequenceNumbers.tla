-------------------------- MODULE SequenceNumbers --------------------------
(***************************************************************************)
(* The circular 16-bit packet sequence numbers of package sleepy and their *)
(* order (src/utils.go).  M stands for 65536: the arithmetic is the code's *)
(* uint16 arithmetic, modulo M.                                            *)
(***************************************************************************)
EXTENDS Integers

CONSTANT M      \* number of sequence numbers, 65536 in the code

ASSUME MAssumption == /\ M \in Nat
                      /\ M >= 4
                      /\ M % 2 = 0

SeqNum == 0 .. (M - 1)

\* uint16 addition and subtraction.
Plus(a, b)  == (a + b) % M
Minus(a, b) == (a - b) % M

HalfMaxUint16 == (M - 1) \div 2 + 1

\* Mutant: the order without its wrap.
GreaterUnwrapped(a, b) == a > b

seqGreaterThan(a, b) ==
    \/ a > b /\ a - b <= HalfMaxUint16
    \/ a < b /\ b - a > HalfMaxUint16

seqLessThan(a, b) == seqGreaterThan(b, a)

seqLTE(a, b) == a = b \/ seqGreaterThan(b, a)
=============================================================================
