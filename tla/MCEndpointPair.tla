--------------------------- MODULE MCEndpointPair ---------------------------
(* One endpoint writes messages of every size class: sent in one packet, cut *)
(* into two fragments, refused.  The other one acknowledges them in          *)
(* keep-alives.                                                              *)
EXTENDS EndpointPair, TLC

CONSTANTS a, b, nil, small, large, wide, huge

MCNode == {a, b}
MCMessage == {nil, small, large, wide, huge}
MCSize == [m \in MCMessage |-> CASE m = nil           -> 0
                                 [] m = small         -> 1
                                 [] m \in {large, wide} -> 3
                                 [] m = huge          -> 9]
MCPayloads == [n \in MCNode |-> IF n = a THEN MCMessage \ {nil} ELSE {nil}]
MCMaxWrites == [n \in MCNode |-> IF n = a THEN 3 ELSE 2]

\* Two messages of the same size are interchangeable.
Symmetry == Permutations({large, wide})
=============================================================================
