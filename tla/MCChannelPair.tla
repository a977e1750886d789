--------------------------- MODULE MCChannelPair ---------------------------
(***************************************************************************)
(* One channel that writes and one that does not.  Operations on the       *)
(* queues are scheduled as in MCChannel.                                   *)
(***************************************************************************)
EXTENDS ChannelPair

CONSTANTS a, b, nil, x, y, large

MCMessage == {nil, x, y, large}
MCSize == [m \in MCMessage |-> CASE m = nil      -> 0
                                 [] m \in {x, y} -> 1
                                 [] m = large    -> 2]
Small == [n \in {a, b} |-> IF n = a THEN {x, y} ELSE {}]
Large == [n \in {a, b} |-> IF n = a THEN {large} ELSE {}]

JustInTime ==
    \A n \in Node :
        /\ readQueue'[n] # readQueue[n] => pc[n] = "reading" /\ Len(readQueue'[n]) <= 1
        /\ writeQueue'[n] # writeQueue[n] => pc[n] = "writing" /\ Len(writeQueue'[n]) <= 1
        /\ outQueue'[n] # outQueue[n] => pc[n] = "resending"
        /\ pc[n] = "resending" /\ pc'[n] # pc[n] => outQueue[n] = <<>>

Distinct == \A n \in Node : accepted'[n] = SubSeq(<<x, y>>, 1, Len(accepted'[n]))
=============================================================================
