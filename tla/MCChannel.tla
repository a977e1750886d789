----------------------------- MODULE MCChannel -----------------------------
(***************************************************************************)
(* One channel given packets with any acknowledgement.                     *)
(*                                                                         *)
(* Each queue is used by one phase of Update, and an operation of another  *)
(* goroutine on it commutes with every step of the other phases.  So it is *)
(* enough to let the operation happen in the phase that uses the queue,    *)
(* right before the step that needs it, and to empty outQueue before the   *)
(* phase that fills it ends (JustInTime).  No step depends on what a       *)
(* message is, so it is enough to write distinct ones (Distinct).          *)
(***************************************************************************)
EXTENDS Channel

CONSTANTS c, nil, x, y, z

MCMessage == {nil, x, y, z}
MCSize == [m \in MCMessage |-> IF m = nil THEN 0 ELSE 1]
MCArrivals == {CompactPacket(0, [ack |-> s, acks |-> bits], nil) :
                  s \in SeqNum, bits \in {{0}, {0, 1}}}
              \cup {FragmentPacket(0, [ack |-> 0, acks |-> {}], x, 1, 1)}

JustInTime ==
    \A n \in Node :
        /\ readQueue'[n] # readQueue[n] => pc[n] = "reading" /\ Len(readQueue'[n]) <= 1
        /\ writeQueue'[n] # writeQueue[n] => pc[n] = "writing" /\ Len(writeQueue'[n]) <= 1
        /\ outQueue'[n] # outQueue[n] => pc[n] = "resending"
        /\ pc[n] = "resending" /\ pc'[n] # pc[n] => outQueue[n] = <<>>

Distinct == \A n \in Node : accepted'[n] = SubSeq(<<x, y, z>>, 1, Len(accepted'[n]))
=============================================================================
