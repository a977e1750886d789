---------------------------- MODULE ChannelPair ----------------------------
(***************************************************************************)
(* Two channels that exchange what they receive from Out over a datagram   *)
(* network.  The network never forgets a packet, so it may deliver it      *)
(* late, after younger ones, several times or not at all.                  *)
(*                                                                         *)
(* processed records what Process was given.  Sequence numbers do not wrap *)
(* here: an Update that would go past MaxSeq with the messages it finds is *)
(* not begun, and MaxWrites bounds those that come while it runs.          *)
(***************************************************************************)
EXTENDS Channel

CONSTANTS Payloads,     \* the messages each node writes
          MaxSeq        \* bound on the sequence numbers a node uses

ASSUME PairAssumption == /\ \E a, b \in Node : a # b /\ Node = {a, b}
                         /\ Payloads \in [Node -> SUBSET Message]
                         /\ MaxSeq \in 0 .. (HalfMaxUint16 - 1)
                         /\ MaxWrites < HalfMaxUint16

VARIABLES
    net,        \* packets sent to each node
    processed   \* the sequence numbers and messages each node has processed

pairVars == <<vars, net, processed>>

Peer(n) == CHOOSE x \in Node : x # n

PairInit ==
    /\ ChannelInit
    /\ net = [n \in Node |-> {}]
    /\ processed = [n \in Node |-> {}]

\* The goroutine that writes what Out returns to the socket.
Send(n) ==
    /\ Out(n)
    /\ net' = [net EXCEPT ![Peer(n)] = @ \cup {Head(outQueue[n])}]
    /\ UNCHANGED processed

\* The goroutine that reads the socket.
Deliver(n, p) ==
    /\ Read(n, p)
    /\ UNCHANGED <<net, processed>>

\* A step of Update.  recvCompactPacket calls Process once it has entered the
\* packet in recv, before processACKs.
Step(n) ==
    /\ UpdateNext(n)
    /\ processed' = IF pc[n] = "reading" /\ pc'[n] = "acking"
                      THEN LET p == Arriving(n, Head(readQueue[n]))
                           IN  [processed EXCEPT ![n] = @ \cup {<<p.seq, p.msg>>}]
                      ELSE processed
    /\ UNCHANGED net

Begin(n, dt) ==
    /\ seq[n] + Len(writeQueue[n]) + Len(queue[n]) <= MaxSeq
    /\ Update(n, dt)
    /\ UNCHANGED <<net, processed>>

Submit(n, m) ==
    /\ Write(n, m)
    /\ UNCHANGED <<net, processed>>

PairNext ==
    \E n \in Node :
        \/ Step(n)
        \/ \E dt \in 0 .. ResendAfter : Begin(n, dt)
        \/ Send(n)
        \/ \E p \in net[n] : Deliver(n, p)
        \/ \E m \in Payloads[n] : Submit(n, m)

PairSpec == PairInit /\ [][PairNext]_pairVars

-----------------------------------------------------------------------------
\* A packet leaves the window as acknowledged only when the peer has processed
\* it: no header that was put in a packet early and sent again late, and no
\* acknowledgement read out of order, confirms a packet that was not received.
AckedWasProcessed ==
    \A n \in Node : \A s \in SeqNum :
        Find(SentPacketBufferSize, sent[n], s) /\ ~AwaitsACK(n, s) =>
            \E x \in processed[Peer(n)] : x[1] = s

\* What Process is given is a keep-alive or a message that Write took, and the
\* peer's sequence numbers order such messages as Write did.  (As long as none
\* is refused for its size.)
ProcessedInWriteOrder ==
    \A n \in Node : NoneRefused(Peer(n)) => \A x, y \in processed[n] :
        LET from == accepted[Peer(n)]
        IN  /\ x[2] # Nil => \E i \in DOMAIN from : from[i] = x[2]
            /\ x[1] < y[1] /\ x[2] # Nil /\ y[2] # Nil =>
                \E i, j \in DOMAIN from : i < j /\ from[i] = x[2] /\ from[j] = y[2]

\* endpoint.go:93 says of a large packet: "Otherwise, we will fragment the
\* packet out".  So when a fragment has been sent, so have the ones before it.
FragmentsGoOut ==
    \A n \in Node : \A p \in net[n] : p.fragment =>
        \A id \in 0 .. (p.id - 1) :
            \E q \in net[n] : q.fragment /\ q.seq = p.seq /\ q.id = id
=============================================================================
