---------------------------- MODULE EndpointPair ----------------------------
(***************************************************************************)
(* Two endpoints that exchange packets through the dispatcher of           *)
(* src/endpoint_test.go: Transmit puts the packet on the network, Process  *)
(* and ACK change nothing.  The network never forgets a packet, so it may  *)
(* deliver it late, after younger ones, several times or not at all.       *)
(*                                                                         *)
(* written and processed record what was written and what Process was      *)
(* given.  Sequence numbers do not wrap here: MaxWrites is below M / 2.    *)
(***************************************************************************)
EXTENDS Endpoint

CONSTANTS Payloads,     \* the messages each node writes
          MaxWrites     \* bound on the packets each node writes

ASSUME PairAssumption == /\ \E a, b \in Node : a # b /\ Node = {a, b}
                         /\ Payloads \in [Node -> SUBSET Message]
                         /\ MaxWrites \in [Node -> 0 .. (HalfMaxUint16 - 1)]

VARIABLES
    net,        \* packets transmitted to each node
    written,    \* the message each node has written under 0, 1, 2, ...
    processed   \* the sequence numbers and messages each node has processed

vars == <<endpointVars, net, written, processed>>

Peer(n) == CHOOSE x \in Node : x # n

PairInit ==
    /\ EndpointInit
    /\ net = [n \in Node |-> {}]
    /\ written = [n \in Node |-> <<>>]
    /\ processed = [n \in Node |-> {}]

Contents(s) == {s[i] : i \in DOMAIN s}

\* Endpoint.WritePacket.
WritePacket(n, m) ==
    /\ Len(written[n]) < MaxWrites[n]
    /\ NumberPacket(n, m)
    /\ IF Oversize(m)
         THEN UNCHANGED <<net, written>>
         ELSE /\ net' = [net EXCEPT ![Peer(n)] = @ \cup Contents(NextTransmitted(n, m))]
              /\ written' = [written EXCEPT ![n] = Append(@, m)]
    /\ UNCHANGED <<recv, assembler, fragment, processed>>

\* processACKs, whose callback changes nothing in this composition.
MarkACKed(n, p) ==
    LET confirmed == {s \in {Minus(p.ack, i) : i \in p.acks} : AwaitsACK(n, s)}
    IN  acked' = [acked EXCEPT ![n] =
                    [i \in DOMAIN @ |-> @[i] \/ \E s \in confirmed :
                                                   Slot(SentPacketBufferSize, s) = i]]

\* Endpoint.ReadPacket.  A mixture of payloads is processed as Nil, which no
\* packet of this composition that is cut into fragments carries.
ReadPacket(n, p) ==
    \/ /\ ReadFails(n, p) \/ ReadStores(n, p)
       /\ UNCHANGED <<acked, processed>>
    \/ /\ ReadAccepts(n, p)
       /\ LET q == Arriving(n, p)
          IN  /\ processed' = [processed EXCEPT ![n] = @ \cup
                    {<<q.seq, IF p.fragment /\ Mixed(n, p) THEN Nil ELSE q.msg>>}]
              /\ MarkACKed(n, q)

Deliver(n, p) ==
    /\ ReadPacket(n, p)
    /\ UNCHANGED <<seq, sent, net, written>>

PairNext ==
    \E n \in Node : \/ \E m \in Payloads[n] : WritePacket(n, m)
                    \/ \E p \in net[n] : Deliver(n, p)

Spec == PairInit /\ [][PairNext]_vars

-----------------------------------------------------------------------------
TypeOK ==
    /\ EndpointTypeOK
    /\ net \in [Node -> SUBSET Packets]
    /\ written \in [Node -> Seq(Message)]
    /\ processed \in [Node -> SUBSET (SeqNum \X Message)]

\* recvCompactPacket hands Process only what the peer wrote, whole: a packet
\* reassembled from fragments holds the pieces of one message and the sequence
\* number it was written under, whatever order, repetition or loss the
\* fragments met and whichever entries shared a slot of the assembler.
ProcessedWasWritten ==
    \A n \in Node : \A x \in processed[n] :
        /\ x[1] < Len(written[Peer(n)])
        /\ x[2] = written[Peer(n)][x[1] + 1]

\* Every packet in the assembler lacks a fragment: recvFragmentedPacket takes out the
\* entry that a fragment completes, and gives its buffer back to the pool, also
\* when recvCompactPacket refuses the packet, which younger ones made stale while its
\* fragments were under way.
EntriesIncomplete ==
    \A n \in Node : \A i \in Slots(FragmentReassemblyBufferSize) :
        assembler[n].entries[i] # Empty =>
            Cardinality(fragment[n][i].parts) < fragment[n][i].total

\* processACKs marks a sent packet as acknowledged only when the peer has
\* processed it: stale headers, reused slots and the lost bits of an entry
\* that was evicted never acknowledge another packet.
AckedWasProcessed ==
    \A n \in Node : \A s \in SeqNum :
        Find(SentPacketBufferSize, sent[n], s) /\ ~AwaitsACK(n, s) =>
            \E x \in processed[Peer(n)] : x[1] = s
=============================================================================
