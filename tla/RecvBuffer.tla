----------------------------- MODULE RecvBuffer -----------------------------
(***************************************************************************)
(* The receive side of an endpoint's acknowledgements: a RecvPacketBuffer  *)
(* fed by a peer over a network that delays, reorders, duplicates and      *)
(* loses packets, and the ACK bitset NextACK computes from it.             *)
(*                                                                         *)
(* The peer numbers its packets 0, 1, 2, ... without wrapping; the code    *)
(* sees each number modulo M.  sent counts the packets the peer has sent,  *)
(* got and missed are the packets that recvCompactPacket has accepted and  *)
(* that it refused or the network lost: they are the reference the 16-bit  *)
(* state is compared with.                                                 *)
(***************************************************************************)
EXTENDS SequenceBuffer, PacketCodec

CONSTANTS
    RecvPacketBufferSize,   \* slots of the buffer
    Lag,                    \* how far behind the newest packet one may arrive
    MaxLost,                \* bound on the packets the network loses
    MaxSent                 \* bound on the packets the peer sends

ASSUME RecvAssumption ==
    /\ RecvPacketBufferSize \in Nat \ {0}
    /\ RecvPacketBufferSize < HalfMaxUint16
    /\ Lag \in Nat
    /\ MaxLost \in Nat
    /\ MaxSent \in Nat

\* Width of the ACK bitset, 32 in the code.
AckBits == 4 * ByteBits

\* Under which 16 bits tell a late packet from a new one: Lag is the network's.
ASSUME ReachAssumption == Lag + RecvPacketBufferSize < HalfMaxUint16

\* A slot belongs to the same numbers in every lap, the bitset is no longer than the
\* ring, and RemoveRange, which reduces modulo RecvPacketBufferSize + 1, clears what is
\* passed over where the numbers wrap.  65536, 256 and 32 of the code satisfy this.
\* Only what the slots hold depends on it, never latest.
ASSUME RingAssumption ==
    /\ M % RecvPacketBufferSize = 0
    /\ M % (RecvPacketBufferSize + 1) \in {0, 1}
    /\ AckBits <= RecvPacketBufferSize

VARIABLES buf, sent, got, missed, lost

vars == <<buf, sent, got, missed, lost>>

RecvInit ==
    /\ buf = NewSequenceBuffer(RecvPacketBufferSize)
    /\ sent = 0
    /\ got = {}
    /\ missed = {}
    /\ lost = 0

\* The newest packet received, -1 when there is none.
Newest == IF got = {} THEN -1 ELSE CHOOSE p \in got : \A q \in got : q <= p

\* The packets no property can ask about any more are forgotten.
Recent(S) == {p \in S : p > Newest - RecvPacketBufferSize \/ p >= sent - Lag}

\* The network holds a packet back for Lag later ones at most.
PeerSends ==
    /\ sent < MaxSent
    /\ sent >= Lag => (sent - Lag) \in got \cup missed
    /\ sent' = sent + 1
    /\ got' = Recent(got)
    /\ missed' = Recent(missed)
    /\ UNCHANGED <<buf, lost>>

\* RecvPacketBuffer.Insert, as recvCompactPacket calls it: an outdated packet
\* is refused, any other one is entered.
Receive(p) ==
    /\ ~IsOutdated(RecvPacketBufferSize, buf, p % M)
    /\ buf' = Insert(RecvPacketBufferSize, buf, p % M)
    /\ got' = got \cup {p}
    /\ UNCHANGED <<sent, missed, lost>>

RefuseOutdated(p) ==
    /\ IsOutdated(RecvPacketBufferSize, buf, p % M)
    /\ missed' = missed \cup {p}
    /\ UNCHANGED <<buf, sent, got, lost>>

\* Losses are isolated: no burst carries the peer half the number space ahead.
Lose(p) ==
    /\ lost < MaxLost
    /\ p \notin got
    /\ {p - 1, p, p + 1} \cap missed = {}
    /\ missed' = missed \cup {p}
    /\ lost' = lost + 1
    /\ UNCHANGED <<buf, sent, got>>

InFlight == {p \in 0 .. (sent - 1) : p >= sent - Lag - 1}

\* A packet may arrive more than once.
RecvNext ==
    \/ PeerSends
    \/ \E p \in InFlight : Receive(p) \/ RefuseOutdated(p) \/ Lose(p)

Spec == RecvInit /\ [][RecvNext]_vars

-----------------------------------------------------------------------------
Header == NextACK(RecvPacketBufferSize, AckBits, buf)

TypeOK ==
    /\ buf \in SequenceBuffers(RecvPacketBufferSize)
    /\ sent \in 0 .. MaxSent
    /\ got \subseteq 0 .. (MaxSent - 1)
    /\ missed \subseteq 0 .. (MaxSent - 1)
    /\ lost \in 0 .. MaxLost

\* The 16-bit latest follows the true newest packet across the wrap of the
\* sequence numbers: no late or duplicated packet moves it back, and no packet
\* after the wrap is taken for an old one (IsOutdated, seqGreaterThan).
LatestIsNewest == buf.latest = (Newest + 1) % M

\* A bit NextACK sets belongs to a packet that was received: an entry left in
\* the ring from before is never reported as the packet that now has its place.
AckSound == \A i \in Header.acks : (Newest - i) \in got

\* Once a packet has arrived, every header acknowledges the newest one: an
\* older packet that shares its slot never evicts it.
NewestIsAcked == got # {} => 0 \in Header.acks

\* The header that carries the acknowledgements to the peer is read there as it
\* was written, with the payload behind it, fits into the room made for it, and no
\* part of it passes for a header:
\* also where the distance of the endpoint's own sequence number from the
\* acknowledged one just fits into a byte, and where it just does not.
HeaderArrives ==
    \A d \in {0, ByteSize - 1, ByteSize, M - 1} :
        LET h == [seq |-> Plus(Header.ack, d), ack |-> Header.ack, acks |-> Header.acks]
        IN  Fits(h) /\ RoundTrips(h, <<"payload">>) /\ RefusesParts(h)

\* endpoint.go:74 says of NextACK: "Get the last latest acknowledge sequence
\* number, and a bitset of the last 32 acknowledged packet sequence numbers".
\* So every packet received among the last AckBits is in the bitset, as long as
\* the ring is that long.
AckComplete ==
    \A i \in 0 .. (AckBits - 1) :
        i < RecvPacketBufferSize /\ (Newest - i) \in got => i \in Header.acks
=============================================================================
