------------------------------ MODULE Endpoint ------------------------------
(***************************************************************************)
(* Endpoint (src/endpoint.go): numbering, acknowledging, fragmenting and   *)
(* reassembling packets.  Every node owns one endpoint, so each field of   *)
(* the Go struct is a function on Node.  This module holds the endpoint's  *)
(* state and what WritePacket and ReadPacket do to it; the module that     *)
(* extends it supplies the EndpointDispatcher (Transmit, Process, ACK) and *)
(* the specification.                                                      *)
(*                                                                         *)
(* A payload is a member of Message and Size gives its length in bytes.    *)
(* The marshalling of headers (src/packet.go) is lossless, so a packet on  *)
(* the wire is the record of its decoded fields; the ACK bitset is the set *)
(* of its 1 bits.  The statistics (rtt, packetLoss, bandwidth) influence   *)
(* nothing else and are left out.                                          *)
(***************************************************************************)
EXTENDS SequenceBuffer, Sequences, FiniteSets

CONSTANTS
    Node,                           \* the endpoints
    Message,                        \* payloads
    Nil,                            \* the empty payload of a keep-alive
    Size,                           \* payload sizes, a function on Message
    AckBits,                        \* width of the ACK bitset, 32
    FragmentAbove,                  \* the fields of Config
    FragmentSize,
    MaxFragments,
    MaxPacketSize,
    SentPacketBufferSize,
    RecvPacketBufferSize,
    FragmentReassemblyBufferSize

ASSUME EndpointAssumption ==
    /\ Nil \in Message
    /\ Size \in [Message -> Nat]
    /\ Size[Nil] = 0
    /\ AckBits \in Nat \ {0}
    /\ FragmentAbove \in Nat
    /\ FragmentSize \in Nat \ {0}
    /\ MaxFragments \in 1 .. 256
    /\ MaxPacketSize \in 0 .. (MaxFragments * FragmentSize)
    /\ SentPacketBufferSize \in Nat \ {0}
    /\ SentPacketBufferSize < HalfMaxUint16
    /\ RecvPacketBufferSize \in Nat \ {0}
    /\ RecvPacketBufferSize < HalfMaxUint16
    /\ FragmentReassemblyBufferSize \in Nat \ {0}
    /\ FragmentReassemblyBufferSize < HalfMaxUint16

VARIABLES
    seq,        \* next sequence number to send
    sent,       \* SentPacketBuffer
    acked,      \* SentPacket.acked of each slot of sent
    recv,       \* RecvPacketBuffer
    assembler,  \* FragmentReassemblyBuffer
    fragment    \* the Fragment in each slot of assembler

endpointVars == <<seq, sent, acked, recv, assembler, fragment>>

-----------------------------------------------------------------------------
(* Packets on the wire.  A fragment other than the first carries no packet *)
(* header, hence no acknowledgement.                                       *)

Packets ==
    [fragment : BOOLEAN, seq : SeqNum, id : 0 .. 255, total : 0 .. 255,
     ack : SeqNum, acks : SUBSET (0 .. (AckBits - 1)), msg : Message]

CompactPacket(s, header, m) ==
    [fragment |-> FALSE, seq |-> s, id |-> 0, total |-> 0,
     ack |-> header.ack, acks |-> header.acks, msg |-> m]

FragmentPacket(s, header, m, id, total) ==
    [fragment |-> TRUE, seq |-> s, id |-> id, total |-> total,
     ack  |-> IF id = 0 THEN header.ack ELSE 0,
     acks |-> IF id = 0 THEN header.acks ELSE {}, msg |-> m]

\* How many fragments WritePacket cuts m into.
Fragments(m) == Size[m] \div FragmentSize
                + (IF Size[m] % FragmentSize # 0 THEN 1 ELSE 0)

Oversize(m) == Size[m] > MaxPacketSize

\* The packets WritePacket hands to Transmit, in that order, when it gives
\* sequence number s and the acknowledgements in header to m.
Transmitted(s, header, m) ==
    IF Size[m] <= FragmentAbove
      THEN <<CompactPacket(s, header, m)>>
      ELSE [i \in 1 .. Fragments(m) |->
               FragmentPacket(s, header, m, i - 1, (Fragments(m) - 1) % 256)]

\* The same for the next packet of node n.
NextTransmitted(n, m) ==
    Transmitted(seq[n], NextACK(RecvPacketBufferSize, AckBits, recv[n]), m)

-----------------------------------------------------------------------------
NewFragment(total) == [total |-> total, parts |-> {}, ack |-> 0, acks |-> {}]

EndpointInit ==
    /\ seq = [n \in Node |-> 0]
    /\ sent = [n \in Node |-> NewSequenceBuffer(SentPacketBufferSize)]
    /\ acked = [n \in Node |-> [i \in Slots(SentPacketBufferSize) |-> FALSE]]
    /\ recv = [n \in Node |-> NewSequenceBuffer(RecvPacketBufferSize)]
    /\ assembler = [n \in Node |-> NewSequenceBuffer(FragmentReassemblyBufferSize)]
    /\ fragment = [n \in Node |->
                     [i \in Slots(FragmentReassemblyBufferSize) |-> NewFragment(0)]]

\* Mutant: the next number is not reduced to 16 bits.
NumberUnwrapped(n, m) ==
    /\ seq' = [seq EXCEPT ![n] = @ + 1]
    /\ sent' = [sent EXCEPT ![n] = Insert(SentPacketBufferSize, @, seq[n])]
    /\ acked' = [acked EXCEPT ![n][Slot(SentPacketBufferSize, seq[n])] = FALSE]

\* What WritePacket does to the endpoint of n, whatever the dispatcher does
\* with the packets it transmits.  Insert never meets an outdated number here:
\* NextIsInsertable of module Channel, proved in ChannelProofs.
NumberPacket(n, m) ==
    IF Oversize(m)
      THEN UNCHANGED <<seq, sent, acked>>
      ELSE /\ seq' = [seq EXCEPT ![n] = Plus(@, 1)]
           /\ sent' = [sent EXCEPT ![n] = Insert(SentPacketBufferSize, @, seq[n])]
           /\ acked' = [acked EXCEPT ![n][Slot(SentPacketBufferSize, seq[n])] = FALSE]

\* Mutant: whatever is in the slot of s will do.
AwaitsUnfound(n, s) == ~acked[n][Slot(SentPacketBufferSize, s)]

\* The sent packet with number s waits for an acknowledgement.
AwaitsACK(n, s) == /\ Find(SentPacketBufferSize, sent[n], s)
                   /\ ~acked[n][Slot(SentPacketBufferSize, s)]

-----------------------------------------------------------------------------
(* Reassembly of fragmented packets.                                       *)

FragmentSlot(p) == Slot(FragmentReassemblyBufferSize, p.seq)

Known(n, p) == Find(FragmentReassemblyBufferSize, assembler[n], p.seq)

\* Mutant: an entry that takes the slot of another one is not cleared.
EntryUncleared(n, p) ==
    [fragment[n][FragmentSlot(p)] EXCEPT !.total = IF Known(n, p) THEN @ ELSE p.total + 1]

\* The entry the fragment p goes to, as it is before p is added.
Entry(n, p) == IF Known(n, p) THEN fragment[n][FragmentSlot(p)]
                              ELSE NewFragment(p.total + 1)

ValidFragment(p) == p.id <= p.total /\ p.total + 1 <= MaxFragments

\* recvFragmentedPacket returns an error before it stores the fragment.
FragmentRefused(n, p) ==
    \/ ~ValidFragment(p)
    \/ ~Known(n, p) /\ IsOutdated(FragmentReassemblyBufferSize, assembler[n], p.seq)
    \/ Entry(n, p).total # p.total + 1
    \/ \E part \in Entry(n, p).parts : part.id = p.id

Marked(n, p) ==
    LET e == [Entry(n, p) EXCEPT !.parts = @ \cup {[id |-> p.id, msg |-> p.msg]}]
    IN  IF p.id = 0 THEN [e EXCEPT !.ack = p.ack, !.acks = p.acks] ELSE e

CompletedBy(n, p) == Cardinality(Marked(n, p).parts) = Marked(n, p).total

\* The packet assembled from its fragments.  Its payload is the one they were
\* cut from when they all come from the same one, and otherwise a mixture.
Assembled(n, p) ==
    LET e == Marked(n, p)
        m == CHOOSE x \in {part.msg : part \in e.parts} : TRUE
    IN  CompactPacket(p.seq, e, m)

Mixed(n, p) == \E x, y \in Marked(n, p).parts : x.msg # y.msg

\* The assembler keeps the fragment p, which leaves its packet incomplete.
StoreFragment(n, p) ==
    /\ assembler' = [assembler EXCEPT ![n] =
                        IF Known(n, p) THEN @
                        ELSE Insert(FragmentReassemblyBufferSize, @, p.seq)]
    /\ fragment' = [fragment EXCEPT ![n][FragmentSlot(p)] = Marked(n, p)]

\* The assembler drops the entry that the fragment p has completed.
FinishFragment(n, p) ==
    /\ assembler' = [assembler EXCEPT ![n] =
                        Remove(FragmentReassemblyBufferSize,
                               IF Known(n, p) THEN @
                               ELSE Insert(FragmentReassemblyBufferSize, @, p.seq),
                               p.seq)]
    /\ fragment' = [fragment EXCEPT ![n][FragmentSlot(p)] = Marked(n, p)]

-----------------------------------------------------------------------------
(* ReadPacket(p) has one of three outcomes.  It fails; it stores a         *)
(* fragment and is done; or it comes to a whole packet, p itself or the    *)
(* one p completes, which recvCompactPacket enters in recv.                *)

Arriving(n, p) == IF p.fragment THEN Assembled(n, p) ELSE p

ReadsWhole(n, p) ==
    p.fragment => ~FragmentRefused(n, p) /\ CompletedBy(n, p)

Stale(n, p) == IsOutdated(RecvPacketBufferSize, recv[n], p.seq)

ReadStores(n, p) ==
    /\ p.fragment
    /\ ~FragmentRefused(n, p)
    /\ ~CompletedBy(n, p)
    /\ StoreFragment(n, p)
    /\ UNCHANGED recv

\* Mutant: an error of recvCompactPacket is returned at once.
ReadFailsKeeping(n, p) ==
    \/ /\ p.fragment
       /\ FragmentRefused(n, p)
       /\ UNCHANGED <<recv, assembler, fragment>>
    \/ /\ ReadsWhole(n, p)
       /\ Stale(n, p)
       /\ IF p.fragment THEN StoreFragment(n, p) ELSE UNCHANGED <<assembler, fragment>>
       /\ UNCHANGED recv

ReadFails(n, p) ==
    \/ /\ p.fragment
       /\ FragmentRefused(n, p)
       /\ UNCHANGED <<recv, assembler, fragment>>
    \/ /\ ReadsWhole(n, p)
       /\ Stale(n, p)
       /\ IF p.fragment THEN FinishFragment(n, p) ELSE UNCHANGED <<assembler, fragment>>
       /\ UNCHANGED recv

ReadAccepts(n, p) ==
    /\ ReadsWhole(n, p)
    /\ ~Stale(n, p)
    /\ recv' = [recv EXCEPT ![n] = Insert(RecvPacketBufferSize, @, p.seq)]
    /\ IF p.fragment THEN FinishFragment(n, p) ELSE UNCHANGED <<assembler, fragment>>

-----------------------------------------------------------------------------
EndpointTypeOK ==
    /\ seq \in [Node -> SeqNum]
    /\ sent \in [Node -> SequenceBuffers(SentPacketBufferSize)]
    /\ acked \in [Node -> [Slots(SentPacketBufferSize) -> BOOLEAN]]
    /\ recv \in [Node -> SequenceBuffers(RecvPacketBufferSize)]
    /\ assembler \in [Node -> SequenceBuffers(FragmentReassemblyBufferSize)]
    /\ fragment \in [Node -> [Slots(FragmentReassemblyBufferSize) ->
                        [total : 0 .. 256,
                         parts : SUBSET [id : 0 .. 255, msg : Message],
                         ack : SeqNum, acks : SUBSET (0 .. (AckBits - 1))]]]
=============================================================================
