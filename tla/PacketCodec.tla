---------------------------- MODULE PacketCodec ----------------------------
(***************************************************************************)
(* The headers on the wire (src/packet.go).  A packet is a sequence whose  *)
(* first element is the flag byte, a record of its bits; numbers are bytes *)
(* of ByteSize values; a byte of the ACK bitset is the set of its bits.    *)
(***************************************************************************)
EXTENDS SequenceNumbers, Sequences, FiniteSets

CONSTANTS
    ByteSize,   \* 256
    ByteBits    \* bits in a byte of the ACK bitset, 8

ASSUME CodecAssumption ==
    /\ ByteSize \in Nat \ {0}
    /\ ByteBits \in Nat \ {0}
    /\ M <= ByteSize * ByteSize

AllOnes == 0 .. (ByteBits - 1)

Flags == [fragment : BOOLEAN, marked : SUBSET (1 .. 4), ackEncoded : BOOLEAN]

Headers == [seq : SeqNum, ack : SeqNum, acks : SUBSET (0 .. (4 * ByteBits - 1))]

FragmentHeaders == [seq : SeqNum, id : 0 .. (ByteSize - 1), total : 0 .. (ByteSize - 1)]

\* bytesutil.AppendUint16BE and bytesutil.Uint16BE.
AppendUint16BE(x) == <<x \div ByteSize, x % ByteSize>>

Uint16BE(b) == b[1] * ByteSize + b[2]

-----------------------------------------------------------------------------
(* PacketHeader.AppendTo.                                                  *)

\* The k-th byte of the bitset, and the flag bits FlagA .. FlagD.
AckByte(acks, k) == {i \in AllOnes : i + (k - 1) * ByteBits \in acks}

Marked(acks) == {k \in 1 .. 4 : AckByte(acks, k) # AllOnes}

\* Mutant: the difference is taken for a byte when it is not.
DiffFits(h) == Minus(h.seq, h.ack) <= ByteSize

AckEncoded(h) == Minus(h.seq, h.ack) < ByteSize

AckPart(h) ==
    IF AckEncoded(h) THEN <<Minus(h.seq, h.ack) % ByteSize>> ELSE AppendUint16BE(h.ack)

MarkedByte(h, k) ==
    IF k \in Marked(h.acks) THEN <<AckByte(h.acks, k)>> ELSE <<>>

AppendTo(h) ==
    <<[fragment |-> FALSE, marked |-> Marked(h.acks), ackEncoded |-> AckEncoded(h)]>>
        \o AppendUint16BE(h.seq) \o AckPart(h)
        \o MarkedByte(h, 1) \o MarkedByte(h, 2) \o MarkedByte(h, 3) \o MarkedByte(h, 4)

-----------------------------------------------------------------------------
(* UnmarshalPacketHeader.                                                  *)

UnexpectedEOF == [ok |-> FALSE]

Decoded(h, leftover) == [ok |-> TRUE, header |-> h, leftover |-> leftover]

Drop(b, k) == SubSeq(b, k + 1, Len(b))

ReadByte(f, k, b) == IF k \in f.marked THEN Head(b) ELSE AllOnes

Skip(f, k, b) == IF k \in f.marked THEN Tail(b) ELSE b

Acks(b1, b2, b3, b4) ==
    LET shift(b, k) == {i + (k - 1) * ByteBits : i \in b}
    IN  shift(b1, 1) \cup shift(b2, 2) \cup shift(b3, 3) \cup shift(b4, 4)

\* The bitset, of which b holds the marked bytes.
ReadAcks(f, seq, ack, b) ==
    LET c == Skip(f, 1, b)
        d == Skip(f, 2, c)
        e == Skip(f, 3, d)
    IN  IF Len(b) < Cardinality(f.marked)
          THEN UnexpectedEOF
          ELSE Decoded([seq |-> seq, ack |-> ack,
                        acks |-> Acks(ReadByte(f, 1, b), ReadByte(f, 2, c),
                                      ReadByte(f, 3, d), ReadByte(f, 4, e))],
                       Skip(f, 4, e))

ReadAck(f, seq, b) ==
    IF f.ackEncoded
      THEN IF Len(b) < 1 THEN UnexpectedEOF
           ELSE ReadAcks(f, seq, Minus(seq, b[1]), Drop(b, 1))
      ELSE IF Len(b) < 2 THEN UnexpectedEOF
           ELSE ReadAcks(f, seq, Uint16BE(b), Drop(b, 2))

UnmarshalPacketHeader(b) ==
    IF Len(b) < 3 \/ b[1].fragment
      THEN UnexpectedEOF
      ELSE ReadAck(b[1], Uint16BE(Drop(b, 1)), Drop(b, 3))

-----------------------------------------------------------------------------
(* Fragment headers.                                                       *)

AppendFragmentHeader(fh) ==
    <<[fragment |-> TRUE, marked |-> {}, ackEncoded |-> FALSE]>>
        \o AppendUint16BE(fh.seq) \o <<fh.id, fh.total>>

UnmarshalFragmentHeader(b) ==
    IF Len(b) < 5
      THEN UnexpectedEOF
      ELSE Decoded([seq |-> Uint16BE(Drop(b, 1)), id |-> b[4], total |-> b[5]], Drop(b, 5))

-----------------------------------------------------------------------------
MaxPacketHeaderSize == 9

\* A header is no longer than the room that is made for it.
Fits(h) == Len(AppendTo(h)) <= MaxPacketHeaderSize

\* What follows a header on the wire is what is left over when it is read.
RoundTrips(h, payload) ==
    UnmarshalPacketHeader(AppendTo(h) \o payload) = Decoded(h, payload)

\* No part of a header is taken for a whole one.
RefusesParts(h) ==
    \A k \in 0 .. (Len(AppendTo(h)) - 1) : ~UnmarshalPacketHeader(SubSeq(AppendTo(h), 1, k)).ok

FragmentRoundTrips(fh, payload) ==
    UnmarshalFragmentHeader(AppendFragmentHeader(fh) \o payload) = Decoded(fh, payload)
=============================================================================
