-------------------------- MODULE RecvBufferProofs --------------------------
(***************************************************************************)
(* The acknowledgements of the receive side.  First the headers on the     *)
(* wire: for every number space, size of a byte and width of the ACK       *)
(* bitset, what AppendTo writes is what UnmarshalPacketHeader reads        *)
(* (src/packet.go).  Then what NextACK puts into them (src/buffer_recv.go):*)
(* the newest packet, and no packet that was not received.                 *)
(***************************************************************************)
EXTENDS RecvBuffer, SequenceBufferProofs, SequenceTheorems, FiniteSetTheorems

-----------------------------------------------------------------------------
(* Sequences.                                                              *)

\* One element before a sequence.
LEMMA OneBefore ==
    ASSUME NEW S, NEW x \in S, NEW t \in Seq(S)
    PROVE  /\ <<x>> \o t \in Seq(S)
           /\ Len(<<x>> \o t) = Len(t) + 1
           /\ <<x>> \o t # <<>>
           /\ (<<x>> \o t)[1] = x
           /\ Head(<<x>> \o t) = x
           /\ Tail(<<x>> \o t) = t
<1> DEFINE s == <<x>> \o t
<1>1. <<x>> \in Seq(S) /\ Len(<<x>>) = 1 /\ <<x>>[1] = x
  OBVIOUS
<1>2. Len(t) \in Nat
  BY LenProperties
<1>3. /\ s \in Seq(S)
      /\ Len(s) = 1 + Len(t)
      /\ \A i \in 1 .. 1 + Len(t) : s[i] = IF i <= 1 THEN <<x>>[i] ELSE t[i - 1]
  BY <1>1, ConcatProperties
<1> HIDE DEF s
<1>4. s[1] = x /\ Len(s) = Len(t) + 1 /\ s # <<>>
  BY <1>1, <1>2, <1>3, EmptySeq
<1>5. Head(s) = x
  BY <1>3, <1>4
<1>6. /\ Tail(s) \in Seq(S)
      /\ Len(Tail(s)) = Len(s) - 1
      /\ \A i \in 1 .. Len(Tail(s)) : Tail(s)[i] = s[i + 1]
  BY <1>3, <1>4, HeadTailProperties
<1>7. \A i \in 1 .. Len(t) : Tail(s)[i] = t[i]
  BY <1>2, <1>3, <1>4, <1>6
<1>8. Tail(s) = t
  BY <1>2, <1>4, <1>6, <1>7, SeqEqual
<1> QED
  BY <1>3, <1>4, <1>5, <1>8 DEF s

\* What follows a sequence is left when as many elements are dropped.
LEMMA DropsFront ==
    ASSUME NEW S, NEW s \in Seq(S), NEW t \in Seq(S)
    PROVE  Drop(s \o t, Len(s)) = t
<1> DEFINE u == s \o t
           d == SubSeq(u, Len(s) + 1, Len(u))
<1>1. Len(s) \in Nat /\ Len(t) \in Nat
  BY LenProperties
<1>2. /\ u \in Seq(S)
      /\ Len(u) = Len(s) + Len(t)
      /\ \A i \in 1 .. Len(s) + Len(t) : u[i] = IF i <= Len(s) THEN s[i] ELSE t[i - Len(s)]
  BY ConcatProperties
<1> HIDE DEF u
<1>3. \A i \in Len(s) + 1 .. Len(u) : u[i] \in S
  BY <1>1, <1>2, ElementOfSeq
<1>4. Len(s) + 1 \in Int /\ Len(u) \in Int
  BY <1>1, <1>2
<1>5. /\ d \in Seq(S)
      /\ Len(d) = IF Len(s) + 1 <= Len(u) THEN Len(u) - (Len(s) + 1) + 1 ELSE 0
      /\ \A i \in 1 .. Len(u) - (Len(s) + 1) + 1 : d[i] = u[(Len(s) + 1) + i - 1]
  BY <1>3, <1>4, SubSeqProperties
<1> HIDE DEF d
<1>6. Len(d) = Len(t)
  BY <1>1, <1>2, <1>5
<1>7. ASSUME NEW i \in 1 .. Len(d) PROVE d[i] = t[i]
  <2>1. /\ i \in 1 .. Len(u) - (Len(s) + 1) + 1
        /\ (Len(s) + 1) + i - 1 = Len(s) + i
        /\ Len(s) + i \in 1 .. Len(s) + Len(t)
        /\ ~(Len(s) + i <= Len(s))
        /\ (Len(s) + i) - Len(s) = i
    BY <1>1, <1>2, <1>6
  <2>2. d[i] = u[Len(s) + i]
    BY <1>5, <2>1, Zenon
  <2>3. u[Len(s) + i] = t[(Len(s) + i) - Len(s)]
    BY <1>2, <2>1, Zenon
  <2> QED
    BY <2>1, <2>2, <2>3, Zenon
<1>8. d = t
  BY <1>5, <1>6, <1>7, SeqEqual
<1> QED
  BY <1>8 DEF Drop, d, u

\* The beginning of a sequence.
LEMMA Beginning ==
    ASSUME NEW S, NEW s \in Seq(S), NEW k \in 0 .. Len(s)
    PROVE  /\ SubSeq(s, 1, k) \in Seq(S)
           /\ Len(SubSeq(s, 1, k)) = k
           /\ k >= 1 => SubSeq(s, 1, k)[1] = s[1]
<1>1. Len(s) \in Nat /\ \A i \in 1 .. k : s[i] \in S
  BY LenProperties, ElementOfSeq
<1>2. /\ SubSeq(s, 1, k) \in Seq(S)
      /\ Len(SubSeq(s, 1, k)) = IF 1 <= k THEN k - 1 + 1 ELSE 0
      /\ \A i \in 1 .. k - 1 + 1 : SubSeq(s, 1, k)[i] = s[1 + i - 1]
  BY <1>1, SubSeqProperties
<1> QED
  BY <1>1, <1>2

\* The length of what is left.
LEMMA LengthLeft ==
    ASSUME NEW S, NEW s \in Seq(S), NEW k \in Nat, k <= Len(s)
    PROVE  Drop(s, k) \in Seq(S) /\ Len(Drop(s, k)) = Len(s) - k
<1>1. Len(s) \in Nat /\ \A i \in k + 1 .. Len(s) : s[i] \in S
  BY LenProperties, ElementOfSeq
<1>2. /\ SubSeq(s, k + 1, Len(s)) \in Seq(S)
      /\ Len(SubSeq(s, k + 1, Len(s))) =
            IF k + 1 <= Len(s) THEN Len(s) - (k + 1) + 1 ELSE 0
  BY <1>1, SubSeqProperties
<1> QED
  BY <1>1, <1>2 DEF Drop

\* Sequences in a row.
LEMMA Joined ==
    ASSUME NEW S, NEW s \in Seq(S), NEW t \in Seq(S)
    PROVE  s \o t \in Seq(S) /\ Len(s \o t) = Len(s) + Len(t)
  BY ConcatProperties

LEMMA Regrouped ==
    ASSUME NEW S, NEW s \in Seq(S), NEW t \in Seq(S), NEW u \in Seq(S)
    PROVE  t \o u \in Seq(S) /\ (s \o t) \o u = s \o (t \o u)
  BY Joined, ConcatAssociative

-----------------------------------------------------------------------------
(* The parts of a header.                                                  *)

\* S holds what a packet with this payload is made of.
Written(payload, S) ==
    /\ payload \in Seq(S)
    /\ Flags \subseteq S
    /\ Nat \subseteq S
    /\ SUBSET AllOnes \subseteq S

Flag(h) == [fragment |-> FALSE, marked |-> Marked(h.acks), ackEncoded |-> AckEncoded(h)]

\* The four bytes of the bitset hold all of it.
LEMMA BytesOfAcks ==
    ASSUME NEW acks \in SUBSET (0 .. (4 * ByteBits - 1))
    PROVE  Acks(AckByte(acks, 1), AckByte(acks, 2), AckByte(acks, 3), AckByte(acks, 4)) = acks
<1> DEFINE shift(k) == {i + (k - 1) * ByteBits : i \in AckByte(acks, k)}
<1>1. ByteBits \in Nat \ {0}
  BY CodecAssumption
<1>2. \A k \in 1 .. 4 : shift(k) \subseteq acks
  BY DEF AckByte
<1>3. ASSUME NEW x \in acks PROVE x \in shift(1) \cup shift(2) \cup shift(3) \cup shift(4)
  <2>1. x \in Nat /\ x <= 4 * ByteBits - 1
    BY <1>1
  <2>2. CASE x < ByteBits
    <3>1. x \in AckByte(acks, 1) /\ x = x + (1 - 1) * ByteBits
      BY <1>1, <2>1, <2>2 DEF AckByte, AllOnes
    <3> QED
      BY <3>1
  <2>3. CASE ByteBits <= x /\ x < 2 * ByteBits
    <3>1. x - ByteBits \in AckByte(acks, 2) /\ x = (x - ByteBits) + (2 - 1) * ByteBits
      BY <1>1, <2>1, <2>3 DEF AckByte, AllOnes
    <3> QED
      BY <3>1
  <2>4. CASE 2 * ByteBits <= x /\ x < 3 * ByteBits
    <3>1. x - 2 * ByteBits \in AckByte(acks, 3) /\ x = (x - 2 * ByteBits) + (3 - 1) * ByteBits
      BY <1>1, <2>1, <2>4 DEF AckByte, AllOnes
    <3> QED
      BY <3>1
  <2>5. CASE 3 * ByteBits <= x
    <3>1. x - 3 * ByteBits \in AckByte(acks, 4) /\ x = (x - 3 * ByteBits) + (4 - 1) * ByteBits
      BY <1>1, <2>1, <2>5 DEF AckByte, AllOnes
    <3> QED
      BY <3>1
  <2> QED
    BY <1>1, <2>1, <2>2, <2>3, <2>4, <2>5
<1>4. Acks(AckByte(acks, 1), AckByte(acks, 2), AckByte(acks, 3), AckByte(acks, 4)) =
          shift(1) \cup shift(2) \cup shift(3) \cup shift(4)
  BY Zenon DEF Acks
<1>5. /\ shift(1) \subseteq acks /\ shift(2) \subseteq acks
      /\ shift(3) \subseteq acks /\ shift(4) \subseteq acks
  <2> HIDE DEF shift
  <2> QED
    BY <1>2
<1> HIDE DEF shift
<1>6. shift(1) \cup shift(2) \cup shift(3) \cup shift(4) = acks
  BY <1>3, <1>5
<1> QED
  BY <1>4, <1>6, Zenon

\* A set of flag bits counts what each of them counts.
LEMMA FlagsCount ==
    ASSUME NEW X \in SUBSET (1 .. 4)
    PROVE  Cardinality(X) = (IF 1 \in X THEN 1 ELSE 0) + (IF 2 \in X THEN 1 ELSE 0)
                          + (IF 3 \in X THEN 1 ELSE 0) + (IF 4 \in X THEN 1 ELSE 0)
<1> DEFINE Y(k) == {i \in X : i <= k}
<1>0. \A i \in X : i \in 1 .. 4
  OBVIOUS
<1>1. Y(0) = {} /\ Y(4) = X
  <2>1. \A i \in X : ~(i <= 0) /\ i <= 4
    BY <1>0
  <2> QED
    BY <2>1, Zenon
<1>2. IsFiniteSet(Y(0)) /\ Cardinality(Y(0)) = 0
  BY <1>1, FS_EmptySet
<1>3. ASSUME NEW k \in 0 .. 3, IsFiniteSet(Y(k))
      PROVE  /\ IsFiniteSet(Y(k + 1))
             /\ Cardinality(Y(k + 1)) = Cardinality(Y(k)) + (IF k + 1 \in X THEN 1 ELSE 0)
             /\ Cardinality(Y(k)) \in Nat
  <2>1. k + 1 \notin Y(k)
    OBVIOUS
  <2>2. IF k + 1 \in X THEN Y(k + 1) = Y(k) \cup {k + 1} ELSE Y(k + 1) = Y(k)
    <3>1. \A i \in X : i <= k + 1 <=> i <= k \/ i = k + 1
      BY <1>0
    <3>2. k + 1 <= k + 1
      OBVIOUS
    <3> QED
      BY <3>1, <3>2, Zenon
  <2> HIDE DEF Y
  <2>3. Cardinality(Y(k)) \in Nat
    BY <1>3, FS_CardinalityType
  <2>4. CASE k + 1 \in X
    <3>1. /\ IsFiniteSet(Y(k) \cup {k + 1})
          /\ Cardinality(Y(k) \cup {k + 1}) = Cardinality(Y(k)) + 1
      BY <1>3, <2>1, FS_AddElement
    <3> QED
      BY <2>2, <2>3, <2>4, <3>1
  <2>5. CASE k + 1 \notin X
    BY <1>3, <2>2, <2>3, <2>5
  <2> QED
    BY <2>4, <2>5
<1> HIDE DEF Y
<1>4. IsFiniteSet(Y(1)) /\ Cardinality(Y(1)) = IF 1 \in X THEN 1 ELSE 0
  BY <1>2, <1>3
<1>5. IsFiniteSet(Y(2)) /\ Cardinality(Y(2)) = Cardinality(Y(1)) + IF 2 \in X THEN 1 ELSE 0
  BY <1>3, <1>4
<1>6. IsFiniteSet(Y(3)) /\ Cardinality(Y(3)) = Cardinality(Y(2)) + IF 3 \in X THEN 1 ELSE 0
  BY <1>3, <1>5
<1>7. Cardinality(Y(4)) = Cardinality(Y(3)) + IF 4 \in X THEN 1 ELSE 0
  BY <1>3, <1>6
<1> QED
  BY <1>1, <1>4, <1>5, <1>6, <1>7

\* The k-th byte of the bitset of h is read as it was written, before t.
ReadsByte(h, k, t, S) ==
    /\ MarkedByte(h, k) \o t \in Seq(S)
    /\ Len(MarkedByte(h, k) \o t) = (IF k \in Marked(h.acks) THEN 1 ELSE 0) + Len(t)
    /\ ReadByte(Flag(h), k, MarkedByte(h, k) \o t) = AckByte(h.acks, k)
    /\ Skip(Flag(h), k, MarkedByte(h, k) \o t) = t

\* Whatever follows it.
LEMMA ByteArrives ==
    ASSUME NEW h, NEW k \in 1 .. 4,
           NEW S, NEW p, Written(p, S), NEW t \in Seq(S)
    PROVE  ReadsByte(h, k, t, S)
<1> USE DEF ReadsByte
<1>1. Len(t) \in Nat
  BY LenProperties
<1>2. CASE k \in Marked(h.acks)
  <2>1. MarkedByte(h, k) = <<AckByte(h.acks, k)>>
    BY <1>2 DEF MarkedByte
  <2>2. AckByte(h.acks, k) \in S
    BY DEF AckByte, Written
  <2>3. /\ <<AckByte(h.acks, k)>> \in Seq(S)
        /\ Len(<<AckByte(h.acks, k)>>) = 1
    BY <2>2
  <2>4. /\ <<AckByte(h.acks, k)>> \o t \in Seq(S)
        /\ Len(<<AckByte(h.acks, k)>> \o t) = Len(t) + 1
        /\ Head(<<AckByte(h.acks, k)>> \o t) = AckByte(h.acks, k)
        /\ Tail(<<AckByte(h.acks, k)>> \o t) = t
    BY <2>2, OneBefore
  <2> QED
    BY <1>1, <1>2, <2>1, <2>3, <2>4 DEF ReadByte, Skip, Flag
<1>3. CASE k \notin Marked(h.acks)
  <2>1. MarkedByte(h, k) = <<>>
    BY <1>3 DEF MarkedByte
  <2>2. <<>> \in Seq(S) /\ Len(<<>>) = 0 /\ <<>> \o t = t
    BY EmptySeq, ConcatEmptySeq
  <2>3. AckByte(h.acks, k) = AllOnes
    BY <1>3 DEF Marked
  <2> QED
    BY <1>1, <1>3, <2>1, <2>2, <2>3 DEF ReadByte, Skip, Flag
<1> QED
  BY <1>2, <1>3

\* A number of two bytes.
LEMMA NumberArrives ==
    ASSUME NEW x \in SeqNum, NEW S, Nat \subseteq S, NEW t \in Seq(S)
    PROVE  /\ AppendUint16BE(x) \in Seq(S)
           /\ Len(AppendUint16BE(x)) = 2
           /\ Uint16BE(AppendUint16BE(x) \o t) = x
<1>1. /\ x \in Nat /\ ByteSize \in Nat \ {0}
  BY CodecAssumption, MAssumption DEF SeqNum
<1> DEFINE q == x \div ByteSize
           r == x % ByteSize
<1>2. q \in Nat /\ r \in Nat /\ q * ByteSize + r = x
  BY <1>1, Z3
<1>3. AppendUint16BE(x) = <<q, r>>
  BY DEF AppendUint16BE
<1> HIDE DEF q, r
<1>4. <<q, r>> \in Seq(S) /\ Len(<<q, r>>) = 2
  BY <1>2
<1>5. (<<q, r>> \o t)[1] = q /\ (<<q, r>> \o t)[2] = r
  <2>1. Len(t) \in Nat
    BY LenProperties
  <2>2. \A i \in 1 .. 2 + Len(t) : (<<q, r>> \o t)[i] = IF i <= 2 THEN <<q, r>>[i] ELSE t[i - 2]
    BY <1>4, ConcatProperties
  <2> QED
    BY <2>1, <2>2
<1> QED
  BY <1>2, <1>3, <1>4, <1>5 DEF Uint16BE

-----------------------------------------------------------------------------
(* Whole headers.                                                          *)

\* What AppendTo writes after the flag, the sequence number and the acknowledged one.
AcksPart(h, t) ==
    MarkedByte(h, 1) \o (MarkedByte(h, 2) \o (MarkedByte(h, 3) \o (MarkedByte(h, 4) \o t)))

\* The bytes of the bitset, before whatever follows them.
LEMMA AcksArrive ==
    ASSUME NEW h \in Headers, NEW seq, NEW ack,
           NEW S, NEW t, Written(t, S)
    PROVE  /\ AcksPart(h, t) \in Seq(S)
           /\ Len(AcksPart(h, t)) = Cardinality(Marked(h.acks)) + Len(t)
           /\ Cardinality(Marked(h.acks)) \in 0 .. 4
           /\ ReadAcks(Flag(h), seq, ack, AcksPart(h, t)) =
                  Decoded([seq |-> seq, ack |-> ack, acks |-> h.acks], t)
<1> DEFINE t4 == MarkedByte(h, 4) \o t
           t3 == MarkedByte(h, 3) \o t4
           t2 == MarkedByte(h, 2) \o t3
           t1 == MarkedByte(h, 1) \o t2
           n(k) == IF k \in Marked(h.acks) THEN 1 ELSE 0
<1>0. /\ SUBSET AllOnes \subseteq S /\ t \in Seq(S) /\ Len(t) \in Nat
      /\ 1 \in 1 .. 4 /\ 2 \in 1 .. 4 /\ 3 \in 1 .. 4 /\ 4 \in 1 .. 4
  BY LenProperties DEF Written
<1>a. ASSUME NEW k \in 1 .. 4, NEW s \in Seq(S)
      PROVE  /\ MarkedByte(h, k) \o s \in Seq(S)
             /\ Len(MarkedByte(h, k) \o s) = n(k) + Len(s)
             /\ ReadByte(Flag(h), k, MarkedByte(h, k) \o s) = AckByte(h.acks, k)
             /\ Skip(Flag(h), k, MarkedByte(h, k) \o s) = s
  <2>1. ReadsByte(h, k, s, S)
    BY ByteArrives, Zenon
  <2> QED
    BY <2>1, Zenon DEF ReadsByte
<1> HIDE DEF n
<1>4. /\ t4 \in Seq(S) /\ Len(t4) = n(4) + Len(t)
      /\ ReadByte(Flag(h), 4, t4) = AckByte(h.acks, 4) /\ Skip(Flag(h), 4, t4) = t
  BY <1>0, <1>a, Zenon
<1> HIDE DEF t4
<1>3. /\ t3 \in Seq(S) /\ Len(t3) = n(3) + Len(t4)
      /\ ReadByte(Flag(h), 3, t3) = AckByte(h.acks, 3) /\ Skip(Flag(h), 3, t3) = t4
  BY <1>0, <1>4, <1>a, Zenon
<1> HIDE DEF t3
<1>2. /\ t2 \in Seq(S) /\ Len(t2) = n(2) + Len(t3)
      /\ ReadByte(Flag(h), 2, t2) = AckByte(h.acks, 2) /\ Skip(Flag(h), 2, t2) = t3
  BY <1>0, <1>3, <1>a, Zenon
<1> HIDE DEF t2
<1>1. /\ t1 \in Seq(S) /\ Len(t1) = n(1) + Len(t2)
      /\ ReadByte(Flag(h), 1, t1) = AckByte(h.acks, 1) /\ Skip(Flag(h), 1, t1) = t2
  BY <1>0, <1>2, <1>a, Zenon
<1> HIDE DEF t1
<1>5. Marked(h.acks) \in SUBSET (1 .. 4)
  BY DEF Marked
<1>6. Cardinality(Marked(h.acks)) = n(1) + n(2) + n(3) + n(4)
  BY <1>5, FlagsCount, Zenon DEF n
<1>7. n(1) \in 0 .. 1 /\ n(2) \in 0 .. 1 /\ n(3) \in 0 .. 1 /\ n(4) \in 0 .. 1
  BY DEF n
<1>8. Len(t1) = Cardinality(Marked(h.acks)) + Len(t) /\ Cardinality(Marked(h.acks)) \in 0 .. 4
  BY <1>0, <1>1, <1>2, <1>3, <1>4, <1>6, <1>7, SMTT(40)
<1>9. ~(Len(t1) < Cardinality(Marked(h.acks)))
  BY <1>0, <1>8
<1>10. h.acks \in SUBSET (0 .. (4 * ByteBits - 1))
  BY DEF Headers
<1>11. ReadAcks(Flag(h), seq, ack, t1) = Decoded([seq |-> seq, ack |-> ack, acks |-> h.acks], t)
  BY <1>1, <1>2, <1>3, <1>4, <1>9, <1>10, BytesOfAcks, Zenon DEF ReadAcks, Flag
<1>12. AcksPart(h, t) = t1
  BY Zenon DEF AcksPart, t1, t2, t3, t4
<1> QED
  BY <1>1, <1>8, <1>11, <1>12

\* The acknowledged number, before the bitset and whatever follows it.
LEMMA AckArrives ==
    ASSUME NEW h \in Headers, NEW S, NEW t, Written(t, S)
    PROVE  /\ AckPart(h) \in Seq(S)
           /\ AckPart(h) \o AcksPart(h, t) \in Seq(S)
           /\ Len(AckPart(h)) = IF AckEncoded(h) THEN 1 ELSE 2
           /\ Len(AckPart(h) \o AcksPart(h, t)) =
                  Len(AckPart(h)) + Cardinality(Marked(h.acks)) + Len(t)
           /\ ReadAck(Flag(h), h.seq, AckPart(h) \o AcksPart(h, t)) = Decoded(h, t)
<1> DEFINE u == AcksPart(h, t)
           b == AckPart(h) \o u
           f == Flag(h)
<1>1. f.marked = Marked(h.acks) /\ f.ackEncoded = AckEncoded(h)
  BY DEF Flag
<1>2. /\ h.seq \in SeqNum /\ h.ack \in SeqNum
      /\ h = [seq |-> h.seq, ack |-> h.ack, acks |-> h.acks]
  BY DEF Headers
<1> HIDE DEF f
<1>3. /\ u \in Seq(S)
      /\ Len(u) = Cardinality(Marked(h.acks)) + Len(t)
      /\ Cardinality(Marked(h.acks)) \in Nat /\ Len(t) \in Nat
      /\ ReadAcks(f, h.seq, h.ack, u) = Decoded(h, t)
  <2>1. /\ u \in Seq(S)
        /\ Len(u) = Cardinality(Marked(h.acks)) + Len(t)
        /\ Cardinality(Marked(h.acks)) \in 0 .. 4
        /\ ReadAcks(f, h.seq, h.ack, u) =
               Decoded([seq |-> h.seq, ack |-> h.ack, acks |-> h.acks], t)
    BY AcksArrive, Zenon DEF f
  <2>2. Len(t) \in Nat
    BY LenProperties DEF Written
  <2> HIDE DEF u
  <2> QED
    BY <1>1, <1>2, <2>1, <2>2
<1> HIDE DEF u
<1>4. CASE AckEncoded(h)
  <2> DEFINE d == Minus(h.seq, h.ack)
  <2>1. d \in Nat /\ d < ByteSize /\ Minus(h.seq, d) = h.ack
    <3>1. d \in SeqNum /\ d = IF h.seq >= h.ack THEN h.seq - h.ack ELSE h.seq - h.ack + M
      BY <1>2, SeqNumArithmetic, Zenon
    <3>2. d < ByteSize
      BY <1>4 DEF AckEncoded
    <3> HIDE DEF d
    <3>3. Minus(h.seq, d) = IF h.seq >= d THEN h.seq - d ELSE h.seq - d + M
      BY <1>2, <3>1, SeqNumArithmetic, Zenon
    <3> QED
      BY <1>2, <3>1, <3>2, <3>3, MAssumption, SMT DEF SeqNum
  <2>2. AckPart(h) = <<d % ByteSize>>
    BY <1>4 DEF AckPart
  <2> HIDE DEF d
  <2>3. d % ByteSize = d
    BY <2>1, CodecAssumption, Z3
  <2>4. AckPart(h) = <<d>> /\ d \in S
    BY <2>1, <2>2, <2>3 DEF Written
  <2>5. AckPart(h) \in Seq(S) /\ Len(AckPart(h)) = 1
    BY <2>4
  <2>6. b \in Seq(S) /\ Len(b) = Len(u) + 1 /\ b[1] = d
    BY <1>3, <2>4, OneBefore
  <2>7. Drop(b, 1) = u
    BY <1>3, <2>5, DropsFront
  <2> HIDE DEF b
  <2>8. ~(Len(b) < 1) /\ Len(b) = 1 + Cardinality(Marked(h.acks)) + Len(t)
    BY <1>3, <2>6
  <2>9. ReadAck(f, h.seq, b) = Decoded(h, t)
    BY <1>1, <1>3, <1>4, <2>1, <2>6, <2>7, <2>8, Zenon DEF ReadAck
  <2> QED
    BY <1>4, <2>5, <2>6, <2>8, <2>9 DEF b, u, f
<1>5. CASE ~AckEncoded(h)
  <2>1. AckPart(h) = AppendUint16BE(h.ack)
    BY <1>5 DEF AckPart
  <2>2. AckPart(h) \in Seq(S) /\ Len(AckPart(h)) = 2 /\ Uint16BE(b) = h.ack
    BY <1>2, <1>3, <2>1, NumberArrives DEF Written
  <2>3. b \in Seq(S) /\ Len(b) = 2 + Len(u)
    <3>1. b \in Seq(S) /\ Len(b) = Len(AckPart(h)) + Len(u)
      BY <1>3, <2>2, ConcatProperties, Zenon
    <3> QED
      BY <2>2, <3>1
  <2>4. Drop(b, 2) = u
    BY <1>3, <2>2, DropsFront
  <2> HIDE DEF b
  <2>5. ~(Len(b) < 2) /\ Len(b) = 2 + Cardinality(Marked(h.acks)) + Len(t)
    BY <1>3, <2>3
  <2>6. ReadAck(f, h.seq, b) = Decoded(h, t)
    BY <1>1, <1>3, <1>5, <2>2, <2>4, <2>5, Zenon DEF ReadAck
  <2> QED
    BY <1>5, <2>2, <2>3, <2>5, <2>6 DEF b, u, f
<1> QED
  BY <1>4, <1>5

\* A whole header: flag and sequence number before the acknowledgements.
LEMMA HeaderParts ==
    ASSUME NEW h \in Headers, NEW S, NEW t, Written(t, S)
    PROVE  /\ AppendTo(h) \in Seq(S)
           /\ Len(AppendTo(h)) = 3 + Len(AckPart(h)) + Cardinality(Marked(h.acks))
           /\ AppendTo(h) \o t =
                  (<<Flag(h)>> \o AppendUint16BE(h.seq)) \o (AckPart(h) \o AcksPart(h, t))
<1> DEFINE f == <<Flag(h)>>
           q == AppendUint16BE(h.seq)
           a == AckPart(h)
           m(k) == MarkedByte(h, k)
<1>1. /\ f \in Seq(S) /\ Len(f) = 1
  <2>1. Flag(h) \in Flags
    BY DEF Flag, Flags, Marked, AckEncoded
  <2> QED
    BY <2>1 DEF Written
<1>2. q \in Seq(S) /\ Len(q) = 2
  BY NumberArrives DEF Headers, Written
<1>3. a \in Seq(S) /\ Len(a) \in Nat
  BY AckArrives, LenProperties
<1>4. ASSUME NEW k \in 1 .. 4
      PROVE  m(k) \in Seq(S) /\ Len(m(k)) = IF k \in Marked(h.acks) THEN 1 ELSE 0
  <2>1. AckByte(h.acks, k) \in S
    BY DEF AckByte, Written
  <2> QED
    BY <2>1 DEF MarkedByte
<1>5. t \in Seq(S)
  BY DEF Written
<1>6. AppendTo(h) = f \o q \o a \o m(1) \o m(2) \o m(3) \o m(4)
  BY Zenon DEF AppendTo, Flag
<1>7. AcksPart(h, t) = m(1) \o (m(2) \o (m(3) \o (m(4) \o t)))
  BY Zenon DEF AcksPart
<1> HIDE DEF f, q, a, m
<1>8. /\ m(1) \in Seq(S) /\ m(2) \in Seq(S) /\ m(3) \in Seq(S) /\ m(4) \in Seq(S)
      /\ Len(m(1)) = IF 1 \in Marked(h.acks) THEN 1 ELSE 0
      /\ Len(m(2)) = IF 2 \in Marked(h.acks) THEN 1 ELSE 0
      /\ Len(m(3)) = IF 3 \in Marked(h.acks) THEN 1 ELSE 0
      /\ Len(m(4)) = IF 4 \in Marked(h.acks) THEN 1 ELSE 0
  BY <1>4
<1> DEFINE s1 == f \o q
           s2 == s1 \o a
           s3 == s2 \o m(1)
           s4 == s3 \o m(2)
           s5 == s4 \o m(3)
           s6 == s5 \o m(4)
<1>r. \A x, y, z \in Seq(S) : /\ y \o z \in Seq(S)
                              /\ (x \o y) \o z = x \o (y \o z)
  BY Regrouped
<1>11. s1 \in Seq(S) /\ Len(s1) = 3
  <2>1. s1 \in Seq(S) /\ Len(s1) = Len(f) + Len(q)
    BY <1>1, <1>2, Joined, Zenon
  <2> QED
    BY <1>1, <1>2, <2>1
<1> HIDE DEF s1
<1>12. s2 \in Seq(S) /\ Len(s2) = 3 + Len(a)
  BY <1>3, <1>11, Joined
<1> HIDE DEF s2
<1>13. s3 \in Seq(S) /\ Len(s3) = Len(s2) + Len(m(1))
  BY <1>8, <1>12, Joined
<1> HIDE DEF s3
<1>14. s4 \in Seq(S) /\ Len(s4) = Len(s3) + Len(m(2))
  BY <1>8, <1>13, Joined
<1> HIDE DEF s4
<1>15. s5 \in Seq(S) /\ Len(s5) = Len(s4) + Len(m(3))
  BY <1>8, <1>14, Joined
<1> HIDE DEF s5
<1>16. s6 \in Seq(S) /\ Len(s6) = Len(s5) + Len(m(4))
  BY <1>8, <1>15, Joined
<1> HIDE DEF s6
<1>17. AppendTo(h) = s6
  BY <1>6, Zenon DEF s1, s2, s3, s4, s5, s6
<1>18. Len(s6) = 3 + Len(a) + Cardinality(Marked(h.acks))
  <2>1. Cardinality(Marked(h.acks)) = Len(m(1)) + Len(m(2)) + Len(m(3)) + Len(m(4))
    <3>1. Marked(h.acks) \in SUBSET (1 .. 4)
      BY DEF Marked
    <3> QED
      BY <1>8, <3>1, FlagsCount
  <2>2. Len(m(1)) \in Nat /\ Len(m(2)) \in Nat /\ Len(m(3)) \in Nat /\ Len(m(4)) \in Nat
    BY <1>8
  <2> QED
    BY <1>3, <1>12, <1>13, <1>14, <1>15, <1>16, <2>1, <2>2
<1> DEFINE t4 == m(4) \o t
           t3 == m(3) \o t4
           t2 == m(2) \o t3
           t1 == m(1) \o t2
<1>21. t4 \in Seq(S) /\ s6 \o t = s5 \o t4
  <2>1. m(4) \in Seq(S) /\ s5 \in Seq(S)
    BY <1>8, <1>15
  <2>2. m(4) \o t \in Seq(S)
    BY <1>5, <1>r, <2>1, Zenon
  <2>3. (s5 \o m(4)) \o t = s5 \o (m(4) \o t)
    BY <1>5, <1>r, <2>1, Zenon
  <2> QED
    BY <2>2, <2>3, Zenon DEF s6
<1> HIDE DEF t4
<1>22. t3 \in Seq(S) /\ s5 \o t4 = s4 \o t3
  BY <1>8, <1>14, <1>21, <1>r, ZenonT(60) DEF s5
<1> HIDE DEF t3
<1>23. t2 \in Seq(S) /\ s4 \o t3 = s3 \o t2
  BY <1>8, <1>13, <1>22, <1>r, ZenonT(60) DEF s4
<1> HIDE DEF t2
<1>24. t1 \in Seq(S) /\ s3 \o t2 = s2 \o t1
  BY <1>8, <1>12, <1>23, <1>r, ZenonT(60) DEF s3
<1> HIDE DEF t1
<1>25. s2 \o t1 = s1 \o (a \o t1)
  BY <1>3, <1>11, <1>24, <1>r, ZenonT(60) DEF s2
<1>26. s6 \o t = s1 \o (a \o t1)
  BY <1>21, <1>22, <1>23, <1>24, <1>25, Zenon
<1>27. AcksPart(h, t) = t1
  BY <1>7, Zenon DEF t1, t2, t3, t4
<1> QED
  BY <1>16, <1>17, <1>18, <1>26, <1>27, Zenon DEF s1, f, q, a

\* What follows a header on the wire is what is left when it is read.
THEOREM HeadersRoundTrip ==
    ASSUME NEW h \in Headers, NEW T, NEW payload \in Seq(T)
    PROVE  RoundTrips(h, payload)
<1> DEFINE S == T \cup Flags \cup Nat \cup SUBSET AllOnes
           q == AppendUint16BE(h.seq)
           rest == AckPart(h) \o AcksPart(h, payload)
           b == (<<Flag(h)>> \o q) \o rest
<1>1. Written(payload, S)
  <2>1. T \subseteq S /\ Flags \subseteq S /\ Nat \subseteq S /\ SUBSET AllOnes \subseteq S
    OBVIOUS
  <2> HIDE DEF S
  <2> QED
    BY <2>1, SeqMonotonic DEF Written
<1> HIDE DEF S
<1>2. rest \in Seq(S) /\ ReadAck(Flag(h), h.seq, rest) = Decoded(h, payload)
  BY <1>1, AckArrives, Zenon
<1> HIDE DEF rest
<1>3. /\ h.seq \in SeqNum /\ Flag(h) \in S /\ Flag(h).fragment = FALSE
  <2>1. Flag(h) \in Flags /\ Flag(h).fragment = FALSE
    BY DEF Flag, Flags, Marked, AckEncoded
  <2>2. h.seq \in SeqNum /\ Flags \subseteq S
    BY <1>1 DEF Headers, Written
  <2> QED
    BY <2>1, <2>2
<1>4. q \in Seq(S) /\ Len(q) = 2 /\ Uint16BE(q \o rest) = h.seq
  BY <1>1, <1>2, <1>3, NumberArrives DEF Written
<1> HIDE DEF q
<1>5. <<Flag(h)>> \in Seq(S) /\ Len(<<Flag(h)>>) = 1
  BY <1>3
<1>6. q \o rest \in Seq(S) /\ b = <<Flag(h)>> \o (q \o rest)
  BY <1>2, <1>4, <1>5, Regrouped
<1>7. <<Flag(h)>> \o q \in Seq(S) /\ Len(<<Flag(h)>> \o q) = 3
  <2>1. <<Flag(h)>> \o q \in Seq(S) /\ Len(<<Flag(h)>> \o q) = Len(<<Flag(h)>>) + Len(q)
    BY <1>4, <1>5, Joined, Zenon
  <2> QED
    BY <1>4, <1>5, <2>1
<1>8. Drop(b, 3) = rest
  <2>1. Drop((<<Flag(h)>> \o q) \o rest, Len(<<Flag(h)>> \o q)) = rest
    BY <1>2, <1>7, DropsFront
  <2> QED
    BY <1>7, <2>1, Zenon
<1>9. Drop(b, 1) = q \o rest
  <2>1. Drop(<<Flag(h)>> \o (q \o rest), Len(<<Flag(h)>>)) = q \o rest
    BY <1>5, <1>6, DropsFront
  <2> QED
    BY <1>5, <1>6, <2>1, Zenon
<1>10. b[1] = Flag(h) /\ ~(Len(b) < 3)
  <2>1. b[1] = Flag(h)
    <3>1. (<<Flag(h)>> \o (q \o rest))[1] = Flag(h)
      BY <1>3, <1>6, OneBefore
    <3> QED
      BY <1>6, <3>1, Zenon
  <2>2. Len(b) = Len(<<Flag(h)>> \o q) + Len(rest) /\ Len(rest) \in Nat
    BY <1>2, <1>7, Joined, LenProperties
  <2> QED
    BY <1>7, <2>1, <2>2
<1>11. AppendTo(h) \o payload = b
  BY <1>1, HeaderParts, Zenon DEF q, rest
<1> HIDE DEF b
<1>12. UnmarshalPacketHeader(b) = ReadAck(Flag(h), h.seq, rest)
  BY <1>3, <1>4, <1>8, <1>9, <1>10, Zenon DEF UnmarshalPacketHeader
<1> QED
  BY <1>2, <1>11, <1>12, Zenon DEF RoundTrips

\* A header is no longer than MaxPacketHeaderSize, and no part of it passes for
\* the whole.
THEOREM HeadersAreExact ==
    ASSUME NEW h \in Headers
    PROVE  Fits(h) /\ RefusesParts(h)
<1> DEFINE S == Flags \cup Nat \cup SUBSET AllOnes
           a == AppendTo(h)
           n == Cardinality(Marked(h.acks))
<1>1. Written(<<>>, S)
  <2>1. Flags \subseteq S /\ Nat \subseteq S /\ SUBSET AllOnes \subseteq S
    OBVIOUS
  <2> HIDE DEF S
  <2> QED
    BY <2>1, EmptySeq DEF Written
<1> HIDE DEF S
<1>2. n \in 0 .. 4
  BY <1>1, AcksArrive, Zenon
<1>3. Len(AckPart(h)) = IF AckEncoded(h) THEN 1 ELSE 2
  BY <1>1, AckArrives, Zenon
<1>4. a \in Seq(S) /\ Len(a) = 3 + Len(AckPart(h)) + n
  BY <1>1, HeaderParts, Zenon
<1>5. a[1] = Flag(h)
  <2> DEFINE rest == AppendUint16BE(h.seq) \o (AckPart(h) \o AcksPart(h, <<>>))
  <2>1. a \o <<>> =
           (<<Flag(h)>> \o AppendUint16BE(h.seq)) \o (AckPart(h) \o AcksPart(h, <<>>))
    BY <1>1, HeaderParts, Zenon
  <2>2. AckPart(h) \o AcksPart(h, <<>>) \in Seq(S)
    BY <1>1, AckArrives, Zenon
  <2>3. AppendUint16BE(h.seq) \in Seq(S)
    BY <1>1, <2>2, NumberArrives DEF Written, Headers
  <2>4. Flag(h) \in S /\ <<Flag(h)>> \in Seq(S)
    <3>1. Flag(h) \in Flags /\ Flags \subseteq S
      BY <1>1 DEF Flag, Flags, Marked, AckEncoded, Written
    <3> QED
      BY <3>1
  <2>5. rest \in Seq(S) /\ a \o <<>> = <<Flag(h)>> \o rest
    <3> DEFINE x == <<Flag(h)>>
               y == AppendUint16BE(h.seq)
               z == AckPart(h) \o AcksPart(h, <<>>)
    <3>1. x \in Seq(S) /\ y \in Seq(S) /\ z \in Seq(S)
      BY <2>2, <2>3, <2>4
    <3>2. a \o <<>> = (x \o y) \o z
      BY <2>1
    <3> HIDE DEF x, y, z
    <3>3. y \o z \in Seq(S) /\ (x \o y) \o z = x \o (y \o z)
      BY <3>1, Regrouped
    <3> QED
      BY <3>2, <3>3, Zenon DEF x, y, z
  <2>6. a \o <<>> = a
    BY <1>4, ConcatEmptySeq
  <2> HIDE DEF rest, a
  <2>7. (<<Flag(h)>> \o rest)[1] = Flag(h)
    BY <2>4, <2>5, OneBefore
  <2> QED
    BY <2>5, <2>6, <2>7, Zenon
<1> HIDE DEF a
<1>6. Fits(h)
  BY <1>2, <1>3, <1>4 DEF Fits, MaxPacketHeaderSize, a
<1>7. ASSUME NEW k \in 0 .. (Len(a) - 1)
      PROVE  ~UnmarshalPacketHeader(SubSeq(a, 1, k)).ok
  <2> DEFINE b == SubSeq(a, 1, k)
             c == Drop(b, 3)
             f == Flag(h)
  <2>0. ~UnexpectedEOF.ok
    BY DEF UnexpectedEOF
  <2>1. k \in 0 .. Len(a) /\ k < 3 + Len(AckPart(h)) + n
    BY <1>2, <1>3, <1>4
  <2>2. b \in Seq(S) /\ Len(b) = k /\ (k >= 1 => b[1] = f)
    BY <1>4, <1>5, <2>1, Beginning
  <2> HIDE DEF b
  <2>3. CASE k < 3
    BY <2>0, <2>2, <2>3 DEF UnmarshalPacketHeader, b
  <2>4. CASE k >= 3
    <3>1. b[1] = f /\ ~(Len(b) < 3) /\ ~f.fragment
      BY <2>2, <2>4 DEF Flag
    <3>2. c \in Seq(S) /\ Len(c) = k - 3
      BY <2>2, <2>4, LengthLeft
    <3> HIDE DEF c
    <3>3. UnmarshalPacketHeader(b) = ReadAck(f, Uint16BE(Drop(b, 1)), c)
      BY <3>1, Zenon DEF UnmarshalPacketHeader, c
    <3>4. ASSUME NEW seq, NEW ack, NEW d, Len(d) < n
          PROVE  ReadAcks(f, seq, ack, d) = UnexpectedEOF
      BY <3>4, Zenon DEF ReadAcks, Flag
    <3>5. ASSUME NEW seq PROVE ReadAck(f, seq, c) = UnexpectedEOF
      <4>1. CASE AckEncoded(h)
        <5>1. f.ackEncoded = TRUE
          BY <4>1 DEF Flag
        <5>2. CASE Len(c) < 1
          BY <5>1, <5>2 DEF ReadAck
        <5>3. CASE ~(Len(c) < 1)
          <6>1. Len(Drop(c, 1)) = Len(c) - 1
            BY <2>1, <3>2, <5>3, LengthLeft
          <6>2. Len(Drop(c, 1)) < n
            BY <1>2, <1>3, <2>1, <3>2, <4>1, <6>1
          <6> QED
            BY <3>4, <5>1, <5>3, <6>2, Zenon DEF ReadAck
        <5> QED
          BY <5>2, <5>3
      <4>2. CASE ~AckEncoded(h)
        <5>1. ~f.ackEncoded
          BY <4>2 DEF Flag
        <5>2. CASE Len(c) < 2
          BY <5>1, <5>2 DEF ReadAck
        <5>3. CASE ~(Len(c) < 2)
          <6>1. Len(Drop(c, 2)) = Len(c) - 2
            BY <2>1, <3>2, <5>3, LengthLeft
          <6>2. Len(Drop(c, 2)) < n
            BY <1>2, <1>3, <2>1, <3>2, <4>2, <6>1
          <6> QED
            BY <3>4, <5>1, <5>3, <6>2, Zenon DEF ReadAck
        <5> QED
          BY <5>2, <5>3
      <4> QED
        BY <4>1, <4>2
    <3>6. UnmarshalPacketHeader(b) = UnexpectedEOF
      BY <3>3, <3>5, Zenon
    <3> QED
      BY <2>0, <3>6 DEF b
  <2> QED
    BY <2>1, <2>3, <2>4
<1> QED
  BY <1>6, <1>7 DEF RefusesParts, a

\* The same of the header of a fragment.
THEOREM FragmentHeadersRoundTrip ==
    ASSUME NEW fh \in FragmentHeaders, NEW T, NEW payload \in Seq(T)
    PROVE  FragmentRoundTrips(fh, payload)
<1> DEFINE flag == [fragment |-> TRUE, marked |-> {}, ackEncoded |-> FALSE]
           S == T \cup {flag} \cup Nat
           q == AppendUint16BE(fh.seq)
           front == <<flag>> \o q \o <<fh.id, fh.total>>
           b == front \o payload
<1>1. /\ fh.seq \in SeqNum /\ fh.id \in Nat /\ fh.total \in Nat
      /\ fh = [seq |-> fh.seq, id |-> fh.id, total |-> fh.total]
  BY CodecAssumption DEF FragmentHeaders
<1>2. /\ payload \in Seq(S) /\ Nat \subseteq S /\ flag \in S
      /\ fh.id \in S /\ fh.total \in S
  <2>1. T \subseteq S
    OBVIOUS
  <2>2. payload \in Seq(S)
    BY <2>1, SeqMonotonic, Zenon
  <2> QED
    BY <1>1, <2>2
<1> HIDE DEF S, flag
<1>3. /\ <<flag>> \in Seq(S) /\ Len(<<flag>>) = 1
      /\ <<fh.id, fh.total>> \in Seq(S) /\ Len(<<fh.id, fh.total>>) = 2
      /\ <<fh.id, fh.total>>[1] = fh.id /\ <<fh.id, fh.total>>[2] = fh.total
  BY <1>2
<1> DEFINE i == <<fh.id, fh.total>>
           rest == i \o payload
<1>4. rest \in Seq(S) /\ rest[1] = fh.id /\ rest[2] = fh.total
  <2>1. Len(payload) \in Nat
    BY <1>2, LenProperties
  <2>2. /\ rest \in Seq(S)
        /\ \A j \in 1 .. 2 + Len(payload) : rest[j] = IF j <= 2 THEN i[j] ELSE payload[j - 2]
    BY <1>2, <1>3, ConcatProperties
  <2> QED
    BY <1>3, <2>1, <2>2
<1> HIDE DEF i
<1>5. Len(i) = 2 /\ i \in Seq(S)
  BY <1>3 DEF i
<1>6. Drop(rest, 2) = payload
  BY <1>2, <1>5, DropsFront
<1>7. Len(rest) = 2 + Len(payload)
  BY <1>2, <1>5, Joined
<1> HIDE DEF rest
<1>8. q \in Seq(S) /\ Len(q) = 2 /\ Uint16BE(q \o rest) = fh.seq
  BY <1>1, <1>2, <1>4, NumberArrives
<1> HIDE DEF q
<1>9. /\ <<flag>> \o q \in Seq(S) /\ Len(<<flag>> \o q) = 3
      /\ front \in Seq(S) /\ Len(front) = 5
  <2>1. <<flag>> \o q \in Seq(S) /\ Len(<<flag>> \o q) = Len(<<flag>>) + Len(q)
    BY <1>3, <1>8, Joined, Zenon
  <2>2. Len(<<flag>> \o q) = 3
    BY <1>3, <1>8, <2>1
  <2>3. front \in Seq(S) /\ Len(front) = Len(<<flag>> \o q) + Len(i)
    BY <1>5, <2>1, Joined, Zenon DEF i
  <2> QED
    BY <1>5, <2>1, <2>2, <2>3
<1>10. Drop(b, 5) = payload /\ b \in Seq(S) /\ ~(Len(b) < 5)
  <2>1. Drop(front \o payload, Len(front)) = payload
    BY <1>2, <1>9, DropsFront
  <2>2. b \in Seq(S) /\ Len(b) = Len(front) + Len(payload) /\ Len(payload) \in Nat
    BY <1>2, <1>9, Joined, LenProperties
  <2> HIDE DEF front
  <2> QED
    BY <1>9, <2>1, <2>2
<1>11. b = (<<flag>> \o q) \o rest
  <2>1. ((<<flag>> \o q) \o i) \o payload = (<<flag>> \o q) \o (i \o payload)
    BY <1>2, <1>5, <1>9, Regrouped, SMTT(40)
  <2> QED
    BY <2>1, Zenon DEF i, rest
<1>12. b[4] = fh.id /\ b[5] = fh.total
  <2> DEFINE s == <<flag>> \o q
  <2>1. Len(rest) \in Nat /\ 2 <= Len(rest)
    <3>1. Len(payload) \in Nat
      BY <1>2, LenProperties
    <3> QED
      BY <1>7, <3>1
  <2>2. s \in Seq(S) /\ Len(s) = 3
    BY <1>9
  <2> HIDE DEF s
  <2>3. \A j \in 1 .. Len(s) + Len(rest) :
           (s \o rest)[j] = IF j <= Len(s) THEN s[j] ELSE rest[j - Len(s)]
    BY <1>4, <2>2, ConcatProperties
  <2>4. (s \o rest)[4] = rest[1] /\ (s \o rest)[5] = rest[2]
    <3>1. /\ 4 \in 1 .. Len(s) + Len(rest) /\ ~(4 <= Len(s)) /\ 4 - Len(s) = 1
          /\ 5 \in 1 .. Len(s) + Len(rest) /\ ~(5 <= Len(s)) /\ 5 - Len(s) = 2
      BY <2>1, <2>2
    <3> QED
      BY <2>3, <3>1, Zenon
  <2> HIDE DEF b
  <2> QED
    BY <1>4, <1>11, <2>4 DEF s
<1>13. Uint16BE(Drop(b, 1)) = fh.seq
  <2>1. q \o rest \in Seq(S) /\ (<<flag>> \o q) \o rest = <<flag>> \o (q \o rest)
    BY <1>3, <1>4, <1>8, Regrouped
  <2>2. Drop(<<flag>> \o (q \o rest), Len(<<flag>>)) = q \o rest
    BY <1>3, <2>1, DropsFront
  <2> HIDE DEF b
  <2>3. Drop(b, 1) = q \o rest
    BY <1>3, <1>11, <2>1, <2>2, Zenon
  <2> QED
    BY <1>8, <2>3
<1>14. b = AppendFragmentHeader(fh) \o payload
  BY Zenon DEF AppendFragmentHeader, q, flag
<1> HIDE DEF b
<1>15. UnmarshalFragmentHeader(b) = Decoded(fh, payload)
  BY <1>1, <1>10, <1>12, <1>13, Zenon DEF UnmarshalFragmentHeader
<1> QED
  BY <1>14, <1>15, Zenon DEF FragmentRoundTrips

-----------------------------------------------------------------------------
(* The receive buffer.                                                     *)

\* Every step keeps the types.
LEMMA RecvTypeStep == ASSUME TypeOK, [RecvNext]_vars PROVE TypeOK'
<1> USE RecvAssumption DEF TypeOK
<1>1. CASE PeerSends
  <2>1. Recent(got) \subseteq got /\ Recent(missed) \subseteq missed
    BY Zenon DEF Recent
  <2>2. sent' \in 0 .. MaxSent /\ buf' = buf /\ lost' = lost
    BY <1>1 DEF PeerSends
  <2>3. got' = Recent(got) /\ missed' = Recent(missed)
    BY <1>1 DEF PeerSends
  <2> QED
    BY <2>1, <2>2, <2>3
<1>2. ASSUME NEW p \in InFlight, Receive(p) PROVE TypeOK'
  <2>1. p \in 0 .. (MaxSent - 1)
    BY <1>2 DEF InFlight
  <2>2. Plus(p % M, 1) \in SeqNum /\ p % M \in SeqNum
    <3>1. p % M \in SeqNum
      BY <2>1, MAssumption, Z3 DEF SeqNum
    <3> QED
      BY <3>1, SeqNumArithmetic, MAssumption DEF SeqNum
  <2>3. Insert(RecvPacketBufferSize, buf, p % M) \in SequenceBuffers(RecvPacketBufferSize)
    BY <2>2, SlotInRange DEF Insert, RemoveRange, SequenceBuffers
  <2> QED
    BY <1>2, <2>1, <2>3 DEF Receive
<1>3. ASSUME NEW p \in InFlight, RefuseOutdated(p) PROVE TypeOK'
  BY <1>3 DEF RefuseOutdated, InFlight
<1>4. ASSUME NEW p \in InFlight, Lose(p) PROVE TypeOK'
  BY <1>4 DEF Lose, InFlight
<1>5. CASE UNCHANGED vars
  BY <1>5 DEF vars
<1> QED
  BY <1>1, <1>2, <1>3, <1>4, <1>5 DEF RecvNext

\* No packet makes a number or a slot leave its range.
THEOREM RecvTypeCorrect == Spec => []TypeOK
<1>1. RecvInit => TypeOK
  BY RecvAssumption, MAssumption DEF RecvInit, TypeOK, NewSequenceBuffer, SequenceBuffers, SeqNum
<1> QED
  BY <1>1, RecvTypeStep, PTL DEF Spec

\* Every header that the receive buffer gives rise to arrives: NextACK's bitset
\* and number, before a payload, in a packet of any number.
THEOREM HeadersArrive == Spec => []HeaderArrives
<1>1. TypeOK => HeaderArrives
  <2> SUFFICES ASSUME TypeOK, NEW d \in {0, ByteSize - 1, ByteSize, M - 1},
                      NEW h, h = [seq  |-> Plus(Header.ack, d), ack |-> Header.ack,
                                  acks |-> Header.acks]
               PROVE  Fits(h) /\ RoundTrips(h, <<"payload">>) /\ RefusesParts(h)
    BY DEF HeaderArrives
  <2>1. buf.latest \in SeqNum
    BY DEF TypeOK, SequenceBuffers
  <2>2. Header.ack \in SeqNum /\ Header.acks \in SUBSET (0 .. (4 * ByteBits - 1))
    <3>1. Minus(buf.latest, 1) \in SeqNum
      <4>1. 1 \in SeqNum
        BY MAssumption DEF SeqNum
      <4> QED
        BY <2>1, <4>1, SeqNumArithmetic, Zenon
    <3> QED
      BY <3>1 DEF Header, NextACK, AckBits
  <2>3. Plus(Header.ack, d) \in SeqNum
    <3>1. Header.ack + d \in Int
      BY <2>2, CodecAssumption, MAssumption DEF SeqNum
    <3> QED
      BY <3>1, Remainders, MAssumption DEF Plus, SeqNum
  <2>4. h \in Headers
    BY <2>2, <2>3 DEF Headers
  <2>5. <<"payload">> \in Seq({"payload"})
    OBVIOUS
  <2> QED
    BY <2>4, <2>5, HeadersRoundTrip, HeadersAreExact
<1> QED
  BY <1>1, RecvTypeCorrect, PTL

-----------------------------------------------------------------------------
(* Numbers modulo M and the packets they stand for.                        *)

\* A number of M times a multiple leaves nothing.
LEMMA Multiples ==
    ASSUME NEW s \in Nat \ {0}, NEW z \in Int
    PROVE  (s * z) % s = 0
  BY Multiple

\* Reducing to 16 bits early or late makes no difference.
LEMMA Reduced ==
    ASSUME NEW x \in Int, NEW b \in Int
    PROVE  /\ x % M \in SeqNum
           /\ ((x % M) + b) % M = (x + b) % M
<1> DEFINE q == x \div M
           r == x % M
<1>1. M \in Nat \ {0}
  BY MAssumption
<1>2. q \in Int /\ r \in 0 .. (M - 1) /\ x = M * q + r
  BY <1>1, Z3
<1> HIDE DEF q, r
<1>3. (M * (-q)) % M = 0
  BY <1>1, <1>2, Multiples
<1>4. M * (-q) = (r + b) - (x + b)
  BY <1>1, <1>2, Z3
<1>5. (r + b) % M = (x + b) % M
  <2>1. r + b \in Int /\ x + b \in Int /\ ((r + b) - (x + b)) % M = 0
    BY <1>2, <1>3, <1>4
  <2> QED
    BY <1>1, <2>1, SameRemainder
<1> QED
  BY <1>2, <1>5 DEF r, SeqNum

\* uint16 arithmetic on numbers that stand for larger ones.
LEMMA OnNumbers ==
    ASSUME NEW x \in Int, NEW b \in Int
    PROVE  /\ Plus(x % M, b) = (x + b) % M
           /\ Minus(x % M, b) = (x - b) % M
<1>1. ((x % M) + b) % M = (x + b) % M /\ ((x % M) + (-b)) % M = (x + (-b)) % M
  BY Reduced
<1>2. x % M \in Int
  BY Reduced DEF SeqNum
<1>3. (x % M) + (-b) = (x % M) - b /\ x + (-b) = x - b
  BY <1>2
<1> QED
  BY <1>1, <1>3 DEF Plus, Minus

\* The circular order of two numbers less than half of M apart is that of the
\* packets they stand for.
LEMMA CircularOrder ==
    ASSUME NEW x \in Int, NEW y \in Int,
           x - y < HalfMaxUint16, y - x < HalfMaxUint16
    PROVE  seqGreaterThan(x % M, y % M) <=> x > y
<1> DEFINE d == x - y
           r == y % M
           h == HalfMaxUint16
<1>1. h \in Nat /\ 2 * h = M /\ M \in Nat /\ M >= 4
  BY HalfOfM, MAssumption
<1>2. d \in Int /\ r \in 0 .. (M - 1) /\ x = y + d /\ d < h /\ -d < h
  <2>1. y % M \in 0 .. (M - 1)
    BY Reduced DEF SeqNum
  <2>2. x - y \in Int /\ x = y + (x - y) /\ -(x - y) = y - x
    OBVIOUS
  <2> QED
    BY <2>1, <2>2
<1>3. x % M = (r + d) % M
  <2>1. ((y % M) + d) % M = (y + d) % M
    BY <1>2, Reduced
  <2> QED
    BY <1>2, <2>1 DEF r
<1>4. (x > y) <=> d > 0
  BY <1>2
<1> HIDE DEF d, r, h
<1>5. /\ r + d \in 0 .. (M - 1) => x % M = r + d
      /\ r + d \in M .. (2 * M - 1) => x % M = r + d - M
      /\ r + d \in (0 - M) .. (0 - 1) => x % M = r + d + M
  <2> DEFINE a == r + d
  <2>1. a \in Int /\ x % M = a % M
    BY <1>2, <1>3
  <2> HIDE DEF a
  <2>2. /\ a \in 0 .. (M - 1) => a % M = a
        /\ a \in M .. (2 * M - 1) => a % M = a - M
        /\ a \in (0 - M) .. (0 - 1) => a % M = a + M
    BY <1>1, <2>1, Remainders
  <2>3. /\ a \in 0 .. (M - 1) => x % M = a
        /\ a \in M .. (2 * M - 1) => x % M = a - M
        /\ a \in (0 - M) .. (0 - 1) => x % M = a + M
    BY <2>1, <2>2
  <2> QED
    BY <1>1, <1>2, <2>3 DEF a
<1>6. seqGreaterThan(x % M, r) <=> d > 0
  <2>1. CASE r + d \in 0 .. (M - 1)
    BY <1>1, <1>2, <1>5, <2>1 DEF seqGreaterThan, h
  <2>2. CASE r + d \in M .. (2 * M - 1)
    BY <1>1, <1>2, <1>5, <2>2 DEF seqGreaterThan, h
  <2>3. CASE r + d \in (0 - M) .. (0 - 1)
    BY <1>1, <1>2, <1>5, <2>3 DEF seqGreaterThan, h
  <2> QED
    BY <1>1, <1>2, <2>1, <2>2, <2>3
<1> QED
  BY <1>4, <1>6 DEF r

\* The numbers of a slot are the same in every lap.
LEMMA SlotOfPacket ==
    ASSUME NEW cap \in Nat \ {0}, M % cap = 0, NEW x \in Int
    PROVE  Slot(cap, x % M) = x % cap
<1> DEFINE q == x \div M
           c == M \div cap
<1>1. M \in Nat \ {0} /\ x \in Int /\ x % M \in Int
  BY MAssumption, Reduced DEF SeqNum
<1>2. q \in Int /\ x % M = x - M * q
  BY <1>1, Z3
<1>3. c \in Int /\ M = cap * c
  BY <1>1, Z3
<1> HIDE DEF q, c
<1>4. (x % M) - x = cap * (c * (-q))
  <2>1. M * q = (cap * c) * q
    BY <1>3
  <2>2. (cap * c) * q = -(cap * (c * (-q)))
    BY <1>2, <1>3, Z3
  <2> QED
    BY <1>1, <1>2, <1>3, <2>1, <2>2, Z3
<1>5. (cap * (c * (-q))) % cap = 0
  <2>1. c * (-q) \in Int
    BY <1>2, <1>3
  <2> QED
    BY <2>1, Multiples
<1>6. (x % M) % cap = x % cap
  <2>1. ((x % M) - x) % cap = 0
    BY <1>4, <1>5
  <2> QED
    BY <1>1, <2>1, SameRemainder
<1> QED
  BY <1>6 DEF Slot

\* Numbers less than a multiple apart are not in the same slot, nor reduced to
\* the same number.
LEMMA ApartBy ==
    ASSUME NEW s \in Nat \ {0}, NEW x \in Int, NEW y \in Int, x % s = y % s,
           x - y < s, y - x < s
    PROVE  x = y
<1>1. (x - y) % s = 0
  BY SameRemainder
<1>2. x - y \in Int
  OBVIOUS
<1> DEFINE z == (x - y) \div s
<1>3. z \in Int /\ x - y = s * z
  BY <1>1, <1>2, Z3
<1> HIDE DEF z
<1>4. z = 0
  <2>1. z >= 1 => s * z >= s
    BY <1>3, Z3
  <2>2. z <= -1 => s * z <= -s
    BY <1>3, Z3
  <2> QED
    BY <1>3, <2>1, <2>2
<1> QED
  BY <1>3, <1>4

\* Where RemoveRange begins when the numbers wrap: behind the slots it ends at,
\* or at the first one.
LEMMA AcrossTheWrap ==
    ASSUME NEW c \in Nat \ {0}, NEW m \in Nat, m > c,
           m % (c + 1) \in {0, 1}, NEW a \in 1 .. c
    PROVE  LET s == (m - a) % (c + 1) IN s = 0 \/ s >= c + 1 - a
<1> DEFINE t == c + 1
           r == m % t
           q == m \div t
<1>1. t \in Nat \ {0} /\ t >= 2
  OBVIOUS
<1>2. r \in {0, 1} /\ q \in Int /\ m = t * q + r
  BY <1>1, Z3
<1> HIDE DEF r, q
<1>3. CASE r = 1 /\ a = 1
  <2>1. m - a = t * q + 0 /\ 0 \in 0 .. (t - 1)
    BY <1>1, <1>2, <1>3, Z3
  <2>2. (t * q + 0) % t = 0
    BY <1>1, <1>2, <2>1, Multiple
  <2> QED
    BY <2>1, <2>2
<1>4. CASE ~(r = 1 /\ a = 1)
  <2> DEFINE z == t + r - a
  <2>1. z \in 0 .. (t - 1) /\ q - 1 \in Int /\ z >= c + 1 - a
    BY <1>1, <1>2, <1>4
  <2>2. m - a = t * (q - 1) + z
    BY <1>1, <1>2, Z3
  <2> HIDE DEF z
  <2>3. (t * (q - 1) + z) % t = z
    BY <1>1, <2>1, Multiple
  <2> QED
    BY <2>1, <2>2, <2>3
<1> QED
  BY <1>3, <1>4

\* A number and a step that is shorter than a wrap.
LEMMA WrapsOnce ==
    ASSUME NEW a \in 0 .. (M - 1), NEW j \in 0 .. (M - 1)
    PROVE  (a + j) % M = IF a + j < M THEN a + j ELSE a + j - M
<1> DEFINE b == a + j
<1>1. M \in Nat /\ M >= 4 /\ b \in Int /\ b \in 0 .. (2 * M - 1)
  BY MAssumption
<1> HIDE DEF b
<1>2. /\ b \in 0 .. (M - 1) => b % M = b
      /\ b \in M .. (2 * M - 1) => b % M = b - M
  BY <1>1, Remainders
<1>3. b % M = IF b < M THEN b ELSE b - M
  BY <1>1, <1>2
<1> QED
  BY <1>1, <1>3 DEF b

\* A slot is cleared when the first number of its own after the numbers wrap is
\* passed over, though RemoveRange counts one slot too many.
LEMMA PassedOver ==
    ASSUME NEW k \in Slots(RecvPacketBufferSize), NEW entries,
           NEW newest \in Int, NEW p \in Int, p - newest <= RecvPacketBufferSize + 1,
           NEW n \in Int, newest < n, n < p, n % M = k
    PROVE  RemoveRange(RecvPacketBufferSize, entries, (newest + 1) % M, p % M)[k] = Empty
<1> DEFINE c == RecvPacketBufferSize
           u == (newest + 1) % M
           v == p % M
           s == u % (c + 1)
           e == v % (c + 1)
           j == n - (newest + 1)
           w == p - (newest + 1)
<1>1. /\ c \in Nat \ {0} /\ M \in Nat /\ M >= 4 /\ 2 * c < M
      /\ M % (c + 1) \in {0, 1}
  BY RecvAssumption, RingAssumption, MAssumption, HalfOfM
<1>2. u \in 0 .. (M - 1)
  <2>1. newest + 1 \in Int
    OBVIOUS
  <2> QED
    BY <2>1, Reduced, Zenon DEF SeqNum
<1>3. /\ j \in Nat /\ w \in Nat /\ j < w /\ w <= c
      /\ j \in 0 .. (M - 1) /\ w \in 0 .. (M - 1)
  BY <1>1
<1>4. k = (u + j) % M /\ v = (u + w) % M
  <2>1. newest + 1 \in Int /\ (newest + 1) + j = n /\ (newest + 1) + w = p
    OBVIOUS
  <2>2. /\ (((newest + 1) % M) + j) % M = ((newest + 1) + j) % M
        /\ (((newest + 1) % M) + w) % M = ((newest + 1) + w) % M
    <3> HIDE DEF j, w
    <3>1. newest + 1 \in Int /\ j \in Int /\ w \in Int
      BY <1>3
    <3> QED
      BY <3>1, Reduced, Zenon
  <2> QED
    BY <2>1, <2>2, Zenon DEF u, v
<1>5. k \in Nat /\ k < c
  BY <1>1 DEF Slots
<1> HIDE DEF u, v, j, w, c
<1>6. (e < s => k >= s \/ k < e) /\ (~(e < s) => s <= k /\ k < e)
  <2>1. CASE u + j < M
    <3>1. k = u + j /\ u < c /\ u + w < M /\ v = u + w
      <4>1. k = u + j
        BY <1>2, <1>3, <1>4, <2>1, WrapsOnce
      <4>2. u < c /\ u + w \in 0 .. (M - 1)
        BY <1>1, <1>2, <1>3, <1>5, <4>1
      <4>3. (u + w) % M = u + w
        <5>1. (u + w) % M = IF u + w < M THEN u + w ELSE u + w - M
          BY <1>2, <1>3, WrapsOnce
        <5> QED
          BY <1>1, <1>2, <1>3, <4>2, <5>1
      <4> QED
        BY <1>1, <1>2, <1>3, <1>4, <4>1, <4>2, <4>3
    <3>2. s = u
      BY <1>1, <1>2, <3>1, Z3
    <3>3. CASE u + w <= c
      <4>1. e = u + w
        BY <1>1, <1>2, <1>3, <3>1, <3>3, Z3
      <4> QED
        BY <1>2, <1>3, <3>1, <3>2, <4>1
    <3>4. CASE u + w > c
      <4>1. e = u + w - (c + 1)
        <5>1. u + w - (c + 1) \in 0 .. (c + 1) - 1
          BY <1>1, <1>2, <1>3, <3>1, <3>4
        <5>2. ((c + 1) * 1 + (u + w - (c + 1))) % (c + 1) = u + w - (c + 1)
          BY <1>1, <5>1, Multiple
        <5> QED
          BY <1>1, <1>2, <1>3, <3>1, <5>2
      <4> QED
        BY <1>1, <1>2, <1>3, <3>1, <3>2, <4>1
    <3> QED
      BY <1>1, <1>2, <1>3, <3>3, <3>4
  <2>2. CASE u + j >= M
    <3> DEFINE a == M - u
    <3>1. a \in 1 .. c /\ a <= j /\ w - a \in 0 .. c /\ k = j - a /\ v = w - a
      <4>1. a \in 1 .. c /\ a <= j /\ w - a \in 0 .. c
        BY <1>1, <1>2, <1>3, <2>2
      <4>2. u + j \in M .. (2 * M - 1) /\ u + w \in M .. (2 * M - 1)
        BY <1>1, <1>2, <1>3, <2>2
      <4>3. (u + j) % M = u + j - M /\ (u + w) % M = u + w - M
        BY <1>1, <1>2, <1>3, <4>2, WrapsOnce
      <4> QED
        BY <1>1, <1>2, <1>3, <1>4, <4>1, <4>3
    <3>2. e = w - a
      BY <1>1, <3>1, Z3
    <3>3. s = 0 \/ s >= c + 1 - a
      <4>1. M > c /\ u = M - a
        BY <1>1, <1>2
      <4>2. LET t == (M - a) % (c + 1) IN t = 0 \/ t >= c + 1 - a
        BY <1>1, <3>1, <4>1, AcrossTheWrap
      <4> QED
        BY <4>1, <4>2
    <3>4. s \in Nat
      BY <1>1, <1>2, Z3
    <3> HIDE DEF a
    <3> QED
      BY <1>1, <1>3, <3>1, <3>2, <3>3, <3>4
  <2> QED
    BY <1>1, <1>2, <1>3, <2>1, <2>2
<1> QED
  BY <1>6, Zenon DEF RemoveRange, s, e, u, v, c

-----------------------------------------------------------------------------
(* The inductive invariant.                                                *)

\* Newest is the greatest of the packets received.
HasNewest == got # {} => Newest \in got /\ \A q \in got : q <= Newest

WasSent == got \cup missed \subseteq 0 .. (sent - 1)

\* Of the packets that Recent keeps, those too old to be in flight have arrived or
\* are known to be missed.
Settled ==
    \A p \in 0 .. (sent - 1) :
        p < sent - Lag /\ p > Newest - RecvPacketBufferSize => p \in got \cup missed

\* Beyond the newest packet no two in a row are missed.
Isolated == \A p \in missed : p > Newest => p + 1 \notin missed

NewestHeld == got # {} => buf.entries[Slot(RecvPacketBufferSize, Newest % M)] = Newest % M

\* The entry of slot k was packet q's: one of k's numbers, received if it is still
\* in the reach of the bitset, and of the lap that the slot's own number began.
Holds(k, q) ==
    /\ q % M = buf.entries[k]
    /\ q % RecvPacketBufferSize = k
    /\ q > Newest - RecvPacketBufferSize => q \in got
    /\ \A n \in (q + 1) .. Newest : n % M # k

Fresh ==
    \A k \in Slots(RecvPacketBufferSize) :
        buf.entries[k] # Empty => \E q \in 0 .. Newest : Holds(k, q)

\* What the packets and latest keep.  What the slots keep, NewestHeld and Fresh, is
\* proved apart, since only that rests on RingAssumption.
RecvInv == TypeOK /\ HasNewest /\ WasSent /\ Settled /\ Isolated /\ LatestIsNewest

\* The greatest element is the one that CHOOSE gives.
LEMMA Greatest ==
    ASSUME NEW S \in SUBSET Int, NEW m \in S, \A q \in S : q <= m
    PROVE  (CHOOSE p \in S : \A q \in S : q <= p) = m
<1> DEFINE c == CHOOSE p \in S : \A q \in S : q <= p
<1>1. c \in S /\ \A q \in S : q <= c
  OBVIOUS
<1> HIDE DEF c
<1>2. c \in Int /\ m \in Int /\ c <= m /\ m <= c
  BY <1>1
<1>3. c = m
  BY <1>2
<1> QED
  BY <1>3 DEF c

LEMMA Sizes ==
    /\ RecvPacketBufferSize \in Nat \ {0} /\ Lag \in Nat /\ HalfMaxUint16 \in Nat
    /\ 2 * HalfMaxUint16 = M /\ M \in Nat /\ M >= 4
    /\ Lag + RecvPacketBufferSize < HalfMaxUint16
  BY RecvAssumption, ReachAssumption, MAssumption, HalfOfM

\* How far the newest packet is behind the peer.
LEMMA NewestInReach ==
    ASSUME RecvInv
    PROVE  /\ sent \in Nat
           /\ got \in SUBSET Int /\ missed \in SUBSET Int
           /\ Newest \in Int /\ Newest >= -1 /\ Newest <= sent - 1
           /\ got = {} <=> Newest = -1
           /\ sent <= Newest + Lag + 2
<1>1. sent \in Nat /\ got \in SUBSET Int /\ missed \in SUBSET Int
  BY RecvAssumption DEF RecvInv, TypeOK
<1>2. got = {} => Newest = -1
  BY DEF Newest
<1>3. got # {} => Newest \in 0 .. (sent - 1)
  BY DEF RecvInv, HasNewest, WasSent
<1>4. Newest \in Int /\ Newest >= -1 /\ Newest <= sent - 1
  BY <1>1, <1>2, <1>3
<1>5. got = {} <=> Newest = -1
  BY <1>1, <1>2, <1>3
<1>6. sent <= Newest + Lag + 2
  <2> SUFFICES ASSUME sent > Newest + Lag + 2 PROVE FALSE
    BY <1>1, <1>4, Sizes
  <2>1. ASSUME NEW d \in {1, 2} PROVE Newest + d \in missed
    <3>1. /\ Newest + d \in 0 .. (sent - 1)
          /\ Newest + d < sent - Lag
          /\ Newest + d > Newest - RecvPacketBufferSize
          /\ ~(Newest + d <= Newest)
      BY <1>1, <1>4, Sizes
    <3>2. Newest + d \in got \cup missed
      BY <3>1 DEF RecvInv, Settled
    <3>3. Newest + d \notin got
      BY <3>1 DEF RecvInv, HasNewest
    <3> QED
      BY <3>2, <3>3
  <2>2. Newest + 1 \in missed /\ Newest + 2 \in missed
    BY <2>1
  <2>3. Newest + 1 > Newest /\ (Newest + 1) + 1 = Newest + 2
    BY <1>4
  <2> QED
    BY <2>2, <2>3 DEF RecvInv, Isolated
<1> QED
  BY <1>1, <1>4, <1>5, <1>6

\* The 16-bit comparisons of Insert and IsOutdated agree with the packets' order.
LEMMA Comparisons ==
    ASSUME RecvInv, NEW p \in InFlight
    PROVE  /\ p \in 0 .. (sent - 1) /\ p - Newest <= Lag + 1
           /\ p % M \in SeqNum
           /\ Plus(p % M, 1) = (p + 1) % M
           /\ seqGreaterThan(Plus(p % M, 1), buf.latest) <=> p > Newest
           /\ IsOutdated(RecvPacketBufferSize, buf, p % M)
                  <=> p <= Newest - RecvPacketBufferSize
<1> DEFINE c == RecvPacketBufferSize
<1>1. p \in 0 .. (sent - 1) /\ p >= sent - Lag - 1
  BY DEF InFlight
<1>2. /\ p \in Int /\ c \in Int /\ Newest \in Int /\ p - Newest <= Lag + 1 /\ Newest - p <= Lag
  BY <1>1, NewestInReach, Sizes
<1>3. buf.latest = (Newest + 1) % M
  BY DEF RecvInv, LatestIsNewest
<1>4. /\ p + 1 \in Int /\ Newest + 1 \in Int /\ (Newest + 1) - c \in Int
      /\ (p + 1) - (Newest + 1) < HalfMaxUint16 /\ (Newest + 1) - (p + 1) < HalfMaxUint16
      /\ ((Newest + 1) - c) - p < HalfMaxUint16 /\ p - ((Newest + 1) - c) < HalfMaxUint16
      /\ (p + 1 > Newest + 1 <=> p > Newest)
      /\ ((Newest + 1) - c > p <=> p <= Newest - c)
  BY <1>2, Sizes
<1>5. p % M \in SeqNum /\ Plus(p % M, 1) = (p + 1) % M
  BY <1>2, Reduced, OnNumbers
<1>6. Minus(buf.latest, c) = ((Newest + 1) - c) % M
  BY <1>2, <1>3, <1>4, OnNumbers, Zenon
<1>7. seqGreaterThan((p + 1) % M, (Newest + 1) % M) <=> p + 1 > Newest + 1
  BY <1>4, CircularOrder, Zenon
<1>8. seqGreaterThan(((Newest + 1) - c) % M, p % M) <=> (Newest + 1) - c > p
  BY <1>2, <1>4, CircularOrder, Zenon
<1> QED
  BY <1>1, <1>2, <1>3, <1>4, <1>5, <1>6, <1>7, <1>8, Zenon DEF IsOutdated, seqLessThan

\* What is kept of the packets received and missed keeps the invariant.
LEMMA Kept ==
    ASSUME RecvInv, TypeOK', buf' = buf, Newest' = Newest,
           got' \subseteq got,
           \A q \in got : q > Newest - RecvPacketBufferSize => q \in got',
           WasSent', Settled', Isolated'
    PROVE  RecvInv' /\ (NewestHeld => NewestHeld') /\ (Fresh => Fresh')
<1>1. Newest \in Int /\ got \in SUBSET Int /\ (got = {} <=> Newest = -1)
  BY NewestInReach
<1>2. got # {} => Newest \in got /\ \A q \in got : q <= Newest
  BY DEF RecvInv, HasNewest
<1>3. Newest > Newest - RecvPacketBufferSize
  BY <1>1, Sizes
<1>4. got # {} => Newest \in got'
  BY <1>2, <1>3
<1>5. HasNewest' /\ LatestIsNewest' /\ (NewestHeld => NewestHeld')
  BY <1>2, <1>4 DEF RecvInv, HasNewest, LatestIsNewest, NewestHeld
<1>6. ASSUME NEW k, NEW q \in 0 .. Newest, Holds(k, q) PROVE Holds(k, q)'
  BY <1>6 DEF Holds
<1>7. Fresh => Fresh'
  BY <1>6, Zenon DEF Fresh
<1> QED
  BY <1>5, <1>7 DEF RecvInv

LEMMA PeerSendsKeeps ==
    ASSUME RecvInv, TypeOK', PeerSends
    PROVE  RecvInv' /\ (NewestHeld => NewestHeld') /\ (Fresh => Fresh')
<1> DEFINE c == RecvPacketBufferSize
<1>1. /\ Newest \in Int /\ got \in SUBSET Int /\ missed \in SUBSET Int
      /\ (got = {} <=> Newest = -1) /\ sent \in Nat /\ Lag \in Nat /\ c \in Nat
  BY NewestInReach, Sizes
<1>2. /\ sent' = sent + 1 /\ buf' = buf
      /\ got' = Recent(got) /\ missed' = Recent(missed)
      /\ sent >= Lag => sent - Lag \in got \cup missed
  BY DEF PeerSends
<1>3. /\ got' \subseteq got /\ missed' \subseteq missed
      /\ \A q \in got \cup missed : q > Newest - c => q \in got' \cup missed'
      /\ \A q \in got : q > Newest - c => q \in got'
  BY <1>2 DEF Recent
<1>4. got # {} => Newest \in got' /\ \A q \in got' : q <= Newest
  <2>1. Newest > Newest - c
    BY <1>1, Sizes
  <2> QED
    BY <1>3, <2>1 DEF RecvInv, HasNewest
<1>5. Newest' = Newest
  <2>1. CASE got = {}
    BY <1>3, <2>1 DEF Newest
  <2>2. CASE got # {}
    <3>1. got' \in SUBSET Int
      BY <1>1, <1>3
    <3>2. (CHOOSE p \in got' : \A q \in got' : q <= p) = Newest
      BY <1>4, <2>2, <3>1, Greatest
    <3>3. got' # {}
      BY <1>4, <2>2
    <3> QED
      BY <3>2, <3>3 DEF Newest
  <2> QED
    BY <2>1, <2>2
<1>6. WasSent'
  <2>1. 0 .. (sent - 1) \subseteq 0 .. (sent' - 1)
    BY <1>1, <1>2
  <2> QED
    BY <1>3, <2>1 DEF RecvInv, WasSent
<1>7. Settled'
  <2> SUFFICES ASSUME NEW p \in 0 .. (sent' - 1), p < sent' - Lag, p > Newest - c
               PROVE  p \in got' \cup missed'
    BY <1>5 DEF Settled
  <2>1. CASE p = sent - Lag
    <3>1. sent >= Lag
      BY <1>1, <2>1
    <3> QED
      BY <1>2, <1>3, <2>1, <3>1
  <2>2. CASE p # sent - Lag
    <3>1. p \in 0 .. (sent - 1) /\ p < sent - Lag
      BY <1>1, <1>2, <2>2
    <3>2. p \in got \cup missed
      BY <3>1 DEF RecvInv, Settled
    <3> QED
      BY <1>3, <3>2
  <2> QED
    BY <2>1, <2>2
<1>8. Isolated'
  BY <1>3, <1>5 DEF RecvInv, Isolated
<1> QED
  BY <1>2, <1>3, <1>5, <1>6, <1>7, <1>8, Kept

LEMMA MissKeeps ==
    ASSUME RecvInv, TypeOK', NEW p \in InFlight, RefuseOutdated(p) \/ Lose(p)
    PROVE  RecvInv' /\ (NewestHeld => NewestHeld') /\ (Fresh => Fresh')
<1>1. /\ Newest \in Int /\ missed \in SUBSET Int /\ p \in 0 .. (sent - 1) /\ sent \in Nat
  BY NewestInReach, Comparisons
<1>2. buf' = buf /\ got' = got /\ sent' = sent /\ missed' = missed \cup {p}
  BY DEF RefuseOutdated, Lose
<1>3. Newest' = Newest
  BY <1>2 DEF Newest
<1>4. WasSent' /\ Settled'
  BY <1>1, <1>2, <1>3 DEF RecvInv, WasSent, Settled
<1>5. Isolated'
  <2> SUFFICES ASSUME NEW q \in missed \cup {p}, q > Newest, q + 1 \in missed \cup {p}
               PROVE  FALSE
    BY <1>2, <1>3 DEF Isolated
  <2>0. q \in Int /\ p \in Int /\ (q + 1 = p => q = p - 1) /\ q + 1 # q
    BY <1>1
  <2>1. CASE RefuseOutdated(p)
    <3>1. p <= Newest - RecvPacketBufferSize
      BY <2>1, Comparisons DEF RefuseOutdated
    <3>2. q # p /\ q + 1 # p
      BY <1>1, <2>0, <3>1, Sizes
    <3> QED
      BY <3>2 DEF RecvInv, Isolated
  <2>2. CASE Lose(p)
    <3>1. p - 1 \notin missed /\ p + 1 \notin missed
      BY <2>2 DEF Lose
    <3>2. q = p => q + 1 \in missed
      BY <2>0
    <3>3. q # p => q \in missed /\ q + 1 # p
      BY <2>0, <3>1
    <3> QED
      BY <3>1, <3>2, <3>3 DEF RecvInv, Isolated
  <2> QED
    BY <2>1, <2>2
<1> QED
  BY <1>2, <1>3, <1>4, <1>5, Kept

-----------------------------------------------------------------------------
(* A packet arrives.                                                       *)

\* What Insert makes of latest, seen from the packets' numbers.
LEMMA LatestAfter ==
    ASSUME RecvInv, NEW p \in InFlight, Receive(p)
    PROVE  /\ p > Newest - RecvPacketBufferSize
           /\ buf'.latest = (IF p > Newest THEN p + 1 ELSE Newest + 1) % M
<1> DEFINE c == RecvPacketBufferSize
<1>1. /\ Newest \in Int /\ p \in 0 .. (sent - 1) /\ c \in Int
      /\ Plus(p % M, 1) = (p + 1) % M
      /\ seqGreaterThan(Plus(p % M, 1), buf.latest) <=> p > Newest
  BY NewestInReach, Comparisons, Sizes
<1>2. p > Newest - c
  BY <1>1, Comparisons DEF Receive
<1>3. buf.latest = (Newest + 1) % M
  BY DEF RecvInv, LatestIsNewest
<1>4. buf'.latest = IF p > Newest THEN (p + 1) % M ELSE (Newest + 1) % M
  BY <1>1, <1>3 DEF Receive, Insert
<1> QED
  BY <1>2, <1>4

\* What Insert does with a packet, seen from the packets' numbers.
LEMMA Inserted ==
    ASSUME RecvInv, NEW p \in InFlight, Receive(p)
    PROVE  LET s == p % RecvPacketBufferSize
               cleared == RemoveRange(RecvPacketBufferSize, buf.entries, (Newest + 1) % M, p % M)
           IN  /\ s \in Slots(RecvPacketBufferSize)
               /\ s = Slot(RecvPacketBufferSize, p % M)
               /\ p > Newest - RecvPacketBufferSize
               /\ buf'.latest = (IF p > Newest THEN p + 1 ELSE Newest + 1) % M
               /\ buf'.entries[s] = p % M
               /\ \A k \in Slots(RecvPacketBufferSize) \ {s} :
                     /\ buf'.entries[k] = IF p > Newest THEN cleared[k] ELSE buf.entries[k]
                     /\ cleared[k] \in {buf.entries[k], Empty}
<1> DEFINE c == RecvPacketBufferSize
           s == p % c
           cleared == RemoveRange(c, buf.entries, (Newest + 1) % M, p % M)
           entries == IF p > Newest THEN cleared ELSE buf.entries
<1>1. /\ p \in Int /\ p % M \in SeqNum /\ Newest \in Int
      /\ Plus(p % M, 1) = (p + 1) % M
      /\ seqGreaterThan(Plus(p % M, 1), buf.latest) <=> p > Newest
      /\ p > Newest - c
  <2>1. ~IsOutdated(c, buf, p % M)
    BY DEF Receive
  <2>2. Newest \in Int /\ p \in 0 .. (sent - 1) /\ c \in Int
    BY NewestInReach, Comparisons, Sizes
  <2> QED
    BY <2>1, <2>2, Comparisons
<1>2. buf.latest = (Newest + 1) % M /\ buf.entries \in [Slots(c) -> SeqNum \cup {Empty}]
  BY DEF RecvInv, LatestIsNewest, TypeOK, SequenceBuffers
<1>3. s \in Slots(c) /\ Slot(c, p % M) = s
  <2>1. Slot(c, p % M) = s
    BY <1>1, Sizes, RingAssumption, SlotOfPacket
  <2>2. Slot(c, p % M) \in Slots(c)
    BY <1>1, Sizes, SlotInRange
  <2> QED
    BY <2>1, <2>2
<1>4. \A k \in Slots(c) : cleared[k] \in {buf.entries[k], Empty}
  BY DEF RemoveRange
<1>5. cleared = [k \in Slots(c) |-> cleared[k]]
  BY DEF RemoveRange
<1> HIDE DEF cleared
<1>6. entries = [k \in Slots(c) |-> entries[k]]
  BY <1>2, <1>5
<1>7. buf' = [latest  |-> IF p > Newest THEN (p + 1) % M ELSE (Newest + 1) % M,
              entries |-> [entries EXCEPT ![s] = p % M]]
  BY <1>1, <1>2, <1>3, Zenon DEF Receive, Insert, cleared
<1> HIDE DEF entries
<1>8. buf'.entries = [entries EXCEPT ![s] = p % M]
  BY <1>7
<1>9. /\ buf'.entries[s] = p % M
      /\ \A k \in Slots(c) \ {s} : buf'.entries[k] = entries[k]
  BY <1>3, <1>6, <1>8
<1>10. \A k \in Slots(c) \ {s} :
           buf'.entries[k] = IF p > Newest THEN cleared[k] ELSE buf.entries[k]
  BY <1>9 DEF entries
<1>11. buf'.latest = (IF p > Newest THEN p + 1 ELSE Newest + 1) % M
  BY <1>7
<1> HIDE DEF s
<1> QED
  BY <1>1, <1>3, <1>4, <1>9, <1>10, <1>11, Zenon DEF cleared, s

\* The newest packet after one more.
LEMMA NewestAfter ==
    ASSUME RecvInv, NEW p \in InFlight, Receive(p)
    PROVE  /\ Newest' = IF p > Newest THEN p ELSE Newest
           /\ HasNewest'
           /\ got' # {}
<1>1. got' = got \cup {p}
  BY DEF Receive
<1>2. /\ p \in 0 .. (sent - 1) /\ sent \in Nat /\ Newest \in Int /\ got \in SUBSET Int
      /\ (got = {} <=> Newest = -1) /\ Newest >= -1
  BY NewestInReach, Comparisons
<1> DEFINE m == IF p > Newest THEN p ELSE Newest
<1>3. m \in got' /\ \A q \in got' : q <= m
  BY <1>1, <1>2 DEF RecvInv, HasNewest
<1>4. got' \in SUBSET Int /\ got' # {}
  BY <1>1, <1>2
<1> HIDE DEF m
<1>5. (CHOOSE q \in got' : \A r \in got' : r <= q) = m
  BY <1>3, <1>4, Greatest
<1>6. Newest' = m
  BY <1>4, <1>5 DEF Newest
<1> QED
  BY <1>3, <1>4, <1>6 DEF m, HasNewest

LEMMA ReceiveKeepsFresh ==
    ASSUME RecvInv, Fresh, Lag <= RecvPacketBufferSize, NEW p \in InFlight, Receive(p)
    PROVE  Fresh'
<1> DEFINE c == RecvPacketBufferSize
           s == p % c
           cleared == RemoveRange(c, buf.entries, (Newest + 1) % M, p % M)
<1>1. /\ got' = got \cup {p}
      /\ p \in 0 .. (sent - 1) /\ sent \in Nat /\ Newest \in Int /\ got \in SUBSET Int
      /\ Newest >= -1 /\ p - Newest <= Lag + 1
  BY NewestInReach, Comparisons DEF Receive
<1>2. /\ Newest' = IF p > Newest THEN p ELSE Newest
  BY NewestAfter
<1>3. /\ s \in Slots(c) /\ p > Newest - c
      /\ buf'.entries[s] = p % M
      /\ \A k \in Slots(c) \ {s} :
            /\ buf'.entries[k] = IF p > Newest THEN cleared[k] ELSE buf.entries[k]
            /\ cleared[k] \in {buf.entries[k], Empty}
  BY Inserted, Zenon
<1>4. c \in Nat \ {0} /\ Lag <= c /\ Lag \in Nat /\ c < M /\ M \in Nat
  BY Sizes
<1>5. \A n \in Int : n % M = s => n % c = s
  <2> TAKE n \in Int
  <2> HAVE n % M = s
  <2>1. Slot(c, n % M) = n % c
    BY <1>4, Sizes, RingAssumption, SlotOfPacket
  <2>2. s \in 0 .. (c - 1)
    BY <1>3 DEF Slots
  <2>3. s % c = s
    <3> HIDE DEF s
    <3> QED
      BY <1>4, <2>2, Z3
  <2> QED
    BY <2>1, <2>3 DEF Slot
<1>6. Holds(s, p)'
  <2>1. \A n \in (p + 1) .. Newest' : n % M # s
    <3> SUFFICES ASSUME NEW n \in (p + 1) .. Newest', n % M = s PROVE FALSE
      OBVIOUS
    <3>1. n \in Int /\ p \in Int /\ n > p /\ n <= Newest /\ n - p < c /\ p - n < c
      BY <1>1, <1>2, <1>3, <1>4
    <3>2. n % c = p % c
      BY <1>5, <3>1
    <3>3. n = p
      BY <1>4, <3>1, <3>2, RingAssumption, ApartBy
    <3> QED
      BY <3>1, <3>3
  <2>2. buf'.entries[s] = p % M /\ p \in got'
    BY <1>1, <1>3
  <2> QED
    BY <2>1, <2>2 DEF Holds
<1>7. ASSUME NEW k \in Slots(c), buf'.entries[k] # Empty
      PROVE  \E q \in 0 .. Newest' : Holds(k, q)'
  <2>1. CASE k = s
    <3>1. p \in 0 .. Newest'
      BY <1>1, <1>2
    <3> QED
      BY <1>6, <2>1, <3>1, Zenon
  <2>2. CASE k # s
    <3>1. buf'.entries[k] = buf.entries[k] /\ (p > Newest => cleared[k] # Empty)
      BY <1>3, <1>7, <2>2
    <3>2. PICK q \in 0 .. Newest : Holds(k, q)
      BY <1>7, <3>1 DEF Fresh
    <3>3. q \in 0 .. Newest'
      BY <1>1, <1>2, <3>2
    <3>4. q > Newest' - c => q \in got'
      <4>1. q > Newest' - c => q > Newest - c
        BY <1>1, <1>2, <1>4
      <4> QED
        BY <1>1, <3>2, <4>1 DEF Holds
    <3>5. \A n \in (q + 1) .. Newest' : n % M # k
      <4> SUFFICES ASSUME NEW n \in (q + 1) .. Newest', n % M = k PROVE FALSE
        OBVIOUS
      <4>1. CASE n <= Newest
        <5>1. n \in (q + 1) .. Newest
          BY <1>1, <3>2, <4>1
        <5> QED
          BY <3>2, <5>1 DEF Holds
      <4>2. CASE n > Newest /\ n < p
        <5>1. n \in Int /\ p \in Int /\ p - Newest <= c + 1 /\ p > Newest
          BY <1>1, <1>4, <4>2
        <5>2. cleared[k] = Empty
          BY <1>1, <4>2, <5>1, PassedOver
        <5> QED
          BY <3>1, <5>1, <5>2
      <4>3. CASE n = p
        <5>1. k = Slot(c, k)
          <6>1. k \in 0 .. (c - 1)
            BY DEF Slots
          <6> QED
            BY <1>4, <6>1, Z3 DEF Slot
        <5>2. Slot(c, p % M) = s
          BY <1>1, <1>4, Sizes, RingAssumption, SlotOfPacket
        <5> QED
          BY <2>2, <4>3, <5>1, <5>2
      <4> QED
        BY <1>1, <1>2, <4>1, <4>2, <4>3
    <3>6. Holds(k, q)'
      BY <3>1, <3>2, <3>4, <3>5 DEF Holds
    <3> QED
      BY <3>3, <3>6, Zenon
  <2> QED
    BY <2>1, <2>2
<1> QED
  BY <1>7, Zenon DEF Fresh

LEMMA ReceiveKeeps == ASSUME RecvInv, TypeOK', NEW p \in InFlight, Receive(p) PROVE RecvInv'
<1> DEFINE c == RecvPacketBufferSize
<1>1. /\ got' = got \cup {p} /\ missed' = missed /\ sent' = sent
      /\ p \in 0 .. (sent - 1) /\ sent \in Nat /\ Newest \in Int
      /\ got \in SUBSET Int /\ missed \in SUBSET Int
      /\ Newest >= -1
  BY NewestInReach, Comparisons DEF Receive
<1>2. Newest' = (IF p > Newest THEN p ELSE Newest) /\ HasNewest'
  BY NewestAfter
<1>3. /\ p > Newest - c
      /\ buf'.latest = (IF p > Newest THEN p + 1 ELSE Newest + 1) % M
  BY LatestAfter
<1>4. c \in Nat \ {0}
  BY Sizes
<1>5. WasSent' /\ Settled' /\ Isolated'
  <2>1. WasSent'
    BY <1>1 DEF RecvInv, WasSent
  <2>2. Settled'
    BY <1>1, <1>2, <1>4 DEF RecvInv, Settled
  <2>3. Isolated'
    BY <1>1, <1>2 DEF RecvInv, Isolated
  <2> QED
    BY <2>1, <2>2, <2>3
<1>6. LatestIsNewest'
  BY <1>1, <1>2, <1>3 DEF LatestIsNewest
<1> QED
  BY <1>2, <1>5, <1>6 DEF RecvInv

\* No packet in reach but the newest has the newest one's slot.
LEMMA ReceiveKeepsHeld ==
    ASSUME RecvInv, NewestHeld, NEW p \in InFlight, Receive(p)
    PROVE  NewestHeld'
<1> DEFINE c == RecvPacketBufferSize
           s == p % c
<1>1. /\ p \in 0 .. (sent - 1) /\ sent \in Nat /\ Newest \in Int /\ Newest >= -1
  BY NewestInReach, Comparisons DEF Receive
<1>2. Newest' = (IF p > Newest THEN p ELSE Newest) /\ got' # {}
  BY NewestAfter
<1>3. /\ s \in Slots(c) /\ p > Newest - c
      /\ buf'.entries[s] = p % M
      /\ \A k \in Slots(c) \ {s} : p <= Newest => buf'.entries[k] = buf.entries[k]
  <2>1. p > Newest <=> ~(p <= Newest)
    BY <1>1
  <2> QED
    BY <2>1, Inserted, Zenon
<1>4. c \in Nat \ {0}
  BY Sizes
<1>5. NewestHeld'
  <2>1. CASE p > Newest
    <3>1. Slot(c, p % M) = s
      BY Inserted, Zenon
    <3> QED
      BY <1>2, <1>3, <2>1, <3>1 DEF NewestHeld
  <2>2. CASE p = Newest
    <3>1. Slot(c, p % M) = s
      BY Inserted, Zenon
    <3> QED
      BY <1>1, <1>2, <1>3, <2>2, <3>1 DEF NewestHeld
  <2>3. CASE p < Newest
    <3> DEFINE t == Slot(c, Newest % M)
    <3>1. t = Newest % c /\ t \in Slots(c)
      <4>1. Newest % M \in SeqNum
        BY <1>1, Reduced
      <4> QED
        BY <1>1, <1>4, <4>1, Sizes, RingAssumption, SlotOfPacket, SlotInRange
    <3>2. Newest % c # p % c
      <4>1. p \in Int /\ Newest - p < c /\ p - Newest < c /\ p # Newest
        BY <1>1, <1>3, <1>4, <2>3
      <4> QED
        BY <1>1, <1>4, <4>1, RingAssumption, ApartBy
    <3>3. buf'.entries[t] = buf.entries[t]
      BY <1>1, <1>3, <2>3, <3>1, <3>2
    <3>4. got # {} /\ Newest' = Newest
      BY <1>1, <1>2, <2>3, NewestInReach
    <3> QED
      BY <3>3, <3>4 DEF NewestHeld
  <2> QED
    BY <1>1, <2>1, <2>2, <2>3
<1> QED
  BY <1>5

LEMMA InitRecv == RecvInit => RecvInv /\ NewestHeld /\ Fresh
<1> SUFFICES ASSUME RecvInit PROVE RecvInv /\ NewestHeld /\ Fresh
  OBVIOUS
<1>1. Newest = -1
  BY DEF RecvInit, Newest
<1>2. HasNewest /\ WasSent /\ Settled /\ Isolated /\ NewestHeld
  BY DEF RecvInit, HasNewest, WasSent, Settled, Isolated, NewestHeld
<1>3. LatestIsNewest
  <2>1. 0 % M = 0
    BY MAssumption, Z3
  <2> QED
    BY <1>1, <2>1 DEF RecvInit, LatestIsNewest, NewSequenceBuffer
<1>4. Fresh
  BY DEF RecvInit, Fresh, NewSequenceBuffer
<1>5. TypeOK
  BY RecvAssumption, MAssumption
     DEF RecvInit, TypeOK, NewSequenceBuffer, SequenceBuffers, SeqNum
<1> QED
  BY <1>2, <1>3, <1>4, <1>5 DEF RecvInv

LEMMA RecvStep ==
    ASSUME RecvInv, [RecvNext]_vars
    PROVE  /\ RecvInv'
           /\ NewestHeld => NewestHeld'
           /\ Lag <= RecvPacketBufferSize /\ Fresh => Fresh'
<1>1. TypeOK'
  BY RecvTypeStep DEF RecvInv
<1>2. CASE PeerSends
  BY <1>1, <1>2, PeerSendsKeeps
<1>3. ASSUME NEW p \in InFlight, Receive(p)
      PROVE  /\ RecvInv'
             /\ NewestHeld => NewestHeld'
             /\ Lag <= RecvPacketBufferSize /\ Fresh => Fresh'
  BY <1>1, <1>3, ReceiveKeeps, ReceiveKeepsHeld, ReceiveKeepsFresh
<1>4. ASSUME NEW p \in InFlight, RefuseOutdated(p) \/ Lose(p)
      PROVE  RecvInv' /\ (NewestHeld => NewestHeld') /\ (Fresh => Fresh')
  BY <1>1, <1>4, MissKeeps
<1>5. CASE UNCHANGED vars
  <2>1. buf' = buf /\ got' = got /\ sent' = sent /\ missed' = missed
    BY <1>5 DEF vars
  <2>2. Newest' = Newest
    BY <2>1 DEF Newest
  <2>3. WasSent' /\ Settled' /\ Isolated'
    BY <2>1, <2>2 DEF RecvInv, WasSent, Settled, Isolated
  <2> QED
    BY <1>1, <2>1, <2>2, <2>3, Kept
<1> QED
  BY <1>2, <1>3, <1>4, <1>5 DEF RecvNext

LEMMA RecvInvariance == Spec => []RecvInv
BY InitRecv, RecvStep, PTL DEF Spec

\* The 16-bit latest is the successor of the newest packet received, whatever is
\* late, repeated, lost or refused.
THEOREM LatestStaysNewest == Spec => []LatestIsNewest
<1>1. RecvInv => LatestIsNewest
  BY DEF RecvInv
<1> QED
  BY <1>1, RecvInvariance, PTL

\* The number that NextACK begins at and the numbers of its bits.
LEMMA AckedNumbers ==
    ASSUME RecvInv
    PROVE  /\ Header.ack = Newest % M
           /\ Header.acks = {i \in 0 .. (AckBits - 1) :
                  buf.entries[Slot(RecvPacketBufferSize, (Newest - i) % M)] = (Newest - i) % M}
<1>1. Newest \in Int
  BY NewestInReach
<1>2. buf.latest = (Newest + 1) % M
  BY DEF RecvInv, LatestIsNewest
<1>3. Minus(buf.latest, 1) = Newest % M
  <2>1. Newest + 1 \in Int /\ (Newest + 1) - 1 = Newest
    BY <1>1
  <2>2. Minus((Newest + 1) % M, 1) = ((Newest + 1) - 1) % M
    BY <2>1, OnNumbers
  <2> QED
    BY <1>2, <2>1, <2>2
<1>4. \A i \in 0 .. (AckBits - 1) : Minus(Newest % M, i) = (Newest - i) % M
  BY <1>1, OnNumbers
<1>5. /\ Header.ack = Minus(buf.latest, 1)
      /\ Header.acks = {i \in 0 .. (AckBits - 1) :
             Find(RecvPacketBufferSize, buf, Minus(Minus(buf.latest, 1), i))}
  BY DEF Header, NextACK
<1> QED
  BY <1>3, <1>4, <1>5, Zenon DEF Find

\* The newest packet is acknowledged in every header.
THEOREM NewestStaysAcked == Spec => []NewestIsAcked
<1>1. ASSUME RecvInv, NewestHeld PROVE NewestIsAcked
  <2> SUFFICES ASSUME got # {} PROVE 0 \in Header.acks
    BY DEF NewestIsAcked
  <2>1. 0 \in 0 .. (AckBits - 1)
    BY CodecAssumption DEF AckBits
  <2>2. Newest - 0 = Newest
    BY <1>1, NewestInReach
  <2>3. buf.entries[Slot(RecvPacketBufferSize, Newest % M)] = Newest % M
    BY <1>1 DEF NewestHeld
  <2> QED
    BY <1>1, <2>1, <2>2, <2>3, AckedNumbers
<1> QED
  BY <1>1, InitRecv, RecvStep, RecvInvariance, PTL DEF Spec

\* No bit of a header acknowledges a packet that was not received, though RemoveRange
\* leaves entries of earlier laps in the ring, if no packet is later than a buffer: a
\* longer step ahead would leave RemoveRange slots of its own to clear.
THEOREM AcksAreSound ==
    ASSUME Lag <= RecvPacketBufferSize
    PROVE  Spec => []AckSound
<1>1. ASSUME RecvInv, Fresh PROVE AckSound
  <2> DEFINE c == RecvPacketBufferSize
  <2> SUFFICES ASSUME NEW i \in Header.acks PROVE Newest - i \in got
    BY DEF AckSound
  <2> DEFINE x == Newest - i
             k == Slot(c, x % M)
  <2>1. i \in 0 .. (AckBits - 1) /\ buf.entries[k] = x % M
    BY <1>1, AckedNumbers
  <2>2. /\ Newest \in Int /\ AckBits \in Int /\ AckBits <= c /\ c \in Nat \ {0}
        /\ 2 * c < M /\ M \in Nat \ {0}
    BY <1>1, CodecAssumption, RingAssumption, NewestInReach, Sizes DEF AckBits
  <2>3. x \in Int /\ x > Newest - c /\ x <= Newest
    BY <2>1, <2>2
  <2> HIDE DEF x
  <2>4. x % M \in SeqNum /\ k \in Slots(c)
    BY <2>2, <2>3, Reduced, SlotInRange
  <2>5. buf.entries[k] # Empty
    BY <2>1, <2>4, SmallNumbers
  <2>6. PICK q \in 0 .. Newest : Holds(k, q)
    BY <1>1, <2>4, <2>5 DEF Fresh
  <2>7. q % M = x % M /\ (q > Newest - c => q \in got) /\ \A n \in (q + 1) .. Newest : n % M # k
    BY <2>1, <2>6 DEF Holds
  <2>8. q > Newest - M
    \* Otherwise the slot's own number has been passed since q.
    <3> SUFFICES ASSUME q <= Newest - M PROVE FALSE
      BY <2>2, <2>6
    <3> DEFINE d == Minus(k, (q + 1) % M)
               n == (q + 1) + d
    <3>1. k \in SeqNum /\ (q + 1) % M \in SeqNum /\ q + 1 \in Int
      <4>1. q + 1 \in Int
        BY <2>6
      <4>2. k \in SeqNum
        BY <2>2, <2>4 DEF Slots, SeqNum
      <4> QED
        BY <4>1, <4>2, Reduced
    <3>2. d \in 0 .. (M - 1)
      BY <3>1, SeqNumArithmetic, Zenon DEF SeqNum
    <3>3. n % M = k
      <4> DEFINE r == (q + 1) % M
      <4>1. n % M = (r + d) % M
        <5> HIDE DEF d
        <5> QED
          BY <3>1, <3>2, Reduced
      <4>2. d = IF k >= r THEN k - r ELSE k - r + M
        BY <3>1, SeqNumArithmetic, Zenon
      <4>3. r \in 0 .. (M - 1) /\ k \in 0 .. (M - 1)
        BY <3>1 DEF SeqNum
      <4> HIDE DEF d, n, r, k
      <4>4. (r + d) % M = IF r + d < M THEN r + d ELSE r + d - M
        BY <3>2, <4>3, WrapsOnce
      <4> QED
        BY <2>2, <3>2, <4>1, <4>2, <4>3, <4>4
    <3> HIDE DEF d
    <3>4. n \in (q + 1) .. Newest
      BY <2>2, <2>6, <3>2
    <3> QED
      BY <2>7, <3>3, <3>4
  <2>9. q = x
    <3>1. q \in Int /\ q - x < M /\ x - q < M
      BY <2>2, <2>3, <2>6, <2>8
    <3> QED
      BY <2>2, <2>3, <2>7, <3>1, RingAssumption, ApartBy
  <2> QED
    BY <2>3, <2>7, <2>9 DEF x
<1> QED
  BY <1>1, InitRecv, RecvStep, RecvInvariance, PTL DEF Spec
=============================================================================
