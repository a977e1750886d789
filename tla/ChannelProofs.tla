--------------------------- MODULE ChannelProofs ---------------------------
(***************************************************************************)
(* Channels, for any number of sequence numbers and any sizes that satisfy *)
(* the assumptions of modules SequenceNumbers, Endpoint and Channel: what  *)
(* a channel keeps to whatever packets it is given (the window, the order  *)
(* in which messages are numbered), and what two channels that exchange    *)
(* their packets over a network agree on.                                  *)
(***************************************************************************)
EXTENDS ChannelPair, EndpointProofs, SequenceTheorems

-----------------------------------------------------------------------------
(* The sizes, and the distance between two sequence numbers.               *)

\* The configuration, in the form the proofs below need it.
LEMMA Sizes ==
    /\ M \in Nat
    /\ SentPacketBufferSize \in Nat \ {0}
    /\ RecvPacketBufferSize \in 1 .. SentPacketBufferSize
    /\ 4 * SentPacketBufferSize <= M
    /\ SentPacketBufferSize < HalfMaxUint16
    /\ RecvPacketBufferSize < HalfMaxUint16
    /\ SentPacketBufferSize < M
    /\ M % SentPacketBufferSize = 0
    /\ {0, 1, SentPacketBufferSize, RecvPacketBufferSize} \subseteq SeqNum
  BY MAssumption, EndpointAssumption, ChannelAssumption DEF SeqNum

\* Numbering one more packet takes the next number one further.
LEMMA OneFurther ==
    ASSUME NEW q \in SeqNum, NEW o \in SeqNum
    PROVE  Minus(Plus(q, 1), o) = IF Minus(q, o) = M - 1 THEN 0 ELSE Minus(q, o) + 1
<1> DEFINE r == Plus(q, 1)
           d == Minus(q, o)
           f == Minus(r, o)
<1>1. 1 \in SeqNum
  BY Sizes
<1>2. r \in SeqNum /\ r = IF q + 1 < M THEN q + 1 ELSE (q + 1) - M
  BY <1>1, SeqNumArithmetic, Zenon
<1>3. d = IF q >= o THEN q - o ELSE q - o + M
  BY SeqNumArithmetic, Zenon
<1> HIDE DEF r, d
<1>4. f = IF r >= o THEN r - o ELSE r - o + M
  BY <1>2, SeqNumArithmetic, Zenon
<1> HIDE DEF f
<1>5. f = IF d = M - 1 THEN 0 ELSE d + 1
  BY <1>2, <1>3, <1>4, Sizes, SMT DEF SeqNum
<1> QED
  BY <1>5 DEF f, d, r

\* Moving the oldest number on brings the next number closer.
LEMMA Closer ==
    ASSUME NEW q \in SeqNum, NEW o \in SeqNum, NEW k \in SeqNum
    PROVE  /\ Plus(o, k) \in SeqNum
           /\ Minus(q, Plus(o, k)) = IF Minus(q, o) >= k THEN Minus(q, o) - k
                                                         ELSE Minus(q, o) - k + M
<1> DEFINE r == Plus(o, k)
           d == Minus(q, o)
           f == Minus(q, r)
<1>1. r \in SeqNum /\ r = IF o + k < M THEN o + k ELSE (o + k) - M
  BY SeqNumArithmetic, Zenon
<1>2. d = IF q >= o THEN q - o ELSE q - o + M
  BY SeqNumArithmetic, Zenon
<1> HIDE DEF r, d
<1>3. f = IF q >= r THEN q - r ELSE q - r + M
  BY <1>1, SeqNumArithmetic, Zenon
<1> HIDE DEF f
<1>4. f = IF d >= k THEN d - k ELSE d - k + M
  BY <1>1, <1>2, <1>3, Sizes, SMT DEF SeqNum
<1> QED
  BY <1>1, <1>4 DEF f, d, r

\* The distance says which number it is.
LEMMA Distance ==
    ASSUME NEW q \in SeqNum, NEW o \in SeqNum, NEW k \in SeqNum
    PROVE  /\ Minus(q, o) \in SeqNum
           /\ Plus(o, k) = q <=> Minus(q, o) = k
           /\ q = o <=> Minus(q, o) = 0
<1> DEFINE r == Plus(o, k)
           d == Minus(q, o)
<1>1. r \in SeqNum /\ r = IF o + k < M THEN o + k ELSE (o + k) - M
  BY SeqNumArithmetic, Zenon
<1>2. d \in SeqNum /\ d = IF q >= o THEN q - o ELSE q - o + M
  BY SeqNumArithmetic, Zenon
<1> HIDE DEF r, d
<1>3. (r = q <=> d = k) /\ (q = o <=> d = 0)
  BY <1>1, <1>2, Sizes, SMT DEF SeqNum
<1> QED
  BY <1>2, <1>3 DEF d, r

\* A later number is another number.
LEMMA MovesOn ==
    ASSUME NEW o \in SeqNum, NEW k \in SeqNum, k # 0
    PROVE  Plus(o, k) # o
<1> DEFINE r == Plus(o, k)
<1>1. r = IF o + k < M THEN o + k ELSE (o + k) - M
  BY SeqNumArithmetic, Zenon
<1> HIDE DEF r
<1>2. r # o
  BY <1>1, Sizes, SMT DEF SeqNum
<1> QED
  BY <1>2 DEF r

-----------------------------------------------------------------------------
(* Types.                                                                  *)

\* What the window keeps of a message is a packet with its number and payload,
\* which confirms only what n has received.
LEMMA KeptPacket ==
    ASSUME EndpointTypeOK, NEW n \in Node, NEW m \in Message, ~Oversize(m)
    PROVE  LET out == NextTransmitted(n, m)
               p == out[Len(out)]
           IN  /\ p \in Packets /\ p.seq = seq[n] /\ p.msg = m
               /\ \A N : ReceivedIn(n, N) => Confirms(p, N)
<1> DEFINE out == NextTransmitted(n, m)
           p == out[Len(out)]
<1>1. ASSUME NEW N, ReceivedIn(n, N)
      PROVE  p \in Packets /\ p.seq = seq[n] /\ p.msg = m /\ Confirms(p, N)
  <2>1. Len(out) \in 1 .. Len(out)
    BY <1>1, NextTransmittedPackets
  <2> QED
    BY <1>1, <2>1, NextTransmittedPackets
<1>2. ReceivedIn(n, SeqNum)
  BY DEF ReceivedIn, EndpointTypeOK, SequenceBuffers
<1> QED
  BY <1>1, <1>2

\* A BufferedPacket that was not written yet.
LEMMA BlankWith ==
    ASSUME NEW x \in Packets
    PROVE  [Blank EXCEPT !.buf = x] \in
               [written : BOOLEAN, age : 0 .. ResendAfter, buf : Packets]
<1> DEFINE b == CompactPacket(0, [ack |-> 0, acks |-> {}], Nil)
<1>1. Blank = [written |-> FALSE, age |-> 0, buf |-> b]
  BY DEF Blank
<1> HIDE DEF b
<1>2. [Blank EXCEPT !.buf = x] = [written |-> FALSE, age |-> 0, buf |-> x]
  BY <1>1
<1>3. 0 \in 0 .. ResendAfter
  BY ChannelAssumption
<1> QED
  BY <1>2, <1>3

\* WritePacket keeps the types of what it changes.
LEMMA WritePacketType ==
    ASSUME TypeOK, NEW n \in Node, NEW m \in Message, WritePacket(n, m)
    PROVE  /\ seq' \in [Node -> SeqNum]
           /\ sent' \in [Node -> SequenceBuffers(SentPacketBufferSize)]
           /\ acked' \in [Node -> [Slots(SentPacketBufferSize) -> BOOLEAN]]
           /\ window' \in [Node -> SequenceBuffers(SentPacketBufferSize)]
           /\ packet' \in [Node -> [Slots(SentPacketBufferSize) ->
                 [written : BOOLEAN, age : 0 .. ResendAfter, buf : Packets]]]
<1> DEFINE S == SentPacketBufferSize
           out == NextTransmitted(n, m)
<1>1. EndpointTypeOK /\ NumberPacket(n, m) /\ seq[n] \in SeqNum
  BY DEF WritePacket, TypeOK, EndpointTypeOK
<1>2. CASE Oversize(m)
  BY <1>1, <1>2, NumberPacketType DEF WritePacket, TypeOK
<1>3. CASE ~Oversize(m)
  <2>1. Slot(S, seq[n]) \in Slots(S)
    BY <1>1, Sizes, SlotInRange
  <2>2. Insert(S, window[n], seq[n]) \in SequenceBuffers(S)
    BY <1>1, Sizes, InsertType DEF TypeOK
  <2>3. [Blank EXCEPT !.buf = out[Len(out)]] \in
            [written : BOOLEAN, age : 0 .. ResendAfter, buf : Packets]
    BY <1>1, <1>3, KeptPacket, BlankWith
  <2>4. /\ window' = [window EXCEPT ![n] = Insert(S, @, seq[n])]
        /\ packet' = [packet EXCEPT ![n][Slot(S, seq[n])] =
                         [Blank EXCEPT !.buf = out[Len(out)]]]
    BY <1>3 DEF WritePacket, WindowSlot
  <2> HIDE DEF out
  <2> QED
    BY <1>1, <2>1, <2>2, <2>3, <2>4, NumberPacketType DEF TypeOK
<1> QED
  BY <1>2, <1>3

\* The initial state is well typed.
LEMMA InitType == ChannelInit => TypeOK
<1> SUFFICES ASSUME ChannelInit PROVE TypeOK
  OBVIOUS
<1>1. 0 \in SeqNum /\ 0 \in 0 .. ResendAfter /\ 0 \in 0 .. RecvPacketBufferSize
  BY Sizes, ChannelAssumption
<1>2. ASSUME NEW cap PROVE NewSequenceBuffer(cap) \in SequenceBuffers(cap)
  BY <1>1 DEF NewSequenceBuffer, SequenceBuffers
<1>4. Blank \in [written : BOOLEAN, age : 0 .. ResendAfter, buf : Packets]
  <2>1. CompactPacket(0, [ack |-> 0, acks |-> {}], Nil) \in Packets
    BY <1>1, EndpointAssumption DEF CompactPacket, Packets
  <2> QED
    BY <1>1, <2>1 DEF Blank
<1>5. EndpointTypeOK
  BY EndpointInitType DEF ChannelInit
<1>6. window \in [Node -> SequenceBuffers(SentPacketBufferSize)]
  BY <1>2 DEF ChannelInit
<1>7. packet \in [Node -> [Slots(SentPacketBufferSize) ->
         [written : BOOLEAN, age : 0 .. ResendAfter, buf : Packets]]]
  BY <1>4 DEF ChannelInit
<1>8. /\ oldestUnacked \in [Node -> SeqNum]
      /\ lastSent \in [Node -> 0 .. ResendAfter]
      /\ readQueue \in [Node -> Seq(Packets)]
      /\ outQueue \in [Node -> Seq(Packets)]
      /\ queue \in [Node -> Seq(Message)] /\ writeQueue \in [Node -> Seq(Message)]
      /\ accepted \in [Node -> Seq(Message)] /\ numbered \in [Node -> Seq(Message)]
      /\ pc \in [Node -> {"idle", "reading", "acking", "draining", "writing", "resending"}]
      /\ room \in [Node -> 0 .. RecvPacketBufferSize]
  BY <1>1 DEF ChannelInit
<1>9. pending \in [Node -> [ack : SeqNum, acks : SUBSET (0 .. (AckBits - 1))]]
  BY <1>1 DEF ChannelInit
<1> QED
  BY <1>5, <1>6, <1>7, <1>8, <1>9 DEF TypeOK

\* Ages do not exceed ResendAfter.
LEMMA OlderType ==
    ASSUME NEW a \in 0 .. ResendAfter, NEW dt \in 0 .. ResendAfter
    PROVE  Older(a, dt) \in 0 .. ResendAfter /\ Older(a, dt) >= a
  BY ChannelAssumption DEF Older

\* The steps of channels that are given any packets at all, which those of
\* Channel and those of ChannelPair are among.
AnyNext ==
    \E n \in Node :
        \/ UpdateNext(n)
        \/ \E dt \in 0 .. ResendAfter : Update(n, dt)
        \/ \E p \in Packets : Read(n, p)
        \/ \E m \in Message : Write(n, m)
        \/ Out(n)

LEMMA Generalises == ChannelNext => AnyNext
  BY ChannelAssumption DEF ChannelNext, AnyNext

\* Every step keeps the types.
LEMMA NextType == TypeOK /\ [AnyNext]_vars => TypeOK'
<1> SUFFICES ASSUME TypeOK, [AnyNext]_vars PROVE TypeOK'
  OBVIOUS
<1> USE DEF TypeOK, EndpointTypeOK, endpointVars
<1>1. CASE UNCHANGED vars
  BY <1>1 DEF vars, channelVars
<1>2. ASSUME NEW n \in Node, NEW p \in Packets, Read(n, p) PROVE TypeOK'
  <2>1. Append(readQueue[n], p) \in Seq(Packets)
    OBVIOUS
  <2>2. readQueue' \in [Node -> Seq(Packets)]
    BY <1>2, <2>1 DEF Read
  <2> QED
    BY <1>2, <2>2 DEF Read
<1>3. ASSUME NEW n \in Node, NEW m \in Message, Write(n, m) PROVE TypeOK'
  <2>1. Append(writeQueue[n], m) \in Seq(Message) /\ Append(accepted[n], m) \in Seq(Message)
    OBVIOUS
  <2>2. writeQueue' \in [Node -> Seq(Message)] /\ accepted' \in [Node -> Seq(Message)]
    BY <1>3, <2>1 DEF Write
  <2> QED
    BY <1>3, <2>2 DEF Write
<1>4. ASSUME NEW n \in Node, Out(n) PROVE TypeOK'
  <2>1. Tail(outQueue[n]) \in Seq(Packets)
    BY <1>4 DEF Out
  <2>2. outQueue' \in [Node -> Seq(Packets)]
    BY <1>4, <2>1 DEF Out
  <2> QED
    BY <1>4, <2>2 DEF Out
<1>5. ASSUME NEW n \in Node, NEW dt \in 0 .. ResendAfter, Update(n, dt) PROVE TypeOK'
  <2>1. lastSent' \in [Node -> 0 .. ResendAfter]
    BY <1>5, OlderType DEF Update
  <2> DEFINE B == [written : BOOLEAN, age : 0 .. ResendAfter, buf : Packets]
  <2>2. ASSUME NEW b \in B PROVE Aged(b, dt) \in B
    <3>1. Older(b.age, dt) \in 0 .. ResendAfter
      BY OlderType
    <3> QED
      BY <3>1 DEF Aged
  <2>3. packet' = [packet EXCEPT ![n] = [i \in Slots(SentPacketBufferSize) |->
                                             Aged(packet[n][i], dt)]]
    BY <1>5 DEF Update
  <2>4. packet' \in [Node -> [Slots(SentPacketBufferSize) -> B]]
    BY <2>2, <2>3
  <2> QED
    BY <1>5, <2>1, <2>4 DEF Update, Goto
<1>6. ASSUME NEW n \in Node, ReadNext(n) PROVE TypeOK'
  <2> DEFINE p == Head(readQueue[n])
  <2>1. p \in Packets /\ Tail(readQueue[n]) \in Seq(Packets)
    BY <1>6 DEF ReadNext
  <2>2. Reads(n, p)
    BY <1>6 DEF ReadNext, Reads
  <2> HIDE DEF p
  <2>3. /\ recv' \in [Node -> SequenceBuffers(RecvPacketBufferSize)]
        /\ assembler' \in [Node -> SequenceBuffers(FragmentReassemblyBufferSize)]
        /\ fragment' \in [Node -> [Slots(FragmentReassemblyBufferSize) -> FragmentType]]
    BY <2>1, <2>2, ReadPacketType
  <2>4. /\ Arriving(n, p).ack \in SeqNum
        /\ Arriving(n, p).acks \in SUBSET (0 .. (AckBits - 1))
    BY ZenonT(60), <2>1, ArrivingType DEF Packets
  <2>5. pc' \in [Node -> {"idle", "reading", "acking", "draining", "writing", "resending"}]
    BY ZenonT(60), <1>6 DEF ReadNext, Goto
  <2>7. \/ pending' = pending
        \/ pending' = [pending EXCEPT ![n] = [ack |-> Arriving(n, p).ack,
                                              acks |-> Arriving(n, p).acks]]
    BY <1>6 DEF ReadNext, p
  <2>8. pending' \in [Node -> [ack : SeqNum, acks : SUBSET (0 .. (AckBits - 1))]]
    <3> DEFINE h == [ack |-> Arriving(n, p).ack, acks |-> Arriving(n, p).acks]
    <3>1. h \in [ack : SeqNum, acks : SUBSET (0 .. (AckBits - 1))]
      BY <2>4
    <3> HIDE DEF h
    <3>2. pending' = pending \/ pending' = [pending EXCEPT ![n] = h]
      BY <2>7 DEF h
    <3> QED
      BY ZenonT(60), <3>1, <3>2
  <2>6. readQueue' \in [Node -> Seq(Packets)]
    BY <1>6, <2>1 DEF ReadNext
  <2> QED
    BY <1>6, <2>3, <2>5, <2>6, <2>8 DEF ReadNext, FragmentType
<1>7. ASSUME NEW n \in Node, ReadDone(n) PROVE TypeOK'
  BY <1>7 DEF ReadDone, Goto
<1>8. ASSUME NEW n \in Node, AckNext(n) PROVE TypeOK'
  <2>1. PICK i \in Unmarked(n) :
           /\ acked' = [acked EXCEPT ![n][Slot(SentPacketBufferSize,
                                               Minus(pending[n].ack, i))] = TRUE]
           /\ ACK(n, Minus(pending[n].ack, i))
           /\ pending' = [pending EXCEPT ![n].acks = {j \in @ : j > i}]
    BY <1>8 DEF AckNext
  <2> DEFINE s == Minus(pending[n].ack, i)
  <2>2. s \in SeqNum
    BY <2>1, AckIndex DEF Unmarked
  <2>3. Slot(SentPacketBufferSize, s) \in Slots(SentPacketBufferSize)
    BY <2>2, SlotInRange, Sizes
  <2>4. acked' \in [Node -> [Slots(SentPacketBufferSize) -> BOOLEAN]]
    BY <2>1, <2>3
  <2>5. pending' \in [Node -> [ack : SeqNum, acks : SUBSET (0 .. (AckBits - 1))]]
    <3> DEFINE H == [ack : SeqNum, acks : SUBSET (0 .. (AckBits - 1))]
               h == [pending[n] EXCEPT !.acks = {j \in @ : j > i}]
    <3>1. h \in H
      <4>1. pending[n] \in H
        OBVIOUS
      <4>2. {j \in pending[n].acks : j > i} \in SUBSET (0 .. (AckBits - 1))
        BY <4>1
      <4>3. h = [pending[n] EXCEPT !.acks = {j \in pending[n].acks : j > i}]
        OBVIOUS
      <4> QED
        BY <4>1, <4>2, <4>3
    <3>2. pending' = [pending EXCEPT ![n] = h]
      BY <2>1
    <3> HIDE DEF h
    <3> QED
      BY <3>1, <3>2
  <2> HIDE DEF s
  <2>6. window' \in [Node -> SequenceBuffers(SentPacketBufferSize)]
    <3>1. Remove(SentPacketBufferSize, window[n], s) \in SequenceBuffers(SentPacketBufferSize)
      BY <2>2, InsertType, Sizes
    <3>2. \/ window' = window
          \/ window' = [window EXCEPT ![n] = Remove(SentPacketBufferSize, @, s)]
      BY <2>1 DEF ACK, s
    <3> QED
      BY <3>1, <3>2
  <2>7. /\ oldestUnacked' \in [Node -> SeqNum]
        /\ room' \in [Node -> 0 .. RecvPacketBufferSize]
        /\ pc' \in [Node -> {"idle", "reading", "acking", "draining", "writing", "resending"}]
    <3>1. \/ UNCHANGED <<oldestUnacked, room, pc>>
          \/ \E k \in 1 .. RecvPacketBufferSize :
                /\ oldestUnacked' = [oldestUnacked EXCEPT ![n] = Plus(@, k)]
                /\ room' = [room EXCEPT ![n] = k]
                /\ Goto(n, "draining")
      BY <2>1 DEF ACK
    <3>2. ASSUME NEW k \in 1 .. RecvPacketBufferSize
          PROVE  Plus(oldestUnacked[n], k) \in SeqNum
      <4>1. k \in SeqNum
        BY Sizes DEF SeqNum
      <4> QED
        BY <4>1, SeqNumArithmetic
    <3>3. ASSUME NEW k \in 1 .. RecvPacketBufferSize,
                 oldestUnacked' = [oldestUnacked EXCEPT ![n] = Plus(@, k)],
                 room' = [room EXCEPT ![n] = k],
                 Goto(n, "draining")
          PROVE  <2>7!1 /\ <2>7!2 /\ <2>7!3
      <4>1. k \in 0 .. RecvPacketBufferSize
        BY Sizes
      <4> QED
        BY <3>2, <3>3, <4>1 DEF Goto
    <3> QED
      BY <3>1, <3>3
  <2> QED
    BY <1>8, <2>4, <2>5, <2>6, <2>7 DEF AckNext
<1>9. ASSUME NEW n \in Node, AckDone(n) PROVE TypeOK'
  BY <1>9, Sizes DEF AckDone, Goto
<1>10. ASSUME NEW n \in Node, DrainNext(n) PROVE TypeOK'
  <2>1. Head(queue[n]) \in Message /\ Tail(queue[n]) \in Seq(Message)
    BY <1>10 DEF DrainNext
  <2>2. WritePacket(n, Head(queue[n]))
    BY <1>10 DEF DrainNext, WriteMessage
  <2>3. numbered' \in [Node -> Seq(Message)]
    BY <1>10, <2>1 DEF DrainNext, WriteMessage
  <2>4. room' \in [Node -> 0 .. RecvPacketBufferSize]
    BY <1>10, Sizes DEF DrainNext
  <2> QED
    <3>1. queue' \in [Node -> Seq(Message)]
      BY <1>10, <2>1 DEF DrainNext
    <3> QED
      BY <1>10, <2>1, <2>2, <2>3, <2>4, <3>1, WritePacketType DEF DrainNext
<1>11. ASSUME NEW n \in Node, DrainDone(n) PROVE TypeOK'
  <2>1. 0 \in 0 .. RecvPacketBufferSize
    BY Sizes
  <2> QED
    BY <1>11, <2>1 DEF DrainDone, Goto
<1>12. ASSUME NEW n \in Node, WriteNext(n) PROVE TypeOK'
  <2> DEFINE m == Head(writeQueue[n])
  <2>1. m \in Message /\ Tail(writeQueue[n]) \in Seq(Message)
    BY <1>12 DEF WriteNext
  <2>2. CASE WindowFull(n)
    <3>1. Append(queue[n], m) \in Seq(Message)
      BY <2>1
    <3>2. /\ queue' = [queue EXCEPT ![n] = Append(queue[n], m)]
          /\ writeQueue' = [writeQueue EXCEPT ![n] = Tail(writeQueue[n])]
      BY <1>12, <2>2 DEF WriteNext
    <3>3. queue' \in [Node -> Seq(Message)] /\ writeQueue' \in [Node -> Seq(Message)]
      BY <2>1, <3>1, <3>2
    <3> QED
      BY ZenonT(60), <1>12, <2>2, <3>3 DEF WriteNext
  <2>3. CASE ~WindowFull(n)
    <3>1. WritePacket(n, m)
      BY <1>12, <2>3 DEF WriteNext, WriteMessage
    <3>2. numbered' \in [Node -> Seq(Message)]
      <4>1. Append(numbered[n], m) \in Seq(Message)
        BY <2>1
      <4>2. numbered' = numbered \/ numbered' = [numbered EXCEPT ![n] = Append(@, m)]
        BY <1>12, <2>3 DEF WriteNext, WriteMessage
      <4> QED
        BY ZenonT(60), <4>1, <4>2
    <3>3. writeQueue' \in [Node -> Seq(Message)]
      BY <1>12, <2>1 DEF WriteNext
    <3> QED
      BY <1>12, <2>1, <2>3, <3>1, <3>2, <3>3, WritePacketType DEF WriteNext
  <2> QED
    BY <2>2, <2>3
<1>13. ASSUME NEW n \in Node, WriteDone(n) PROVE TypeOK'
  BY <1>13 DEF WriteDone, Goto
<1>14. ASSUME NEW n \in Node, ResendNext(n) PROVE TypeOK'
  <2>1. PICK k \in 0 .. RecvPacketBufferSize :
           LET i == WindowSlot(Plus(oldestUnacked[n], k))
           IN  /\ packet' = [packet EXCEPT ![n][i].written = TRUE, ![n][i].age = 0]
               /\ outQueue' = [outQueue EXCEPT ![n] = Append(@, packet[n][i].buf)]
    BY <1>14 DEF ResendNext
  <2> DEFINE i == WindowSlot(Plus(oldestUnacked[n], k))
  <2>2. i \in Slots(SentPacketBufferSize)
    <3>1. k \in SeqNum
      BY Sizes DEF SeqNum
    <3>2. Plus(oldestUnacked[n], k) \in SeqNum
      BY <3>1, SeqNumArithmetic
    <3> QED
      BY <3>2, SlotInRange, Sizes DEF WindowSlot
  <2>3. /\ packet' = [packet EXCEPT ![n][i].written = TRUE, ![n][i].age = 0]
        /\ outQueue' = [outQueue EXCEPT ![n] = Append(@, packet[n][i].buf)]
    BY <2>1
  <2> HIDE DEF i
  <2>4. packet[n][i].buf \in Packets
    BY <2>2
  <2>5. outQueue' \in [Node -> Seq(Packets)]
    BY <2>3, <2>4
  <2>6. packet' \in [Node -> [Slots(SentPacketBufferSize) ->
            [written : BOOLEAN, age : 0 .. ResendAfter, buf : Packets]]]
    <3> DEFINE B == [written : BOOLEAN, age : 0 .. ResendAfter, buf : Packets]
               b == [packet[n][i] EXCEPT !.written = TRUE, !.age = 0]
    <3>1. packet' = [packet EXCEPT ![n][i] = b]
      BY <2>2, <2>3
    <3>2. 0 \in 0 .. ResendAfter
      BY ChannelAssumption
    <3>3. packet[n][i] \in B
      BY <2>2
    <3>4. b \in B
      BY <3>2, <3>3
    <3> HIDE DEF b, B
    <3>5. packet \in [Node -> [Slots(SentPacketBufferSize) -> B]]
      BY DEF B
    <3>6. packet' \in [Node -> [Slots(SentPacketBufferSize) -> B]]
      BY <2>2, <3>1, <3>4, <3>5
    <3> QED
      BY <3>6 DEF B
  <2>7. lastSent' \in [Node -> 0 .. ResendAfter]
    BY <1>14, ChannelAssumption DEF ResendNext
  <2> QED
    BY <1>14, <2>5, <2>6, <2>7 DEF ResendNext
<1>15. ASSUME NEW n \in Node, ResendDone(n) PROVE TypeOK'
  <2>1. CASE lastSent[n] >= ResendAfter
    <3>1. WritePacket(n, Nil)
      BY <1>15, <2>1 DEF ResendDone
    <3> QED
      BY ZenonT(60), <1>15, <3>1, WritePacketType, EndpointAssumption DEF ResendDone, Goto
  <2>2. CASE ~(lastSent[n] >= ResendAfter)
    BY ZenonT(60), <1>15, <2>2 DEF ResendDone, Goto
  <2> QED
    BY <2>1, <2>2
<1> QED
  BY <1>1, <1>2, <1>3, <1>4, <1>5, <1>6, <1>7, <1>8, <1>9, <1>10, <1>11, <1>12,
     <1>13, <1>14, <1>15 DEF AnyNext, UpdateNext

\* The state of endpoints and channels is well typed.  In particular what
\* Update reads, keeps and puts out are packets whose fragment numbers and
\* sequence numbers fit their fields, and the room for the queue never goes
\* below zero.
THEOREM TypeCorrect == Spec => []TypeOK
  BY InitType, NextType, Generalises, PTL DEF Spec

-----------------------------------------------------------------------------
(* The inductive invariant, one node at a time.                            *)

\* Both buffers have seen every number below the next one and no other.
LatestIsNext(n) == window[n].latest = seq[n] /\ sent[n].latest = seq[n]

\* What the window holds was numbered less than a ring ago.
Recent(n) ==
    \A i \in Slots(SentPacketBufferSize) :
        LET e == window[n].entries[i]
        IN  \/ e = Empty
            \/ WindowSlot(e) = i /\ Minus(seq[n], e) \in 1 .. SentPacketBufferSize

\* FlowControl and OldestIsHeld for node n.
Controlled(n) == \/ Ahead(n) <= RecvPacketBufferSize
                 \/ Ahead(n) >= M - RecvPacketBufferSize

OldestHeld(n) ==
    Ahead(n) \in 1 .. RecvPacketBufferSize => InWindow(n, oldestUnacked[n])

\* The room that ACK leaves for the queue is free in the window.
RoomIsFree(n) ==
    pc[n] = "draining" => \/ Ahead(n) + room[n] <= RecvPacketBufferSize
                          \/ Ahead(n) >= M - RecvPacketBufferSize

\* No packet was put out after the last one.
AgesOrdered(n) ==
    \A i \in Slots(SentPacketBufferSize) :
        packet[n][i].written => packet[n][i].age >= lastSent[n]

\* Slot by slot, the window holds what sent holds unacknowledged.
Agreement(n) ==
    \A i \in Slots(SentPacketBufferSize) :
        \/ /\ window[n].entries[i] = sent[n].entries[i]
           /\ ~acked[n][i]
        \/ /\ window[n].entries[i] = Empty
           /\ acked[n][i] \/ sent[n].entries[i] = Empty

WindowInv(n) ==
    /\ LatestIsNext(n)
    /\ Recent(n)
    /\ Controlled(n)
    /\ OldestHeld(n)
    /\ RoomIsFree(n)
    /\ AgesOrdered(n)
    /\ Agreement(n)

Inv == TypeOK /\ \A n \in Node : WindowInv(n)

-----------------------------------------------------------------------------
\* A step that leaves a node's sequence numbers and buffers alone, puts nothing
\* out later than what was put out, and adds no room, keeps its invariant.
LEMMA Frame ==
    ASSUME TypeOK, NEW n \in Node, WindowInv(n), room'[n] \in Nat,
           seq'[n] = seq[n], sent'[n] = sent[n], acked'[n] = acked[n],
           window'[n] = window[n], oldestUnacked'[n] = oldestUnacked[n],
           AgesOrdered(n)',
           pc'[n] = "draining" => pc[n] = "draining" /\ room'[n] <= room[n]
    PROVE  WindowInv(n)'
<1>1. /\ LatestIsNext(n)' /\ Recent(n)' /\ Controlled(n)' /\ OldestHeld(n)'
      /\ Agreement(n)'
  BY DEF WindowInv, LatestIsNext, Recent, Controlled, OldestHeld, Agreement, Ahead,
         InWindow, Find, WindowSlot
<1>2. RoomIsFree(n)'
  <2>1. Ahead(n)' = Ahead(n) /\ Ahead(n) \in SeqNum
    BY SeqNumArithmetic DEF Ahead, TypeOK, EndpointTypeOK
  <2>2. RoomIsFree(n) /\ room[n] \in Nat /\ RecvPacketBufferSize \in Nat
    BY Sizes DEF WindowInv, TypeOK
  <2> QED
    BY <2>1, <2>2 DEF RoomIsFree, SeqNum
<1> QED
  BY <1>1, <1>2 DEF WindowInv

\* The number q goes into its slot of both buffers of n, unacknowledged and not
\* yet written; nothing else changes.
Enters(n, q) ==
    /\ seq' = [seq EXCEPT ![n] = Plus(q, 1)]
    /\ window' = [window EXCEPT ![n] =
         [latest  |-> Plus(q, 1),
          entries |-> [window[n].entries EXCEPT ![WindowSlot(q)] = q]]]
    /\ sent' = [sent EXCEPT ![n] =
         [latest  |-> Plus(q, 1),
          entries |-> [sent[n].entries EXCEPT ![WindowSlot(q)] = q]]]
    /\ acked' = [acked EXCEPT ![n][WindowSlot(q)] = FALSE]
    /\ \E b : /\ packet' = [packet EXCEPT ![n][WindowSlot(q)] = b]
              /\ b.written = FALSE

\* WritePacket enters the next number and leaves the other slots alone.
LEMMA WriteEffect ==
    ASSUME TypeOK, NEW n \in Node, NEW m \in Message, LatestIsNext(n),
           ~Oversize(m), WritePacket(n, m)
    PROVE  WindowSlot(seq[n]) \in Slots(SentPacketBufferSize) /\ Enters(n, seq[n])
<1> DEFINE S == SentPacketBufferSize
           out == NextTransmitted(n, m)
           b == [Blank EXCEPT !.buf = out[Len(out)]]
<1>1. seq[n] \in SeqNum /\ S \in Nat \ {0} /\ S < HalfMaxUint16
  BY Sizes DEF TypeOK, EndpointTypeOK
<1>2. WindowSlot(seq[n]) \in Slots(S)
  BY <1>1, SlotInRange DEF WindowSlot
<1>3. Insert(S, window[n], seq[n]) =
         [latest |-> Plus(seq[n], 1),
          entries |-> [window[n].entries EXCEPT ![WindowSlot(seq[n])] = seq[n]]]
  BY <1>1, InsertNext DEF TypeOK, LatestIsNext, WindowSlot
<1>4. Insert(S, sent[n], seq[n]) =
         [latest |-> Plus(seq[n], 1),
          entries |-> [sent[n].entries EXCEPT ![WindowSlot(seq[n])] = seq[n]]]
  BY <1>1, InsertNext DEF TypeOK, EndpointTypeOK, LatestIsNext, WindowSlot
<1>5. /\ seq' = [seq EXCEPT ![n] = Plus(seq[n], 1)]
      /\ sent' = [sent EXCEPT ![n] = Insert(S, sent[n], seq[n])]
      /\ acked' = [acked EXCEPT ![n][WindowSlot(seq[n])] = FALSE]
      /\ window' = [window EXCEPT ![n] = Insert(S, window[n], seq[n])]
      /\ packet' = [packet EXCEPT ![n][WindowSlot(seq[n])] = b]
  BY DEF WritePacket, NumberPacket, WindowSlot
<1>6. b.written = FALSE
  <2> DEFINE x == out[Len(out)]
  <2>1. Blank.written = FALSE /\ DOMAIN Blank = {"written", "age", "buf"}
    BY DEF Blank
  <2> HIDE DEF x
  <2>2. [Blank EXCEPT !.buf = x].written = FALSE
    BY <2>1
  <2> QED
    BY <2>2 DEF x
<1> HIDE DEF b
<1> QED
  BY <1>2, <1>3, <1>4, <1>5, <1>6 DEF Enters

\* WritePacket keeps the invariant of a channel whose window is not full,
\* except for the room that drains the queue, which its caller accounts for.
LEMMA WriteKeeps ==
    ASSUME TypeOK, NEW n \in Node, NEW m \in Message, WindowInv(n),
           ~Oversize(m), WritePacket(n, m), Ahead(n) # RecvPacketBufferSize,
           oldestUnacked' = oldestUnacked, lastSent' = lastSent
    PROVE  /\ LatestIsNext(n)'
           /\ Recent(n)'
           /\ Controlled(n)'
           /\ OldestHeld(n)'
           /\ AgesOrdered(n)'
           /\ Agreement(n)'
           /\ Ahead(n)' = IF Ahead(n) = M - 1 THEN 0 ELSE Ahead(n) + 1
<1> DEFINE S == SentPacketBufferSize
           W == RecvPacketBufferSize
           q == seq[n]
           o == oldestUnacked[n]
           d == Ahead(n)
           i == WindowSlot(q)
           w == window[n].entries
<1>1. /\ q \in SeqNum /\ o \in SeqNum /\ d \in SeqNum
      /\ w \in [Slots(S) -> SeqNum \cup {Empty}]
  BY SeqNumArithmetic DEF TypeOK, EndpointTypeOK, SequenceBuffers, Ahead
<1>0. i \in Slots(S) /\ Enters(n, q)
  BY WriteEffect, Zenon DEF WindowInv
<1>2. /\ i \in Slots(S)
      /\ seq'[n] = Plus(q, 1)
      /\ window'[n] = [latest |-> Plus(q, 1), entries |-> [w EXCEPT ![i] = q]]
      /\ sent'[n] = [latest |-> Plus(q, 1), entries |-> [sent[n].entries EXCEPT ![i] = q]]
      /\ acked'[n] = [acked[n] EXCEPT ![i] = FALSE]
  BY <1>0 DEF Enters, TypeOK, EndpointTypeOK
<1>3. PICK b : packet'[n] = [packet[n] EXCEPT ![i] = b] /\ b.written = FALSE
  BY <1>0 DEF Enters, TypeOK
<1>4. Ahead(n)' = IF d = M - 1 THEN 0 ELSE d + 1
  BY <1>1, <1>2, OneFurther DEF Ahead
<1>5. LatestIsNext(n)'
  BY <1>2 DEF LatestIsNext
<1>6. Recent(n)'
  <2> SUFFICES ASSUME NEW j \in Slots(S), window'[n].entries[j] # Empty
               PROVE  LET e == window'[n].entries[j]
                      IN  WindowSlot(e) = j /\ Minus(seq'[n], e) \in 1 .. S
    BY DEF Recent
  <2>1. CASE j = i
    <3>1. window'[n].entries[j] = q
      BY <1>1, <1>2, <2>1
    <3>2. Minus(Plus(q, 1), q) = 1
      <4>1. Minus(q, q) = 0
        BY <1>1, Distance, Sizes
      <4> QED
        BY <1>1, <4>1, OneFurther, Sizes, MAssumption
    <3>3. 1 \in 1 .. S
      BY Sizes
    <3> QED
      BY <1>2, <2>1, <3>1, <3>2, <3>3
  <2>2. CASE j # i
    <3> DEFINE e == w[j]
               g == Minus(q, e)
               h == Minus(Plus(q, 1), e)
    <3>1. window'[n].entries[j] = e
      BY <1>1, <1>2, <2>2
    <3>2. e \in SeqNum /\ WindowSlot(e) = j /\ g \in 1 .. S
      BY <1>1, <2>2, <3>1 DEF WindowInv, Recent
    <3>3. g # S
      BY <1>1, <2>2, <3>2, SharedSlots, Sizes DEF WindowSlot
    <3>4. h = IF g = M - 1 THEN 0 ELSE g + 1
      BY <1>1, <3>2, OneFurther
    <3> HIDE DEF e, g, h
    <3>5. h \in 1 .. S
      BY <3>2, <3>3, <3>4, Sizes
    <3> QED
      BY <1>2, <3>1, <3>2, <3>5 DEF h
  <2> QED
    BY <2>1, <2>2
<1>7. Controlled(n)'
  <2>1. d <= W \/ d >= M - W
    BY DEF WindowInv, Controlled
  <2> HIDE DEF d
  <2>2. d # W
    BY DEF d
  <2>3. Ahead(n)' <= W \/ Ahead(n)' >= M - W
    BY <1>1, <1>4, <2>1, <2>2, Sizes DEF SeqNum
  <2> QED
    BY <2>3 DEF Controlled
<1>8. OldestHeld(n)'
  <2> SUFFICES ASSUME Ahead(n)' \in 1 .. W
               PROVE  window'[n].entries[WindowSlot(o)] = o
    BY DEF OldestHeld, InWindow, Find, WindowSlot
  <2>1. d \in 0 .. (W - 1)
    <3> HIDE DEF d
    <3> QED
      BY <1>1, <1>4, Sizes DEF SeqNum
  <2>2. CASE d = 0
    <3>1. o = q
      BY <1>1, <2>2, Distance, Sizes DEF Ahead
    <3> QED
      BY <1>1, <1>2, <3>1
  <2>3. CASE d # 0
    <3>1. d \in 1 .. W /\ d \in 1 .. (S - 1)
      <4> HIDE DEF d
      <4> QED
        BY <2>1, <2>3, Sizes
    <3>2. w[WindowSlot(o)] = o
      BY <3>1 DEF WindowInv, OldestHeld, InWindow, Find, WindowSlot
    <3>3. WindowSlot(o) # i
      BY <1>1, <3>1, SharedSlots, Sizes DEF Ahead, WindowSlot
    <3>4. WindowSlot(o) \in Slots(S)
      BY <1>1, SlotInRange, Sizes DEF WindowSlot
    <3> QED
      BY <1>1, <1>2, <3>2, <3>3, <3>4
  <2> QED
    BY <2>2, <2>3
<1>9. AgesOrdered(n)'
  <2>1. packet[n] \in [Slots(S) -> [written : BOOLEAN, age : 0 .. ResendAfter, buf : Packets]]
    BY DEF TypeOK
  <2>2. \A j \in Slots(S) : packet[n][j].written => packet[n][j].age >= lastSent[n]
    BY DEF WindowInv, AgesOrdered
  <2>3. \A j \in Slots(S) : packet'[n][j].written => packet'[n][j].age >= lastSent[n]
    BY <1>3, <2>1, <2>2
  <2> QED
    BY <2>3 DEF AgesOrdered
<1>10. Agreement(n)'
  <2>1. /\ sent[n].entries \in [Slots(S) -> SeqNum \cup {Empty}]
        /\ acked[n] \in [Slots(S) -> BOOLEAN]
    BY DEF TypeOK, EndpointTypeOK, SequenceBuffers
  <2> SUFFICES ASSUME NEW j \in Slots(S)
               PROVE  \/ /\ window'[n].entries[j] = sent'[n].entries[j]
                         /\ ~acked'[n][j]
                      \/ /\ window'[n].entries[j] = Empty
                         /\ acked'[n][j] \/ sent'[n].entries[j] = Empty
    BY DEF Agreement
  <2>2. CASE j = i
    BY <1>1, <1>2, <2>1, <2>2
  <2>3. CASE j # i
    <3>1. /\ window'[n].entries[j] = w[j]
          /\ sent'[n].entries[j] = sent[n].entries[j]
          /\ acked'[n][j] = acked[n][j]
      BY <1>1, <1>2, <2>1, <2>3
    <3> QED
      BY <3>1 DEF WindowInv, Agreement
  <2> QED
    BY <2>2, <2>3
<1> QED
  BY <1>4, <1>5, <1>6, <1>7, <1>8, <1>9, <1>10

\* WritePacket leaves every other channel alone, and this one too when the
\* message is refused.
LEMMA WriteFrame ==
    ASSUME TypeOK, NEW n \in Node, NEW m \in Message, LatestIsNext(n),
           WritePacket(n, m), NEW x \in Node, x # n \/ Oversize(m)
    PROVE  /\ seq'[x] = seq[x] /\ sent'[x] = sent[x] /\ acked'[x] = acked[x]
           /\ window'[x] = window[x] /\ packet'[x] = packet[x]
<1>1. CASE Oversize(m)
  BY <1>1 DEF WritePacket, NumberPacket
<1>2. CASE ~Oversize(m)
  <2>1. x # n
    BY <1>2
  <2> QED
    <3>1. Enters(n, seq[n])
      BY <1>2, WriteEffect, Zenon
    <3> QED
      BY <2>1, <3>1 DEF Enters, TypeOK, EndpointTypeOK
<1> QED
  BY <1>1, <1>2

\* What is in the window is what awaits its acknowledgement.
LEMMA AgreementGives ==
    ASSUME TypeOK, NEW n \in Node, Agreement(n), NEW s \in SeqNum
    PROVE  InWindow(n, s) <=> AwaitsACK(n, s)
<1>1. WindowSlot(s) \in Slots(SentPacketBufferSize)
  BY SlotInRange, Sizes DEF WindowSlot
<1>2. s # Empty
  BY DEF SeqNum, Empty
<1> QED
  BY <1>1, <1>2 DEF Agreement, InWindow, AwaitsACK, Find, WindowSlot

\* The acknowledgement of a packet in the window takes it out of it, keeps the
\* oldest unacknowledged one in it, and makes room for what it moves past.
LEMMA AckKeeps ==
    ASSUME TypeOK, NEW n \in Node, WindowInv(n), AckNext(n)
    PROVE  WindowInv(n)'
<1> DEFINE S == SentPacketBufferSize
           W == RecvPacketBufferSize
           q == seq[n]
           o == oldestUnacked[n]
           d == Ahead(n)
           w == window[n].entries
<1>1. PICK b \in Unmarked(n) :
         /\ acked' = [acked EXCEPT ![n][Slot(S, Minus(pending[n].ack, b))] = TRUE]
         /\ ACK(n, Minus(pending[n].ack, b))
  BY DEF AckNext
<1> DEFINE s == Minus(pending[n].ack, b)
           i == WindowSlot(s)
<1>2. /\ q \in SeqNum /\ o \in SeqNum /\ d \in SeqNum /\ s \in SeqNum
      /\ w \in [Slots(S) -> SeqNum \cup {Empty}]
      /\ i \in Slots(S)
  <2>1. pending[n].ack \in SeqNum /\ b \in Nat
    BY DEF TypeOK, Unmarked
  <2>2. s \in SeqNum
    BY <2>1, AckIndex
  <2>3. i \in Slots(S)
    BY <2>2, SlotInRange, Sizes DEF WindowSlot
  <2> QED
    BY <2>2, <2>3, SeqNumArithmetic DEF TypeOK, EndpointTypeOK, SequenceBuffers, Ahead
<1>3. w[i] = s
  <2>1. AwaitsACK(n, s)
    BY DEF Unmarked
  <2>2. InWindow(n, s)
    BY <1>2, <2>1, AgreementGives DEF WindowInv
  <2> QED
    BY <2>2 DEF InWindow, Find, WindowSlot
<1>4. InWindow(n, s)
  BY <1>3 DEF InWindow, Find, WindowSlot
<1>5. /\ seq' = seq /\ sent' = sent /\ packet' = packet /\ lastSent' = lastSent
      /\ acked'[n] = [acked[n] EXCEPT ![i] = TRUE]
      /\ window'[n] = [window[n] EXCEPT !.entries[i] = Empty]
      /\ pc[n] = "acking"
  <2>1. seq' = seq /\ sent' = sent /\ packet' = packet /\ lastSent' = lastSent /\ pc[n] = "acking"
    BY DEF AckNext
  <2>2. acked'[n] = [acked[n] EXCEPT ![i] = TRUE]
    BY <1>1 DEF TypeOK, EndpointTypeOK, WindowSlot
  <2>3. window' = [window EXCEPT ![n] = Remove(S, @, s)]
    BY <1>1, <1>4 DEF ACK
  <2>4. window'[n] = [window[n] EXCEPT !.entries[i] = Empty]
    BY <2>3 DEF Remove, TypeOK, WindowSlot
  <2> QED
    BY <2>1, <2>2, <2>4
<1>6. window'[n].entries = [w EXCEPT ![i] = Empty] /\ window'[n].latest = window[n].latest
  BY <1>5 DEF TypeOK, SequenceBuffers
<1>7. LatestIsNext(n)'
  BY <1>5, <1>6 DEF WindowInv, LatestIsNext
<1>8. Recent(n)'
  BY <1>2, <1>5, <1>6 DEF WindowInv, Recent
<1>9. AgesOrdered(n)'
  BY <1>5 DEF WindowInv, AgesOrdered
<1>10. Agreement(n)'
  BY <1>2, <1>5, <1>6 DEF WindowInv, Agreement, TypeOK, EndpointTypeOK
<1>11. CASE s # o
  <2>1. oldestUnacked' = oldestUnacked /\ room' = room /\ pc' = pc
    BY <1>1, <1>4, <1>11 DEF ACK
  <2>2. Ahead(n)' = Ahead(n)
    BY <1>5, <2>1 DEF Ahead
  <2>3. Controlled(n)'
    BY <2>2 DEF WindowInv, Controlled
  <2>4. OldestHeld(n)'
    <3>1. InWindow(n, o) => window'[n].entries[WindowSlot(o)] = o
      BY <1>2, <1>3, <1>6, <1>11, SlotInRange, Sizes DEF InWindow, Find, WindowSlot
    <3> QED
      BY <2>1, <2>2, <3>1 DEF WindowInv, OldestHeld, InWindow, Find, WindowSlot
  <2>5. RoomIsFree(n)'
    BY <1>5, <2>1 DEF RoomIsFree
  <2> QED
    BY <1>7, <1>8, <1>9, <1>10, <2>3, <2>4, <2>5 DEF WindowInv
<1>12. CASE s = o
  <2>1. PICK k \in 1 .. W :
           /\ NextOldest(n, k)
           /\ oldestUnacked' = [oldestUnacked EXCEPT ![n] = Plus(@, k)]
           /\ room' = [room EXCEPT ![n] = k]
           /\ Goto(n, "draining")
    BY <1>1, <1>4, <1>12 DEF ACK
  <2>2. k \in SeqNum
    BY Sizes DEF SeqNum
  <2>3. oldestUnacked'[n] = Plus(o, k) /\ room'[n] = k
    BY <2>1 DEF TypeOK
  <2>4. d \in 1 .. W
    <3>1. Minus(q, o) \in 1 .. S
      <4>1. o # Empty
        BY <1>2 DEF SeqNum, Empty
      <4> QED
        BY <1>2, <1>3, <1>12, <4>1 DEF WindowInv, Recent
    <3>2. d \in 1 .. S /\ (d <= W \/ d >= M - W)
      BY <3>1 DEF Ahead, WindowInv, Controlled
    <3> HIDE DEF d
    <3> QED
      BY <3>2, Sizes
  <2>5. Ahead(n)' = IF d >= k THEN d - k ELSE d - k + M
    BY <1>2, <1>5, <2>2, <2>3, Closer DEF Ahead
  <2>6. Controlled(n)' /\ RoomIsFree(n)'
    <3> DEFINE f == Ahead(n)'
    <3>1. f = IF d >= k THEN d - k ELSE d - k + M
      BY <2>5
    <3> HIDE DEF d, f
    <3>2. (f <= W \/ f >= M - W) /\ (f + k <= W \/ f >= M - W)
      BY <2>4, <3>1, Sizes
    <3> QED
      BY <2>3, <3>2 DEF Controlled, RoomIsFree, f
  <2>7. OldestHeld(n)'
    <3> DEFINE r == Plus(o, k)
    <3>1. r \in SeqNum /\ WindowSlot(r) \in Slots(S) /\ r # Empty
      <4>1. r \in SeqNum
        BY <1>2, <2>2, Closer
      <4> HIDE DEF r
      <4>2. WindowSlot(r) \in Slots(S)
        BY <4>1, SlotInRange, Sizes DEF WindowSlot
      <4>3. r # Empty
        BY <4>1 DEF SeqNum, Empty
      <4> QED
        BY <4>1, <4>2, <4>3
    <3>2. CASE InWindow(n, r)
      <4>1. w[WindowSlot(r)] = r
        BY <3>2 DEF InWindow, Find, WindowSlot
      <4>2. r # o
        <5>1. k # 0
          OBVIOUS
        <5> QED
          BY <1>2, <2>2, <5>1, MovesOn
      <4>3. WindowSlot(r) # i
        BY <1>3, <1>12, <4>1, <4>2
      <4>4. window'[n].entries[WindowSlot(r)] = r
        BY <1>2, <1>6, <3>1, <4>1, <4>3
      <4> QED
        BY <2>3, <4>4 DEF OldestHeld, InWindow, Find, WindowSlot
    <3>3. CASE ~InWindow(n, r)
      <4>1. k = W
        BY <2>1, <3>3 DEF NextOldest
      <4>2. Ahead(n)' \notin 1 .. W
        <5> DEFINE f == Ahead(n)'
        <5>1. f = IF d >= k THEN d - k ELSE d - k + M
          BY <2>5
        <5> HIDE DEF d, f
        <5>2. f \notin 1 .. W
          BY <2>4, <4>1, <5>1, Sizes
        <5> QED
          BY <5>2 DEF f
      <4> QED
        BY <4>2 DEF OldestHeld
    <3> QED
      BY <3>2, <3>3
  <2> QED
    BY <1>7, <1>8, <1>9, <1>10, <2>6, <2>7 DEF WindowInv
<1> QED
  BY <1>11, <1>12

\* Room is a number, before and after a step.
LEMMA RoomTypes ==
    ASSUME TypeOK, TypeOK', NEW x \in Node
    PROVE  room[x] \in Nat /\ room'[x] \in Nat
<1>1. /\ room \in [Node -> 0 .. RecvPacketBufferSize]
      /\ room' \in [Node -> 0 .. RecvPacketBufferSize]
  BY DEF TypeOK
<1>2. 0 .. RecvPacketBufferSize \subseteq Nat
  BY Sizes
<1> QED
  BY <1>1, <1>2

\* The ages stay in order when the packets and lastSent stay as they are.
LEMMA FrameAges ==
    ASSUME NEW n \in Node, WindowInv(n), packet'[n] = packet[n], lastSent'[n] = lastSent[n]
    PROVE  AgesOrdered(n)'
  BY DEF WindowInv, AgesOrdered

\* WritePacket keeps the invariant of every channel when its own window is not
\* full and it is not draining.
LEMMA WriteStep ==
    ASSUME Inv, TypeOK', NEW n \in Node, NEW m \in Message, WritePacket(n, m),
           Ahead(n) # RecvPacketBufferSize,
           oldestUnacked' = oldestUnacked, lastSent' = lastSent,
           \A x \in Node : pc'[x] = "draining" =>
               pc[x] = "draining" /\ room'[x] <= room[x] - (IF x = n THEN 1 ELSE 0)
    PROVE  \A x \in Node : WindowInv(x)'
<1> SUFFICES ASSUME NEW x \in Node PROVE WindowInv(x)'
  OBVIOUS
<1>1. /\ TypeOK /\ WindowInv(n) /\ WindowInv(x) /\ LatestIsNext(n)
      /\ room[x] \in Nat /\ room'[x] \in Nat
  BY RoomTypes DEF Inv, WindowInv
<1>2. CASE x # n \/ Oversize(m)
  <2>1. /\ seq'[x] = seq[x] /\ sent'[x] = sent[x] /\ acked'[x] = acked[x]
        /\ window'[x] = window[x] /\ packet'[x] = packet[x]
    BY <1>1, <1>2, WriteFrame
  <2>2. oldestUnacked'[x] = oldestUnacked[x] /\ lastSent'[x] = lastSent[x]
    OBVIOUS
  <2>3. AgesOrdered(x)'
    BY <1>1, <2>1, <2>2, FrameAges
  <2>4. pc'[x] = "draining" => pc[x] = "draining" /\ room'[x] <= room[x]
    BY <1>1
  <2> QED
    BY <1>1, <2>1, <2>2, <2>3, <2>4, Frame
<1>3. CASE x = n /\ ~Oversize(m)
  <2> DEFINE d == Ahead(n)
             f == Ahead(n)'
  <2>1. /\ LatestIsNext(n)' /\ Recent(n)' /\ Controlled(n)' /\ OldestHeld(n)'
        /\ AgesOrdered(n)' /\ Agreement(n)'
        /\ f = IF d = M - 1 THEN 0 ELSE d + 1
    BY <1>1, <1>3, WriteKeeps
  <2>2. RoomIsFree(n)'
    <3> SUFFICES ASSUME pc'[n] = "draining"
                 PROVE  \/ f + room'[n] <= RecvPacketBufferSize
                        \/ f >= M - RecvPacketBufferSize
      BY DEF RoomIsFree
    <3>1. room'[n] <= room[n] - 1
      OBVIOUS
    <3>2. /\ room[n] \in 0 .. RecvPacketBufferSize /\ room'[n] \in Nat
          /\ d \in SeqNum
      BY <1>1, <1>3, SeqNumArithmetic DEF TypeOK, EndpointTypeOK, Ahead
    <3>3. \/ d + room[n] <= RecvPacketBufferSize
          \/ d >= M - RecvPacketBufferSize
      BY <1>1 DEF WindowInv, RoomIsFree
    <3> HIDE DEF d, f
    <3> QED
      BY <2>1, <3>1, <3>2, <3>3, Sizes DEF SeqNum
  <2> QED
    BY <1>3, <2>1, <2>2 DEF WindowInv
<1> QED
  BY <1>2, <1>3

\* A step that touches neither the buffers nor lastSent, and starts no drain.
LEMMA QuietStep ==
    ASSUME Inv, TypeOK',
           UNCHANGED <<seq, sent, acked, window, packet, oldestUnacked, lastSent>>,
           \A x \in Node : pc'[x] = "draining" => pc[x] = "draining" /\ room'[x] = room[x]
    PROVE  \A x \in Node : WindowInv(x)'
<1> SUFFICES ASSUME NEW x \in Node PROVE WindowInv(x)'
  OBVIOUS
<1>1. /\ TypeOK /\ WindowInv(x) /\ room[x] \in Nat /\ room'[x] \in Nat
  BY RoomTypes DEF Inv
<1>2. AgesOrdered(x)'
  BY <1>1, FrameAges
<1>3. pc'[x] = "draining" => pc[x] = "draining" /\ room'[x] <= room[x]
  BY <1>1
<1> QED
  BY <1>1, <1>2, <1>3, Frame

\* The same for a step that touches packets and lastSent, but keeps the ages.
LEMMA AgeStep ==
    ASSUME Inv, TypeOK',
           UNCHANGED <<seq, sent, acked, window, oldestUnacked>>,
           \A x \in Node : AgesOrdered(x)',
           \A x \in Node : pc'[x] # "draining" \/ (pc'[x] = pc[x] /\ room'[x] = room[x])
    PROVE  \A x \in Node : WindowInv(x)'
<1> SUFFICES ASSUME NEW x \in Node PROVE WindowInv(x)'
  OBVIOUS
<1>1. /\ TypeOK /\ WindowInv(x) /\ room[x] \in Nat /\ room'[x] \in Nat
  BY RoomTypes DEF Inv
<1>2. pc'[x] = "draining" => pc[x] = "draining" /\ room'[x] <= room[x]
  BY <1>1
<1> QED
  BY <1>1, <1>2, Frame

-----------------------------------------------------------------------------
\* The invariant holds at first: nothing was numbered and nothing is held.
LEMMA InitInv == ChannelInit => Inv
<1> SUFFICES ASSUME ChannelInit, NEW n \in Node PROVE WindowInv(n)
  BY InitType DEF Inv
<1> DEFINE S == SentPacketBufferSize
<1>1. /\ window[n] = NewSequenceBuffer(S)
      /\ sent[n] = NewSequenceBuffer(S)
      /\ acked[n] = [i \in Slots(S) |-> FALSE]
      /\ packet[n] = [i \in Slots(S) |-> Blank]
      /\ seq[n] = 0 /\ oldestUnacked[n] = 0 /\ pc[n] = "idle"
  BY DEF ChannelInit, EndpointInit
<1>2. Ahead(n) = 0
  <2>1. 0 \in SeqNum
    BY Sizes
  <2> QED
    BY <1>1, <2>1, Distance DEF Ahead
<1>3. LatestIsNext(n) /\ Recent(n) /\ Agreement(n)
  BY <1>1 DEF LatestIsNext, Recent, Agreement, NewSequenceBuffer
<1>4. Controlled(n) /\ OldestHeld(n) /\ RoomIsFree(n)
  BY <1>1, <1>2, Sizes DEF Controlled, OldestHeld, RoomIsFree
<1>5. AgesOrdered(n)
  BY <1>1 DEF AgesOrdered, Blank
<1> QED
  BY <1>3, <1>4, <1>5 DEF WindowInv

\* Update ages packets and lastSent alike.
LEMMA UpdateAges ==
    ASSUME Inv, NEW n \in Node, NEW dt \in 0 .. ResendAfter, Update(n, dt),
           NEW x \in Node
    PROVE  AgesOrdered(x)'
<1>1. AgesOrdered(x)
  BY DEF Inv, WindowInv
<1>2. CASE x # n
  <2>1. packet'[x] = packet[x] /\ lastSent'[x] = lastSent[x]
    BY <1>2 DEF Update, Inv, TypeOK
  <2> QED
    BY <1>1, <2>1 DEF AgesOrdered
<1>3. CASE x = n
  <2> SUFFICES ASSUME NEW i \in Slots(SentPacketBufferSize), packet'[n][i].written
               PROVE  packet'[n][i].age >= lastSent'[n]
    BY <1>3 DEF AgesOrdered
  <2> DEFINE b == packet[n][i]
             l == lastSent[n]
  <2>1. /\ b \in [written : BOOLEAN, age : 0 .. ResendAfter, buf : Packets]
        /\ l \in 0 .. ResendAfter
    BY DEF Inv, TypeOK
  <2>2. packet'[n][i] = Aged(b, dt) /\ lastSent'[n] = Older(l, dt)
    BY DEF Update, Inv, TypeOK
  <2>3. b.written => b.age >= l
    BY <1>1, <1>3 DEF AgesOrdered
  <2> HIDE DEF b, l
  <2>4. Aged(b, dt).written => b.written /\ Aged(b, dt).age = Older(b.age, dt)
    BY <2>1 DEF Aged
  <2>5. b.written => Older(b.age, dt) >= Older(l, dt)
    BY <2>1, <2>3, ChannelAssumption DEF Older
  <2> QED
    BY <2>2, <2>4, <2>5
<1> QED
  BY <1>2, <1>3

\* A packet put out sets lastSent back to zero, which no age is below.
LEMMA ResendAges ==
    ASSUME Inv, TypeOK', NEW n \in Node, ResendNext(n), NEW x \in Node
    PROVE  AgesOrdered(x)'
<1>1. AgesOrdered(x)
  BY DEF Inv, WindowInv
<1>2. CASE x # n
  <2>1. lastSent'[x] = lastSent[x]
    BY <1>2 DEF ResendNext, Inv, TypeOK
  <2>2. packet'[x] = packet[x]
    BY <1>2 DEF ResendNext, Inv, TypeOK
  <2> QED
    BY <1>1, <2>1, <2>2 DEF AgesOrdered
<1>3. CASE x = n
  <2>1. lastSent'[n] = 0
    BY DEF ResendNext, Inv, TypeOK
  <2>2. \A i \in Slots(SentPacketBufferSize) : packet'[n][i].age >= 0
    BY ChannelAssumption DEF TypeOK
  <2> QED
    BY <1>3, <2>1, <2>2 DEF AgesOrdered
<1> QED
  BY <1>2, <1>3

\* A keep-alive is written only when the window is not full: had it been full,
\* its oldest packet would have been due, since no packet is younger than the
\* last one put out.
LEMMA KeepAliveFits ==
    ASSUME TypeOK, NEW n \in Node, WindowInv(n), lastSent[n] >= ResendAfter,
           \A k \in 0 .. RecvPacketBufferSize : ~Due(n, k)
    PROVE  /\ \A k \in 0 .. RecvPacketBufferSize : ~InWindow(n, Plus(oldestUnacked[n], k))
           /\ Ahead(n) # RecvPacketBufferSize
<1> DEFINE o == oldestUnacked[n]
<1>1. ASSUME NEW k \in 0 .. RecvPacketBufferSize
      PROVE  ~InWindow(n, Plus(o, k))
  <2> DEFINE i == WindowSlot(Plus(o, k))
             b == packet[n][i]
  <2>1. i \in Slots(SentPacketBufferSize)
    <3>1. o \in SeqNum /\ k \in SeqNum
      BY Sizes DEF TypeOK, SeqNum
    <3>2. Plus(o, k) \in SeqNum
      BY <3>1, SeqNumArithmetic
    <3> QED
      BY <3>2, SlotInRange, Sizes DEF WindowSlot
  <2>2. b.written => b.age >= lastSent[n]
    BY <2>1 DEF WindowInv, AgesOrdered
  <2>3. b.age \in 0 .. ResendAfter /\ lastSent[n] \in 0 .. ResendAfter
    BY <2>1 DEF TypeOK
  <2> HIDE DEF i
  <2>4. ~b.written \/ b.age >= ResendAfter
    BY <2>2, <2>3, ChannelAssumption
  <2> QED
    BY <2>4 DEF Due, i
<1>2. Ahead(n) # RecvPacketBufferSize
  <2>1. Plus(o, 0) = o
    <3>1. o \in SeqNum /\ 0 \in SeqNum
      BY Sizes DEF TypeOK
    <3>2. Plus(o, 0) = IF o + 0 < M THEN o + 0 ELSE (o + 0) - M
      BY <3>1, SeqNumArithmetic, Zenon
    <3> QED
      BY <3>1, <3>2, Sizes DEF SeqNum
  <2>2. ~InWindow(n, o)
    BY <1>1, <2>1, Sizes
  <2> QED
    BY <2>2, Sizes DEF WindowInv, OldestHeld
<1> QED
  BY <1>1, <1>2

\* A message that leaves the queue finds room in the window.
LEMMA DrainFits ==
    ASSUME Inv, NEW n \in Node, DrainNext(n)
    PROVE  /\ WritePacket(n, Head(queue[n])) /\ Head(queue[n]) \in Message
           /\ Ahead(n) # RecvPacketBufferSize
<1>1. WritePacket(n, Head(queue[n])) /\ Head(queue[n]) \in Message
  BY DEF DrainNext, WriteMessage, Inv, TypeOK
<1>2. RoomIsFree(n) /\ pc[n] = "draining" /\ room[n] > 0
  BY DEF DrainNext, Inv, WindowInv
<1>3. seq[n] \in SeqNum /\ oldestUnacked[n] \in SeqNum /\ room[n] \in 0 .. RecvPacketBufferSize
  BY DEF Inv, TypeOK, EndpointTypeOK
<1>4. Ahead(n) \in SeqNum
  BY <1>3, SeqNumArithmetic DEF Ahead
<1> QED
  BY <1>1, <1>2, <1>3, <1>4, Sizes DEF RoomIsFree, SeqNum

\* A message that Write gave finds room too, unless the window is full.
LEMMA WriteFits ==
    ASSUME Inv, NEW n \in Node, WriteNext(n), ~WindowFull(n)
    PROVE  /\ WritePacket(n, Head(writeQueue[n])) /\ Head(writeQueue[n]) \in Message
           /\ Ahead(n) # RecvPacketBufferSize
<1>1. WritePacket(n, Head(writeQueue[n])) /\ Head(writeQueue[n]) \in Message
  BY DEF WriteNext, WriteMessage, Inv, TypeOK
<1>2. Ahead(n) # RecvPacketBufferSize
  BY Distance, Sizes DEF Inv, TypeOK, EndpointTypeOK, WindowFull, Ahead
<1> QED
  BY <1>1, <1>2

\* Every step keeps the invariant.
LEMMA InvNext == Inv /\ [AnyNext]_vars => Inv'
<1> SUFFICES ASSUME Inv, [AnyNext]_vars
             PROVE  \A x \in Node : WindowInv(x)'
  BY NextType DEF Inv
<1> USE DEF endpointVars
<1>0. TypeOK /\ TypeOK'
  BY NextType DEF Inv
<1>1. CASE UNCHANGED vars
  BY <1>0, <1>1, QuietStep DEF vars, channelVars
<1>2. ASSUME NEW n \in Node, NEW p \in Packets, Read(n, p)
      PROVE  \A x \in Node : WindowInv(x)'
  BY <1>0, <1>2, QuietStep DEF Read
<1>3. ASSUME NEW n \in Node, NEW m \in Message, Write(n, m)
      PROVE  \A x \in Node : WindowInv(x)'
  BY <1>0, <1>3, QuietStep DEF Write
<1>4. ASSUME NEW n \in Node, Out(n)
      PROVE  \A x \in Node : WindowInv(x)'
  BY <1>0, <1>4, QuietStep DEF Out
<1>5. ASSUME NEW n \in Node, NEW dt \in 0 .. ResendAfter, Update(n, dt)
      PROVE  \A x \in Node : WindowInv(x)'
  <2>1. \A x \in Node : AgesOrdered(x)'
    BY <1>5, UpdateAges
  <2>2. /\ UNCHANGED <<seq, sent, acked, window, oldestUnacked>>
        /\ \A x \in Node : pc'[x] # "draining" \/ (pc'[x] = pc[x] /\ room'[x] = room[x])
    BY <1>0, <1>5 DEF Update, Goto, TypeOK
  <2> QED
    BY <1>0, <2>1, <2>2, AgeStep
<1>6. ASSUME NEW n \in Node, ReadNext(n)
      PROVE  \A x \in Node : WindowInv(x)'
  <2>1. \A x \in Node : pc'[x] = "draining" => pc[x] = "draining" /\ room'[x] = room[x]
    BY <1>0, <1>6 DEF ReadNext, Goto, TypeOK
  <2>2. UNCHANGED <<seq, sent, acked, window, packet, oldestUnacked, lastSent>>
    BY <1>6 DEF ReadNext
  <2> QED
    BY <1>0, <2>1, <2>2, QuietStep
<1>7. ASSUME NEW n \in Node, ReadDone(n) \/ AckDone(n) \/ DrainDone(n) \/ WriteDone(n)
      PROVE  \A x \in Node : WindowInv(x)'
  <2>1. \A x \in Node : pc'[x] = "draining" => pc[x] = "draining" /\ room'[x] = room[x]
    BY <1>0, <1>7 DEF ReadDone, AckDone, DrainDone, WriteDone, Goto, TypeOK
  <2>2. UNCHANGED <<seq, sent, acked, window, packet, oldestUnacked, lastSent>>
    BY <1>7 DEF ReadDone, AckDone, DrainDone, WriteDone
  <2> QED
    BY <1>0, <2>1, <2>2, QuietStep
<1>8. ASSUME NEW n \in Node, AckNext(n)
      PROVE  \A x \in Node : WindowInv(x)'
  <2> SUFFICES ASSUME NEW x \in Node PROVE WindowInv(x)'
    OBVIOUS
  <2>1. CASE x = n
    BY <1>0, <1>8, <2>1, AckKeeps DEF Inv
  <2>2. CASE x # n
    <3>1. /\ seq'[x] = seq[x] /\ sent'[x] = sent[x] /\ packet'[x] = packet[x]
          /\ lastSent'[x] = lastSent[x]
      BY <1>8 DEF AckNext
    <3>2. acked'[x] = acked[x]
      BY <1>0, <1>8, <2>2 DEF AckNext, TypeOK, EndpointTypeOK
    <3>3. PICK s : ACK(n, s)
      BY <1>8 DEF AckNext
    <3>4. /\ window'[x] = window[x] /\ oldestUnacked'[x] = oldestUnacked[x]
          /\ pc'[x] = pc[x] /\ room'[x] = room[x]
      <4>1. \/ window' = window
            \/ window' = [window EXCEPT ![n] = Remove(SentPacketBufferSize, @, s)]
        BY <3>3 DEF ACK
      <4>2. \/ UNCHANGED <<oldestUnacked, room, pc>>
            \/ \E k \in 1 .. RecvPacketBufferSize :
                  /\ oldestUnacked' = [oldestUnacked EXCEPT ![n] = Plus(@, k)]
                  /\ room' = [room EXCEPT ![n] = k]
                  /\ pc' = [pc EXCEPT ![n] = "draining"]
        BY <3>3 DEF ACK, Goto
      <4>3. window'[x] = window[x]
        BY <1>0, <2>2, <4>1 DEF TypeOK
      <4>4. oldestUnacked'[x] = oldestUnacked[x] /\ pc'[x] = pc[x] /\ room'[x] = room[x]
        BY ZenonT(60), <1>0, <2>2, <4>2 DEF TypeOK
      <4> QED
        BY <4>3, <4>4
    <3>5. WindowInv(x) /\ room[x] \in Nat
      BY <1>0, RoomTypes DEF Inv
    <3>6. AgesOrdered(x)'
      BY <3>1, <3>5, FrameAges
    <3> QED
      BY <1>0, <3>1, <3>2, <3>4, <3>5, <3>6, Frame
  <2> QED
    BY <2>1, <2>2
<1>9. ASSUME NEW n \in Node, DrainNext(n)
      PROVE  \A x \in Node : WindowInv(x)'
  <2> DEFINE m == Head(queue[n])
  <2>1. WritePacket(n, m) /\ m \in Message
    BY <1>9, DrainFits
  <2>2. oldestUnacked' = oldestUnacked /\ lastSent' = lastSent /\ pc' = pc
    BY <1>9 DEF DrainNext
  <2>3. \A x \in Node : room'[x] = room[x] - (IF x = n THEN 1 ELSE 0)
    <3>1. \A x \in Node : room[x] \in Nat
      BY <1>0, RoomTypes
    <3>2. room \in [Node -> 0 .. RecvPacketBufferSize] /\ room' = [room EXCEPT ![n] = @ - 1]
      BY <1>0, <1>9 DEF DrainNext, TypeOK
    <3> QED
      BY <3>1, <3>2
  <2>4. Ahead(n) # RecvPacketBufferSize
    BY <1>9, DrainFits
  <2>5. \A x \in Node : room'[x] \in Nat
    BY <1>0, RoomTypes
  <2>6. \A x \in Node : room'[x] <= room[x] - (IF x = n THEN 1 ELSE 0)
    BY <2>3, <2>5
  <2> HIDE DEF m
  <2> QED
    BY <1>0, <2>1, <2>2, <2>4, <2>6, WriteStep
<1>10. ASSUME NEW n \in Node, WriteNext(n)
       PROVE  \A x \in Node : WindowInv(x)'
  <2>1. CASE WindowFull(n)
    <3>1. /\ UNCHANGED <<seq, sent, acked, window, packet, oldestUnacked, lastSent>>
          /\ pc' = pc /\ room' = room
      BY <1>10, <2>1 DEF WriteNext
    <3> QED
      BY <1>0, <3>1, QuietStep
  <2>2. CASE ~WindowFull(n)
    <3> DEFINE m == Head(writeQueue[n])
    <3>1. WritePacket(n, m) /\ m \in Message /\ Ahead(n) # RecvPacketBufferSize
      BY <1>10, <2>2, WriteFits
    <3>2. /\ oldestUnacked' = oldestUnacked /\ lastSent' = lastSent
          /\ pc' = pc /\ room' = room /\ pc[n] = "writing"
      BY <1>10 DEF WriteNext
    <3>4. ASSUME NEW x \in Node, pc'[x] = "draining"
          PROVE  pc[x] = "draining" /\ room'[x] <= room[x] - (IF x = n THEN 1 ELSE 0)
      <4>1. x # n /\ room[x] \in Nat
        BY <1>0, <3>2, <3>4, RoomTypes
      <4> QED
        BY <3>2, <3>4, <4>1
    <3> HIDE DEF m
    <3> QED
      BY <1>0, <3>1, <3>2, <3>4, WriteStep
  <2> QED
    BY <2>1, <2>2
<1>11. ASSUME NEW n \in Node, ResendNext(n)
       PROVE  \A x \in Node : WindowInv(x)'
  <2>1. \A x \in Node : AgesOrdered(x)'
    BY <1>0, <1>11, ResendAges
  <2>2. /\ UNCHANGED <<seq, sent, acked, window, oldestUnacked>>
        /\ pc' = pc /\ room' = room
    BY <1>11 DEF ResendNext
  <2> QED
    BY <1>0, <2>1, <2>2, AgeStep
<1>12. ASSUME NEW n \in Node, ResendDone(n)
       PROVE  \A x \in Node : WindowInv(x)'
  <2>1. /\ oldestUnacked' = oldestUnacked /\ lastSent' = lastSent /\ room' = room
        /\ pc[n] = "resending" /\ Goto(n, "idle")
        /\ \A k \in 0 .. RecvPacketBufferSize : ~Due(n, k)
    BY <1>12 DEF ResendDone
  <2>2. \A x \in Node : pc'[x] = "draining" => x # n /\ pc[x] = "draining"
    BY <1>0, <2>1 DEF Goto, TypeOK
  <2>3. CASE lastSent[n] >= ResendAfter
    <3>1. WritePacket(n, Nil) /\ Nil \in Message
      BY <1>12, <2>3, EndpointAssumption DEF ResendDone
    <3>2. Ahead(n) # RecvPacketBufferSize
      BY <1>0, <2>1, <2>3, KeepAliveFits DEF Inv
    <3>3. ASSUME NEW x \in Node, pc'[x] = "draining"
          PROVE  pc[x] = "draining" /\ room'[x] <= room[x] - (IF x = n THEN 1 ELSE 0)
      <4>1. x # n /\ pc[x] = "draining" /\ room[x] \in Nat
        BY <1>0, <2>2, <3>3, RoomTypes
      <4> QED
        BY <2>1, <4>1
    <3> QED
      BY <1>0, <2>1, <3>1, <3>2, <3>3, WriteStep
  <2>4. CASE ~(lastSent[n] >= ResendAfter)
    <3>1. UNCHANGED <<seq, sent, acked, window, packet>>
      BY <1>12, <2>4 DEF ResendDone
    <3> QED
      BY <1>0, <2>1, <2>2, <3>1, QuietStep
  <2> QED
    BY <2>3, <2>4
<1> QED
  BY <1>1, <1>2, <1>3, <1>4, <1>5, <1>6, <1>7, <1>8, <1>9, <1>10, <1>11, <1>12
     DEF AnyNext, UpdateNext

-----------------------------------------------------------------------------
(* What the invariant says of module Channel.                              *)

\* Inv is an invariant of the specification.
LEMMA Invariance == Spec => []Inv
  BY InitInv, InvNext, Generalises, PTL DEF Spec

\* Flow control holds for all sizes: see FlowControl.  It needs more than
\* itself: that the ages are in order keeps a keep-alive off a full window, and
\* that the room for the queue is free keeps a drain within it.
THEOREM WindowIsBounded == Spec => []FlowControl
<1>1. Inv => FlowControl
  BY DEF Inv, WindowInv, Controlled, FlowControl
<1> QED
  BY <1>1, Invariance, PTL

\* The resend loop starts with the oldest unacknowledged packet: see
\* OldestIsHeld.
THEOREM OldestStays == Spec => []OldestIsHeld
<1>1. Inv => OldestIsHeld
  BY DEF Inv, WindowInv, OldestHeld, OldestIsHeld
<1> QED
  BY <1>1, Invariance, PTL

\* The two buffers of packets sent agree slot by slot, and so for every
\* sequence number: see WindowIsUnacked.
THEOREM BuffersAgree == Spec => []WindowIsUnacked
<1>1. Inv => WindowIsUnacked
  BY AgreementGives DEF Inv, WindowInv, WindowIsUnacked
<1> QED
  BY <1>1, Invariance, PTL

\* Transmit and WritePacket never get the nil that Insert returns for an
\* outdated number: see NextIsInsertable.
THEOREM NextInserts == Spec => []NextIsInsertable
<1>1. ASSUME Inv PROVE NextIsInsertable
  <2> SUFFICES ASSUME NEW n \in Node
               PROVE  /\ ~IsOutdated(SentPacketBufferSize, sent[n], seq[n])
                      /\ ~IsOutdated(SentPacketBufferSize, window[n], seq[n])
    BY DEF NextIsInsertable
  <2>1. /\ sent[n] \in SequenceBuffers(SentPacketBufferSize)
        /\ window[n] \in SequenceBuffers(SentPacketBufferSize)
        /\ sent[n].latest = seq[n] /\ window[n].latest = seq[n]
    BY <1>1 DEF Inv, TypeOK, EndpointTypeOK, WindowInv, LatestIsNext
  <2>2. /\ ~IsOutdated(SentPacketBufferSize, sent[n], sent[n].latest)
        /\ ~IsOutdated(SentPacketBufferSize, window[n], window[n].latest)
    BY <2>1, InsertNext, Sizes
  <2> QED
    BY <2>1, <2>2
<1> QED
  BY <1>1, Invariance, PTL

-----------------------------------------------------------------------------
(* What a step may never do.                                               *)

\* The steps that number a packet, the step that acknowledges one, and the
\* rest.
LEMMA Numbering ==
    ASSUME Inv, [AnyNext]_vars
    PROVE  \/ UNCHANGED <<seq, window>>
           \/ \E n \in Node : AckNext(n)
           \/ \E n \in Node, m \in Message :
                 WritePacket(n, m) /\ Ahead(n) # RecvPacketBufferSize
<1> USE DEF endpointVars
<1>1. ASSUME NEW n \in Node, DrainNext(n)
      PROVE  \E m \in Message : WritePacket(n, m) /\ Ahead(n) # RecvPacketBufferSize
  BY <1>1, DrainFits
<1>2. ASSUME NEW n \in Node, WriteNext(n)
      PROVE  \/ UNCHANGED <<seq, window>>
             \/ \E m \in Message : WritePacket(n, m) /\ Ahead(n) # RecvPacketBufferSize
  <2>1. CASE WindowFull(n)
    BY <1>2, <2>1 DEF WriteNext
  <2>2. CASE ~WindowFull(n)
    BY <1>2, <2>2, WriteFits
  <2> QED
    BY <2>1, <2>2
<1>3. ASSUME NEW n \in Node, ResendDone(n)
      PROVE  \/ UNCHANGED <<seq, window>>
             \/ \E m \in Message : WritePacket(n, m) /\ Ahead(n) # RecvPacketBufferSize
  <2>1. CASE lastSent[n] >= ResendAfter
    <3>1. WritePacket(n, Nil) /\ Nil \in Message
      BY <1>3, <2>1, EndpointAssumption DEF ResendDone
    <3>2. \A k \in 0 .. RecvPacketBufferSize : ~Due(n, k)
      BY <1>3 DEF ResendDone
    <3>3. Ahead(n) # RecvPacketBufferSize
      BY <2>1, <3>2, KeepAliveFits DEF Inv
    <3> QED
      BY <3>1, <3>3
  <2>2. CASE ~(lastSent[n] >= ResendAfter)
    BY <1>3, <2>2 DEF ResendDone
  <2> QED
    BY <2>1, <2>2
<1>4. ASSUME NEW n \in Node,
             \/ ReadNext(n) \/ ReadDone(n) \/ AckDone(n) \/ DrainDone(n)
             \/ WriteDone(n) \/ ResendNext(n) \/ Out(n)
             \/ \E dt \in 0 .. ResendAfter : Update(n, dt)
             \/ \E p \in Packets : Read(n, p)
             \/ \E m \in Message : Write(n, m)
      PROVE  UNCHANGED <<seq, window>>
  BY <1>4 DEF ReadNext, ReadDone, AckDone, DrainDone, WriteDone, ResendNext, Out, Update,
              Read, Write
<1>5. CASE UNCHANGED vars
  BY <1>5 DEF vars, channelVars
<1> QED
  BY <1>1, <1>2, <1>3, <1>4, <1>5 DEF AnyNext, UpdateNext

\* What a keep-alive may do: see KeepAliveWhenQuiet.
THEOREM KeepAliveIsQuiet == Spec => KeepAliveWhenQuiet
<1> DEFINE Quiet == \A n \in Node : pc[n] = "resending" /\ seq'[n] # seq[n] =>
                       \A k \in 0 .. RecvPacketBufferSize :
                          ~InWindow(n, Plus(oldestUnacked[n], k))
<1>1. ASSUME Inv, [AnyNext]_vars PROVE [Quiet]_vars
  <2> SUFFICES ASSUME NEW n \in Node, pc[n] = "resending", seq'[n] # seq[n],
                      NEW k \in 0 .. RecvPacketBufferSize
               PROVE  ~InWindow(n, Plus(oldestUnacked[n], k))
    BY Zenon
  <2> USE DEF endpointVars
  <2>1. ASSUME NEW x \in Node, ResendDone(x)
        PROVE  x = n /\ lastSent[n] >= ResendAfter /\ \A j \in 0 .. RecvPacketBufferSize : ~Due(n, j)
    <3>1. CASE lastSent[x] >= ResendAfter
      <4>1. WritePacket(x, Nil) /\ Nil \in Message
        BY <2>1, <3>1, EndpointAssumption DEF ResendDone
      <4>2. x = n
        BY <4>1, WriteFrame, <1>1 DEF Inv, WindowInv
      <4> QED
        BY <2>1, <3>1, <4>2 DEF ResendDone
    <3>2. CASE ~(lastSent[x] >= ResendAfter)
      BY <2>1, <3>2 DEF ResendDone
    <3> QED
      BY <3>1, <3>2
  <2>2. ASSUME NEW x \in Node, DrainNext(x) PROVE FALSE
    <3>1. WritePacket(x, Head(queue[x])) /\ Head(queue[x]) \in Message /\ x # n
      BY <1>1, <2>2, DrainFits DEF DrainNext
    <3> QED
      BY <1>1, <3>1, WriteFrame DEF Inv, WindowInv
  <2>3. ASSUME NEW x \in Node, WriteNext(x) PROVE FALSE
    <3>1. ~WindowFull(x) /\ x # n
      BY <2>3 DEF WriteNext
    <3>2. WritePacket(x, Head(writeQueue[x])) /\ Head(writeQueue[x]) \in Message
      BY <1>1, <2>3, <3>1, WriteFits
    <3> QED
      BY <1>1, <3>1, <3>2, WriteFrame DEF Inv, WindowInv
  <2>4. ASSUME NEW x \in Node,
               \/ ReadNext(x) \/ ReadDone(x) \/ AckNext(x) \/ AckDone(x) \/ DrainDone(x)
               \/ WriteDone(x) \/ ResendNext(x) \/ Out(x)
               \/ \E dt \in 0 .. ResendAfter : Update(x, dt)
               \/ \E p \in Packets : Read(x, p)
               \/ \E m \in Message : Write(x, m)
        PROVE  FALSE
    BY <2>4 DEF ReadNext, ReadDone, AckNext, AckDone, DrainDone, WriteDone, ResendNext, Out,
                Update, Read, Write
  <2>5. CASE UNCHANGED vars
    BY <2>5 DEF vars
  <2>6. CASE AnyNext
    <3>1. \E x \in Node : ResendDone(x)
      BY <2>2, <2>3, <2>4, <2>6 DEF AnyNext, UpdateNext
    <3>2. lastSent[n] >= ResendAfter /\ \A j \in 0 .. RecvPacketBufferSize : ~Due(n, j)
      BY <2>1, <3>1
    <3> QED
      BY <1>1, <3>2, KeepAliveFits DEF Inv
  <2> QED
    BY <1>1, <2>5, <2>6
<1>2. KeepAliveWhenQuiet <=> [][Quiet]_vars
  BY DEF KeepAliveWhenQuiet
<1> HIDE DEF Quiet
<1> QED
  BY <1>1, <1>2, Invariance, Generalises, PTL DEF Spec

\* A number within reach of the resend loop is less than a ring behind the
\* next one, unless the window is full.
LEMMA WithinARing ==
    ASSUME NEW q \in SeqNum, NEW o \in SeqNum, NEW s \in SeqNum,
           Minus(q, s) = SentPacketBufferSize,
           Minus(s, o) <= RecvPacketBufferSize,
           Minus(q, o) # RecvPacketBufferSize
    PROVE  Minus(q, o) \in RecvPacketBufferSize + 1 .. M - RecvPacketBufferSize - 1
<1> DEFINE d == Minus(q, o)
           g == Minus(q, s)
           f == Minus(s, o)
<1>1. d = IF q >= o THEN q - o ELSE q - o + M
  BY SeqNumArithmetic, Zenon
<1>2. g = IF q >= s THEN q - s ELSE q - s + M
  BY SeqNumArithmetic, Zenon
<1>3. f = IF s >= o THEN s - o ELSE s - o + M
  BY SeqNumArithmetic, Zenon
<1> HIDE DEF d, g, f
<1>4. g = SentPacketBufferSize /\ f <= RecvPacketBufferSize /\ d # RecvPacketBufferSize
  BY DEF d, g, f
<1>5. d \in RecvPacketBufferSize + 1 .. M - RecvPacketBufferSize - 1
  BY <1>1, <1>2, <1>3, <1>4, Sizes, SMT DEF SeqNum
<1> QED
  BY <1>5 DEF d

\* What leaves the window within reach of the resend loop was acknowledged: see
\* KeptUntilACKed.
THEOREM KeptInWindow == Spec => KeptUntilACKed
<1> DEFINE S == SentPacketBufferSize
           W == RecvPacketBufferSize
           Kept == \A n \in Node : \A s \in SeqNum :
                      Minus(s, oldestUnacked[n]) <= W /\ InWindow(n, s)
                          => InWindow(n, s)' \/ acked'[n][WindowSlot(s)]
<1>1. ASSUME Inv, [AnyNext]_vars PROVE [Kept]_vars
  <2> SUFFICES ASSUME NEW n \in Node, NEW s \in SeqNum,
                      Minus(s, oldestUnacked[n]) <= W, InWindow(n, s)
               PROVE  InWindow(n, s)' \/ acked'[n][WindowSlot(s)]
    BY Zenon
  <2> DEFINE j == WindowSlot(s)
  <2>1. /\ j \in Slots(S) /\ window[n].entries[j] = s
        /\ TypeOK /\ WindowInv(n)
        /\ seq[n] \in SeqNum /\ oldestUnacked[n] \in SeqNum
    <3>1. j \in Slots(S)
      BY SlotInRange, Sizes DEF WindowSlot
    <3> QED
      BY <1>1, <3>1 DEF Inv, TypeOK, EndpointTypeOK, InWindow, Find, WindowSlot
  <2>2. CASE UNCHANGED window
    BY <2>2 DEF InWindow
  <2>3. ASSUME NEW x \in Node, AckNext(x)
        PROVE  InWindow(n, s)' \/ acked'[n][j]
    <3>1. PICK t : /\ acked' = [acked EXCEPT ![x][Slot(S, t)] = TRUE]
                   /\ ACK(x, t)
      BY <2>3 DEF AckNext
    <3>2. \/ window' = window
          \/ window' = [window EXCEPT ![x] = Remove(S, @, t)]
      BY <3>1 DEF ACK
    <3>3. CASE x = n /\ Slot(S, t) = j
      BY <2>1, <3>1, <3>3 DEF TypeOK, EndpointTypeOK
    <3>4. CASE x # n
      BY <2>1, <3>2, <3>4 DEF TypeOK, InWindow
    <3>5. CASE x = n /\ Slot(S, t) # j
      <4>1. window'[n].entries[j] = s
        BY <2>1, <3>2, <3>5 DEF TypeOK, SequenceBuffers, Remove
      <4> QED
        BY <4>1 DEF InWindow, Find, WindowSlot
    <3> QED
      BY <3>3, <3>4, <3>5
  <2>4. ASSUME NEW x \in Node, NEW m \in Message, WritePacket(x, m), Ahead(x) # W
        PROVE  InWindow(n, s)'
    <3>1. CASE x # n \/ Oversize(m)
      <4>1. LatestIsNext(x)
        BY <1>1 DEF Inv, WindowInv
      <4>2. window'[n] = window[n]
        BY <2>1, <2>4, <3>1, <4>1, WriteFrame
      <4> QED
        BY <4>2 DEF InWindow
    <3>2. CASE x = n /\ ~Oversize(m)
      <4> DEFINE q == seq[n]
                 o == oldestUnacked[n]
      <4>1. Enters(n, q) /\ WindowSlot(q) \in Slots(S)
        BY <2>1, <2>4, <3>2, WriteEffect DEF WindowInv
      <4>2. j # WindowSlot(q)
        <5> SUFFICES ASSUME j = WindowSlot(q) PROVE FALSE
          OBVIOUS
        <5>1. Minus(q, s) \in 1 .. S
          <6>1. s # Empty
            BY DEF SeqNum, Empty
          <6> QED
            BY <2>1, <6>1 DEF WindowInv, Recent
        <5>2. Minus(q, s) \notin 1 .. (S - 1)
          BY <2>1, SharedSlots, Sizes DEF WindowSlot
        <5>3. Minus(q, s) = S
          BY <5>1, <5>2, Sizes
        <5>4. Minus(q, o) # W /\ (Minus(q, o) <= W \/ Minus(q, o) >= M - W)
          BY <2>1, <2>4, <3>2 DEF WindowInv, Controlled, Ahead
        <5>5. Minus(q, o) \in W + 1 .. M - W - 1
          BY <2>1, <5>3, <5>4, WithinARing
        <5> QED
          BY <5>4, <5>5, Sizes
      <4>3. window'[n].entries[j] = s
        BY <2>1, <4>1, <4>2 DEF Enters, TypeOK, SequenceBuffers
      <4> QED
        BY <4>3 DEF InWindow, Find, WindowSlot
    <3> QED
      BY <3>1, <3>2
  <2> QED
    BY <1>1, <2>2, <2>3, <2>4, Numbering
<1>2. KeptUntilACKed <=> [][Kept]_vars
  BY DEF KeptUntilACKed
<1> HIDE DEF Kept
<1> QED
  BY <1>1, <1>2, Invariance, Generalises, PTL DEF Spec

-----------------------------------------------------------------------------
(* The order in which messages are numbered.                               *)

\* How far a channel is from a full window, once it has drained what it may.
Reserved(n) == IF pc[n] = "draining" THEN room[n] ELSE 0

\* Messages wait in queue only behind a window that is full, or will be once
\* the room that ACK has left is used: nothing written later can pass them.
WaitsForRoom(n) == queue[n] # <<>> => Ahead(n) + Reserved(n) = RecvPacketBufferSize

InOrder(n) == numbered[n] \o queue[n] \o writeQueue[n] = accepted[n]

OrderInv(n) == NoneRefused(n) => InOrder(n) /\ WaitsForRoom(n)

\* Three sequences in a row: what may be moved from one to the next.
LEMMA InARow ==
    ASSUME NEW a \in Seq(Message), NEW b \in Seq(Message), NEW c \in Seq(Message),
           NEW m \in Message
    PROVE  /\ b # <<>> => /\ Append(a, Head(b)) \o Tail(b) \o c = a \o b \o c
                          /\ \E i \in DOMAIN (a \o b \o c) : (a \o b \o c)[i] = Head(b)
           /\ c # <<>> => /\ a \o Append(b, Head(c)) \o Tail(c) = a \o b \o c
                          /\ \E i \in DOMAIN (a \o b \o c) : (a \o b \o c)[i] = Head(c)
           /\ a \o b \o Append(c, m) = Append(a \o b \o c, m)
           /\ \A i \in DOMAIN a : i \in DOMAIN (a \o b \o c) /\ (a \o b \o c)[i] = a[i]
<1>1. ASSUME b # <<>>
      PROVE  /\ Append(a, Head(b)) \o Tail(b) \o c = a \o b \o c
             /\ \E i \in DOMAIN (a \o b \o c) : (a \o b \o c)[i] = Head(b)
  <2>1. /\ Head(b) \in Message /\ Tail(b) \in Seq(Message)
        /\ b = <<Head(b)>> \o Tail(b)
    BY <1>1, HeadTailProperties
  <2>2. Append(a, Head(b)) = a \o <<Head(b)>>
    BY <2>1, AppendIsConcat
  <2>3. Append(a, Head(b)) \o Tail(b) = a \o b
    BY <2>1, <2>2, ConcatAssociative
  <2>4. /\ Len(a) + 1 \in DOMAIN (a \o b \o c)
        /\ (a \o b \o c)[Len(a) + 1] = Head(b)
    <3>1. Len(b) >= 1 /\ Len(a) \in Nat /\ Len(b) \in Nat /\ Len(c) \in Nat /\ b[1] = Head(b)
      BY <1>1
    <3>2. /\ a \o b \in Seq(Message) /\ Len(a \o b) = Len(a) + Len(b)
          /\ (a \o b)[Len(a) + 1] = b[1]
      BY <3>1, ConcatProperties
    <3>3. /\ Len(a \o b \o c) = Len(a) + Len(b) + Len(c)
          /\ a \o b \o c \in Seq(Message)
          /\ (a \o b \o c)[Len(a) + 1] = (a \o b)[Len(a) + 1]
      BY <3>1, <3>2, ConcatProperties
    <3> QED
      BY <3>1, <3>2, <3>3
  <2> QED
    BY <2>3, <2>4
<1>2. ASSUME c # <<>>
      PROVE  /\ a \o Append(b, Head(c)) \o Tail(c) = a \o b \o c
             /\ \E i \in DOMAIN (a \o b \o c) : (a \o b \o c)[i] = Head(c)
  <2>1. /\ Head(c) \in Message /\ Tail(c) \in Seq(Message)
        /\ c = <<Head(c)>> \o Tail(c)
    BY <1>2, HeadTailProperties
  <2>2. Append(b, Head(c)) = b \o <<Head(c)>>
    BY <2>1, AppendIsConcat
  <2>3. a \o Append(b, Head(c)) = (a \o b) \o <<Head(c)>>
    BY <2>1, <2>2, ConcatAssociative
  <2>4. a \o b \in Seq(Message)
    OBVIOUS
  <2>5. a \o Append(b, Head(c)) \o Tail(c) = (a \o b) \o c
    <3> DEFINE d == a \o b
    <3>1. d \in Seq(Message) /\ <<Head(c)>> \in Seq(Message)
      BY <2>1, <2>4
    <3>2. a \o Append(b, Head(c)) = d \o <<Head(c)>>
      BY <2>3
    <3> HIDE DEF d
    <3>3. (d \o <<Head(c)>>) \o Tail(c) = d \o (<<Head(c)>> \o Tail(c))
      BY <2>1, <3>1, ConcatAssociative
    <3>4. a \o Append(b, Head(c)) \o Tail(c) = d \o c
      BY <2>1, <3>2, <3>3
    <3> QED
      BY <3>4 DEF d
  <2>6. /\ Len(a \o b) + 1 \in DOMAIN (a \o b \o c)
        /\ (a \o b \o c)[Len(a \o b) + 1] = Head(c)
    <3>1. Len(c) >= 1 /\ Len(a \o b) \in Nat /\ Len(c) \in Nat /\ c[1] = Head(c)
      BY <1>2, <2>4
    <3>2. /\ Len(a \o b \o c) = Len(a \o b) + Len(c)
          /\ a \o b \o c \in Seq(Message)
          /\ (a \o b \o c)[Len(a \o b) + 1] = c[1]
      BY <2>4, <3>1, ConcatProperties
    <3> QED
      BY <3>1, <3>2
  <2> QED
    BY <2>5, <2>6
<1>3. a \o b \o Append(c, m) = Append(a \o b \o c, m)
  <2>1. a \o b \in Seq(Message) /\ a \o b \o c \in Seq(Message)
    OBVIOUS
  <2>2. Append(c, m) = c \o <<m>> /\ Append(a \o b \o c, m) = (a \o b \o c) \o <<m>>
    BY <2>1, AppendIsConcat
  <2> QED
    BY <2>1, <2>2, ConcatAssociative
<1>4. \A i \in DOMAIN a : i \in DOMAIN (a \o b \o c) /\ (a \o b \o c)[i] = a[i]
  <2>1. a \o b \in Seq(Message) /\ Len(a) \in Nat /\ Len(b) \in Nat /\ Len(c) \in Nat
    OBVIOUS
  <2>2. Len(a \o b) = Len(a) + Len(b) /\ \A i \in 1 .. Len(a) : (a \o b)[i] = a[i]
    BY ConcatProperties
  <2>3. /\ Len(a \o b \o c) = Len(a) + Len(b) + Len(c)
        /\ a \o b \o c \in Seq(Message)
        /\ \A i \in 1 .. Len(a \o b) : (a \o b \o c)[i] = (a \o b)[i]
    BY <2>1, <2>2, ConcatProperties
  <2> QED
    BY <2>1, <2>2, <2>3
<1> QED
  BY <1>1, <1>2, <1>3, <1>4

\* Write only adds to what it has taken.
LEMMA AcceptedGrows ==
    ASSUME TypeOK, [AnyNext]_vars, NEW n \in Node
    PROVE  /\ accepted'[n] = accepted[n] \/ \E m \in Message : accepted'[n] = Append(accepted[n], m)
           /\ NoneRefused(n)' => NoneRefused(n)
<1>1. accepted'[n] = accepted[n] \/ \E m \in Message : accepted'[n] = Append(accepted[n], m)
  <2>1. ASSUME NEW x \in Node, NEW m \in Message, Write(x, m)
        PROVE  accepted'[n] = accepted[n] \/ accepted'[n] = Append(accepted[n], m)
    BY <2>1 DEF Write, TypeOK
  <2>2. \/ accepted' = accepted
        \/ \E x \in Node, m \in Message : Write(x, m)
    BY DEF AnyNext, UpdateNext, ReadNext, ReadDone, AckNext, AckDone, DrainNext, DrainDone,
           WriteNext, WriteDone, ResendNext, ResendDone, Update, Read, Out, vars, channelVars
  <2> QED
    BY <2>1, <2>2
<1>2. ASSUME NEW m \in Message, accepted'[n] = Append(accepted[n], m), NoneRefused(n)'
      PROVE  NoneRefused(n)
  <2> DEFINE s == accepted[n]
  <2>1. s \in Seq(Message)
    BY DEF TypeOK
  <2>2. \A i \in DOMAIN Append(s, m) : ~Oversize(Append(s, m)[i])
    BY <1>2 DEF NoneRefused
  <2> HIDE DEF s
  <2>3. \A i \in DOMAIN s : i \in DOMAIN Append(s, m) /\ Append(s, m)[i] = s[i]
    BY <2>1
  <2> QED
    BY <2>2, <2>3 DEF NoneRefused, s
<1> QED
  BY <1>1, <1>2 DEF NoneRefused

\* A step that leaves the messages, the window and the room alone keeps the
\* order.
LEMMA OrderFrame ==
    ASSUME TypeOK, NEW n \in Node, OrderInv(n),
           numbered'[n] = numbered[n], queue'[n] = queue[n],
           writeQueue'[n] = writeQueue[n], accepted'[n] = accepted[n],
           Ahead(n)' = Ahead(n), Reserved(n)' = Reserved(n)
    PROVE  OrderInv(n)'
  BY DEF OrderInv, NoneRefused, InOrder, WaitsForRoom

\* WritePacket takes the next number one further, unless the window is full.
LEMMA WriteAhead ==
    ASSUME Inv, NEW n \in Node, NEW m \in Message, WritePacket(n, m),
           Ahead(n) # RecvPacketBufferSize, oldestUnacked' = oldestUnacked
    PROVE  /\ \A x \in Node : x # n => Ahead(x)' = Ahead(x)
           /\ Oversize(m) => Ahead(n)' = Ahead(n)
           /\ ~Oversize(m) => Ahead(n)' = IF Ahead(n) = M - 1 THEN 0 ELSE Ahead(n) + 1
<1>1. /\ seq \in [Node -> SeqNum] /\ oldestUnacked \in [Node -> SeqNum]
      /\ NumberPacket(n, m)
  BY DEF Inv, TypeOK, EndpointTypeOK, WritePacket
<1>2. CASE Oversize(m)
  BY <1>2, <1>1 DEF NumberPacket, Ahead
<1>3. CASE ~Oversize(m)
  <2>1. seq' = [seq EXCEPT ![n] = Plus(seq[n], 1)]
    BY <1>1, <1>3 DEF NumberPacket
  <2>2. seq'[n] = Plus(seq[n], 1) /\ \A x \in Node : x # n => seq'[x] = seq[x]
    BY <1>1, <2>1
  <2> QED
    BY <1>1, <1>3, <2>2, OneFurther DEF Ahead
<1> QED
  BY <1>2, <1>3

\* Numbering the message at the head of the queue keeps the order.
LEMMA DrainKeepsOrder ==
    ASSUME Inv, NEW n \in Node, DrainNext(n), OrderInv(n)
    PROVE  OrderInv(n)'
<1> DEFINE a == numbered[n]
           b == queue[n]
           c == writeQueue[n]
           m == Head(b)
<1>1. /\ a \in Seq(Message) /\ b \in Seq(Message) /\ c \in Seq(Message) /\ b # <<>>
      /\ WritePacket(n, m) /\ m \in Message /\ Ahead(n) # RecvPacketBufferSize
      /\ writeQueue' = writeQueue /\ accepted' = accepted /\ pc' = pc
      /\ oldestUnacked' = oldestUnacked
      /\ queue'[n] = Tail(b) /\ room'[n] = room[n] - 1
      /\ pc[n] = "draining" /\ room[n] \in 0 .. RecvPacketBufferSize
  BY DrainFits DEF DrainNext, Inv, TypeOK
<1> SUFFICES ASSUME NoneRefused(n)' PROVE InOrder(n)' /\ WaitsForRoom(n)'
  BY DEF OrderInv
<1>2. NoneRefused(n) /\ a \o b \o c = accepted[n] /\ Ahead(n) + room[n] = RecvPacketBufferSize
  BY <1>1 DEF OrderInv, NoneRefused, InOrder, WaitsForRoom, Reserved
<1>9. /\ Append(a, m) \o Tail(b) \o c = a \o b \o c
      /\ \E i \in DOMAIN (a \o b \o c) : (a \o b \o c)[i] = m
  <2>1. /\ a \in Seq(Message) /\ b \in Seq(Message) /\ c \in Seq(Message)
        /\ b # <<>> /\ m = Head(b) /\ m \in Message
    BY <1>1
  <2> HIDE DEF a, b, c, m
  <2> QED
    BY ZenonT(60), <2>1, InARow
<1>3. ~Oversize(m)
  BY <1>2, <1>9 DEF NoneRefused
<1>4. numbered'[n] = Append(a, m)
  BY <1>1, <1>3 DEF DrainNext, WriteMessage, Inv, TypeOK
<1>5. InOrder(n)'
  BY <1>1, <1>2, <1>4, <1>9 DEF InOrder
<1>6. Ahead(n)' = Ahead(n) + 1
  <2> DEFINE d == Ahead(n)
  <2>1. d \in SeqNum
    BY SeqNumArithmetic DEF Ahead, Inv, TypeOK, EndpointTypeOK
  <2>2. Ahead(n)' = IF d = M - 1 THEN 0 ELSE d + 1
    BY <1>1, <1>3, WriteAhead
  <2>3. d + room[n] = RecvPacketBufferSize
    BY <1>2
  <2> HIDE DEF d
  <2>4. d # M - 1
    BY <1>1, <2>1, <2>3, Sizes DEF SeqNum
  <2> QED
    BY <2>2, <2>4 DEF d
<1>7. Ahead(n)' + Reserved(n)' = Ahead(n) + room[n]
  <2> DEFINE d == Ahead(n)
  <2>1. d \in SeqNum
    BY SeqNumArithmetic DEF Ahead, Inv, TypeOK, EndpointTypeOK
  <2>2. Reserved(n)' = room[n] - 1 /\ Ahead(n)' = d + 1
    BY <1>1, <1>6 DEF Reserved
  <2> HIDE DEF d
  <2>3. (d + 1) + (room[n] - 1) = d + room[n]
    BY <1>1, <2>1, Sizes DEF SeqNum
  <2> QED
    BY <2>2, <2>3 DEF d
<1> QED
  BY <1>2, <1>5, <1>7 DEF WaitsForRoom

\* The acknowledgement of the oldest packet turns what was a full window into
\* room for the queue.
LEMMA AckKeepsOrder ==
    ASSUME Inv, NEW n \in Node, AckNext(n), OrderInv(n)
    PROVE  OrderInv(n)'
<1> SUFFICES ASSUME NoneRefused(n)' PROVE InOrder(n)' /\ WaitsForRoom(n)'
  BY DEF OrderInv
<1>1. /\ UNCHANGED <<seq, queue, writeQueue, accepted, numbered>>
      /\ pc[n] = "acking"
      /\ \E s : ACK(n, s)
  BY DEF AckNext
<1>2. InOrder(n) /\ WaitsForRoom(n)
  BY <1>1 DEF OrderInv, NoneRefused
<1>3. InOrder(n)'
  BY <1>1, <1>2 DEF InOrder
<1>4. CASE UNCHANGED <<oldestUnacked, room, pc>>
  BY <1>1, <1>2, <1>3, <1>4 DEF WaitsForRoom, Ahead, Reserved
<1>5. CASE ~UNCHANGED <<oldestUnacked, room, pc>>
  <2>1. PICK k \in 1 .. RecvPacketBufferSize :
           /\ oldestUnacked' = [oldestUnacked EXCEPT ![n] = Plus(@, k)]
           /\ room' = [room EXCEPT ![n] = k]
           /\ Goto(n, "draining")
    BY <1>1, <1>5 DEF ACK
  <2> SUFFICES ASSUME queue[n] # <<>>
               PROVE  Ahead(n)' + Reserved(n)' = RecvPacketBufferSize
    BY <1>1, <1>3 DEF WaitsForRoom
  <2> DEFINE d == Ahead(n)
             f == Ahead(n)'
  <2>2. /\ seq \in [Node -> SeqNum] /\ oldestUnacked \in [Node -> SeqNum]
        /\ room \in [Node -> 0 .. RecvPacketBufferSize]
        /\ pc \in [Node -> {"idle", "reading", "acking", "draining", "writing", "resending"}]
    BY DEF Inv, TypeOK, EndpointTypeOK
  <2>3. /\ oldestUnacked'[n] = Plus(oldestUnacked[n], k) /\ room'[n] = k
        /\ pc'[n] = "draining" /\ seq' = seq
    BY <1>1, <2>1, <2>2 DEF Goto
  <2>4. d + 0 = RecvPacketBufferSize /\ d \in SeqNum
    BY <1>1, <1>2, <2>2, SeqNumArithmetic DEF WaitsForRoom, Reserved, Ahead
  <2>5. k \in SeqNum
    BY Sizes DEF SeqNum
  <2>6. f = IF d >= k THEN d - k ELSE d - k + M
    <3>1. seq[n] \in SeqNum /\ oldestUnacked[n] \in SeqNum
      BY <2>2
    <3>2. Ahead(n)' = Minus(seq[n], Plus(oldestUnacked[n], k)) /\ d = Minus(seq[n], oldestUnacked[n])
      BY <2>3 DEF Ahead
    <3> HIDE DEF d, f
    <3>3. Minus(seq[n], Plus(oldestUnacked[n], k)) = IF d >= k THEN d - k ELSE d - k + M
      BY <2>5, <3>1, <3>2, Closer
    <3> QED
      BY <3>2, <3>3 DEF f
  <2>7. Reserved(n)' = k
    BY <2>3 DEF Reserved
  <2> HIDE DEF d, f
  <2>8. f + k = RecvPacketBufferSize
    BY <2>4, <2>5, <2>6, Sizes DEF SeqNum
  <2> QED
    BY <2>7, <2>8 DEF f
<1> QED
  BY <1>4, <1>5

\* A drain ends with an empty queue or a full window.
LEMMA DrainDoneKeepsOrder ==
    ASSUME Inv, NEW n \in Node, DrainDone(n), OrderInv(n)
    PROVE  OrderInv(n)'
<1>1. /\ UNCHANGED <<seq, oldestUnacked, queue, writeQueue, accepted, numbered>>
      /\ pc[n] = "draining"
      /\ queue[n] = <<>> \/ room[n] = 0
  BY DEF DrainDone, endpointVars
<1>2. pc'[n] = "acking"
  BY DEF DrainDone, Goto, Inv, TypeOK
<1>3. Ahead(n)' = Ahead(n) /\ Reserved(n) = room[n] /\ Reserved(n)' = 0
  BY <1>1, <1>2 DEF Ahead, Reserved
<1> QED
  BY <1>1, <1>3 DEF OrderInv, NoneRefused, InOrder, WaitsForRoom

\* A message that Write gave is numbered or queued behind the others.
LEMMA WriteKeepsOrder ==
    ASSUME Inv, NEW n \in Node, WriteNext(n), OrderInv(n)
    PROVE  OrderInv(n)'
<1> DEFINE a == numbered[n]
           b == queue[n]
           c == writeQueue[n]
           m == Head(c)
<1> SUFFICES ASSUME NoneRefused(n)' PROVE InOrder(n)' /\ WaitsForRoom(n)'
  BY DEF OrderInv
<1>1. /\ a \in Seq(Message) /\ b \in Seq(Message) /\ c \in Seq(Message) /\ c # <<>>
      /\ m = Head(c) /\ m \in Message
  BY DEF WriteNext, Inv, TypeOK
<1>2. /\ accepted' = accepted /\ oldestUnacked' = oldestUnacked
      /\ pc[n] = "writing" /\ pc' = pc
      /\ writeQueue'[n] = Tail(c)
  BY DEF WriteNext, Inv, TypeOK
<1>3. /\ NoneRefused(n) /\ a \o b \o c = accepted[n]
      /\ b # <<>> => Ahead(n) + 0 = RecvPacketBufferSize
  BY <1>2 DEF OrderInv, NoneRefused, InOrder, WaitsForRoom, Reserved
<1>4. Ahead(n) \in SeqNum /\ (WindowFull(n) <=> Ahead(n) = RecvPacketBufferSize)
  BY Distance, Sizes DEF Inv, TypeOK, EndpointTypeOK, WindowFull, Ahead
<1>5. CASE WindowFull(n)
  <2>1. /\ queue'[n] = Append(b, m) /\ numbered'[n] = a
        /\ seq' = seq
    BY <1>5 DEF WriteNext, Inv, TypeOK
  <2>2. a \o Append(b, m) \o Tail(c) = a \o b \o c
    <3> HIDE DEF a, b, c, m
    <3> QED
      BY ZenonT(60), <1>1, InARow
  <2>3. Ahead(n)' + Reserved(n)' = RecvPacketBufferSize
    <3>1. Ahead(n)' = RecvPacketBufferSize /\ Reserved(n)' = 0
      BY <1>2, <1>4, <1>5, <2>1 DEF Ahead, Reserved
    <3> QED
      BY <3>1, Sizes
  <2> QED
    BY <1>2, <1>3, <2>1, <2>2, <2>3 DEF InOrder, WaitsForRoom
<1>6. CASE ~WindowFull(n)
  <2>1. b = <<>>
    <3> HIDE DEF b
    <3> QED
      BY <1>3, <1>4, <1>6 DEF SeqNum
  <2>2. /\ a \o Append(b, m) \o Tail(c) = a \o b \o c
        /\ \E i \in DOMAIN (a \o b \o c) : (a \o b \o c)[i] = m
    <3> HIDE DEF a, b, c, m
    <3> QED
      BY ZenonT(60), <1>1, InARow
  <2>3. ~Oversize(m)
    BY <1>3, <2>2 DEF NoneRefused
  <2>4. queue'[n] = <<>> /\ numbered'[n] = Append(a, m)
    BY <1>6, <2>1, <2>3 DEF WriteNext, WriteMessage, Inv, TypeOK
  <2>5. Append(a, m) \o <<>> = a \o Append(b, m)
    <3>1. Append(a, m) \in Seq(Message)
      BY <1>1
    <3> HIDE DEF a, b, m
    <3> QED
      BY <1>1, <2>1, <3>1, AppendIsConcat, ConcatEmptySeq
  <2>6. InOrder(n)'
    BY <1>2, <1>3, <2>2, <2>4, <2>5 DEF InOrder
  <2> QED
    BY <2>4, <2>6 DEF WaitsForRoom
<1> QED
  BY <1>5, <1>6

\* A keep-alive is written when the window is not full, and so the queue empty.
LEMMA ResendDoneKeepsOrder ==
    ASSUME Inv, NEW n \in Node, ResendDone(n), OrderInv(n)
    PROVE  OrderInv(n)'
<1>1. /\ UNCHANGED <<oldestUnacked, queue, writeQueue, accepted, numbered>>
      /\ pc[n] = "resending" /\ pc'[n] = "idle"
      /\ \A k \in 0 .. RecvPacketBufferSize : ~Due(n, k)
  BY DEF ResendDone, Goto, Inv, TypeOK
<1>2. Reserved(n) = 0 /\ Reserved(n)' = 0 /\ Ahead(n) \in SeqNum
  BY <1>1, SeqNumArithmetic DEF Reserved, Ahead, Inv, TypeOK, EndpointTypeOK
<1>3. CASE lastSent[n] >= ResendAfter
  <2>1. Ahead(n) # RecvPacketBufferSize
    BY <1>1, <1>3, KeepAliveFits DEF Inv
  <2>2. Ahead(n) + 0 = Ahead(n)
    BY <1>2 DEF SeqNum
  <2> QED
    BY <1>1, <1>2, <2>1, <2>2 DEF OrderInv, NoneRefused, InOrder, WaitsForRoom
<1>4. CASE ~(lastSent[n] >= ResendAfter)
  <2>1. seq' = seq
    BY <1>4 DEF ResendDone
  <2> QED
    BY <1>1, <1>2, <2>1, OrderFrame DEF Inv, Ahead
<1> QED
  BY <1>3, <1>4

\* So does taking another message.
LEMMA SubmitKeepsOrder ==
    ASSUME Inv, NEW n \in Node, NEW m \in Message, Write(n, m), OrderInv(n)
    PROVE  OrderInv(n)'
<1> DEFINE a == numbered[n]
           b == queue[n]
           c == writeQueue[n]
<1> SUFFICES ASSUME NoneRefused(n)' PROVE InOrder(n)' /\ WaitsForRoom(n)'
  BY DEF OrderInv
<1>1. /\ UNCHANGED <<seq, oldestUnacked, queue, numbered, pc, room>>
      /\ writeQueue'[n] = Append(c, m) /\ accepted'[n] = Append(accepted[n], m)
  BY DEF Write, endpointVars, Inv, TypeOK
<1>2. InOrder(n) /\ WaitsForRoom(n)
  <2>1. [AnyNext]_vars
    BY DEF AnyNext
  <2> QED
    BY <2>1, AcceptedGrows DEF OrderInv, Inv
<1>3. a \o b \o Append(c, m) = Append(a \o b \o c, m)
  <2>1. a \in Seq(Message) /\ b \in Seq(Message) /\ c \in Seq(Message)
    BY DEF Inv, TypeOK
  <2> HIDE DEF a, b, c
  <2> QED
    BY ZenonT(60), <2>1, InARow
<1>4. InOrder(n)'
  BY <1>1, <1>2, <1>3 DEF InOrder
<1> QED
  BY <1>1, <1>2, <1>4 DEF WaitsForRoom, Ahead, Reserved

\* Every step keeps the order of every channel.
LEMMA OrderNext ==
    ASSUME Inv, [AnyNext]_vars, NEW x \in Node, OrderInv(x)
    PROVE  OrderInv(x)'
<1> DEFINE Same == /\ numbered'[x] = numbered[x] /\ queue'[x] = queue[x]
                   /\ writeQueue'[x] = writeQueue[x] /\ accepted'[x] = accepted[x]
                   /\ Ahead(x)' = Ahead(x) /\ Reserved(x)' = Reserved(x)
<1>0. TypeOK
  BY DEF Inv
<1>1. CASE Same
  BY <1>0, <1>1, OrderFrame
<1>2. CASE UNCHANGED vars
  BY <1>0, <1>2, OrderFrame DEF vars, endpointVars, channelVars, Ahead, Reserved
<1>3. ASSUME NEW n \in Node,
             \/ ReadNext(n) \/ ReadDone(n) \/ AckDone(n) \/ WriteDone(n) \/ ResendNext(n)
             \/ Out(n)
             \/ \E dt \in 0 .. ResendAfter : Update(n, dt)
             \/ \E p \in Packets : Read(n, p)
      PROVE  Same
  <2>1. UNCHANGED <<seq, oldestUnacked, numbered, queue, writeQueue, accepted, room>>
    BY <1>3 DEF ReadNext, ReadDone, AckDone, WriteDone, ResendNext, Out, Update, Read,
                endpointVars
  <2>2. pc'[x] = pc[x] \/ (pc[x] # "draining" /\ pc'[x] # "draining")
    BY <1>0, <1>3 DEF ReadNext, ReadDone, AckDone, WriteDone, ResendNext, Out, Update, Read,
                Goto, TypeOK
  <2> QED
    BY <2>1, <2>2 DEF Ahead, Reserved
<1>4. ASSUME NEW n \in Node, n # x,
             AckNext(n) \/ DrainDone(n) \/ DrainNext(n) \/ WriteNext(n) \/ ResendDone(n)
             \/ \E m \in Message : Write(n, m)
      PROVE  Same
  <2>1. /\ numbered'[x] = numbered[x] /\ queue'[x] = queue[x]
        /\ writeQueue'[x] = writeQueue[x] /\ accepted'[x] = accepted[x]
    BY <1>0, <1>4 DEF AckNext, DrainDone, DrainNext, WriteNext, ResendDone, Write,
                WriteMessage, TypeOK
  <2>2. pc'[x] = pc[x] /\ room'[x] = room[x] /\ oldestUnacked'[x] = oldestUnacked[x]
    BY <1>0, <1>4 DEF AckNext, ACK, DrainDone, DrainNext, WriteNext, ResendDone, Write,
                Goto, TypeOK
  <2>3. seq'[x] = seq[x]
    BY <1>0, <1>4 DEF AckNext, DrainDone, DrainNext, WriteNext, ResendDone, Write,
                WriteMessage, WritePacket, NumberPacket, endpointVars, TypeOK, EndpointTypeOK
  <2> QED
    BY <2>1, <2>2, <2>3 DEF Ahead, Reserved
<1> HIDE DEF Same
<1> QED
  BY <1>1, <1>2, <1>3, <1>4, AckKeepsOrder, DrainKeepsOrder, DrainDoneKeepsOrder,
     WriteKeepsOrder, ResendDoneKeepsOrder, SubmitKeepsOrder DEF AnyNext, UpdateNext

\* Messages are numbered in the order in which Write took them: see
\* WritesInOrder.  What makes it so is WaitsForRoom: a message written later
\* finds a full window as long as one waits in queue.
THEOREM NumberedInOrder == Spec => []WritesInOrder
<1>1. ChannelInit => \A n \in Node : OrderInv(n)
  BY DEF ChannelInit, OrderInv, InOrder, WaitsForRoom
<1>2. Inv /\ (\A n \in Node : OrderInv(n)) /\ [AnyNext]_vars => (\A n \in Node : OrderInv(n))'
  BY OrderNext
<1>3. (\A n \in Node : OrderInv(n)) => WritesInOrder
  BY DEF OrderInv, InOrder, WritesInOrder
<1> QED
  BY <1>1, <1>2, <1>3, Invariance, Generalises, PTL DEF Spec

-----------------------------------------------------------------------------
(* Two channels.  What goes from n to its peer is a set W of numbered      *)
(* messages: the model keeps no record of it, so that the invariant says   *)
(* that there is one.                                                      *)

\* The numbers under which n has processed a packet.
Numbers(n) == {x[1] : x \in processed[n]}

\* p is of a numbered message in W and confirms numbers of N only.
Says(p, W, N) == <<p.seq, p.msg>> \in W /\ Confirms(p, N)

Elements(s) == {s[i] : i \in DOMAIN s}

\* The packets that n keeps, and all of its packets: those it keeps, those it
\* has put out, those on their way and those its peer has yet to read.
Buffers(n) == {packet[n][i].buf : i \in Slots(SentPacketBufferSize)}

Carried(n) == Buffers(n) \cup Elements(outQueue[n])
              \cup net[Peer(n)] \cup Elements(readQueue[Peer(n)])

\* The messages in W have numbers that n has used, in the order in which it has
\* numbered its messages.
Ordered(n, W) ==
    /\ W \subseteq SeqNum \X Message
    /\ \A x \in W : x[2] # Nil =>
          x[1] < seq[n] /\ \E i \in DOMAIN numbered[n] : numbered[n][i] = x[2]
    /\ \A x, y \in W : x[1] < y[1] /\ x[2] # Nil /\ y[2] # Nil =>
          \E i, j \in DOMAIN numbered[n] :
              i < j /\ numbered[n][i] = x[2] /\ numbered[n][j] = y[2]

\* What n has of packets that say what is in W and confirm what is in N.
Holds(n, W, N) == /\ FragmentsConfirm(n, N)
                  /\ FragmentsIn(n, W)
                  /\ Confirms(pending[n], N)
                  /\ AckedIn(n, N)
                  /\ processed[n] \subseteq W

Link(n, W) == /\ Ordered(n, W)
              /\ \A p \in Carried(n) : Says(p, W, Numbers(n))
              /\ Holds(Peer(n), W, Numbers(n))

\* Sequence numbers do not wrap: what an Update may yet number, a keep-alive
\* included, was there when it began, when it was within MaxSeq, or was written
\* since then.
Unwrapped(n) ==
    /\ seq[n] + Len(writeQueue[n]) + Len(queue[n]) + (IF pc[n] = "idle" THEN 0 ELSE 1)
          <= MaxSeq + 1 + Len(accepted[n])
    /\ Len(accepted[n]) <= MaxWrites

PairInv == /\ Inv
           /\ net \in [Node -> SUBSET Packets]
           /\ processed \in [Node -> SUBSET (SeqNum \X Message)]
           /\ \A n \in Node : /\ OrderInv(n)
                              /\ Unwrapped(n)
                              /\ ReceivedIn(n, Numbers(n))
                              /\ \E W : Link(n, W)

-----------------------------------------------------------------------------
\* There are two nodes, each the other's peer.
LEMMA Peers ==
    ASSUME NEW n \in Node
    PROVE  /\ Peer(n) \in Node /\ Peer(n) # n /\ Peer(Peer(n)) = n
           /\ \A x \in Node : x # n => x = Peer(n)
<1>1. PICK a, b \in Node : a # b /\ Node = {a, b}
  BY PairAssumption
<1>2. \E x \in Node : x # n
  BY <1>1
<1>3. Peer(n) \in Node /\ Peer(n) # n
  BY <1>2 DEF Peer
<1>4. \E x \in Node : x # Peer(n)
  BY <1>3
<1>5. Peer(Peer(n)) \in Node /\ Peer(Peer(n)) # Peer(n)
  BY <1>4 DEF Peer
<1> QED
  BY <1>1, <1>3, <1>5

\* What the ends of a sequence add to its elements.
LEMMA Ends ==
    ASSUME NEW s \in Seq(Packets), NEW e \in Packets
    PROVE  /\ Elements(Append(s, e)) = Elements(s) \cup {e}
           /\ s # <<>> => Elements(Tail(s)) \subseteq Elements(s) /\ Head(s) \in Elements(s)
<1> DEFINE l == Len(s)
<1>1. l \in Nat /\ DOMAIN s = 1 .. l
  OBVIOUS
<1>2. Elements(Append(s, e)) = Elements(s) \cup {e}
  <2>1. /\ DOMAIN Append(s, e) = 1 .. (l + 1) /\ Append(s, e)[l + 1] = e
        /\ \A i \in 1 .. l : Append(s, e)[i] = s[i]
    OBVIOUS
  <2>2. 1 .. (l + 1) = (1 .. l) \cup {l + 1}
    BY <1>1
  <2> HIDE DEF l
  <2> QED
    BY <1>1, <2>1, <2>2 DEF Elements
<1>3. ASSUME s # <<>>
      PROVE  Elements(Tail(s)) \subseteq Elements(s) /\ Head(s) \in Elements(s)
  <2>1. l >= 1 /\ Head(s) = s[1] /\ DOMAIN Tail(s) = 1 .. (l - 1)
        /\ \A i \in 1 .. (l - 1) : Tail(s)[i] = s[i + 1]
    BY <1>3
  <2>2. Head(s) \in Elements(s)
    BY <1>1, <2>1 DEF Elements
  <2>3. ASSUME NEW i \in 1 .. (l - 1) PROVE Tail(s)[i] \in Elements(s)
    <3>1. i + 1 \in 1 .. l /\ Tail(s)[i] = s[i + 1]
      BY <1>1, <2>1
    <3> QED
      BY <1>1, <3>1 DEF Elements
  <2> QED
    BY <2>1, <2>2, <2>3 DEF Elements
<1> QED
  BY <1>2, <1>3

\* A step of two channels is one of channels that are given any packets.
LEMMA PairGeneralises ==
    ASSUME net \in [Node -> SUBSET Packets], Payloads \in [Node -> SUBSET Message],
           [PairNext]_pairVars
    PROVE  [AnyNext]_vars
<1>1. CASE UNCHANGED pairVars
  BY <1>1 DEF pairVars
<1>2. ASSUME NEW n \in Node, NEW p \in net[n] PROVE p \in Packets
  BY <1>2
<1>3. ASSUME NEW n \in Node, NEW m \in Payloads[n] PROVE m \in Message
  BY <1>3
<1>4. CASE PairNext
  BY <1>2, <1>3, <1>4 DEF PairNext, AnyNext, Step, Begin, Send, Deliver, Submit
<1> QED
  BY <1>1, <1>4

\* What a node does with a packet that it reads.
Receives(n, p) ==
    /\ Reads(n, p)
    /\ UNCHANGED <<seq, sent, acked>>
    /\ \/ ~ReadAccepts(n, p) /\ UNCHANGED <<pending, processed>>
       \/ /\ ReadAccepts(n, p)
          /\ pending' = [pending EXCEPT ![n] = [ack |-> Arriving(n, p).ack,
                                                acks |-> Arriving(n, p).acks]]
          /\ processed' = [processed EXCEPT ![n] =
                              @ \cup {<<p.seq, Arriving(n, p).msg>>}]

\* What a node does with a confirmation that is pending.
Marks(n) ==
    /\ UNCHANGED <<sent, recv, assembler, fragment, processed>>
    /\ \E i \in pending[n].acks :
          /\ AwaitsACK(n, Minus(pending[n].ack, i))
          /\ acked' = [acked EXCEPT ![n][Slot(SentPacketBufferSize,
                                              Minus(pending[n].ack, i))] = TRUE]
    /\ \E s \in SUBSET pending[n].acks : pending' = [pending EXCEPT ![n].acks = s]

\* ReadNext of two channels.
LEMMA StepReads ==
    ASSUME Inv, NEW n \in Node, Step(n), ReadNext(n)
    PROVE  Head(readQueue[n]) \in Packets /\ Receives(n, Head(readQueue[n]))
<1> DEFINE p == Head(readQueue[n])
<1>1. p \in Packets /\ EndpointTypeOK /\ pc[n] = "reading"
  BY DEF ReadNext, Inv, TypeOK
<1>2. UNCHANGED <<seq, sent, acked>>
  BY DEF ReadNext
<1>3. Arriving(n, p).seq = p.seq
  BY <1>1, ArrivingType
<1>4. CASE ReadFails(n, p) /\ Goto(n, "idle") /\ UNCHANGED pending
  <2>1. pc'[n] = "idle"
    BY <1>4 DEF Goto, Inv, TypeOK
  <2>2. processed' = processed
    BY <2>1 DEF Step
  <2>3. ~ReadAccepts(n, p)
    BY <1>4 DEF ReadFails, ReadAccepts, ReadsWhole
  <2> QED
    BY <1>1, <1>2, <1>4, <2>2, <2>3 DEF Receives, Reads
<1>5. CASE ReadStores(n, p) /\ UNCHANGED <<pc, pending>>
  <2>1. processed' = processed
    BY <1>1, <1>5 DEF Step
  <2>2. ~ReadAccepts(n, p)
    BY <1>5 DEF ReadStores, ReadAccepts, ReadsWhole
  <2> QED
    BY <1>1, <1>2, <1>5, <2>1, <2>2 DEF Receives, Reads
<1>6. CASE /\ ReadAccepts(n, p)
           /\ Goto(n, "acking")
           /\ pending' = [pending EXCEPT ![n] = [ack |-> Arriving(n, p).ack,
                                                 acks |-> Arriving(n, p).acks]]
  <2>1. pc'[n] = "acking"
    BY <1>6 DEF Goto, Inv, TypeOK
  <2>2. processed' = [processed EXCEPT ![n] = @ \cup {<<p.seq, Arriving(n, p).msg>>}]
    BY <1>1, <1>3, <2>1 DEF Step
  <2> QED
    BY <1>1, <1>2, <1>6, <2>2 DEF Receives, Reads
<1> HIDE DEF p
<1>7. \/ ReadFails(n, p) /\ Goto(n, "idle") /\ UNCHANGED pending
      \/ ReadStores(n, p) /\ UNCHANGED <<pc, pending>>
      \/ /\ ReadAccepts(n, p)
         /\ Goto(n, "acking")
         /\ pending' = [pending EXCEPT ![n] = [ack |-> Arriving(n, p).ack,
                                               acks |-> Arriving(n, p).acks]]
  BY DEF ReadNext, p
<1> QED
  BY <1>1, <1>4, <1>5, <1>6, <1>7 DEF p

\* processACKs of two channels.
LEMMA StepMarks ==
    ASSUME Inv, NEW n \in Node, Step(n), AckNext(n)
    PROVE  Marks(n)
<1>1. pc[n] = "acking" /\ UNCHANGED <<sent, recv, assembler, fragment>>
  BY DEF AckNext
<1>2. processed' = processed
  BY <1>1 DEF Step
<1>3. PICK i \in Unmarked(n) :
         /\ acked' = [acked EXCEPT ![n][Slot(SentPacketBufferSize,
                                             Minus(pending[n].ack, i))] = TRUE]
         /\ pending' = [pending EXCEPT ![n].acks = {j \in @ : j > i}]
  BY DEF AckNext
<1>4. i \in pending[n].acks /\ AwaitsACK(n, Minus(pending[n].ack, i))
  BY DEF Unmarked
<1>5. /\ {j \in pending[n].acks : j > i} \in SUBSET pending[n].acks
      /\ pending' = [pending EXCEPT ![n].acks = {j \in pending[n].acks : j > i}]
  BY <1>3 DEF Inv, TypeOK
<1> QED
  BY <1>1, <1>2, <1>3, <1>4, <1>5 DEF Marks

\* What a node does when it numbers a message or a keep-alive.
NumbersMessage(n, m) ==
    /\ ~Oversize(m)
    /\ WritePacket(n, m)
    /\ \/ m = Nil /\ numbered' = numbered
       \/ numbered' = [numbered EXCEPT ![n] = Append(@, m)]
    /\ UNCHANGED <<recv, assembler, fragment, pending, processed, accepted, outQueue,
                   readQueue, net>>

\* What it does in between.
Quiet(n) == /\ UNCHANGED <<endpointVars, numbered, processed>>
            /\ \/ pending' = pending
               \/ pending' = [pending EXCEPT ![n] = [ack |-> 0, acks |-> {}]]

\* Where packets move to from where they are: no step makes a packet, except
\* the one that numbers a message.
LEMMA Moves ==
    ASSUME NEW x \in Node,
           Buffers(x)' \subseteq Carried(x), Elements(outQueue[x])' \subseteq Carried(x),
           net'[Peer(x)] \subseteq Carried(x), Elements(readQueue[Peer(x)])' \subseteq Carried(x)
    PROVE  Carried(x)' \subseteq Carried(x)
  BY DEF Carried, Peer

\* What stays where it is needs no reason.
LEMMA CarriedStays ==
    ASSUME NEW x \in Node,
           packet'[x] = packet[x] \/ Buffers(x)' \subseteq Carried(x),
           outQueue'[x] = outQueue[x] \/ Elements(outQueue[x])' \subseteq Carried(x),
           net'[Peer(x)] = net[Peer(x)] \/ net'[Peer(x)] \subseteq Carried(x),
           readQueue'[Peer(x)] = readQueue[Peer(x)]
              \/ Elements(readQueue[Peer(x)])' \subseteq Carried(x)
    PROVE  Carried(x)' \subseteq Carried(x)
<1>1. Buffers(x)' \subseteq Carried(x)
  BY DEF Carried, Buffers
<1>2. Elements(outQueue[x])' \subseteq Carried(x)
  BY DEF Carried, Elements
<1>3. net'[Peer(x)] \subseteq Carried(x)
  BY DEF Carried
<1>4. Elements(readQueue[Peer(x)])' \subseteq Carried(x)
  BY DEF Carried, Elements
<1> QED
  BY <1>1, <1>2, <1>3, <1>4, Moves

\* What is sent comes from outQueue.
LEMMA SendCarries ==
    ASSUME PairInv, NEW n \in Node, Send(n), NEW x \in Node
    PROVE  Carried(x)' \subseteq Carried(x)
<1>1. /\ UNCHANGED <<packet, readQueue>>
      /\ outQueue[n] # <<>> /\ outQueue[n] \in Seq(Packets)
      /\ outQueue' = [outQueue EXCEPT ![n] = Tail(@)]
      /\ net' = [net EXCEPT ![Peer(n)] = @ \cup {Head(outQueue[n])}]
      /\ outQueue \in [Node -> Seq(Packets)] /\ net \in [Node -> SUBSET Packets]
  BY DEF Send, Out, PairInv, Inv, TypeOK
<1>2. /\ Elements(Tail(outQueue[n])) \subseteq Elements(outQueue[n])
      /\ Head(outQueue[n]) \in Elements(outQueue[n])
  <2>1. PICK s \in Seq(Packets) : s = outQueue[n]
    BY <1>1
  <2>2. Head(s) \in Packets
    BY <1>1, <2>1
  <2>3. Elements(Tail(s)) \subseteq Elements(s) /\ Head(s) \in Elements(s)
    BY <1>1, <2>1, <2>2, Ends
  <2> QED
    BY <2>1, <2>3
<1>3. CASE x = n
  <2>1. outQueue'[x] = Tail(outQueue[n])
    BY <1>1, <1>3
  <2>2. Elements(outQueue[x])' = Elements(Tail(outQueue[n]))
    BY <2>1 DEF Elements
  <2>3. net'[Peer(x)] \subseteq net[Peer(x)] \cup {Head(outQueue[n])}
    BY <1>1, <1>3, Peers
  <2> QED
    BY <1>1, <1>2, <1>3, <2>2, <2>3, CarriedStays DEF Carried
<1>4. CASE x # n
  <2>1. outQueue'[x] = outQueue[x] /\ Peer(x) # Peer(n)
    BY <1>1, <1>4, Peers
  <2>2. net'[Peer(x)] = net[Peer(x)]
    BY <1>1, <2>1, Peers
  <2> QED
    BY <1>1, <2>1, <2>2, CarriedStays
<1> QED
  BY <1>3, <1>4

\* What is delivered comes from the network.
LEMMA DeliverCarries ==
    ASSUME PairInv, NEW n \in Node, NEW p \in net[n], Deliver(n, p), NEW x \in Node
    PROVE  Carried(x)' \subseteq Carried(x)
<1>1. /\ UNCHANGED <<packet, outQueue, net>>
      /\ readQueue' = [readQueue EXCEPT ![n] = Append(@, p)]
      /\ readQueue \in [Node -> Seq(Packets)] /\ p \in Packets
  BY DEF Deliver, Read, PairInv, Inv, TypeOK
<1>2. CASE Peer(x) = n
  <2>1. PICK s \in Seq(Packets) : s = readQueue[n]
    BY <1>1
  <2>2. Elements(Append(s, p)) = Elements(s) \cup {p}
    BY <1>1, Ends
  <2>3. readQueue'[Peer(x)] = Append(s, p)
    BY <1>1, <1>2, <2>1
  <2>4. Elements(readQueue[Peer(x)])' = Elements(Append(s, p))
    BY <2>3 DEF Elements
  <2>5. Elements(readQueue[Peer(x)])' \subseteq Carried(x)
    BY <1>2, <2>1, <2>2, <2>4 DEF Carried
  <2> QED
    BY <1>1, <2>5, CarriedStays
<1>3. CASE Peer(x) # n
  BY <1>1, <1>3, Peers, CarriedStays
<1> QED
  BY <1>2, <1>3

\* What is read was carried, and is dropped.
LEMMA ReadCarries ==
    ASSUME PairInv, NEW n \in Node, Step(n), ReadNext(n), NEW x \in Node
    PROVE  /\ Carried(x)' \subseteq Carried(x)
           /\ Head(readQueue[n]) \in Carried(Peer(n))
<1>1. /\ UNCHANGED <<packet, outQueue, net>>
      /\ readQueue' = [readQueue EXCEPT ![n] = Tail(@)]
      /\ readQueue \in [Node -> Seq(Packets)] /\ readQueue[n] # <<>>
  BY DEF Step, ReadNext, PairInv, Inv, TypeOK
<1>2. PICK s \in Seq(Packets) : s = readQueue[n]
  BY <1>1
<1>3. Elements(Tail(s)) \subseteq Elements(s) /\ Head(s) \in Elements(s)
  <2>1. Head(s) \in Packets
    BY <1>1, <1>2
  <2> QED
    BY <1>1, <1>2, <2>1, Ends
<1>4. Head(readQueue[n]) \in Carried(Peer(n))
  BY <1>2, <1>3, Peers DEF Carried
<1>5. CASE Peer(x) = n
  <2>1. readQueue'[Peer(x)] = Tail(s)
    BY <1>1, <1>2, <1>5
  <2>2. Elements(readQueue[Peer(x)])' = Elements(Tail(s))
    BY <2>1 DEF Elements
  <2>3. Elements(readQueue[Peer(x)])' \subseteq Carried(x)
    BY <1>2, <1>3, <1>5, <2>2 DEF Carried
  <2> QED
    BY <1>1, <1>4, <2>3, CarriedStays
<1>6. CASE Peer(x) # n
  BY <1>1, <1>4, <1>6, Peers, CarriedStays
<1> QED
  BY <1>5, <1>6

\* What is put out is one of the packets kept.
LEMMA ResendCarries ==
    ASSUME PairInv, NEW n \in Node, Step(n), ResendNext(n), NEW x \in Node
    PROVE  Carried(x)' \subseteq Carried(x)
<1> DEFINE T == [written : BOOLEAN, age : 0 .. ResendAfter, buf : Packets]
           S == Slots(SentPacketBufferSize)
<1>1. /\ UNCHANGED <<readQueue, net>>
      /\ outQueue \in [Node -> Seq(Packets)] /\ packet \in [Node -> [S -> T]]
  BY DEF Step, ResendNext, PairInv, Inv, TypeOK
<1>2. PICK k \in 0 .. RecvPacketBufferSize :
         LET i == WindowSlot(Plus(oldestUnacked[n], k))
         IN  /\ packet' = [packet EXCEPT ![n][i].written = TRUE, ![n][i].age = 0]
             /\ outQueue' = [outQueue EXCEPT ![n] = Append(@, packet[n][i].buf)]
  BY DEF ResendNext
<1>3. PICK i : i = WindowSlot(Plus(oldestUnacked[n], k))
  OBVIOUS
<1>4. i \in S
  <2>1. oldestUnacked[n] \in SeqNum /\ k \in SeqNum
    BY Sizes DEF PairInv, Inv, TypeOK, SeqNum
  <2>2. Plus(oldestUnacked[n], k) \in SeqNum
    BY <2>1, SeqNumArithmetic
  <2> QED
    BY <1>3, <2>2, SlotInRange, Sizes DEF WindowSlot
<1>5. /\ packet' = [packet EXCEPT ![n] = [packet[n] EXCEPT ![i] =
                      [packet[n][i] EXCEPT !.written = TRUE, !.age = 0]]]
      /\ outQueue' = [outQueue EXCEPT ![n] = Append(outQueue[n], packet[n][i].buf)]
  BY <1>1, <1>2, <1>3, <1>4
<1>6. Buffers(x)' \subseteq Buffers(x)
  <2>1. CASE x = n
    <3>1. packet'[n] = [packet[n] EXCEPT ![i] =
                           [packet[n][i] EXCEPT !.written = TRUE, !.age = 0]]
      BY <1>1, <1>5
    <3>2. \A j \in S : packet'[n][j].buf = packet[n][j].buf
      <4>1. packet[n] \in [S -> T]
        BY <1>1
      <4>2. [packet[n][i] EXCEPT !.written = TRUE, !.age = 0].buf = packet[n][i].buf
        BY <1>4, <4>1
      <4> QED
        BY <1>4, <3>1, <4>1, <4>2
    <3> QED
      BY <2>1, <3>2 DEF Buffers
  <2>2. CASE x # n
    BY <1>1, <1>5, <2>2 DEF Buffers
  <2> QED
    BY <2>1, <2>2
<1>7. outQueue'[x] = outQueue[x] \/ Elements(outQueue[x])' \subseteq Carried(x)
  <2>1. CASE x = n
    <3>1. PICK s \in Seq(Packets) : s = outQueue[n]
      BY <1>1
    <3>2. PICK b \in Packets : b = packet[n][i].buf
      BY <1>1, <1>4
    <3>3. outQueue'[x] = Append(s, b) /\ b \in Buffers(x)
      BY <1>1, <1>4, <1>5, <2>1, <3>1, <3>2 DEF Buffers
    <3>4. Elements(outQueue[x])' = Elements(s) \cup {b}
      BY <3>3, Ends DEF Elements
    <3> QED
      BY <2>1, <3>1, <3>3, <3>4 DEF Carried
  <2>2. CASE x # n
    BY <1>1, <1>5, <2>2
  <2> QED
    BY <2>1, <2>2
<1> QED
  BY <1>1, <1>6, <1>7, CarriedStays DEF Carried

\* The packets kept only age.
LEMMA UpdateCarries ==
    ASSUME PairInv, NEW n \in Node, NEW dt \in 0 .. ResendAfter, Update(n, dt),
           net' = net, NEW x \in Node
    PROVE  Carried(x)' \subseteq Carried(x)
<1> DEFINE T == [written : BOOLEAN, age : 0 .. ResendAfter, buf : Packets]
           S == Slots(SentPacketBufferSize)
<1>1. /\ UNCHANGED <<readQueue, outQueue, net>> /\ packet \in [Node -> [S -> T]]
      /\ packet' = [packet EXCEPT ![n] = [i \in DOMAIN @ |-> Aged(@[i], dt)]]
  BY DEF Update, PairInv, Inv, TypeOK
<1>2. ASSUME NEW b \in T PROVE Aged(b, dt).buf = b.buf
  BY DEF Aged
<1>3. Buffers(x)' \subseteq Buffers(x)
  <2>1. packet'[x] = packet[x] \/ packet'[x] = [i \in S |-> Aged(packet[x][i], dt)]
    BY <1>1
  <2>2. \A i \in S : packet'[x][i].buf = packet[x][i].buf
    BY <1>1, <1>2, <2>1
  <2> QED
    BY <2>2 DEF Buffers
<1> QED
  BY <1>1, <1>3, CarriedStays DEF Carried

\* WritePacket adds the packet it keeps.
LEMMA WriteCarries ==
    ASSUME PairInv, NEW n \in Node, NEW m \in Message, ~Oversize(m), WritePacket(n, m),
           UNCHANGED <<outQueue, net, readQueue>>, NEW x \in Node
    PROVE  \/ Carried(x)' \subseteq Carried(x)
           \/ x = n /\ Carried(x)' \subseteq Carried(x)
                         \cup {NextTransmitted(n, m)[Len(NextTransmitted(n, m))]}
<1>1. PICK p : p = NextTransmitted(n, m)[Len(NextTransmitted(n, m))]
  OBVIOUS
<1>2. PICK i : i = WindowSlot(seq[n])
  OBVIOUS
<1>3. packet' = [packet EXCEPT ![n][i] = [Blank EXCEPT !.buf = p]]
  BY <1>1, <1>2 DEF WritePacket
<1>4. [Blank EXCEPT !.buf = p].buf = p
  BY DEF Blank
<1>5. packet \in [Node -> [Slots(SentPacketBufferSize) ->
                 [written : BOOLEAN, age : 0 .. ResendAfter, buf : Packets]]]
  BY DEF PairInv, Inv, TypeOK
<1>6. CASE x # n
  <2>1. packet'[x] = packet[x]
    BY <1>3, <1>5, <1>6
  <2> QED
    BY <2>1, CarriedStays
<1>7. CASE x = n
  <2>1. \A j \in Slots(SentPacketBufferSize) :
           packet'[n][j] = packet[n][j] \/ packet'[n][j] = [Blank EXCEPT !.buf = p]
    BY <1>3, <1>5
  <2>2. Buffers(x)' \subseteq Buffers(x) \cup {p}
    BY <1>4, <1>7, <2>1 DEF Buffers
  <2>3. Carried(x)' \subseteq Carried(x) \cup {p}
    BY <2>2 DEF Carried, Elements, Peer
  <2> QED
    BY <1>1, <1>7, <2>3
<1> QED
  BY <1>6, <1>7

\* The next number, as long as Update is under way.
LEMMA NextNumber ==
    ASSUME PairInv, NEW n \in Node, pc[n] # "idle"
    PROVE  /\ seq[n] \in Nat /\ seq[n] + 1 \in SeqNum
           /\ \A m \in Message : WritePacket(n, m) /\ ~Oversize(m) =>
                 seq' = [seq EXCEPT ![n] = seq[n] + 1]
<1>1. PICK a, b, c \in Nat : a = Len(writeQueue[n]) /\ b = Len(queue[n]) /\ c = Len(accepted[n])
  BY DEF PairInv, Inv, TypeOK
<1>2. PICK q \in SeqNum : q = seq[n]
  BY DEF PairInv, Inv, TypeOK, EndpointTypeOK
<1>3. q + a + b + 1 <= MaxSeq + 1 + c /\ c <= MaxWrites
  BY <1>1, <1>2 DEF PairInv, Unwrapped
<1>4. q \in Nat /\ q + 1 < M
  <2>1. PICK h \in Nat : h = HalfMaxUint16 /\ 2 * h = M
    BY HalfOfM
  <2>2. MaxSeq \in Nat /\ MaxSeq <= h - 1 /\ MaxWrites \in Nat /\ MaxWrites <= h - 1
    BY <2>1, PairAssumption, ChannelAssumption
  <2>3. q \in Nat
    BY MAssumption DEF SeqNum
  <2>4. q + 1 <= (h - 1) + 1 + (h - 1)
    BY <1>3, <2>2, <2>3
  <2> QED
    BY <2>1, <2>3, <2>4
<1>5. Plus(q, 1) = q + 1
  BY <1>4, SeqNumArithmetic, SmallNumbers
<1>6. q + 1 \in SeqNum
  BY <1>4, MAssumption DEF SeqNum
<1> QED
  BY <1>2, <1>4, <1>5, <1>6 DEF WritePacket, NumberPacket

\* The steps of two channels, as far as what they tell each other goes.
LEMMA PairSteps ==
    ASSUME PairInv, PairNext
    PROVE  \E n \in Node :
              \/ Step(n) /\ ReadNext(n)
              \/ Step(n) /\ AckNext(n)
              \/ \E m \in Message : pc[n] # "idle" /\ NumbersMessage(n, m)
              \/ Quiet(n) /\ \A x \in Node : Carried(x)' \subseteq Carried(x)
<1> USE DEF endpointVars
<1>0. Inv /\ TypeOK
  BY DEF PairInv, Inv
<1>1. ASSUME NEW n \in Node, Step(n), DrainNext(n) \/ WriteNext(n) \/ ResendDone(n)
      PROVE  \/ \E m \in Message : pc[n] # "idle" /\ NumbersMessage(n, m)
             \/ Quiet(n) /\ \A x \in Node : Carried(x)' \subseteq Carried(x)
  <2> DEFINE Numbered(m) == \/ WriteMessage(n, m)
                            \/ m = Nil /\ WritePacket(n, m) /\ numbered' = numbered
  <2>1. UNCHANGED <<recv, assembler, fragment, pending, accepted, outQueue, readQueue, net>>
        /\ pc[n] \in {"draining", "writing", "resending"}
    BY <1>1 DEF Step, DrainNext, WriteNext, ResendDone
  <2>2. processed' = processed
    BY <1>1, <2>1 DEF Step
  <2>3. ASSUME NEW m \in Message, Numbered(m)
        PROVE  \/ NumbersMessage(n, m)
               \/ Quiet(n) /\ UNCHANGED packet
    <3>1. CASE Oversize(m)
      BY <2>1, <2>2, <2>3, <3>1 DEF WriteMessage, WritePacket, NumberPacket, Quiet
    <3>2. CASE ~Oversize(m)
      BY <2>1, <2>2, <2>3, <3>2 DEF WriteMessage, NumbersMessage
    <3> QED
      BY <3>1, <3>2
  <2>4. ASSUME UNCHANGED packet
        PROVE  \A x \in Node : Carried(x)' \subseteq Carried(x)
    BY <2>1, <2>4, CarriedStays
  <2>5. \/ \E m \in Message : Numbered(m)
        \/ Quiet(n) /\ UNCHANGED packet
    <3>1. CASE DrainNext(n)
      <4>1. Head(queue[n]) \in Message /\ Numbered(Head(queue[n]))
        BY <1>0, <3>1 DEF DrainNext, TypeOK
      <4> HIDE DEF Numbered
      <4> QED
        BY <4>1
    <3>2. CASE WriteNext(n)
      <4>1. Head(writeQueue[n]) \in Message
        BY <1>0, <3>2 DEF WriteNext, TypeOK
      <4>2. CASE WindowFull(n)
        BY <2>1, <2>2, <3>2, <4>2 DEF WriteNext, Quiet
      <4>3. CASE ~WindowFull(n)
        <5>1. Numbered(Head(writeQueue[n]))
          BY <3>2, <4>3 DEF WriteNext
        <5> HIDE DEF Numbered
        <5> QED
          BY <4>1, <5>1
      <4> QED
        BY <4>2, <4>3
    <3>3. CASE ResendDone(n)
      <4>1. CASE lastSent[n] >= ResendAfter
        <5>1. Numbered(Nil) /\ Nil \in Message
          BY <3>3, <4>1, EndpointAssumption DEF ResendDone
        <5> HIDE DEF Numbered
        <5> QED
          BY <5>1
      <4>2. CASE ~(lastSent[n] >= ResendAfter)
        BY <2>1, <2>2, <3>3, <4>2 DEF ResendDone, Quiet
      <4> QED
        BY <4>1, <4>2
    <3> QED
      BY <1>1, <3>1, <3>2, <3>3
  <2> QED
    BY <2>1, <2>3, <2>4, <2>5
<1>2. ASSUME NEW n \in Node, Step(n),
             ReadDone(n) \/ AckDone(n) \/ DrainDone(n) \/ WriteDone(n) \/ ResendNext(n)
      PROVE  Quiet(n) /\ \A x \in Node : Carried(x)' \subseteq Carried(x)
  <2>1. pc[n] # "reading" \/ pc'[n] # "acking"
    BY <1>0, <1>2 DEF ReadDone, AckDone, DrainDone, WriteDone, ResendNext, Goto, TypeOK
  <2>2. processed' = processed /\ net' = net
    BY <1>2, <2>1 DEF Step
  <2>3. Quiet(n)
    BY <1>2, <2>2 DEF Quiet, ReadDone, AckDone, DrainDone, WriteDone, ResendNext
  <2>4. CASE ResendNext(n)
    BY <1>2, <2>3, <2>4, ResendCarries
  <2>5. CASE ReadDone(n) \/ AckDone(n) \/ DrainDone(n) \/ WriteDone(n)
    <3>1. UNCHANGED <<packet, outQueue, readQueue>>
      BY <2>5 DEF ReadDone, AckDone, DrainDone, WriteDone
    <3> QED
      BY <2>2, <2>3, <3>1, CarriedStays
  <2> QED
    BY <1>2, <2>4, <2>5
<1>3. ASSUME NEW n \in Node, NEW dt \in 0 .. ResendAfter, Begin(n, dt)
      PROVE  Quiet(n) /\ \A x \in Node : Carried(x)' \subseteq Carried(x)
  BY <1>3, UpdateCarries DEF Begin, Update, Quiet
<1>4. ASSUME NEW n \in Node, Send(n)
      PROVE  Quiet(n) /\ \A x \in Node : Carried(x)' \subseteq Carried(x)
  BY <1>4, SendCarries DEF Send, Out, Quiet
<1>5. ASSUME NEW n \in Node, NEW p \in net[n], Deliver(n, p)
      PROVE  Quiet(n) /\ \A x \in Node : Carried(x)' \subseteq Carried(x)
  BY <1>5, DeliverCarries DEF Deliver, Read, Quiet
<1>6. ASSUME NEW n \in Node, NEW m \in Payloads[n], Submit(n, m)
      PROVE  Quiet(n) /\ \A x \in Node : Carried(x)' \subseteq Carried(x)
  BY <1>6, CarriedStays DEF Submit, Write, Quiet
<1>7. ASSUME NEW n \in Node, Step(n)
      PROVE  \/ ReadNext(n) \/ AckNext(n)
             \/ DrainNext(n) \/ WriteNext(n) \/ ResendDone(n)
             \/ ReadDone(n) \/ AckDone(n) \/ DrainDone(n) \/ WriteDone(n) \/ ResendNext(n)
  BY <1>7 DEF Step, UpdateNext
<1> QED
  BY <1>1, <1>2, <1>3, <1>4, <1>5, <1>6, <1>7 DEF PairNext

-----------------------------------------------------------------------------
\* Sequence numbers do not come to wrap.
LEMMA UnwrappedNext ==
    ASSUME PairInv, PairNext, NEW x \in Node
    PROVE  Unwrapped(x)'
<1> USE DEF endpointVars
<1> DEFINE Still == UNCHANGED <<seq, writeQueue, queue, accepted>>
           OneLess(s, t) == s # <<>> /\ t = Tail(s)
<1>0. /\ TypeOK /\ Unwrapped(x) /\ MaxSeq \in Nat /\ MaxWrites \in Nat
      /\ seq \in [Node -> SeqNum]
      /\ writeQueue \in [Node -> Seq(Message)] /\ queue \in [Node -> Seq(Message)]
      /\ accepted \in [Node -> Seq(Message)]
  <2>1. MaxSeq \in Nat /\ MaxWrites \in Nat
    BY PairAssumption, ChannelAssumption
  <2> QED
    BY <2>1 DEF PairInv, Inv, TypeOK, EndpointTypeOK
<1>1. PICK q, a, b, c \in Nat :
         /\ q = seq[x] /\ a = Len(writeQueue[x]) /\ b = Len(queue[x]) /\ c = Len(accepted[x])
  BY <1>0, MAssumption DEF SeqNum
<1>2. PICK i \in {0, 1} : i = IF pc[x] = "idle" THEN 0 ELSE 1
  OBVIOUS
<1>3. PICK i2 \in {0, 1} : i2 = IF pc'[x] = "idle" THEN 0 ELSE 1
  OBVIOUS
<1>4. q + a + b + i <= MaxSeq + 1 + c /\ c <= MaxWrites
  BY <1>1, <1>2 DEF PairInv, Unwrapped
<1>5. ASSUME NEW q2 \in Nat, NEW a2 \in Nat, NEW b2 \in Nat, NEW c2 \in Nat,
             q2 = seq'[x], a2 = Len(writeQueue'[x]), b2 = Len(queue'[x]),
             c2 = Len(accepted'[x]),
             q2 + a2 + b2 + i2 <= MaxSeq + 1 + c2 /\ c2 <= MaxWrites
      PROVE  Unwrapped(x)'
  BY <1>3, <1>5 DEF Unwrapped
<1>6. CASE /\ seq'[x] = seq[x] /\ writeQueue'[x] = writeQueue[x] /\ queue'[x] = queue[x]
           /\ accepted'[x] = accepted[x] /\ i2 <= i
  <2>1. q + a + b + i2 <= MaxSeq + 1 + c
    BY <1>0, <1>4, <1>6
  <2> QED
    BY <1>1, <1>4, <1>5, <1>6, <2>1
<1>7. ASSUME NEW n \in Node, n # x, PairNext,
             \/ UpdateNext(n)
             \/ \E dt \in 0 .. ResendAfter : Update(n, dt)
             \/ \E p : Read(n, p)
             \/ \E m : Write(n, m)
             \/ Out(n)
      PROVE  Unwrapped(x)'
  <2>1. /\ writeQueue'[x] = writeQueue[x] /\ queue'[x] = queue[x]
        /\ accepted'[x] = accepted[x] /\ seq'[x] = seq[x]
    BY <1>0, <1>7 DEF UpdateNext, ReadNext, ReadDone, AckNext, AckDone, DrainNext, DrainDone,
         WriteNext, WriteDone, ResendNext, ResendDone, Update, Read, Write, Out,
         WriteMessage, WritePacket, NumberPacket
  <2>2. pc'[x] = pc[x]
    BY <1>0, <1>7 DEF UpdateNext, ReadNext, ReadDone, AckNext, ACK, AckDone, DrainNext,
         DrainDone, WriteNext, WriteDone, ResendNext, ResendDone, Update, Read, Write, Out,
         Goto, TypeOK
  <2> QED
    BY <1>2, <1>3, <1>6, <2>1, <2>2
<1>8. CASE \/ ReadNext(x) \/ ReadDone(x) \/ AckNext(x) \/ AckDone(x) \/ DrainDone(x)
           \/ WriteDone(x) \/ ResendNext(x) \/ Out(x) \/ \E p : Read(x, p)
  <2>1. Still
    BY <1>8 DEF ReadNext, ReadDone, AckNext, AckDone, DrainDone, WriteDone, ResendNext, Out, Read
  <2>2. pc'[x] = pc[x] \/ pc[x] # "idle"
    BY <1>8 DEF ReadNext, ReadDone, AckNext, AckDone, DrainDone, WriteDone, ResendNext, Out, Read
  <2> QED
    BY <1>2, <1>3, <1>6, <2>1, <2>2
<1>9. CASE DrainNext(x) \/ WriteNext(x)
  <2>1. /\ pc[x] # "idle" /\ pc' = pc /\ accepted' = accepted
        /\ \/ OneLess(queue[x], queue'[x]) /\ writeQueue'[x] = writeQueue[x]
           \/ OneLess(writeQueue[x], writeQueue'[x]) /\ queue'[x] = queue[x]
           \/ /\ OneLess(writeQueue[x], writeQueue'[x])
              /\ queue'[x] = Append(queue[x], Head(writeQueue[x])) /\ seq' = seq
    BY <1>0, <1>9 DEF DrainNext, WriteNext
  <2>2. seq'[x] = seq[x] \/ seq'[x] = seq[x] + 1
    <3>1. \/ seq' = seq
          \/ \E m \in Message : WritePacket(x, m)
      <4>1. CASE DrainNext(x)
        <5>1. Head(queue[x]) \in Message
          BY <1>0, <4>1 DEF DrainNext
        <5> QED
          BY <4>1, <5>1 DEF DrainNext, WriteMessage
      <4>2. CASE WriteNext(x)
        <5>1. Head(writeQueue[x]) \in Message
          BY <1>0, <4>2 DEF WriteNext
        <5> QED
          BY <4>2, <5>1 DEF WriteNext, WriteMessage
      <4> QED
        BY <1>9, <4>1, <4>2
    <3>2. ASSUME NEW m \in Message, WritePacket(x, m)
          PROVE  seq' = seq \/ seq' = [seq EXCEPT ![x] = seq[x] + 1]
      BY <2>1, <3>2, NextNumber DEF WritePacket, NumberPacket
    <3> QED
      BY <1>0, <3>1, <3>2
  <2>3. i = 1 /\ i2 = 1 /\ c = Len(accepted'[x])
    BY <1>1, <1>2, <1>3, <2>1
  <2>4. PICK q2, a2, b2 \in Nat :
           /\ q2 = seq'[x] /\ a2 = Len(writeQueue'[x]) /\ b2 = Len(queue'[x])
           /\ q2 + a2 + b2 <= q + a + b
    <3>1. PICK q2 \in Nat : q2 = seq'[x] /\ (q2 = q \/ q2 = q + 1)
      BY <1>1, <2>2
    <3>2. PICK s \in Seq(Message) : s = queue[x]
      BY <1>0
    <3>3. PICK t \in Seq(Message) : t = writeQueue[x]
      BY <1>0
    <3>4. Len(s) = b /\ Len(t) = a
      BY <1>1, <3>2, <3>3
    <3>5. s # <<>> => Len(Tail(s)) = b - 1 /\ b - 1 \in Nat
      BY <3>4
    <3>6. t # <<>> => Len(Tail(t)) = a - 1 /\ a - 1 \in Nat /\ Len(Append(s, Head(t))) = b + 1
      BY <3>4
    <3>7. CASE OneLess(queue[x], queue'[x]) /\ writeQueue'[x] = writeQueue[x]
      <4>1. Len(queue'[x]) = b - 1 /\ b - 1 \in Nat /\ Len(writeQueue'[x]) = a
        BY <3>2, <3>3, <3>4, <3>5, <3>7
      <4>2. q2 + a + (b - 1) <= q + a + b
        BY <3>1
      <4> QED
        BY <3>1, <4>1, <4>2
    <3>8. CASE OneLess(writeQueue[x], writeQueue'[x]) /\ queue'[x] = queue[x]
      <4>1. Len(writeQueue'[x]) = a - 1 /\ a - 1 \in Nat /\ Len(queue'[x]) = b
        BY <3>2, <3>3, <3>4, <3>6, <3>8
      <4>2. q2 + (a - 1) + b <= q + a + b
        BY <3>1
      <4> QED
        BY <3>1, <4>1, <4>2
    <3>9. CASE /\ OneLess(writeQueue[x], writeQueue'[x])
               /\ queue'[x] = Append(queue[x], Head(writeQueue[x])) /\ seq' = seq
      <4>1. /\ Len(writeQueue'[x]) = a - 1 /\ a - 1 \in Nat
            /\ Len(queue'[x]) = b + 1 /\ b + 1 \in Nat
        BY <3>2, <3>3, <3>4, <3>6, <3>9
      <4>2. q2 + (a - 1) + (b + 1) <= q + a + b
        <5>1. q2 = q
          BY <1>1, <3>1, <3>9
        <5> QED
          BY <5>1
      <4> QED
        BY <3>1, <4>1, <4>2
    <3> HIDE DEF OneLess
    <3> QED
      BY <2>1, <3>7, <3>8, <3>9
  <2>5. q2 + a2 + b2 + i2 <= MaxSeq + 1 + c
    <3>1. MaxSeq \in Nat /\ q2 + a2 + b2 <= q + a + b /\ i = 1 /\ i2 = 1
      BY <1>0, <2>3, <2>4
    <3> QED
      BY <1>4, <3>1
  <2> QED
    BY <1>4, <1>5, <2>3, <2>4, <2>5
<1>10. CASE ResendDone(x)
  <2>1. pc[x] = "resending" /\ pc'[x] = "idle" /\ UNCHANGED <<queue, writeQueue, accepted>>
    BY <1>0, <1>10 DEF ResendDone, Goto, TypeOK
  <2>2. seq'[x] = q \/ seq'[x] = q + 1
    <3>1. WritePacket(x, Nil) \/ seq' = seq
      BY <1>10 DEF ResendDone
    <3>2. WritePacket(x, Nil) => seq' = seq \/ seq' = [seq EXCEPT ![x] = seq[x] + 1]
      BY <2>1, NextNumber, EndpointAssumption DEF WritePacket, NumberPacket
    <3> QED
      BY <1>0, <1>1, <3>1, <3>2
  <2>3. i = 1 /\ i2 = 0
    BY <1>2, <1>3, <2>1
  <2>4. PICK q2 \in Nat : q2 = seq'[x] /\ q2 <= q + 1
    BY <2>2
  <2>5. q2 + a + b + i2 <= MaxSeq + 1 + c
    BY <1>0, <1>4, <2>3, <2>4
  <2> QED
    BY <1>1, <1>4, <1>5, <2>1, <2>4, <2>5
<1>11. ASSUME NEW dt \in 0 .. ResendAfter, Begin(x, dt)
       PROVE  Unwrapped(x)'
  <2>1. Still /\ seq[x] + Len(writeQueue[x]) + Len(queue[x]) <= MaxSeq
    BY <1>11 DEF Begin, Update
  <2>2. q + a + b + i2 <= MaxSeq + 1 + c
    BY <1>0, <1>1, <2>1
  <2> QED
    BY <1>1, <1>4, <1>5, <2>1, <2>2
<1>12. ASSUME NEW m \in Message, Write(x, m)
       PROVE  Unwrapped(x)'
  <2>1. /\ UNCHANGED <<seq, queue, pc>> /\ c < MaxWrites
        /\ writeQueue'[x] = Append(writeQueue[x], m) /\ accepted'[x] = Append(accepted[x], m)
    BY <1>0, <1>1, <1>12 DEF Write
  <2>2. Len(writeQueue'[x]) = a + 1 /\ Len(accepted'[x]) = c + 1
    <3>1. \A s \in Seq(Message) : Len(Append(s, m)) = Len(s) + 1
      OBVIOUS
    <3> QED
      BY <1>0, <1>1, <2>1, <3>1
  <2>3. PICK a2, c2 \in Nat : a2 = a + 1 /\ c2 = c + 1
    OBVIOUS
  <2>4. q + a2 + b + i2 <= MaxSeq + 1 + c2 /\ c2 <= MaxWrites
    <3>1. i2 = i
      BY <1>2, <1>3, <2>1
    <3> QED
      BY <1>0, <1>4, <2>1, <2>3, <3>1
  <2> QED
    BY <1>1, <1>5, <2>1, <2>2, <2>3, <2>4
<1> HIDE DEF Still, OneLess
<1>13. ASSUME NEW n \in Node, NEW m \in Payloads[n] PROVE m \in Message
  BY <1>13, PairAssumption
<1>14. PICK n \in Node : \/ Step(n)
                         \/ \E dt \in 0 .. ResendAfter : Begin(n, dt)
                         \/ Send(n)
                         \/ \E p \in net[n] : Deliver(n, p)
                         \/ \E m \in Payloads[n] : Submit(n, m)
  BY DEF PairNext
<1>15. CASE n # x
  <2>1. \/ UpdateNext(n)
        \/ \E dt \in 0 .. ResendAfter : Update(n, dt)
        \/ \E p : Read(n, p)
        \/ \E m : Write(n, m)
        \/ Out(n)
    BY <1>14 DEF Step, Begin, Send, Deliver, Submit
  <2> QED
    BY <1>7, <1>15, <2>1
<1>16. CASE n = x
  <2>1. ASSUME UpdateNext(x) PROVE Unwrapped(x)'
    BY <1>8, <1>9, <1>10, <2>1 DEF UpdateNext
  <2> QED
    BY <1>8, <1>11, <1>12, <1>13, <1>14, <1>16, <2>1 DEF Step, Send, Deliver, Submit
<1> QED
  BY <1>15, <1>16

-----------------------------------------------------------------------------
(* What the packets of a channel tell its peer.                            *)

\* A link, put together from its parts for the next state.
LEMMA LinkOf ==
    ASSUME NEW n \in Node, NEW W, NEW N, N \subseteq Numbers(n)', Ordered(n, W)',
           \A p \in Carried(n)' : Says(p, W, N), Holds(Peer(n), W, N)'
    PROVE  Link(n, W)'
<1>1. PICK x : x = Peer(n)
  OBVIOUS
<1>2. PICK N2 : N2 = Numbers(n)'
  OBVIOUS
<1>3. \A p \in Carried(n)' : Says(p, W, N2)
  BY <1>2 DEF Says, Confirms
<1>4. Holds(x, W, N)'
  BY <1>1 DEF Holds, FragmentsConfirm, FragmentsIn, AckedIn, Peer
<1>5. Holds(x, W, N2)'
  <2>1. /\ FragmentsConfirm(x, N)' /\ FragmentsIn(x, W)' /\ Confirms(pending'[x], N)
        /\ AckedIn(x, N)' /\ processed'[x] \subseteq W
    BY <1>4 DEF Holds, Confirms
  <2>2. FragmentsConfirm(x, N2)'
    BY <1>2, <2>1 DEF FragmentsConfirm, Confirms
  <2>3. Confirms(pending'[x], N2)
    BY <1>2, <2>1 DEF Confirms
  <2>4. AckedIn(x, N2)'
    BY <1>2, <2>1 DEF AckedIn
  <2> QED
    BY <2>1, <2>2, <2>3, <2>4 DEF Holds, Confirms
<1> QED
  BY <1>1, <1>2, <1>3, <1>5 DEF Link, Holds, FragmentsConfirm, FragmentsIn, AckedIn, Confirms,
     Says, Peer

\* The next number comes after those used before, and its message after those
\* numbered before.
LEMMA OrderedGrows ==
    ASSUME PairInv, NEW n \in Node, NEW m \in Message, pc[n] # "idle", NumbersMessage(n, m),
           NEW W, Ordered(n, W), NEW q \in Nat, q = seq[n]
    PROVE  Ordered(n, W \cup {<<q, m>>})'
<1>1. q = seq[n] /\ seq'[n] = q + 1
  <2>1. seq' = [seq EXCEPT ![n] = seq[n] + 1] /\ seq[n] \in Nat
    BY NextNumber DEF NumbersMessage
  <2> QED
    BY <2>1 DEF PairInv, Inv, TypeOK, EndpointTypeOK
<1>2. PICK s \in Seq(Message) : s = numbered[n]
  BY DEF PairInv, Inv, TypeOK
<1>3. PICK t \in Seq(Message) : t = numbered'[n]
  <2>1. numbered'[n] = s \/ numbered'[n] = Append(s, m)
    BY <1>2 DEF PairInv, Inv, TypeOK, NumbersMessage
  <2> QED
    BY <2>1
<1>4. /\ \A i \in DOMAIN s : i \in DOMAIN t /\ t[i] = s[i]
      /\ m # Nil => \E j \in DOMAIN t : t[j] = m /\ \A i \in DOMAIN s : i < j
  <2>1. CASE t = s /\ m = Nil
    BY <2>1
  <2>2. CASE t = Append(s, m)
    <3>1. Len(s) \in Nat /\ DOMAIN s = 1 .. Len(s) /\ DOMAIN t = 1 .. (Len(s) + 1)
      BY <2>2
    <3>2. t[Len(s) + 1] = m /\ \A i \in 1 .. Len(s) : t[i] = s[i]
      BY <2>2
    <3> QED
      BY <3>1, <3>2
  <2>3. (t = s /\ m = Nil) \/ t = Append(s, m)
    BY <1>2, <1>3 DEF NumbersMessage, PairInv, Inv, TypeOK
  <2> QED
    BY <2>1, <2>2, <2>3
<1>5. PICK W2 : W2 = W \cup {<<q, m>>}
  OBVIOUS
<1>6. /\ \A x \in W : x[1] \in Nat
      /\ \A x \in W : x[2] # Nil => x[1] < q /\ \E i \in DOMAIN s : s[i] = x[2]
      /\ \A x, y \in W : x[1] < y[1] /\ x[2] # Nil /\ y[2] # Nil =>
            \E i, j \in DOMAIN s : i < j /\ s[i] = x[2] /\ s[j] = y[2]
  <2>1. \A x \in W : x[1] \in Nat
    BY MAssumption DEF SeqNum, Ordered
  <2> QED
    BY <1>1, <1>2, <2>1 DEF Ordered
<1>7. \A x \in W2 : x \in W \/ (x[1] = q /\ x[2] = m)
  BY <1>5
<1>8. ASSUME NEW x \in W2, x[2] # Nil
      PROVE  x[1] < q + 1 /\ \E i \in DOMAIN t : t[i] = x[2]
  <2>1. CASE x \in W
    <3>1. x[1] \in Nat /\ x[1] < q
      BY <1>6, <1>8, <2>1
    <3>2. \E i \in DOMAIN t : t[i] = x[2]
      BY <1>4, <1>6, <1>8, <2>1
    <3> QED
      BY <3>1, <3>2
  <2>2. CASE x[1] = q /\ x[2] = m
    BY <1>4, <1>8, <2>2
  <2> QED
    BY <1>7, <2>1, <2>2
<1>9. ASSUME NEW x \in W2, NEW y \in W2, x[1] < y[1], x[2] # Nil, y[2] # Nil
      PROVE  \E i, j \in DOMAIN t : i < j /\ t[i] = x[2] /\ t[j] = y[2]
  <2>1. CASE x \in W /\ y \in W
    BY <1>4, <1>6, <1>9, <2>1
  <2>2. CASE x \in W /\ y[1] = q /\ y[2] = m
    <3>1. PICK i \in DOMAIN s : s[i] = x[2]
      BY <1>6, <1>9, <2>2
    <3>2. PICK j \in DOMAIN t : t[j] = m /\ i < j
      BY <1>4, <1>9, <2>2
    <3> QED
      BY <1>4, <2>2, <3>1, <3>2
  <2>3. CASE x[1] = q
    <3>1. y[1] \in Nat /\ y[1] <= q
      BY <1>6, <1>7, <1>9
    <3> QED
      BY <1>9, <2>3, <3>1
  <2> QED
    BY <1>7, <2>1, <2>2, <2>3
<1>10. Ordered(n, W2)'
  <2>1. q \in SeqNum
    BY <1>1 DEF PairInv, Inv, TypeOK, EndpointTypeOK
  <2>2. W2 \subseteq SeqNum \X Message
    BY <1>5, <2>1 DEF Ordered
  <2> QED
    BY <1>1, <1>3, <1>8, <1>9, <2>2 DEF Ordered
<1> QED
  BY <1>5, <1>10 DEF Ordered

\* Other steps leave it so.
LEMMA OrderedStays ==
    ASSUME NEW n \in Node, NEW W, Ordered(n, W), seq'[n] = seq[n], numbered'[n] = numbered[n]
    PROVE  Ordered(n, W)'
  BY DEF Ordered

\* What a node has stays within W and N when nothing of it changes.
LEMMA HoldsStays ==
    ASSUME NEW x \in Node, NEW W, NEW N, Holds(x, W, N),
           fragment'[x] = fragment[x], assembler'[x] = assembler[x],
           pending'[x] = pending[x] \/ pending'[x].acks = {},
           AckedIn(x, N)', processed'[x] = processed[x]
    PROVE  Holds(x, W, N)'
<1>1. FragmentsConfirm(x, N)' /\ FragmentsIn(x, W)'
  BY DEF Holds, FragmentsConfirm, FragmentsIn, Confirms
<1>2. Confirms(pending'[x], N)
  BY DEF Holds, Confirms
<1> QED
  BY <1>1, <1>2 DEF Holds, Confirms

\* It is within larger sets of messages too.
LEMMA HoldsWider ==
    ASSUME NEW x \in Node, NEW W, NEW W2, NEW N, Holds(x, W, N)', W \subseteq W2
    PROVE  Holds(x, W2, N)'
  BY DEF Holds, FragmentsIn, FragmentsConfirm, AckedIn, Confirms

\* Reading a packet that says what is in W keeps what the reader has within W.
LEMMA ReadHolds ==
    ASSUME PairInv, NEW x \in Node, NEW p \in Packets, Receives(x, p), NEW W, NEW N,
           Says(p, W, N), Holds(x, W, N)
    PROVE  Holds(x, W, N)'
<1>1. /\ EndpointTypeOK /\ Reads(x, p) /\ Confirms(p, N) /\ <<p.seq, p.msg>> \in W
      /\ FragmentsConfirm(x, N) /\ FragmentsIn(x, W)
  BY DEF PairInv, Inv, TypeOK, Receives, Says, Holds
<1>2. FragmentsConfirm(x, N)' /\ FragmentsIn(x, W)'
  BY <1>1, ReadKeeps
<1>3. Confirms(Arriving(x, p), N) /\ <<p.seq, Arriving(x, p).msg>> \in W
  BY <1>1, MarkedHolds
<1>4. AckedIn(x, N)'
  BY DEF Receives, Holds, AckedIn
<1>5. Confirms(pending'[x], N) /\ processed'[x] \subseteq W
  <2> DEFINE q == Arriving(x, p)
  <2>1. \/ pending' = pending /\ processed' = processed
        \/ /\ pending' = [pending EXCEPT ![x] = [ack |-> q.ack, acks |-> q.acks]]
           /\ processed' = [processed EXCEPT ![x] = @ \cup {<<p.seq, q.msg>>}]
    BY DEF Receives
  <2>2. x \in DOMAIN pending /\ x \in DOMAIN processed
    BY DEF PairInv, Inv, TypeOK
  <2>3. Confirms(pending[x], N) /\ processed[x] \subseteq W
    BY DEF Holds
  <2> HIDE DEF q
  <2>4. CASE pending' = pending /\ processed' = processed
    BY <2>3, <2>4
  <2>5. CASE /\ pending' = [pending EXCEPT ![x] = [ack |-> q.ack, acks |-> q.acks]]
             /\ processed' = [processed EXCEPT ![x] = @ \cup {<<p.seq, q.msg>>}]
    <3>1. pending'[x].ack = q.ack /\ pending'[x].acks = q.acks
      BY <2>2, <2>5
    <3>2. processed'[x] = processed[x] \cup {<<p.seq, q.msg>>}
      BY <2>2, <2>5
    <3>3. Confirms(q, N) /\ <<p.seq, q.msg>> \in W
      BY <1>3 DEF q
    <3> QED
      BY <2>3, <3>1, <3>2, <3>3 DEF Confirms
  <2> QED
    BY <2>1, <2>4, <2>5
<1> QED
  BY <1>2, <1>4, <1>5 DEF Holds, Confirms

\* So does acknowledging what it has confirmation of.
LEMMA MarkHolds ==
    ASSUME PairInv, NEW x \in Node, Marks(x), NEW W, NEW N, Holds(x, W, N)
    PROVE  Holds(x, W, N)'
<1>1. /\ acked \in [Node -> [Slots(SentPacketBufferSize) -> BOOLEAN]]
      /\ pending \in [Node -> [ack : SeqNum, acks : SUBSET (0 .. (AckBits - 1))]]
      /\ sent[x] \in SequenceBuffers(SentPacketBufferSize)
  BY DEF PairInv, Inv, TypeOK, EndpointTypeOK
<1>2. PICK i \in pending[x].acks :
         /\ AwaitsACK(x, Minus(pending[x].ack, i))
         /\ acked' = [acked EXCEPT ![x][Slot(SentPacketBufferSize, Minus(pending[x].ack, i))]
                         = TRUE]
  BY DEF Marks
<1>3. PICK s : s = Minus(pending[x].ack, i)
  OBVIOUS
<1>4. s \in N /\ sent[x].entries[Slot(SentPacketBufferSize, s)] = s
  BY <1>2, <1>3 DEF Holds, Confirms, AwaitsACK, Find
<1>5. AckedIn(x, N)'
  <2>1. acked'[x] = [acked[x] EXCEPT ![Slot(SentPacketBufferSize, s)] = TRUE]
    BY <1>1, <1>2, <1>3
  <2>2. \A j \in Slots(SentPacketBufferSize) :
           acked'[x][j] => acked[x][j] \/ j = Slot(SentPacketBufferSize, s)
    BY <1>1, <2>1
  <2>3. sent'[x] = sent[x]
    BY DEF Marks
  <2> QED
    BY <1>4, <2>2, <2>3 DEF AckedIn, Holds
<1>6. Confirms(pending'[x], N)
  <2>1. PICK a \in SUBSET pending[x].acks : pending' = [pending EXCEPT ![x].acks = a]
    BY DEF Marks
  <2>2. pending'[x].acks = a /\ pending'[x].ack = pending[x].ack
    BY <1>1, <2>1
  <2> QED
    BY <2>1, <2>2 DEF Holds, Confirms
<1>7. UNCHANGED <<assembler, fragment, processed>>
  BY DEF Marks
<1> QED
  BY <1>5, <1>6, <1>7 DEF Holds, FragmentsConfirm, FragmentsIn, Confirms

\* Every step keeps the link from each node to its peer.
LEMMA LinkNext ==
    ASSUME PairInv, PairNext, NEW n \in Node
    PROVE  \E W : Link(n, W)'
<1>1. PICK W : Link(n, W)
  BY DEF PairInv
<1>2. PICK x \in Node : x = Peer(n) /\ x # n /\ Peer(x) = n
  BY Peers
<1>3. PICK N : N = Numbers(n)
  OBVIOUS
<1>4. /\ Ordered(n, W) /\ Holds(x, W, N) /\ \A p \in Carried(n) : Says(p, W, N)
      /\ AckedIn(x, N)
  BY <1>1, <1>2, <1>3 DEF Link, Holds
<1>5. /\ EndpointTypeOK /\ acked \in [Node -> [Slots(SentPacketBufferSize) -> BOOLEAN]]
      /\ pending \in [Node -> [ack : SeqNum, acks : SUBSET (0 .. (AckBits - 1))]]
      /\ processed \in [Node -> SUBSET (SeqNum \X Message)]
      /\ seq \in [Node -> SeqNum] /\ numbered \in [Node -> Seq(Message)]
      /\ readQueue \in [Node -> Seq(Packets)]
  BY DEF PairInv, Inv, TypeOK, EndpointTypeOK
<1>6. ASSUME Ordered(n, W)', Carried(n)' \subseteq Carried(n), Holds(x, W, N)',
             processed[n] \subseteq processed'[n]
      PROVE  Link(n, W)'
  <2>1. N \subseteq Numbers(n)'
    BY <1>3, <1>6 DEF Numbers
  <2>2. Holds(Peer(n), W, N)'
    BY <1>2, <1>6 DEF Peer
  <2> QED
    BY <1>4, <1>6, <2>1, <2>2, LinkOf
<1>7. ASSUME NEW a \in Node, Step(a), ReadNext(a)
      PROVE  Link(n, W)'
  <2>1. PICK p \in Packets : p = Head(readQueue[a]) /\ Receives(a, p)
    BY <1>7, StepReads DEF PairInv
  <2>2. Carried(n)' \subseteq Carried(n) /\ p \in Carried(Peer(a))
    BY <1>7, <2>1, ReadCarries
  <2>3. seq'[n] = seq[n] /\ numbered'[n] = numbered[n]
    BY <1>7 DEF ReadNext
  <2>4. Holds(x, W, N)'
    <3>1. CASE a = x
      BY <1>2, <1>4, <2>1, <2>2, <3>1, ReadHolds
    <3>2. CASE a # x
      <4>1. recv'[x] = recv[x] /\ assembler'[x] = assembler[x] /\ fragment'[x] = fragment[x]
        BY <1>5, <2>1, <3>2, ReadFrame DEF Receives
      <4>2. pending'[x] = pending[x] /\ processed'[x] = processed[x]
        BY <1>5, <2>1, <3>2 DEF Receives
      <4>3. AckedIn(x, N)'
        BY <1>4, <2>1 DEF Receives, AckedIn
      <4> QED
        BY <1>4, <4>1, <4>2, <4>3, HoldsStays
    <3> QED
      BY <3>1, <3>2
  <2>5. processed[n] \subseteq processed'[n]
    <3>1. processed' = processed
          \/ processed' = [processed EXCEPT ![a] =
                              processed[a] \cup {<<p.seq, Arriving(a, p).msg>>}]
      BY <2>1 DEF Receives
    <3> QED
      BY <1>5, <3>1
  <2> QED
    BY <1>4, <1>6, <2>2, <2>3, <2>4, <2>5, OrderedStays
<1>8. ASSUME NEW a \in Node, Step(a), AckNext(a)
      PROVE  Link(n, W)'
  <2>1. Marks(a)
    BY <1>8, StepMarks DEF PairInv
  <2>2. UNCHANGED <<seq, numbered, packet, outQueue, readQueue, net, processed>>
    BY <1>8, <2>1 DEF Step, AckNext, Marks
  <2>3. Carried(n)' \subseteq Carried(n)
    BY <2>2, CarriedStays
  <2>4. Holds(x, W, N)'
    <3>1. CASE a = x
      BY <1>4, <2>1, <3>1, MarkHolds
    <3>2. CASE a # x
      <4>1. UNCHANGED <<sent, assembler, fragment>> /\ pending'[x] = pending[x]
            /\ acked'[x] = acked[x]
        BY <1>5, <2>1, <3>2 DEF Marks
      <4>2. AckedIn(x, N)'
        BY <1>4, <4>1 DEF AckedIn
      <4> QED
        BY <1>4, <2>2, <4>1, <4>2, HoldsStays
    <3> QED
      BY <3>1, <3>2
  <2> QED
    BY <1>4, <1>6, <2>2, <2>3, <2>4, OrderedStays
<1>9. ASSUME NEW a \in Node, NEW m \in Message, pc[a] # "idle", NumbersMessage(a, m)
      PROVE  \E V : Link(n, V)'
  <2>1. NumberPacket(a, m) /\ WritePacket(a, m) /\ ~Oversize(m)
        /\ UNCHANGED <<recv, assembler, fragment, pending, processed, outQueue, readQueue, net>>
    BY <1>9 DEF NumbersMessage, WritePacket
  <2>2. AckedIn(x, N)'
    BY <1>4, <1>5, <2>1, NumberKeepsAcked
  <2>3. Holds(x, W, N)'
    BY <1>4, <2>1, <2>2, HoldsStays
  <2>4. CASE a = n
    <3>1. PICK q \in SeqNum : q = seq[n]
      BY <1>5
    <3>2. PICK V : V = W \cup {<<q, m>>}
      OBVIOUS
    <3>3. PICK p : p = NextTransmitted(n, m)[Len(NextTransmitted(n, m))]
      OBVIOUS
    <3>4. Says(p, V, N)
      <4>1. ReceivedIn(n, N)
        BY <1>3 DEF PairInv
      <4>2. PICK l \in Nat \ {0} : l = Len(NextTransmitted(n, m))
        BY <1>5, <2>1, <4>1, NextTransmittedPackets
      <4>3. l \in 1 .. Len(NextTransmitted(n, m)) /\ p = NextTransmitted(n, m)[l]
        BY <3>3, <4>2
      <4>4. LET r == NextTransmitted(n, m)[l]
            IN  r \in Packets /\ r.seq = seq[n] /\ r.msg = m /\ Confirms(r, N)
        BY ZenonT(60), <1>5, <2>1, <4>1, <4>3, NextTransmittedPackets
      <4>5. p.seq = q /\ p.msg = m /\ Confirms(p, N)
        BY <3>1, <4>3, <4>4
      <4> QED
        BY <3>2, <4>5 DEF Says
    <3>5. Carried(n)' \subseteq Carried(n) \cup {p}
      BY <2>1, <3>3, WriteCarries
    <3>6. \A r \in Carried(n)' : Says(r, V, N)
      BY <1>4, <3>2, <3>4, <3>5 DEF Says
    <3>7. Ordered(n, V)'
      <4>1. q \in Nat
        BY MAssumption DEF SeqNum
      <4>2. Ordered(n, W \cup {<<q, m>>})'
        BY ZenonT(60), <1>4, <1>9, <2>4, <3>1, <4>1, OrderedGrows
      <4> QED
        BY <3>2, <4>2 DEF Ordered
    <3>8. Holds(Peer(n), V, N)'
      <4>1. Holds(x, V, N)'
        BY <2>3, <3>2, HoldsWider
      <4> QED
        BY <1>2, <4>1 DEF Peer
    <3>9. N \subseteq Numbers(n)'
      BY <1>3, <2>1 DEF Numbers
    <3> QED
      BY <3>6, <3>7, <3>8, <3>9, LinkOf
  <2>5. CASE a # n
    <3>1. seq'[n] = seq[n] /\ numbered'[n] = numbered[n]
      BY <1>5, <1>9, <2>1, <2>5 DEF NumberPacket, NumbersMessage
    <3>2. Carried(n)' \subseteq Carried(n)
      BY <2>1, <2>5, WriteCarries
    <3> QED
      BY <1>4, <1>6, <2>1, <2>3, <3>1, <3>2, OrderedStays
  <2> QED
    BY <2>4, <2>5
<1>10. ASSUME NEW a \in Node, Quiet(a), Carried(n)' \subseteq Carried(n)
       PROVE  Link(n, W)'
  <2>1. UNCHANGED <<endpointVars, numbered, processed>>
        /\ (pending'[x] = pending[x] \/ pending'[x].acks = {})
    BY <1>5, <1>10 DEF Quiet
  <2>2. AckedIn(x, N)'
    BY <1>4, <2>1 DEF AckedIn, endpointVars
  <2>3. Holds(x, W, N)'
    BY <1>4, <2>1, <2>2, HoldsStays DEF endpointVars
  <2>4. Ordered(n, W)'
    BY <1>4, <2>1, OrderedStays DEF endpointVars
  <2> QED
    BY <1>6, <1>10, <2>1, <2>3, <2>4
<1> QED
  BY <1>7, <1>8, <1>9, <1>10, PairSteps

-----------------------------------------------------------------------------
(* PairInv is an invariant of the specification.                           *)

\* The initial state: nothing is carried but the blank packets of the windows.
LEMMA InitPair == PairInit => PairInv
<1> SUFFICES ASSUME PairInit PROVE PairInv
  OBVIOUS
<1>1. Inv /\ ChannelInit /\ EndpointInit
  BY InitInv DEF PairInit, ChannelInit
<1>2. /\ net \in [Node -> SUBSET Packets]
      /\ processed \in [Node -> SUBSET (SeqNum \X Message)]
  BY DEF PairInit
<1>3. ASSUME NEW n \in Node
      PROVE  OrderInv(n) /\ Unwrapped(n) /\ ReceivedIn(n, Numbers(n)) /\ \E W : Link(n, W)
  <2>1. OrderInv(n)
    BY <1>1 DEF ChannelInit, OrderInv, InOrder, WaitsForRoom
  <2>2. Unwrapped(n)
    <3>1. seq[n] = 0 /\ writeQueue[n] = <<>> /\ queue[n] = <<>> /\ accepted[n] = <<>>
          /\ pc[n] = "idle"
      BY <1>1 DEF ChannelInit, EndpointInit
    <3>2. MaxSeq \in Nat /\ MaxWrites \in Nat
      BY PairAssumption, ChannelAssumption
    <3> QED
      BY <3>1, <3>2 DEF Unwrapped
  <2>3. ReceivedIn(n, Numbers(n))
    BY <1>1, EndpointInitHolds
  <2>4. PICK W : W = {<<0, Nil>>}
    OBVIOUS
  <2>5. PICK x \in Node : x = Peer(n)
    BY Peers
  <2>6. PICK N : N = Numbers(n)
    OBVIOUS
  <2>7. Ordered(n, W)
    BY <2>4, EndpointAssumption, SmallNumbers DEF Ordered
  <2>8. \A p \in Carried(n) : Says(p, W, N)
    <3>1. \A i \in Slots(SentPacketBufferSize) :
             packet[n][i].buf = CompactPacket(0, [ack |-> 0, acks |-> {}], Nil)
      BY <1>1 DEF ChannelInit, Blank
    <3>2. outQueue[n] = <<>> /\ readQueue[x] = <<>> /\ net[x] = {}
      BY <1>1 DEF PairInit, ChannelInit
    <3>3. \A p \in Carried(n) : p = CompactPacket(0, [ack |-> 0, acks |-> {}], Nil)
      <4>1. Elements(outQueue[n]) = {} /\ Elements(readQueue[x]) = {}
        BY <3>2 DEF Elements
      <4> QED
        BY <2>5, <3>1, <3>2, <4>1 DEF Carried, Buffers
    <3>4. Says(CompactPacket(0, [ack |-> 0, acks |-> {}], Nil), W, N)
      BY <2>4 DEF Says, Confirms, CompactPacket
    <3> QED
      BY <3>3, <3>4
  <2>9. Holds(x, W, N)
    <3>1. pending[x].acks = {} /\ processed[x] = {}
      BY <1>1 DEF PairInit, ChannelInit
    <3> QED
      BY <1>1, <3>1, EndpointInitHolds DEF Holds, Confirms
  <2>10. Link(n, W)
    BY <2>5, <2>6, <2>7, <2>8, <2>9 DEF Link
  <2> QED
    BY <2>1, <2>2, <2>3, <2>10
<1> QED
  BY <1>1, <1>2, <1>3 DEF PairInv

\* The network and what was processed stay well typed, and what a node has
\* received it has processed.
LEMMA RecordsNext ==
    ASSUME PairInv, PairNext
    PROVE  /\ net' \in [Node -> SUBSET Packets]
           /\ processed' \in [Node -> SUBSET (SeqNum \X Message)]
           /\ \A x \in Node : ReceivedIn(x, Numbers(x))'
<1>1. /\ EndpointTypeOK /\ net \in [Node -> SUBSET Packets]
      /\ processed \in [Node -> SUBSET (SeqNum \X Message)]
      /\ outQueue \in [Node -> Seq(Packets)]
  BY DEF PairInv, Inv, TypeOK
<1>2. net' \in [Node -> SUBSET Packets]
  <2>1. ASSUME NEW n \in Node, Send(n) PROVE net' \in [Node -> SUBSET Packets]
    <3>1. Head(outQueue[n]) \in Packets
      BY <1>1, <2>1 DEF Send, Out
    <3> QED
      BY <1>1, <2>1, <3>1 DEF Send
  <2>2. net' = net \/ \E n \in Node : Send(n)
    BY DEF PairNext, Step, Begin, Deliver, Submit
  <2> QED
    BY <1>1, <2>1, <2>2
<1>3. ASSUME UNCHANGED <<recv, processed>>
      PROVE  /\ processed' \in [Node -> SUBSET (SeqNum \X Message)]
             /\ \A x \in Node : ReceivedIn(x, Numbers(x))'
  BY <1>1, <1>3 DEF PairInv, ReceivedIn, Numbers
<1>4. ASSUME NEW n \in Node, NEW p \in Packets, Receives(n, p)
      PROVE  /\ processed' \in [Node -> SUBSET (SeqNum \X Message)]
             /\ \A x \in Node : ReceivedIn(x, Numbers(x))'
  <2> DEFINE q == Arriving(n, p)
  <2>1. /\ <<p.seq, q.msg>> \in SeqNum \X Message
        /\ <<p.seq, q.msg>>[1] = p.seq
    BY <1>1, ArrivingType DEF Packets
  <2>2. /\ processed' = processed \/ processed' = [processed EXCEPT ![n] = @ \cup {<<p.seq, q.msg>>}]
        /\ ReadAccepts(n, p) =>
              processed' = [processed EXCEPT ![n] = @ \cup {<<p.seq, q.msg>>}]
        /\ Reads(n, p)
    BY <1>4 DEF Receives
  <2> HIDE DEF q
  <2>3. processed' \in [Node -> SUBSET (SeqNum \X Message)]
    BY <1>1, <2>1, <2>2
  <2>4. ASSUME NEW x \in Node PROVE ReceivedIn(x, Numbers(x))'
    <3>1. PICK Z : Z = Numbers(x)'
      OBVIOUS
    <3>2. processed[x] \subseteq processed'[x]
      BY <1>1, <2>2
    <3>3. ReceivedIn(x, Z)
      BY <3>1, <3>2 DEF PairInv, ReceivedIn, Numbers
    <3>4. CASE x = n
      <4>1. ReadAccepts(n, p) => p.seq \in Z
        <5>1. ReadAccepts(n, p) => <<p.seq, q.msg>> \in processed'[n]
          BY <1>1, <2>2
        <5> QED
          BY <2>1, <3>1, <3>4, <5>1 DEF Numbers
      <4>2. ReceivedIn(x, Z)'
        BY <1>1, <2>2, <3>3, <3>4, <4>1, ReadReceives
      <4> QED
        BY <3>1, <4>2 DEF ReceivedIn
    <3>5. CASE x # n
      <4>1. recv'[x] = recv[x]
        BY <1>1, <2>2, <3>5, ReadFrame
      <4> QED
        BY <3>1, <3>3, <4>1 DEF ReceivedIn
    <3> QED
      BY <3>4, <3>5
  <2> QED
    BY <2>3, <2>4
<1>5. PICK n \in Node :
        \/ Step(n) /\ ReadNext(n)
        \/ Step(n) /\ AckNext(n)
        \/ \E m \in Message : pc[n] # "idle" /\ NumbersMessage(n, m)
        \/ Quiet(n)
  BY PairSteps
<1>6. CASE Step(n) /\ ReadNext(n)
  <2>1. PICK p \in Packets : Receives(n, p)
    BY <1>6, StepReads DEF PairInv
  <2> QED
    BY <1>2, <1>4, <2>1
<1>7. CASE Step(n) /\ AckNext(n)
  <2>1. Marks(n)
    BY <1>7, StepMarks DEF PairInv
  <2> QED
    BY <1>2, <1>3, <2>1 DEF Marks
<1>8. CASE Quiet(n) \/ \E m \in Message : NumbersMessage(n, m)
  BY <1>2, <1>3, <1>8 DEF Quiet, NumbersMessage, endpointVars
<1> QED
  BY <1>5, <1>6, <1>7, <1>8

\* Every step keeps the invariant.
LEMMA PairInvNext == PairInv /\ [PairNext]_pairVars => PairInv'
<1> SUFFICES ASSUME PairInv, [PairNext]_pairVars PROVE PairInv'
  OBVIOUS
<1>1. Inv' /\ \A n \in Node : OrderInv(n)'
  <2>1. [AnyNext]_vars
    BY PairGeneralises, PairAssumption DEF PairInv
  <2> QED
    BY <2>1, InvNext, OrderNext DEF PairInv
<1>2. CASE UNCHANGED pairVars
  <2> USE DEF pairVars, vars, channelVars, endpointVars
  <2>1. ASSUME NEW n \in Node
        PROVE  Unwrapped(n)' /\ ReceivedIn(n, Numbers(n))' /\ \E W : Link(n, W)'
    <3>1. Unwrapped(n)'
      BY <1>2 DEF PairInv, Unwrapped
    <3>2. ReceivedIn(n, Numbers(n))'
      BY <1>2 DEF PairInv, ReceivedIn, Numbers
    <3>3. PICK W : Link(n, W)
      BY DEF PairInv
    <3>4. PICK x \in Node : x = Peer(n)
      BY Peers
    <3>5. PICK N : N = Numbers(n)
      OBVIOUS
    <3>6. Ordered(n, W) /\ (\A p \in Carried(n) : Says(p, W, N)) /\ Holds(x, W, N)
      BY <3>3, <3>4, <3>5 DEF Link
    <3>7. AckedIn(x, N)'
      BY <1>2, <3>6 DEF Holds, AckedIn
    <3>8. Holds(x, W, N)'
      BY <1>2, <3>6, <3>7, HoldsStays
    <3>9. Holds(Peer(n), W, N)'
      BY <3>4, <3>8 DEF Peer
    <3>10. Ordered(n, W)' /\ Carried(n)' \subseteq Carried(n) /\ N \subseteq Numbers(n)'
      BY <1>2, <3>5, <3>6, OrderedStays, CarriedStays DEF Numbers
    <3> QED
      BY <3>1, <3>2, <3>6, <3>9, <3>10, LinkOf
  <2> QED
    BY <1>1, <1>2, <2>1 DEF PairInv
<1>3. CASE PairNext
  BY <1>1, <1>3, RecordsNext, UnwrappedNext, LinkNext DEF PairInv
<1> QED
  BY <1>2, <1>3

\* So it holds throughout.
LEMMA PairInvariance == PairSpec => []PairInv
  BY InitPair, PairInvNext, PTL DEF PairSpec

-----------------------------------------------------------------------------
\* A channel lets go of a packet only when the peer has processed it: see
\* AckedWasProcessed.  The header that says so was made from what the peer had
\* received (ReceivedIn), and keeps saying so in the window from which it is
\* sent again, in the queues, on the network and in the assembler.
THEOREM ChannelAcksAreTrue == PairSpec => []AckedWasProcessed
<1>1. ASSUME PairInv PROVE AckedWasProcessed
  <2> SUFFICES ASSUME NEW n \in Node, NEW s \in SeqNum,
                      Find(SentPacketBufferSize, sent[n], s), ~AwaitsACK(n, s)
               PROVE  \E x \in processed[Peer(n)] : x[1] = s
    BY DEF AckedWasProcessed
  <2>1. PICK y \in Node : y = Peer(n) /\ Peer(y) = n
    BY Peers
  <2>2. AckedIn(n, Numbers(y))
    BY <1>1, <2>1 DEF PairInv, Link, Holds
  <2>3. s \in Numbers(y)
    BY <1>1, <2>2, AckedGives DEF PairInv, Inv, TypeOK
  <2> QED
    BY <2>1, <2>3 DEF Numbers
<1> QED
  BY <1>1, PairInvariance, PTL

\* The peer gets messages under numbers that order them as Write took them: see
\* ProcessedInWriteOrder.  Numbers order messages as they were numbered
\* (Ordered), which is the order in which they were written (OrderInv).
THEOREM DeliveredInWriteOrder == PairSpec => []ProcessedInWriteOrder
<1>1. ASSUME PairInv PROVE ProcessedInWriteOrder
  <2> SUFFICES ASSUME NEW n \in Node, NoneRefused(Peer(n)),
                      NEW x \in processed[n], NEW y \in processed[n]
               PROVE  LET from == accepted[Peer(n)]
                      IN  /\ x[2] # Nil => \E i \in DOMAIN from : from[i] = x[2]
                          /\ x[1] < y[1] /\ x[2] # Nil /\ y[2] # Nil =>
                              \E i, j \in DOMAIN from :
                                 i < j /\ from[i] = x[2] /\ from[j] = y[2]
    BY DEF ProcessedInWriteOrder
  <2>1. PICK p \in Node : p = Peer(n) /\ Peer(p) = n
    BY Peers
  <2>2. PICK W : Ordered(p, W) /\ processed[n] \subseteq W
    BY <1>1, <2>1 DEF PairInv, Link, Holds
  <2>3. numbered[p] \o queue[p] \o writeQueue[p] = accepted[p]
    BY <1>1, <2>1 DEF PairInv, OrderInv, InOrder
  <2>4. \A i \in DOMAIN numbered[p] :
           i \in DOMAIN accepted[p] /\ accepted[p][i] = numbered[p][i]
    <3>1. PICK a, b, c \in Seq(Message) : a = numbered[p] /\ b = queue[p] /\ c = writeQueue[p]
      BY <1>1 DEF PairInv, Inv, TypeOK
    <3>2. Nil \in Message
      BY EndpointAssumption
    <3>3. \A i \in DOMAIN a : i \in DOMAIN (a \o b \o c) /\ (a \o b \o c)[i] = a[i]
      BY <3>2, InARow
    <3> QED
      BY <2>3, <3>1, <3>3
  <2>5. /\ x[2] # Nil => \E i \in DOMAIN numbered[p] : numbered[p][i] = x[2]
        /\ x[1] < y[1] /\ x[2] # Nil /\ y[2] # Nil =>
              \E i, j \in DOMAIN numbered[p] :
                 i < j /\ numbered[p][i] = x[2] /\ numbered[p][j] = y[2]
    BY <2>2 DEF Ordered
  <2>6. /\ x[2] # Nil => \E i \in DOMAIN accepted[p] : accepted[p][i] = x[2]
        /\ x[1] < y[1] /\ x[2] # Nil /\ y[2] # Nil =>
              \E i, j \in DOMAIN accepted[p] :
                 i < j /\ accepted[p][i] = x[2] /\ accepted[p][j] = y[2]
    BY ZenonT(60), <2>4, <2>5
  <2> QED
    BY <2>1, <2>6
<1> QED
  BY <1>1, PairInvariance, PTL
=============================================================================
