--------------------------- MODULE EndpointProofs ---------------------------
(***************************************************************************)
(* What WritePacket and ReadPacket of an endpoint keep to, whatever the    *)
(* dispatcher is: their types, and two facts about what packets carry.     *)
(* These are stated for any set of numbers or of numbered messages, so     *)
(* that each composition of endpoints cites them for the sets it records.  *)
(***************************************************************************)
EXTENDS Endpoint, SequenceBufferProofs

-----------------------------------------------------------------------------
(* Types.                                                                  *)

Headers == [ack : SeqNum, acks : SUBSET (0 .. (AckBits - 1))]

FragmentType ==
    [total : 0 .. 256, parts : SUBSET [id : 0 .. 255, msg : Message],
     ack : SeqNum, acks : SUBSET (0 .. (AckBits - 1))]

\* A message that is not refused is cut into at most 256 fragments, so that
\* their numbers fit in a byte.
LEMMA FragmentsFit ==
    ASSUME NEW m \in Message, ~Oversize(m), Size[m] > FragmentAbove
    PROVE  Fragments(m) \in 1 .. 256
<1> DEFINE z == Size[m]
<1>1. /\ z \in Nat /\ z >= 1 /\ z <= MaxFragments * FragmentSize
      /\ MaxFragments \in 1 .. 256 /\ FragmentSize \in Nat \ {0}
  BY EndpointAssumption DEF Oversize
<1> HIDE DEF z
<1>2. (z \div FragmentSize) + (IF z % FragmentSize # 0 THEN 1 ELSE 0) \in 1 .. MaxFragments
  BY <1>1, Z3
<1>3. Fragments(m) \in 1 .. MaxFragments
  BY <1>2 DEF Fragments, z
<1> QED
  BY <1>1, <1>3

\* What is transmitted of a message: at least one packet, and every one of them
\* has the message's number, its payload and the header's acknowledgements or
\* none.
LEMMA TransmittedPackets ==
    ASSUME NEW m \in Message, ~Oversize(m), NEW s \in SeqNum, NEW h \in Headers
    PROVE  /\ Transmitted(s, h, m) \in Seq(Packets)
           /\ Len(Transmitted(s, h, m)) \in Nat \ {0}
           /\ \A i \in 1 .. Len(Transmitted(s, h, m)) :
                 LET p == Transmitted(s, h, m)[i]
                 IN  /\ p \in Packets
                     /\ p.seq = s /\ p.msg = m
                     /\ p.acks = {} \/ (p.ack = h.ack /\ p.acks = h.acks)
<1> DEFINE k == Fragments(m)
           f == [i \in 1 .. k |-> FragmentPacket(s, h, m, i - 1, (k - 1) % 256)]
           Good(p) == /\ p \in Packets
                      /\ p.seq = s /\ p.msg = m
                      /\ p.acks = {} \/ (p.ack = h.ack /\ p.acks = h.acks)
<1>1. CASE Size[m] <= FragmentAbove
  <2> DEFINE c == CompactPacket(s, h, m)
  <2>1. Good(c)
    BY SmallNumbers DEF CompactPacket, Packets, Headers
  <2>2. Transmitted(s, h, m) = <<c>>
    BY <1>1 DEF Transmitted
  <2> HIDE DEF c
  <2> QED
    BY <2>1, <2>2
<1>2. CASE ~(Size[m] <= FragmentAbove)
  <2>1. k \in 1 .. 256
    BY <1>2, FragmentsFit, EndpointAssumption
  <2>2. Transmitted(s, h, m) = f
    BY <1>2 DEF Transmitted
  <2> HIDE DEF k
  <2>3. (k - 1) % 256 \in 0 .. 255
    BY <2>1, Z3
  <2>4. ASSUME NEW i \in 1 .. k
        PROVE  Good(FragmentPacket(s, h, m, i - 1, (k - 1) % 256))
    <3> DEFINE id == i - 1
               total == (k - 1) % 256
    <3>1. id \in 0 .. 255 /\ total \in 0 .. 255
      BY <2>1, <2>3
    <3> HIDE DEF id, total
    <3>2. Good(FragmentPacket(s, h, m, id, total))
      BY <3>1, SmallNumbers DEF FragmentPacket, Packets, Headers
    <3> QED
      BY <3>2 DEF id, total
  <2>5. \A i \in 1 .. k : Good(f[i])
    BY <2>4
  <2>6. f \in [1 .. k -> Packets]
    BY <2>4
  <2> HIDE DEF f
  <2>7. f \in Seq(Packets) /\ Len(f) = k
    BY <2>1, <2>6
  <2> QED
    BY <2>1, <2>2, <2>5, <2>7
<1> QED
  BY <1>1, <1>2

\* NumberPacket keeps the types of what it changes.
LEMMA NumberPacketType ==
    ASSUME EndpointTypeOK, NEW n \in Node, NEW m \in Message, NumberPacket(n, m)
    PROVE  /\ seq' \in [Node -> SeqNum]
           /\ sent' \in [Node -> SequenceBuffers(SentPacketBufferSize)]
           /\ acked' \in [Node -> [Slots(SentPacketBufferSize) -> BOOLEAN]]
<1> DEFINE S == SentPacketBufferSize
<1>1. CASE Oversize(m)
  BY <1>1 DEF NumberPacket, EndpointTypeOK
<1>2. CASE ~Oversize(m)
  <2>1. seq[n] \in SeqNum /\ Plus(seq[n], 1) \in SeqNum /\ S \in Nat \ {0}
    BY SmallNumbers, SeqNumArithmetic, EndpointAssumption DEF EndpointTypeOK
  <2>2. Slot(S, seq[n]) \in Slots(S)
    BY <2>1, SlotInRange
  <2>3. Insert(S, sent[n], seq[n]) \in SequenceBuffers(S)
    BY <2>1, InsertType DEF EndpointTypeOK
  <2>4. /\ seq' = [seq EXCEPT ![n] = Plus(@, 1)]
        /\ sent' = [sent EXCEPT ![n] = Insert(S, @, seq[n])]
        /\ acked' = [acked EXCEPT ![n][Slot(S, seq[n])] = FALSE]
    BY <1>2 DEF NumberPacket
  <2> QED
    BY <2>1, <2>2, <2>3, <2>4 DEF EndpointTypeOK
<1> QED
  BY <1>1, <1>2

\* The entry of the assembler that a fragment goes to.
LEMMA MarkedType ==
    ASSUME EndpointTypeOK, NEW n \in Node, NEW p \in Packets
    PROVE  /\ Entry(n, p) \in FragmentType
           /\ Marked(n, p) \in FragmentType
           /\ Marked(n, p).parts = Entry(n, p).parts \cup {[id |-> p.id, msg |-> p.msg]}
           /\ \/ Marked(n, p).ack = p.ack /\ Marked(n, p).acks = p.acks
              \/ Marked(n, p).ack = Entry(n, p).ack /\ Marked(n, p).acks = Entry(n, p).acks
<1>1. FragmentSlot(p) \in Slots(FragmentReassemblyBufferSize)
  BY SlotInRange, EndpointAssumption DEF FragmentSlot, Packets
<1>2. Entry(n, p) \in FragmentType
  <2>1. fragment[n][FragmentSlot(p)] \in FragmentType
    BY <1>1 DEF FragmentType, EndpointTypeOK
  <2>2. p.total + 1 \in 0 .. 256
    BY DEF Packets
  <2>3. NewFragment(p.total + 1) \in FragmentType
    BY <2>2, SmallNumbers DEF NewFragment, FragmentType
  <2> QED
    BY <2>1, <2>3 DEF Entry
<1> DEFINE f == Entry(n, p)
           x == [id |-> p.id, msg |-> p.msg]
           e == [f EXCEPT !.parts = @ \cup {x}]
<1>3. x \in [id : 0 .. 255, msg : Message]
  BY DEF Packets
<1>4. p.ack \in SeqNum /\ p.acks \in SUBSET (0 .. (AckBits - 1))
  BY DEF Packets
<1>5. Marked(n, p) = IF p.id = 0 THEN [e EXCEPT !.ack = p.ack, !.acks = p.acks] ELSE e
  BY DEF Marked
<1>6. f \in FragmentType
  BY <1>2
<1> HIDE DEF f, x
<1>7. e \in FragmentType /\ e.parts = f.parts \cup {x} /\ e.ack = f.ack /\ e.acks = f.acks
  BY <1>3, <1>6 DEF FragmentType
<1> HIDE DEF e
<1> DEFINE g == [e EXCEPT !.ack = p.ack, !.acks = p.acks]
<1>8. g \in FragmentType /\ g.parts = e.parts /\ g.ack = p.ack /\ g.acks = p.acks
  BY ZenonT(60), <1>4, <1>7 DEF FragmentType
<1> HIDE DEF g
<1>9. Marked(n, p) = g \/ Marked(n, p) = e
  BY <1>5 DEF g
<1> QED
  BY <1>6, <1>7, <1>8, <1>9 DEF x, f

\* A packet put together from fragments is a packet: it has the number of the
\* fragment that completes it, a payload that one of them carries, and the
\* acknowledgements of its entry.
LEMMA ArrivingType ==
    ASSUME EndpointTypeOK, NEW n \in Node, NEW p \in Packets
    PROVE  /\ Arriving(n, p) \in Packets
           /\ Arriving(n, p).seq = p.seq
           /\ \/ Arriving(n, p) = p
              \/ /\ Arriving(n, p).ack = Marked(n, p).ack
                 /\ Arriving(n, p).acks = Marked(n, p).acks
                 /\ \E part \in Marked(n, p).parts : Arriving(n, p).msg = part.msg
<1> DEFINE e == Marked(n, p)
           msgs == {part.msg : part \in e.parts}
<1> DEFINE m == CHOOSE x \in msgs : TRUE
<1>1. e \in FragmentType /\ e.parts # {}
  BY MarkedType
<1>2. Assembled(n, p) = CompactPacket(p.seq, e, m)
  BY DEF Assembled
<1>3. Arriving(n, p) = IF p.fragment THEN Assembled(n, p) ELSE p
  BY DEF Arriving
<1> HIDE DEF e
<1>4. msgs # {} /\ msgs \subseteq Message
  BY <1>1 DEF FragmentType
<1>5. m \in msgs
  BY <1>4
<1>6. \E part \in e.parts : m = part.msg
  BY <1>5
<1> HIDE DEF msgs
<1>7. m \in Message
  BY <1>4, <1>5
<1> HIDE DEF m
<1>8. e.ack \in SeqNum /\ e.acks \in SUBSET (0 .. (AckBits - 1))
  BY <1>1 DEF FragmentType
<1> DEFINE c == CompactPacket(p.seq, e, m)
<1>9. c \in Packets /\ c.seq = p.seq /\ c.ack = e.ack /\ c.acks = e.acks /\ c.msg = m
  BY <1>7, <1>8, SmallNumbers DEF CompactPacket, Packets
<1> HIDE DEF c
<1>10. Arriving(n, p) = p \/ Arriving(n, p) = c
  BY <1>2, <1>3 DEF c
<1> QED
  BY <1>6, <1>9, <1>10 DEF e

Reads(n, p) == ReadFails(n, p) \/ ReadStores(n, p) \/ ReadAccepts(n, p)

\* What ReadPacket may do to the buffers of its endpoint.
LEMMA ReadEffect ==
    ASSUME NEW n \in Node, NEW p \in Packets, Reads(n, p)
    PROVE  LET F == FragmentReassemblyBufferSize
               R == RecvPacketBufferSize
           IN /\ recv' = recv \/ recv' = [recv EXCEPT ![n] = Insert(R, @, p.seq)]
              /\ ReadAccepts(n, p) \/ recv' = recv
              /\ \/ assembler' = assembler /\ fragment' = fragment
                 \/ /\ fragment' = [fragment EXCEPT ![n][FragmentSlot(p)] = Marked(n, p)]
                    /\ \/ Known(n, p) /\ assembler' = [assembler EXCEPT ![n] = @]
                       \/ assembler' = [assembler EXCEPT ![n] = Insert(F, @, p.seq)]
                       \/ assembler' = [assembler EXCEPT ![n] = Remove(F, @, p.seq)]
                       \/ assembler' = [assembler EXCEPT ![n] =
                                           Remove(F, Insert(F, @, p.seq), p.seq)]
<1>1. /\ recv' = recv \/ recv' = [recv EXCEPT ![n] = Insert(RecvPacketBufferSize, @, p.seq)]
      /\ ReadAccepts(n, p) \/ recv' = recv
  BY DEF Reads, ReadFails, ReadStores, ReadAccepts
<1>2. \/ assembler' = assembler /\ fragment' = fragment
      \/ StoreFragment(n, p)
      \/ FinishFragment(n, p)
  BY DEF Reads, ReadFails, ReadStores, ReadAccepts
<1>3. CASE StoreFragment(n, p)
  BY <1>1, <1>3 DEF StoreFragment
<1>4. CASE FinishFragment(n, p)
  BY <1>1, <1>4 DEF FinishFragment
<1> QED
  BY <1>1, <1>2, <1>3, <1>4

\* ReadPacket keeps the types of what it changes.
LEMMA ReadPacketType ==
    ASSUME EndpointTypeOK, NEW n \in Node, NEW p \in Packets, Reads(n, p)
    PROVE  /\ recv' \in [Node -> SequenceBuffers(RecvPacketBufferSize)]
           /\ assembler' \in [Node -> SequenceBuffers(FragmentReassemblyBufferSize)]
           /\ fragment' \in [Node -> [Slots(FragmentReassemblyBufferSize) -> FragmentType]]
<1> DEFINE F == FragmentReassemblyBufferSize
           R == RecvPacketBufferSize
           a == Insert(F, assembler[n], p.seq)
<1>1. /\ recv \in [Node -> SequenceBuffers(R)]
      /\ assembler \in [Node -> SequenceBuffers(F)]
      /\ fragment \in [Node -> [Slots(F) -> FragmentType]]
      /\ p.seq \in SeqNum
      /\ F \in Nat \ {0} /\ R \in Nat \ {0}
  BY EndpointAssumption DEF EndpointTypeOK, FragmentType, Packets
<1>2. /\ Insert(R, recv[n], p.seq) \in SequenceBuffers(R)
      /\ a \in SequenceBuffers(F)
      /\ Remove(F, assembler[n], p.seq) \in SequenceBuffers(F)
  BY <1>1, InsertType
<1>3. Remove(F, a, p.seq) \in SequenceBuffers(F)
  BY <1>1, <1>2, InsertType
<1>4. Marked(n, p) \in FragmentType
  BY MarkedType
<1>5. FragmentSlot(p) \in Slots(F)
  BY <1>1, SlotInRange DEF FragmentSlot
<1>6. recv' = recv \/ recv' = [recv EXCEPT ![n] = Insert(R, recv[n], p.seq)]
  BY ReadEffect
<1>7. \/ assembler' = assembler
      \/ assembler' = [assembler EXCEPT ![n] = assembler[n]]
      \/ assembler' = [assembler EXCEPT ![n] = a]
      \/ assembler' = [assembler EXCEPT ![n] = Remove(F, assembler[n], p.seq)]
      \/ assembler' = [assembler EXCEPT ![n] = Remove(F, a, p.seq)]
  BY ReadEffect
<1>8. \/ fragment' = fragment
      \/ fragment' = [fragment EXCEPT ![n][FragmentSlot(p)] = Marked(n, p)]
  BY ReadEffect
<1> HIDE DEF a
<1>9. recv' \in [Node -> SequenceBuffers(R)]
  BY <1>1, <1>2, <1>6
<1>10. assembler' \in [Node -> SequenceBuffers(F)]
  BY <1>1, <1>2, <1>3, <1>7
<1>11. fragment' \in [Node -> [Slots(F) -> FragmentType]]
  BY <1>1, <1>4, <1>5, <1>8
<1> QED
  BY <1>9, <1>10, <1>11

\* The initial state is well typed.
LEMMA EndpointInitType == EndpointInit => EndpointTypeOK
<1> SUFFICES ASSUME EndpointInit PROVE EndpointTypeOK
  OBVIOUS
<1>1. ASSUME NEW cap PROVE NewSequenceBuffer(cap) \in SequenceBuffers(cap)
  BY SmallNumbers DEF NewSequenceBuffer, SequenceBuffers
<1>2. NewFragment(0) \in FragmentType
  BY SmallNumbers DEF NewFragment, FragmentType
<1>3. /\ seq \in [Node -> SeqNum]
      /\ sent \in [Node -> SequenceBuffers(SentPacketBufferSize)]
      /\ acked \in [Node -> [Slots(SentPacketBufferSize) -> BOOLEAN]]
      /\ recv \in [Node -> SequenceBuffers(RecvPacketBufferSize)]
      /\ assembler \in [Node -> SequenceBuffers(FragmentReassemblyBufferSize)]
  BY <1>1, SmallNumbers DEF EndpointInit
<1>4. fragment \in [Node -> [Slots(FragmentReassemblyBufferSize) -> FragmentType]]
  BY <1>2 DEF EndpointInit
<1> QED
  BY <1>3, <1>4 DEF EndpointTypeOK, FragmentType

-----------------------------------------------------------------------------
(* What packets confirm and what they carry.                               *)

\* Every number that the header h acknowledges is in N.
Confirms(h, N) == \A i \in h.acks : Minus(h.ack, i) \in N

\* What n has received is in N, so that its headers confirm nothing else; what
\* it has put together so far confirms numbers of N only; the fragments it
\* keeps are of numbered messages in W.
ReceivedIn(n, N) ==
    \A i \in Slots(RecvPacketBufferSize) : recv[n].entries[i] \in N \cup {Empty}

FragmentsConfirm(n, N) ==
    \A i \in Slots(FragmentReassemblyBufferSize) : Confirms(fragment[n][i], N)

FragmentsIn(n, W) ==
    \A i \in Slots(FragmentReassemblyBufferSize) :
        assembler[n].entries[i] # Empty =>
            \A part \in fragment[n][i].parts : <<assembler[n].entries[i], part.msg>> \in W

\* The entries of the buffer of sent packets that are marked as acknowledged
\* are in N.
AckedIn(n, N) ==
    \A i \in Slots(SentPacketBufferSize) :
        acked[n][i] => sent[n].entries[i] \in N \cup {Empty}

\* The same facts for larger sets.
LEMMA Widen ==
    ASSUME NEW n \in Node, NEW N, NEW N2, N \subseteq N2, NEW W, NEW W2, W \subseteq W2
    PROVE  /\ \A h : Confirms(h, N) => Confirms(h, N2)
           /\ ReceivedIn(n, N) => ReceivedIn(n, N2)
           /\ FragmentsConfirm(n, N) => FragmentsConfirm(n, N2)
           /\ FragmentsIn(n, W) => FragmentsIn(n, W2)
           /\ AckedIn(n, N) => AckedIn(n, N2)
  BY DEF Confirms, ReceivedIn, FragmentsConfirm, FragmentsIn, AckedIn

\* Nothing was received, kept or acknowledged to begin with.
LEMMA EndpointInitHolds ==
    ASSUME EndpointInit, NEW n \in Node, NEW N, NEW W
    PROVE  ReceivedIn(n, N) /\ FragmentsConfirm(n, N) /\ FragmentsIn(n, W) /\ AckedIn(n, N)
<1>1. ReceivedIn(n, N)
  BY DEF EndpointInit, ReceivedIn, NewSequenceBuffer
<1>2. FragmentsConfirm(n, N)
  BY DEF EndpointInit, FragmentsConfirm, Confirms, NewFragment
<1>3. FragmentsIn(n, W)
  BY DEF EndpointInit, FragmentsIn, NewFragment
<1>4. AckedIn(n, N)
  BY DEF EndpointInit, AckedIn
<1> QED
  BY <1>1, <1>2, <1>3, <1>4

\* The headers that an endpoint sends confirm only what it has received.
LEMMA HeaderConfirms ==
    ASSUME EndpointTypeOK, NEW n \in Node, NEW N, ReceivedIn(n, N)
    PROVE  /\ NextACK(RecvPacketBufferSize, AckBits, recv[n]) \in Headers
           /\ Confirms(NextACK(RecvPacketBufferSize, AckBits, recv[n]), N)
<1> DEFINE R == RecvPacketBufferSize
           h == NextACK(R, AckBits, recv[n])
<1>1. R \in Nat \ {0} /\ AckBits \in Nat /\ recv[n] \in SequenceBuffers(R)
  BY EndpointAssumption DEF EndpointTypeOK
<1>2. h \in Headers
  BY <1>1, NextACKType DEF Headers
<1>3. ASSUME NEW i \in h.acks PROVE Minus(h.ack, i) \in N
  <2> DEFINE s == Minus(h.ack, i)
  <2>1. s \in SeqNum /\ Find(R, recv[n], s)
    BY <1>1, <1>3, NextACKType
  <2> HIDE DEF s
  <2>2. recv[n].entries[Slot(R, s)] = s /\ Slot(R, s) \in Slots(R) /\ s # Empty
    BY <1>1, <2>1, SlotInRange, SmallNumbers DEF Find
  <2>3. s \in N
    BY <2>2 DEF ReceivedIn
  <2> QED
    BY <2>3 DEF s
<1> QED
  BY <1>2, <1>3 DEF Confirms

\* Every packet transmitted for m under number seq[n] says just that, and
\* confirms only what n has received.
LEMMA NextTransmittedPackets ==
    ASSUME EndpointTypeOK, NEW n \in Node, NEW m \in Message, ~Oversize(m),
           NEW N, ReceivedIn(n, N)
    PROVE  /\ NextTransmitted(n, m) \in Seq(Packets)
           /\ Len(NextTransmitted(n, m)) \in Nat \ {0}
           /\ \A i \in 1 .. Len(NextTransmitted(n, m)) :
                 LET p == NextTransmitted(n, m)[i]
                 IN  p \in Packets /\ p.seq = seq[n] /\ p.msg = m /\ Confirms(p, N)
<1> DEFINE h == NextACK(RecvPacketBufferSize, AckBits, recv[n])
           t == Transmitted(seq[n], h, m)
<1>1. h \in Headers /\ Confirms(h, N)
  BY HeaderConfirms
<1>2. seq[n] \in SeqNum
  BY DEF EndpointTypeOK
<1> HIDE DEF h
<1>3. /\ t \in Seq(Packets) /\ Len(t) \in Nat \ {0}
      /\ \A i \in 1 .. Len(t) :
            /\ t[i] \in Packets
            /\ t[i].seq = seq[n] /\ t[i].msg = m
            /\ t[i].acks = {} \/ (t[i].ack = h.ack /\ t[i].acks = h.acks)
  BY <1>1, <1>2, TransmittedPackets
<1>4. NextTransmitted(n, m) = t
  BY DEF NextTransmitted, h
<1> HIDE DEF t
<1> QED
  BY <1>1, <1>3, <1>4 DEF Confirms

\* The entry that p goes to, and the whole packet that p brings, confirm and
\* carry no more than p and the fragments before it.
LEMMA MarkedHolds ==
    ASSUME EndpointTypeOK, NEW n \in Node, NEW p \in Packets, NEW N, NEW W,
           Confirms(p, N), <<p.seq, p.msg>> \in W,
           FragmentsConfirm(n, N), FragmentsIn(n, W)
    PROVE  /\ Confirms(Marked(n, p), N)
           /\ \A part \in Marked(n, p).parts : <<p.seq, part.msg>> \in W
           /\ Confirms(Arriving(n, p), N)
           /\ <<p.seq, Arriving(n, p).msg>> \in W
<1> DEFINE F == FragmentReassemblyBufferSize
           i == FragmentSlot(p)
           x == [id |-> p.id, msg |-> p.msg]
<1>1. i \in Slots(F) /\ p.seq \in SeqNum
  BY SlotInRange, EndpointAssumption DEF FragmentSlot, Packets
<1>2. Confirms(Entry(n, p), N) /\ \A part \in Entry(n, p).parts : <<p.seq, part.msg>> \in W
  <2>1. CASE Known(n, p)
    <3>1. Entry(n, p) = fragment[n][i]
      BY <2>1 DEF Entry
    <3>2. assembler[n].entries[i] = p.seq /\ p.seq # Empty
      BY <1>1, <2>1, SmallNumbers DEF Known, Find, FragmentSlot
    <3> QED
      BY <1>1, <3>1, <3>2 DEF FragmentsConfirm, FragmentsIn
  <2>2. CASE ~Known(n, p)
    BY <2>2 DEF Entry, NewFragment, Confirms
  <2> QED
    BY <2>1, <2>2
<1>3. /\ Marked(n, p).parts = Entry(n, p).parts \cup {x}
      /\ \/ Marked(n, p).ack = p.ack /\ Marked(n, p).acks = p.acks
         \/ Marked(n, p).ack = Entry(n, p).ack /\ Marked(n, p).acks = Entry(n, p).acks
  BY MarkedType
<1>4. Confirms(Marked(n, p), N)
  BY <1>2, <1>3 DEF Confirms
<1>5. \A part \in Marked(n, p).parts : <<p.seq, part.msg>> \in W
  BY <1>2, <1>3
<1>6. \/ Arriving(n, p) = p
      \/ /\ Arriving(n, p).ack = Marked(n, p).ack
         /\ Arriving(n, p).acks = Marked(n, p).acks
         /\ \E part \in Marked(n, p).parts : Arriving(n, p).msg = part.msg
  BY ArrivingType
<1>7. Confirms(Arriving(n, p), N)
  BY <1>4, <1>6 DEF Confirms
<1>8. <<p.seq, Arriving(n, p).msg>> \in W
  BY <1>5, <1>6
<1> QED
  BY <1>4, <1>5, <1>7, <1>8

\* ReadPacket leaves every other endpoint alone.
LEMMA ReadFrame ==
    ASSUME EndpointTypeOK, NEW n \in Node, NEW p \in Packets, Reads(n, p),
           NEW x \in Node, x # n
    PROVE  recv'[x] = recv[x] /\ assembler'[x] = assembler[x] /\ fragment'[x] = fragment[x]
<1>1. /\ recv' = recv \/ recv' = [recv EXCEPT ![n] = Insert(RecvPacketBufferSize, @, p.seq)]
      /\ fragment' = fragment \/ fragment' = [fragment EXCEPT ![n][FragmentSlot(p)] = Marked(n, p)]
      /\ assembler' = assembler \/ \E b : assembler' = [assembler EXCEPT ![n] = b]
  BY ReadEffect
<1> QED
  BY <1>1 DEF EndpointTypeOK

\* A fragment that changes the assembler changes the entry in its own slot, and
\* may clear others.
LEMMA ReadSlots ==
    ASSUME EndpointTypeOK, NEW n \in Node, NEW p \in Packets, Reads(n, p),
           ~(assembler' = assembler /\ fragment' = fragment)
    PROVE  LET F == FragmentReassemblyBufferSize
               i == FragmentSlot(p)
               e == assembler[n].entries
               g == assembler'[n].entries
           IN  /\ i \in Slots(F)
               /\ fragment'[n][i] = Marked(n, p)
               /\ \A j \in Slots(F) \ {i} : fragment'[n][j] = fragment[n][j]
               /\ g[i] \in {p.seq, Empty}
               /\ \A j \in Slots(F) \ {i} : g[j] \in {e[j], Empty}
<1> DEFINE F == FragmentReassemblyBufferSize
           i == FragmentSlot(p)
           e == assembler[n].entries
           a == Insert(F, assembler[n], p.seq)
<1>1. i \in Slots(F) /\ p.seq \in SeqNum /\ F \in Nat \ {0} /\ i = Slot(F, p.seq)
  BY SlotInRange, EndpointAssumption DEF FragmentSlot, Packets
<1>2. fragment' = [fragment EXCEPT ![n][i] = Marked(n, p)]
  BY ReadEffect
<1>3. fragment'[n][i] = Marked(n, p) /\ \A j \in Slots(F) \ {i} : fragment'[n][j] = fragment[n][j]
  BY <1>1, <1>2 DEF EndpointTypeOK
<1>4. /\ assembler[n] \in SequenceBuffers(F)
      /\ a \in SequenceBuffers(F)
  BY <1>1, InsertType DEF EndpointTypeOK
<1>5. /\ a.entries[i] = p.seq
      /\ Remove(F, assembler[n], p.seq).entries[i] = Empty
      /\ \A j \in Slots(F) \ {i} :
            /\ a.entries[j] \in {e[j], Empty}
            /\ Remove(F, assembler[n], p.seq).entries[j] = e[j]
  BY <1>1, <1>4, InsertEntries
<1>6. /\ Remove(F, a, p.seq).entries[i] = Empty
      /\ \A j \in Slots(F) \ {i} : Remove(F, a, p.seq).entries[j] = a.entries[j]
  BY <1>1, <1>4, InsertEntries
<1>7. \/ Known(n, p) /\ assembler'[n] = assembler[n]
      \/ assembler'[n] = a
      \/ assembler'[n] = Remove(F, assembler[n], p.seq)
      \/ assembler'[n] = Remove(F, a, p.seq)
  <2>1. assembler \in [Node -> SequenceBuffers(F)]
    BY DEF EndpointTypeOK
  <2>2. \/ Known(n, p) /\ assembler' = [assembler EXCEPT ![n] = assembler[n]]
        \/ assembler' = [assembler EXCEPT ![n] = a]
        \/ assembler' = [assembler EXCEPT ![n] = Remove(F, assembler[n], p.seq)]
        \/ assembler' = [assembler EXCEPT ![n] = Remove(F, a, p.seq)]
    BY ReadEffect
  <2> QED
    BY <2>1, <2>2
<1>8. Known(n, p) => e[i] = p.seq
  BY <1>1 DEF Known, Find
<1> HIDE DEF a
<1> QED
  BY <1>1, <1>3, <1>5, <1>6, <1>7, <1>8

\* ReadPacket of p keeps what n has received, put together and kept of packets
\* within the sets that p is in.
LEMMA ReadKeeps ==
    ASSUME EndpointTypeOK, NEW n \in Node, NEW p \in Packets, Reads(n, p), NEW N, NEW W,
           Confirms(p, N), <<p.seq, p.msg>> \in W,
           FragmentsConfirm(n, N), FragmentsIn(n, W)
    PROVE  FragmentsConfirm(n, N)' /\ FragmentsIn(n, W)'
<1> DEFINE F == FragmentReassemblyBufferSize
           i == FragmentSlot(p)
           e == assembler[n].entries
           g == assembler'[n].entries
<1>1. i \in Slots(F) /\ p.seq \in SeqNum /\ F \in Nat \ {0} /\ i = Slot(F, p.seq)
  BY SlotInRange, EndpointAssumption DEF FragmentSlot, Packets
<1>2. /\ Confirms(Marked(n, p), N)
      /\ \A part \in Marked(n, p).parts : <<p.seq, part.msg>> \in W
  BY MarkedHolds
<1>3. CASE assembler' = assembler /\ fragment' = fragment
  BY <1>3 DEF FragmentsConfirm, FragmentsIn
<1>4. CASE ~(assembler' = assembler /\ fragment' = fragment)
  <2>2. fragment'[n][i] = Marked(n, p) /\ \A j \in Slots(F) \ {i} : fragment'[n][j] = fragment[n][j]
    BY <1>4, ReadSlots
  <2>3. g[i] \in {p.seq, Empty} /\ \A j \in Slots(F) \ {i} : g[j] \in {e[j], Empty}
    BY <1>4, ReadSlots
  <2>4. FragmentsConfirm(n, N)'
    BY <1>2, <2>2 DEF FragmentsConfirm
  <2> HIDE DEF e, g
  <2>5. FragmentsIn(n, W)'
    <3> SUFFICES ASSUME NEW j \in Slots(F), g[j] # Empty,
                        NEW part \in fragment'[n][j].parts
                 PROVE  <<g[j], part.msg>> \in W
      BY DEF FragmentsIn, g
    <3>1. CASE j = i
      BY <1>2, <2>2, <2>3, <3>1
    <3>2. CASE j # i
      <4>1. g[j] = e[j] /\ fragment'[n][j] = fragment[n][j]
        BY <2>2, <2>3, <3>2
      <4> QED
        BY <4>1 DEF FragmentsIn, e
    <3> QED
      BY <3>1, <3>2
  <2> QED
    BY <2>4, <2>5
<1> QED
  BY <1>3, <1>4

\* ReadPacket enters no number in the buffer of received packets but the one of
\* a packet it accepts.
LEMMA ReadReceives ==
    ASSUME EndpointTypeOK, NEW n \in Node, NEW p \in Packets, Reads(n, p), NEW N,
           ReceivedIn(n, N), ReadAccepts(n, p) => p.seq \in N
    PROVE  ReceivedIn(n, N)'
<1> DEFINE R == RecvPacketBufferSize
<1>1. CASE recv' = recv
  BY <1>1 DEF ReceivedIn
<1>2. CASE recv' # recv
  <2>1. p.seq \in N /\ recv' = [recv EXCEPT ![n] = Insert(R, recv[n], p.seq)]
    BY <1>2, ReadEffect
  <2>2. recv'[n] = Insert(R, recv[n], p.seq)
    BY <2>1 DEF EndpointTypeOK
  <2>3. p.seq \in SeqNum /\ R \in Nat \ {0} /\ recv[n] \in SequenceBuffers(R)
    BY EndpointAssumption DEF EndpointTypeOK, Packets
  <2>4. /\ recv'[n].entries[Slot(R, p.seq)] = p.seq
        /\ \A i \in Slots(R) \ {Slot(R, p.seq)} :
              recv'[n].entries[i] \in {recv[n].entries[i], Empty}
    BY <2>2, <2>3, InsertEntries
  <2> QED
    BY <2>1, <2>4 DEF ReceivedIn
<1> QED
  BY <1>1, <1>2

\* A packet that is numbered is not acknowledged yet, and the others stay what
\* they were.
LEMMA NumberKeepsAcked ==
    ASSUME EndpointTypeOK, NEW n \in Node, NEW m \in Message, NumberPacket(n, m),
           NEW x \in Node, NEW N, AckedIn(x, N)
    PROVE  AckedIn(x, N)'
<1> DEFINE S == SentPacketBufferSize
           i == Slot(S, seq[n])
<1>1. CASE Oversize(m)
  BY <1>1 DEF NumberPacket, AckedIn
<1>2. CASE ~Oversize(m)
  <2>1. /\ sent' = [sent EXCEPT ![n] = Insert(S, sent[n], seq[n])]
        /\ acked' = [acked EXCEPT ![n][i] = FALSE]
    BY <1>2 DEF NumberPacket
  <2>2. CASE x # n
    BY <2>1, <2>2 DEF AckedIn, EndpointTypeOK
  <2>3. CASE x = n
    <3>1. seq[n] \in SeqNum /\ S \in Nat \ {0} /\ sent[n] \in SequenceBuffers(S)
      BY EndpointAssumption DEF EndpointTypeOK
    <3>2. i \in Slots(S)
      BY <3>1, SlotInRange
    <3>3. sent'[n] = Insert(S, sent[n], seq[n])
      BY <2>1 DEF EndpointTypeOK
    <3>4. \A j \in Slots(S) \ {i} : sent'[n].entries[j] \in {sent[n].entries[j], Empty}
      BY <3>1, <3>3, InsertEntries
    <3>5. ~acked'[n][i] /\ \A j \in Slots(S) \ {i} : acked'[n][j] = acked[n][j]
      BY <2>1, <3>2 DEF EndpointTypeOK
    <3> QED
      BY <2>3, <3>4, <3>5 DEF AckedIn
  <2> QED
    BY <2>2, <2>3
<1> QED
  BY <1>1, <1>2

\* A sent packet that does not await an acknowledgement was given one.
LEMMA AckedGives ==
    ASSUME EndpointTypeOK, NEW n \in Node, NEW N, AckedIn(n, N), NEW s \in SeqNum,
           Find(SentPacketBufferSize, sent[n], s), ~AwaitsACK(n, s)
    PROVE  s \in N
<1>1. Slot(SentPacketBufferSize, s) \in Slots(SentPacketBufferSize)
  BY SlotInRange, EndpointAssumption
<1>2. acked[n][Slot(SentPacketBufferSize, s)] /\ sent[n].entries[Slot(SentPacketBufferSize, s)] = s
  BY DEF AwaitsACK, Find
<1> QED
  BY <1>1, <1>2, SmallNumbers DEF AckedIn
=============================================================================
