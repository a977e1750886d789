------------------------- MODULE EndpointPairProofs -------------------------
(***************************************************************************)
(* What two endpoints agree on over a network that loses, repeats and      *)
(* reorders packets: the invariants of module EndpointPair for any sizes,  *)
(* payloads and number of writes that do not wrap the sequence numbers.    *)
(***************************************************************************)
EXTENDS EndpointPair, EndpointProofs, FiniteSetTheorems

-----------------------------------------------------------------------------
(* The inductive invariant.                                                *)

\* The numbers under which n has processed a packet, and the numbered messages
\* that n has written.
Numbers(n) == {x[1] : x \in processed[n]}

Written(n) == {<<k - 1, written[n][k]>> : k \in 1 .. Len(written[n])}

\* Sequence numbers do not wrap.
Unwrapped(n) == Len(written[n]) <= MaxWrites[n] /\ seq[n] = Len(written[n])

\* What is on its way to n: messages of the peer, which confirm what the peer
\* has processed.
InFlight(n) ==
    \A p \in net[n] : Confirms(p, Numbers(Peer(n))) /\ <<p.seq, p.msg>> \in Written(Peer(n))

\* What n has received, keeps in its assembler, and holds for acknowledged.
Holds(n) == /\ ReceivedIn(n, Numbers(n))
            /\ FragmentsConfirm(n, Numbers(Peer(n)))
            /\ FragmentsIn(n, Written(Peer(n)))
            /\ AckedIn(n, Numbers(Peer(n)))
            /\ processed[n] \subseteq Written(Peer(n))

PairInv == /\ TypeOK
           /\ \A n \in Node : Unwrapped(n) /\ InFlight(n) /\ Holds(n)

-----------------------------------------------------------------------------
\* There are two nodes, each the other's peer.
LEMMA Peers ==
    ASSUME NEW n \in Node
    PROVE  /\ Peer(n) \in Node /\ Peer(n) # n /\ Peer(Peer(n)) = n
           /\ \A x \in Node : x # n => x = Peer(n)
<1>1. PICK a, b \in Node : a # b /\ Node = {a, b}
  BY PairAssumption
<1>2. \E x \in Node : x # n
  BY <1>1
<1>3. Peer(n) \in Node /\ Peer(n) # n
  BY <1>2 DEF Peer
<1>4. \E x \in Node : x # Peer(n)
  BY <1>3
<1>5. Peer(Peer(n)) \in Node /\ Peer(Peer(n)) # Peer(n)
  BY <1>4 DEF Peer
<1> QED
  BY <1>1, <1>3, <1>5

\* A number stands for one message of a node.
LEMMA WrittenOnce ==
    ASSUME TypeOK, NEW n \in Node, NEW x \in Written(n), NEW y \in Written(n), x[1] = y[1]
    PROVE  x[2] = y[2]
<1>1. PICK k \in 1 .. Len(written[n]) : x = <<k - 1, written[n][k]>>
  BY DEF Written
<1>2. PICK j \in 1 .. Len(written[n]) : y = <<j - 1, written[n][j]>>
  BY DEF Written
<1>3. Len(written[n]) \in Nat
  BY DEF TypeOK
<1>4. k = j
  BY <1>1, <1>2, <1>3
<1> QED
  BY <1>1, <1>2, <1>4

\* WritePacket writes the next number.
LEMMA WriteAppends ==
    ASSUME TypeOK, NEW n \in Node, Unwrapped(n), NEW m \in Message,
           written' = [written EXCEPT ![n] = Append(@, m)]
    PROVE  /\ Written(n)' = Written(n) \cup {<<seq[n], m>>}
           /\ \A x \in Node : Written(x) \subseteq Written(x)'
           /\ \A x \in Node : x # n => Written(x)' = Written(x)
           /\ Len(written[n])' = Len(written[n]) + 1
<1> DEFINE s == written[n]
           l == Len(s)
<1>1. s \in Seq(Message) /\ l \in Nat /\ seq[n] = l
  BY DEF TypeOK, Unwrapped
<1>2. written'[n] = Append(s, m) /\ \A x \in Node : x # n => written'[x] = written[x]
  BY DEF TypeOK
<1> HIDE DEF s
<1>3. /\ Len(Append(s, m)) = l + 1
      /\ \A k \in 1 .. l : Append(s, m)[k] = s[k]
      /\ Append(s, m)[l + 1] = m
  BY <1>1
<1>4. Written(n) = {<<k - 1, s[k]>> : k \in 1 .. l}
  BY DEF Written, s
<1>5. Written(n)' = {<<k - 1, Append(s, m)[k]>> : k \in 1 .. (l + 1)}
  BY <1>2, <1>3 DEF Written
<1>6. Written(n)' \subseteq Written(n) \cup {<<seq[n], m>>}
  <2> SUFFICES ASSUME NEW k \in 1 .. (l + 1)
               PROVE  <<k - 1, Append(s, m)[k]>> \in Written(n) \cup {<<seq[n], m>>}
    BY <1>5
  <2>1. CASE k \in 1 .. l
    BY <1>3, <1>4, <2>1
  <2>2. CASE k = l + 1
    <3>1. k - 1 = l
      BY <1>1, <2>2
    <3> QED
      BY <1>1, <1>3, <2>2, <3>1
  <2> QED
    BY <1>1, <2>1, <2>2
<1>7. Written(n) \cup {<<seq[n], m>>} \subseteq Written(n)'
  <2>1. ASSUME NEW k \in 1 .. l PROVE <<k - 1, s[k]>> \in Written(n)'
    <3>1. k \in 1 .. (l + 1) /\ Append(s, m)[k] = s[k]
      BY <1>1, <1>3
    <3> QED
      BY <1>5, <3>1
  <2>2. <<seq[n], m>> \in Written(n)'
    <3>1. l + 1 \in 1 .. (l + 1) /\ (l + 1) - 1 = l
      BY <1>1
    <3>2. <<(l + 1) - 1, Append(s, m)[l + 1]>> \in Written(n)'
      BY <1>5, <3>1
    <3> QED
      BY <1>1, <1>3, <3>1, <3>2
  <2> QED
    BY <1>4, <2>1, <2>2
<1>8. \A x \in Node : x # n => Written(x)' = Written(x)
  BY <1>2 DEF Written
<1> QED
  BY <1>2, <1>3, <1>6, <1>7, <1>8 DEF s

\* The initial state.
LEMMA InitPair == PairInit => PairInv
<1> SUFFICES ASSUME PairInit PROVE PairInv
  OBVIOUS
<1>1. TypeOK
  BY EndpointInitType DEF PairInit, TypeOK
<1>2. ASSUME NEW n \in Node PROVE Unwrapped(n) /\ InFlight(n) /\ Holds(n)
  <2>1. Unwrapped(n)
    <3>1. MaxWrites[n] \in Nat
      BY PairAssumption, HalfOfM
    <3> QED
      BY <3>1 DEF PairInit, EndpointInit, Unwrapped
  <2>2. InFlight(n)
    BY DEF PairInit, InFlight
  <2>3. Holds(n)
    BY EndpointInitHolds DEF PairInit, Holds
  <2> QED
    BY <2>1, <2>2, <2>3
<1> QED
  BY <1>1, <1>2 DEF PairInv

\* Where nothing but the sets of what was written and processed changes, and
\* these grow, the facts about a node remain.
LEMMA GrowKeeps ==
    ASSUME NEW n \in Node, PairInv,
           \A x \in Node : Numbers(x) \subseteq Numbers(x)' /\ Written(x) \subseteq Written(x)',
           recv'[n] = recv[n], assembler'[n] = assembler[n], fragment'[n] = fragment[n],
           AckedIn(n, Numbers(Peer(n)))',
           processed'[n] = processed[n]
    PROVE  Holds(n)'
<1>1. PICK N : N = Numbers(n)
  OBVIOUS
<1>2. PICK P : P = Numbers(Peer(n))
  OBVIOUS
<1>3. PICK W : W = Written(Peer(n))
  OBVIOUS
<1>4. Peer(n) \in Node
  BY Peers
<1>5. N \subseteq Numbers(n)' /\ P \subseteq Numbers(Peer(n))' /\ W \subseteq Written(Peer(n))'
  BY <1>1, <1>2, <1>3, <1>4 DEF Peer
<1>6. /\ ReceivedIn(n, N) /\ FragmentsConfirm(n, P) /\ FragmentsIn(n, W)
      /\ processed[n] \subseteq W
  BY <1>1, <1>2, <1>3 DEF PairInv, Holds
<1>7. ReceivedIn(n, N)' /\ FragmentsConfirm(n, P)' /\ FragmentsIn(n, W)'
  BY <1>6 DEF ReceivedIn, FragmentsConfirm, FragmentsIn
<1>8. /\ ReceivedIn(n, Numbers(n))'
      /\ FragmentsConfirm(n, Numbers(Peer(n)))'
      /\ FragmentsIn(n, Written(Peer(n)))'
  BY <1>5, <1>7 DEF ReceivedIn, FragmentsConfirm, FragmentsIn, Confirms
<1>9. processed'[n] \subseteq Written(Peer(n))'
  BY <1>5, <1>6
<1> QED
  BY <1>8, <1>9 DEF Holds

\* So does a step that changes nothing.
LEMMA StutterKeeps == PairInv /\ UNCHANGED vars => PairInv'
<1> SUFFICES ASSUME PairInv, UNCHANGED vars PROVE PairInv'
  OBVIOUS
<1> USE DEF vars, endpointVars
<1>1. TypeOK'
  BY DEF PairInv, TypeOK, EndpointTypeOK
<1>2. \A x \in Node : Numbers(x)' = Numbers(x) /\ Written(x)' = Written(x)
  BY DEF Numbers, Written
<1>3. ASSUME NEW x \in Node PROVE Unwrapped(x)' /\ InFlight(x)' /\ Holds(x)'
  <2>1. Unwrapped(x)'
    BY DEF PairInv, Unwrapped
  <2>2. Numbers(Peer(x))' = Numbers(Peer(x)) /\ Written(Peer(x))' = Written(Peer(x))
    BY <1>2, Peers
  <2>3. InFlight(x)'
    BY <2>2 DEF PairInv, InFlight
  <2>4. AckedIn(x, Numbers(Peer(x)))'
    BY <2>2 DEF PairInv, Holds, AckedIn
  <2>5. Holds(x)'
    BY <1>2, <2>4, GrowKeeps
  <2> QED
    BY <2>1, <2>3, <2>5
<1> QED
  BY <1>1, <1>3 DEF PairInv

\* WritePacket keeps the invariant.
LEMMA WriteKeeps ==
    ASSUME PairInv, NEW n \in Node, NEW m \in Payloads[n], WritePacket(n, m)
    PROVE  PairInv'
<1> DEFINE out == NextTransmitted(n, m)
<1>0. m \in Message /\ MaxWrites[n] \in 0 .. (HalfMaxUint16 - 1)
  BY PairAssumption
<1>1. TypeOK /\ EndpointTypeOK /\ Unwrapped(n) /\ NumberPacket(n, m)
  BY DEF PairInv, TypeOK, WritePacket
<1>2. UNCHANGED <<recv, assembler, fragment, processed>>
  BY DEF WritePacket
<1>3. EndpointTypeOK'
  BY <1>0, <1>1, <1>2, NumberPacketType DEF EndpointTypeOK
<1>4. CASE Oversize(m)
  <2>1. UNCHANGED vars
    BY <1>1, <1>2, <1>4 DEF WritePacket, NumberPacket, vars, endpointVars
  <2> QED
    BY <2>1, StutterKeeps
<1>5. CASE ~Oversize(m)
  <2>1. /\ written' = [written EXCEPT ![n] = Append(@, m)]
        /\ net' = [net EXCEPT ![Peer(n)] = @ \cup Contents(out)]
        /\ seq' = [seq EXCEPT ![n] = Plus(@, 1)]
        /\ Len(written[n]) < MaxWrites[n]
    BY <1>1, <1>5 DEF WritePacket, NumberPacket
  <2>2. /\ Written(n)' = Written(n) \cup {<<seq[n], m>>}
        /\ \A x \in Node : Written(x) \subseteq Written(x)'
        /\ Len(written[n])' = Len(written[n]) + 1
    BY <1>0, <1>1, <2>1, WriteAppends
  <2>3. \A x \in Node : Numbers(x)' = Numbers(x)
    BY <1>2 DEF Numbers
  <2>4. ReceivedIn(n, Numbers(n))
    BY DEF PairInv, Holds
  <2>5. ASSUME NEW p \in Contents(out)
        PROVE  p \in Packets /\ p.seq = seq[n] /\ p.msg = m /\ Confirms(p, Numbers(n))
    <3>1. PICK i \in DOMAIN out : p = out[i]
      BY DEF Contents
    <3>2. out \in Seq(Packets) /\ DOMAIN out = 1 .. Len(out)
      BY <1>0, <1>1, <1>5, <2>4, NextTransmittedPackets
    <3> HIDE DEF out
    <3>3. i \in 1 .. Len(out)
      BY <3>2
    <3> QED
      BY <1>0, <1>1, <1>5, <2>4, <3>1, <3>3, NextTransmittedPackets DEF out
  <2> HIDE DEF out
  <2>6. TypeOK'
    <3>1. net' \in [Node -> SUBSET Packets]
      <4>1. Contents(out) \subseteq Packets /\ net \in [Node -> SUBSET Packets]
        BY <1>1, <2>5 DEF TypeOK
      <4> QED
        BY <2>1, <4>1
    <3>2. written' \in [Node -> Seq(Message)]
      <4>1. Append(written[n], m) \in Seq(Message)
        BY <1>0, <1>1 DEF TypeOK
      <4> QED
        BY <1>1, <2>1, <4>1 DEF TypeOK
    <3> QED
      BY <1>1, <1>2, <1>3, <3>1, <3>2 DEF TypeOK
  <2>7. ASSUME NEW x \in Node PROVE Unwrapped(x)'
    <3>1. CASE x = n
      <4> DEFINE l == Len(written[n])
      <4>1. l \in Nat /\ seq[n] = l /\ l < MaxWrites[n]
        BY <1>1, <2>1 DEF TypeOK, Unwrapped
      <4> HIDE DEF l
      <4>2. seq[n] \in SeqNum /\ l + 1 < M /\ l + 1 <= MaxWrites[n]
        BY <1>0, <1>1, <4>1, HalfOfM, MAssumption DEF EndpointTypeOK
      <4>3. Plus(seq[n], 1) = l + 1
        BY <4>1, <4>2, SeqNumArithmetic, SmallNumbers
      <4>4. seq'[n] = l + 1
        BY <1>1, <2>1, <4>3 DEF EndpointTypeOK
      <4> QED
        BY <2>2, <3>1, <4>2, <4>4 DEF Unwrapped, l
    <3>2. CASE x # n
      <4>1. written'[x] = written[x] /\ seq'[x] = seq[x]
        BY <1>1, <2>1, <3>2 DEF TypeOK, EndpointTypeOK
      <4> QED
        BY <4>1 DEF Unwrapped, PairInv
    <3> QED
      BY <3>1, <3>2
  <2>8. ASSUME NEW x \in Node PROVE InFlight(x)'
    <3>1. InFlight(x) /\ Peer(x) \in Node /\ Peer(Peer(x)) = x
      BY Peers DEF PairInv
    <3>2. Numbers(Peer(x))' = Numbers(Peer(x)) /\ Written(Peer(x)) \subseteq Written(Peer(x))'
      BY <2>2, <2>3, <3>1 DEF Numbers, Written, Peer
    <3> SUFFICES ASSUME NEW p \in net'[x]
                 PROVE  Confirms(p, Numbers(Peer(x))) /\ <<p.seq, p.msg>> \in Written(Peer(x))'
      BY <3>2 DEF InFlight
    <3>3. CASE p \in net[x]
      BY <3>1, <3>2, <3>3 DEF InFlight
    <3>4. CASE p \notin net[x]
      <4>1. x = Peer(n) /\ p \in Contents(out)
        BY <1>1, <2>1, <3>4 DEF TypeOK
      <4>2. Peer(x) = n
        BY <4>1, Peers
      <4>3. Confirms(p, Numbers(n)) /\ <<p.seq, p.msg>> = <<seq[n], m>>
        BY <2>5, <4>1
      <4>4. <<seq[n], m>> \in Written(n)'
        BY <2>2
      <4>5. Written(Peer(x))' = Written(n)'
        BY <4>2 DEF Peer
      <4> QED
        BY <4>2, <4>3, <4>4, <4>5
    <3> QED
      BY <3>3, <3>4
  <2>9. ASSUME NEW x \in Node PROVE Holds(x)'
    <3>1. PICK N : N = Numbers(Peer(x))
      OBVIOUS
    <3>2. AckedIn(x, N)
      BY <3>1 DEF PairInv, Holds
    <3>3. AckedIn(x, N)'
      BY <1>0, <1>1, <3>2, NumberKeepsAcked
    <3>4. Numbers(Peer(x))' = N
      BY <1>2, <3>1 DEF Numbers
    <3>5. AckedIn(x, Numbers(Peer(x)))'
      BY <3>3, <3>4 DEF AckedIn
    <3> QED
      BY <1>2, <2>2, <2>3, <3>5, GrowKeeps
  <2> QED
    BY <2>6, <2>7, <2>8, <2>9 DEF PairInv
<1> QED
  BY <1>4, <1>5

\* processACKs marks what the packet q confirms.
LEMMA MarkKeepsAcked ==
    ASSUME EndpointTypeOK, NEW n \in Node, NEW q \in Packets, NEW N,
           Confirms(q, N), AckedIn(n, N), MarkACKed(n, q), sent' = sent
    PROVE  AckedIn(n, N)'
<1> DEFINE S == SentPacketBufferSize
           confirmed == {s \in {Minus(q.ack, i) : i \in q.acks} : AwaitsACK(n, s)}
<1> SUFFICES ASSUME NEW i \in Slots(S), acked'[n][i], ~acked[n][i]
             PROVE  sent[n].entries[i] \in N
  BY DEF AckedIn
<1>1. acked' = [acked EXCEPT ![n] =
                  [j \in DOMAIN acked[n] |-> acked[n][j] \/ \E s \in confirmed : Slot(S, s) = j]]
  BY DEF MarkACKed
<1>2. acked \in [Node -> [Slots(S) -> BOOLEAN]]
  BY DEF EndpointTypeOK
<1> HIDE DEF confirmed
<1>3. acked'[n] = [j \in Slots(S) |-> acked[n][j] \/ \E s \in confirmed : Slot(S, s) = j]
  BY <1>1, <1>2
<1>4. PICK s \in confirmed : Slot(S, s) = i
  BY <1>3
<1>5. s \in N /\ AwaitsACK(n, s)
  BY DEF confirmed, Confirms
<1> QED
  BY <1>4, <1>5 DEF AwaitsACK, Find

\* ReadPacket and processACKs keep the invariant.
LEMMA DeliverKeeps ==
    ASSUME PairInv, NEW n \in Node, NEW p \in net[n], Deliver(n, p)
    PROVE  PairInv'
<1> DEFINE q == Arriving(n, p)
           msg == IF p.fragment /\ Mixed(n, p) THEN Nil ELSE q.msg
<1>1. /\ TypeOK /\ EndpointTypeOK /\ InFlight(n) /\ Holds(n)
      /\ p \in Packets
      /\ Peer(n) \in Node /\ Peer(n) # n
      /\ Reads(n, p)
  BY Peers DEF PairInv, TypeOK, Deliver, ReadPacket, Reads
<1>2. UNCHANGED <<seq, sent, net, written>>
  BY DEF Deliver
<1>3. PICK N : N = Numbers(Peer(n))
  OBVIOUS
<1>4. PICK W : W = Written(Peer(n))
  OBVIOUS
<1>5. Confirms(p, N) /\ <<p.seq, p.msg>> \in W /\ FragmentsConfirm(n, N) /\ FragmentsIn(n, W)
  BY <1>1, <1>3, <1>4 DEF InFlight, Holds
<1>6. FragmentsConfirm(n, N)' /\ FragmentsIn(n, W)'
  BY <1>1, <1>5, ReadKeeps
<1>7. /\ \A part \in Marked(n, p).parts : <<p.seq, part.msg>> \in W
      /\ Confirms(q, N) /\ <<p.seq, q.msg>> \in W
      /\ q \in Packets /\ q.seq = p.seq
  BY <1>1, <1>5, MarkedHolds, ArrivingType
<1>8. msg = q.msg
  <2>1. ~Mixed(n, p)
    BY <1>1, <1>4, <1>7, WrittenOnce DEF Mixed
  <2> QED
    BY <2>1
<1>9. \/ processed' = processed /\ acked' = acked /\ ~ReadAccepts(n, p)
      \/ /\ processed' = [processed EXCEPT ![n] = @ \cup {<<p.seq, q.msg>>}]
         /\ MarkACKed(n, q)
  <2>1. CASE ReadAccepts(n, p)
    <3>1. \/ ReadFails(n, p) \/ ReadStores(n, p)
          \/ /\ processed' = [processed EXCEPT ![n] = @ \cup {<<q.seq, msg>>}]
             /\ MarkACKed(n, q)
      BY DEF Deliver, ReadPacket
    <3>2. ~ReadFails(n, p) /\ ~ReadStores(n, p)
      BY <2>1 DEF ReadAccepts, ReadFails, ReadStores, ReadsWhole
    <3> QED
      BY <1>7, <1>8, <3>1, <3>2
  <2>2. CASE ~ReadAccepts(n, p)
    BY <2>2 DEF Deliver, ReadPacket
  <2> QED
    BY <2>1, <2>2
<1> HIDE DEF q, msg
<1>10. TypeOK'
  <2>1. /\ recv' \in [Node -> SequenceBuffers(RecvPacketBufferSize)]
        /\ assembler' \in [Node -> SequenceBuffers(FragmentReassemblyBufferSize)]
        /\ fragment' \in [Node -> [Slots(FragmentReassemblyBufferSize) -> FragmentType]]
    BY <1>1, ReadPacketType
  <2>2. acked' \in [Node -> [Slots(SentPacketBufferSize) -> BOOLEAN]]
    <3>1. acked \in [Node -> [Slots(SentPacketBufferSize) -> BOOLEAN]]
      BY <1>1 DEF EndpointTypeOK
    <3>2. CASE MarkACKed(n, q)
      BY <3>1, <3>2 DEF MarkACKed
    <3> QED
      BY <1>9, <3>1, <3>2
  <2>3. processed' \in [Node -> SUBSET (SeqNum \X Message)]
    <3>1. <<p.seq, q.msg>> \in SeqNum \X Message
      BY <1>1, <1>7 DEF Packets
    <3> QED
      BY <1>1, <1>9, <3>1 DEF TypeOK
  <2> QED
    BY <1>1, <1>2, <2>1, <2>2, <2>3 DEF TypeOK, EndpointTypeOK, FragmentType
<1>11. /\ \A x \in Node : Written(x)' = Written(x)
       /\ \A x \in Node : Numbers(x) \subseteq Numbers(x)'
       /\ \A x \in Node : x # n => processed'[x] = processed[x] /\ Numbers(x)' = Numbers(x)
       /\ processed'[n] \subseteq processed[n] \cup {<<p.seq, q.msg>>}
       /\ ReadAccepts(n, p) => p.seq \in Numbers(n)'
  <2>1. processed' = processed \/ processed' = [processed EXCEPT ![n] = @ \cup {<<p.seq, q.msg>>}]
    BY <1>9
  <2>2. /\ \A x \in Node : x # n => processed'[x] = processed[x]
        /\ processed[n] \subseteq processed'[n]
        /\ processed'[n] \subseteq processed[n] \cup {<<p.seq, q.msg>>}
    BY <1>1, <2>1 DEF TypeOK
  <2>3. ReadAccepts(n, p) => <<p.seq, q.msg>> \in processed'[n]
    BY <1>1, <1>9 DEF TypeOK
  <2>4. <<p.seq, q.msg>>[1] = p.seq
    OBVIOUS
  <2> QED
    BY <1>2, <2>2, <2>3, <2>4 DEF Numbers, Written
<1>12. Numbers(Peer(n))' = N /\ Written(Peer(n))' = W
  BY <1>1, <1>3, <1>4, <1>11 DEF Peer, Numbers, Written
<1>13. ASSUME NEW x \in Node PROVE Unwrapped(x)'
  BY <1>2 DEF Unwrapped, PairInv
<1>14. ASSUME NEW x \in Node PROVE InFlight(x)'
  <2>1. Numbers(Peer(x)) \subseteq Numbers(Peer(x))' /\ Written(Peer(x))' = Written(Peer(x))
    <3>1. PICK y \in Node : y = Peer(x)
      BY Peers
    <3>2. Numbers(y) \subseteq Numbers(y)' /\ Written(y)' = Written(y)
      BY <1>11
    <3> QED
      BY <3>1, <3>2 DEF Numbers, Written
  <2>2. InFlight(x) /\ net'[x] = net[x]
    BY <1>2 DEF PairInv
  <2> QED
    BY <2>1, <2>2 DEF InFlight, Confirms
<1>15. ASSUME NEW x \in Node, x # n PROVE Holds(x)'
  <2>1. recv'[x] = recv[x] /\ assembler'[x] = assembler[x] /\ fragment'[x] = fragment[x]
    BY <1>1, <1>15, ReadFrame
  <2>2. acked'[x] = acked[x]
    BY <1>1, <1>9, <1>15 DEF MarkACKed, EndpointTypeOK
  <2>3. Numbers(Peer(x)) \subseteq Numbers(Peer(x))'
    BY <1>11, Peers DEF Peer, Numbers
  <2>4. AckedIn(x, Numbers(Peer(x)))'
    BY <1>2, <2>2, <2>3 DEF AckedIn, PairInv, Holds
  <2> QED
    BY <1>11, <1>15, <2>1, <2>4, GrowKeeps
<1>16. Holds(n)'
  <2>1. ReceivedIn(n, Numbers(n))'
    <3>1. PICK Z : Z = Numbers(n)'
      OBVIOUS
    <3>2. ReceivedIn(n, Z)
      BY <1>1, <1>11, <3>1 DEF Holds, ReceivedIn
    <3>3. ReceivedIn(n, Z)'
      BY <1>1, <1>11, <3>1, <3>2, ReadReceives
    <3> QED
      BY <3>1, <3>3 DEF ReceivedIn
  <2>2. FragmentsConfirm(n, Numbers(Peer(n)))' /\ FragmentsIn(n, Written(Peer(n)))'
    BY <1>6, <1>12 DEF FragmentsConfirm, FragmentsIn, Confirms
  <2>3. AckedIn(n, Numbers(Peer(n)))'
    <3>1. AckedIn(n, N)
      BY <1>1, <1>3 DEF Holds
    <3>2. AckedIn(n, N)'
      <4>1. CASE acked' = acked
        BY <1>2, <3>1, <4>1 DEF AckedIn
      <4>2. CASE MarkACKed(n, q)
        BY <1>1, <1>2, <1>7, <3>1, <4>2, MarkKeepsAcked
      <4> QED
        BY <1>9, <4>1, <4>2
    <3> QED
      BY <1>12, <3>2 DEF AckedIn
  <2>4. processed'[n] \subseteq Written(Peer(n))'
    <3>1. processed[n] \subseteq W
      BY <1>1, <1>4 DEF Holds
    <3> QED
      BY <1>7, <1>11, <1>12, <3>1
  <2> QED
    BY <2>1, <2>2, <2>3, <2>4 DEF Holds
<1> QED
  BY <1>10, <1>13, <1>14, <1>15, <1>16 DEF PairInv

\* PairInv is an invariant of the specification.
LEMMA Invariance == Spec => []PairInv
<1>1. PairInv /\ [PairNext]_vars => PairInv'
  <2> SUFFICES ASSUME PairInv, [PairNext]_vars PROVE PairInv'
    OBVIOUS
  <2>1. CASE UNCHANGED vars
    BY <2>1, StutterKeeps
  <2> QED
    BY <2>1, WriteKeeps, DeliverKeeps DEF PairNext
<1> QED
  BY <1>1, InitPair, PTL DEF Spec

-----------------------------------------------------------------------------
(* The assembler.                                                          *)

\* An entry has fewer fragments than its packet.
Unfinished(x) == IsFiniteSet(x.parts) /\ Cardinality(x.parts) < x.total

Incomplete(n) ==
    \A i \in Slots(FragmentReassemblyBufferSize) :
        assembler[n].entries[i] # Empty => Unfinished(fragment[n][i])

\* One more fragment completes the entry or leaves it unfinished.
LEMMA MarkedUnfinished ==
    ASSUME EndpointTypeOK, NEW n \in Node, NEW p \in Packets, Incomplete(n), ~CompletedBy(n, p)
    PROVE  Unfinished(Marked(n, p))
<1> DEFINE F == FragmentReassemblyBufferSize
           f == Entry(n, p)
           x == [id |-> p.id, msg |-> p.msg]
<1>1. Unfinished(f) /\ f.total \in Nat
  <2>1. CASE Known(n, p)
    <3>1. FragmentSlot(p) \in Slots(F) /\ p.seq # Empty
      BY SlotInRange, EndpointAssumption, SmallNumbers DEF FragmentSlot, Packets
    <3>2. f = fragment[n][FragmentSlot(p)] /\ assembler[n].entries[FragmentSlot(p)] = p.seq
      BY <2>1 DEF Entry, Known, Find, FragmentSlot
    <3>3. f.total \in Nat
      BY MarkedType DEF FragmentType
    <3> QED
      BY <3>1, <3>2, <3>3 DEF Incomplete
  <2>2. CASE ~Known(n, p)
    <3>1. f.parts = {} /\ f.total = p.total + 1 /\ p.total \in Nat
      BY <2>2 DEF Entry, NewFragment, Packets
    <3> QED
      BY <3>1, FS_EmptySet DEF Unfinished
  <2> QED
    BY <2>1, <2>2
<1>2. Marked(n, p).parts = f.parts \cup {x} /\ Marked(n, p).total = f.total
  <2>1. f \in FragmentType
    BY MarkedType
  <2> HIDE DEF f
  <2>2. \A y, z : /\ [[f EXCEPT !.parts = y] EXCEPT !.ack = z.ack, !.acks = z.acks].total = f.total
                  /\ [f EXCEPT !.parts = y].total = f.total
    BY <2>1 DEF FragmentType
  <2>3. Marked(n, p).total = f.total
    BY <2>2 DEF Marked, f
  <2> QED
    BY <2>3, MarkedType DEF f
<1> HIDE DEF f, x
<1>3. /\ IsFiniteSet(f.parts \cup {x})
      /\ Cardinality(f.parts \cup {x}) <= Cardinality(f.parts) + 1
      /\ Cardinality(f.parts) \in Nat /\ Cardinality(f.parts \cup {x}) \in Nat
  <2>1. IsFiniteSet(f.parts)
    BY <1>1 DEF Unfinished
  <2>2. /\ IsFiniteSet(f.parts \cup {x})
        /\ Cardinality(f.parts \cup {x}) =
              IF x \in f.parts THEN Cardinality(f.parts) ELSE Cardinality(f.parts) + 1
    BY <2>1, FS_AddElement
  <2>3. Cardinality(f.parts) \in Nat /\ Cardinality(f.parts \cup {x}) \in Nat
    BY <2>1, <2>2, FS_CardinalityType
  <2> QED
    BY <2>2, <2>3
<1>4. Cardinality(f.parts \cup {x}) # f.total
  BY <1>2 DEF CompletedBy
<1>5. Cardinality(f.parts \cup {x}) < f.total
  BY <1>1, <1>3, <1>4 DEF Unfinished
<1> QED
  BY <1>2, <1>3, <1>5 DEF Unfinished

\* ReadPacket leaves no entry behind that is complete.
LEMMA ReadKeepsIncomplete ==
    ASSUME EndpointTypeOK, NEW n \in Node, NEW p \in Packets, Reads(n, p), Incomplete(n)
    PROVE  Incomplete(n)'
<1> DEFINE F == FragmentReassemblyBufferSize
           i == FragmentSlot(p)
<1>1. CASE assembler' = assembler /\ fragment' = fragment
  BY <1>1 DEF Incomplete
<1>2. CASE ~(assembler' = assembler /\ fragment' = fragment)
  <2>1. /\ i \in Slots(F)
        /\ fragment'[n][i] = Marked(n, p)
        /\ \A j \in Slots(F) \ {i} :
              /\ fragment'[n][j] = fragment[n][j]
              /\ assembler'[n].entries[j] \in {assembler[n].entries[j], Empty}
    BY <1>2, ReadSlots
  <2>2. assembler'[n].entries[i] # Empty => ~CompletedBy(n, p)
    <3>1. (StoreFragment(n, p) /\ ~CompletedBy(n, p)) \/ FinishFragment(n, p)
      BY <1>2 DEF Reads, ReadFails, ReadStores, ReadAccepts
    <3>2. CASE FinishFragment(n, p)
      <4> DEFINE b == IF Known(n, p) THEN assembler[n] ELSE Insert(F, assembler[n], p.seq)
      <4>1. /\ F \in Nat \ {0} /\ p.seq \in SeqNum /\ i = Slot(F, p.seq)
            /\ assembler \in [Node -> SequenceBuffers(F)]
        BY EndpointAssumption DEF EndpointTypeOK, Packets, FragmentSlot
      <4>2. b \in SequenceBuffers(F)
        BY <4>1, InsertType
      <4>3. assembler'[n] = Remove(F, b, p.seq)
        BY <3>2, <4>1 DEF FinishFragment
      <4> HIDE DEF b
      <4>4. assembler'[n].entries[i] = Empty
        BY <4>1, <4>2, <4>3, InsertEntries
      <4> QED
        BY <4>4
    <3> QED
      BY <3>1, <3>2
  <2> SUFFICES ASSUME NEW j \in Slots(F), assembler'[n].entries[j] # Empty
               PROVE  Unfinished(fragment'[n][j])
    BY DEF Incomplete
  <2>3. CASE j = i
    BY <2>1, <2>2, <2>3, MarkedUnfinished
  <2>4. CASE j # i
    BY <2>1, <2>4 DEF Incomplete
  <2> QED
    BY <2>3, <2>4
<1> QED
  BY <1>1, <1>2

-----------------------------------------------------------------------------
\* The state of the endpoints and of the network is well typed.
THEOREM PairTypeCorrect == Spec => []TypeOK
<1>1. PairInv => TypeOK
  BY DEF PairInv
<1> QED
  BY <1>1, Invariance, PTL

\* recvCompactPacket hands Process only what the peer wrote, whole and under the
\* number it was written under: see ProcessedWasWritten.  The reason lies in the
\* assembler: the entry of a number keeps fragments of that number only, also
\* when numbers share its slot (FragmentsIn).
THEOREM ReassemblyIsSound == Spec => []ProcessedWasWritten
<1>1. ASSUME PairInv PROVE ProcessedWasWritten
  <2> SUFFICES ASSUME NEW n \in Node, NEW x \in processed[n]
               PROVE  /\ x[1] < Len(written[Peer(n)])
                      /\ x[2] = written[Peer(n)][x[1] + 1]
    BY DEF ProcessedWasWritten
  <2> DEFINE s == written[Peer(n)]
  <2>1. x \in Written(Peer(n)) /\ Len(s) \in Nat
    BY <1>1, Peers DEF PairInv, Holds, TypeOK
  <2>2. PICK k \in 1 .. Len(s) : x = <<k - 1, s[k]>>
    BY <2>1 DEF Written
  <2>3. x[1] = k - 1 /\ x[2] = s[k]
    BY <2>2
  <2> HIDE DEF s
  <2>4. k - 1 < Len(s) /\ (k - 1) + 1 = k
    BY <2>1
  <2> QED
    BY <2>3, <2>4 DEF s
<1> QED
  BY <1>1, Invariance, PTL

\* recvFragmentedPacket keeps no entry whose packet is whole, also when the packet
\* was refused: see EntriesIncomplete.
THEOREM AssemblersAreIncomplete == Spec => []EntriesIncomplete
<1> DEFINE Inv == \A n \in Node : Incomplete(n)
<1>1. PairInit => Inv
  BY DEF PairInit, EndpointInit, NewSequenceBuffer, Incomplete
<1>2. PairInv /\ Inv /\ [PairNext]_vars => Inv'
  <2> SUFFICES ASSUME PairInv, Inv, [PairNext]_vars, NEW x \in Node PROVE Incomplete(x)'
    OBVIOUS
  <2>1. CASE UNCHANGED <<assembler, fragment>>
    BY <2>1 DEF Incomplete
  <2>2. ASSUME NEW n \in Node, NEW p \in net[n], Deliver(n, p) PROVE Incomplete(x)'
    <3>1. EndpointTypeOK /\ p \in Packets /\ Reads(n, p)
      BY <2>2 DEF PairInv, TypeOK, Deliver, ReadPacket, Reads
    <3>2. CASE x = n
      BY <3>1, <3>2, ReadKeepsIncomplete
    <3>3. CASE x # n
      <4>1. assembler'[x] = assembler[x] /\ fragment'[x] = fragment[x]
        BY <3>1, <3>3, ReadFrame
      <4> QED
        BY <4>1 DEF Incomplete
    <3> QED
      BY <3>2, <3>3
  <2> QED
    BY <2>1, <2>2 DEF PairNext, WritePacket, vars, endpointVars
<1>3. Inv => EntriesIncomplete
  BY DEF Incomplete, Unfinished, EntriesIncomplete
<1> QED
  BY <1>1, <1>2, <1>3, Invariance, PTL DEF Spec

\* processACKs acknowledges only what the peer has processed: see
\* AckedWasProcessed.  A header is made from the numbers its sender has received
\* and so confirms no others, wherever the packet or the fragments that carry it
\* have been in between.
THEOREM AcksAreTrue == Spec => []AckedWasProcessed
<1>1. ASSUME PairInv PROVE AckedWasProcessed
  <2> SUFFICES ASSUME NEW n \in Node, NEW s \in SeqNum,
                      Find(SentPacketBufferSize, sent[n], s), ~AwaitsACK(n, s)
               PROVE  \E x \in processed[Peer(n)] : x[1] = s
    BY DEF AckedWasProcessed
  <2>1. s \in Numbers(Peer(n))
    BY <1>1, AckedGives DEF PairInv, TypeOK, Holds
  <2> QED
    BY <2>1 DEF Numbers
<1> QED
  BY <1>1, Invariance, PTL
=============================================================================
