----------------------- MODULE SequenceBufferProofs -----------------------
(***************************************************************************)
(* Facts about sequence numbers and about the ring buffer, for every size  *)
(* of the number space and of the buffer.                                  *)
(***************************************************************************)
EXTENDS SequenceBuffer, TLAPS

\* Remainders near zero, for the uint16 arithmetic of src/utils.go.
LEMMA Remainders ==
    ASSUME NEW m \in Nat, m >= 4, NEW a \in Int
    PROVE  /\ a % m \in 0 .. (m - 1)
           /\ a \in 0 .. (m - 1) => a % m = a
           /\ a \in m .. (2 * m - 1) => a % m = a - m
           /\ a \in (0 - m) .. (0 - 1) => a % m = a + m
  BY Z3

\* The remainder is what is left of a multiple.
LEMMA Multiple ==
    ASSUME NEW s \in Nat \ {0}, NEW k \in Int, NEW r \in 0 .. (s - 1)
    PROVE  (s * k + r) % s = r
  BY Z3

\* What divides two numbers divides their sum and their difference.
LEMMA DividesSum ==
    ASSUME NEW s \in Nat \ {0}, NEW a \in Int, NEW b \in Int, a % s = 0, b % s = 0
    PROVE  (a + b) % s = 0 /\ (a - b) % s = 0
<1> DEFINE x == a \div s
           y == b \div s
<1>1. x \in Int /\ y \in Int /\ a = s * x /\ b = s * y
  BY Z3
<1> HIDE DEF x, y
<1>2. a + b = s * (x + y) + 0 /\ a - b = s * (x - y) + 0
  BY <1>1, Z3
<1>3. x + y \in Int /\ x - y \in Int /\ 0 \in 0 .. (s - 1)
  BY <1>1, Z3
<1> QED
  BY <1>2, <1>3, Multiple, Zenon

\* Numbers share a slot when their difference is a multiple of the ring size.
LEMMA SameRemainder ==
    ASSUME NEW s \in Nat \ {0}, NEW a \in Int, NEW b \in Int
    PROVE  a % s = b % s <=> (a - b) % s = 0
<1>1. a % s = b % s => (a - b) % s = 0
  BY Z3
<1>2. ASSUME (a - b) % s = 0 PROVE a % s = b % s
  <2> DEFINE x == (a - b) \div s
             y == b \div s
             r == b % s
  <2>1. /\ x \in Int /\ y \in Int /\ r \in 0 .. (s - 1)
        /\ a - b = s * x
        /\ b = s * y + r
    BY <1>2, Z3
  <2> HIDE DEF x, y
  <2>2. a = s * (x + y) + r /\ x + y \in Int
    BY <2>1, Z3
  <2> QED
    BY <2>1, <2>2, Multiple, Zenon
<1> QED
  BY <1>1, <1>2
-----------------------------------------------------------------------------
\* Sequence numbers stay sequence numbers, and adding or subtracting one.
LEMMA SeqNumArithmetic ==
    ASSUME NEW a \in SeqNum, NEW b \in SeqNum
    PROVE  /\ Plus(a, b) \in SeqNum
           /\ Minus(a, b) \in SeqNum
           /\ Plus(a, b) = IF a + b < M THEN a + b ELSE (a + b) - M
           /\ Minus(a, b) = IF a >= b THEN a - b ELSE a - b + M
<1>1. a + b \in 0 .. (2 * M - 1) /\ a - b \in (0 - M) .. (M - 1)
  BY MAssumption, SMT DEF SeqNum
<1>2. /\ (a + b) % M \in 0 .. (M - 1)
      /\ a + b \in 0 .. (M - 1) => (a + b) % M = a + b
      /\ a + b \in M .. (2 * M - 1) => (a + b) % M = (a + b) - M
      /\ a + b \in (0 - M) .. (0 - 1) => (a + b) % M = (a + b) + M
  <2>1. a + b \in Int /\ M \in Nat /\ M >= 4
    BY MAssumption DEF SeqNum
  <2> QED
    BY <2>1, Remainders, Zenon
<1>3. /\ (a - b) % M \in 0 .. (M - 1)
      /\ a - b \in 0 .. (M - 1) => (a - b) % M = a - b
      /\ a - b \in (0 - M) .. (0 - 1) => (a - b) % M = a - b + M
  <2>1. a - b \in Int /\ M \in Nat /\ M >= 4
    BY MAssumption DEF SeqNum
  <2> QED
    BY <2>1, Remainders, Zenon
<1> DEFINE p == (a + b) % M
           r == (a - b) % M
<1>4. /\ p \in 0 .. (M - 1)
      /\ a + b \in 0 .. (M - 1) => p = a + b
      /\ a + b \in M .. (2 * M - 1) => p = (a + b) - M
  BY <1>2, Zenon
<1>5. /\ r \in 0 .. (M - 1)
      /\ a - b \in 0 .. (M - 1) => r = a - b
      /\ a - b \in (0 - M) .. (0 - 1) => r = a - b + M
  BY <1>3, Zenon
<1>6. Plus(a, b) = p /\ Minus(a, b) = r
  BY Zenon DEF Plus, Minus
<1> HIDE DEF p, r
<1> QED
  BY <1>1, <1>4, <1>5, <1>6, MAssumption, SMT DEF SeqNum

\* Half of the number space, as seqGreaterThan has it.
LEMMA HalfOfM == HalfMaxUint16 \in Nat /\ 2 * HalfMaxUint16 = M
  BY MAssumption, Z3 DEF HalfMaxUint16

\* Which two sequence numbers share a slot of a ring whose size divides M.
LEMMA SharedSlots ==
    ASSUME NEW cap \in Nat \ {0}, cap < M, M % cap = 0,
           NEW q \in SeqNum, NEW e \in SeqNum
    PROVE  /\ Minus(q, e) = cap => Slot(cap, q) = Slot(cap, e)
           /\ Minus(q, e) \in 1 .. (cap - 1) => Slot(cap, q) # Slot(cap, e)
<1> DEFINE d == Minus(q, e)
<1>1. d \in Int /\ q \in Int /\ e \in Int /\ M \in Int
  BY MAssumption, SeqNumArithmetic, SMT DEF SeqNum
<1>2. q - e = d \/ (q - e = d - M /\ d = (q - e) + M)
  <2>1. d = IF q >= e THEN q - e ELSE q - e + M
    BY SeqNumArithmetic, Zenon
  <2> HIDE DEF d
  <2> QED
    BY <1>1, <2>1, SMT
<1> HIDE DEF d
<1>3. (q - e) % cap = 0 <=> d % cap = 0
  <2>1. CASE q - e = d
    BY <2>1
  <2>2. CASE q - e = d - M /\ d = (q - e) + M
    <3>1. d % cap = 0 => (d - M) % cap = 0
      BY <1>1, DividesSum
    <3>2. q - e \in Int
      BY <1>1
    <3>3. (q - e) % cap = 0 => ((q - e) + M) % cap = 0
      BY <1>1, <3>2, DividesSum
    <3> QED
      BY <2>2, <3>1, <3>3
  <2> QED
    BY <1>2, <2>1, <2>2
<1>4. d = cap => d % cap = 0
  BY Z3
<1>5. d \in 1 .. (cap - 1) => d % cap # 0
  BY Z3
<1> QED
  BY <1>1, <1>3, <1>4, <1>5, SameRemainder DEF Slot, d

\* A slot is a slot.
LEMMA SlotInRange ==
    ASSUME NEW cap \in Nat \ {0}, NEW s \in SeqNum
    PROVE  Slot(cap, s) \in Slots(cap)
  BY MAssumption, Z3 DEF Slot, Slots, SeqNum

-----------------------------------------------------------------------------
\* What Insert does with the number that follows the newest one, the only one
\* that SentPacketBuffer and PacketBuffer are ever given: it takes its slot,
\* clears no other, and is never outdated.
LEMMA InsertNext ==
    ASSUME NEW cap \in Nat \ {0}, cap < HalfMaxUint16,
           NEW buf \in SequenceBuffers(cap)
    PROVE  /\ ~IsOutdated(cap, buf, buf.latest)
           /\ Insert(cap, buf, buf.latest) =
                  [latest  |-> Plus(buf.latest, 1),
                   entries |-> [buf.entries EXCEPT ![Slot(cap, buf.latest)] = buf.latest]]
<1> DEFINE q == buf.latest
<1>1. q \in SeqNum /\ 1 \in SeqNum /\ cap \in SeqNum
  BY HalfOfM, MAssumption DEF SequenceBuffers, SeqNum
<1>2. ~IsOutdated(cap, buf, q)
  <2> DEFINE r == Minus(q, cap)
  <2>1. r \in SeqNum /\ r = IF q >= cap THEN q - cap ELSE q - cap + M
    BY <1>1, SeqNumArithmetic, Zenon
  <2>2. IsOutdated(cap, buf, q) = seqGreaterThan(r, q)
    BY DEF IsOutdated, seqLessThan
  <2> HIDE DEF q, r
  <2>3. ~seqGreaterThan(r, q)
    BY <1>1, <2>1, HalfOfM, MAssumption, SMT DEF seqGreaterThan, SeqNum
  <2> QED
    BY <2>2, <2>3
<1>3. seqGreaterThan(Plus(q, 1), q)
  <2> DEFINE r == Plus(q, 1)
  <2>1. r \in SeqNum /\ r = IF q + 1 < M THEN q + 1 ELSE (q + 1) - M
    BY <1>1, SeqNumArithmetic, Zenon
  <2> HIDE DEF q, r
  <2>2. seqGreaterThan(r, q)
    BY <1>1, <2>1, HalfOfM, MAssumption, SMT DEF seqGreaterThan, SeqNum
  <2> QED
    BY <2>2 DEF r
<1>4. RemoveRange(cap, buf.entries, q, q) = buf.entries
  <2>1. q % (cap + 1) \in Int
    BY <1>1, MAssumption, Z3 DEF SeqNum
  <2>2. \A i \in Slots(cap) : ~(q % (cap + 1) <= i /\ i < q % (cap + 1))
    BY <2>1 DEF Slots
  <2>3. buf.entries = [i \in Slots(cap) |-> buf.entries[i]]
    BY DEF SequenceBuffers
  <2> QED
    BY <2>1, <2>2, <2>3 DEF RemoveRange
<1> QED
  BY <1>2, <1>3, <1>4 DEF Insert
-----------------------------------------------------------------------------
(* What the operations on a buffer return.                                 *)

\* The small numbers are sequence numbers.
LEMMA SmallNumbers == 0 \in SeqNum /\ 1 \in SeqNum /\ Empty \notin SeqNum
  BY MAssumption DEF SeqNum, Empty

\* A ring buffer stays one whatever number is inserted or removed.
LEMMA InsertType ==
    ASSUME NEW cap \in Nat \ {0}, NEW buf \in SequenceBuffers(cap), NEW s \in SeqNum
    PROVE  /\ Insert(cap, buf, s) \in SequenceBuffers(cap)
           /\ Remove(cap, buf, s) \in SequenceBuffers(cap)
<1> DEFINE cleared == RemoveRange(cap, buf.entries, buf.latest, s)
           latest  == IF seqGreaterThan(Plus(s, 1), buf.latest)
                        THEN Plus(s, 1) ELSE buf.latest
<1>1. cleared \in [Slots(cap) -> SeqNum \cup {Empty}]
  BY DEF RemoveRange, SequenceBuffers
<1>2. Plus(s, 1) \in SeqNum
  BY SmallNumbers, SeqNumArithmetic
<1>3. Slot(cap, s) \in Slots(cap)
  BY SlotInRange
<1> QED
  BY <1>1, <1>2, <1>3 DEF Insert, Remove, SequenceBuffers

\* Insert puts a number in its slot, Remove takes it out; what else they do to
\* a slot is to clear it.
LEMMA InsertEntries ==
    ASSUME NEW cap \in Nat \ {0}, NEW buf \in SequenceBuffers(cap), NEW s \in SeqNum
    PROVE  /\ Insert(cap, buf, s).entries[Slot(cap, s)] = s
           /\ Remove(cap, buf, s).entries[Slot(cap, s)] = Empty
           /\ \A i \in Slots(cap) \ {Slot(cap, s)} :
                 /\ Insert(cap, buf, s).entries[i] \in {buf.entries[i], Empty}
                 /\ Remove(cap, buf, s).entries[i] = buf.entries[i]
<1> DEFINE newer   == seqGreaterThan(Plus(s, 1), buf.latest)
           cleared == RemoveRange(cap, buf.entries, buf.latest, s)
           kept    == IF newer THEN cleared ELSE buf.entries
           latest  == IF newer THEN Plus(s, 1) ELSE buf.latest
<1>1. /\ cleared \in [Slots(cap) -> SeqNum \cup {Empty}]
      /\ \A i \in Slots(cap) : cleared[i] \in {buf.entries[i], Empty}
  BY DEF RemoveRange, SequenceBuffers
<1>2. Insert(cap, buf, s) = [latest |-> latest, entries |-> [kept EXCEPT ![Slot(cap, s)] = s]]
  BY DEF Insert
<1>3. Slot(cap, s) \in Slots(cap)
  BY SlotInRange
<1>4. /\ kept \in [Slots(cap) -> SeqNum \cup {Empty}]
      /\ \A i \in Slots(cap) : kept[i] \in {buf.entries[i], Empty}
  BY <1>1 DEF SequenceBuffers
<1> HIDE DEF newer, cleared, kept, latest
<1>5. Insert(cap, buf, s).entries = [kept EXCEPT ![Slot(cap, s)] = s]
  BY <1>2
<1>6. Remove(cap, buf, s).entries = [buf.entries EXCEPT ![Slot(cap, s)] = Empty]
  BY DEF Remove, SequenceBuffers
<1> QED
  BY <1>3, <1>4, <1>5, <1>6 DEF SequenceBuffers

\* The number an ACK bit stands for: one that is less than M back, also when
\* the bit's offset is M or more.
LEMMA AckIndex ==
    ASSUME NEW s \in SeqNum, NEW i \in Nat
    PROVE  Minus(s, i) \in SeqNum
<1>1. s - i \in Int /\ M \in Nat /\ M >= 4
  BY MAssumption DEF SeqNum
<1> QED
  BY <1>1, Remainders, Zenon DEF Minus, SeqNum

\* The acknowledgements that go into a header: each bit set stands for a number
\* that the buffer holds.
LEMMA NextACKType ==
    ASSUME NEW cap \in Nat \ {0}, NEW bits \in Nat, NEW buf \in SequenceBuffers(cap)
    PROVE  /\ NextACK(cap, bits, buf) \in [ack : SeqNum, acks : SUBSET (0 .. (bits - 1))]
           /\ \A i \in NextACK(cap, bits, buf).acks :
                 LET s == Minus(NextACK(cap, bits, buf).ack, i)
                 IN  s \in SeqNum /\ Find(cap, buf, s)
<1> DEFINE ack == Minus(buf.latest, 1)
<1>1. ack \in SeqNum
  BY SmallNumbers, SeqNumArithmetic DEF SequenceBuffers
<1>2. NextACK(cap, bits, buf) =
         [ack |-> ack, acks |-> {i \in 0 .. (bits - 1) : Find(cap, buf, Minus(ack, i))}]
  BY DEF NextACK
<1> HIDE DEF ack
<1>3. ASSUME NEW i \in 0 .. (bits - 1) PROVE Minus(ack, i) \in SeqNum
  BY <1>1, AckIndex
<1> QED
  BY <1>1, <1>2, <1>3
=============================================================================
