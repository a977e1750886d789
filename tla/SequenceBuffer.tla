--------------------------- MODULE SequenceBuffer ---------------------------
(***************************************************************************)
(* The ring buffer keyed by sequence number that src/buffer.go defines and *)
(* that SentPacketBuffer, RecvPacketBuffer, PacketBuffer and               *)
(* FragmentReassemblyBuffer repeat word for word.  A buffer is a record:   *)
(* latest, the successor of the newest sequence number inserted so far,    *)
(* and entries, a function from slots to the sequence number each one      *)
(* holds.  cap is the number of slots.  What a slot carries besides (the   *)
(* Go struct that Insert and Find return a pointer to) belongs to the      *)
(* module that uses the buffer, which keeps it in a function on slots.     *)
(***************************************************************************)
EXTENDS SequenceNumbers

\* EmptySequenceBufferEntry is MaxUint32, equal to no 16-bit number.
Empty == M

Slots(cap) == 0 .. (cap - 1)

Slot(cap, seq) == seq % cap

SequenceBuffers(cap) ==
    [latest : SeqNum, entries : [Slots(cap) -> SeqNum \cup {Empty}]]

NewSequenceBuffer(cap) ==
    [latest |-> 0, entries |-> [i \in Slots(cap) |-> Empty]]

\* RemoveRange reduces both ends modulo cap + 1, one more than the number of
\* slots, and clears the slots between them.
RemoveRange(cap, entries, start, end) ==
    LET s == start % (cap + 1)
        e == end % (cap + 1)
        cleared(i) == IF e < s THEN i >= s \/ i < e ELSE s <= i /\ i < e
    IN  [i \in Slots(cap) |-> IF cleared(i) THEN Empty ELSE entries[i]]

\* Mutant: nothing is ever too old.
NeverOutdated(cap, buf, seq) == FALSE

IsOutdated(cap, buf, seq) == seqLessThan(seq, Minus(buf.latest, cap))

\* Mutants: the successor is not reduced to 16 bits; any packet becomes the
\* newest one.
InsertUnwrapped(cap, buf, seq) ==
    [latest  |-> IF seqGreaterThan(Plus(seq, 1), buf.latest) THEN seq + 1 ELSE buf.latest,
     entries |-> [buf.entries EXCEPT ![Slot(cap, seq)] = seq]]

InsertAsNewest(cap, buf, seq) ==
    [latest  |-> Plus(seq, 1),
     entries |-> [RemoveRange(cap, buf.entries, buf.latest, seq)
                     EXCEPT ![Slot(cap, seq)] = seq]]

\* Insert of a sequence number that is not outdated (for one that is, the
\* code returns nil and changes nothing).
Insert(cap, buf, seq) ==
    LET newer   == seqGreaterThan(Plus(seq, 1), buf.latest)
        latest  == IF newer THEN Plus(seq, 1) ELSE buf.latest
        entries == IF newer THEN RemoveRange(cap, buf.entries, buf.latest, seq)
                            ELSE buf.entries
    IN  [latest |-> latest, entries |-> [entries EXCEPT ![Slot(cap, seq)] = seq]]

\* Mutant: any entry in the slot will do.
FindOccupied(cap, buf, seq) == buf.entries[Slot(cap, seq)] # Empty

Find(cap, buf, seq) == buf.entries[Slot(cap, seq)] = seq

Remove(cap, buf, seq) == [buf EXCEPT !.entries[Slot(cap, seq)] = Empty]

\* Mutants: the bits are numbered from 1; they are counted from the wrong packet.
NextACKFromOne(cap, bits, buf) ==
    LET ack == Minus(buf.latest, 1)
    IN  [ack |-> ack, acks |-> {i \in 1 .. bits : Find(cap, buf, Minus(ack, i - 1))}]

NextACKShifted(cap, bits, buf) ==
    [ack  |-> buf.latest,
     acks |-> {i \in 0 .. (bits - 1) : Find(cap, buf, Minus(Minus(buf.latest, 1), i))}]

\* RecvPacketBuffer.NextACK with an ACK bitset of bits bits (32 in the code):
\* the newest sequence number received and, as a set of offsets back from it,
\* the bits that are set.
NextACK(cap, bits, buf) ==
    LET ack == Minus(buf.latest, 1)
    IN  [ack  |-> ack,
         acks |-> {i \in 0 .. (bits - 1) : Find(cap, buf, Minus(ack, i))}]
=============================================================================
