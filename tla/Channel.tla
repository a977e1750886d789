------------------------------ MODULE Channel ------------------------------
(***************************************************************************)
(* Channel (src/channel.go): an Endpoint whose dispatcher keeps what it    *)
(* transmits in a window, sends it again until it is acknowledged and      *)
(* holds back what does not fit.                                           *)
(*                                                                         *)
(* One goroutine calls Update, others call Read and Write and receive from *)
(* Out; they share the three queues and nothing else.  Update is a program *)
(* counter pc and an action per turn of each of its loops, so that the     *)
(* other goroutines interleave with it as they may.  processACKs calls     *)
(* back into ACK, which may call WritePacket: acking and draining are the  *)
(* two loops that are then under way, pending and room their variables.    *)
(*                                                                         *)
(* Time is measured by ages: how long before the time of the last Update   *)
(* something happened, up to ResendAfter, beyond which nothing is told     *)
(* apart.                                                                  *)
(***************************************************************************)
EXTENDS Endpoint

CONSTANTS
    ResendAfter,    \* 0.1 seconds, in ticks
    Arrivals,       \* packets a channel on its own may be given to read
    MaxWrites       \* bound on the messages given to each channel

ASSUME ChannelAssumption ==
    /\ ResendAfter \in Nat \ {0}
    /\ Arrivals \subseteq Packets
    /\ MaxWrites \in Nat
    /\ RecvPacketBufferSize <= SentPacketBufferSize
    /\ M % SentPacketBufferSize = 0
    /\ 4 * SentPacketBufferSize <= M    \* follows when M is 65536

VARIABLES
    window,         \* PacketBuffer
    packet,         \* the BufferedPacket in each slot of window
    queue,          \* messages held back
    oldestUnacked,
    lastSent,       \* age of the last packet put out
    readQueue, writeQueue, outQueue,
    pc, pending, room,
    accepted,       \* the messages Write was given, in order
    numbered        \* the messages among them that WritePacket has numbered

channelVars == <<window, packet, queue, oldestUnacked, lastSent, readQueue,
                 writeQueue, outQueue, pc, pending, room, accepted, numbered>>

vars == <<endpointVars, channelVars>>

Blank == [written |-> FALSE, age |-> 0,
          buf |-> CompactPacket(0, [ack |-> 0, acks |-> {}], Nil)]

ChannelInit ==
    /\ EndpointInit
    /\ window = [n \in Node |-> NewSequenceBuffer(SentPacketBufferSize)]
    /\ packet = [n \in Node |-> [i \in Slots(SentPacketBufferSize) |-> Blank]]
    /\ queue = [n \in Node |-> <<>>]
    /\ oldestUnacked = [n \in Node |-> 0]
    /\ lastSent = [n \in Node |-> 0]
    /\ readQueue = [n \in Node |-> <<>>]
    /\ writeQueue = [n \in Node |-> <<>>]
    /\ outQueue = [n \in Node |-> <<>>]
    /\ pc = [n \in Node |-> "idle"]
    /\ pending = [n \in Node |-> [ack |-> 0, acks |-> {}]]
    /\ room = [n \in Node |-> 0]
    /\ accepted = [n \in Node |-> <<>>]
    /\ numbered = [n \in Node |-> <<>>]

Goto(n, label) == pc' = [pc EXCEPT ![n] = label]

InWindow(n, s) == Find(SentPacketBufferSize, window[n], s)

WindowSlot(s) == Slot(SentPacketBufferSize, s)

-----------------------------------------------------------------------------
(* The other goroutines.                                                   *)

Read(n, p) ==
    /\ Len(readQueue[n]) < RecvPacketBufferSize
    /\ readQueue' = [readQueue EXCEPT ![n] = Append(@, p)]
    /\ UNCHANGED <<endpointVars, window, packet, queue, oldestUnacked, lastSent,
                   writeQueue, outQueue, pc, pending, room, accepted, numbered>>

Write(n, m) ==
    /\ Len(accepted[n]) < MaxWrites
    /\ Len(writeQueue[n]) < SentPacketBufferSize
    /\ writeQueue' = [writeQueue EXCEPT ![n] = Append(@, m)]
    /\ accepted' = [accepted EXCEPT ![n] = Append(@, m)]
    /\ UNCHANGED <<endpointVars, window, packet, queue, oldestUnacked, lastSent,
                   readQueue, outQueue, pc, pending, room, numbered>>

\* A receive from the channel that Out returns.
Out(n) ==
    /\ outQueue[n] # <<>>
    /\ outQueue' = [outQueue EXCEPT ![n] = Tail(@)]
    /\ UNCHANGED <<endpointVars, window, packet, queue, oldestUnacked, lastSent,
                   readQueue, writeQueue, pc, pending, room, accepted, numbered>>

-----------------------------------------------------------------------------
\* Endpoint.WritePacket with the Channel as its dispatcher: every fragment is
\* inserted in the window under the same sequence number, so the last one
\* stays.
WritePacket(n, m) ==
    LET out == NextTransmitted(n, m)
    IN  /\ NumberPacket(n, m)
        /\ IF Oversize(m)
             THEN UNCHANGED <<window, packet>>
             ELSE /\ window' = [window EXCEPT ![n] =
                                    Insert(SentPacketBufferSize, @, seq[n])]
                  /\ packet' = [packet EXCEPT ![n][WindowSlot(seq[n])] =
                                    [Blank EXCEPT !.buf = out[Len(out)]]]

\* WritePacket for a message that came through Write.
WriteMessage(n, m) ==
    /\ WritePacket(n, m)
    /\ numbered' = IF Oversize(m) THEN numbered
                   ELSE [numbered EXCEPT ![n] = Append(@, m)]

-----------------------------------------------------------------------------
(* Update.                                                                 *)

Older(age, dt) == IF age + dt < ResendAfter THEN age + dt ELSE ResendAfter

Aged(b, dt) == IF b.written THEN [b EXCEPT !.age = Older(@, dt)] ELSE b

\* Update is called dt after the last time it was.
Update(n, dt) ==
    /\ pc[n] = "idle"
    /\ Goto(n, "reading")
    /\ lastSent' = [lastSent EXCEPT ![n] = Older(@, dt)]
    /\ packet' = [packet EXCEPT ![n] = [i \in DOMAIN @ |-> Aged(@[i], dt)]]
    /\ UNCHANGED <<endpointVars, window, queue, oldestUnacked, readQueue, writeQueue,
                   outQueue, pending, room, accepted, numbered>>

\* ReadPacket on the next packet.  When it fails Update returns its error and
\* leaves the other packets, the writes and the resends for the next time.
ReadNext(n) ==
    /\ pc[n] = "reading"
    /\ readQueue[n] # <<>>
    /\ readQueue' = [readQueue EXCEPT ![n] = Tail(@)]
    /\ LET p == Head(readQueue[n])
       IN  \/ ReadFails(n, p) /\ Goto(n, "idle") /\ UNCHANGED pending
           \/ ReadStores(n, p) /\ UNCHANGED <<pc, pending>>
           \/ /\ ReadAccepts(n, p)
              /\ Goto(n, "acking")
              /\ pending' = [pending EXCEPT ![n] = [ack |-> Arriving(n, p).ack,
                                                    acks |-> Arriving(n, p).acks]]
    /\ UNCHANGED <<seq, sent, acked, window, packet, queue, oldestUnacked, lastSent,
                   writeQueue, outQueue, room, accepted, numbered>>

ReadDone(n) ==
    /\ pc[n] = "reading"
    /\ readQueue[n] = <<>>
    /\ Goto(n, "writing")
    /\ UNCHANGED <<endpointVars, window, packet, queue, oldestUnacked, lastSent,
                   readQueue, writeQueue, outQueue, pending, room, accepted, numbered>>

\* Mutant: the packet after the oldest one is taken for the next oldest.
NextInLine(n, k) == k = 1

\* The search in ACK for the next unacknowledged packet, which is k after the
\* oldest one; when there is none the search ends at the far end.
NextOldest(n, k) ==
    LET later(j) == InWindow(n, Plus(oldestUnacked[n], j))
    IN  \/ later(k) /\ \A j \in 1 .. (k - 1) : ~later(j)
        \/ k = RecvPacketBufferSize /\ \A j \in 1 .. k : ~later(j)

\* Mutants: only the oldest packet is taken out of the window; the room is one
\* short.
AckOldestOnly(n, s) ==
    IF InWindow(n, s) /\ s = oldestUnacked[n]
      THEN \E k \in 1 .. RecvPacketBufferSize :
              /\ NextOldest(n, k)
              /\ window' = [window EXCEPT ![n] = Remove(SentPacketBufferSize, @, s)]
              /\ oldestUnacked' = [oldestUnacked EXCEPT ![n] = Plus(@, k)]
              /\ room' = [room EXCEPT ![n] = k]
              /\ Goto(n, "draining")
      ELSE UNCHANGED <<window, oldestUnacked, room, pc>>

AckShortOfRoom(n, s) ==
    IF InWindow(n, s)
      THEN /\ window' = [window EXCEPT ![n] = Remove(SentPacketBufferSize, @, s)]
           /\ IF s # oldestUnacked[n]
                THEN UNCHANGED <<oldestUnacked, room, pc>>
                ELSE \E k \in 1 .. RecvPacketBufferSize :
                        /\ NextOldest(n, k)
                        /\ oldestUnacked' = [oldestUnacked EXCEPT ![n] = Plus(@, k)]
                        /\ room' = [room EXCEPT ![n] = k - 1]
                        /\ Goto(n, "draining")
      ELSE UNCHANGED <<window, oldestUnacked, room, pc>>

\* Channel.ACK up to the loop that drains the queue.
ACK(n, s) ==
    IF InWindow(n, s)
      THEN /\ window' = [window EXCEPT ![n] = Remove(SentPacketBufferSize, @, s)]
           /\ IF s # oldestUnacked[n]
                THEN UNCHANGED <<oldestUnacked, room, pc>>
                ELSE \E k \in 1 .. RecvPacketBufferSize :
                        /\ NextOldest(n, k)
                        /\ oldestUnacked' = [oldestUnacked EXCEPT ![n] = Plus(@, k)]
                        /\ room' = [room EXCEPT ![n] = k]
                        /\ Goto(n, "draining")
      ELSE UNCHANGED <<window, oldestUnacked, room, pc>>

\* The bits processACKs has yet to look at whose packets await their ACK.
Unmarked(n) ==
    {i \in pending[n].acks : AwaitsACK(n, Minus(pending[n].ack, i))}

\* One turn of processACKs that finds something to mark.
AckNext(n) ==
    /\ pc[n] = "acking"
    /\ \E i \in Unmarked(n) :
        /\ \A j \in Unmarked(n) : i <= j
        /\ LET s == Minus(pending[n].ack, i)
           IN  /\ acked' = [acked EXCEPT ![n][Slot(SentPacketBufferSize, s)] = TRUE]
               /\ ACK(n, s)
        /\ pending' = [pending EXCEPT ![n].acks = {j \in @ : j > i}]
    /\ UNCHANGED <<seq, sent, recv, assembler, fragment, packet, queue, lastSent,
                   readQueue, writeQueue, outQueue, accepted, numbered>>

AckDone(n) ==
    /\ pc[n] = "acking"
    /\ Unmarked(n) = {}
    /\ Goto(n, "reading")
    /\ pending' = [pending EXCEPT ![n] = [ack |-> 0, acks |-> {}]]
    /\ UNCHANGED <<endpointVars, window, packet, queue, oldestUnacked, lastSent,
                   readQueue, writeQueue, outQueue, room, accepted, numbered>>

\* Mutant: the message stays in the queue.
DrainWithoutPop(n) ==
    /\ pc[n] = "draining"
    /\ queue[n] # <<>>
    /\ room[n] > 0
    /\ room' = [room EXCEPT ![n] = @ - 1]
    /\ WriteMessage(n, Head(queue[n]))
    /\ UNCHANGED <<recv, assembler, fragment, queue, oldestUnacked, lastSent, readQueue,
                   writeQueue, outQueue, pc, pending, accepted>>

DrainNext(n) ==
    /\ pc[n] = "draining"
    /\ queue[n] # <<>>
    /\ room[n] > 0
    /\ queue' = [queue EXCEPT ![n] = Tail(@)]
    /\ room' = [room EXCEPT ![n] = @ - 1]
    /\ WriteMessage(n, Head(queue[n]))
    /\ UNCHANGED <<recv, assembler, fragment, oldestUnacked, lastSent, readQueue,
                   writeQueue, outQueue, pc, pending, accepted>>

DrainDone(n) ==
    /\ pc[n] = "draining"
    /\ queue[n] = <<>> \/ room[n] = 0
    /\ room' = [room EXCEPT ![n] = 0]
    /\ Goto(n, "acking")
    /\ UNCHANGED <<endpointVars, window, packet, queue, oldestUnacked, lastSent,
                   readQueue, writeQueue, outQueue, pending, accepted, numbered>>

\* Mutant: the window takes one packet too many.
WindowOverfull(n) == Plus(oldestUnacked[n], RecvPacketBufferSize + 1) = seq[n]

WindowFull(n) == Plus(oldestUnacked[n], RecvPacketBufferSize) = seq[n]

WriteNext(n) ==
    /\ pc[n] = "writing"
    /\ writeQueue[n] # <<>>
    /\ writeQueue' = [writeQueue EXCEPT ![n] = Tail(@)]
    /\ \/ /\ WindowFull(n)
          /\ queue' = [queue EXCEPT ![n] = Append(@, Head(writeQueue[n]))]
          /\ UNCHANGED <<seq, sent, acked, window, packet, numbered>>
       \/ /\ ~WindowFull(n)
          /\ WriteMessage(n, Head(writeQueue[n]))
          /\ UNCHANGED queue
    /\ UNCHANGED <<recv, assembler, fragment, oldestUnacked, lastSent, readQueue,
                   outQueue, pc, pending, room, accepted>>

WriteDone(n) ==
    /\ pc[n] = "writing"
    /\ writeQueue[n] = <<>>
    /\ Goto(n, "resending")
    /\ UNCHANGED <<endpointVars, window, packet, queue, oldestUnacked, lastSent,
                   readQueue, writeQueue, outQueue, pending, room, accepted, numbered>>

\* The packet k after the oldest one is due: it is new, or it was last put out
\* ResendAfter ago.
Due(n, k) ==
    LET s == Plus(oldestUnacked[n], k)
        held == packet[n][WindowSlot(s)]
    IN  InWindow(n, s) /\ (~held.written \/ held.age >= ResendAfter)

\* Mutants: lastSent is not reset; the packet is not marked as written.
ResendForgetsTime(n) ==
    /\ pc[n] = "resending"
    /\ Len(outQueue[n]) < SentPacketBufferSize
    /\ \E k \in 0 .. RecvPacketBufferSize :
        /\ Due(n, k)
        /\ \A j \in 0 .. (k - 1) : ~Due(n, j)
        /\ LET i == WindowSlot(Plus(oldestUnacked[n], k))
           IN  /\ packet' = [packet EXCEPT ![n][i].written = TRUE, ![n][i].age = 0]
               /\ outQueue' = [outQueue EXCEPT ![n] = Append(@, packet[n][i].buf)]
    /\ UNCHANGED <<endpointVars, window, queue, oldestUnacked, lastSent, readQueue,
                   writeQueue, pc, pending, room, accepted, numbered>>

ResendUnmarked(n) ==
    /\ pc[n] = "resending"
    /\ Len(outQueue[n]) < SentPacketBufferSize
    /\ \E k \in 0 .. RecvPacketBufferSize :
        /\ Due(n, k)
        /\ \A j \in 0 .. (k - 1) : ~Due(n, j)
        /\ outQueue' = [outQueue EXCEPT ![n] =
                Append(@, packet[n][WindowSlot(Plus(oldestUnacked[n], k))].buf)]
    /\ lastSent' = [lastSent EXCEPT ![n] = 0]
    /\ UNCHANGED <<endpointVars, window, packet, queue, oldestUnacked, readQueue,
                   writeQueue, pc, pending, room, accepted, numbered>>

\* The send blocks while outQueue is full.  A packet put out is not due again
\* in the same Update, so each turn takes the first one that is.
ResendNext(n) ==
    /\ pc[n] = "resending"
    /\ Len(outQueue[n]) < SentPacketBufferSize
    /\ \E k \in 0 .. RecvPacketBufferSize :
        /\ Due(n, k)
        /\ \A j \in 0 .. (k - 1) : ~Due(n, j)
        /\ LET i == WindowSlot(Plus(oldestUnacked[n], k))
           IN  /\ packet' = [packet EXCEPT ![n][i].written = TRUE, ![n][i].age = 0]
               /\ outQueue' = [outQueue EXCEPT ![n] = Append(@, packet[n][i].buf)]
    /\ lastSent' = [lastSent EXCEPT ![n] = 0]
    /\ UNCHANGED <<endpointVars, window, queue, oldestUnacked, readQueue, writeQueue,
                   pc, pending, room, accepted, numbered>>

\* Update ends, with a keep-alive when nothing was put out for ResendAfter.
ResendDone(n) ==
    /\ pc[n] = "resending"
    /\ \A k \in 0 .. RecvPacketBufferSize : ~Due(n, k)
    /\ Goto(n, "idle")
    /\ IF lastSent[n] >= ResendAfter
         THEN WritePacket(n, Nil)
         ELSE UNCHANGED <<seq, sent, acked, window, packet>>
    /\ UNCHANGED <<recv, assembler, fragment, queue, oldestUnacked, lastSent, readQueue,
                   writeQueue, outQueue, pending, room, accepted, numbered>>

UpdateNext(n) ==
    \/ ReadNext(n) \/ ReadDone(n) \/ AckNext(n) \/ AckDone(n) \/ DrainNext(n)
    \/ DrainDone(n) \/ WriteNext(n) \/ WriteDone(n) \/ ResendNext(n) \/ ResendDone(n)

\* A channel whose peer is anything that sends packets of Arrivals.
ChannelNext ==
    \E n \in Node :
        \/ UpdateNext(n)
        \/ \E dt \in 0 .. ResendAfter : Update(n, dt)
        \/ \E p \in Arrivals : Read(n, p)
        \/ \E m \in Message : Write(n, m)
        \/ Out(n)

Spec == ChannelInit /\ [][ChannelNext]_vars

\* The scheduler runs the goroutine that is in Update, and the application
\* goes on receiving from Out.
FairSpec == Spec /\ \A n \in Node : WF_vars(UpdateNext(n)) /\ WF_vars(Out(n))

-----------------------------------------------------------------------------
TypeOK ==
    /\ EndpointTypeOK
    /\ window \in [Node -> SequenceBuffers(SentPacketBufferSize)]
    /\ packet \in [Node -> [Slots(SentPacketBufferSize) ->
                      [written : BOOLEAN, age : 0 .. ResendAfter, buf : Packets]]]
    /\ oldestUnacked \in [Node -> SeqNum]
    /\ lastSent \in [Node -> 0 .. ResendAfter]
    /\ readQueue \in [Node -> Seq(Packets)]
    /\ outQueue \in [Node -> Seq(Packets)]
    /\ queue \in [Node -> Seq(Message)]
    /\ writeQueue \in [Node -> Seq(Message)]
    /\ accepted \in [Node -> Seq(Message)]
    /\ numbered \in [Node -> Seq(Message)]
    /\ pc \in [Node -> {"idle", "reading", "acking", "draining", "writing", "resending"}]
    /\ pending \in [Node -> [ack : SeqNum, acks : SUBSET (0 .. (AckBits - 1))]]
    /\ room \in [Node -> 0 .. RecvPacketBufferSize]

\* How far the next sequence number is ahead of the oldest unacknowledged one.
Ahead(n) == Minus(seq[n], oldestUnacked[n])

\* Flow control across the wrap of the sequence numbers: neither Write, nor the
\* queue that ACK drains, nor a keep-alive takes the next number more than
\* RecvPacketBufferSize past oldestUnacked.  (ACK may put oldestUnacked up to
\* that far past the next number instead.)
FlowControl ==
    \A n \in Node : \/ Ahead(n) <= RecvPacketBufferSize
                    \/ Ahead(n) >= M - RecvPacketBufferSize

\* While oldestUnacked is a packet that was sent, that packet is in the window:
\* the resend loop starts with it, and its acknowledgement moves the window.
OldestIsHeld ==
    \A n \in Node :
        Ahead(n) \in 1 .. RecvPacketBufferSize => InWindow(n, oldestUnacked[n])

\* The window and the endpoint's own buffer of sent packets agree on what is
\* unacknowledged, though they are updated apart and through callbacks.
WindowIsUnacked ==
    \A n \in Node : \A s \in SeqNum : InWindow(n, s) <=> AwaitsACK(n, s)

\* Transmit and WritePacket use what Insert returns without looking: the number
\* about to be used is never outdated in either buffer, also when it wraps.
NextIsInsertable ==
    \A n \in Node :
        /\ ~IsOutdated(SentPacketBufferSize, sent[n], seq[n])
        /\ ~IsOutdated(SentPacketBufferSize, window[n], seq[n])

\* No message that Write took from n is one that WritePacket refuses for its
\* size.
NoneRefused(n) == \A i \in DOMAIN accepted[n] : ~Oversize(accepted[n][i])

\* Messages get their sequence numbers in the order in which Write took them,
\* also those that waited in queue while the window was full.  (As long as none
\* is refused for its size: see the README.)
WritesInOrder ==
    \A n \in Node :
        NoneRefused(n) => numbered[n] \o queue[n] \o writeQueue[n] = accepted[n]

\* A packet within reach of the resend loop leaves the window only when it has
\* been acknowledged: no newer packet takes its slot.
KeptUntilACKed ==
    [][\A n \in Node : \A s \in SeqNum :
        Minus(s, oldestUnacked[n]) <= RecvPacketBufferSize /\ InWindow(n, s)
            => InWindow(n, s)' \/ acked'[n][WindowSlot(s)]]_vars

\* Update writes a keep-alive only when nothing within reach of the resend loop
\* is unacknowledged, so that keep-alives never press on a full window.
KeepAliveWhenQuiet ==
    [][\A n \in Node : pc[n] = "resending" /\ seq'[n] # seq[n] =>
        \A k \in 0 .. RecvPacketBufferSize :
            ~InWindow(n, Plus(oldestUnacked[n], k))]_vars

\* An Update that has come to its resend loop returns: the loop puts each due
\* packet out once, and a full outQueue only delays it.  The loops before it have
\* no bound while others keep readQueue and writeQueue filled.
UpdateReturns ==
    \A n \in Node : pc[n] = "resending" ~> pc[n] = "idle"

\* channel.go:81 says of the resend loop: "Write packets that have yet to be
\* written".  So when Update ends, every packet of the window was written.
NothingLeftUnwritten ==
    [][\A n \in Node : pc[n] = "resending" /\ pc'[n] = "idle" =>
        \A s \in SeqNum : InWindow(n, s) => packet[n][WindowSlot(s)].written]_vars
=============================================================================
