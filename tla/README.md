# A specification of sleepy

`sleepy` is a Go repository with two network packages. Package `sleepy` (the
root directory) is a reliable-UDP protocol after reliable.io: endpoints that
number and acknowledge packets, and channels that send again what is not
acknowledged. Package `sleepytcp` is a pool of TCP connections after fasthttp's
`HostClient` and its dialer. This directory holds TLA+ models of both, the TLC
configurations that check them and TLAPS proofs: every safety property that a
passing run checks is also proved, for all values of the constants that satisfy the
assumptions of section 4.

    tlc -config Channel.cfg MCChannel        # a run; the table below has them all
    tlapm HostClientProofs.tla               # a proof module

## 1. The system

### Components

| Component | Source | State | Operations | Correct when |
|---|---|---|---|---|
| Sequence numbers | `utils.go` | none | `seqGreaterThan`, `seqLessThan`, `seqLTE` | the order survives the wrap at 65535 |
| Packet headers | `packet.go` | none | `AppendTo`, `UnmarshalPacketHeader` and the same for fragments | a header is read as it was written, a part of one is refused |
| Sequence buffers | `buffer*.go`, `memset.go` | `latest`, a sequence number per slot | `Insert`, `Find`, `Remove`, `IsOutdated`, `NextACK` | `latest` is the newest packet's successor; a slot never speaks for another packet |
| Endpoint | `endpoint.go`, `packet.go` | `seq`, `sent`, `recv`, `assembler` | `WritePacket`, `ReadPacket`, `Update` | only what was written is processed; only what was processed is acknowledged |
| Channel | `channel.go` | `window`, `queue`, `oldestUnacked`, `lastSent`, three Go channels | `Read`, `Write`, `Out`, `Update`; callbacks `Transmit`, `Process`, `ACK` | flow control, retransmission until acknowledged, order of writes |
| HostClient | `sleepytcp/client_host.go` | `conns`, `count`, `queue`, `cleanerRunning` | `Do`; goroutines that dial for waiting callers and clean up | no place and no connection is lost, shared or leaked; callers do not hang |
| Waiting callers | `sleepytcp/client_wait.go` | `conn`, `err`, `ready` | `waiting`, `tryDeliver`, `cancel`; the queue | one answer each, `ready` closed once |
| Client | `sleepytcp/client.go` | map of host clients | `Do`, `cleanupIdleClients` | one HostClient per host in use |
| TCPDialer | `sleepytcp/dial_tcp.go`, `dial.go` | tokens, result channels, cache of addresses | `dial`, `tryDial`, `getTCPAddrs`, `tcpAddrsClean` | limit on concurrent dials, everybody gets his own result, addresses are refreshed |
| Timer pool | `sleepytcp/timer.go` | pool | `AcquireTimer`, `ReleaseTimer` | no timer fires for its earlier user |
| Frames, connections | `sleepytcp/rpc.go`, `client_conn.go` | pooled records | accessors | - |
| Configuration, errors | `config.go`, `error.go` | constants | - | - |
| Programs | `cmd/` | - | goroutines around a channel, a client | - |

### Interactions

An `Endpoint` calls its `EndpointDispatcher` back: `Transmit` for every packet
or fragment it writes, `Process` for every whole packet it accepts and `ACK` for
every packet that a header acknowledges. `Channel` is such a dispatcher and owns
the endpoint that calls it, so `Update` may be in `ReadPacket`, in `processACKs`,
in `ACK` and in `WritePacket` of the same endpoint at once. One goroutine calls
`Update`; others call `Read` and `Write` and receive from `Out`; they share three
buffered Go channels and nothing else.

In `sleepytcp` many goroutines call `HostClient.Do`. They share the fields of
the HostClient under `mu`; a caller who must wait hands a `waitingCaller` with a
mutex of its own to a queue and is answered by whoever recycles a connection, by
a goroutine that dials for it, or by its own timer. One cleaner goroutine closes
idle connections and ends when the pool is empty.

A `Client` keeps a HostClient per address and removes it when its `count` is 0; it
looks at that count without knowing whether a `Do` has just looked the HostClient
up. A HostClient dials through its `Dial` function, by default a `TCPDialer`: `dial`
asks the cache for addresses and `tryDial` starts a goroutine for each, with a
token of `concurrencyCh`, a pooled result channel and a pooled timer.

### What is hard

Wrap-around of 16-bit numbers; ring slots reused across laps; headers that are
stale, duplicated or reordered; fragments of several packets in any order;
re-entrance of the endpoint through callbacks; an early return out of `Update`;
a full window, queue or Go channel; and in the pool the handover of a place
between goroutines, a timeout that races a delivery, a dial whose caller has
gone, and unlocked state. `PROJECT.json` lists each at its line under `hazards`.

## 2. The modules

    SequenceNumbers
      PacketCodec
      SequenceBuffer ................ SequenceBufferProofs
        RecvBuffer (and PacketCodec)..... RecvBufferProofs
        Endpoint .................... EndpointProofs
          EndpointPair <- MCEndpointPair .... EndpointPairProofs
          Channel <- MCChannel
            ChannelPair <- MCChannelPair .... ChannelProofs

    WaitingQueue
      HostClient <- MCHostClient .... HostClientProofs
        (implements ConnPool)
    Client <- MCClient .............. ClientProofs
    DialConstants
      AddrCache <- MCAddrCache ...... TCPDialerProofs
      TCPDialer <- MCTCPDialer ...... TCPDialerProofs
        (with TimerPool)

**SequenceNumbers** is `utils.go`. `M` is 65536 in the code and any even number
here; `Plus` and `Minus` are uint16 arithmetic.

**SequenceBuffer** is the ring that the four Go buffer types repeat. A buffer is
the record of `latest` and the sequence number in each slot. What a slot carries
besides (the Go struct behind the pointer that `Insert` and `Find` return) is kept
by the user module, in a function on slots: `acked` for `sent`, `packet` for
`window`, `fragment` for `assembler`. `RemoveRange` is translated as it is, with
its reduction modulo `cap + 1`.

**PacketCodec** is `packet.go`. A packet is a sequence that begins with the flag
byte, a record of its bits; numbers are bytes of `ByteSize` values, and a byte of
the ACK bitset is the set of its bits. It has no behaviour: it is used by
`HeaderArrives` of RecvBuffer, on every header that a receive buffer gives rise to.

**RecvBuffer** composes a receive buffer with a peer that numbers packets
0, 1, 2, ... without wrapping and a network that delays, repeats and loses them.
`got` is the reference that the 16-bit state is compared with.

**Endpoint** holds the endpoint's state, one function on `Node` per field, and
what `WritePacket` and `ReadPacket` do to it. `ReadPacket` has three outcomes,
`ReadFails`, `ReadStores` (a fragment is kept) and `ReadAccepts` (a whole packet
is entered in `recv`). A payload is a model value with a size; a fragment carries
the payload it was cut from, so that an assembled packet whose pieces come from
different messages is visible (`Mixed`). A packet on the wire is the record of
its decoded fields. `NewFragment`, `Entry`, `FragmentRefused`, `Marked` follow
`recvFragmentedPacket` statement by statement; an error path leaves the state
that the code leaves.

**EndpointPair** joins two endpoints through the dispatcher of
`endpoint_test.go`, which only records.

**Channel** makes `Update` a program counter with one action per turn of each of
its loops:

| pc | Actions | Code |
|---|---|---|
| `idle` | `Update` | not in `Update`; `time` moves on by `dt` |
| `reading` | `ReadNext`, `ReadDone` | `channel.go:49-60`; a failed read returns to `idle` at once |
| `acking` | `AckNext`, `AckDone` | `endpoint.go:317-343`, with `ACK` up to its drain loop inside `AckNext` |
| `draining` | `DrainNext`, `DrainDone` | `channel.go:164-173`; `room` is `diff - i` |
| `writing` | `WriteNext`, `WriteDone` | `channel.go:62-79` |
| `resending` | `ResendNext`, `ResendDone` | `channel.go:81-106`, the keep-alive included in `ResendDone` |

`Read`, `Write` and `Out` are the other goroutines and interleave with every one
of these. Time is the age of each event up to `ResendAfter`, the only span that
the code compares with. `accepted` and `numbered` are history: the messages
that `Write` took and those that have a sequence number.

**ChannelPair** joins two channels by a network that never forgets a packet. The
socket goroutines are those of `cmd/udp_test/main.go`, which has a single channel and
writes to its own address; the module generalises it to a channel and a peer.

**WaitingQueue** is the queue in two stages of `client_wait.go`, with its `headPos`
and the nil that a popped place leaves; `Contents` is the one queue it stands for.

**HostClient** has a process per goroutine: the callers, `tryDialForWaitingCaller`
for each waiting caller, and the cleaner. A section under `mu` is one step, but for
the loops over the queue: a caller may cancel between `waiting()` and `tryDeliver`,
because `cancel` takes only the caller's own mutex, so each turn of these loops and
the delivery after it are steps, and `mu` is kept from one to the next.
`decrementCountOr...` and `conn.Close()` are separate steps, as are the cleaner's
decision to stop and its unlocked reset of `cleanerRunning`. `config` holds the two
fields that select behaviour and is chosen at the start. A timer may fire whenever
its caller waits. `MaxIdleConnDuration` becomes the cleaner's choice of how many of
the connections that have been idle longest have expired. A `waitingCaller` is the
record of its connection, of whether it has been answered (`conn` or `err` set) and of
how often `ready` was closed; `tryDeliver` and `cancel` are operators of their own with
the guards of `client_wait.go:27` and `43`, and everything that answers a caller goes
through one of them.

| pc of a caller | Code |
|---|---|
| `idle`, `acquire` | outside `Do`; `tryAcquireClientConn`, its section under `mu` |
| `starting`, `dialing` | a place was taken: `go cleanupIdleConnections`, then `Dial` |
| `enqueue`, `waiting` | `queueForIdle`; the select on `ready` and the timer |
| `using`, `closing` | `do`; `destroyClientConn` after an error |
| `recycling`, `delivering` | `tryRecycleClientConn`, a turn of its loop and the delivery |
| `discarding` | `decrementCountOrTryDialForWaitingCallers` |

The cleaner is `scanning`, `destroying` and `stopping` besides.

**ConnPool** is what a HostClient promises: places, connections that are only opened
in a place, and at most one user of each. `PoolSpec` is the refinement: `places` is
`count`, a connection is in the pool from its dial until it is condemned, also
while it is handed from one goroutine to another.

**Client** is the map of HostClients, of which only `count` is kept. Callers and
cleaners interleave; `cleanupIdleClients` holds `c.mu` through its range over the
map, but each look at a count and each deletion is a step, since `count` changes
under another lock. A HostClient that is removed while a caller holds it lives on
outside the map (an orphan), and a request that fails is repeated on the HostClient it
was for, in the map or not (`Retries`).

**DialConstants** holds what AddrCache and TCPDialer have in common, so that their
proofs can be in one module.

**AddrCache** is `getTCPAddrs` and `tcpAddrsClean`: the lock is not held while an
address is resolved, so that resolutions overtake each other and a caller may come
back to an entry that has left the table. Ages are those the code tells apart.

**TCPDialer** is the loop of `dial` and what `tryDial` starts: the token (with the
wait for one), the goroutine, the result channel and its pool, the timer. A caller
that gives up leaves its goroutine behind with its token and channel. `late` is
the deadline of `dial`; a dial in the network may take any time and never end.

**TimerPool** is `timer.go` over the runtime's timers of go 1.14 (`go.mod`): a timer
that expires is disarmed first and sends later, and `Reset` leaves the channel as
it is.

Each mutant named in `PROJECT.json` is an operator beside the definition it
replaces, under a comment that begins with "Mutant".

## 3. The runs

| Run | Module, cfg | Shows | States |
|---|---|---|---|
| `recv_buffer` | RecvBuffer | two wraps of the numbers with late, repeated and lost packets: `latest` is right, no bit of the ACK bitset is wrong, the newest packet is always acknowledged; the header with them is read as it was written | 197 000 |
| `endpoint_pair` | MCEndpointPair, EndpointPair | fragmented, small and oversize messages under any loss, order and repetition: what is processed was written under that number and is whole; the assembler keeps nothing that is complete; what is acknowledged was processed | 81 000 |
| `channel` | MCChannel, Channel | any acknowledgement between any two steps, across the wrap: flow control, agreement of the two buffers, order of writes, nothing lost from the window unacknowledged, keep-alives only when quiet; the resend loop ends and `Update` returns | 191 000 |
| `channel_pair` | MCChannelPair, ChannelPair | end to end: a window drops only what the peer processed; numbers follow the order of `Write` | 110 000 |
| `host_client` | MCHostClient, HostClient | `count` is exact and within the limit, every connection has one owner, `ready` is never closed twice, one cleaner; it implements ConnPool; nobody stays in `tryAcquireClientConn` for ever | 132 000 |
| `client` | MCClient, Client | one cleaner while the map has entries and none after; a HostClient that stays without connections leaves the map, whatever requests do | 41 000 |
| `addr_cache` | MCAddrCache, AddrCache | a pending entry is always being resolved, however resolutions fail and overtake each other; stale addresses do not stay in use | 336 000 |
| `tcp_dialer` | MCTCPDialer, TCPDialer | abandoned dials that may hang: tokens are exact, no send blocks, nobody gets another's result, no timer is shared; `dial` returns | 306 000 |

Four runs show where the code does not do what a comment says (`findings` in
`PROJECT.json`):

| Run | Source | What happens |
|---|---|---|
| `recv_ack_complete` | `buffer.go:21` | `RemoveRange` reduces modulo `cap + 1`; from the second lap it clears slots of packets just received and the ACK bitset omits them. (`AckSound` and `NewestIsAcked` hold nevertheless.) |
| `channel_pair_unwritten` | `channel.go:161` | when nothing else is unacknowledged, `oldestUnacked` jumps a whole window ahead instead of to the latest number, and what is numbered next is outside the resend loop: it is never written |
| `channel_pair_fragments` | `channel.go:120` | all fragments share one entry of the window, and only the last one goes out |
| `tcp_dialer_addresses` | `dial_tcp.go:292` | `addrs[idx%n]` with a growing `idx` and a shrinking `n` dials the first of two addresses twice and the second never |

Because of the second one, the "reliable" of the top-level README (line 25) does
not hold of a channel, and no liveness property of delivery is claimed here.

### Bounds

* `RecvBuffer`: M = 20, 4 slots, 4 ACK bits, 42 packets, so that the numbers wrap
  twice and every residue of a slot meets `RemoveRange`'s modulus 5. `Lag` = 5
  lets a packet be late by more than a whole buffer, which is when it is refused, and is
  the most that `ReachAssumption` admits here. `MaxLost` = 1 packet that never arrives,
  besides those that are refused. An unbounded burst of losses would carry the peer half the
  number space ahead, where 16 bits cannot tell old from new.
* `EndpointPair`: three messages one way, two keep-alives back; `MaxFragments` = 4,
  payloads of one packet, of two fragments and too large; 2 slots in every
  buffer, so that packets 0 and 2 share a slot in each of them.
* `Channel`: M = 8 with buffers of 2, so that numbers wrap with live entries, and
  three writes, one more than the window holds. Keep-alives make the run
  unbounded in numbers; all its state is modulo M and it is finite.
  `Arrivals` are packets with any `ack` and one or two bits, and a fragment that
  cannot be stored. The action constraints of `MCChannel` order operations that
  commute (its comment says why) and lose no behaviour of the properties.
* `ChannelPair`: two writes and sequence numbers up to 3; no Update begins that
  could pass the bound. The network only grows, which stands for loss (never
  deliver), delay and repetition.
* `HostClient`: two callers, two waiting callers and two connections, in three
  configurations chosen at the start: one place and waiting, one place and refusal,
  two places and waiting. Two waiting callers suffice for both stages of the queue,
  since a caller that times out leaves its entry behind and may queue again.
* `Client`: two addresses, three HostClients, so that one may be an orphan while both
  addresses have an entry; two cleaners, so that a second could run if it were started.
* `AddrCache`: three callers of one address, for a resolution that fails late, one
  that succeeds meanwhile and one that refreshes the entry. `IdxSize` = 2 lets the
  index wrap.
* `TCPDialer`: two callers, one token, one goroutine, one channel: an abandoned dial
  keeps the other caller waiting, and the pooled channel and timers change hands.
  Two addresses and an index that wraps at 2.
* The wire: `ByteSize` = 5 with M = 20, so that the one-byte form of the ack is and is
  not taken; four bytes of one bit make up the bitset.

`CHECK_DEADLOCK FALSE` is set where the bound on writes or packets stops the
system: RecvBuffer, EndpointPair, ChannelPair. The others never stop.

### Fairness

* `channel`: weak fairness of the goroutine in `Update` (the Go scheduler runs it) and
  of the application's receive from `Out`, without which `Update` blocks by design.
  `UpdateReturns` is stated from the resend loop on: the reading loop has no bound
  as long as packets arrive, nor has the writing loop while `Write` keeps filling
  `writeQueue` (`MaxWrites` would end it in the model only). The action constraints keep every step of `Update` and
  `Out` and only leave out operations of others, so that they lose no behaviour in
  which an `Update` never ends.
* `host_client`: strong fairness of every goroutine, since `sync.Mutex` hands over to
  starving waiters, a dial has a timeout and a timer that is set fires. That a request
  ends is assumed too, which the code only gives when `WriteTimeout` is set: nothing is
  claimed of a HostClient without it.
* `client`: weak fairness of the `go` statement that starts the cleaner and of the
  cleaner, whom only another cleaner could keep from `c.mu` for long. Nothing is assumed
  of requests, which need not have a deadline (`client_host.go:114`) and are repeated
  without bound (`:82-91`), nor of the expiry of connections (`:484-490` may leave one
  without a cleaner). Therefore nothing is claimed of when an orphan comes to rest.
* `addr_cache`: a resolver answers (with addresses or an error), entries age, the
  cleaner runs every second.
* `tcp_dialer`: callers run, deadlines pass, timers fire and send. Nothing is assumed
  of `net.DialTCP`: an abandoned goroutine may stay for ever, and `DialReturns`
  holds all the same.

No fairness is assumed of calls to `Do`, `Dial`, `Write`, `Read` or `Update`.

## 4. The proofs

For all values of the constants that satisfy the assumptions, TLAPS checks:

| Theorem | Property |
|---|---|
| `RecvBufferProofs!RecvTypeCorrect` | `TypeOK` of RecvBuffer |
| `RecvBufferProofs!LatestStaysNewest` | `LatestIsNewest` |
| `RecvBufferProofs!NewestStaysAcked` | `NewestIsAcked` |
| `RecvBufferProofs!AcksAreSound` | `AckSound`, when no packet is later than a buffer |
| `RecvBufferProofs!HeadersArrive` | `HeaderArrives` |
| `RecvBufferProofs!HeadersRoundTrip`, `FragmentHeadersRoundTrip` | decoding inverts encoding, for every header and payload |
| `EndpointPairProofs!PairTypeCorrect` | `TypeOK` of EndpointPair |
| `EndpointPairProofs!ReassemblyIsSound` | `ProcessedWasWritten` |
| `EndpointPairProofs!AssemblersAreIncomplete` | `EntriesIncomplete` |
| `EndpointPairProofs!AcksAreTrue` | `AckedWasProcessed` of EndpointPair |
| `ChannelProofs!TypeCorrect` | `TypeOK` of Channel |
| `ChannelProofs!WindowIsBounded` | `FlowControl` |
| `ChannelProofs!OldestStays` | `OldestIsHeld` |
| `ChannelProofs!BuffersAgree` | `WindowIsUnacked` |
| `ChannelProofs!NextInserts` | `NextIsInsertable` |
| `ChannelProofs!KeepAliveIsQuiet` | `KeepAliveWhenQuiet` |
| `ChannelProofs!KeptInWindow` | `KeptUntilACKed` |
| `ChannelProofs!NumberedInOrder` | `WritesInOrder` |
| `ChannelProofs!ChannelAcksAreTrue` | `AckedWasProcessed` of ChannelPair |
| `ChannelProofs!DeliveredInWriteOrder` | `ProcessedInWriteOrder` |
| `HostClientProofs!HostTypeCorrect` | `TypeOK` of HostClient |
| `HostClientProofs!CountStaysExact`, `CountStaysWithinMax` | `CountIsExact`, `CountWithinMax` |
| `HostClientProofs!ConnsHaveOneOwner` | `OneOwner` |
| `HostClientProofs!ReadyClosesOnce` | `ReadyClosedOnce` |
| `HostClientProofs!CleanerIsOne` | `OneCleaner` |
| `HostClientProofs!ImplementsPool` | `PoolSpec`: HostClient implements ConnPool |
| `ClientProofs!ClientTypeCorrect`, `LoopIsOne` | `TypeOK` of Client, `OneLoop` |
| `TCPDialerProofs!CacheTypeCorrect`, `PendingEnds` | `CacheTypeOK`, `PendingIsResolved` |
| `TCPDialerProofs!DialerTypeCorrect` | `TypeOK` of TCPDialer |
| `TCPDialerProofs!TokensAreExact` | `TokensExact` |
| `TCPDialerProofs!SendsNeverBlock`, `ResultsAreOwn` | `NeverBlocksOnSend`, `OwnResult` |
| `TCPDialerProofs!TimersStayApart` | `TimersApart` |

Those of Channel hold of a channel whose peer may send anything, hence of the
channels of `ChannelPair`.

### Headers

`ByteArrives`, `NumberArrives`, `AcksArrive` and `AckArrives` say of each part of a
header that it is read as it was written before whatever follows; `BytesOfAcks` that
four bytes hold the bitset, and `FlagsCount` that the flag bits count the bytes that
are sent. `HeadersAreExact` adds the length and that every shorter prefix is refused.
`HeadersArrive` then needs of RecvBuffer only its `TypeOK`.

### RecvBuffer

**Assumptions.** `ReachAssumption`: how late a packet may be (`Lag`) and the size of the
buffer are together less than half of M, since `IsOutdated` compares with `latest` minus
the size. A packet may be later than a buffer: that is when `IsOutdated` refuses it.
`RingAssumption` is about what the slots hold: the size divides M, the bitset is no
longer than the ring, and M modulo the size plus one is 0 or 1; with M = 65536 and 256
slots this holds (65536 = 255 * 257 + 1). `LatestStaysNewest` rests on the first alone,
`NewestStaysAcked` on both; `AcksAreSound` needs besides that no packet is later than a
buffer (`Lag <= RecvPacketBufferSize`). The run has a greater `Lag`, where `AckSound`
is model-checked only.

**Argument.** `RecvInv` is what the packets and `latest` keep. `Settled` (a packet too old
to be in flight has arrived or is known to be missed) and `Isolated` (no two in a row are
missed beyond the newest) bound how far the newest packet is behind the peer
(`NewestInReach`). Hence every 16-bit comparison of `Insert` and `IsOutdated` is that of
the packets (`Comparisons`, from `CircularOrder`), which gives `LatestIsNewest`. What the
slots keep is a further invariant for each of the other two: `NewestHeld` is kept
because a packet that shares the newest one's slot, and is no newer, is refused.

`AckSound` is the interesting one: `RemoveRange` leaves entries of earlier laps behind,
and an entry a whole M old would pass for the packet that has its number now. `Fresh`
says why this does not happen: the entry of slot k is of the lap that k itself, the first
number of that slot after the wrap, began. For a number below the size, reducing modulo
the size and modulo one more agree, so that the slot is overwritten when k arrives in
order and cleared when it is passed over (`PassedOver`). Where the range goes across the
wrap this needs the condition on M modulo the size plus one: with M = 24 and 4 slots TLC
refutes `Fresh`, though `AckSound` held on that instance with eight losses.

### Endpoint and EndpointPair

`EndpointProofs` says of each operation what it keeps, for any set W of numbered
messages: `FragmentsIn` (an entry of the assembler holds pieces of messages in W with the
entry's own number), `FragmentsConfirm`, `ReceivedIn` (what is in `recv` was processed),
`AckedIn` (what is no longer awaited was processed) and `Confirms` (what a header
acknowledges was processed). EndpointPair's inductive invariant `PairInv` is `TypeOK`
and, for both nodes, `Unwrapped` (the next number is how much was written),
`InFlight` (a packet on the network says what was written under its number and confirms
what its sender processed) and `Holds`, the same of what a node keeps. W is what the peer
has written. The network only grows, so that a header is true for ever once it is true.
`EntriesIncomplete` has an invariant of its own, `Incomplete`, which adds that the
fragments of an entry are finite in number: `StoreFragment` is only taken when the
fragment does not complete its entry, and `FinishFragment` clears the slot.

**Assumption.** Two nodes, and fewer writes than half of M: the message of a number is
only defined while numbers do not wrap. (The wrap is RecvBuffer's and Channel's, which
have no such bound.)

### Channel

**Assumptions.** M is even and at least 4, buffers are smaller than half of it;
`SentPacketBufferSize` divides M, and a quarter of M bounds it (with M = 65536
every proper divisor that is below half of it satisfies this);
`RecvPacketBufferSize <= SentPacketBufferSize`. The last three are conditions
under which the code works: with a ring whose size does not divide 65536 a slot is
shared by neighbours of the wrap, and with a larger receive size the flow control
admits more packets than the window has slots. The default configuration (256 and
256) satisfies them.

**Argument.** No property is inductive by itself. `SequenceBufferProofs` settles
circular arithmetic (`SeqNumArithmetic`), when two numbers share a slot
(`SharedSlots`) and what `Insert` of the next number does to the others
(`InsertNext`): because `RemoveRange` with `start = end` clears nothing, inserting
the successor of the newest number touches one slot only. `ChannelProofs` then
takes as inductive invariant `TypeOK` and, for every node, `WindowInv`:

* `LatestIsNext`: `latest` of `sent` and of `window` is `seq`, which makes every
  insertion the `InsertNext` case and gives `NextIsInsertable`;
* `Recent`: what is in the window is within a buffer's length behind `seq`;
* `Controlled`: `FlowControl` for one node: the next number is at most a receive
  buffer ahead of `oldestUnacked`, or behind it by no more than that;
* `OldestHeld`: `OldestIsHeld`;
* `RoomIsFree`: while the queue is drained, the next number plus `room` still
  keeps the flow control;
* `AgesOrdered`: nothing in the window was put out after `lastSent`, so that when
  nothing was put out for `ResendAfter` every packet in reach has been due, and
  the loop has ended with none: this is what makes keep-alives quiet;
* `Agreement`: `WindowIsUnacked`.

`Invariance` proves it for each action in turn; the theorems follow. TLC checked
the same invariant on the instance of the `channel` run first.

`OrderInv` adds the order of messages: `InOrder` (numbered, queued and written messages
in a row are those that `Write` took) and `WaitsForRoom` (a message waits in `queue` only
while the window is full but for the room that `ACK` is about to fill), which is why
`WriteNext` never overtakes a queued message. Both hold as long as none of the node's
messages is refused for its size: a refused one takes a turn of the draining loop without
a number (`endpoint.go:57`), after which a message waits in `queue` although there is
room, and a later `Write` is numbered first. `WritesInOrder` says so (`NoneRefused`), and
the messages of the two runs are small enough.

### ChannelPair

`PairInv` of `ChannelProofs` is `Inv` of both channels, `OrderInv` of both, `Unwrapped`
(what an Update may yet number is within the bound), `ReceivedIn` and, for some set W of
numbered messages, `Link`: W is `Ordered` (its messages have the order of `numbered`, its
numbers are below `seq`), every packet that a channel has written anywhere (in its window,
in `outQueue`, on the network: `Carried`) says what is in W and confirms what its
sender has processed, and the peer's assembler and `processed` hold only what is in W. W
is hidden by a quantifier because a message that was overwritten in the window is nowhere
in the state any more, while its number keeps its place in the order. A resent packet
confirms what its first header did, which stays true.

`AckedWasProcessed` follows from `AckedIn` and `Agreement`, `ProcessedInWriteOrder` from
`Ordered` and `InOrder`.

**Assumption.** Two nodes, and `MaxSeq` and `MaxWrites` below half of M, for the same
reason as in EndpointPair.

### HostClient

The inductive invariant `HostInv` is `TypeOK`, the checked invariants and

* `Points`: what each value of `pc` says of `hold`, `wait`, `mu` and `scratch`: a
  process that is using, recycling or closing holds a connection, one that waits has
  a waiting caller, the cleaner's list is empty except while it destroys;
* `Waits`: `QueuedIdle` (nobody is in the queue twice, and for a waiting caller in the
  queue no goroutine dials), `WaitsTyped`, `OwnWaiter` (two callers never wait with the
  same waiting caller), `NotQueuedYet`, and `Awaited` (a waiting caller that nobody
  waits for has been answered): they are what keeps a place from being handed
  over twice;
* `Owned`: `OneOwner` in the parts that a step can disturb one at a time: `IdleApart`,
  `HeldApart`, `HandedApart` (connections that are idle, held, handed over are
  apart from all the others) and `AllOwned` (an open connection is one of these).

The queue's lemmas (`PushBack`, `PopFront`) reduce its two stages to `Contents`, so
that the rest of the proof sees one queue; `CountIsExact` is proved by what a step adds
to and takes from `Placed`, the set of processes that have a place without an idle
connection.

The refinement rests on the same invariant. `InThePool` shows that the connections
in the pool of ConnPool are the open ones that nobody has condemned (`Pooled`), which
turns the question of each step into one about `open`, `hold` and `pc`. A step is
then an action of the pool (`CreateConn` takes a place, a dial opens a connection,
`TakeIdle` and `Answers` use one, a request returns or discards it, `DestroyNext` lets
one expire, `DecrementCount` gives a place up) or is not noticed. The guard of opening
and of giving up, that fewer connections than places are in the pool, is
`PlaceLeft`: the connections are covered by the idle ones, the cleaner's and those
of the other processes in `Placed`, and `CountIsExact` counts the rest.

### Client, AddrCache, TCPDialer

* `ClientInv`: `TypeOK`, `Held` (what a cleaner and a caller hold, by their pc),
  `UsersCounted` (no HostClient has fewer places than users) and `OneLoop`.
* `CacheInv`: `CacheTypeOK`, `OnePlace` (an entry is in the table once) and
  `PendingIsResolved`.
* `DialerInv`: `TypeOK`, `LoopsHold` (the loop's index and count while an address is
  tried), `ChansHold` (a channel is with a caller, with an abandoned goroutine or in
  the pool, and only what its goroutine sends is in it: this is `OwnResult` and
  `NeverBlocksOnSend`), `TimersHold` and `TokensExact`.

Assumptions are those of each module: finite sets of goroutines where they are
counted, `None` outside the other sets, sizes at least 1.

### Only model-checked

All liveness: `UpdateReturns`, `AcquireEnds`, `IdleRecycled`, `StaleEnds` and `DialReturns`.
It rests on fairness, which needs ENABLED, and is out of the prover's reach. Every
invariant and every action property of the passing runs is proved, `AckSound` under the
additional condition on `Lag`.

## 5. What is not modelled

* Statistics of `Endpoint.Update` (rtt, packet loss, bandwidth): they influence nothing
  else. `pendingRequests` and `lastUseTime` of HostClient are only reported.
* Buffers from pools: models keep values. `ACK` returns a buffer to the pool while
  `outQueue` may hold a slice of it.
* Reading a response: a TODO in `client_host.go:145`. Frames, connection records,
  configuration, errors and `cmd/client_test` have no behaviour worth a model.
* Durations: `AddrCache` keeps the ages that the code tells apart, elsewhere a timer
  may fire whenever it is set. `Client` does not pass `MaxIdleConnDuration` on
  (`client.go:68`); nothing modelled depends on the value.
* Whether a dialed connection is closed when its caller has gone: `tryDial` leaves it
  in the channel of an abandoned dial, which is garbage.

Met while modelling, and stated by no property:

* `client_host.go:82`: the loop increments `maxAttempts`, so that a failing request is
  retried without bound; `AcquireEnds` is of every single attempt.
* `client_host.go:88`: the error branch repeats requests of any kind, while the comment
  at 79-80 speaks of idempotent ones.
* `client_host.go:383-386`: `destroyClientConn` lowers `count` before it closes, so more
  than `MaxConns` sockets may be open for a moment. A connection leaves the pool of
  `ConnPool` when it is condemned for this reason.
* `client_host.go:489`: between the cleaner's decision to stop and its reset of
  `cleanerRunning` a caller starts no cleaner, and its connection is watched by nobody
  until the next one is created. `OneCleaner` holds. On an orphan there may be no next
  one, so that its connection stays open for good.
* `endpoint.go:303`: a packet that arrives twice within the receive buffer is processed
  twice; `endpoint.go:212`: a late fragment of a whole packet starts an entry that is
  never completed.
* `dial_tcp.go:348`: the timeout is used once for the token and again for the dial.
* `timer.go:24`: a timer that has expired but not sent yet when it is released sends
  to the next caller, who times out at once. `TimeoutIsReal` of TCPDialer states
  the contrary; TLC refutes it in eleven steps. It is in no run, because it depends on
  how the runtime sends.

Because of the overwritten fragments and the packets that are never written, no
liveness of delivery over UDP is claimed.
