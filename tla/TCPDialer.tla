----------------------------- MODULE TCPDialer -----------------------------
(***************************************************************************)
(* TCPDialer (src/sleepytcp/dial_tcp.go): the loop that dials addresses    *)
(* one after the other, and the goroutines that dial.                      *)
(*                                                                         *)
(* A caller that is not served within its timeout leaves its goroutine     *)
(* behind, with a token of concurrencyCh and the channel of its result.    *)
(* Result channels and timers come from pools.  Addresses are the indexes  *)
(* of the list that AddrCache gives.                                       *)
(***************************************************************************)
EXTENDS DialConstants, FiniteSets, TimerPool

CONSTANTS
    Goroutine,      \* goroutines that tryDial starts
    Chan,           \* result channels
    Timer,          \* time.Timer values
    Concurrency,    \* 0: no limit
    MaxAddrs        \* addresses that a resolver returns

\* What a goroutine sends; whether it is a connection or an error matters to none
\* but the receiver.
Results == [for : Caller, addr : 0 .. MaxAddrs - 1]

ASSUME TCPDialerAssumption ==
    /\ Concurrency \in Nat
    /\ MaxAddrs \in Nat \ {0}
    /\ None \notin Caller \cup Chan \cup Timer
    /\ None \notin Results
    /\ IsFiniteSet(Goroutine)

VARIABLES
    \* per caller: the loop of dial over so many addresses, of which n are left,
    \* whether the deadline has passed, and what tryDial waits for
    pc, addrs, idx, n, late, ch, timer,
    \* concurrencyCh, the dialing goroutines, result channels and their pool
    tokens, dialing, chans, pool,
    \* timers, of which some are in timerPool
    timers

loop    == <<addrs, idx, n, late>>
results == <<tokens, dialing, chans, pool>>
vars    == <<pc, loop, ch, timer, results, timers>>

Off == [state |-> "off", for |-> None, addr |-> 0, ch |-> None]

TCPDialerInit ==
    /\ pc = [p \in Caller |-> "idle"]
    /\ addrs = [p \in Caller |-> 0]
    /\ idx = [p \in Caller |-> 0]
    /\ n = [p \in Caller |-> 0]
    /\ late = [p \in Caller |-> FALSE]
    /\ ch = [p \in Caller |-> None]
    /\ timer = [p \in Caller |-> None]
    /\ tokens = 0
    /\ dialing = [g \in Goroutine |-> Off]
    /\ chans = [c \in Chan |-> None]
    /\ pool = {}
    /\ timers = [t \in Timer |-> NewTimer]

\* dial has returned: a connection, an error, or ErrDialTimeout.
Done == {"idle", "connected", "failed", "timedOut"}

-----------------------------------------------------------------------------
(* dial.                                                                   *)

\* getTCPAddrs, which is AddrCache's, gives the addresses and the index of the
\* one to begin with, or fails.
Begins(p) ==
    /\ pc[p] \in Done
    /\ \/ /\ \E k \in 1 .. MaxAddrs, i \in 0 .. IdxSize - 1 :
                /\ addrs' = [addrs EXCEPT ![p] = k]
                /\ n' = [n EXCEPT ![p] = k]
                /\ idx' = [idx EXCEPT ![p] = i]
          /\ pc' = [pc EXCEPT ![p] = "trying"]
       \/ /\ pc' = [pc EXCEPT ![p] = "failed"]
          /\ UNCHANGED <<addrs, n, idx>>
    /\ UNCHANGED <<late, ch, timer, results, timers>>

Returns(p, how) ==
    /\ pc' = [pc EXCEPT ![p] = how]
    /\ addrs' = [addrs EXCEPT ![p] = 0]
    /\ idx' = [idx EXCEPT ![p] = 0]
    /\ n' = [n EXCEPT ![p] = 0]
    /\ ch' = [ch EXCEPT ![p] = None]
    /\ timer' = [timer EXCEPT ![p] = None]
    /\ late' = [late EXCEPT ![p] = FALSE]

\* Mutant: the index is not reduced to its width.
GoesOnUnwrapped(p) ==
    /\ n[p] > 1
    /\ idx' = [idx EXCEPT ![p] = @ + 1]
    /\ n' = [n EXCEPT ![p] = @ - 1]
    /\ pc' = [pc EXCEPT ![p] = "trying"]
    /\ ch' = [ch EXCEPT ![p] = None]
    /\ timer' = [timer EXCEPT ![p] = None]
    /\ UNCHANGED <<addrs, late>>

\* idx++ and n--.
GoesOn(p) ==
    /\ n[p] > 1
    /\ idx' = [idx EXCEPT ![p] = (@ + 1) % IdxSize]
    /\ n' = [n EXCEPT ![p] = @ - 1]
    /\ pc' = [pc EXCEPT ![p] = "trying"]
    /\ ch' = [ch EXCEPT ![p] = None]
    /\ timer' = [timer EXCEPT ![p] = None]
    /\ UNCHANGED <<addrs, late>>

-----------------------------------------------------------------------------
(* tryDial.                                                                *)

\* AcquireTimer takes a timer from the pool or makes one.
Acquired(t, from) ==
    /\ from[t].where # "held"
    /\ timers' = [from EXCEPT ![t] = AcquireTimer(@)]

\* The channels that dialResultChanPool.Get and make may give.
Free(c) ==
    /\ \A q \in Caller : ch[q] # c
    /\ \A g \in Goroutine : dialing[g].ch # c

\* The goroutine is started and its result awaited.
StartsDial(p, t) ==
    /\ tokens' = tokens + 1
    /\ \E g \in Goroutine, c \in Chan :
          /\ dialing[g] = Off
          /\ dialing' = [dialing EXCEPT ![g] =
                [state |-> "dialing", for |-> p, ch |-> c,
                 addr |-> idx[p] % n[p]]]
          /\ ch' = [ch EXCEPT ![p] = c]
          /\ \/ c \in pool /\ pool' = pool \ {c} /\ UNCHANGED chans
             \/ /\ c \notin pool /\ Free(c)
                /\ chans' = [chans EXCEPT ![c] = None]
                /\ UNCHANGED pool
    /\ timer' = [timer EXCEPT ![p] = t]
    /\ pc' = [pc EXCEPT ![p] = "waiting"]

HasRoom == Concurrency = 0 \/ tokens < Concurrency

TriesTooLate(p) ==
    /\ pc[p] = "trying"
    /\ late[p]
    /\ Returns(p, "timedOut")
    /\ UNCHANGED <<results, timers>>

\* There is room in concurrencyCh, ...
DialsAtOnce(p) ==
    /\ pc[p] = "trying"
    /\ ~late[p]
    /\ HasRoom
    /\ \E t \in Timer : StartsDial(p, t) /\ Acquired(t, timers)
    /\ UNCHANGED loop

\* ... or there is not.
QueuesForToken(p) ==
    /\ pc[p] = "trying"
    /\ ~late[p]
    /\ ~HasRoom
    /\ \E t \in Timer : Acquired(t, timers) /\ timer' = [timer EXCEPT ![p] = t]
    /\ pc' = [pc EXCEPT ![p] = "queued"]
    /\ UNCHANGED <<loop, ch, results>>

Released(t) == [timers EXCEPT ![t] = ReleaseTimer(@)]

\* One timer goes to the pool, and the same or another is armed.
DialsWithToken(p) ==
    /\ pc[p] = "queued"
    /\ HasRoom
    /\ \E t \in Timer : StartsDial(p, t) /\ Acquired(t, Released(timer[p]))
    /\ UNCHANGED loop

\* ErrDialTimeout, in either of the two waits.
GivesUp(p) ==
    /\ timers[timer[p]].value
    /\ timers' = [timers EXCEPT ![timer[p]] = ReleaseTimer(ReadTime(@))]
    /\ Returns(p, "timedOut")

TimesOutQueued(p) ==
    /\ pc[p] = "queued"
    /\ GivesUp(p)
    /\ UNCHANGED results

\* Mutant: the channel goes back to the pool as in the other case.
TimesOutPooling(p) ==
    /\ pc[p] = "waiting"
    /\ GivesUp(p)
    /\ pool' = pool \cup {ch[p]}
    /\ UNCHANGED <<tokens, dialing, chans>>

\* The channel is left to the goroutine.
TimesOutWaiting(p) ==
    /\ pc[p] = "waiting"
    /\ GivesUp(p)
    /\ UNCHANGED results

\* dial returns a connection, or goes on with the next address if one is left.
GetsResult(p) ==
    /\ pc[p] = "waiting"
    /\ chans[ch[p]] # None
    /\ chans' = [chans EXCEPT ![ch[p]] = None]
    /\ pool' = pool \cup {ch[p]}
    /\ timers' = Released(timer[p])
    /\ \/ Returns(p, "connected")
       \/ GoesOn(p)
       \/ n[p] = 1 /\ Returns(p, "failed")
    /\ UNCHANGED <<tokens, dialing>>

-----------------------------------------------------------------------------
(* The goroutine of tryDial: net.DialTCP returns, the result is sent, the  *)
(* token is given back.                                                    *)

Sends(g) ==
    LET d == dialing[g]
    IN  /\ d.state = "dialing"
        /\ chans[d.ch] = None
        /\ chans' = [chans EXCEPT ![d.ch] = [for |-> d.for, addr |-> d.addr]]
        /\ dialing' = [dialing EXCEPT ![g] = [Off EXCEPT !.state = "sent"]]
        /\ UNCHANGED <<pc, loop, ch, timer, tokens, pool, timers>>

\* Mutant: the token is kept.
ReturnsNoToken(g) ==
    /\ dialing[g].state = "sent"
    /\ dialing' = [dialing EXCEPT ![g] = Off]
    /\ UNCHANGED <<pc, loop, ch, timer, tokens, chans, pool, timers>>

ReturnsToken(g) ==
    /\ dialing[g].state = "sent"
    /\ dialing' = [dialing EXCEPT ![g] = Off]
    /\ tokens' = tokens - 1
    /\ UNCHANGED <<pc, loop, ch, timer, chans, pool, timers>>

-----------------------------------------------------------------------------
(* Time.                                                                   *)

DeadlinePasses(p) ==
    /\ pc[p] \in {"trying", "queued", "waiting"}
    /\ ~late[p]
    /\ late' = [late EXCEPT ![p] = TRUE]
    /\ UNCHANGED <<pc, addrs, idx, n, ch, timer, results, timers>>

\* No timer is set to anything before the deadline.
Expires(p) ==
    /\ timer[p] # None
    /\ late[p]
    /\ timers[timer[p]].armed
    /\ timers' = [timers EXCEPT ![timer[p]] = Expire(@)]
    /\ UNCHANGED <<pc, loop, ch, timer, results>>

SendsTime(t) ==
    /\ timers[t].firing
    /\ timers' = [timers EXCEPT ![t] = SendTime(@)]
    /\ UNCHANGED <<pc, loop, ch, timer, results>>

-----------------------------------------------------------------------------
CallerStep(p) ==
    \/ TriesTooLate(p) \/ DialsAtOnce(p) \/ QueuesForToken(p) \/ DialsWithToken(p)
    \/ TimesOutQueued(p) \/ TimesOutWaiting(p) \/ GetsResult(p)

TCPDialerNext ==
    \/ \E p \in Caller : Begins(p) \/ CallerStep(p) \/ DeadlinePasses(p) \/ Expires(p)
    \/ \E g \in Goroutine : Sends(g) \/ ReturnsToken(g)
    \/ \E t \in Timer : SendsTime(t)

Spec == TCPDialerInit /\ [][TCPDialerNext]_vars

\* Callers are run, time passes and timers fire.  Nothing
\* is assumed of net.DialTCP, nor of the goroutines it blocks.
FairSpec ==
    /\ Spec
    /\ \A p \in Caller : /\ WF_vars(CallerStep(p))
                         /\ WF_vars(DeadlinePasses(p))
                         /\ WF_vars(Expires(p))
    /\ \A t \in Timer : WF_vars(SendsTime(t))

-----------------------------------------------------------------------------
TypeOK ==
    /\ pc \in [Caller -> Done \cup {"trying", "queued", "waiting"}]
    /\ addrs \in [Caller -> 0 .. MaxAddrs]
    /\ idx \in [Caller -> 0 .. IdxSize - 1]
    /\ n \in [Caller -> 0 .. MaxAddrs]
    /\ late \in [Caller -> BOOLEAN]
    /\ ch \in [Caller -> Chan \cup {None}]
    /\ timer \in [Caller -> Timer \cup {None}]
    /\ tokens \in Nat
    /\ dialing \in [Goroutine -> [state : {"off", "dialing", "sent"}, for : Caller \cup {None},
                                  addr : 0 .. MaxAddrs - 1, ch : Chan \cup {None}]]
    /\ chans \in [Chan -> Results \cup {None}]
    /\ pool \subseteq Chan
    /\ timers \in [Timer -> Timers]

\* concurrencyCh holds a token for each goroutine that dials or has yet to give
\* its token back, also for those whose callers are long gone.
TokensExact ==
    /\ tokens = Cardinality({g \in Goroutine : dialing[g] # Off})
    /\ Concurrency > 0 => tokens <= Concurrency

\* A goroutine that has not sent its result finds an empty channel, into which
\* nobody else sends and that is in no pool: it never blocks, and keeps its token
\* no longer than the dial takes.
NeverBlocksOnSend ==
    \A g \in Goroutine : dialing[g].state = "dialing" =>
        /\ dialing[g].ch \in Chan \ pool
        /\ chans[dialing[g].ch] = None
        /\ \A f \in Goroutine : dialing[f].ch = dialing[g].ch => f = g

\* What a caller receives is the result of its own dial of the address it tries,
\* never what an abandoned dial left in a channel.
OwnResult ==
    \A p \in Caller : (pc[p] = "waiting" /\ chans[ch[p]] # None) =>
        /\ chans[ch[p]].for = p
        /\ chans[ch[p]].addr = idx[p] % n[p]

\* No timer runs in the pool ("BUG: active timer trapped"), and no two callers
\* wait on one timer.
TimersApart ==
    /\ \A t \in Timer : timers[t].armed => timers[t].where = "held"
    /\ \A p, q \in Caller : timer[p] = timer[q] /\ timer[p] # None => p = q

\* Dial returns, though the dials may hang and hold every token.
DialReturns == \A p \in Caller : pc[p] \notin Done ~> pc[p] \in Done

-----------------------------------------------------------------------------
\* The addresses tried so far, the one that is being dialed among them.
Tried(p) ==
    LET k == addrs[p]
    IN  {((idx[p] - (k - n[p]) + j) % IdxSize) % (k - j) : j \in 0 .. k - n[p]}

\* A dial that fails has tried all the resolved addresses.
TriesAll ==
    [][\A p \in Caller : (pc[p] = "waiting" /\ pc'[p] = "failed") =>
          Tried(p) = 0 .. addrs[p] - 1]_vars

\* ErrDialTimeout means that the time is up.
TimeoutIsReal ==
    [][\A p \in Caller : (pc[p] \notin Done /\ pc'[p] = "timedOut") => late[p]]_vars
=============================================================================
