----------------------------- MODULE HostClient -----------------------------
(***************************************************************************)
(* HostClient (src/sleepytcp/client_host.go, client_wait.go): a pool of at *)
(* most MaxConns connections to one host.                                  *)
(*                                                                         *)
(* Every goroutine is a process: the callers of Do; for a waitingCaller w, *)
(* the goroutine tryDialForWaitingCaller(w); and cleanupIdleConnections.   *)
(* A section that holds mu is one step, but for the loops over the queue:  *)
(* a waiting caller may cancel at any time, which takes only its own       *)
(* mutex, so every turn of such a loop is a step, and so is the delivery   *)
(* that follows it; mu is kept from step to step.                          *)
(*                                                                         *)
(* Time is abstracted: a timer may fire whenever its caller waits, and any *)
(* number of the connections that have been idle longest may have expired. *)
(* pendingRequests and lastUseTime are only reported, the buffer pools     *)
(* only save allocations: they are left out.                               *)
(***************************************************************************)
EXTENDS WaitingQueue, FiniteSets

CONSTANTS
    Caller,                     \* goroutines that call Do
    Waiter,                     \* waitingCaller values
    Cleaner,                    \* cleanupIdleConnections
    Conn,                       \* connections
    Config,                     \* what the fields of a HostClient may be set to
    Idempotent                  \* the callers whose requests are idempotent

Process == Caller \cup Waiter \cup {Cleaner}

ASSUME HostAssumption ==
    /\ Config \subseteq [MaxConns : Nat \ {0}, wait : BOOLEAN]
    /\ Idempotent \subseteq Caller
    /\ Caller \cap Waiter = {}
    /\ Cleaner \notin Caller \cup Waiter
    /\ None \notin Conn \cup Process
    /\ IsFiniteSet(Process)

VARIABLES
    config,         \* MaxConns, and whether MaxConnWaitTimeout > 0; never changes
    conns,          \* idle connections
    count,
    queue,          \* waitingCallerQueue
    cleanerRunning,
    mu,             \* the process that keeps mu from step to step
    waiter,         \* the fields of each waitingCaller
    open,           \* connections that are open
    pc,
    hold,           \* the connection a process is working with
    wait,           \* the waitingCaller of a caller, or the one popped to recycle to
    scratch,        \* connections the cleaner has taken to close
    err             \* the error of a failed request, until Do has looked at it

vars == <<config, conns, count, queue, cleanerRunning, mu, waiter, open, pc, hold, wait,
          scratch, err>>

\* answered: conn or err has been set.  conn: until its caller has taken it.
\* closes: how often ready has been closed.
NewWaiter == [conn |-> None, answered |-> FALSE, closes |-> 0]

HostInit ==
    /\ config \in Config
    /\ conns = <<>>
    /\ count = 0
    /\ queue = EmptyQueue
    /\ cleanerRunning = FALSE
    /\ mu = None
    /\ waiter = [w \in Waiter |-> NewWaiter]
    /\ open = {}
    /\ pc = [p \in Process |-> "idle"]
    /\ hold = [p \in Process |-> None]
    /\ wait = [p \in Process |-> None]
    /\ scratch = <<>>
    /\ err = [p \in Caller |-> "none"]

At(p, label) == pc[p] = label

-----------------------------------------------------------------------------
(* waitingCaller, and what becomes of one.                                 *)

Answered(w) == waiter[w].answered

\* Mutant: the answer of an earlier delivery or of cancel is overlooked.
DeliverUnasked(w, c) ==
    waiter' = [waiter EXCEPT ![w] = [conn |-> c, answered |-> TRUE, closes |-> @.closes + 1]]

\* A connection or, when c is None, an error; it fails when w is answered.
tryDeliver(w, c) ==
    waiter' = [waiter EXCEPT ![w] =
        IF Answered(w) THEN @
        ELSE [conn |-> c, answered |-> TRUE, closes |-> @.closes + 1]]

\* The caller of cancel recycles the connection that it finds.
cancel(w) ==
    waiter' = [waiter EXCEPT ![w] =
        [conn |-> None, answered |-> TRUE,
         closes |-> IF Answered(w) THEN @.closes ELSE @.closes + 1]]

\* waiting() of a caller.
Waiting(w) == waiter[w].closes = 0

\* p has mu, or takes it.
Locks(p) == mu \in {None, p}

Front == peekFront(queue)

\* A waitingCaller nobody refers to any more.
Unused(w) ==
    /\ At(w, "idle")
    /\ \A k \in DOMAIN Contents(queue) : Contents(queue)[k] # w
    /\ \A p \in Process : wait[p] # w

\* A connection that is not in use by the pool.
Fresh(c) ==
    /\ c \notin open
    /\ \A p \in Process : hold[p] # c

-----------------------------------------------------------------------------
(* Do, and do up to the use of a connection.                               *)

Do(p) ==
    /\ At(p, "idle")
    /\ pc' = [pc EXCEPT ![p] = "acquire"]
    /\ UNCHANGED <<config, conns, count, queue, cleanerRunning, mu, waiter, open, hold, wait,
                   scratch, err>>

\* tryAcquireClientConn, the section under mu and what it decides.  A caller
\* whose startCleaner is true is at "starting".
TakeIdle(p) ==
    /\ At(p, "acquire")
    /\ mu = None
    /\ conns # <<>>
    /\ hold' = [hold EXCEPT ![p] = conns[Len(conns)]]
    /\ conns' = SubSeq(conns, 1, Len(conns) - 1)
    /\ pc' = [pc EXCEPT ![p] = "using"]
    /\ UNCHANGED <<config, count, queue, cleanerRunning, mu, waiter, open, wait, scratch, err>>

\* Mutants: one connection too many; the cleaner is started every time.
CreateOneMore(p) ==
    /\ At(p, "acquire")
    /\ mu = None
    /\ conns = <<>>
    /\ count <= config.MaxConns
    /\ count' = count + 1
    /\ cleanerRunning' = TRUE
    /\ pc' = [pc EXCEPT ![p] = IF cleanerRunning THEN "dialing" ELSE "starting"]
    /\ UNCHANGED <<config, conns, queue, mu, waiter, open, hold, wait, scratch, err>>

CreateAndStart(p) ==
    /\ At(p, "acquire")
    /\ mu = None
    /\ conns = <<>>
    /\ count < config.MaxConns
    /\ count' = count + 1
    /\ cleanerRunning' = TRUE
    /\ pc' = [pc EXCEPT ![p] = "starting"]
    /\ UNCHANGED <<config, conns, queue, mu, waiter, open, hold, wait, scratch, err>>

CreateConn(p) ==
    /\ At(p, "acquire")
    /\ mu = None
    /\ conns = <<>>
    /\ count < config.MaxConns
    /\ count' = count + 1
    /\ cleanerRunning' = TRUE
    /\ pc' = [pc EXCEPT ![p] = IF cleanerRunning THEN "dialing" ELSE "starting"]
    /\ UNCHANGED <<config, conns, queue, mu, waiter, open, hold, wait, scratch, err>>

\* Without a wait timeout the call ends with ErrNoFreeConns.
NoFreeConns(p) ==
    /\ At(p, "acquire")
    /\ mu = None
    /\ conns = <<>>
    /\ count >= config.MaxConns
    /\ \/ /\ ~config.wait
          /\ pc' = [pc EXCEPT ![p] = "idle"]
          /\ UNCHANGED <<waiter, wait>>
       \/ /\ config.wait
          /\ \E w \in Waiter :
                /\ Unused(w)
                /\ wait' = [wait EXCEPT ![p] = w]
                /\ waiter' = [waiter EXCEPT ![w] = NewWaiter]
          /\ pc' = [pc EXCEPT ![p] = "enqueue"]
    /\ UNCHANGED <<config, conns, count, queue, cleanerRunning, mu, open, hold, scratch, err>>

\* queueWaitingCaller: a turn of clearFront, ...
ClearFront(p) ==
    /\ At(p, "enqueue")
    /\ Locks(p)
    /\ Front # None
    /\ ~Waiting(Front)
    /\ queue' = popFront(queue)
    /\ mu' = p
    /\ UNCHANGED <<config, conns, count, cleanerRunning, waiter, open, pc, hold, wait, scratch, err>>

\* ... and pushBack.
QueueWaitingCaller(p) ==
    /\ At(p, "enqueue")
    /\ Locks(p)
    /\ Front # None => Waiting(Front)
    /\ queue' = pushBack(queue, wait[p])
    /\ mu' = None
    /\ pc' = [pc EXCEPT ![p] = "waiting"]
    /\ UNCHANGED <<config, conns, count, cleanerRunning, waiter, open, hold, wait, scratch, err>>

\* The select when ready is closed: a connection, which nobody takes from the
\* waitingCaller again, or the error of its dialing, which is followed by cancel.
Answers(p) ==
    LET w == wait[p]
    IN  /\ At(p, "waiting")
        /\ ~Waiting(w)
        /\ hold' = [hold EXCEPT ![p] = waiter[w].conn]
        /\ pc' = [pc EXCEPT ![p] = IF waiter[w].conn = None THEN "idle" ELSE "using"]
        /\ wait' = [wait EXCEPT ![p] = None]
        /\ IF waiter[w].conn = None THEN cancel(w)
                                    ELSE waiter' = [waiter EXCEPT ![w].conn = None]
        /\ UNCHANGED <<config, conns, count, queue, cleanerRunning, mu, open, scratch, err>>

\* Mutants: cancel drops the connection it finds; the timer fires only once the
\* caller is answered.
TimesOutLeaking(p) ==
    /\ At(p, "waiting")
    /\ cancel(wait[p])
    /\ wait' = [wait EXCEPT ![p] = None]
    /\ pc' = [pc EXCEPT ![p] = "idle"]
    /\ UNCHANGED <<config, conns, count, queue, cleanerRunning, mu, open, hold, scratch, err>>

TimesOutLate(p) ==
    /\ At(p, "waiting")
    /\ waiter[wait[p]].conn # None
    /\ cancel(wait[p])
    /\ hold' = [hold EXCEPT ![p] = waiter[wait[p]].conn]
    /\ wait' = [wait EXCEPT ![p] = None]
    /\ pc' = [pc EXCEPT ![p] = "recycling"]
    /\ UNCHANGED <<config, conns, count, queue, cleanerRunning, mu, open, scratch, err>>

\* The select when the timer has fired, and cancel: a connection that has been
\* delivered all the same is recycled.
TimesOut(p) ==
    LET w == wait[p]
    IN  /\ At(p, "waiting")
        /\ cancel(w)
        /\ hold' = [hold EXCEPT ![p] = waiter[w].conn]
        /\ wait' = [wait EXCEPT ![p] = None]
        /\ pc' = [pc EXCEPT ![p] = IF waiter[w].conn # None THEN "recycling" ELSE "idle"]
        /\ UNCHANGED <<config, conns, count, queue, cleanerRunning, mu, open, scratch, err>>

StartCleaner(p) ==
    /\ At(p, "starting")
    /\ pc' = [pc EXCEPT ![p] = "dialing", ![Cleaner] = "scanning"]
    /\ UNCHANGED <<config, conns, count, queue, cleanerRunning, mu, waiter, open, hold, wait,
                   scratch, err>>

DialSucceeds(p) ==
    /\ At(p, "dialing")
    /\ \E c \in Conn : /\ Fresh(c)
                       /\ open' = open \cup {c}
                       /\ hold' = [hold EXCEPT ![p] = c]
    /\ pc' = [pc EXCEPT ![p] = "using"]
    /\ UNCHANGED <<config, conns, count, queue, cleanerRunning, mu, waiter, wait, scratch, err>>

DialFails(p) ==
    /\ At(p, "dialing")
    /\ pc' = [pc EXCEPT ![p] = "discarding"]
    /\ UNCHANGED <<config, conns, count, queue, cleanerRunning, mu, waiter, open, hold, wait,
                   scratch, err>>

\* The request is written, and do ends with tryRecycleClientConn.
RequestSucceeds(p) ==
    /\ At(p, "using")
    /\ pc' = [pc EXCEPT ![p] = "recycling"]
    /\ UNCHANGED <<config, conns, count, queue, cleanerRunning, mu, waiter, open, hold, wait,
                   scratch, err>>

\* Setting a deadline or writing fails, and do ends with destroyClientConn.
RequestFails(p, e) ==
    /\ At(p, "using")
    /\ err' = [err EXCEPT ![p] = e]
    /\ pc' = [pc EXCEPT ![p] = "discarding"]
    /\ UNCHANGED <<config, conns, count, queue, cleanerRunning, mu, waiter, open, hold, wait,
                   scratch>>

\* Do after a request that failed.  Its loop never reaches maxAttempts, which
\* it increments in place of attempts.
Retries(p) == p \in Idempotent \/ err[p] # "eof"

-----------------------------------------------------------------------------
(* tryRecycleClientConn.                                                   *)

\* A turn of the loops of tryRecycleClientConn and of
\* decrementCountOrTryDialForWaitingCaller: the caller popped waits no more.
PopAnswered(p) ==
    /\ pc[p] \in {"recycling", "discarding"}
    /\ Locks(p)
    /\ queueLen(queue) > 0
    /\ ~Waiting(Front)
    /\ queue' = popFront(queue)
    /\ mu' = p
    /\ UNCHANGED <<config, conns, count, cleanerRunning, waiter, open, pc, hold, wait, scratch, err>>

\* No caller is left: the connection becomes idle.
RecycleIdle(p) ==
    /\ At(p, "recycling")
    /\ Locks(p)
    /\ queueLen(queue) = 0
    /\ conns' = Append(conns, hold[p])
    /\ mu' = None
    /\ hold' = [hold EXCEPT ![p] = None]
    /\ pc' = [pc EXCEPT ![p] = "idle"]
    /\ UNCHANGED <<config, count, queue, cleanerRunning, waiter, open, wait, scratch, err>>

\* The caller popped waits, ...
RecyclePop(p) ==
    /\ At(p, "recycling")
    /\ Locks(p)
    /\ queueLen(queue) > 0
    /\ Waiting(Front)
    /\ wait' = [wait EXCEPT ![p] = Front]
    /\ queue' = popFront(queue)
    /\ mu' = p
    /\ pc' = [pc EXCEPT ![p] = "delivering"]
    /\ UNCHANGED <<config, conns, count, cleanerRunning, waiter, open, hold, scratch, err>>

\* ... and is given the connection, if it still has not been answered.
RecycleDeliver(p) ==
    /\ At(p, "delivering")
    /\ tryDeliver(wait[p], hold[p])
    /\ \/ ~Answered(wait[p]) /\ UNCHANGED conns
       \/ Answered(wait[p]) /\ conns' = Append(conns, hold[p])
    /\ mu' = None
    /\ hold' = [hold EXCEPT ![p] = None]
    /\ wait' = [wait EXCEPT ![p] = None]
    /\ pc' = [pc EXCEPT ![p] = "idle"]
    /\ UNCHANGED <<config, count, queue, cleanerRunning, open, scratch, err>>

-----------------------------------------------------------------------------
(* decrementCountOrTryDialForWaitingCaller and the rest of                 *)
(* destroyClientConn.                                                      *)

\* Where p goes on when it has given up its place in the pool.
Discarded(p) == IF hold[p] # None THEN "closing" ELSE "idle"

DecrementCount(p) ==
    /\ At(p, "discarding")
    /\ Locks(p)
    /\ queueLen(queue) = 0
    /\ count' = count - 1
    /\ mu' = None
    /\ pc' = [pc EXCEPT ![p] = Discarded(p)]
    /\ UNCHANGED <<config, conns, queue, cleanerRunning, waiter, open, hold, wait, scratch, err>>

\* Mutant: the place is given up and passed on.
DialAndDecrement(p) ==
    /\ At(p, "discarding")
    /\ Locks(p)
    /\ queueLen(queue) > 0
    /\ Waiting(Front)
    /\ queue' = popFront(queue)
    /\ mu' = None
    /\ count' = count - 1
    /\ pc' = [pc EXCEPT ![Front] = "dialing", ![p] = Discarded(p)]
    /\ UNCHANGED <<config, conns, cleanerRunning, waiter, open, hold, wait, scratch, err>>

DialForWaitingCaller(p) ==
    /\ At(p, "discarding")
    /\ Locks(p)
    /\ queueLen(queue) > 0
    /\ Waiting(Front)
    /\ queue' = popFront(queue)
    /\ mu' = None
    /\ pc' = [pc EXCEPT ![Front] = "dialing", ![p] = Discarded(p)]
    /\ UNCHANGED <<config, conns, count, cleanerRunning, waiter, open, hold, wait, scratch, err>>

\* Mutant: the place is given up a second time.
CloseAndDecrement(p) ==
    /\ At(p, "closing")
    /\ open' = open \ {hold[p]}
    /\ hold' = [hold EXCEPT ![p] = None]
    /\ count' = count - 1
    /\ pc' = [pc EXCEPT ![p] = IF p = Cleaner THEN "destroying" ELSE "idle"]
    /\ UNCHANGED <<config, conns, queue, cleanerRunning, mu, waiter, wait, scratch, err>>

\* conn.Close, after the place was given up.
CloseConn(p) ==
    /\ At(p, "closing")
    /\ open' = open \ {hold[p]}
    /\ hold' = [hold EXCEPT ![p] = None]
    /\ \/ /\ p = Cleaner
          /\ pc' = [pc EXCEPT ![p] = "destroying"]
          /\ UNCHANGED err
       \/ /\ p \in Caller
          /\ pc' = [pc EXCEPT ![p] = IF Retries(p) THEN "acquire" ELSE "idle"]
          /\ err' = [err EXCEPT ![p] = "none"]
    /\ UNCHANGED <<config, conns, count, queue, cleanerRunning, mu, waiter, wait, scratch>>

-----------------------------------------------------------------------------
(* tryDialForWaitingCaller(w).                                             *)

DialerSucceeds(w) ==
    /\ At(w, "dialing")
    /\ \E c \in Conn :
        /\ Fresh(c)
        /\ open' = open \cup {c}
        /\ tryDeliver(w, c)
        /\ \/ /\ ~Answered(w)
              /\ pc' = [pc EXCEPT ![w] = "idle"]
              /\ UNCHANGED hold
           \/ /\ Answered(w)
              /\ hold' = [hold EXCEPT ![w] = c]
              /\ pc' = [pc EXCEPT ![w] = "recycling"]
    /\ UNCHANGED <<config, conns, count, queue, cleanerRunning, mu, wait, scratch, err>>

DialerFails(w) ==
    /\ At(w, "dialing")
    /\ tryDeliver(w, None)
    /\ pc' = [pc EXCEPT ![w] = "discarding"]
    /\ UNCHANGED <<config, conns, count, queue, cleanerRunning, mu, open, hold, wait, scratch, err>>

-----------------------------------------------------------------------------
(* cleanupIdleConnections.                                                 *)

\* The first i connections have been idle for too long.
Scan ==
    /\ At(Cleaner, "scanning")
    /\ mu = None
    /\ \E i \in 0 .. Len(conns) : /\ scratch' = SubSeq(conns, 1, i)
                                  /\ conns' = SubSeq(conns, i + 1, Len(conns))
    /\ pc' = [pc EXCEPT ![Cleaner] = "destroying"]
    /\ UNCHANGED <<config, count, queue, cleanerRunning, mu, waiter, open, hold, wait, err>>

DestroyNext ==
    /\ At(Cleaner, "destroying")
    /\ scratch # <<>>
    /\ hold' = [hold EXCEPT ![Cleaner] = Head(scratch)]
    /\ scratch' = Tail(scratch)
    /\ pc' = [pc EXCEPT ![Cleaner] = "discarding"]
    /\ UNCHANGED <<config, conns, count, queue, cleanerRunning, mu, waiter, open, wait, err>>

\* mustStop is decided under mu, ...
MustStop ==
    /\ At(Cleaner, "destroying")
    /\ mu = None
    /\ scratch = <<>>
    /\ pc' = [pc EXCEPT ![Cleaner] = IF count = 0 THEN "stopping" ELSE "scanning"]
    /\ UNCHANGED <<config, conns, count, queue, cleanerRunning, mu, waiter, open, hold, wait,
                   scratch, err>>

\* ... and cleanerRunning is reset without it.
StopCleaner ==
    /\ At(Cleaner, "stopping")
    /\ cleanerRunning' = FALSE
    /\ pc' = [pc EXCEPT ![Cleaner] = "idle"]
    /\ UNCHANGED <<config, conns, count, queue, mu, waiter, open, hold, wait, scratch, err>>

-----------------------------------------------------------------------------
\* The steps every process shares.
Release(p) == \/ PopAnswered(p) \/ RecycleIdle(p) \/ RecyclePop(p) \/ RecycleDeliver(p)
              \/ DecrementCount(p) \/ DialForWaitingCaller(p) \/ CloseConn(p)

CallerStep(p) ==
    \/ TakeIdle(p) \/ CreateConn(p) \/ NoFreeConns(p) \/ ClearFront(p) \/ QueueWaitingCaller(p)
    \/ Answers(p) \/ TimesOut(p) \/ StartCleaner(p) \/ DialSucceeds(p) \/ DialFails(p)
    \/ RequestSucceeds(p) \/ (\E e \in {"eof", "other"} : RequestFails(p, e))
    \/ Release(p)

DialerStep(w) == DialerSucceeds(w) \/ DialerFails(w) \/ Release(w)

CleanerStep == Scan \/ DestroyNext \/ MustStop \/ StopCleaner \/ Release(Cleaner)

HostNext ==
    \/ \E p \in Caller : Do(p) \/ CallerStep(p)
    \/ \E w \in Waiter : DialerStep(w)
    \/ CleanerStep

Spec == HostInit /\ [][HostNext]_vars

\* Every goroutine is run, sync.Mutex starves nobody, a dial ends (it has a
\* timeout), a timer fires, and a request ends: its connection has a deadline when
\* WriteTimeout is set.  Nothing is claimed of a HostClient without one.
FairSpec ==
    /\ Spec
    /\ \A p \in Caller : SF_vars(CallerStep(p))
    /\ \A w \in Waiter : SF_vars(DialerStep(w))
    /\ SF_vars(CleanerStep)

-----------------------------------------------------------------------------
Labels == {"idle", "acquire", "enqueue", "waiting", "starting", "dialing", "using",
           "recycling", "delivering", "discarding", "closing", "scanning",
           "destroying", "stopping"}

TypeOK ==
    /\ config \in Config
    /\ conns \in Seq(Conn)
    /\ count \in Nat
    /\ queue \in Queues(Waiter)
    /\ cleanerRunning \in BOOLEAN
    /\ mu \in Process \cup {None}
    /\ waiter \in [Waiter -> [conn : Conn \cup {None}, answered : BOOLEAN, closes : Nat]]
    /\ open \subseteq Conn
    /\ pc \in [Process -> Labels]
    /\ hold \in [Process -> Conn \cup {None}]
    /\ wait \in [Process -> Waiter \cup {None}]
    /\ scratch \in Seq(Conn)
    /\ err \in [Caller -> {"none", "eof", "other"}]

\* p has been delivered a connection and has not looked yet.
Delivered(p) == At(p, "waiting") /\ waiter[wait[p]].conn # None

\* The processes that have a place of the pool: a connection or the dialing of
\* one, until they give it up or pass it on.
Placed ==
    {p \in Process : \/ pc[p] \in {"starting", "dialing", "using", "recycling",
                                   "delivering", "discarding"}
                    \/ Delivered(p)}

\* count is exact: through handovers to waiting callers, failed dials, timeouts
\* that race a delivery and the cleaner, no place is lost or counted twice.
CountIsExact == count = Len(conns) + Len(scratch) + Cardinality(Placed)

\* The limit of tryAcquireClientConn is kept by every path that dials.
CountWithinMax == count <= config.MaxConns

\* Every open connection is in exactly one place (idle, in the hands of one
\* process, delivered to one caller or taken by the cleaner) and no closed one
\* is anywhere: none is shared by two requests, leaked or used after Close.
OneOwner ==
    \A c \in Conn :
        LET places == {<<"idle", i>> : i \in {i \in DOMAIN conns : conns[i] = c}}
                 \cup {<<"scratch", i>> : i \in {i \in DOMAIN scratch : scratch[i] = c}}
                 \cup {<<"hold", p>> : p \in {p \in Process : hold[p] = c}}
                 \cup {<<"delivered", p>> :
                         p \in {p \in Caller : Delivered(p) /\ waiter[wait[p]].conn = c}}
        IN  Cardinality(places) = IF c \in open THEN 1 ELSE 0

\* However a delivery, the failure of a dial, the timer and the cancel that
\* follows an error overtake each other, ready is closed once for a caller that
\* has been answered, never twice, which would panic, and not before.
ReadyClosedOnce == \A w \in Waiter : waiter[w].closes = IF Answered(w) THEN 1 ELSE 0

\* cleanerRunning never claims a cleaner that has gone, or is not coming, and
\* there is never a second one, though the flag is reset without mu: a caller
\* that sees it set may count on the one cleaner to be there or to reset it.
OneCleaner ==
    Cardinality({p \in Caller : At(p, "starting")})
        + (IF At(Cleaner, "idle") THEN 0 ELSE 1) = IF cleanerRunning THEN 1 ELSE 0

\* Whoever asks for a connection gets one or an error: no timeout, failed dial
\* or lost handover leaves a caller in tryAcquireClientConn for ever.
AcquireEnds ==
    \A p \in Caller : At(p, "acquire") ~> At(p, "using") \/ At(p, "idle")

-----------------------------------------------------------------------------
(* What a HostClient promises.  A connection is in the pool from its dial  *)
(* until somebody decides to close it, and is used by the caller whose     *)
(* request it carries.                                                     *)

InPool(c) ==
    \/ \E i \in DOMAIN conns : conns[i] = c
    \/ \E i \in DOMAIN scratch : scratch[i] = c
    \/ \E p \in Process : hold[p] = c /\ pc[p] \in {"using", "recycling", "delivering"}
    \/ \E p \in Caller : Delivered(p) /\ waiter[wait[p]].conn = c

Pool == INSTANCE ConnPool WITH
            User <- Caller,
            MaxConns <- config.MaxConns,
            places <- count,
            pool <- {c \in Conn : InPool(c)},
            uses <- [p \in Caller |-> IF At(p, "using") THEN hold[p] ELSE None]

\* The HostClient implements the pool of ConnPool: at most MaxConns places, a
\* connection only in a place, and no connection in the hands of two callers.
PoolSpec == Pool!Spec
=============================================================================
