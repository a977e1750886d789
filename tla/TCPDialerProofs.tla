-------------------------- MODULE TCPDialerProofs --------------------------
(***************************************************************************)
(* Proofs about TCPDialer: tokens, result channels and timers, for any     *)
(* number of callers and of dials that were abandoned; and about the cache *)
(* of addresses that AddrCache models.                                     *)
(***************************************************************************)
EXTENDS TCPDialer, AddrCache, FiniteSetTheorems, TLAPS

USE TCPDialerAssumption, AddrCacheAssumption, IdxAssumption

\* What a caller has at each point of tryDial.
LoopsHold ==
    \A p \in Caller :
        /\ pc[p] \in Done \cup {"trying"} => ch[p] = None /\ timer[p] = None
        /\ pc[p] = "queued" => ch[p] = None /\ timer[p] \in Timer
        /\ pc[p] = "waiting" => ch[p] \in Chan /\ timer[p] \in Timer
        /\ pc[p] \notin Done => n[p] >= 1

\* A channel in use has one receiver, one sender, or one of each that belong
\* together; one in the pool is empty and has none.
ChansHold ==
    /\ \A p, q \in Caller : ch[p] = ch[q] /\ ch[p] # None => p = q
    /\ \A c \in pool : chans[c] = None /\ Free(c)
    /\ \A g \in Goroutine :
        /\ dialing[g].state = "dialing" =>
             dialing[g].ch \in Chan /\ dialing[g].for \in Caller /\ chans[dialing[g].ch] = None
        /\ dialing[g].state # "dialing" => dialing[g].ch = None
        /\ dialing[g].state = "off" => dialing[g] = Off
    /\ \A f, g \in Goroutine : dialing[f].ch = dialing[g].ch /\ dialing[f].ch # None => f = g
    /\ \A g \in Goroutine, p \in Caller : dialing[g].ch = ch[p] /\ ch[p] # None =>
          dialing[g].for = p /\ dialing[g].addr = idx[p] % n[p]
    /\ OwnResult

\* The timer of a caller is not in the pool.
TimersHold ==
    /\ TimersApart
    /\ \A p \in Caller : timer[p] # None => timers[timer[p]].where = "held"

DialerInv == TypeOK /\ LoopsHold /\ ChansHold /\ TimersHold /\ TokensExact

Dialing == {g \in Goroutine : dialing[g] # Off}

LEMMA Exact ==
    /\ TokensExact <=> /\ tokens = Cardinality(Dialing)
                       /\ Concurrency > 0 => tokens <= Concurrency
    /\ TokensExact' <=> /\ tokens' = Cardinality(Dialing')
                        /\ Concurrency > 0 => tokens' <= Concurrency
BY DEF TokensExact, Dialing

LEMMA FiniteDialing == IsFiniteSet(Dialing) /\ Cardinality(Dialing) \in Nat
BY FS_Subset, FS_CardinalityType DEF Dialing

LEMMA ModRange ==
    ASSUME NEW a \in Nat, NEW b \in Nat \ {0} PROVE a % b \in 0 .. b - 1
OBVIOUS

LEMMA TimerTypes ==
    ASSUME NEW t \in Timers
    PROVE  /\ AcquireTimer(t) \in Timers /\ ReleaseTimer(t) \in Timers
           /\ Expire(t) \in Timers /\ SendTime(t) \in Timers /\ ReadTime(t) \in Timers
           /\ AcquireTimer(t).where = "held"
           /\ ReleaseTimer(t).where = "pooled" /\ ~ReleaseTimer(t).armed
           /\ ~Expire(t).armed /\ Expire(t).where = t.where
           /\ SendTime(t).armed = t.armed /\ SendTime(t).where = t.where
           /\ ReadTime(t).armed = t.armed /\ ReadTime(t).where = t.where
BY DEF Timers, AcquireTimer, ReleaseTimer, Expire, SendTime, ReadTime

LEMMA InitDialer == TCPDialerInit => DialerInv
<1> SUFFICES ASSUME TCPDialerInit PROVE DialerInv
    OBVIOUS
<1> USE DEF TCPDialerInit
<1>1. TypeOK
    BY DEF TypeOK, Off, NewTimer, Timers, Done
<1>2. LoopsHold
    BY DEF LoopsHold, Done
<1>3. ChansHold
    BY DEF ChansHold, OwnResult, Off
<1>4. TimersHold
    BY DEF TimersHold, TimersApart, NewTimer
<1>5. Dialing = {}
    BY DEF Dialing
<1>6. TokensExact
    BY <1>5, Exact, FS_EmptySet
<1> QED BY <1>1, <1>2, <1>3, <1>4, <1>6 DEF DialerInv

-----------------------------------------------------------------------------
(* The loop of dial.                                                       *)

LEMMA BeginsKeeps ==
    ASSUME DialerInv, NEW p \in Caller, Begins(p)
    PROVE  DialerInv'
<1> USE DEF Begins, DialerInv, loop, results
<1>1. TypeOK'
    BY DEF TypeOK, Done
<1>2. LoopsHold'
    BY DEF LoopsHold, TypeOK, Done
<1>3. ChansHold'
    BY DEF ChansHold, OwnResult, TypeOK, LoopsHold, Free, Done
<1>4. TimersHold'
    BY DEF TimersHold, TimersApart, TypeOK, LoopsHold, Done
<1>5. Dialing' = Dialing /\ tokens' = tokens
    BY DEF Dialing
<1>6. TokensExact'
    BY <1>5, Exact
<1> QED BY <1>1, <1>2, <1>3, <1>4, <1>6

LEMMA TriesTooLateKeeps ==
    ASSUME DialerInv, NEW p \in Caller, TriesTooLate(p)
    PROVE  DialerInv'
<1> USE DEF TriesTooLate, Returns, DialerInv, loop, results
<1>1. TypeOK'
    BY DEF TypeOK, Done
<1>2. LoopsHold'
    BY DEF LoopsHold, TypeOK, Done
<1>3. ChansHold'
    BY DEF ChansHold, OwnResult, TypeOK, LoopsHold, Free, Done
<1>4. TimersHold'
    BY DEF TimersHold, TimersApart, TypeOK, LoopsHold, Done
<1>5. Dialing' = Dialing /\ tokens' = tokens
    BY DEF Dialing
<1>6. TokensExact'
    BY <1>5, Exact
<1> QED BY <1>1, <1>2, <1>3, <1>4, <1>6

LEMMA DeadlinePassesKeeps ==
    ASSUME DialerInv, NEW p \in Caller, DeadlinePasses(p)
    PROVE  DialerInv'
<1> USE DEF DeadlinePasses, DialerInv, loop, results
<1>1. TypeOK'
    BY DEF TypeOK, Done
<1>2. LoopsHold'
    BY DEF LoopsHold, TypeOK, Done
<1>3. ChansHold'
    BY DEF ChansHold, OwnResult, TypeOK, LoopsHold, Free, Done
<1>4. TimersHold'
    BY DEF TimersHold, TimersApart, TypeOK, LoopsHold, Done
<1>5. Dialing' = Dialing /\ tokens' = tokens
    BY DEF Dialing
<1>6. TokensExact'
    BY <1>5, Exact
<1> QED BY <1>1, <1>2, <1>3, <1>4, <1>6

-----------------------------------------------------------------------------
(* Timers.                                                                 *)

LEMMA ExpiresKeeps ==
    ASSUME DialerInv, NEW p \in Caller, Expires(p)
    PROVE  DialerInv'
<1> USE DEF Expires, DialerInv, loop, results
<1>1. TypeOK'
    BY TimerTypes DEF TypeOK, Done
<1>2. LoopsHold'
    BY DEF LoopsHold, TypeOK, Done
<1>3. ChansHold'
    BY DEF ChansHold, OwnResult, TypeOK, LoopsHold, Free, Done
<1>4. TimersHold'
    BY TimerTypes DEF TimersHold, TimersApart, TypeOK, LoopsHold, Done
<1>5. Dialing' = Dialing /\ tokens' = tokens
    BY DEF Dialing
<1>6. TokensExact'
    BY <1>5, Exact
<1> QED BY <1>1, <1>2, <1>3, <1>4, <1>6

LEMMA SendsTimeKeeps ==
    ASSUME DialerInv, NEW t \in Timer, SendsTime(t)
    PROVE  DialerInv'
<1> USE DEF SendsTime, DialerInv, loop, results
<1>1. TypeOK'
    BY TimerTypes DEF TypeOK, Done
<1>2. LoopsHold'
    BY DEF LoopsHold, TypeOK, Done
<1>3. ChansHold'
    BY DEF ChansHold, OwnResult, TypeOK, LoopsHold, Free, Done
<1>4. TimersHold'
    BY TimerTypes DEF TimersHold, TimersApart, TypeOK, LoopsHold, Done
<1>5. Dialing' = Dialing /\ tokens' = tokens
    BY DEF Dialing
<1>6. TokensExact'
    BY <1>5, Exact
<1> QED BY <1>1, <1>2, <1>3, <1>4, <1>6

LEMMA QueuesKeeps ==
    ASSUME DialerInv, NEW p \in Caller, QueuesForToken(p)
    PROVE  DialerInv'
<1> USE DEF QueuesForToken, Acquired, DialerInv, loop, results
<1>1. TypeOK'
    BY TimerTypes DEF TypeOK, Done
<1>2. LoopsHold'
    BY DEF LoopsHold, TypeOK, Done
<1>3. ChansHold'
    BY DEF ChansHold, OwnResult, TypeOK, LoopsHold, Free, Done
<1>4. TimersHold'
    BY TimerTypes DEF TimersHold, TimersApart, TypeOK, LoopsHold, Done
<1>5. Dialing' = Dialing /\ tokens' = tokens
    BY DEF Dialing
<1>6. TokensExact'
    BY <1>5, Exact
<1> QED BY <1>1, <1>2, <1>3, <1>4, <1>6

LEMMA TimesOutQueuedKeeps ==
    ASSUME DialerInv, NEW p \in Caller, TimesOutQueued(p)
    PROVE  DialerInv'
<1> USE DEF TimesOutQueued, GivesUp, Returns, DialerInv, loop, results
<1>0. timer[p] \in Timer /\ ReleaseTimer(ReadTime(timers[timer[p]])) \in Timers
    BY TimerTypes DEF TypeOK, LoopsHold
<1>1. TypeOK'
    BY <1>0 DEF TypeOK, Done
<1>2. LoopsHold'
    BY DEF LoopsHold, TypeOK, Done
<1>3. ChansHold'
    BY DEF ChansHold, OwnResult, TypeOK, LoopsHold, Free, Done
<1>4. TimersHold'
    BY TimerTypes DEF TimersHold, TimersApart, TypeOK, LoopsHold, Done
<1>5. Dialing' = Dialing /\ tokens' = tokens
    BY DEF Dialing
<1>6. TokensExact'
    BY <1>5, Exact
<1> QED BY <1>1, <1>2, <1>3, <1>4, <1>6

LEMMA TimesOutWaitingKeeps ==
    ASSUME DialerInv, NEW p \in Caller, TimesOutWaiting(p)
    PROVE  DialerInv'
<1> USE DEF TimesOutWaiting, GivesUp, Returns, DialerInv, loop, results
<1>0. timer[p] \in Timer /\ ReleaseTimer(ReadTime(timers[timer[p]])) \in Timers
    BY TimerTypes DEF TypeOK, LoopsHold
<1>1. TypeOK'
    BY <1>0 DEF TypeOK, Done
<1>2. LoopsHold'
    BY DEF LoopsHold, TypeOK, Done
<1>3. ChansHold'
    BY DEF ChansHold, OwnResult, TypeOK, LoopsHold, Free, Done
<1>4. TimersHold'
    BY TimerTypes DEF TimersHold, TimersApart, TypeOK, LoopsHold, Done
<1>5. Dialing' = Dialing /\ tokens' = tokens
    BY DEF Dialing
<1>6. TokensExact'
    BY <1>5, Exact
<1> QED BY <1>1, <1>2, <1>3, <1>4, <1>6

-----------------------------------------------------------------------------
(* Dials.                                                                  *)

\* from is timers, or timers after the timer of the token was released.
LEMMA StartsDialKeeps ==
    ASSUME DialerInv, NEW p \in Caller, NEW t \in Timer, NEW from,
           from \in [Timer -> Timers],
           \A u \in Timer : from[u].armed => from[u].where = "held",
           \A q \in Caller : q # p /\ timer[q] # None => from[timer[q]].where = "held",
           pc[p] \in {"trying", "queued"}, HasRoom,
           StartsDial(p, t), Acquired(t, from), UNCHANGED loop
    PROVE  DialerInv'
<1> USE DEF DialerInv, loop
<1>0. n[p] \in 1 .. MaxAddrs /\ idx[p] \in Nat /\ ch[p] = None
    BY DEF TypeOK, LoopsHold, Done
<1>1. idx[p] % n[p] \in 0 .. MaxAddrs - 1
    <2>1. n[p] \in Nat \ {0}
        BY <1>0
    <2>2. idx[p] % n[p] \in 0 .. n[p] - 1
        BY <1>0, <2>1, ModRange
    <2> QED BY <1>0, <2>2
<1>2. PICK g \in Goroutine, c \in Chan :
          /\ dialing[g] = Off
          /\ dialing' = [dialing EXCEPT ![g] =
                [state |-> "dialing", for |-> p, ch |-> c, addr |-> idx[p] % n[p]]]
          /\ ch' = [ch EXCEPT ![p] = c]
          /\ \/ c \in pool /\ pool' = pool \ {c} /\ UNCHANGED chans
             \/ /\ c \notin pool /\ Free(c)
                /\ chans' = [chans EXCEPT ![c] = None]
                /\ UNCHANGED pool
    BY DEF StartsDial
<1>3. Free(c) /\ pool' \subseteq pool \ {c} /\ chans' \in [Chan -> Results \cup {None}]
      /\ chans'[c] = None /\ \A d \in Chan : d # c => chans'[d] = chans[d]
    BY <1>2 DEF ChansHold, TypeOK
<1>4. /\ tokens' = tokens + 1 /\ timer' = [timer EXCEPT ![p] = t]
      /\ pc' = [pc EXCEPT ![p] = "waiting"]
      /\ from[t].where # "held" /\ timers' = [from EXCEPT ![t] = AcquireTimer(@)]
    BY DEF StartsDial, Acquired
<1>5. TypeOK'
    <2>1. timers' \in [Timer -> Timers]
        BY <1>4, TimerTypes
    <2>2. dialing' \in [Goroutine -> [state : {"off", "dialing", "sent"}, for : Caller \cup {None},
                                      addr : 0 .. MaxAddrs - 1, ch : Chan \cup {None}]]
        BY <1>1, <1>2 DEF TypeOK
    <2> QED BY <1>2, <1>3, <1>4, <2>1, <2>2 DEF TypeOK, Done
<1>6. LoopsHold'
    BY <1>0, <1>2, <1>4 DEF LoopsHold, TypeOK, Done
<1>7. ChansHold'
    BY <1>0, <1>2, <1>3, <1>4 DEF ChansHold, OwnResult, TypeOK, Free, Off, LoopsHold, Done
<1>8. TimersHold'
    BY <1>4, TimerTypes DEF TimersHold, TimersApart, TypeOK
<1>9. TokensExact'
    <2>1. Dialing' = Dialing \cup {g} /\ g \notin Dialing
        BY <1>2 DEF Dialing, TypeOK, Off
    <2>2. Cardinality(Dialing') = Cardinality(Dialing) + 1
        BY <2>1, FiniteDialing, FS_AddElement
    <2>3. tokens = Cardinality(Dialing) /\ (Concurrency > 0 => tokens < Concurrency)
        BY Exact, FiniteDialing DEF HasRoom
    <2>4. Concurrency > 0 => tokens' <= Concurrency
        BY <1>4, <2>3, FiniteDialing
    <2> QED BY <1>4, <2>2, <2>3, <2>4, Exact
<1> QED BY <1>5, <1>6, <1>7, <1>8, <1>9

LEMMA DialsAtOnceKeeps ==
    ASSUME DialerInv, NEW p \in Caller, DialsAtOnce(p)
    PROVE  DialerInv'
<1>1. PICK t \in Timer : StartsDial(p, t) /\ Acquired(t, timers)
    BY DEF DialsAtOnce
<1>2. /\ timers \in [Timer -> Timers]
      /\ \A u \in Timer : timers[u].armed => timers[u].where = "held"
      /\ \A q \in Caller : q # p /\ timer[q] # None => timers[timer[q]].where = "held"
    BY DEF DialerInv, TypeOK, TimersHold, TimersApart
<1>3. HasRoom /\ UNCHANGED loop /\ pc[p] = "trying"
    BY DEF DialsAtOnce
<1> QED BY <1>1, <1>2, <1>3, StartsDialKeeps

LEMMA DialsWithTokenKeeps ==
    ASSUME DialerInv, NEW p \in Caller, DialsWithToken(p)
    PROVE  DialerInv'
<1> DEFINE from == Released(timer[p])
<1>1. PICK t \in Timer : StartsDial(p, t) /\ Acquired(t, from)
    BY DEF DialsWithToken
<1>2. HasRoom /\ UNCHANGED loop /\ pc[p] = "queued"
    BY DEF DialsWithToken
<1>3. timer[p] \in Timer /\ timers \in [Timer -> Timers] /\ timer \in [Caller -> Timer \cup {None}]
    BY <1>2 DEF DialerInv, TypeOK, LoopsHold
<1>4. /\ from \in [Timer -> Timers]
      /\ \A u \in Timer : from[u].armed => from[u].where = "held"
      /\ \A q \in Caller : q # p /\ timer[q] # None => from[timer[q]].where = "held"
    BY <1>3, TimerTypes DEF DialerInv, TimersHold, TimersApart, Released
<1> HIDE DEF from
<1> QED BY <1>1, <1>2, <1>4, StartsDialKeeps

LEMMA SendsKeeps ==
    ASSUME DialerInv, NEW g \in Goroutine, Sends(g)
    PROVE  DialerInv'
<1> USE DEF Sends, DialerInv, loop
<1>0. dialing[g].ch \in Chan /\ dialing[g].for \in Caller /\ dialing[g].addr \in 0 .. MaxAddrs - 1
    BY DEF ChansHold, TypeOK
<1>1. TypeOK'
    BY <1>0 DEF TypeOK, Off, Results
<1>2. LoopsHold'
    BY DEF LoopsHold
<1>3. ChansHold'
    BY <1>0 DEF ChansHold, OwnResult, TypeOK, Free, Off, LoopsHold
<1>4. TimersHold'
    BY DEF TimersHold, TimersApart
<1>5. Dialing' = Dialing /\ tokens' = tokens
    BY DEF Dialing, TypeOK, Off
<1>6. TokensExact'
    BY <1>5, Exact
<1> QED BY <1>1, <1>2, <1>3, <1>4, <1>6

LEMMA ReturnsTokenKeeps ==
    ASSUME DialerInv, NEW g \in Goroutine, ReturnsToken(g)
    PROVE  DialerInv'
<1> USE DEF ReturnsToken, DialerInv, loop
<1>1. LoopsHold'
    BY DEF LoopsHold
<1>2. ChansHold'
    BY DEF ChansHold, OwnResult, TypeOK, Free, Off, LoopsHold
<1>3. TimersHold'
    BY DEF TimersHold, TimersApart
<1>4. Dialing' = Dialing \ {g} /\ g \in Dialing
    BY DEF Dialing, TypeOK, Off
<1>5. Cardinality(Dialing') = Cardinality(Dialing) - 1 /\ Cardinality(Dialing) # 0
    BY <1>4, FiniteDialing, FS_RemoveElement, FS_EmptySet
<1>6. tokens' \in Nat /\ TokensExact'
    BY <1>5, Exact, FiniteDialing
<1>7. TypeOK'
    BY <1>6 DEF TypeOK, Off
<1> QED BY <1>1, <1>2, <1>3, <1>6, <1>7

\* The caller returns or goes on with the next address.
WaitsNoMore(p) ==
    /\ ch' = [ch EXCEPT ![p] = None] /\ timer' = [timer EXCEPT ![p] = None]
    /\ pc' \in [Caller -> Done \cup {"trying", "queued", "waiting"}]
    /\ pc'[p] \in Done \cup {"trying"} /\ (pc'[p] = "trying" => n'[p] >= 1)
    /\ addrs' \in [Caller -> 0 .. MaxAddrs] /\ late' \in [Caller -> BOOLEAN]
    /\ idx' \in [Caller -> 0 .. IdxSize - 1] /\ n' \in [Caller -> 0 .. MaxAddrs]
    /\ \A q \in Caller : q # p => pc'[q] = pc[q] /\ idx'[q] = idx[q] /\ n'[q] = n[q]

LEMMA GetsResultKeeps ==
    ASSUME DialerInv, NEW p \in Caller, GetsResult(p)
    PROVE  DialerInv'
<1> USE DEF DialerInv
<1>1. /\ pc[p] = "waiting" /\ chans[ch[p]] # None
      /\ chans' = [chans EXCEPT ![ch[p]] = None]
      /\ pool' = pool \cup {ch[p]}
      /\ timers' = Released(timer[p])
      /\ UNCHANGED <<tokens, dialing>>
    BY DEF GetsResult
<1>2. ch[p] \in Chan /\ timer[p] \in Timer /\ n[p] >= 1
    BY <1>1 DEF LoopsHold, Done
<1>3. WaitsNoMore(p)
    <2>1. CASE GoesOn(p)
        <3>1. idx[p] + 1 \in Nat /\ IdxSize \in Nat \ {0}
            BY DEF TypeOK
        <3>2. (idx[p] + 1) % IdxSize \in 0 .. IdxSize - 1
            BY <3>1, ModRange
        <3> QED BY <2>1, <3>2 DEF GoesOn, WaitsNoMore, TypeOK, Done
    <2>2. ASSUME NEW how \in {"connected", "failed"}, Returns(p, how)
          PROVE  WaitsNoMore(p)
        <3>1. how \in Done
            BY DEF Done
        <3> QED BY <2>2, <3>1 DEF Returns, WaitsNoMore, TypeOK
    <2>3. GoesOn(p) \/ \E how \in {"connected", "failed"} : Returns(p, how)
        BY DEF GetsResult
    <2> QED BY <2>1, <2>2, <2>3
<1>4. timers' \in [Timer -> Timers]
    BY <1>1, <1>2, TimerTypes DEF Released, TypeOK
<1>5. TypeOK'
    BY <1>1, <1>2, <1>3, <1>4 DEF WaitsNoMore, TypeOK
<1>6. LoopsHold'
    BY <1>3 DEF WaitsNoMore, LoopsHold, TypeOK, Done
<1>7. ChansHold'
    BY <1>1, <1>2, <1>3 DEF WaitsNoMore, ChansHold, OwnResult, TypeOK, Free, LoopsHold, Done
<1>8. TimersHold'
    BY <1>1, <1>2, <1>3, TimerTypes DEF WaitsNoMore, TimersHold, TimersApart, TypeOK, Released
<1>9. Dialing' = Dialing
    BY <1>1 DEF Dialing
<1>10. TokensExact'
    BY <1>1, <1>9, Exact
<1> QED BY <1>5, <1>6, <1>7, <1>8, <1>10

-----------------------------------------------------------------------------
LEMMA StepKeepsDialer == DialerInv /\ [TCPDialerNext]_vars => DialerInv'
<1> SUFFICES ASSUME DialerInv, [TCPDialerNext]_vars PROVE DialerInv'
    OBVIOUS
<1>1. CASE UNCHANGED vars
    <2> USE <1>1 DEF vars, loop, results
    <2>1. TypeOK' /\ LoopsHold'
        BY DEF DialerInv, TypeOK, LoopsHold
    <2>2. ChansHold'
        BY DEF DialerInv, ChansHold, OwnResult, Free
    <2>3. TimersHold' /\ TokensExact'
        BY DEF DialerInv, TimersHold, TimersApart, TokensExact
    <2> QED BY <2>1, <2>2, <2>3 DEF DialerInv
<1>2. CASE TCPDialerNext
    BY <1>2, BeginsKeeps, TriesTooLateKeeps, DialsAtOnceKeeps, QueuesKeeps,
       DialsWithTokenKeeps, TimesOutQueuedKeeps, TimesOutWaitingKeeps, GetsResultKeeps,
       DeadlinePassesKeeps, ExpiresKeeps, SendsKeeps, ReturnsTokenKeeps, SendsTimeKeeps
       DEF TCPDialerNext, CallerStep
<1> QED BY <1>1, <1>2

LEMMA DialerInvariant == Spec => []DialerInv
BY InitDialer, StepKeepsDialer, PTL DEF Spec

\* No index, count of addresses or state of a timer leaves its range.
THEOREM DialerTypeCorrect == Spec => []TypeOK
BY DialerInvariant, PTL DEF DialerInv

\* concurrencyCh: a goroutine has exactly one token from its start until it gives
\* it back, however many callers have gone, and Concurrency is never exceeded.
THEOREM TokensAreExact == Spec => []TokensExact
BY DialerInvariant, PTL DEF DialerInv

\* tryDial's goroutine sends to a channel that is empty and that is its own.
THEOREM SendsNeverBlock == Spec => []NeverBlocksOnSend
<1>1. DialerInv => NeverBlocksOnSend
    BY DEF DialerInv, ChansHold, NeverBlocksOnSend, Free, TypeOK
<1> QED BY <1>1, DialerInvariant, PTL

\* dialResultChanPool: no caller ever receives the result of an abandoned dial.
THEOREM ResultsAreOwn == Spec => []OwnResult
BY DialerInvariant, PTL DEF DialerInv, ChansHold

\* AcquireTimer and ReleaseTimer: no timer is running in the pool or shared.
THEOREM TimersStayApart == Spec => []TimersApart
BY DialerInvariant, PTL DEF DialerInv, TimersHold

-----------------------------------------------------------------------------
(* The cache of addresses.                                                 *)

\* No entry is in the table twice, and what a caller at work refers to is there.
OnePlace ==
    /\ \A g, h \in Host : Found(g) /\ table[g] = table[h] => g = h
    /\ \A p \in Caller : stage[p] = "resolving" => host[p] \in Host
    /\ \A p \in Caller : stage[p] = "indexing" => entry[p] \in Entry

CacheInv == CacheTypeOK /\ OnePlace /\ PendingIsResolved

\* An empty cache.
LEMMA InitCache == AddrCacheInit => CacheInv
BY DEF AddrCacheInit, CacheInv, CacheTypeOK, OnePlace, PendingIsResolved, Entries, NewEntry, Found

\* What the steps keep of types and places.
LEMMA StepKeepsPlaces ==
    ASSUME CacheInv, [AddrCacheNext]_cacheVars
    PROVE  CacheTypeOK' /\ OnePlace'
<1> USE DEF CacheInv, CacheTypeOK, OnePlace, Entries, NewEntry, Found
<1>1. ASSUME NEW p \in Caller, NEW h \in Host, Hits(p, h)
      PROVE  CacheTypeOK' /\ OnePlace'
    BY <1>1 DEF Hits
<1>2. ASSUME NEW p \in Caller, NEW h \in Host, Refreshes(p, h)
      PROVE  CacheTypeOK' /\ OnePlace'
    <2>1. table[h] \in Entry /\ entries[table[h]] \in Entries
        BY <1>2 DEF Refreshes
    <2>2. entries' \in [Entry -> Entries]
        BY <1>2, <2>1 DEF Refreshes
    <2> QED BY <1>2, <2>2 DEF Refreshes
<1>3. ASSUME NEW p \in Caller, NEW h \in Host, Misses(p, h)
      PROVE  CacheTypeOK' /\ OnePlace'
    BY <1>3 DEF Misses
<1>4. ASSUME NEW p \in Caller, Fails(p)
      PROVE  CacheTypeOK' /\ OnePlace'
    <2>1. host[p] \in Host
        BY <1>4 DEF Fails
    <2>2. entries' \in [Entry -> Entries]
        <3>1. CASE Found(host[p])
            <4>1. table[host[p]] \in Entry /\ entries[table[host[p]]] \in Entries
                BY <2>1, <3>1
            <4>2. entries' = [entries EXCEPT ![table[host[p]]].pending = FALSE]
                BY <1>4, <3>1 DEF Fails
            <4> QED BY <4>1, <4>2
        <3>2. CASE ~Found(host[p])
            BY <1>4, <3>2 DEF Fails
        <3> QED BY <3>1, <3>2
    <2> QED BY <1>4, <2>2 DEF Fails
<1>5. ASSUME NEW p \in Caller, Resolves(p)
      PROVE  CacheTypeOK' /\ OnePlace'
    BY <1>5 DEF Resolves, Unused
<1>6. ASSUME NEW p \in Caller, TakesIndex(p)
      PROVE  CacheTypeOK' /\ OnePlace'
    <2>1. entry[p] \in Entry /\ (entries[entry[p]].idx + 1) % IdxSize \in 0 .. IdxSize - 1
        BY <1>6 DEF TakesIndex
    <2> QED BY <1>6, <2>1 DEF TakesIndex
<1>7. ASSUME NEW h \in Host, Ages(h)
      PROVE  CacheTypeOK' /\ OnePlace'
    BY <1>7 DEF Ages
<1>8. ASSUME NEW h \in Host, Cleans(h)
      PROVE  CacheTypeOK' /\ OnePlace'
    BY <1>8 DEF Cleans
<1>9. CASE UNCHANGED cacheVars
    BY <1>9 DEF cacheVars
<1> QED BY <1>1, <1>2, <1>3, <1>4, <1>5, <1>6, <1>7, <1>8, <1>9 DEF AddrCacheNext

\* Only the caller that fails takes itself off the entry it marked, and it takes
\* the mark off as well.
LEMMA StepKeepsPending ==
    ASSUME CacheInv, [AddrCacheNext]_cacheVars
    PROVE  PendingIsResolved'
<1> USE DEF CacheInv, CacheTypeOK, OnePlace, PendingIsResolved, Entries, NewEntry, Found
<1>1. ASSUME NEW p \in Caller, NEW h \in Host, Hits(p, h)
      PROVE  PendingIsResolved'
    BY <1>1 DEF Hits
<1>2. ASSUME NEW p \in Caller, NEW h \in Host, Refreshes(p, h)
      PROVE  PendingIsResolved'
    BY <1>2 DEF Refreshes
<1>3. ASSUME NEW p \in Caller, NEW h \in Host, Misses(p, h)
      PROVE  PendingIsResolved'
    BY <1>3 DEF Misses
<1>4. ASSUME NEW p \in Caller, Fails(p)
      PROVE  PendingIsResolved'
    BY <1>4 DEF Fails
<1>5. ASSUME NEW p \in Caller, Resolves(p)
      PROVE  PendingIsResolved'
    BY <1>5 DEF Resolves, Unused
<1>6. ASSUME NEW p \in Caller, TakesIndex(p)
      PROVE  PendingIsResolved'
    BY <1>6 DEF TakesIndex
<1>7. ASSUME NEW h \in Host, Ages(h)
      PROVE  PendingIsResolved'
    BY <1>7 DEF Ages
<1>8. ASSUME NEW h \in Host, Cleans(h)
      PROVE  PendingIsResolved'
    BY <1>8 DEF Cleans
<1>9. CASE UNCHANGED cacheVars
    BY <1>9 DEF cacheVars
<1> QED BY <1>1, <1>2, <1>3, <1>4, <1>5, <1>6, <1>7, <1>8, <1>9 DEF AddrCacheNext

\* So the invariant holds.
LEMMA CacheInvariant == CacheSpec => []CacheInv
<1>1. CacheInv /\ [AddrCacheNext]_cacheVars => CacheInv'
    BY StepKeepsPlaces, StepKeepsPending DEF CacheInv
<1> QED BY <1>1, InitCache, PTL DEF CacheSpec

\* Ages and indexes keep their ranges, and the table holds entries only.
THEOREM CacheTypeCorrect == CacheSpec => []CacheTypeOK
BY CacheInvariant, PTL DEF CacheInv

\* getTCPAddrs: a mark that a caller has set is taken off by a success or a
\* failure of whoever still resolves; it never outlives them all.
THEOREM PendingEnds == CacheSpec => []PendingIsResolved
BY CacheInvariant, PTL DEF CacheInv
=============================================================================
