---------------------------- MODULE ClientProofs ----------------------------
(***************************************************************************)
(* Proofs about Client: type correctness, and that there is exactly one    *)
(* cleaner, running or about to be started, while the map has entries.     *)
(***************************************************************************)
EXTENDS Client, FiniteSetTheorems, TLAPS

Starting == {p \in Caller : pc[p] = "starting"}
Loops    == {k \in Cleaner : cleaner[k] # "off"}

\* c.mu is held by the cleaner that goes through the map, and what a goroutine at
\* work refers to is there.
Held ==
    /\ \A k \in Cleaner : mu = k <=> cleaner[k] \in {"visiting", "deleting"}
    /\ \A k \in Cleaner : cleaner[k] = "deleting" => victim \in Host \ todo
    /\ todo \subseteq Mapped \/ mu = None
    /\ \A p \in Caller : pc[p] # "idle" => target[p] \in Instance

\* No HostClient has fewer places than callers use.
UsersCounted == \A i \in Instance : Cardinality(Users(i)) <= count[i]

ClientInv == TypeOK /\ Held /\ UsersCounted /\ OneLoop

USE ClientAssumption

LEMMA LoopSets ==
    /\ OneLoop <=> Cardinality(Starting) + Cardinality(Loops)
                     = IF Mapped # {} \/ mu # None THEN 1 ELSE 0
    /\ OneLoop' <=> Cardinality(Starting') + Cardinality(Loops')
                      = IF Mapped' # {} \/ mu' # None THEN 1 ELSE 0
BY DEF OneLoop, Starting, Loops

LEMMA Finite ==
    /\ IsFiniteSet(Starting) /\ IsFiniteSet(Loops)
    /\ Cardinality(Starting) \in Nat /\ Cardinality(Loops) \in Nat
    /\ \A i : IsFiniteSet(Users(i)) /\ Cardinality(Users(i)) \in Nat
<1>1. Starting \subseteq Caller /\ Loops \subseteq Cleaner
    BY DEF Starting, Loops
<1>2. \A i : Users(i) \subseteq Caller
    BY DEF Users
<1> QED BY <1>1, <1>2, FS_Subset, FS_CardinalityType

LEMMA InitClient == ClientInit => ClientInv
<1> SUFFICES ASSUME ClientInit PROVE ClientInv
    OBVIOUS
<1> USE DEF ClientInit
<1>1. TypeOK
    BY DEF TypeOK
<1>2. Mapped = {} /\ mu = None
    BY DEF Mapped
<1>3. Starting = {} /\ Loops = {}
    BY DEF Starting, Loops
<1>4. OneLoop
    BY <1>2, <1>3, LoopSets, FS_EmptySet
<1>5. Held
    BY <1>2 DEF Held
<1>6. \A i : Users(i) = {}
    BY DEF Users
<1>7. UsersCounted
    BY <1>6, FS_EmptySet DEF UsersCounted
<1> QED BY <1>1, <1>4, <1>5, <1>7 DEF ClientInv

-----------------------------------------------------------------------------
(* Users.                                                                  *)

\* A step that leaves the callers in "using" alone leaves Users alone.
LEMMA SameUsers ==
    ASSUME \A p \in Caller : (pc'[p] = "using") <=> (pc[p] = "using"),
           \A p \in Caller : pc[p] = "using" => target'[p] = target[p]
    PROVE  \A i : Users(i)' = Users(i)
BY DEF Users

LEMMA UsersKept ==
    ASSUME UsersCounted, \A i : Users(i)' = Users(i),
           \A i \in Instance : count'[i] >= count[i],
           count \in [Instance -> Nat], count' \in [Instance -> Nat]
    PROVE  UsersCounted'
<1> SUFFICES ASSUME NEW i \in Instance PROVE Cardinality(Users(i))' <= count'[i]
    BY DEF UsersCounted
<1>1. Cardinality(Users(i)) <= count[i] /\ Cardinality(Users(i)) \in Nat
    BY Finite DEF UsersCounted
<1>2. Cardinality(Users(i))' = Cardinality(Users(i))
    BY Zenon
<1> QED BY <1>1, <1>2

\* TypeOK gives these to the solvers.
LEMMA Counts == TypeOK => count \in [Instance -> Nat] /\ MaxConns \in Nat
BY DEF TypeOK

-----------------------------------------------------------------------------
(* The steps.                                                              *)

LEMMA LooksUpKeeps ==
    ASSUME ClientInv, NEW p \in Caller, NEW h \in Host, LooksUp(p, h)
    PROVE  ClientInv'
<1> USE DEF LooksUp, ClientInv
<1>1. TypeOK'
    BY DEF TypeOK
<1>2. Mapped' = Mapped /\ mu' = mu
    BY DEF Mapped
<1>3. Starting' = Starting /\ Loops' = Loops
    BY DEF Starting, Loops, TypeOK
<1>4. OneLoop'
    BY <1>2, <1>3, LoopSets
<1>5. Held'
    BY <1>2 DEF Held, TypeOK
<1>6. \A i : Users(i)' = Users(i)
    BY SameUsers DEF TypeOK
<1>7. UsersCounted'
    BY <1>1, <1>6, UsersKept, Counts DEF TypeOK
<1> QED BY <1>1, <1>4, <1>5, <1>7

LEMMA CreatesKeeps ==
    ASSUME ClientInv, NEW p \in Caller, NEW h \in Host, Creates(p, h)
    PROVE  ClientInv'
<1> USE DEF Creates, ClientInv
<1>1. TypeOK'
    BY DEF TypeOK
<1>2. Mapped' = Mapped \cup {h} /\ mu' = mu /\ mu = None /\ h \in Mapped'
    BY DEF Mapped, TypeOK
<1>3. Loops' = Loops
    BY DEF Loops
<1>4. OneLoop'
    <2>1. CASE Mapped = {}
        <3>1. Starting' = Starting \cup {p} /\ p \notin Starting
            BY <2>1 DEF Starting, TypeOK
        <3>2. Cardinality(Starting) + Cardinality(Loops) = 0
            BY <1>2, <2>1, LoopSets
        <3>3. Cardinality(Starting') = Cardinality(Starting) + 1
            BY <3>1, Finite, FS_AddElement
        <3> QED BY <1>2, <1>3, <3>2, <3>3, Finite, LoopSets
    <2>2. CASE Mapped # {}
        <3>1. Starting' = Starting
            BY <2>2 DEF Starting, TypeOK
        <3> QED BY <1>2, <1>3, <2>2, <3>1, LoopSets
    <2> QED BY <2>1, <2>2
<1>5. Held'
    BY <1>2 DEF Held, TypeOK
<1>6. \A i : Users(i)' = Users(i)
    BY SameUsers DEF TypeOK
<1>7. UsersCounted'
    BY <1>1, <1>6, UsersKept, Counts DEF TypeOK
<1> QED BY <1>1, <1>4, <1>5, <1>7

LEMMA StartsCleanerKeeps ==
    ASSUME ClientInv, NEW p \in Caller, StartsCleaner(p)
    PROVE  ClientInv'
<1> USE DEF StartsCleaner, ClientInv
<1>1. TypeOK'
    BY DEF TypeOK
<1>2. Mapped' = Mapped /\ mu' = mu
    BY DEF Mapped
<1>3. PICK k \in Cleaner : cleaner[k] = "off" /\ cleaner' = [cleaner EXCEPT ![k] = "running"]
    OBVIOUS
<1>4. OneLoop'
    <2>1. Starting' = Starting \ {p} /\ p \in Starting
        BY DEF Starting, TypeOK
    <2>2. Loops' = Loops \cup {k} /\ k \notin Loops
        BY <1>3 DEF Loops, TypeOK
    <2>3. Cardinality(Starting') = Cardinality(Starting) - 1
        BY <2>1, Finite, FS_RemoveElement
    <2>4. Cardinality(Loops') = Cardinality(Loops) + 1
        BY <2>2, Finite, FS_AddElement
    <2> QED BY <1>2, <2>3, <2>4, Finite, LoopSets
<1>5. Held'
    BY <1>2, <1>3 DEF Held, TypeOK
<1>6. \A i : Users(i)' = Users(i)
    BY SameUsers DEF TypeOK
<1>7. UsersCounted'
    BY <1>1, <1>6, UsersKept, Counts DEF TypeOK
<1> QED BY <1>1, <1>4, <1>5, <1>7

\* The steps of a caller that works with its HostClient, and the expiry of a
\* connection, concern neither the map nor the cleaners.
LEMMA WorkKeepsLoop ==
    ASSUME ClientInv, UNCHANGED <<clients, mu, cleaner, todo, victim>>, Starting' = Starting
    PROVE  OneLoop'
<1>1. Mapped' = Mapped /\ Loops' = Loops
    BY DEF Mapped, Loops
<1> QED BY <1>1, LoopSets DEF ClientInv

LEMMA AcquiresKeeps ==
    ASSUME ClientInv, NEW p \in Caller, Acquires(p)
    PROVE  ClientInv'
<1> DEFINE i == target[p]
<1> USE DEF Acquires, ClientInv
<1>1. i \in Instance /\ pc[p] = "calling"
    BY DEF Held
<1>2. TypeOK'
    BY <1>1 DEF TypeOK
<1>3. Starting' = Starting
    BY DEF Starting, TypeOK
<1>4. OneLoop'
    BY <1>3, WorkKeepsLoop
<1>5. Held'
    BY <1>1 DEF Held, TypeOK, Mapped
<1>6. UsersCounted'
    <2> SUFFICES ASSUME NEW j \in Instance PROVE Cardinality(Users(j)') <= count'[j]
        BY DEF UsersCounted
    <2>1. Cardinality(Users(j)) <= count[j]
        BY DEF UsersCounted
    <2>2. count[j] \in Nat /\ count'[j] \in Nat
        BY <1>2, Counts DEF TypeOK
    <2>3. CASE j = i
        <3>1. Users(j)' = Users(j) \cup {p} /\ p \notin Users(j)
            BY <1>1, <2>3 DEF Users, TypeOK
        <3>2. Cardinality(Users(j)') = Cardinality(Users(j)) + 1
            BY <3>1, Finite, FS_AddElement
        <3>3. CASE count' = [count EXCEPT ![i] = @ + 1]
            BY <1>1, <2>1, <2>2, <2>3, <3>2, <3>3, Finite DEF TypeOK
        <3>4. CASE count[i] > Cardinality(Users(i)) /\ UNCHANGED count
            BY <2>1, <2>2, <2>3, <3>2, <3>4, Finite
        <3> QED BY <3>3, <3>4
    <2>4. CASE j # i
        <3>1. Users(j)' = Users(j)
            BY <1>1, <2>4 DEF Users, TypeOK
        <3>2. count'[j] = count[j]
            BY <2>4 DEF TypeOK
        <3> QED BY <2>1, <3>1, <3>2
    <2> QED BY <2>3, <2>4
<1> QED BY <1>2, <1>4, <1>5, <1>6

LEMMA RefusedKeeps ==
    ASSUME ClientInv, NEW p \in Caller, Refused(p)
    PROVE  ClientInv'
<1> USE DEF Refused, ClientInv
<1>1. TypeOK'
    BY DEF TypeOK
<1>2. Starting' = Starting
    BY DEF Starting, TypeOK
<1>3. OneLoop'
    BY <1>2, WorkKeepsLoop
<1>4. Held'
    BY DEF Held, TypeOK, Mapped
<1>5. \A i : Users(i)' = Users(i)
    BY SameUsers DEF TypeOK
<1>6. UsersCounted'
    BY <1>1, <1>5, UsersKept, Counts DEF TypeOK
<1> QED BY <1>1, <1>3, <1>4, <1>6

\* A request ends, for good or to be repeated.
LEMMA RequestEndsKeeps ==
    ASSUME ClientInv, NEW p \in Caller, NEW s \in {"idle", "calling"}, NEW t,
           pc[p] = "using",
           UNCHANGED count \/ count' = [count EXCEPT ![target[p]] = @ - 1],
           pc' = [pc EXCEPT ![p] = s],
           target' = [target EXCEPT ![p] = t],
           t = IF s = "idle" THEN None ELSE target[p],
           UNCHANGED <<clients, mu, cleaner, todo, victim>>
    PROVE  ClientInv'
<1> DEFINE i == target[p]
<1> USE DEF ClientInv
<1>1. i \in Instance /\ p \in Users(i)
    BY DEF Held, Users
<1>2. Cardinality(Users(i)) >= 1 /\ Cardinality(Users(i)) <= count[i]
    <2>1. Cardinality(Users(i)) # 0
        BY <1>1, Finite, FS_EmptySet
    <2> QED BY <1>1, <2>1, Finite DEF UsersCounted
<1>3. TypeOK'
    BY <1>1, <1>2, Finite DEF TypeOK
<1>4. Starting' = Starting
    BY DEF Starting, TypeOK
<1>5. OneLoop'
    BY <1>4, WorkKeepsLoop
<1>6. Held'
    BY DEF Held, TypeOK, Mapped
<1>7. UsersCounted'
    <2> SUFFICES ASSUME NEW j \in Instance PROVE Cardinality(Users(j)') <= count'[j]
        BY DEF UsersCounted
    <2>1. Cardinality(Users(j)) <= count[j]
        BY DEF UsersCounted
    <2>2. count[j] \in Nat /\ count'[j] \in Nat
        BY <1>3, Counts DEF TypeOK
    <2>3. CASE j = i
        <3>1. Users(j)' = Users(j) \ {p}
            BY <1>1, <2>3 DEF Users, TypeOK
        <3>2. Cardinality(Users(j)') = Cardinality(Users(j)) - 1
            BY <1>1, <2>3, <3>1, Finite, FS_RemoveElement
        <3>3. count'[j] >= count[j] - 1
            BY <2>2, <2>3 DEF TypeOK
        <3> QED BY <2>1, <2>2, <3>2, <3>3, Finite
    <2>4. CASE j # i
        <3>1. Users(j)' = Users(j)
            BY <1>1, <2>4 DEF Users, TypeOK
        <3>2. count'[j] = count[j]
            BY <2>4 DEF TypeOK
        <3> QED BY <2>1, <3>1, <3>2
    <2> QED BY <2>3, <2>4
<1> QED BY <1>3, <1>5, <1>6, <1>7

LEMMA FinishesKeeps ==
    ASSUME ClientInv, NEW p \in Caller, Finishes(p)
    PROVE  ClientInv'
BY RequestEndsKeeps DEF Finishes

LEMMA RetriesKeeps ==
    ASSUME ClientInv, NEW p \in Caller, Retries(p)
    PROVE  ClientInv'
<1>1. target' = [target EXCEPT ![p] = target[p]]
    BY DEF Retries, ClientInv, TypeOK
<1> QED BY <1>1, RequestEndsKeeps DEF Retries

LEMMA ExpiresKeeps ==
    ASSUME ClientInv, NEW i \in Instance, Expires(i)
    PROVE  ClientInv'
<1> USE DEF Expires, ClientInv
<1>1. Cardinality(Users(i)) \in Nat /\ count[i] \in 0 .. MaxConns
    BY Finite DEF TypeOK
<1>2. TypeOK'
    BY <1>1 DEF TypeOK
<1>3. Starting' = Starting
    BY DEF Starting
<1>4. OneLoop'
    BY <1>3, WorkKeepsLoop
<1>5. Held'
    BY DEF Held, TypeOK, Mapped
<1>6. UsersCounted'
    <2> SUFFICES ASSUME NEW j \in Instance PROVE Cardinality(Users(j)') <= count'[j]
        BY DEF UsersCounted
    <2>1. Users(j)' = Users(j)
        BY DEF Users
    <2>2. Cardinality(Users(j)) <= count[j] /\ Cardinality(Users(j)) \in Nat
        BY Finite DEF UsersCounted
    <2>3. count'[j] = IF j = i THEN count[i] - 1 ELSE count[j]
        BY DEF TypeOK
    <2> QED BY <1>1, <2>1, <2>2, <2>3
<1> QED BY <1>2, <1>4, <1>5, <1>6

\* The steps of a cleaner concern no caller.
LEMMA CleaningKeepsUsers ==
    ASSUME ClientInv, UNCHANGED <<count, pc, target>>
    PROVE  UsersCounted' /\ Starting' = Starting
<1>1. \A i : Users(i)' = Users(i)
    BY DEF Users
<1>2. UsersCounted'
    BY <1>1, UsersKept, Counts DEF ClientInv, TypeOK
<1> QED BY <1>2 DEF Starting

LEMMA CleanerKeeps ==
    ASSUME ClientInv, NEW k \in Cleaner, CleanerStep(k)
    PROVE  ClientInv'
<1> USE DEF ClientInv
<1>1. CASE Locks(k)
    <2> USE <1>1 DEF Locks
    <2>1. TypeOK'
        BY DEF TypeOK, Mapped
    <2>2. Mapped' = Mapped /\ Loops' = Loops /\ k \in Loops
        BY DEF Mapped, Loops, TypeOK
    <2>3. Held'
        BY <2>2 DEF Held, TypeOK
    <2>4. OneLoop'
        <3>1. Cardinality(Loops) # 0
            BY <2>2, Finite, FS_EmptySet
        <3>2. Cardinality(Starting) + Cardinality(Loops) = 1
            BY <3>1, Finite, LoopSets
        <3>3. mu' # None /\ Starting' = Starting
            BY CleaningKeepsUsers
        <3> QED BY <2>2, <3>2, <3>3, LoopSets
    <2> QED BY <2>1, <2>3, <2>4, CleaningKeepsUsers
<1>2. ASSUME NEW h \in Host, Visits(k, h)
      PROVE  ClientInv'
    <2> USE <1>2 DEF Visits
    <2>1. TypeOK'
        BY DEF TypeOK
    <2>2. Mapped' = Mapped /\ Loops' = Loops
        BY DEF Mapped, Loops, TypeOK
    <2>3. Held'
        BY <2>2 DEF Held, TypeOK
    <2>4. OneLoop'
        BY <2>2, LoopSets, CleaningKeepsUsers
    <2> QED BY <2>1, <2>3, <2>4, CleaningKeepsUsers
<1>3. CASE Deletes(k)
    <2> USE <1>3 DEF Deletes
    <2>1. mu = k /\ victim \in Host
        BY DEF Held
    <2>2. TypeOK'
        BY DEF TypeOK
    <2>3. Loops' = Loops /\ Mapped' = Mapped \ {victim}
        BY <2>1 DEF Loops, Mapped, TypeOK
    <2>4. OneLoop'
        BY <2>1, <2>3, LoopSets, CleaningKeepsUsers
    <2>5. Held'
        BY <2>1, <2>3 DEF Held, TypeOK
    <2> QED BY <2>2, <2>4, <2>5, CleaningKeepsUsers
<1>4. CASE Unlocks(k)
    <2> USE <1>4 DEF Unlocks
    <2>1. mu = k /\ mu' = None /\ Mapped' = Mapped
        BY DEF Held, Mapped
    <2>2. TypeOK'
        BY DEF TypeOK
    <2>3. Held'
        BY <2>1 DEF Held, TypeOK
    <2>4. OneLoop'
        <3>1. Cardinality(Starting) + Cardinality(Loops) = 1 /\ k \in Loops
            BY <2>1, LoopSets DEF Loops
        <3>2. CASE Mapped = {}
            <4>1. Loops' = Loops \ {k}
                BY <3>2 DEF Loops, TypeOK
            <4>2. Cardinality(Loops') = Cardinality(Loops) - 1
                BY <3>1, <4>1, Finite, FS_RemoveElement
            <4> QED BY <2>1, <3>1, <3>2, <4>2, Finite, LoopSets, CleaningKeepsUsers
        <3>3. CASE Mapped # {}
            <4>1. Loops' = Loops
                BY <3>3 DEF Loops, TypeOK
            <4> QED BY <2>1, <3>1, <3>3, <4>1, LoopSets, CleaningKeepsUsers
        <3> QED BY <3>2, <3>3
    <2> QED BY <2>2, <2>3, <2>4, CleaningKeepsUsers
<1>5. CASE Wakes(k)
    <2> USE <1>5 DEF Wakes
    <2>1. TypeOK'
        BY DEF TypeOK
    <2>2. Mapped' = Mapped /\ Loops' = Loops
        BY DEF Mapped, Loops, TypeOK
    <2>3. Held'
        BY <2>2 DEF Held, TypeOK
    <2>4. OneLoop'
        BY <2>2, LoopSets, CleaningKeepsUsers
    <2> QED BY <2>1, <2>3, <2>4, CleaningKeepsUsers
<1> QED BY <1>1, <1>2, <1>3, <1>4, <1>5 DEF CleanerStep

LEMMA StepKeepsClient == ClientInv /\ [ClientNext]_vars => ClientInv'
<1> SUFFICES ASSUME ClientInv, [ClientNext]_vars PROVE ClientInv'
    OBVIOUS
<1>1. CASE UNCHANGED vars
    <2> USE <1>1 DEF vars
    <2>1. TypeOK' /\ Held'
        BY DEF ClientInv, TypeOK, Held, Mapped
    <2>2. UsersCounted' /\ Starting' = Starting
        BY CleaningKeepsUsers
    <2>3. OneLoop'
        BY <2>2, WorkKeepsLoop
    <2> QED BY <2>1, <2>2, <2>3 DEF ClientInv
<1>2. CASE ClientNext
    BY <1>2, LooksUpKeeps, CreatesKeeps, StartsCleanerKeeps, AcquiresKeeps, RefusedKeeps,
       FinishesKeeps, RetriesKeeps, ExpiresKeeps, CleanerKeeps DEF ClientNext, CallerStep
<1> QED BY <1>1, <1>2

LEMMA ClientInvariant == Spec => []ClientInv
BY InitClient, StepKeepsClient, PTL DEF Spec

\* No count goes below zero or beyond MaxConnsPerHost.
THEOREM ClientTypeCorrect == Spec => []TypeOK
BY ClientInvariant, PTL DEF ClientInv

\* Client.Do and cleanupIdleClients: startCleaner and stop, decided by different
\* goroutines under c.mu and acted upon without it, never leave the map without a
\* cleaner or with two.
THEOREM LoopIsOne == Spec => []OneLoop
BY ClientInvariant, PTL DEF ClientInv
=============================================================================
