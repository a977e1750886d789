-------------------------- MODULE HostClientProofs --------------------------
(***************************************************************************)
(* Proofs about HostClient: the count of places, the owners of             *)
(* connections, the cleaner, the answers of waiting callers and the        *)
(* refinement of ConnPool, for any number of callers and connections and   *)
(* any configuration.                                                      *)
(***************************************************************************)
EXTENDS HostClient, SequenceTheorems, FiniteSetTheorems, TLAPS

-----------------------------------------------------------------------------
(* The two stages of the queue are one queue.                              *)

LEMMA TwoStages ==
    ASSUME NEW S, NEW h, NEW m \in Nat, NEW n \in Nat, m <= n,
           \A i \in m + 1 .. n : h[i] \in S, NEW t \in Seq(S)
    PROVE  /\ SubSeq(h, m + 1, n) \o t \in Seq(S)
           /\ Len(SubSeq(h, m + 1, n) \o t) = n - m + Len(t)
           /\ \A i \in 1 .. n - m + Len(t) : (SubSeq(h, m + 1, n) \o t)[i] =
                 IF i <= n - m THEN h[m + i] ELSE t[i - (n - m)]
<1>1. PICK r : r = SubSeq(h, m + 1, n)
    OBVIOUS
<1>2. r \in Seq(S) /\ Len(r) = n - m /\ \A i \in 1 .. n - m : r[i] = h[m + i]
    BY <1>1
<1>3. /\ r \o t \in Seq(S) /\ Len(r \o t) = Len(r) + Len(t)
      /\ \A i \in 1 .. Len(r) + Len(t) : (r \o t)[i] =
            IF i <= Len(r) THEN r[i] ELSE t[i - Len(r)]
    BY <1>2, ConcatProperties
<1>4. Len(r) = n - m /\ Len(t) \in Nat
    BY <1>2
<1>5. \A i \in 1 .. n - m + Len(t) : (r \o t)[i] =
            IF i <= n - m THEN h[m + i] ELSE t[i - (n - m)]
    BY <1>2, <1>3, <1>4
<1> QED BY <1>1, <1>3, <1>4, <1>5

LEMMA ContentsOf ==
    ASSUME NEW S, NEW q \in Queues(S)
    PROVE  /\ Contents(q) \in Seq(S)
           /\ Len(Contents(q)) = queueLen(q)
           /\ queueLen(q) = Len(q.head) - q.headPos + Len(q.tail)
           /\ \A i \in 1 .. Len(Contents(q)) :
                 Contents(q)[i] = IF i <= Len(q.head) - q.headPos
                                    THEN q.head[q.headPos + i]
                                    ELSE q.tail[i - (Len(q.head) - q.headPos)]
<1>1. PICK h, m, n, t : h = q.head /\ m = q.headPos /\ n = Len(q.head) /\ t = q.tail
    OBVIOUS
<1>2. /\ h \in Seq(S \cup {None}) /\ m \in Nat /\ t \in Seq(S) /\ m <= n /\ n \in Nat
      /\ n = Len(h) /\ \A i \in 1 .. n : (h[i] = None) <=> i <= m
    BY <1>1 DEF Queues
<1>3. \A i \in m + 1 .. n : h[i] \in S
    BY <1>2, ElementOfSeq
<1>4. /\ SubSeq(h, m + 1, n) \o t \in Seq(S)
      /\ Len(SubSeq(h, m + 1, n) \o t) = n - m + Len(t)
      /\ \A i \in 1 .. n - m + Len(t) : (SubSeq(h, m + 1, n) \o t)[i] =
            IF i <= n - m THEN h[m + i] ELSE t[i - (n - m)]
    BY <1>2, <1>3, TwoStages
<1>5. Contents(q) = SubSeq(h, m + 1, n) \o t /\ queueLen(q) = n - m + Len(t)
    BY <1>1 DEF Contents, queueLen
<1> QED BY <1>1, <1>4, <1>5

LEMMA PushBack ==
    ASSUME NEW S, NEW q \in Queues(S), NEW w \in S
    PROVE  /\ pushBack(q, w) \in Queues(S)
           /\ Len(Contents(pushBack(q, w))) = Len(Contents(q)) + 1
           /\ \A i \in 1 .. Len(Contents(q)) : Contents(pushBack(q, w))[i] = Contents(q)[i]
           /\ Contents(pushBack(q, w))[Len(Contents(q)) + 1] = w
<1>1. PICK h, m, t, u : h = q.head /\ m = q.headPos /\ t = q.tail /\ u = Append(t, w)
    OBVIOUS
<1>2. h \in Seq(S \cup {None}) /\ m \in Nat /\ t \in Seq(S) /\ m <= Len(h)
    BY <1>1 DEF Queues
<1>3. /\ u \in Seq(S) /\ Len(u) = Len(t) + 1 /\ u[Len(t) + 1] = w
      /\ \A i \in 1 .. Len(t) : u[i] = t[i]
    BY <1>1, <1>2, AppendProperties
<1>4. PICK r : r = pushBack(q, w)
    OBVIOUS
<1>5. r.head = h /\ r.headPos = m /\ r.tail = u /\ r \in Queues(S)
    BY <1>1, <1>3, <1>4 DEF pushBack, Queues
<1>6. PICK k \in Nat : k = Len(h) - m
    BY <1>2
<1>7. PICK a, b : a = Contents(q) /\ b = Contents(r)
    OBVIOUS
<1>8. /\ Len(a) = k + Len(t)
      /\ \A i \in 1 .. Len(a) : a[i] = IF i <= k THEN h[m + i] ELSE t[i - k]
    BY <1>1, <1>6, <1>7, ContentsOf
<1>9. /\ Len(b) = k + Len(u)
      /\ \A i \in 1 .. Len(b) : b[i] = IF i <= k THEN h[m + i] ELSE u[i - k]
    BY <1>5, <1>6, <1>7, ContentsOf
<1>10. Len(t) \in Nat
    BY <1>2
<1>11. Len(b) = Len(a) + 1
    BY <1>3, <1>8, <1>9, <1>10
<1>12. \A i \in 1 .. Len(a) : b[i] = a[i]
    BY <1>3, <1>8, <1>9, <1>10, <1>11
<1>13. b[Len(a) + 1] = w
    BY <1>3, <1>8, <1>9, <1>10, <1>11
<1> QED BY <1>4, <1>5, <1>7, <1>11, <1>12, <1>13

LEMMA PopFront ==
    ASSUME NEW S, NEW q \in Queues(S), queueLen(q) > 0, None \notin S
    PROVE  /\ popFront(q) \in Queues(S)
           /\ Len(Contents(q)) >= 1
           /\ peekFront(q) = Contents(q)[1]
           /\ peekFront(q) \in S
           /\ Len(Contents(popFront(q))) = Len(Contents(q)) - 1
           /\ \A i \in 1 .. Len(Contents(q)) - 1 :
                 Contents(popFront(q))[i] = Contents(q)[i + 1]
\* The two stages before, and when the tail has become the head.
<1>1. PICK h, m, t : h = q.head /\ m = q.headPos /\ t = q.tail
    OBVIOUS
<1>2. /\ h \in Seq(S \cup {None}) /\ m \in Nat /\ t \in Seq(S)
      /\ m <= Len(h) /\ Len(h) \in Nat /\ Len(t) \in Nat
      /\ \A i \in 1 .. Len(h) : (h[i] = None) <=> i <= m
      /\ Len(h) - m + Len(t) > 0 /\ (Spent(q) <=> m = Len(h))
    BY <1>1 DEF Queues, queueLen, Spent
<1>3. PICK g, n, v : /\ g = IF Spent(q) THEN t ELSE h
                     /\ n = IF Spent(q) THEN 0 ELSE m
                     /\ v = IF Spent(q) THEN <<>> ELSE t
    OBVIOUS
<1>4. /\ g \in Seq(S \cup {None}) /\ n \in Nat /\ v \in Seq(S)
      /\ Len(g) \in Nat /\ n + 1 <= Len(g) /\ Len(v) = IF Spent(q) THEN 0 ELSE Len(t)
      /\ \A i \in 1 .. Len(g) : (g[i] = None) <=> i <= n
    <2>1. t \in Seq(S \cup {None}) /\ \A i \in 1 .. Len(t) : t[i] # None
        BY <1>2, SeqMonotonic, ElementOfSeq
    <2>2. v \in Seq(S) /\ Len(v) = IF Spent(q) THEN 0 ELSE Len(t)
        BY <1>2, <1>3, EmptySeq
    <2> QED BY <1>2, <1>3, <2>1, <2>2
<1>5. PICK e : e = [g EXCEPT ![n + 1] = None]
    OBVIOUS
<1>6. /\ e \in Seq(S \cup {None}) /\ Len(e) = Len(g)
      /\ \A i \in 1 .. Len(g) : e[i] = IF i = n + 1 THEN None ELSE g[i]
    BY <1>4, <1>5, ExceptSeq
<1>7. PICK r : r = popFront(q)
    OBVIOUS
<1>8. r = [head |-> e, headPos |-> n + 1, tail |-> v]
    BY <1>1, <1>3, <1>5, <1>7 DEF popFront
<1>9. r \in Queues(S)
    <2>1. \A i \in DOMAIN e : (e[i] = None) <=> i <= n + 1
        BY <1>4, <1>6
    <2> QED BY <1>4, <1>6, <1>8, <2>1 DEF Queues
<1>10. PICK a, b : a = Contents(q) /\ b = Contents(r)
    OBVIOUS
<1>11. /\ a \in Seq(S) /\ Len(a) = Len(h) - m + Len(t)
       /\ \A i \in 1 .. Len(a) : a[i] = IF i <= Len(h) - m THEN h[m + i] ELSE t[i - (Len(h) - m)]
    BY <1>1, <1>10, ContentsOf
<1>12. /\ Len(b) = Len(e) - (n + 1) + Len(v)
       /\ \A i \in 1 .. Len(b) :
             b[i] = IF i <= Len(e) - (n + 1) THEN e[(n + 1) + i] ELSE v[i - (Len(e) - (n + 1))]
    BY <1>8, <1>9, <1>10, ContentsOf
<1>13. Len(a) >= 1 /\ Len(b) = Len(a) - 1
    BY <1>2, <1>3, <1>4, <1>6, <1>11, <1>12
<1>14. \A i \in 1 .. Len(a) - 1 : b[i] = a[i + 1]
    <2> SUFFICES ASSUME NEW i \in 1 .. Len(a) - 1 PROVE b[i] = a[i + 1]
        OBVIOUS
    <2>1. i + 1 \in 1 .. Len(a) /\ i \in 1 .. Len(b)
        BY <1>2, <1>11, <1>13
    <2>2. a[i + 1] = IF i + 1 <= Len(h) - m THEN h[m + (i + 1)] ELSE t[(i + 1) - (Len(h) - m)]
        BY <1>11, <2>1
    <2>3. b[i] = IF i <= Len(e) - (n + 1) THEN e[(n + 1) + i] ELSE v[i - (Len(e) - (n + 1))]
        BY <1>12, <2>1
    <2>4. i <= Len(e) - (n + 1) => e[(n + 1) + i] = g[(n + 1) + i]
        <3>1. i <= Len(e) - (n + 1) => (n + 1) + i \in 1 .. Len(g) /\ (n + 1) + i # n + 1
            BY <1>4, <1>6
        <3> QED BY <1>6, <3>1
    <2>5. CASE Spent(q)
        <3>1. g = t /\ n = 0 /\ Len(h) - m = 0 /\ Len(e) = Len(t)
            BY <1>2, <1>3, <1>6, <2>5
        <3>2. i <= Len(t) - 1
            BY <1>2, <1>11, <3>1
        <3>3. b[i] = t[1 + i]
            BY <1>2, <2>3, <2>4, <3>1, <3>2
        <3> QED BY <2>2, <3>1, <3>3
    <2>6. CASE ~Spent(q)
        <3>1. g = h /\ n = m /\ v = t /\ Len(e) = Len(h)
            BY <1>3, <1>6, <2>6
        <3>2. (n + 1) + i = m + (i + 1) /\ Len(e) - (n + 1) = (Len(h) - m) - 1
            BY <1>2, <3>1
        <3>3. i <= Len(e) - (n + 1) <=> i + 1 <= Len(h) - m
            BY <1>2, <3>2
        <3>4. i - (Len(e) - (n + 1)) = (i + 1) - (Len(h) - m)
            BY <1>2, <3>2
        <3> QED BY <2>2, <2>3, <2>4, <3>1, <3>2, <3>3, <3>4
    <2> QED BY <2>5, <2>6
<1>15. peekFront(q) = a[1] /\ a[1] \in S
    <2>1. t # <<>> <=> Len(t) # 0
        BY <1>2, EmptySeq
    <2>2. peekFront(q) = IF ~Spent(q) THEN h[m + 1] ELSE IF t # <<>> THEN t[1] ELSE None
        BY <1>1 DEF peekFront
    <2>3. a[1] \in S
        BY <1>11, <1>13, ElementOfSeq
    <2> QED BY <1>2, <1>11, <1>13, <2>1, <2>2, <2>3
<1> QED BY <1>7, <1>9, <1>10, <1>13, <1>14, <1>15

LEMMA PeekFront ==
    ASSUME NEW S, NEW q \in Queues(S), peekFront(q) # None
    PROVE  queueLen(q) > 0
<1>1. /\ q.headPos \in Nat /\ q.tail \in Seq(S)
      /\ q.headPos <= Len(q.head) /\ Len(q.head) \in Nat /\ Len(q.tail) \in Nat
    BY DEF Queues
<1>2. q.tail # <<>> => Len(q.tail) > 0
    BY <1>1, EmptySeq
<1> QED BY <1>1, <1>2 DEF peekFront, Spent, queueLen

-----------------------------------------------------------------------------
(* Sequences as sets.                                                      *)

In(s, x) == \E i \in 1 .. Len(s) : s[i] = x

NoDup(s) == \A i, j \in 1 .. Len(s) : s[i] = s[j] => i = j

LEMMA EmptySequence == NoDup(<<>>) /\ \A x : ~In(<<>>, x)
BY DEF NoDup, In

LEMMA Appended ==
    ASSUME NEW S, NEW s \in Seq(S), NEW x \in S, ~In(s, x), NoDup(s)
    PROVE  /\ Append(s, x) \in Seq(S) /\ Len(Append(s, x)) = Len(s) + 1
           /\ NoDup(Append(s, x))
           /\ \A y : In(Append(s, x), y) <=> In(s, y) \/ y = x
<1>1. PICK t : t = Append(s, x)
    OBVIOUS
<1>2. /\ t \in Seq(S) /\ Len(t) = Len(s) + 1 /\ t[Len(s) + 1] = x /\ Len(s) \in Nat
      /\ \A i \in 1 .. Len(s) : t[i] = s[i]
    BY <1>1, AppendProperties
<1>3. NoDup(t)
    BY <1>2 DEF NoDup, In
<1>4. ASSUME NEW y PROVE In(t, y) <=> In(s, y) \/ y = x
    BY <1>2 DEF In
<1> QED BY <1>1, <1>2, <1>3, <1>4

\* A sequence cut in two.
LEMMA Cut ==
    ASSUME NEW S, NEW s \in Seq(S), NoDup(s), NEW k \in 0 .. Len(s)
    PROVE  /\ SubSeq(s, 1, k) \in Seq(S) /\ SubSeq(s, k + 1, Len(s)) \in Seq(S)
           /\ Len(SubSeq(s, 1, k)) = k /\ Len(SubSeq(s, k + 1, Len(s))) = Len(s) - k
           /\ NoDup(SubSeq(s, 1, k)) /\ NoDup(SubSeq(s, k + 1, Len(s)))
           /\ \A x : In(s, x) <=> In(SubSeq(s, 1, k), x) \/ In(SubSeq(s, k + 1, Len(s)), x)
           /\ \A x : ~(In(SubSeq(s, 1, k), x) /\ In(SubSeq(s, k + 1, Len(s)), x))
<1>1. PICK a, b, n : a = SubSeq(s, 1, k) /\ b = SubSeq(s, k + 1, n) /\ n = Len(s)
    OBVIOUS
<1>2. n \in Nat /\ k \in Nat /\ k <= n
    BY <1>1
<1>3. /\ a \in Seq(S) /\ Len(a) = k
      /\ \A i \in 1 .. k : a[i] = s[i]
    BY <1>1, <1>2
<1>4. /\ b \in Seq(S) /\ Len(b) = n - k
      /\ \A i \in 1 .. n - k : b[i] = s[k + i]
    BY <1>1, <1>2
<1>5. NoDup(a) /\ NoDup(b)
    <2>1. NoDup(a)
        BY <1>1, <1>2, <1>3 DEF NoDup
    <2>2. ASSUME NEW i \in 1 .. n - k, NEW j \in 1 .. n - k, b[i] = b[j] PROVE i = j
        <3>1. k + i \in 1 .. n /\ k + j \in 1 .. n /\ s[k + i] = s[k + j]
            BY <1>2, <1>4, <2>2
        <3>2. k + i = k + j
            BY <1>1, <3>1 DEF NoDup
        <3> QED BY <1>2, <3>2
    <2> QED BY <1>4, <2>1, <2>2 DEF NoDup
<1>6. ASSUME NEW x PROVE In(s, x) <=> In(a, x) \/ In(b, x)
    <2>1. ASSUME NEW i \in 1 .. n, s[i] = x PROVE In(a, x) \/ In(b, x)
        <3>1. CASE i <= k
            BY <1>2, <1>3, <2>1, <3>1 DEF In
        <3>2. CASE i > k
            <4>1. i - k \in 1 .. Len(b) /\ b[i - k] = s[k + (i - k)] /\ k + (i - k) = i
                BY <1>2, <1>4, <3>2
            <4> QED BY <2>1, <4>1 DEF In
        <3> QED BY <1>2, <3>1, <3>2
    <2>2. In(a, x) => In(s, x)
        BY <1>1, <1>2, <1>3 DEF In
    <2>3. In(b, x) => In(s, x)
        BY <1>1, <1>2, <1>4 DEF In
    <2> QED BY <1>1, <2>1, <2>2, <2>3 DEF In
<1>7. ASSUME NEW x, In(a, x), In(b, x) PROVE FALSE
    <2>1. PICK i \in 1 .. k, j \in 1 .. n - k : s[i] = x /\ s[k + j] = x
        BY <1>3, <1>4, <1>7 DEF In
    <2>2. i = k + j
        BY <1>1, <1>2, <2>1 DEF NoDup
    <2> QED BY <1>2, <2>2
<1> QED BY <1>1, <1>3, <1>4, <1>5, <1>6, <1>7

\* A sequence without its last or its first element.
LEMMA LastTaken ==
    ASSUME NEW S, NEW s \in Seq(S), NoDup(s), s # <<>>
    PROVE  /\ s[Len(s)] \in S /\ In(s, s[Len(s)])
           /\ SubSeq(s, 1, Len(s) - 1) \in Seq(S)
           /\ Len(SubSeq(s, 1, Len(s) - 1)) = Len(s) - 1
           /\ NoDup(SubSeq(s, 1, Len(s) - 1))
           /\ \A x : In(SubSeq(s, 1, Len(s) - 1), x) <=> In(s, x) /\ x # s[Len(s)]
<1>1. PICK n, a : n = Len(s) /\ a = SubSeq(s, 1, n - 1)
    OBVIOUS
<1>2. n \in Nat /\ n >= 1
    BY <1>1, EmptySeq
<1>3. /\ a \in Seq(S) /\ Len(a) = n - 1 /\ s[n] \in S
      /\ \A i \in 1 .. n - 1 : a[i] = s[i]
    BY <1>1, <1>2
<1>4. NoDup(a) /\ In(s, s[n])
    BY <1>1, <1>2, <1>3 DEF NoDup, In
<1>5. ASSUME NEW x PROVE In(a, x) <=> In(s, x) /\ x # s[n]
    BY <1>1, <1>2, <1>3 DEF NoDup, In
<1> QED BY <1>1, <1>3, <1>4, <1>5

LEMMA FirstTaken ==
    ASSUME NEW S, NEW s \in Seq(S), NoDup(s), s # <<>>
    PROVE  /\ Head(s) \in S /\ In(s, Head(s))
           /\ Tail(s) \in Seq(S) /\ Len(Tail(s)) = Len(s) - 1
           /\ NoDup(Tail(s))
           /\ \A x : In(Tail(s), x) <=> In(s, x) /\ x # Head(s)
<1>1. PICK n, a, e : n = Len(s) /\ a = Tail(s) /\ e = Head(s)
    OBVIOUS
<1>2. n \in Nat /\ n >= 1
    BY <1>1, EmptySeq
<1>3. /\ a \in Seq(S) /\ Len(a) = n - 1 /\ e \in S /\ e = s[1]
      /\ \A i \in 1 .. n - 1 : a[i] = s[i + 1]
    BY <1>1, <1>2, HeadTailProperties
<1>4. NoDup(a) /\ In(s, e)
    BY <1>1, <1>2, <1>3 DEF NoDup, In
<1>5. ASSUME NEW x PROVE In(a, x) <=> In(s, x) /\ x # e
    <2>1. ASSUME NEW i \in 1 .. n, s[i] = x, x # e PROVE In(a, x)
        <3>1. i - 1 \in 1 .. n - 1 /\ a[i - 1] = s[(i - 1) + 1] /\ (i - 1) + 1 = i
            BY <1>2, <1>3, <2>1
        <3> QED BY <1>3, <2>1, <3>1 DEF In
    <2>2. ASSUME In(a, x) PROVE In(s, x) /\ x # e
        BY <1>1, <1>2, <1>3, <2>2 DEF NoDup, In
    <2> QED BY <1>1, <2>1, <2>2 DEF In
<1> QED BY <1>1, <1>3, <1>4, <1>5

\* The queue of a HostClient.
InQueue(w) == In(Contents(queue), w)

LEMMA Pushed ==
    ASSUME queue \in Queues(Waiter), NEW w \in Waiter, queue' = pushBack(queue, w),
           NoDup(Contents(queue)), ~InQueue(w)
    PROVE  /\ queue' \in Queues(Waiter) /\ NoDup(Contents(queue'))
           /\ \A v : InQueue(v)' <=> InQueue(v) \/ v = w
<1>1. PICK a, b : a = Contents(queue) /\ b = Contents(queue')
    OBVIOUS
<1>2. /\ queue' \in Queues(Waiter) /\ Len(b) = Len(a) + 1 /\ b[Len(a) + 1] = w
      /\ \A i \in 1 .. Len(a) : b[i] = a[i]
    BY <1>1, PushBack
<1>3. Len(a) \in Nat
    BY <1>1, ContentsOf, LenProperties
<1>4. NoDup(a) /\ ~In(a, w)
    BY <1>1 DEF InQueue
<1>5. NoDup(b)
    BY <1>2, <1>3, <1>4 DEF NoDup, In
<1>6. ASSUME NEW v PROVE In(b, v) <=> In(a, v) \/ v = w
    BY <1>2, <1>3 DEF In
<1> QED BY <1>1, <1>2, <1>5, <1>6 DEF InQueue

LEMMA Popped ==
    ASSUME queue \in Queues(Waiter), queueLen(queue) > 0, queue' = popFront(queue),
           NoDup(Contents(queue)), None \notin Waiter
    PROVE  /\ queue' \in Queues(Waiter) /\ NoDup(Contents(queue'))
           /\ Front \in Waiter /\ InQueue(Front)
           /\ \A v : InQueue(v)' <=> InQueue(v) /\ v # Front
<1>1. PICK a, b, f : a = Contents(queue) /\ b = Contents(queue') /\ f = Front
    OBVIOUS
<1>2. /\ queue' \in Queues(Waiter) /\ Len(a) >= 1 /\ f = a[1] /\ f \in Waiter
      /\ Len(b) = Len(a) - 1 /\ \A i \in 1 .. Len(a) - 1 : b[i] = a[i + 1]
    BY <1>1, PopFront DEF Front
<1>3. Len(a) \in Nat /\ NoDup(a)
    BY <1>1, ContentsOf, LenProperties
<1>4. NoDup(b) /\ In(a, f)
    BY <1>2, <1>3 DEF NoDup, In
<1>5. ASSUME NEW x PROVE In(b, x) <=> In(a, x) /\ x # f
    <2>1. ASSUME NEW i \in 1 .. Len(a), a[i] = x, x # f PROVE In(b, x)
        <3>1. i - 1 \in 1 .. Len(b) /\ b[i - 1] = a[(i - 1) + 1] /\ (i - 1) + 1 = i
            BY <1>2, <1>3, <2>1
        <3> QED BY <2>1, <3>1 DEF In
    <2>2. ASSUME In(b, x) PROVE In(a, x) /\ x # f
        <3>1. PICK i \in 1 .. Len(a) - 1 : a[i + 1] = x
            BY <1>2, <2>2 DEF In
        <3>2. i + 1 \in 1 .. Len(a) /\ i + 1 # 1
            BY <1>3
        <3> QED BY <1>2, <1>3, <3>1, <3>2 DEF In, NoDup
    <2> QED BY <2>1, <2>2 DEF In
<1> QED BY <1>1, <1>2, <1>4, <1>5 DEF InQueue

LEMMA FrontQueued ==
    ASSUME queue \in Queues(Waiter), Front # None
    PROVE  queueLen(queue) > 0
BY PeekFront DEF Front

-----------------------------------------------------------------------------
(* The inductive invariant.                                                *)

USE HostAssumption

\* Which points a process gets to, and where it has a connection.
Points ==
    /\ \A p \in Caller : pc[p] \notin {"scanning", "destroying", "stopping"}
    /\ \A w \in Waiter : pc[w] \in {"idle", "dialing", "recycling", "delivering", "discarding"}
    /\ pc[Cleaner] \in {"idle", "scanning", "destroying", "discarding", "closing", "stopping"}
    /\ \A p \in Process :
        /\ pc[p] \in {"using", "recycling", "delivering", "closing"} => hold[p] # None
        /\ hold[p] # None =>
              pc[p] \in {"using", "recycling", "delivering", "closing", "discarding"}
    /\ \A w \in Waiter : pc[w] = "discarding" => hold[w] = None
    /\ pc[Cleaner] = "discarding" => hold[Cleaner] # None
    /\ pc[Cleaner] \in {"idle", "scanning", "stopping"} => scratch = <<>>

\* A waitingCaller belongs to the one caller that made it; one that is queued,
\* dialed for or about to be delivered to is answered unless its caller waits.
QueuedIdle ==
    /\ NoDup(Contents(queue))
    /\ \A w \in Waiter : InQueue(w) => pc[w] = "idle"

WaitsTyped ==
    \A p \in Process : wait[p] \in Waiter <=> pc[p] \in {"enqueue", "waiting", "delivering"}

OwnWaiter ==
    \A p, q \in Process :
        (/\ pc[p] \in {"enqueue", "waiting"} /\ pc[q] \in {"enqueue", "waiting"}
         /\ wait[p] = wait[q]) => p = q

NotQueuedYet ==
    \A p \in Process : pc[p] = "enqueue" =>
        /\ waiter[wait[p]] = NewWaiter /\ pc[wait[p]] = "idle" /\ ~InQueue(wait[p])
        /\ \A q \in Process : wait[q] = wait[p] => q = p

Awaited ==
    /\ \A w \in Waiter :
        (/\ ~Answered(w)
         /\ InQueue(w) \/ pc[w] = "dialing" \/ \E q \in Process : pc[q] = "delivering" /\ wait[q] = w)
        => \E p \in Caller : pc[p] = "waiting" /\ wait[p] = w
    /\ \A w \in Waiter : waiter[w].conn # None =>
        Answered(w) /\ \E p \in Caller : pc[p] = "waiting" /\ wait[p] = w

Waits == QueuedIdle /\ WaitsTyped /\ OwnWaiter /\ NotQueuedYet /\ Awaited

\* Every open connection is in one place.
IdleApart ==
    /\ NoDup(conns) /\ NoDup(scratch)
    /\ \A c \in Conn : In(conns, c) \/ In(scratch, c) => c \in open
    /\ \A c \in Conn : ~(In(conns, c) /\ In(scratch, c))

HeldApart ==
    /\ \A p \in Process : hold[p] # None =>
        hold[p] \in open /\ ~In(conns, hold[p]) /\ ~In(scratch, hold[p])
    /\ \A p, q \in Process : hold[p] = hold[q] /\ hold[p] # None => p = q

HandedApart ==
    /\ \A w \in Waiter : waiter[w].conn # None =>
        /\ waiter[w].conn \in open /\ ~In(conns, waiter[w].conn) /\ ~In(scratch, waiter[w].conn)
        /\ \A p \in Process : hold[p] # waiter[w].conn
    /\ \A v, w \in Waiter : waiter[v].conn = waiter[w].conn /\ waiter[v].conn # None => v = w

AllOwned ==
    \A c \in open : \/ In(conns, c) \/ In(scratch, c)
                    \/ \E p \in Process : hold[p] = c
                    \/ \E w \in Waiter : waiter[w].conn = c

Owned == IdleApart /\ HeldApart /\ HandedApart /\ AllOwned

HostInv ==
    /\ TypeOK /\ Points /\ Waits /\ Owned /\ ReadyClosedOnce
    /\ CountIsExact /\ CountWithinMax /\ OneCleaner

Starting == {p \in Caller : At(p, "starting")}

LEMMA Processes ==
    /\ Caller \subseteq Process /\ Waiter \subseteq Process /\ Cleaner \in Process
    /\ None \notin Waiter /\ None \notin Conn
    /\ \A p \in Process : p \in Caller \/ p \in Waiter \/ p = Cleaner
BY DEF Process

LEMMA FinitePlaced ==
    /\ IsFiniteSet(Placed) /\ Cardinality(Placed) \in Nat
    /\ IsFiniteSet(Starting) /\ Cardinality(Starting) \in Nat
<1>1. Placed \subseteq Process /\ Starting \subseteq Process
    BY DEF Placed, Starting, Process
<1> QED BY <1>1, FS_Subset, FS_CardinalityType

LEMMA Lengths == TypeOK => Len(conns) \in Nat /\ Len(scratch) \in Nat /\ count \in Nat
BY LenProperties DEF TypeOK

\* The two invariants that count.
LEMMA Counted ==
    /\ OneCleaner <=> Cardinality(Starting) + (IF pc[Cleaner] = "idle" THEN 0 ELSE 1)
                         = IF cleanerRunning THEN 1 ELSE 0
    /\ OneCleaner' <=> Cardinality(Starting') + (IF pc'[Cleaner] = "idle" THEN 0 ELSE 1)
                          = IF cleanerRunning' THEN 1 ELSE 0
BY DEF OneCleaner, Starting, At

LEMMA InitHost == HostInit => HostInv
<1> SUFFICES ASSUME HostInit PROVE HostInv
    OBVIOUS
<1> USE Processes DEF HostInit
<1>1. queue \in Queues(Waiter) /\ Contents(queue) = <<>>
    BY DEF EmptyQueue, Queues, Contents
<1>2. TypeOK
    <2>1. conns \in Seq(Conn) /\ scratch \in Seq(Conn) /\ count \in Nat
        BY EmptySeq
    <2>2. waiter \in [Waiter -> [conn : Conn \cup {None}, answered : BOOLEAN, closes : Nat]]
        BY DEF NewWaiter
    <2>3. /\ pc \in [Process -> Labels] /\ hold \in [Process -> Conn \cup {None}]
          /\ wait \in [Process -> Waiter \cup {None}]
          /\ err \in [Caller -> {"none", "eof", "other"}]
        BY DEF Labels
    <2> QED BY <1>1, <2>1, <2>2, <2>3 DEF TypeOK
<1>3. Points
    BY DEF Points
<1>4. NoDup(Contents(queue)) /\ \A w : ~InQueue(w)
    BY <1>1, EmptySequence DEF InQueue
<1>5. Waits
    BY <1>4 DEF Waits, QueuedIdle, WaitsTyped, OwnWaiter, NotQueuedYet, Awaited, NewWaiter
<1>6. Owned
    BY EmptySequence DEF Owned, IdleApart, HeldApart, HandedApart, AllOwned, NewWaiter
<1>7. ReadyClosedOnce
    BY DEF ReadyClosedOnce, Answered, NewWaiter
<1>8. Placed = {} /\ Starting = {}
    BY DEF Placed, Starting, Delivered, At
<1>9. CountIsExact /\ CountWithinMax
    BY <1>8, FS_EmptySet DEF CountIsExact, CountWithinMax
<1>10. OneCleaner
    BY <1>8, FS_EmptySet, Counted
<1> QED BY <1>2, <1>3, <1>5, <1>6, <1>7, <1>9, <1>10 DEF HostInv

\* Steps that concern neither the queue nor what callers wait for.
LEMMA WaitsAside ==
    ASSUME Waits, UNCHANGED <<queue, wait, waiter>>,
           \A p \in Process :
              \/ pc'[p] = pc[p]
              \/ /\ pc[p] \notin {"enqueue", "waiting", "delivering"}
                 /\ pc'[p] \notin {"enqueue", "waiting", "delivering"}
                 /\ p \in Waiter => pc[p] # "idle" /\ pc'[p] # "dialing"
    PROVE  Waits'
<1> USE Processes DEF Answered, InQueue
<1>1. /\ NoDup(Contents(queue))'
      /\ \A w \in Waiter : InQueue(w)' => pc'[w] = "idle"
      /\ \A p \in Process :
            wait'[p] \in Waiter <=> pc'[p] \in {"enqueue", "waiting", "delivering"}
    BY DEF Waits, QueuedIdle, WaitsTyped, OwnWaiter, NotQueuedYet, Awaited
<1>2. \A p, q \in Process :
        (/\ pc'[p] \in {"enqueue", "waiting"} /\ pc'[q] \in {"enqueue", "waiting"}
         /\ wait'[p] = wait'[q]) => p = q
    BY DEF Waits, QueuedIdle, WaitsTyped, OwnWaiter, NotQueuedYet, Awaited
<1>3. \A p \in Process : pc'[p] = "enqueue" =>
        /\ waiter'[wait'[p]] = NewWaiter /\ pc'[wait'[p]] = "idle" /\ ~InQueue(wait[p])'
        /\ \A q \in Process : wait'[q] = wait'[p] => q = p
    BY DEF Waits, QueuedIdle, WaitsTyped, OwnWaiter, NotQueuedYet, Awaited
<1>4. \A w \in Waiter :
        (/\ ~Answered(w)'
         /\ InQueue(w)' \/ pc'[w] = "dialing" \/ \E q \in Process : pc'[q] = "delivering" /\ wait'[q] = w)
        => \E p \in Caller : pc'[p] = "waiting" /\ wait'[p] = w
    BY DEF Waits, QueuedIdle, WaitsTyped, OwnWaiter, NotQueuedYet, Awaited
<1>5. \A w \in Waiter : waiter'[w].conn # None =>
        Answered(w)' /\ \E p \in Caller : pc'[p] = "waiting" /\ wait'[p] = w
    BY DEF Waits, QueuedIdle, WaitsTyped, OwnWaiter, NotQueuedYet, Awaited
<1> QED BY <1>1, <1>2, <1>3, <1>4, <1>5
  DEF Waits, QueuedIdle, WaitsTyped, OwnWaiter, NotQueuedYet, Awaited

\* Steps that move no connection.
LEMMA OwnedAside ==
    ASSUME Owned, UNCHANGED <<conns, scratch, open, hold>>,
           \A w \in Waiter : waiter'[w].conn = waiter[w].conn
    PROVE  Owned'
BY DEF Owned, IdleApart, HeldApart, HandedApart, AllOwned

-----------------------------------------------------------------------------
(* tryDeliver and cancel.                                                  *)

\* tryDeliver answers a waitingCaller that waits and leaves any other alone.
LEMMA Delivers ==
    ASSUME TypeOK, ReadyClosedOnce, NEW w \in Waiter, NEW c, tryDeliver(w, c)
    PROVE  /\ ~waiter[w].answered =>
                waiter' = [waiter EXCEPT ![w] = [conn |-> c, answered |-> TRUE, closes |-> 1]]
           /\ waiter[w].answered => waiter' = waiter
<1>1. waiter[w].closes = IF waiter[w].answered THEN 1 ELSE 0
    BY DEF ReadyClosedOnce, Answered
<1>2. CASE ~waiter[w].answered
    BY <1>1, <1>2 DEF tryDeliver, Answered, TypeOK
<1>3. CASE waiter[w].answered
    BY <1>3 DEF tryDeliver, Answered, TypeOK
<1> QED BY <1>2, <1>3

\* cancel answers a waitingCaller, and closes ready if nobody has.
LEMMA Cancels ==
    ASSUME TypeOK, ReadyClosedOnce, NEW w \in Waiter, cancel(w)
    PROVE  waiter' = [waiter EXCEPT ![w] = [conn |-> None, answered |-> TRUE, closes |-> 1]]
<1>1. waiter[w].closes = IF waiter[w].answered THEN 1 ELSE 0
    BY DEF ReadyClosedOnce, Answered
<1>2. (IF waiter[w].answered THEN waiter[w].closes ELSE waiter[w].closes + 1) = 1
    BY <1>1
<1> QED BY <1>2 DEF cancel, Answered

\* One that was answered with an error stays as it is.
LEMMA CancelsAnswered ==
    ASSUME TypeOK, NEW w \in Waiter, cancel(w), waiter[w].answered, waiter[w].conn = None
    PROVE  waiter' = [waiter EXCEPT ![w].conn = None]
<1>1. waiter[w] \in [conn : Conn \cup {None}, answered : BOOLEAN, closes : Nat]
    BY DEF TypeOK
<1>2. [conn |-> None, answered |-> TRUE, closes |-> waiter[w].closes]
        = [waiter[w] EXCEPT !.conn = None]
    BY <1>1
<1> QED BY <1>2 DEF cancel, Answered

-----------------------------------------------------------------------------
(* Acquiring a connection.                                                 *)

LEMMA DoKeeps ==
    ASSUME HostInv, NEW p \in Caller, Do(p)
    PROVE  HostInv'
<1> USE Processes DEF HostInv, Do, At, Answered, Waiting
<1>1. TypeOK'
    BY DEF TypeOK, Labels
<1>2. Points'
    BY DEF Points, TypeOK
<1>3. Waits'
    BY WaitsAside DEF TypeOK, Points
<1>4. Owned'
    BY OwnedAside DEF TypeOK, Points
<1>5. ReadyClosedOnce'
    BY DEF ReadyClosedOnce, TypeOK
<1>6. Placed' = Placed
    BY DEF Placed, Delivered, TypeOK, Waits, WaitsTyped, Points
<1>7. CountIsExact'
    BY <1>6, Lengths, FinitePlaced DEF CountIsExact
<1>8. CountWithinMax'
    BY DEF CountWithinMax, TypeOK
<1>9. Starting' = Starting
    BY DEF Starting, TypeOK
<1>10. OneCleaner'
    BY <1>9, Counted DEF TypeOK, Points
<1> QED BY <1>1, <1>2, <1>3, <1>4, <1>5, <1>7, <1>8, <1>10

LEMMA TakeIdleKeeps ==
    ASSUME HostInv, NEW p \in Caller, TakeIdle(p)
    PROVE  HostInv'
<1> USE Processes DEF HostInv, TakeIdle, At, Answered, Waiting
<1>a. NoDup(conns) /\ conns \in Seq(Conn) /\ conns # <<>>
    BY DEF TypeOK, Owned, IdleApart
<1>b. PICK c : c = conns[Len(conns)]
    OBVIOUS
<1>c. /\ c \in Conn /\ In(conns, c) /\ conns' \in Seq(Conn) /\ Len(conns') = Len(conns) - 1
      /\ NoDup(conns') /\ \A x : In(conns', x) <=> In(conns, x) /\ x # c
    BY <1>a, <1>b, LastTaken
<1>0. /\ c \in Conn /\ In(conns, c) /\ conns' \in Seq(Conn) /\ Len(conns') = Len(conns) - 1
      /\ NoDup(conns') /\ \A x : In(conns', x) <=> In(conns, x) /\ x # c
      /\ pc[p] = "acquire" /\ pc' = [pc EXCEPT ![p] = "using"]
      /\ hold' = [hold EXCEPT ![p] = c]
      /\ UNCHANGED <<config, count, queue, cleanerRunning, mu, waiter, open, wait, scratch, err>>
    BY <1>b, <1>c
<1> HIDE DEF TakeIdle
<1>1. TypeOK'
    BY <1>0 DEF TypeOK, Labels
<1>2. Points'
    BY <1>0 DEF Points, TypeOK
<1>3. Waits'
    BY <1>0, WaitsAside DEF TypeOK, Points
<1>4. Owned'
    <2>1. IdleApart'
        BY <1>0 DEF Owned, IdleApart, HeldApart, HandedApart, AllOwned, TypeOK, Points
    <2>2. HeldApart'
        BY <1>0 DEF Owned, IdleApart, HeldApart, HandedApart, AllOwned, TypeOK, Points
    <2>3. HandedApart'
        BY <1>0 DEF Owned, IdleApart, HeldApart, HandedApart, AllOwned, TypeOK, Points
    <2>4. AllOwned'
        <3> SUFFICES ASSUME NEW d \in open'
                     PROVE  \/ In(conns', d) \/ In(scratch', d)
                            \/ \E q \in Process : hold'[q] = d
                            \/ \E w \in Waiter : waiter'[w].conn = d
            BY DEF AllOwned
        <3>1. CASE d = c
            BY <1>0, <3>1 DEF Owned, IdleApart, HeldApart, HandedApart, AllOwned, TypeOK, Points
        <3>2. CASE d # c
            <4>1. d \in open /\ \A q \in Process : hold[q] = d => hold'[q] = d
                BY <1>0, <3>2 DEF TypeOK, Points
            <4>2. \A w \in Waiter : waiter[w].conn = d => waiter'[w].conn = d
                BY <1>0, <3>2 DEF Owned, IdleApart, HeldApart, HandedApart, AllOwned, TypeOK, Points
            <4>3. (In(conns, d) \/ In(scratch, d)) => (In(conns', d) \/ In(scratch', d))
                BY <1>0, <3>2 DEF Owned, IdleApart, HeldApart, HandedApart, AllOwned, TypeOK, Points
            <4> QED BY <4>1, <4>2, <4>3 DEF Owned, AllOwned
        <3> QED BY <3>1, <3>2
    <2> QED BY <2>1, <2>2, <2>3, <2>4 DEF Owned
<1>5. ReadyClosedOnce'
    BY <1>0 DEF ReadyClosedOnce, TypeOK
<1>6. Placed' = Placed \cup {p} /\ p \notin Placed
    BY <1>0 DEF Placed, Delivered, TypeOK, Waits, WaitsTyped, Points
<1>7. CountIsExact'
    <2>1. Cardinality(Placed') = Cardinality(Placed) + 1
        BY <1>6, FinitePlaced, FS_AddElement
    <2> QED BY <1>0, <2>1, FinitePlaced, Lengths DEF CountIsExact
<1>8. CountWithinMax'
    BY <1>0 DEF CountWithinMax, TypeOK
<1>9. Starting' = Starting
    BY <1>0 DEF Starting, TypeOK
<1>10. OneCleaner'
    BY <1>0, <1>9, Counted DEF TypeOK, Points
<1> QED BY <1>1, <1>2, <1>3, <1>4, <1>5, <1>7, <1>8, <1>10

LEMMA CreateConnKeeps ==
    ASSUME HostInv, NEW p \in Caller, CreateConn(p)
    PROVE  HostInv'
<1> USE Processes DEF HostInv, CreateConn, At, Answered, Waiting
<1>1. TypeOK'
    BY DEF TypeOK, Labels
<1>2. Points'
    BY DEF Points, TypeOK
<1>3. Waits'
    BY WaitsAside DEF TypeOK, Points
<1>4. Owned'
    BY OwnedAside DEF TypeOK, Points
<1>5. ReadyClosedOnce'
    BY DEF ReadyClosedOnce, TypeOK
<1>6. Placed' = Placed \cup {p} /\ p \notin Placed
    BY DEF Placed, Delivered, TypeOK, Waits, WaitsTyped, Points
<1>7. CountIsExact'
    <2>1. Cardinality(Placed') = Cardinality(Placed) + 1
        BY <1>6, FinitePlaced, FS_AddElement
    <2> QED BY <2>1, FinitePlaced, Lengths DEF CountIsExact
<1>8. CountWithinMax'
    BY Lengths DEF CountWithinMax, TypeOK
<1>9. OneCleaner'
    <2>1. CASE cleanerRunning
        <3>1. Starting' = Starting
            BY <2>1 DEF Starting, TypeOK
        <3> QED BY <2>1, <3>1, Counted DEF TypeOK, Points
    <2>2. CASE ~cleanerRunning
        <3>1. Starting' = Starting \cup {p} /\ p \notin Starting
            BY <2>2 DEF Starting, TypeOK
        <3>2. Cardinality(Starting') = Cardinality(Starting) + 1
            BY <3>1, FinitePlaced, FS_AddElement
        <3>3. pc'[Cleaner] = pc[Cleaner]
            BY DEF TypeOK
        <3> QED BY <2>2, <3>2, <3>3, FinitePlaced, Counted
    <2> QED BY <2>1, <2>2 DEF TypeOK
<1> QED BY <1>1, <1>2, <1>3, <1>4, <1>5, <1>7, <1>8, <1>9

LEMMA StartCleanerKeeps ==
    ASSUME HostInv, NEW p \in Caller, StartCleaner(p)
    PROVE  HostInv'
<1> USE Processes DEF HostInv, StartCleaner, At, Answered, Waiting
<1>0. pc[Cleaner] = "idle" /\ Starting # {} /\ Cardinality(Starting) # 0 /\ p # Cleaner
    <2>1. p \in Starting
        BY DEF Starting
    <2>2. Cardinality(Starting) # 0
        BY <2>1, FinitePlaced, FS_EmptySet
    <2> QED BY <2>1, <2>2, FinitePlaced, Counted DEF TypeOK
<1>1. TypeOK'
    BY <1>0 DEF TypeOK, Labels
<1>2. Points'
    BY <1>0 DEF Points, TypeOK
<1>3. Waits'
    BY <1>0, WaitsAside DEF TypeOK, Points
<1>4. Owned'
    BY <1>0, OwnedAside DEF TypeOK, Points
<1>5. ReadyClosedOnce'
    BY <1>0 DEF ReadyClosedOnce, TypeOK
<1>6. Placed' = Placed
    BY <1>0 DEF Placed, Delivered, TypeOK, Waits, WaitsTyped, Points
<1>7. CountIsExact'
    BY <1>0, <1>6, Lengths, FinitePlaced DEF CountIsExact
<1>8. CountWithinMax'
    BY <1>0 DEF CountWithinMax, TypeOK
<1>9. OneCleaner'
    <2>1. Starting' = Starting \ {p} /\ p \in Starting /\ pc'[Cleaner] # "idle"
        BY <1>0 DEF Starting, TypeOK
    <2>2. Cardinality(Starting') = Cardinality(Starting) - 1
        BY <2>1, FinitePlaced, FS_RemoveElement
    <2> QED BY <1>0, <2>1, <2>2, FinitePlaced, Counted DEF TypeOK
<1> QED BY <1>1, <1>2, <1>3, <1>4, <1>5, <1>7, <1>8, <1>9

LEMMA DialSucceedsKeeps ==
    ASSUME HostInv, NEW p \in Caller, DialSucceeds(p)
    PROVE  HostInv'
<1> USE Processes DEF HostInv, DialSucceeds, Fresh, At, Answered, Waiting
<1>0. PICK c \in Conn : Fresh(c) /\ open' = open \cup {c} /\ hold' = [hold EXCEPT ![p] = c]
    OBVIOUS
<1>1. TypeOK'
    BY <1>0 DEF TypeOK, Labels
<1>2. Points'
    BY <1>0 DEF Points, TypeOK
<1>3. Waits'
    BY <1>0, WaitsAside DEF TypeOK, Points
<1>4. Owned'
    <2>1. IdleApart'
        BY <1>0 DEF Owned, IdleApart, HeldApart, HandedApart, AllOwned, TypeOK, Points
    <2>2. HeldApart'
        BY <1>0 DEF Owned, IdleApart, HeldApart, HandedApart, AllOwned, TypeOK, Points
    <2>3. HandedApart'
        BY <1>0 DEF Owned, IdleApart, HeldApart, HandedApart, AllOwned, TypeOK, Points
    <2>4. AllOwned'
        <3> SUFFICES ASSUME NEW d \in open'
                     PROVE  \/ In(conns', d) \/ In(scratch', d)
                            \/ \E q \in Process : hold'[q] = d
                            \/ \E w \in Waiter : waiter'[w].conn = d
            BY DEF AllOwned
        <3>1. CASE d = c
            BY <1>0, <3>1 DEF Owned, IdleApart, HeldApart, HandedApart, AllOwned, TypeOK, Points
        <3>2. CASE d # c
            <4>1. d \in open /\ \A q \in Process : hold[q] = d => hold'[q] = d
                BY <1>0, <3>2 DEF TypeOK, Points
            <4>2. \A w \in Waiter : waiter[w].conn = d => waiter'[w].conn = d
                BY <1>0, <3>2 DEF Owned, IdleApart, HeldApart, HandedApart, AllOwned, TypeOK, Points
            <4>3. (In(conns, d) \/ In(scratch, d)) => (In(conns', d) \/ In(scratch', d))
                BY <1>0, <3>2 DEF Owned, IdleApart, HeldApart, HandedApart, AllOwned, TypeOK, Points
            <4> QED BY <4>1, <4>2, <4>3 DEF Owned, AllOwned
        <3> QED BY <3>1, <3>2
    <2> QED BY <2>1, <2>2, <2>3, <2>4 DEF Owned
<1>5. ReadyClosedOnce'
    BY <1>0 DEF ReadyClosedOnce, TypeOK
<1>6. Placed' = Placed
    BY <1>0 DEF Placed, Delivered, TypeOK, Waits, WaitsTyped, Points
<1>7. CountIsExact'
    BY <1>0, <1>6, Lengths, FinitePlaced DEF CountIsExact
<1>8. CountWithinMax'
    BY <1>0 DEF CountWithinMax, TypeOK
<1>9. Starting' = Starting
    BY <1>0 DEF Starting, TypeOK
<1>10. OneCleaner'
    BY <1>0, <1>9, Counted DEF TypeOK, Points
<1> QED BY <1>1, <1>2, <1>3, <1>4, <1>5, <1>7, <1>8, <1>10

LEMMA DialFailsKeeps ==
    ASSUME HostInv, NEW p \in Caller, DialFails(p)
    PROVE  HostInv'
<1> USE Processes DEF HostInv, DialFails, At, Answered, Waiting
<1>1. TypeOK'
    BY DEF TypeOK, Labels
<1>2. Points'
    BY DEF Points, TypeOK
<1>3. Waits'
    BY WaitsAside DEF TypeOK, Points
<1>4. Owned'
    BY OwnedAside DEF TypeOK, Points
<1>5. ReadyClosedOnce'
    BY DEF ReadyClosedOnce, TypeOK
<1>6. Placed' = Placed
    BY DEF Placed, Delivered, TypeOK, Waits, WaitsTyped, Points
<1>7. CountIsExact'
    BY <1>6, Lengths, FinitePlaced DEF CountIsExact
<1>8. CountWithinMax'
    BY DEF CountWithinMax, TypeOK
<1>9. Starting' = Starting
    BY DEF Starting, TypeOK
<1>10. OneCleaner'
    BY <1>9, Counted DEF TypeOK, Points
<1> QED BY <1>1, <1>2, <1>3, <1>4, <1>5, <1>7, <1>8, <1>10

LEMMA RequestSucceedsKeeps ==
    ASSUME HostInv, NEW p \in Caller, RequestSucceeds(p)
    PROVE  HostInv'
<1> USE Processes DEF HostInv, RequestSucceeds, At, Answered, Waiting
<1>1. TypeOK'
    BY DEF TypeOK, Labels
<1>2. Points'
    BY DEF Points, TypeOK
<1>3. Waits'
    BY WaitsAside DEF TypeOK, Points
<1>4. Owned'
    BY OwnedAside DEF TypeOK, Points
<1>5. ReadyClosedOnce'
    BY DEF ReadyClosedOnce, TypeOK
<1>6. Placed' = Placed
    BY DEF Placed, Delivered, TypeOK, Waits, WaitsTyped, Points
<1>7. CountIsExact'
    BY <1>6, Lengths, FinitePlaced DEF CountIsExact
<1>8. CountWithinMax'
    BY DEF CountWithinMax, TypeOK
<1>9. Starting' = Starting
    BY DEF Starting, TypeOK
<1>10. OneCleaner'
    BY <1>9, Counted DEF TypeOK, Points
<1> QED BY <1>1, <1>2, <1>3, <1>4, <1>5, <1>7, <1>8, <1>10

LEMMA RequestFailsKeeps ==
    ASSUME HostInv, NEW p \in Caller, NEW e \in {"eof", "other"}, RequestFails(p, e)
    PROVE  HostInv'
<1> USE Processes DEF HostInv, RequestFails, At, Answered, Waiting
<1>1. TypeOK'
    BY DEF TypeOK, Labels
<1>2. Points'
    BY DEF Points, TypeOK
<1>3. Waits'
    BY WaitsAside DEF TypeOK, Points
<1>4. Owned'
    BY OwnedAside DEF TypeOK, Points
<1>5. ReadyClosedOnce'
    BY DEF ReadyClosedOnce, TypeOK
<1>6. Placed' = Placed
    BY DEF Placed, Delivered, TypeOK, Waits, WaitsTyped, Points
<1>7. CountIsExact'
    BY <1>6, Lengths, FinitePlaced DEF CountIsExact
<1>8. CountWithinMax'
    BY DEF CountWithinMax, TypeOK
<1>9. Starting' = Starting
    BY DEF Starting, TypeOK
<1>10. OneCleaner'
    BY <1>9, Counted DEF TypeOK, Points
<1> QED BY <1>1, <1>2, <1>3, <1>4, <1>5, <1>7, <1>8, <1>10

-----------------------------------------------------------------------------
(* Giving up a connection or a place.                                      *)

LEMMA RecycleIdleKeeps ==
    ASSUME HostInv, NEW p \in Process, RecycleIdle(p)
    PROVE  HostInv'
<1> USE Processes DEF HostInv, RecycleIdle, At, Answered, Waiting
<1>a. /\ NoDup(conns) /\ conns \in Seq(Conn)
      /\ hold[p] \in Conn /\ hold[p] # None /\ ~In(conns, hold[p])
    BY DEF TypeOK, Owned, IdleApart, HeldApart, Points
<1>b. PICK c : c = hold[p]
    OBVIOUS
<1>c. /\ c \in Conn /\ conns' \in Seq(Conn) /\ Len(conns') = Len(conns) + 1
      /\ NoDup(conns') /\ \A x : In(conns', x) <=> In(conns, x) \/ x = c
    BY <1>a, <1>b, Appended
<1>0. /\ c \in Conn /\ c = hold[p] /\ conns' \in Seq(Conn) /\ Len(conns') = Len(conns) + 1
      /\ NoDup(conns') /\ \A x : In(conns', x) <=> In(conns, x) \/ x = c
      /\ pc[p] = "recycling" /\ pc' = [pc EXCEPT ![p] = "idle"]
      /\ hold' = [hold EXCEPT ![p] = None] /\ mu' = None
      /\ UNCHANGED <<config, count, queue, cleanerRunning, waiter, open, wait, scratch, err>>
    BY <1>b, <1>c
<1> HIDE DEF RecycleIdle
<1>1. TypeOK'
    BY <1>0 DEF TypeOK, Labels
<1>2. Points'
    BY <1>0 DEF Points, TypeOK
<1>3. Waits'
    BY <1>0, WaitsAside DEF TypeOK, Points
<1>4. Owned'
    <2>1. IdleApart'
        BY <1>0 DEF Owned, IdleApart, HeldApart, HandedApart, AllOwned, TypeOK, Points
    <2>2. HeldApart'
        BY <1>0 DEF Owned, IdleApart, HeldApart, HandedApart, AllOwned, TypeOK, Points
    <2>3. HandedApart'
        BY <1>0 DEF Owned, IdleApart, HeldApart, HandedApart, AllOwned, TypeOK, Points
    <2>4. AllOwned'
        <3> SUFFICES ASSUME NEW d \in open'
                     PROVE  \/ In(conns', d) \/ In(scratch', d)
                            \/ \E q \in Process : hold'[q] = d
                            \/ \E w \in Waiter : waiter'[w].conn = d
            BY DEF AllOwned
        <3>1. CASE d = c
            BY <1>0, <3>1 DEF Owned, IdleApart, HeldApart, HandedApart, AllOwned, TypeOK, Points
        <3>2. CASE d # c
            <4>1. d \in open /\ \A q \in Process : hold[q] = d => hold'[q] = d
                BY <1>0, <3>2 DEF TypeOK, Points
            <4>2. \A w \in Waiter : waiter[w].conn = d => waiter'[w].conn = d
                BY <1>0, <3>2 DEF Owned, IdleApart, HeldApart, HandedApart, AllOwned, TypeOK, Points
            <4>3. (In(conns, d) \/ In(scratch, d)) => (In(conns', d) \/ In(scratch', d))
                BY <1>0, <3>2 DEF Owned, IdleApart, HeldApart, HandedApart, AllOwned, TypeOK, Points
            <4> QED BY <4>1, <4>2, <4>3 DEF Owned, AllOwned
        <3> QED BY <3>1, <3>2
    <2> QED BY <2>1, <2>2, <2>3, <2>4 DEF Owned
<1>5. ReadyClosedOnce'
    BY <1>0 DEF ReadyClosedOnce, TypeOK
<1>6. Placed' = Placed \ {p} /\ p \in Placed
    BY <1>0 DEF Placed, Delivered, TypeOK, Waits, WaitsTyped, Points
<1>7. CountIsExact'
    <2>1. Cardinality(Placed') = Cardinality(Placed) - 1
        BY <1>6, FinitePlaced, FS_RemoveElement
    <2> QED BY <1>0, <2>1, FinitePlaced, Lengths DEF CountIsExact
<1>8. CountWithinMax'
    BY <1>0 DEF CountWithinMax, TypeOK
<1>9. Starting' = Starting
    BY <1>0 DEF Starting, TypeOK
<1>10. OneCleaner'
    BY <1>0, <1>9, Counted DEF TypeOK, Points
<1> QED BY <1>1, <1>2, <1>3, <1>4, <1>5, <1>7, <1>8, <1>10

LEMMA DecrementCountKeeps ==
    ASSUME HostInv, NEW p \in Process, DecrementCount(p)
    PROVE  HostInv'
<1> USE Processes DEF HostInv, DecrementCount, Discarded, At, Answered, Waiting
<1>1. TypeOK'
    <2>1. p \in Placed
        BY DEF Placed
    <2>2. Cardinality(Placed) # 0
        BY <2>1, FinitePlaced, FS_EmptySet
    <2>3. count' \in Nat
        BY <2>2, FinitePlaced, Lengths DEF CountIsExact
    <2> QED BY <2>3 DEF TypeOK, Labels
<1>2. Points'
    BY DEF Points, TypeOK
<1>3. Waits'
    BY WaitsAside DEF TypeOK, Points
<1>4. Owned'
    BY OwnedAside DEF TypeOK, Points
<1>5. ReadyClosedOnce'
    BY DEF ReadyClosedOnce, TypeOK
<1>6. Placed' = Placed \ {p} /\ p \in Placed
    BY DEF Placed, Delivered, TypeOK, Waits, WaitsTyped, Points
<1>7. CountIsExact'
    <2>1. Cardinality(Placed') = Cardinality(Placed) - 1
        BY <1>6, FinitePlaced, FS_RemoveElement
    <2> QED BY <2>1, FinitePlaced, Lengths DEF CountIsExact
<1>8. CountWithinMax'
    BY Lengths DEF CountWithinMax, TypeOK
<1>9. Starting' = Starting
    BY DEF Starting, TypeOK
<1>10. OneCleaner'
    BY <1>9, Counted DEF TypeOK, Points
<1> QED BY <1>1, <1>2, <1>3, <1>4, <1>5, <1>7, <1>8, <1>10

LEMMA CloseConnKeeps ==
    ASSUME HostInv, NEW p \in Process, CloseConn(p)
    PROVE  HostInv'
<1> USE Processes DEF HostInv, CloseConn, Retries, At, Answered, Waiting
<1>1. TypeOK'
    BY DEF TypeOK, Labels
<1>2. Points'
    <2>1. CASE p = Cleaner
        BY <2>1 DEF Points, TypeOK
    <2>2. CASE p \in Caller
        <3>1. /\ p # Cleaner /\ p \notin Waiter /\ hold' = [hold EXCEPT ![p] = None]
              /\ \E l \in {"acquire", "idle"} : pc' = [pc EXCEPT ![p] = l]
              /\ scratch' = scratch
            BY <2>2
        <3> HIDE DEF CloseConn
        <3> QED BY <2>2, <3>1 DEF Points, TypeOK
    <2> QED BY <2>1, <2>2
<1>3. Waits'
    BY WaitsAside DEF TypeOK, Points
<1>4. Owned'
    <2>1. IdleApart'
        BY DEF Owned, IdleApart, HeldApart, HandedApart, AllOwned, TypeOK, Points
    <2>2. HeldApart'
        BY DEF Owned, IdleApart, HeldApart, HandedApart, AllOwned, TypeOK, Points
    <2>3. HandedApart'
        BY DEF Owned, IdleApart, HeldApart, HandedApart, AllOwned, TypeOK, Points
    <2>4. AllOwned'
        <3> SUFFICES ASSUME NEW d \in open'
                     PROVE  \/ In(conns', d) \/ In(scratch', d)
                            \/ \E q \in Process : hold'[q] = d
                            \/ \E w \in Waiter : waiter'[w].conn = d
            BY DEF AllOwned
        <3>1. CASE d = hold[p]
            BY <3>1 DEF Owned, IdleApart, HeldApart, HandedApart, AllOwned, TypeOK, Points
        <3>2. CASE d # hold[p]
            <4>1. d \in open /\ \A q \in Process : hold[q] = d => hold'[q] = d
                BY <3>2 DEF TypeOK, Points
            <4>2. \A w \in Waiter : waiter[w].conn = d => waiter'[w].conn = d
                BY <3>2 DEF Owned, IdleApart, HeldApart, HandedApart, AllOwned, TypeOK, Points
            <4>3. (In(conns, d) \/ In(scratch, d)) => (In(conns', d) \/ In(scratch', d))
                BY <3>2 DEF Owned, IdleApart, HeldApart, HandedApart, AllOwned, TypeOK, Points
            <4> QED BY <4>1, <4>2, <4>3 DEF Owned, AllOwned
        <3> QED BY <3>1, <3>2
    <2> QED BY <2>1, <2>2, <2>3, <2>4 DEF Owned
<1>5. ReadyClosedOnce'
    BY DEF ReadyClosedOnce, TypeOK
<1>6. Placed' = Placed
    BY DEF Placed, Delivered, TypeOK, Waits, WaitsTyped, Points
<1>7. CountIsExact'
    BY <1>6, Lengths, FinitePlaced DEF CountIsExact
<1>8. CountWithinMax'
    BY DEF CountWithinMax, TypeOK
<1>9. Starting' = Starting
    BY DEF Starting, TypeOK
<1>10. OneCleaner'
    BY <1>9, Counted DEF TypeOK, Points
<1> QED BY <1>1, <1>2, <1>3, <1>4, <1>5, <1>7, <1>8, <1>10

-----------------------------------------------------------------------------
(* The cleaner.                                                            *)

LEMMA DestroyNextKeeps ==
    ASSUME HostInv, DestroyNext
    PROVE  HostInv'
<1> USE Processes DEF HostInv, DestroyNext, At, Answered, Waiting
<1>a. NoDup(scratch) /\ scratch \in Seq(Conn) /\ scratch # <<>>
    BY DEF TypeOK, Owned, IdleApart
<1>b. PICK c : c = Head(scratch)
    OBVIOUS
<1>c. /\ c \in Conn /\ In(scratch, c) /\ scratch' \in Seq(Conn) /\ Len(scratch') = Len(scratch) - 1
      /\ NoDup(scratch') /\ \A x : In(scratch', x) <=> In(scratch, x) /\ x # c
    BY <1>a, <1>b, FirstTaken
<1>0. /\ c \in Conn /\ In(scratch, c) /\ scratch' \in Seq(Conn) /\ Len(scratch') = Len(scratch) - 1
      /\ NoDup(scratch') /\ \A x : In(scratch', x) <=> In(scratch, x) /\ x # c
      /\ pc[Cleaner] = "destroying" /\ pc' = [pc EXCEPT ![Cleaner] = "discarding"]
      /\ hold' = [hold EXCEPT ![Cleaner] = c]
      /\ UNCHANGED <<config, count, conns, queue, cleanerRunning, mu, waiter, open, wait, err>>
    BY <1>b, <1>c
<1> HIDE DEF DestroyNext
<1>1. TypeOK'
    BY <1>0 DEF TypeOK, Labels
<1>2. Points'
    BY <1>0 DEF Points, TypeOK
<1>3. Waits'
    BY <1>0, WaitsAside DEF TypeOK, Points
<1>4. Owned'
    <2>1. IdleApart'
        BY <1>0 DEF Owned, IdleApart, HeldApart, HandedApart, AllOwned, TypeOK, Points
    <2>2. HeldApart'
        BY <1>0 DEF Owned, IdleApart, HeldApart, HandedApart, AllOwned, TypeOK, Points
    <2>3. HandedApart'
        BY <1>0 DEF Owned, IdleApart, HeldApart, HandedApart, AllOwned, TypeOK, Points
    <2>4. AllOwned'
        <3> SUFFICES ASSUME NEW d \in open'
                     PROVE  \/ In(conns', d) \/ In(scratch', d)
                            \/ \E q \in Process : hold'[q] = d
                            \/ \E w \in Waiter : waiter'[w].conn = d
            BY DEF AllOwned
        <3>1. CASE d = c
            BY <1>0, <3>1 DEF Owned, IdleApart, HeldApart, HandedApart, AllOwned, TypeOK, Points
        <3>2. CASE d # c
            <4>1. d \in open /\ \A q \in Process : hold[q] = d => hold'[q] = d
                BY <1>0, <3>2 DEF TypeOK, Points
            <4>2. \A w \in Waiter : waiter[w].conn = d => waiter'[w].conn = d
                BY <1>0, <3>2 DEF Owned, IdleApart, HeldApart, HandedApart, AllOwned, TypeOK, Points
            <4>3. (In(conns, d) \/ In(scratch, d)) => (In(conns', d) \/ In(scratch', d))
                BY <1>0, <3>2 DEF Owned, IdleApart, HeldApart, HandedApart, AllOwned, TypeOK, Points
            <4> QED BY <4>1, <4>2, <4>3 DEF Owned, AllOwned
        <3> QED BY <3>1, <3>2
    <2> QED BY <2>1, <2>2, <2>3, <2>4 DEF Owned
<1>5. ReadyClosedOnce'
    BY <1>0 DEF ReadyClosedOnce, TypeOK
<1>6. Placed' = Placed \cup {Cleaner} /\ Cleaner \notin Placed
    BY <1>0 DEF Placed, Delivered, TypeOK, Waits, WaitsTyped, Points
<1>7. CountIsExact'
    <2>1. Cardinality(Placed') = Cardinality(Placed) + 1
        BY <1>6, FinitePlaced, FS_AddElement
    <2> QED BY <1>0, <2>1, FinitePlaced, Lengths DEF CountIsExact
<1>8. CountWithinMax'
    BY <1>0 DEF CountWithinMax, TypeOK
<1>9. Starting' = Starting
    BY <1>0 DEF Starting, TypeOK
<1>10. OneCleaner'
    BY <1>0, <1>9, Counted DEF TypeOK, Points
<1> QED BY <1>1, <1>2, <1>3, <1>4, <1>5, <1>7, <1>8, <1>10

LEMMA ScanKeeps ==
    ASSUME HostInv, Scan
    PROVE  HostInv'
<1> USE Processes DEF HostInv, Scan, At, Answered, Waiting
<1>a. NoDup(conns) /\ conns \in Seq(Conn)
    BY DEF TypeOK, Owned, IdleApart
<1>b. PICK i \in 0 .. Len(conns) : /\ scratch' = SubSeq(conns, 1, i)
                                  /\ conns' = SubSeq(conns, i + 1, Len(conns))
    OBVIOUS
<1>c. /\ At(Cleaner, "scanning") /\ pc' = [pc EXCEPT ![Cleaner] = "destroying"]
      /\ UNCHANGED <<config, count, queue, cleanerRunning, mu, waiter, open, hold, wait, err>>
      /\ scratch = <<>> /\ Len(scratch) = 0
    BY EmptySeq DEF Points
<1> HIDE DEF Scan
<1>d. /\ conns' \in Seq(Conn) /\ scratch' \in Seq(Conn) /\ NoDup(conns') /\ NoDup(scratch')
      /\ \A x : In(conns, x) <=> In(scratch', x) \/ In(conns', x)
      /\ \A x : ~(In(scratch', x) /\ In(conns', x))
    BY <1>a, <1>b, Cut
<1>e. Len(scratch') = i /\ Len(conns') = Len(conns) - i
    BY <1>a, <1>b, Cut
<1>0. /\ conns' \in Seq(Conn) /\ scratch' \in Seq(Conn) /\ NoDup(conns') /\ NoDup(scratch')
      /\ Len(conns') + Len(scratch') = Len(conns)
      /\ \A x : In(conns, x) <=> In(scratch', x) \/ In(conns', x)
      /\ \A x : ~(In(scratch', x) /\ In(conns', x))
      /\ pc[Cleaner] = "scanning" /\ pc' = [pc EXCEPT ![Cleaner] = "destroying"]
      /\ scratch = <<>> /\ Len(scratch) = 0
      /\ UNCHANGED <<config, count, queue, cleanerRunning, mu, waiter, open, hold, wait, err>>
    <2>1. Len(conns) \in Nat /\ i \in Nat
        BY Lengths
    <2>2. Len(conns') + Len(scratch') = Len(conns)
        BY <1>e, <2>1
    <2> QED BY <1>c, <1>d, <2>2
<1> HIDE DEF Scan
<1>1. TypeOK'
    BY <1>0 DEF TypeOK, Labels
<1>2. Points'
    BY <1>0 DEF Points, TypeOK
<1>3. Waits'
    BY <1>0, WaitsAside DEF TypeOK, Points
<1>4. Owned'
    BY <1>0, EmptySequence DEF Owned, IdleApart, HeldApart, HandedApart, AllOwned, TypeOK, Points
<1>5. ReadyClosedOnce'
    BY <1>0 DEF ReadyClosedOnce, TypeOK
<1>6. Placed' = Placed
    BY <1>0 DEF Placed, Delivered, TypeOK, Waits, WaitsTyped, Points
<1>7. CountIsExact'
    <2>1. /\ count' = count
          /\ Len(conns') + Len(scratch') = Len(conns) + Len(scratch)
        <3>1. Len(conns) \in Nat
            BY Lengths
        <3> QED BY <1>0, <1>c, <3>1
    <2>2. count = Len(conns) + Len(scratch) + Cardinality(Placed)
        BY DEF CountIsExact
    <2>3. Cardinality(Placed') = Cardinality(Placed)
        BY <1>6
    <2> HIDE DEF HostInv
    <2> QED BY <2>1, <2>2, <2>3 DEF CountIsExact
<1>8. CountWithinMax'
    BY <1>0 DEF CountWithinMax, TypeOK
<1>9. Starting' = Starting
    BY <1>0 DEF Starting, TypeOK
<1>10. OneCleaner'
    BY <1>0, <1>9, Counted DEF TypeOK, Points
<1> QED BY <1>1, <1>2, <1>3, <1>4, <1>5, <1>7, <1>8, <1>10

LEMMA MustStopKeeps ==
    ASSUME HostInv, MustStop
    PROVE  HostInv'
<1> USE Processes DEF HostInv, MustStop, At, Answered, Waiting
<1>1. TypeOK'
    BY DEF TypeOK, Labels
<1>2. Points'
    BY DEF Points, TypeOK
<1>3. Waits'
    BY WaitsAside DEF TypeOK, Points
<1>4. Owned'
    BY OwnedAside DEF TypeOK, Points
<1>5. ReadyClosedOnce'
    BY DEF ReadyClosedOnce, TypeOK
<1>6. Placed' = Placed
    BY DEF Placed, Delivered, TypeOK, Waits, WaitsTyped, Points
<1>7. CountIsExact'
    BY <1>6, Lengths, FinitePlaced DEF CountIsExact
<1>8. CountWithinMax'
    BY DEF CountWithinMax, TypeOK
<1>9. Starting' = Starting
    BY DEF Starting, TypeOK
<1>10. OneCleaner'
    BY <1>9, Counted DEF TypeOK, Points
<1> QED BY <1>1, <1>2, <1>3, <1>4, <1>5, <1>7, <1>8, <1>10

LEMMA StopCleanerKeeps ==
    ASSUME HostInv, StopCleaner
    PROVE  HostInv'
<1> USE Processes DEF HostInv, StopCleaner, At, Answered, Waiting
<1>1. TypeOK'
    BY DEF TypeOK, Labels
<1>2. Points'
    BY DEF Points, TypeOK
<1>3. Waits'
    BY WaitsAside DEF TypeOK, Points
<1>4. Owned'
    BY OwnedAside DEF TypeOK, Points
<1>5. ReadyClosedOnce'
    BY DEF ReadyClosedOnce, TypeOK
<1>6. Placed' = Placed
    BY DEF Placed, Delivered, TypeOK, Waits, WaitsTyped, Points
<1>7. CountIsExact'
    BY <1>6, Lengths, FinitePlaced DEF CountIsExact
<1>8. CountWithinMax'
    BY DEF CountWithinMax, TypeOK
<1>9. OneCleaner'
    <2>1. Starting' = Starting
        BY DEF Starting, TypeOK
    <2> QED BY <2>1, FinitePlaced, Counted DEF TypeOK
<1> QED BY <1>1, <1>2, <1>3, <1>4, <1>5, <1>7, <1>8, <1>9

-----------------------------------------------------------------------------
(* Waiting.                                                                *)

\* A place changes hands.
LEMMA Swapped ==
    ASSUME NEW p \in Placed, NEW q, q \notin Placed, Placed' = (Placed \ {p}) \cup {q}
    PROVE  Cardinality(Placed') = Cardinality(Placed)
<1>1. /\ IsFiniteSet(Placed \ {p}) /\ Cardinality(Placed \ {p}) = Cardinality(Placed) - 1
    BY FinitePlaced, FS_RemoveElement
<1>2. Cardinality((Placed \ {p}) \cup {q}) = Cardinality(Placed \ {p}) + 1
    BY <1>1, FS_AddElement
<1> QED BY <1>1, <1>2, FinitePlaced

LEMMA NoFreeConnsKeeps ==
    ASSUME HostInv, NEW p \in Caller, NoFreeConns(p), ~config.wait
    PROVE  HostInv'
<1> USE Processes DEF HostInv, NoFreeConns, At, Answered, Waiting
<1>1. TypeOK'
    BY DEF TypeOK, Labels
<1>2. Points'
    BY DEF Points, TypeOK
<1>3. Waits'
    BY WaitsAside DEF TypeOK, Points
<1>4. Owned'
    BY OwnedAside DEF TypeOK, Points
<1>5. ReadyClosedOnce'
    BY DEF ReadyClosedOnce, TypeOK
<1>6. Placed' = Placed
    BY DEF Placed, Delivered, TypeOK, Waits, WaitsTyped, Points
<1>7. CountIsExact'
    BY <1>6, Lengths, FinitePlaced DEF CountIsExact
<1>8. CountWithinMax'
    BY DEF CountWithinMax, TypeOK
<1>9. Starting' = Starting
    BY DEF Starting, TypeOK
<1>10. OneCleaner'
    BY <1>9, Counted DEF TypeOK, Points
<1> QED BY <1>1, <1>2, <1>3, <1>4, <1>5, <1>7, <1>8, <1>10

LEMMA StartsWaitingKeeps ==
    ASSUME HostInv, NEW p \in Caller, NoFreeConns(p), config.wait
    PROVE  HostInv'
<1> USE Processes DEF HostInv, NoFreeConns, At, Answered, Waiting
<1>a. PICK w \in Waiter : Unused(w) /\ wait' = [wait EXCEPT ![p] = w]
                           /\ waiter' = [waiter EXCEPT ![w] = NewWaiter]
    OBVIOUS
<1>b. ~InQueue(w)
    <2>1. DOMAIN Contents(queue) = 1 .. Len(Contents(queue))
        BY ContentsOf, LenProperties DEF TypeOK
    <2> QED BY <1>a, <2>1 DEF Unused, InQueue, In
<1>c. pc[w] = "idle" /\ \A q \in Process : wait[q] # w
    BY <1>a DEF Unused
<1>0. /\ pc[p] = "acquire" /\ pc' = [pc EXCEPT ![p] = "enqueue"]
      /\ pc[w] = "idle" /\ ~InQueue(w) /\ (\A q \in Process : wait[q] # w)
      /\ wait' = [wait EXCEPT ![p] = w] /\ waiter' = [waiter EXCEPT ![w] = NewWaiter]
      /\ (\A v : InQueue(v)' <=> InQueue(v)) /\ waiter[w].conn = None
      /\ UNCHANGED <<config, conns, count, queue, cleanerRunning, mu, open, hold, scratch, err>>
    BY <1>a, <1>b, <1>c DEF InQueue, Waits, Awaited
<1> HIDE DEF NoFreeConns
<1>1. TypeOK'
    BY <1>0 DEF TypeOK, Labels, NewWaiter
<1>2. Points'
    BY <1>0 DEF Points, TypeOK
<1>3. Waits'
    <2>1. QueuedIdle'
        BY <1>0
          DEF Waits, QueuedIdle, WaitsTyped, OwnWaiter, NotQueuedYet, Awaited, TypeOK, Points, NewWaiter
    <2>2. WaitsTyped'
        BY <1>0
          DEF Waits, QueuedIdle, WaitsTyped, OwnWaiter, NotQueuedYet, Awaited, TypeOK, Points, NewWaiter
    <2>3. OwnWaiter'
        BY <1>0
          DEF Waits, QueuedIdle, WaitsTyped, OwnWaiter, NotQueuedYet, Awaited, TypeOK, Points, NewWaiter
    <2>4. NotQueuedYet'
        <3> SUFFICES ASSUME NEW q \in Process, pc'[q] = "enqueue"
                     PROVE  /\ waiter'[wait'[q]] = NewWaiter /\ pc'[wait'[q]] = "idle"
                            /\ ~In(Contents(queue'), wait'[q])
                            /\ \A r \in Process : wait'[r] = wait'[q] => r = q
            BY DEF NotQueuedYet, InQueue
        <3>1. CASE q = p
            BY <1>0, <3>1 DEF WaitsTyped, TypeOK, InQueue
        <3>2. CASE q # p
            <4>1. /\ pc[q] = "enqueue" /\ wait'[q] = wait[q] /\ wait[q] \in Waiter
                  /\ wait[q] # w /\ waiter[wait[q]] = NewWaiter /\ pc[wait[q]] = "idle"
                  /\ ~InQueue(wait[q]) /\ \A r \in Process : wait[r] = wait[q] => r = q
                BY <1>0, <3>2 DEF Waits, NotQueuedYet, WaitsTyped, TypeOK
            <4>2. waiter'[wait[q]] = NewWaiter /\ pc'[wait[q]] = "idle"
                BY <1>0, <4>1 DEF TypeOK
            <4>3. ~In(Contents(queue'), wait[q])
                BY <1>0, <4>1 DEF InQueue
            <4>4. \A r \in Process : wait'[r] = wait[q] => r = q
                BY <1>0, <4>1, <3>2 DEF TypeOK
            <4> QED BY <4>1, <4>2, <4>3, <4>4
        <3> QED BY <3>1, <3>2
    <2>5. Awaited'
        BY <1>0
          DEF Waits, QueuedIdle, WaitsTyped, OwnWaiter, NotQueuedYet, Awaited, TypeOK, Points, NewWaiter
    <2> QED BY <2>1, <2>2, <2>3, <2>4, <2>5 DEF Waits
<1>4. Owned'
    BY <1>0, OwnedAside DEF NewWaiter, TypeOK, Points
<1>5. ReadyClosedOnce'
    BY <1>0 DEF ReadyClosedOnce, TypeOK, NewWaiter
<1>6. Placed' = Placed
    BY <1>0 DEF Placed, Delivered, TypeOK, Waits, WaitsTyped, Points, NewWaiter
<1>7. CountIsExact'
    BY <1>0, <1>6, Lengths, FinitePlaced DEF CountIsExact
<1>8. CountWithinMax'
    BY <1>0 DEF CountWithinMax, TypeOK
<1>9. Starting' = Starting
    BY <1>0 DEF Starting, TypeOK
<1>10. OneCleaner'
    BY <1>0, <1>9, Counted DEF TypeOK, Points
<1> QED BY <1>1, <1>2, <1>3, <1>4, <1>5, <1>7, <1>8, <1>10

LEMMA QueueWaitingCallerKeeps ==
    ASSUME HostInv, NEW p \in Caller, QueueWaitingCaller(p)
    PROVE  HostInv'
<1> USE Processes DEF HostInv, QueueWaitingCaller, At, Answered, Waiting
<1>a. PICK w : w = wait[p]
    OBVIOUS
<1>b. w \in Waiter /\ ~InQueue(w) /\ waiter[w] = NewWaiter /\ pc[w] = "idle"
    BY <1>a DEF Waits, WaitsTyped, NotQueuedYet
<1>c. /\ queue' \in Queues(Waiter) /\ NoDup(Contents(queue'))
      /\ \A v : InQueue(v)' <=> InQueue(v) \/ v = w
    BY <1>a, <1>b, Pushed DEF Waits, QueuedIdle, TypeOK
<1>0. /\ pc[p] = "enqueue" /\ pc' = [pc EXCEPT ![p] = "waiting"] /\ mu' = None
      /\ w \in Waiter /\ w = wait[p] /\ ~InQueue(w) /\ waiter[w] = NewWaiter /\ pc[w] = "idle"
      /\ queue' \in Queues(Waiter) /\ NoDup(Contents(queue'))
      /\ (\A v : InQueue(v)' <=> InQueue(v) \/ v = w)
      /\ UNCHANGED <<config, conns, count, cleanerRunning, waiter, open, hold, wait, scratch, err>>
    BY <1>a, <1>b, <1>c
<1> HIDE DEF QueueWaitingCaller
<1>1. TypeOK'
    BY <1>0 DEF TypeOK, Labels
<1>2. Points'
    BY <1>0 DEF Points, TypeOK
<1>3. Waits'
    <2>1. QueuedIdle'
        BY <1>0
          DEF Waits, QueuedIdle, WaitsTyped, OwnWaiter, NotQueuedYet, Awaited, TypeOK, Points, NewWaiter
    <2>2. WaitsTyped'
        BY <1>0
          DEF Waits, QueuedIdle, WaitsTyped, OwnWaiter, NotQueuedYet, Awaited, TypeOK, Points, NewWaiter
    <2>3. OwnWaiter'
        BY <1>0
          DEF Waits, QueuedIdle, WaitsTyped, OwnWaiter, NotQueuedYet, Awaited, TypeOK, Points, NewWaiter
    <2>4. NotQueuedYet'
        BY <1>0
          DEF Waits, QueuedIdle, WaitsTyped, OwnWaiter, NotQueuedYet, Awaited, TypeOK, Points, NewWaiter
    <2>5. Awaited'
        <3>1. ASSUME NEW v \in Waiter, ~Answered(v)',
                     \/ InQueue(v)' \/ pc'[v] = "dialing"
                     \/ \E q \in Process : pc'[q] = "delivering" /\ wait'[q] = v
              PROVE  \E q \in Caller : pc'[q] = "waiting" /\ wait'[q] = v
            <4>1. CASE v = w
                BY <1>0, <4>1 DEF TypeOK
            <4>2. CASE v # w
                <5>1. PICK q \in Caller : pc[q] = "waiting" /\ wait[q] = v
                    BY <1>0, <3>1, <4>2 DEF Waits, Awaited, TypeOK
                <5> QED BY <1>0, <5>1 DEF TypeOK
            <4> QED BY <4>1, <4>2
        <3>2. ASSUME NEW v \in Waiter, waiter'[v].conn # None
              PROVE  Answered(v)' /\ \E q \in Caller : pc'[q] = "waiting" /\ wait'[q] = v
            <4>1. PICK q \in Caller : pc[q] = "waiting" /\ wait[q] = v /\ Answered(v)
                BY <1>0, <3>2 DEF Waits, Awaited
            <4> QED BY <1>0, <4>1 DEF TypeOK
        <3> QED BY <3>1, <3>2 DEF Awaited
    <2> QED BY <2>1, <2>2, <2>3, <2>4, <2>5 DEF Waits
<1>4. Owned'
    BY <1>0, OwnedAside DEF TypeOK, Points
<1>5. ReadyClosedOnce'
    BY <1>0 DEF ReadyClosedOnce, TypeOK
<1>6. Placed' = Placed
    BY <1>0 DEF Placed, Delivered, TypeOK, Waits, WaitsTyped, Points, NewWaiter
<1>7. CountIsExact'
    BY <1>0, <1>6, Lengths, FinitePlaced DEF CountIsExact
<1>8. CountWithinMax'
    BY <1>0 DEF CountWithinMax, TypeOK
<1>9. Starting' = Starting
    BY <1>0 DEF Starting, TypeOK
<1>10. OneCleaner'
    BY <1>0, <1>9, Counted DEF TypeOK, Points
<1> QED BY <1>1, <1>2, <1>3, <1>4, <1>5, <1>7, <1>8, <1>10

LEMMA AnswersKeeps ==
    ASSUME HostInv, NEW p \in Caller, Answers(p)
    PROVE  HostInv'
<1> USE Processes DEF HostInv, Answers, At, Answered, Waiting
<1>a. PICK w, c : w = wait[p] /\ c = waiter[w].conn
    OBVIOUS
<1>b. w \in Waiter /\ waiter[w].answered /\ c \in Conn \cup {None}
    BY <1>a DEF Waits, WaitsTyped, ReadyClosedOnce, TypeOK
<1>0. /\ pc[p] = "waiting" /\ pc' = [pc EXCEPT ![p] = IF c = None THEN "idle" ELSE "using"]
      /\ w \in Waiter /\ w = wait[p] /\ c = waiter[w].conn /\ c \in Conn \cup {None} /\ waiter[w].answered
      /\ hold' = [hold EXCEPT ![p] = c] /\ wait' = [wait EXCEPT ![p] = None]
      /\ waiter' = [waiter EXCEPT ![w].conn = None]
      /\ (\A v : InQueue(v)' <=> InQueue(v))
      /\ UNCHANGED <<config, conns, count, queue, cleanerRunning, mu, open, scratch, err>>
    BY <1>a, <1>b, CancelsAnswered DEF InQueue
<1> HIDE DEF Answers
<1>1. TypeOK'
    <2>1. waiter[w] \in [conn : Conn \cup {None}, answered : BOOLEAN, closes : Nat]
        BY <1>0 DEF TypeOK
    <2>2. waiter' = [waiter EXCEPT ![w] = [@ EXCEPT !.conn = None]]
        BY <1>0
    <2>3. waiter' \in [Waiter -> [conn : Conn \cup {None}, answered : BOOLEAN, closes : Nat]]
        BY <2>1, <2>2 DEF TypeOK
    <2> QED BY <1>0, <2>3 DEF TypeOK, Labels
<1>2. Points'
    BY <1>0 DEF Points, TypeOK
<1>3. Waits'
    <2>1. QueuedIdle'
        BY <1>0
          DEF Waits, QueuedIdle, WaitsTyped, OwnWaiter, NotQueuedYet, Awaited, TypeOK, Points, NewWaiter
    <2>2. WaitsTyped'
        BY <1>0
          DEF Waits, QueuedIdle, WaitsTyped, OwnWaiter, NotQueuedYet, Awaited, TypeOK, Points, NewWaiter
    <2>3. OwnWaiter'
        BY <1>0
          DEF Waits, QueuedIdle, WaitsTyped, OwnWaiter, NotQueuedYet, Awaited, TypeOK, Points, NewWaiter
    <2>4. NotQueuedYet'
        <3> SUFFICES ASSUME NEW q \in Process, pc'[q] = "enqueue"
                     PROVE  /\ waiter'[wait'[q]] = NewWaiter /\ pc'[wait'[q]] = "idle"
                            /\ ~In(Contents(queue'), wait'[q])
                            /\ \A r \in Process : wait'[r] = wait'[q] => r = q
            BY DEF NotQueuedYet, InQueue
        <3>1. CASE q = p
            BY <1>0, <3>1 DEF WaitsTyped, TypeOK, InQueue
        <3>2. CASE q # p
            <4>1. /\ pc[q] = "enqueue" /\ wait'[q] = wait[q] /\ wait[q] \in Waiter
                  /\ wait[q] # w /\ waiter[wait[q]] = NewWaiter /\ pc[wait[q]] = "idle"
                  /\ ~InQueue(wait[q]) /\ \A r \in Process : wait[r] = wait[q] => r = q
                BY <1>0, <3>2 DEF Waits, NotQueuedYet, WaitsTyped, TypeOK
            <4>2. waiter'[wait[q]] = NewWaiter /\ pc'[wait[q]] = "idle"
                BY <1>0, <4>1 DEF TypeOK
            <4>3. ~In(Contents(queue'), wait[q])
                BY <1>0, <4>1 DEF InQueue
            <4>4. \A r \in Process : wait'[r] = wait[q] => r = q
                BY <1>0, <4>1, <3>2 DEF TypeOK
            <4> QED BY <4>1, <4>2, <4>3, <4>4
        <3> QED BY <3>1, <3>2
    <2>5. Awaited'
        BY <1>0
          DEF Waits, QueuedIdle, WaitsTyped, OwnWaiter, NotQueuedYet, Awaited, TypeOK, Points, NewWaiter
    <2> QED BY <2>1, <2>2, <2>3, <2>4, <2>5 DEF Waits
<1>4. Owned'
    <2>1. IdleApart'
        BY <1>0 DEF Owned, IdleApart, HeldApart, HandedApart, AllOwned, TypeOK, Points
    <2>2. HeldApart'
        BY <1>0 DEF Owned, IdleApart, HeldApart, HandedApart, AllOwned, TypeOK, Points
    <2>3. HandedApart'
        BY <1>0 DEF Owned, IdleApart, HeldApart, HandedApart, AllOwned, TypeOK, Points
    <2>4. AllOwned'
        <3> SUFFICES ASSUME NEW d \in open'
                     PROVE  \/ In(conns', d) \/ In(scratch', d)
                            \/ \E q \in Process : hold'[q] = d
                            \/ \E v \in Waiter : waiter'[v].conn = d
            BY DEF AllOwned
        <3>1. CASE d = c
            BY <1>0, <3>1 DEF Owned, IdleApart, HeldApart, HandedApart, AllOwned, TypeOK, Points
        <3>2. CASE d # c
            <4>1. d \in open /\ \A q \in Process : hold[q] = d => hold'[q] = d
                <5>1. d \in open /\ d # None
                    BY <1>0 DEF TypeOK, HostAssumption
                <5>2. hold[p] = None /\ p \in Process
                    BY <1>0 DEF Points
                <5>3. \A q \in Process : q # p => hold'[q] = hold[q]
                    BY <1>0 DEF TypeOK
                <5> HIDE DEF HostInv
                <5> QED BY <5>1, <5>2, <5>3, Zenon
            <4>2. \A v \in Waiter : waiter[v].conn = d => waiter'[v].conn = d
                BY <1>0, <3>2 DEF Owned, IdleApart, HeldApart, HandedApart, AllOwned, TypeOK, Points
            <4>3. (In(conns, d) \/ In(scratch, d)) => (In(conns', d) \/ In(scratch', d))
                BY <1>0, <3>2 DEF Owned, IdleApart, HeldApart, HandedApart, AllOwned, TypeOK, Points
            <4> QED BY <4>1, <4>2, <4>3 DEF Owned, AllOwned
        <3> QED BY <3>1, <3>2
    <2> QED BY <2>1, <2>2, <2>3, <2>4 DEF Owned
<1>5. ReadyClosedOnce'
    BY <1>0 DEF ReadyClosedOnce, TypeOK
<1>6. Placed' = Placed
    BY <1>0 DEF Placed, Delivered, TypeOK, Waits, WaitsTyped, Points, OwnWaiter
<1>7. CountIsExact'
    BY <1>0, <1>6, Lengths, FinitePlaced DEF CountIsExact
<1>8. CountWithinMax'
    BY <1>0 DEF CountWithinMax, TypeOK
<1>9. Starting' = Starting
    BY <1>0 DEF Starting, TypeOK
<1>10. OneCleaner'
    BY <1>0, <1>9, Counted DEF TypeOK, Points
<1> QED BY <1>1, <1>2, <1>3, <1>4, <1>5, <1>7, <1>8, <1>10

LEMMA TimesOutKeeps ==
    ASSUME HostInv, NEW p \in Caller, TimesOut(p)
    PROVE  HostInv'
<1> USE Processes DEF HostInv, TimesOut, At, Answered, Waiting
<1>a. PICK w, c : w = wait[p] /\ c = waiter[w].conn
    OBVIOUS
<1>b. w \in Waiter /\ c \in Conn \cup {None}
    BY <1>a DEF Waits, WaitsTyped, TypeOK
<1>0. /\ pc[p] = "waiting" /\ pc' = [pc EXCEPT ![p] = IF c # None THEN "recycling" ELSE "idle"]
      /\ w \in Waiter /\ w = wait[p] /\ c = waiter[w].conn /\ c \in Conn \cup {None}
      /\ hold' = [hold EXCEPT ![p] = c] /\ wait' = [wait EXCEPT ![p] = None]
      /\ waiter' = [waiter EXCEPT ![w] = [conn |-> None, answered |-> TRUE, closes |-> 1]]
      /\ (\A v : InQueue(v)' <=> InQueue(v))
      /\ UNCHANGED <<config, conns, count, queue, cleanerRunning, mu, open, scratch, err>>
    BY <1>a, <1>b, Cancels DEF InQueue
<1> HIDE DEF TimesOut
<1>1. TypeOK'
    BY <1>0 DEF TypeOK, Labels
<1>2. Points'
    BY <1>0 DEF Points, TypeOK
<1>3. Waits'
    <2>1. QueuedIdle'
        BY <1>0
          DEF Waits, QueuedIdle, WaitsTyped, OwnWaiter, NotQueuedYet, Awaited, TypeOK, Points, NewWaiter
    <2>2. WaitsTyped'
        BY <1>0
          DEF Waits, QueuedIdle, WaitsTyped, OwnWaiter, NotQueuedYet, Awaited, TypeOK, Points, NewWaiter
    <2>3. OwnWaiter'
        BY <1>0
          DEF Waits, QueuedIdle, WaitsTyped, OwnWaiter, NotQueuedYet, Awaited, TypeOK, Points, NewWaiter
    <2>4. NotQueuedYet'
        <3> SUFFICES ASSUME NEW q \in Process, pc'[q] = "enqueue"
                     PROVE  /\ waiter'[wait'[q]] = NewWaiter /\ pc'[wait'[q]] = "idle"
                            /\ ~In(Contents(queue'), wait'[q])
                            /\ \A r \in Process : wait'[r] = wait'[q] => r = q
            BY DEF NotQueuedYet, InQueue
        <3>1. CASE q = p
            BY <1>0, <3>1 DEF WaitsTyped, TypeOK, InQueue
        <3>2. CASE q # p
            <4>1. /\ pc[q] = "enqueue" /\ wait'[q] = wait[q] /\ wait[q] \in Waiter
                  /\ wait[q] # w /\ waiter[wait[q]] = NewWaiter /\ pc[wait[q]] = "idle"
                  /\ ~InQueue(wait[q]) /\ \A r \in Process : wait[r] = wait[q] => r = q
                BY <1>0, <3>2 DEF Waits, NotQueuedYet, WaitsTyped, TypeOK
            <4>2. waiter'[wait[q]] = NewWaiter /\ pc'[wait[q]] = "idle"
                BY <1>0, <4>1 DEF TypeOK
            <4>3. ~In(Contents(queue'), wait[q])
                BY <1>0, <4>1 DEF InQueue
            <4>4. \A r \in Process : wait'[r] = wait[q] => r = q
                BY <1>0, <4>1, <3>2 DEF TypeOK
            <4> QED BY <4>1, <4>2, <4>3, <4>4
        <3> QED BY <3>1, <3>2
    <2>5. Awaited'
        BY <1>0
          DEF Waits, QueuedIdle, WaitsTyped, OwnWaiter, NotQueuedYet, Awaited, TypeOK, Points, NewWaiter
    <2> QED BY <2>1, <2>2, <2>3, <2>4, <2>5 DEF Waits
<1>4. Owned'
    <2>1. IdleApart'
        BY <1>0 DEF Owned, IdleApart, HeldApart, HandedApart, AllOwned, TypeOK, Points
    <2>2. HeldApart'
        BY <1>0 DEF Owned, IdleApart, HeldApart, HandedApart, AllOwned, TypeOK, Points
    <2>3. HandedApart'
        BY <1>0 DEF Owned, IdleApart, HeldApart, HandedApart, AllOwned, TypeOK, Points
    <2>4. AllOwned'
        <3> SUFFICES ASSUME NEW d \in open'
                     PROVE  \/ In(conns', d) \/ In(scratch', d)
                            \/ \E q \in Process : hold'[q] = d
                            \/ \E v \in Waiter : waiter'[v].conn = d
            BY DEF AllOwned
        <3>1. CASE d = c
            BY <1>0, <3>1 DEF Owned, IdleApart, HeldApart, HandedApart, AllOwned, TypeOK, Points
        <3>2. CASE d # c
            <4>1. d \in open /\ \A q \in Process : hold[q] = d => hold'[q] = d
                <5>1. d \in open /\ d # None
                    BY <1>0 DEF TypeOK, HostAssumption
                <5>2. hold[p] = None /\ p \in Process
                    BY <1>0 DEF Points
                <5>3. \A q \in Process : q # p => hold'[q] = hold[q]
                    BY <1>0 DEF TypeOK
                <5> HIDE DEF HostInv
                <5> QED BY <5>1, <5>2, <5>3, Zenon
            <4>2. \A v \in Waiter : waiter[v].conn = d => waiter'[v].conn = d
                BY <1>0, <3>2 DEF Owned, IdleApart, HeldApart, HandedApart, AllOwned, TypeOK, Points
            <4>3. (In(conns, d) \/ In(scratch, d)) => (In(conns', d) \/ In(scratch', d))
                BY <1>0, <3>2 DEF Owned, IdleApart, HeldApart, HandedApart, AllOwned, TypeOK, Points
            <4> QED BY <4>1, <4>2, <4>3 DEF Owned, AllOwned
        <3> QED BY <3>1, <3>2
    <2> QED BY <2>1, <2>2, <2>3, <2>4 DEF Owned
<1>5. ReadyClosedOnce'
    BY <1>0 DEF ReadyClosedOnce, TypeOK
<1>6. Placed' = Placed
    BY <1>0 DEF Placed, Delivered, TypeOK, Waits, WaitsTyped, Points, OwnWaiter
<1>7. CountIsExact'
    BY <1>0, <1>6, Lengths, FinitePlaced DEF CountIsExact
<1>8. CountWithinMax'
    BY <1>0 DEF CountWithinMax, TypeOK
<1>9. Starting' = Starting
    BY <1>0 DEF Starting, TypeOK
<1>10. OneCleaner'
    BY <1>0, <1>9, Counted DEF TypeOK, Points
<1> QED BY <1>1, <1>2, <1>3, <1>4, <1>5, <1>7, <1>8, <1>10

LEMMA ClearFrontKeeps ==
    ASSUME HostInv, NEW p \in Caller, ClearFront(p)
    PROVE  HostInv'
<1> USE Processes DEF HostInv, ClearFront, At, Answered, Waiting
<1>a. queueLen(queue) > 0
    BY FrontQueued DEF TypeOK
<1>b. PICK w : w = Front
    OBVIOUS
<1>c. /\ queue' \in Queues(Waiter) /\ NoDup(Contents(queue'))
      /\ w \in Waiter /\ InQueue(w) /\ (\A v : InQueue(v)' <=> InQueue(v) /\ v # w)
    BY <1>a, <1>b, Popped DEF Waits, QueuedIdle, TypeOK
<1>0. /\ queue' \in Queues(Waiter) /\ NoDup(Contents(queue'))
      /\ w \in Waiter /\ InQueue(w) /\ (\A v : InQueue(v)' <=> InQueue(v) /\ v # w)
      /\ mu' = p
      /\ UNCHANGED <<config, conns, count, cleanerRunning, waiter, open, pc, hold, wait,
                     scratch, err>>
    BY <1>c
<1> HIDE DEF ClearFront
<1>1. TypeOK'
    BY <1>0 DEF TypeOK, Labels
<1>2. Points'
    BY <1>0 DEF Points, TypeOK
<1>3. Waits'
    <2>1. QueuedIdle'
        BY <1>0
          DEF Waits, QueuedIdle, WaitsTyped, OwnWaiter, NotQueuedYet, Awaited, TypeOK, Points, NewWaiter
    <2>2. WaitsTyped'
        BY <1>0
          DEF Waits, QueuedIdle, WaitsTyped, OwnWaiter, NotQueuedYet, Awaited, TypeOK, Points, NewWaiter
    <2>3. OwnWaiter'
        BY <1>0
          DEF Waits, QueuedIdle, WaitsTyped, OwnWaiter, NotQueuedYet, Awaited, TypeOK, Points, NewWaiter
    <2>4. NotQueuedYet'
        <3> SUFFICES ASSUME NEW q \in Process, pc'[q] = "enqueue"
                     PROVE  /\ waiter'[wait'[q]] = NewWaiter /\ pc'[wait'[q]] = "idle"
                            /\ ~In(Contents(queue'), wait'[q])
                            /\ \A r \in Process : wait'[r] = wait'[q] => r = q
            BY DEF NotQueuedYet, InQueue
        <3>1. /\ pc[q] = "enqueue" /\ wait'[q] = wait[q] /\ wait[q] \in Waiter
              /\ waiter[wait[q]] = NewWaiter /\ pc[wait[q]] = "idle"
              /\ ~InQueue(wait[q]) /\ \A r \in Process : wait[r] = wait[q] => r = q
            BY <1>0 DEF Waits, NotQueuedYet, WaitsTyped, TypeOK
        <3>2. waiter'[wait[q]] = NewWaiter /\ pc'[wait[q]] = "idle"
            BY <1>0, <3>1 DEF TypeOK
        <3>3. ~In(Contents(queue'), wait[q])
            BY <1>0, <3>1 DEF InQueue
        <3> QED BY <1>0, <3>1, <3>2, <3>3
    <2>5. Awaited'
        <3>1. \A v \in Waiter : InQueue(v)' => InQueue(v)
            BY <1>0
        <3> QED BY <1>0, <3>1 DEF Waits, Awaited
    <2> QED BY <2>1, <2>2, <2>3, <2>4, <2>5 DEF Waits
<1>4. Owned'
    BY <1>0, OwnedAside DEF TypeOK, Points
<1>5. ReadyClosedOnce'
    BY <1>0 DEF ReadyClosedOnce, TypeOK
<1>6. Placed' = Placed
    BY <1>0 DEF Placed, Delivered, TypeOK, Waits, WaitsTyped, Points
<1>7. CountIsExact'
    BY <1>0, <1>6, Lengths, FinitePlaced DEF CountIsExact
<1>8. CountWithinMax'
    BY <1>0 DEF CountWithinMax, TypeOK
<1>9. Starting' = Starting
    BY <1>0 DEF Starting, TypeOK
<1>10. OneCleaner'
    BY <1>0, <1>9, Counted DEF TypeOK, Points
<1> QED BY <1>1, <1>2, <1>3, <1>4, <1>5, <1>7, <1>8, <1>10

LEMMA PopAnsweredKeeps ==
    ASSUME HostInv, NEW p \in Process, PopAnswered(p)
    PROVE  HostInv'
<1> USE Processes DEF HostInv, PopAnswered, At, Answered, Waiting
<1>a. queueLen(queue) > 0
    BY DEF TypeOK
<1>b. PICK w : w = Front
    OBVIOUS
<1>c. /\ queue' \in Queues(Waiter) /\ NoDup(Contents(queue'))
      /\ w \in Waiter /\ InQueue(w) /\ (\A v : InQueue(v)' <=> InQueue(v) /\ v # w)
    BY <1>a, <1>b, Popped DEF Waits, QueuedIdle, TypeOK
<1>0. /\ queue' \in Queues(Waiter) /\ NoDup(Contents(queue'))
      /\ w \in Waiter /\ InQueue(w) /\ (\A v : InQueue(v)' <=> InQueue(v) /\ v # w)
      /\ mu' = p
      /\ UNCHANGED <<config, conns, count, cleanerRunning, waiter, open, pc, hold, wait,
                     scratch, err>>
    BY <1>c
<1> HIDE DEF PopAnswered
<1>1. TypeOK'
    BY <1>0 DEF TypeOK, Labels
<1>2. Points'
    BY <1>0 DEF Points, TypeOK
<1>3. Waits'
    <2>1. QueuedIdle'
        BY <1>0
          DEF Waits, QueuedIdle, WaitsTyped, OwnWaiter, NotQueuedYet, Awaited, TypeOK, Points, NewWaiter
    <2>2. WaitsTyped'
        BY <1>0
          DEF Waits, QueuedIdle, WaitsTyped, OwnWaiter, NotQueuedYet, Awaited, TypeOK, Points, NewWaiter
    <2>3. OwnWaiter'
        BY <1>0
          DEF Waits, QueuedIdle, WaitsTyped, OwnWaiter, NotQueuedYet, Awaited, TypeOK, Points, NewWaiter
    <2>4. NotQueuedYet'
        <3> SUFFICES ASSUME NEW q \in Process, pc'[q] = "enqueue"
                     PROVE  /\ waiter'[wait'[q]] = NewWaiter /\ pc'[wait'[q]] = "idle"
                            /\ ~In(Contents(queue'), wait'[q])
                            /\ \A r \in Process : wait'[r] = wait'[q] => r = q
            BY DEF NotQueuedYet, InQueue
        <3>1. /\ pc[q] = "enqueue" /\ wait'[q] = wait[q] /\ wait[q] \in Waiter
              /\ waiter[wait[q]] = NewWaiter /\ pc[wait[q]] = "idle"
              /\ ~InQueue(wait[q]) /\ \A r \in Process : wait[r] = wait[q] => r = q
            BY <1>0 DEF Waits, NotQueuedYet, WaitsTyped, TypeOK
        <3>2. waiter'[wait[q]] = NewWaiter /\ pc'[wait[q]] = "idle"
            BY <1>0, <3>1 DEF TypeOK
        <3>3. ~In(Contents(queue'), wait[q])
            BY <1>0, <3>1 DEF InQueue
        <3> QED BY <1>0, <3>1, <3>2, <3>3
    <2>5. Awaited'
        BY <1>0
          DEF Waits, QueuedIdle, WaitsTyped, OwnWaiter, NotQueuedYet, Awaited, TypeOK, Points, NewWaiter
    <2> QED BY <2>1, <2>2, <2>3, <2>4, <2>5 DEF Waits
<1>4. Owned'
    BY <1>0, OwnedAside DEF TypeOK, Points
<1>5. ReadyClosedOnce'
    BY <1>0 DEF ReadyClosedOnce, TypeOK
<1>6. Placed' = Placed
    BY <1>0 DEF Placed, Delivered, TypeOK, Waits, WaitsTyped, Points
<1>7. CountIsExact'
    BY <1>0, <1>6, Lengths, FinitePlaced DEF CountIsExact
<1>8. CountWithinMax'
    BY <1>0 DEF CountWithinMax, TypeOK
<1>9. Starting' = Starting
    BY <1>0 DEF Starting, TypeOK
<1>10. OneCleaner'
    BY <1>0, <1>9, Counted DEF TypeOK, Points
<1> QED BY <1>1, <1>2, <1>3, <1>4, <1>5, <1>7, <1>8, <1>10

-----------------------------------------------------------------------------
(* Handing over to a waiting caller.                                       *)

LEMMA RecyclePopKeeps ==
    ASSUME HostInv, NEW p \in Process, RecyclePop(p)
    PROVE  HostInv'
<1> USE Processes DEF HostInv, RecyclePop, At, Answered, Waiting
<1>a. queueLen(queue) > 0
    BY DEF TypeOK
<1>b. PICK w : w = Front
    OBVIOUS
<1>c. /\ queue' \in Queues(Waiter) /\ NoDup(Contents(queue'))
      /\ w \in Waiter /\ InQueue(w) /\ (\A v : InQueue(v)' <=> InQueue(v) /\ v # w)
    BY <1>a, <1>b, Popped DEF Waits, QueuedIdle, TypeOK
<1>0. /\ queue' \in Queues(Waiter) /\ NoDup(Contents(queue'))
      /\ w \in Waiter /\ InQueue(w) /\ (\A v : InQueue(v)' <=> InQueue(v) /\ v # w)
      /\ pc[p] = "recycling" /\ pc' = [pc EXCEPT ![p] = "delivering"] /\ pc[w] = "idle"
      /\ wait' = [wait EXCEPT ![p] = w] /\ mu' = p /\ ~waiter[w].answered
      /\ UNCHANGED <<config, conns, count, cleanerRunning, waiter, open, hold, scratch, err>>
    BY <1>b, <1>c DEF Waits, QueuedIdle, ReadyClosedOnce
<1> HIDE DEF RecyclePop
<1>1. TypeOK'
    BY <1>0 DEF TypeOK, Labels
<1>2. Points'
    BY <1>0 DEF Points, TypeOK
<1>3. Waits'
    <2>1. QueuedIdle'
        BY <1>0
          DEF Waits, QueuedIdle, WaitsTyped, OwnWaiter, NotQueuedYet, Awaited, TypeOK, Points, NewWaiter
    <2>2. WaitsTyped'
        BY <1>0
          DEF Waits, QueuedIdle, WaitsTyped, OwnWaiter, NotQueuedYet, Awaited, TypeOK, Points, NewWaiter
    <2>3. OwnWaiter'
        BY <1>0
          DEF Waits, QueuedIdle, WaitsTyped, OwnWaiter, NotQueuedYet, Awaited, TypeOK, Points, NewWaiter
    <2>4. NotQueuedYet'
        <3> SUFFICES ASSUME NEW q \in Process, pc'[q] = "enqueue"
                     PROVE  /\ waiter'[wait'[q]] = NewWaiter /\ pc'[wait'[q]] = "idle"
                            /\ ~In(Contents(queue'), wait'[q])
                            /\ \A r \in Process : wait'[r] = wait'[q] => r = q
            BY DEF NotQueuedYet, InQueue
        <3>1. CASE q = p
            BY <1>0, <3>1 DEF WaitsTyped, TypeOK, InQueue
        <3>2. CASE q # p
            <4>1. /\ pc[q] = "enqueue" /\ wait'[q] = wait[q] /\ wait[q] \in Waiter
                  /\ wait[q] # w /\ waiter[wait[q]] = NewWaiter /\ pc[wait[q]] = "idle"
                  /\ ~InQueue(wait[q]) /\ \A r \in Process : wait[r] = wait[q] => r = q
                BY <1>0, <3>2 DEF Waits, NotQueuedYet, WaitsTyped, TypeOK
            <4>2. waiter'[wait[q]] = NewWaiter /\ pc'[wait[q]] = "idle"
                BY <1>0, <4>1 DEF TypeOK
            <4>3. ~In(Contents(queue'), wait[q])
                BY <1>0, <4>1 DEF InQueue
            <4>4. \A r \in Process : wait'[r] = wait[q] => r = q
                BY <1>0, <4>1, <3>2 DEF TypeOK
            <4> QED BY <4>1, <4>2, <4>3, <4>4
        <3> QED BY <3>1, <3>2
    <2>5. Awaited'
        <3>1. ASSUME NEW v \in Waiter, ~Answered(v)',
                     \/ InQueue(v)' \/ pc'[v] = "dialing"
                     \/ \E r \in Process : pc'[r] = "delivering" /\ wait'[r] = v
              PROVE  \E r \in Caller : pc'[r] = "waiting" /\ wait'[r] = v
            <4>1. /\ ~Answered(v)
                  /\ \/ InQueue(v) \/ pc[v] = "dialing"
                     \/ \E r \in Process : pc[r] = "delivering" /\ wait[r] = v
                BY <1>0, <3>1 DEF TypeOK
            <4>2. PICK r \in Caller : pc[r] = "waiting" /\ wait[r] = v
                BY <4>1 DEF Waits, Awaited
            <4> QED BY <1>0, <4>2 DEF TypeOK
        <3>2. ASSUME NEW v \in Waiter, waiter'[v].conn # None
              PROVE  Answered(v)' /\ \E r \in Caller : pc'[r] = "waiting" /\ wait'[r] = v
            <4>1. PICK r \in Caller : pc[r] = "waiting" /\ wait[r] = v /\ Answered(v)
                BY <1>0, <3>2 DEF Waits, Awaited, TypeOK
            <4> QED BY <1>0, <4>1 DEF TypeOK
        <3> QED BY <3>1, <3>2 DEF Awaited
    <2> QED BY <2>1, <2>2, <2>3, <2>4, <2>5 DEF Waits
<1>4. Owned'
    BY <1>0, OwnedAside DEF TypeOK, Points
<1>5. ReadyClosedOnce'
    BY <1>0 DEF ReadyClosedOnce, TypeOK
<1>6. Placed' = Placed
    BY <1>0 DEF Placed, Delivered, TypeOK, Waits, WaitsTyped, Points
<1>7. CountIsExact'
    BY <1>0, <1>6, Lengths, FinitePlaced DEF CountIsExact
<1>8. CountWithinMax'
    BY <1>0 DEF CountWithinMax, TypeOK
<1>9. Starting' = Starting
    BY <1>0 DEF Starting, TypeOK
<1>10. OneCleaner'
    BY <1>0, <1>9, Counted DEF TypeOK, Points
<1> QED BY <1>1, <1>2, <1>3, <1>4, <1>5, <1>7, <1>8, <1>10

LEMMA DialForWaitingCallerKeeps ==
    ASSUME HostInv, NEW p \in Process, DialForWaitingCaller(p)
    PROVE  HostInv'
<1> USE Processes DEF HostInv, DialForWaitingCaller, Discarded, At, Answered, Waiting
<1>a. queueLen(queue) > 0
    BY DEF TypeOK
<1>b. PICK w : w = Front
    OBVIOUS
<1>c. /\ queue' \in Queues(Waiter) /\ NoDup(Contents(queue'))
      /\ w \in Waiter /\ InQueue(w) /\ (\A v : InQueue(v)' <=> InQueue(v) /\ v # w)
    BY <1>a, <1>b, Popped DEF Waits, QueuedIdle, TypeOK
<1>0. /\ queue' \in Queues(Waiter) /\ NoDup(Contents(queue'))
      /\ w \in Waiter /\ InQueue(w) /\ (\A v : InQueue(v)' <=> InQueue(v) /\ v # w)
      /\ pc[p] = "discarding" /\ pc[w] = "idle" /\ mu' = None /\ ~waiter[w].answered /\ p # w
      /\ pc' = [pc EXCEPT ![w] = "dialing", ![p] = IF hold[p] # None THEN "closing" ELSE "idle"]
      /\ UNCHANGED <<config, conns, count, cleanerRunning, waiter, open, hold, wait, scratch, err>>
    BY <1>b, <1>c DEF Waits, QueuedIdle, ReadyClosedOnce
<1> HIDE DEF DialForWaitingCaller
<1>d. /\ pc'[w] = "dialing" /\ pc'[p] = IF hold[p] # None THEN "closing" ELSE "idle"
      /\ \A q \in Process : q # p /\ q # w => pc'[q] = pc[q]
    BY <1>0 DEF TypeOK
<1>1. TypeOK'
    BY <1>0 DEF TypeOK, Labels
<1>2. Points'
    <2>1. hold' = hold /\ scratch' = scratch
        BY <1>0
    <2>2. hold[w] = None /\ pc[p] = "discarding" /\ w \in Waiter /\ p # w
        BY <1>0 DEF Points
    <2>3. Points
        OBVIOUS
    <2> HIDE DEF HostInv
    <2>4. \A q \in Caller : pc'[q] \notin {"scanning", "destroying", "stopping"}
        BY <1>d, <2>2, <2>3 DEF Points
    <2>5. \A v \in Waiter : pc'[v] \in {"idle", "dialing", "recycling", "delivering", "discarding"}
        BY <1>d, <2>2, <2>3 DEF Points
    <2>6. /\ pc'[Cleaner] \in {"idle", "scanning", "destroying", "discarding", "closing", "stopping"}
          /\ pc'[Cleaner] = "discarding" => hold[Cleaner] # None
          /\ pc'[Cleaner] \in {"idle", "scanning", "stopping"} => scratch = <<>>
        BY <1>d, <2>2, <2>3 DEF Points
    <2>7. \A q \in Process :
            /\ pc'[q] \in {"using", "recycling", "delivering", "closing"} => hold[q] # None
            /\ hold[q] # None =>
                  pc'[q] \in {"using", "recycling", "delivering", "closing", "discarding"}
        BY <1>d, <2>2, <2>3 DEF Points
    <2>8. \A v \in Waiter : pc'[v] = "discarding" => hold[v] = None
        BY <1>d, <2>2, <2>3 DEF Points
    <2> QED BY <2>1, <2>4, <2>5, <2>6, <2>7, <2>8 DEF Points
<1>3. Waits'
    <2>1. QueuedIdle'
        BY <1>0
          DEF Waits, QueuedIdle, WaitsTyped, OwnWaiter, NotQueuedYet, Awaited, TypeOK, Points, NewWaiter
    <2>2. WaitsTyped'
        <3>1. WaitsTyped /\ wait' = wait /\ pc[p] = "discarding" /\ pc[w] = "idle" /\ w \in Process
            BY <1>0 DEF Waits
        <3> HIDE DEF HostInv
        <3> QED BY <1>d, <3>1 DEF WaitsTyped
    <2>3. OwnWaiter'
        BY <1>0
          DEF Waits, QueuedIdle, WaitsTyped, OwnWaiter, NotQueuedYet, Awaited, TypeOK, Points, NewWaiter
    <2>4. NotQueuedYet'
        <3> SUFFICES ASSUME NEW q \in Process, pc'[q] = "enqueue"
                     PROVE  /\ waiter'[wait'[q]] = NewWaiter /\ pc'[wait'[q]] = "idle"
                            /\ ~In(Contents(queue'), wait'[q])
                            /\ \A r \in Process : wait'[r] = wait'[q] => r = q
            BY DEF NotQueuedYet, InQueue
        <3>1. /\ pc[q] = "enqueue" /\ wait'[q] = wait[q] /\ wait[q] \in Waiter
              /\ waiter[wait[q]] = NewWaiter /\ pc[wait[q]] = "idle"
              /\ ~InQueue(wait[q]) /\ \A r \in Process : wait[r] = wait[q] => r = q
            BY <1>0 DEF Waits, NotQueuedYet, WaitsTyped, TypeOK
        <3>2. waiter'[wait[q]] = NewWaiter /\ pc'[wait[q]] = "idle"
            BY <1>0, <3>1 DEF TypeOK
        <3>3. ~In(Contents(queue'), wait[q])
            BY <1>0, <3>1 DEF InQueue
        <3> QED BY <1>0, <3>1, <3>2, <3>3
    <2>5. Awaited'
        <3>1. ASSUME NEW v \in Waiter, ~Answered(v)',
                     \/ InQueue(v)' \/ pc'[v] = "dialing"
                     \/ \E r \in Process : pc'[r] = "delivering" /\ wait'[r] = v
              PROVE  \E r \in Caller : pc'[r] = "waiting" /\ wait'[r] = v
            <4>1. /\ ~Answered(v)
                  /\ \/ InQueue(v) \/ pc[v] = "dialing"
                     \/ \E r \in Process : pc[r] = "delivering" /\ wait[r] = v
                BY <1>0, <3>1 DEF TypeOK
            <4>2. PICK r \in Caller : pc[r] = "waiting" /\ wait[r] = v
                BY <4>1 DEF Waits, Awaited
            <4> QED BY <1>0, <4>2 DEF TypeOK
        <3>2. ASSUME NEW v \in Waiter, waiter'[v].conn # None
              PROVE  Answered(v)' /\ \E r \in Caller : pc'[r] = "waiting" /\ wait'[r] = v
            <4>1. PICK r \in Caller : pc[r] = "waiting" /\ wait[r] = v /\ Answered(v)
                BY <1>0, <3>2 DEF Waits, Awaited, TypeOK
            <4> QED BY <1>0, <4>1 DEF TypeOK
        <3> QED BY <3>1, <3>2 DEF Awaited
    <2> QED BY <2>1, <2>2, <2>3, <2>4, <2>5 DEF Waits
<1>4. Owned'
    BY <1>0, OwnedAside DEF TypeOK, Points
<1>5. ReadyClosedOnce'
    BY <1>0 DEF ReadyClosedOnce, TypeOK
<1>6. Placed' = (Placed \ {p}) \cup {w} /\ p \in Placed /\ w \notin Placed
    BY <1>0 DEF Placed, Delivered, TypeOK, Waits, WaitsTyped, Points
<1>7. CountIsExact'
    <2>1. Cardinality(Placed') = Cardinality(Placed)
        BY <1>6, Swapped
    <2> QED BY <1>0, <2>1 DEF CountIsExact
<1>8. CountWithinMax'
    BY <1>0 DEF CountWithinMax, TypeOK
<1>9. Starting' = Starting
    BY <1>0 DEF Starting, TypeOK
<1>10. OneCleaner'
    BY <1>0, <1>9, Counted DEF TypeOK, Points
<1> QED BY <1>1, <1>2, <1>3, <1>4, <1>5, <1>7, <1>8, <1>10

LEMMA DeliverKeeps ==
    ASSUME HostInv, NEW p \in Process, RecycleDeliver(p), ~Answered(wait[p])
    PROVE  HostInv'
<1> USE Processes DEF HostInv, RecycleDeliver, At, Answered, Waiting
<1>a. PICK w, c : w = wait[p] /\ c = hold[p]
    OBVIOUS
<1>b. w \in Waiter /\ c \in Conn
    BY <1>a DEF Waits, WaitsTyped, TypeOK, Points
<1>c. PICK q \in Caller : pc[q] = "waiting" /\ wait[q] = w
    BY <1>a, <1>b DEF Waits, Awaited
<1>d. ~waiter[w].answered /\ tryDeliver(w, c)
    BY <1>a
<1>e. waiter' = [waiter EXCEPT ![w] = [conn |-> c, answered |-> TRUE, closes |-> 1]]
    BY <1>b, <1>d, Delivers
<1>0. /\ pc[p] = "delivering" /\ pc' = [pc EXCEPT ![p] = "idle"] /\ mu' = None
      /\ w \in Waiter /\ c \in Conn /\ w = wait[p] /\ c = hold[p]
      /\ pc[q] = "waiting" /\ wait[q] = w /\ q # p /\ waiter[w].conn = None /\ ~waiter[w].answered
      /\ hold' = [hold EXCEPT ![p] = None] /\ wait' = [wait EXCEPT ![p] = None]
      /\ waiter' = [waiter EXCEPT ![w] = [conn |-> c, answered |-> TRUE, closes |-> 1]]
      /\ (\A v : InQueue(v)' <=> InQueue(v))
      /\ UNCHANGED <<config, conns, count, queue, cleanerRunning, open, scratch, err>>
    BY <1>a, <1>b, <1>c, <1>d, <1>e DEF InQueue, Waits, Awaited
<1> HIDE DEF RecycleDeliver
<1>1. TypeOK'
    BY <1>0 DEF TypeOK, Labels
<1>2. Points'
    BY <1>0 DEF Points, TypeOK
<1>3. Waits'
    <2>1. QueuedIdle'
        BY <1>0
          DEF Waits, QueuedIdle, WaitsTyped, OwnWaiter, NotQueuedYet, Awaited, TypeOK, Points, NewWaiter
    <2>2. WaitsTyped'
        BY <1>0
          DEF Waits, QueuedIdle, WaitsTyped, OwnWaiter, NotQueuedYet, Awaited, TypeOK, Points, NewWaiter
    <2>3. OwnWaiter'
        BY <1>0
          DEF Waits, QueuedIdle, WaitsTyped, OwnWaiter, NotQueuedYet, Awaited, TypeOK, Points, NewWaiter
    <2>4. NotQueuedYet'
        <3> SUFFICES ASSUME NEW z \in Process, pc'[z] = "enqueue"
                     PROVE  /\ waiter'[wait'[z]] = NewWaiter /\ pc'[wait'[z]] = "idle"
                            /\ ~In(Contents(queue'), wait'[z])
                            /\ \A r \in Process : wait'[r] = wait'[z] => r = z
            BY DEF NotQueuedYet, InQueue
        <3>1. CASE z = p
            BY <1>0, <3>1 DEF WaitsTyped, TypeOK, InQueue
        <3>2. CASE z # p
            <4>1. /\ pc[z] = "enqueue" /\ wait'[z] = wait[z] /\ wait[z] \in Waiter
                  /\ wait[z] # w /\ waiter[wait[z]] = NewWaiter /\ pc[wait[z]] = "idle"
                  /\ ~InQueue(wait[z]) /\ \A r \in Process : wait[r] = wait[z] => r = z
                BY <1>0, <3>2 DEF Waits, NotQueuedYet, WaitsTyped, TypeOK
            <4>2. waiter'[wait[z]] = NewWaiter /\ pc'[wait[z]] = "idle"
                BY <1>0, <4>1 DEF TypeOK
            <4>3. ~In(Contents(queue'), wait[z])
                BY <1>0, <4>1 DEF InQueue
            <4>4. \A r \in Process : wait'[r] = wait[z] => r = z
                BY <1>0, <4>1, <3>2 DEF TypeOK
            <4> QED BY <4>1, <4>2, <4>3, <4>4
        <3> QED BY <3>1, <3>2
    <2>5. Awaited'
        BY <1>0
          DEF Waits, QueuedIdle, WaitsTyped, OwnWaiter, NotQueuedYet, Awaited, TypeOK, Points, NewWaiter
    <2> QED BY <2>1, <2>2, <2>3, <2>4, <2>5 DEF Waits
<1>4. Owned'
    <2>1. IdleApart'
        BY <1>0 DEF Owned, IdleApart, HeldApart, HandedApart, AllOwned, TypeOK, Points
    <2>2. HeldApart'
        BY <1>0 DEF Owned, IdleApart, HeldApart, HandedApart, AllOwned, TypeOK, Points
    <2>3. HandedApart'
        BY <1>0 DEF Owned, IdleApart, HeldApart, HandedApart, AllOwned, TypeOK, Points
    <2>4. AllOwned'
        <3> SUFFICES ASSUME NEW d \in open'
                     PROVE  \/ In(conns', d) \/ In(scratch', d)
                            \/ \E r \in Process : hold'[r] = d
                            \/ \E v \in Waiter : waiter'[v].conn = d
            BY DEF AllOwned
        <3>1. CASE d = c
            BY <1>0, <3>1 DEF Owned, IdleApart, HeldApart, HandedApart, AllOwned, TypeOK, Points
        <3>2. CASE d # c
            <4>1. d \in open /\ \A r \in Process : hold[r] = d => hold'[r] = d
                BY <1>0, <3>2 DEF TypeOK, Points
            <4>2. \A v \in Waiter : waiter[v].conn = d => waiter'[v].conn = d
                BY <1>0, <3>2 DEF Owned, IdleApart, HeldApart, HandedApart, AllOwned, TypeOK, Points
            <4>3. (In(conns, d) \/ In(scratch, d)) => (In(conns', d) \/ In(scratch', d))
                BY <1>0, <3>2 DEF Owned, IdleApart, HeldApart, HandedApart, AllOwned, TypeOK, Points
            <4> QED BY <4>1, <4>2, <4>3 DEF Owned, AllOwned
        <3> QED BY <3>1, <3>2
    <2> QED BY <2>1, <2>2, <2>3, <2>4 DEF Owned
<1>5. ReadyClosedOnce'
    BY <1>0 DEF ReadyClosedOnce, TypeOK
<1>6. Placed' = (Placed \ {p}) \cup {q} /\ p \in Placed /\ q \notin Placed
    BY <1>0 DEF Placed, Delivered, TypeOK, Waits, WaitsTyped, Points, OwnWaiter
<1>7. CountIsExact'
    <2>1. Cardinality(Placed') = Cardinality(Placed)
        BY <1>6, Swapped
    <2> QED BY <1>0, <2>1 DEF CountIsExact
<1>8. CountWithinMax'
    BY <1>0 DEF CountWithinMax, TypeOK
<1>9. Starting' = Starting
    BY <1>0 DEF Starting, TypeOK
<1>10. OneCleaner'
    BY <1>0, <1>9, Counted DEF TypeOK, Points
<1> QED BY <1>1, <1>2, <1>3, <1>4, <1>5, <1>7, <1>8, <1>10

LEMMA DeliverTooLateKeeps ==
    ASSUME HostInv, NEW p \in Process, RecycleDeliver(p), Answered(wait[p])
    PROVE  HostInv'
<1> USE Processes DEF HostInv, RecycleDeliver, At, Answered, Waiting
<1>a. PICK w, c : w = wait[p] /\ c = hold[p]
    OBVIOUS
<1>b. w \in Waiter /\ c \in Conn
    BY <1>a DEF Waits, WaitsTyped, TypeOK, Points
<1>c. /\ conns' \in Seq(Conn) /\ Len(conns') = Len(conns) + 1
      /\ NoDup(conns') /\ (\A x : In(conns', x) <=> In(conns, x) \/ x = c)
    <2>1. NoDup(conns) /\ conns \in Seq(Conn) /\ ~In(conns, c)
        BY <1>a, <1>b, Processes DEF TypeOK, Owned, IdleApart, HeldApart, Points
    <2>2. conns' = Append(conns, c)
        BY <1>a
    <2> QED BY <1>b, <2>1, <2>2, Appended
<1>0. /\ pc[p] = "delivering" /\ pc' = [pc EXCEPT ![p] = "idle"] /\ mu' = None
      /\ w \in Waiter /\ c \in Conn /\ w = wait[p] /\ c = hold[p]
      /\ conns' \in Seq(Conn) /\ Len(conns') = Len(conns) + 1
      /\ NoDup(conns') /\ (\A x : In(conns', x) <=> In(conns, x) \/ x = c)
      /\ hold' = [hold EXCEPT ![p] = None] /\ wait' = [wait EXCEPT ![p] = None]
      /\ (\A v : InQueue(v)' <=> InQueue(v))
      /\ UNCHANGED <<config, count, queue, cleanerRunning, waiter, open, scratch, err>>
    BY <1>a, <1>b, <1>c, Delivers DEF InQueue
<1> HIDE DEF RecycleDeliver
<1>1. TypeOK'
    BY <1>0 DEF TypeOK, Labels
<1>2. Points'
    BY <1>0 DEF Points, TypeOK
<1>3. Waits'
    <2>1. QueuedIdle'
        BY <1>0
          DEF Waits, QueuedIdle, WaitsTyped, OwnWaiter, NotQueuedYet, Awaited, TypeOK, Points, NewWaiter
    <2>2. WaitsTyped'
        BY <1>0
          DEF Waits, QueuedIdle, WaitsTyped, OwnWaiter, NotQueuedYet, Awaited, TypeOK, Points, NewWaiter
    <2>3. OwnWaiter'
        BY <1>0
          DEF Waits, QueuedIdle, WaitsTyped, OwnWaiter, NotQueuedYet, Awaited, TypeOK, Points, NewWaiter
    <2>4. NotQueuedYet'
        <3> SUFFICES ASSUME NEW q \in Process, pc'[q] = "enqueue"
                     PROVE  /\ waiter'[wait'[q]] = NewWaiter /\ pc'[wait'[q]] = "idle"
                            /\ ~In(Contents(queue'), wait'[q])
                            /\ \A r \in Process : wait'[r] = wait'[q] => r = q
            BY DEF NotQueuedYet, InQueue
        <3>1. CASE q = p
            BY <1>0, <3>1 DEF WaitsTyped, TypeOK, InQueue
        <3>2. CASE q # p
            <4>1. /\ pc[q] = "enqueue" /\ wait'[q] = wait[q] /\ wait[q] \in Waiter
                  /\ wait[q] # w /\ waiter[wait[q]] = NewWaiter /\ pc[wait[q]] = "idle"
                  /\ ~InQueue(wait[q]) /\ \A r \in Process : wait[r] = wait[q] => r = q
                BY <1>0, <3>2 DEF Waits, NotQueuedYet, WaitsTyped, TypeOK
            <4>2. waiter'[wait[q]] = NewWaiter /\ pc'[wait[q]] = "idle"
                BY <1>0, <4>1 DEF TypeOK
            <4>3. ~In(Contents(queue'), wait[q])
                BY <1>0, <4>1 DEF InQueue
            <4>4. \A r \in Process : wait'[r] = wait[q] => r = q
                BY <1>0, <4>1, <3>2 DEF TypeOK
            <4> QED BY <4>1, <4>2, <4>3, <4>4
        <3> QED BY <3>1, <3>2
    <2>5. Awaited'
        <3>1. ASSUME NEW v \in Waiter, ~Answered(v)',
                     \/ InQueue(v)' \/ pc'[v] = "dialing"
                     \/ \E r \in Process : pc'[r] = "delivering" /\ wait'[r] = v
              PROVE  \E r \in Caller : pc'[r] = "waiting" /\ wait'[r] = v
            <4>1. /\ ~Answered(v)
                  /\ \/ InQueue(v) \/ pc[v] = "dialing"
                     \/ \E r \in Process : pc[r] = "delivering" /\ wait[r] = v
                BY <1>0, <3>1 DEF TypeOK
            <4>2. PICK r \in Caller : pc[r] = "waiting" /\ wait[r] = v
                BY <4>1 DEF Waits, Awaited
            <4> QED BY <1>0, <4>2 DEF TypeOK
        <3>2. ASSUME NEW v \in Waiter, waiter'[v].conn # None
              PROVE  Answered(v)' /\ \E r \in Caller : pc'[r] = "waiting" /\ wait'[r] = v
            <4>1. PICK r \in Caller : pc[r] = "waiting" /\ wait[r] = v /\ Answered(v)
                BY <1>0, <3>2 DEF Waits, Awaited, TypeOK
            <4> QED BY <1>0, <4>1 DEF TypeOK
        <3> QED BY <3>1, <3>2 DEF Awaited
    <2> QED BY <2>1, <2>2, <2>3, <2>4, <2>5 DEF Waits
<1>4. Owned'
    <2>1. IdleApart'
        BY <1>0 DEF Owned, IdleApart, HeldApart, HandedApart, AllOwned, TypeOK, Points
    <2>2. HeldApart'
        BY <1>0 DEF Owned, IdleApart, HeldApart, HandedApart, AllOwned, TypeOK, Points
    <2>3. HandedApart'
        BY <1>0 DEF Owned, IdleApart, HeldApart, HandedApart, AllOwned, TypeOK, Points
    <2>4. AllOwned'
        <3> SUFFICES ASSUME NEW d \in open'
                     PROVE  \/ In(conns', d) \/ In(scratch', d)
                            \/ \E q \in Process : hold'[q] = d
                            \/ \E v \in Waiter : waiter'[v].conn = d
            BY DEF AllOwned
        <3>1. CASE d = c
            BY <1>0, <3>1 DEF Owned, IdleApart, HeldApart, HandedApart, AllOwned, TypeOK, Points
        <3>2. CASE d # c
            <4>1. d \in open /\ \A q \in Process : hold[q] = d => hold'[q] = d
                BY <1>0, <3>2 DEF TypeOK, Points
            <4>2. \A v \in Waiter : waiter[v].conn = d => waiter'[v].conn = d
                BY <1>0, <3>2 DEF Owned, IdleApart, HeldApart, HandedApart, AllOwned, TypeOK, Points
            <4>3. (In(conns, d) \/ In(scratch, d)) => (In(conns', d) \/ In(scratch', d))
                BY <1>0, <3>2 DEF Owned, IdleApart, HeldApart, HandedApart, AllOwned, TypeOK, Points
            <4> QED BY <4>1, <4>2, <4>3 DEF Owned, AllOwned
        <3> QED BY <3>1, <3>2
    <2> QED BY <2>1, <2>2, <2>3, <2>4 DEF Owned
<1>5. ReadyClosedOnce'
    BY <1>0 DEF ReadyClosedOnce, TypeOK
<1>6. Placed' = Placed \ {p} /\ p \in Placed
    BY <1>0 DEF Placed, Delivered, TypeOK, Waits, WaitsTyped, Points
<1>7. CountIsExact'
    <2>1. Cardinality(Placed') = Cardinality(Placed) - 1
        BY <1>6, FinitePlaced, FS_RemoveElement
    <2> QED BY <1>0, <2>1, FinitePlaced, Lengths DEF CountIsExact
<1>8. CountWithinMax'
    BY <1>0 DEF CountWithinMax, TypeOK
<1>9. Starting' = Starting
    BY <1>0 DEF Starting, TypeOK
<1>10. OneCleaner'
    BY <1>0, <1>9, Counted DEF TypeOK, Points
<1> QED BY <1>1, <1>2, <1>3, <1>4, <1>5, <1>7, <1>8, <1>10

LEMMA DialerDeliversKeeps ==
    ASSUME HostInv, NEW p \in Waiter, DialerSucceeds(p), ~Answered(p)
    PROVE  HostInv'
<1> USE Processes DEF HostInv, DialerSucceeds, At, Answered, Waiting
<1>a. PICK c \in Conn : Fresh(c) /\ open' = open \cup {c}
                         /\ tryDeliver(p, c)
                         /\ \/ /\ ~Answered(p) /\ UNCHANGED hold
                               /\ pc' = [pc EXCEPT ![p] = "idle"]
                            \/ /\ Answered(p) /\ hold' = [hold EXCEPT ![p] = c]
                               /\ pc' = [pc EXCEPT ![p] = "recycling"]
    OBVIOUS
<1>b. PICK q \in Caller : pc[q] = "waiting" /\ wait[q] = p
    BY DEF Waits, Awaited
<1>0. /\ pc[p] = "dialing" /\ pc' = [pc EXCEPT ![p] = "idle"] /\ c \in Conn
      /\ pc[q] = "waiting" /\ wait[q] = p /\ q # p /\ waiter[p].conn = None /\ ~waiter[p].answered
      /\ open' = open \cup {c} /\ c \notin open /\ (\A r \in Process : hold[r] # c)
      /\ waiter' = [waiter EXCEPT ![p] = [conn |-> c, answered |-> TRUE, closes |-> 1]]
      /\ (\A v : InQueue(v)' <=> InQueue(v))
      /\ UNCHANGED <<config, conns, count, queue, cleanerRunning, mu, hold, wait, scratch, err>>
    BY <1>a, <1>b, Delivers DEF InQueue, Waits, Awaited, Fresh
<1> HIDE DEF DialerSucceeds
<1>1. TypeOK'
    BY <1>0 DEF TypeOK, Labels
<1>2. Points'
    BY <1>0 DEF Points, TypeOK
<1>3. Waits'
    <2>1. QueuedIdle'
        BY <1>0
          DEF Waits, QueuedIdle, WaitsTyped, OwnWaiter, NotQueuedYet, Awaited, TypeOK, Points, NewWaiter
    <2>2. WaitsTyped'
        BY <1>0
          DEF Waits, QueuedIdle, WaitsTyped, OwnWaiter, NotQueuedYet, Awaited, TypeOK, Points, NewWaiter
    <2>3. OwnWaiter'
        BY <1>0
          DEF Waits, QueuedIdle, WaitsTyped, OwnWaiter, NotQueuedYet, Awaited, TypeOK, Points, NewWaiter
    <2>4. NotQueuedYet'
        <3> SUFFICES ASSUME NEW z \in Process, pc'[z] = "enqueue"
                     PROVE  /\ waiter'[wait'[z]] = NewWaiter /\ pc'[wait'[z]] = "idle"
                            /\ ~In(Contents(queue'), wait'[z])
                            /\ \A r \in Process : wait'[r] = wait'[z] => r = z
            BY DEF NotQueuedYet, InQueue
        <3>1. /\ pc[z] = "enqueue" /\ wait'[z] = wait[z] /\ wait[z] \in Waiter
              /\ waiter[wait[z]] = NewWaiter /\ pc[wait[z]] = "idle"
              /\ ~InQueue(wait[z]) /\ \A r \in Process : wait[r] = wait[z] => r = z
            BY <1>0 DEF Waits, NotQueuedYet, WaitsTyped, TypeOK
        <3>2. waiter'[wait[z]] = NewWaiter /\ pc'[wait[z]] = "idle"
            BY <1>0, <3>1 DEF TypeOK
        <3>3. ~In(Contents(queue'), wait[z])
            BY <1>0, <3>1 DEF InQueue
        <3> QED BY <1>0, <3>1, <3>2, <3>3
    <2>5. Awaited'
        <3>1. ASSUME NEW v \in Waiter, ~Answered(v)',
                     \/ InQueue(v)' \/ pc'[v] = "dialing"
                     \/ \E r \in Process : pc'[r] = "delivering" /\ wait'[r] = v
              PROVE  \E r \in Caller : pc'[r] = "waiting" /\ wait'[r] = v
            <4>1. /\ ~Answered(v)
                  /\ \/ InQueue(v) \/ pc[v] = "dialing"
                     \/ \E r \in Process : pc[r] = "delivering" /\ wait[r] = v
                BY <1>0, <3>1 DEF TypeOK
            <4>2. PICK r \in Caller : pc[r] = "waiting" /\ wait[r] = v
                BY <4>1 DEF Waits, Awaited
            <4> QED BY <1>0, <4>2 DEF TypeOK
        <3>2. ASSUME NEW v \in Waiter, waiter'[v].conn # None
              PROVE  Answered(v)' /\ \E r \in Caller : pc'[r] = "waiting" /\ wait'[r] = v
            <4>1. CASE v = p
                <5>1. pc'[q] = "waiting" /\ wait'[q] = v /\ Answered(v)'
                    BY <1>0, <4>1 DEF TypeOK
                <5> QED BY <5>1
            <4>2. CASE v # p
                <5>1. PICK r \in Caller : pc[r] = "waiting" /\ wait[r] = v /\ Answered(v)
                    BY <1>0, <3>2, <4>2 DEF Waits, Awaited, TypeOK
                <5> QED BY <1>0, <5>1, <4>2 DEF TypeOK
            <4> QED BY <4>1, <4>2
        <3> QED BY <3>1, <3>2 DEF Awaited
    <2> QED BY <2>1, <2>2, <2>3, <2>4, <2>5 DEF Waits
<1>4. Owned'
    <2>1. IdleApart'
        BY <1>0 DEF Owned, IdleApart, HeldApart, HandedApart, AllOwned, TypeOK, Points
    <2>2. HeldApart'
        BY <1>0 DEF Owned, IdleApart, HeldApart, HandedApart, AllOwned, TypeOK, Points
    <2>3. HandedApart'
        BY <1>0 DEF Owned, IdleApart, HeldApart, HandedApart, AllOwned, TypeOK, Points
    <2>4. AllOwned'
        <3> SUFFICES ASSUME NEW d \in open'
                     PROVE  \/ In(conns', d) \/ In(scratch', d)
                            \/ \E r \in Process : hold'[r] = d
                            \/ \E w \in Waiter : waiter'[w].conn = d
            BY DEF AllOwned
        <3>1. CASE d = c
            BY <1>0, <3>1 DEF Owned, IdleApart, HeldApart, HandedApart, AllOwned, TypeOK, Points
        <3>2. CASE d # c
            <4>1. d \in open /\ \A r \in Process : hold[r] = d => hold'[r] = d
                BY <1>0, <3>2 DEF TypeOK, Points
            <4>2. \A w \in Waiter : waiter[w].conn = d => waiter'[w].conn = d
                BY <1>0, <3>2 DEF Owned, IdleApart, HeldApart, HandedApart, AllOwned, TypeOK, Points
            <4>3. (In(conns, d) \/ In(scratch, d)) => (In(conns', d) \/ In(scratch', d))
                BY <1>0, <3>2 DEF Owned, IdleApart, HeldApart, HandedApart, AllOwned, TypeOK, Points
            <4> QED BY <4>1, <4>2, <4>3 DEF Owned, AllOwned
        <3> QED BY <3>1, <3>2
    <2> QED BY <2>1, <2>2, <2>3, <2>4 DEF Owned
<1>5. ReadyClosedOnce'
    BY <1>0 DEF ReadyClosedOnce, TypeOK
<1>6. Placed' = (Placed \ {p}) \cup {q} /\ p \in Placed /\ q \notin Placed
    BY <1>0 DEF Placed, Delivered, TypeOK, Waits, WaitsTyped, Points, OwnWaiter
<1>7. CountIsExact'
    <2>1. Cardinality(Placed') = Cardinality(Placed)
        BY <1>6, Swapped
    <2> QED BY <1>0, <2>1 DEF CountIsExact
<1>8. CountWithinMax'
    BY <1>0 DEF CountWithinMax, TypeOK
<1>9. Starting' = Starting
    BY <1>0 DEF Starting, TypeOK
<1>10. OneCleaner'
    BY <1>0, <1>9, Counted DEF TypeOK, Points
<1> QED BY <1>1, <1>2, <1>3, <1>4, <1>5, <1>7, <1>8, <1>10

LEMMA DialerTooLateKeeps ==
    ASSUME HostInv, NEW p \in Waiter, DialerSucceeds(p), Answered(p)
    PROVE  HostInv'
<1> USE Processes DEF HostInv, DialerSucceeds, At, Answered, Waiting
<1>a. PICK c \in Conn : Fresh(c) /\ open' = open \cup {c}
                         /\ tryDeliver(p, c)
                         /\ \/ /\ ~Answered(p) /\ UNCHANGED hold
                               /\ pc' = [pc EXCEPT ![p] = "idle"]
                            \/ /\ Answered(p) /\ hold' = [hold EXCEPT ![p] = c]
                               /\ pc' = [pc EXCEPT ![p] = "recycling"]
    OBVIOUS
<1>0. /\ pc[p] = "dialing" /\ pc' = [pc EXCEPT ![p] = "recycling"] /\ c \in Conn
      /\ hold' = [hold EXCEPT ![p] = c] /\ hold[p] = None
      /\ open' = open \cup {c} /\ c \notin open /\ (\A r \in Process : hold[r] # c)
      /\ UNCHANGED <<config, conns, count, queue, cleanerRunning, mu, waiter, wait, scratch, err>>
    BY <1>a, Delivers DEF Points, Fresh
<1> HIDE DEF DialerSucceeds
<1>1. TypeOK'
    BY <1>0 DEF TypeOK, Labels
<1>2. Points'
    BY <1>0 DEF Points, TypeOK
<1>3. Waits'
    BY <1>0, WaitsAside DEF TypeOK, Points
<1>4. Owned'
    <2>1. IdleApart'
        BY <1>0 DEF Owned, IdleApart, HeldApart, HandedApart, AllOwned, TypeOK, Points
    <2>2. HeldApart'
        BY <1>0 DEF Owned, IdleApart, HeldApart, HandedApart, AllOwned, TypeOK, Points
    <2>3. HandedApart'
        BY <1>0 DEF Owned, IdleApart, HeldApart, HandedApart, AllOwned, TypeOK, Points
    <2>4. AllOwned'
        <3> SUFFICES ASSUME NEW d \in open'
                     PROVE  \/ In(conns', d) \/ In(scratch', d)
                            \/ \E q \in Process : hold'[q] = d
                            \/ \E w \in Waiter : waiter'[w].conn = d
            BY DEF AllOwned
        <3>1. CASE d = c
            BY <1>0, <3>1 DEF Owned, IdleApart, HeldApart, HandedApart, AllOwned, TypeOK, Points
        <3>2. CASE d # c
            <4>1. d \in open /\ \A q \in Process : hold[q] = d => hold'[q] = d
                BY <1>0, <3>2 DEF TypeOK, Points
            <4>2. \A w \in Waiter : waiter[w].conn = d => waiter'[w].conn = d
                BY <1>0, <3>2 DEF Owned, IdleApart, HeldApart, HandedApart, AllOwned, TypeOK, Points
            <4>3. (In(conns, d) \/ In(scratch, d)) => (In(conns', d) \/ In(scratch', d))
                BY <1>0, <3>2 DEF Owned, IdleApart, HeldApart, HandedApart, AllOwned, TypeOK, Points
            <4> QED BY <4>1, <4>2, <4>3 DEF Owned, AllOwned
        <3> QED BY <3>1, <3>2
    <2> QED BY <2>1, <2>2, <2>3, <2>4 DEF Owned
<1>5. ReadyClosedOnce'
    BY <1>0 DEF ReadyClosedOnce, TypeOK
<1>6. Placed' = Placed
    BY <1>0 DEF Placed, Delivered, TypeOK, Waits, WaitsTyped, Points
<1>7. CountIsExact'
    BY <1>0, <1>6, Lengths, FinitePlaced DEF CountIsExact
<1>8. CountWithinMax'
    BY <1>0 DEF CountWithinMax, TypeOK
<1>9. Starting' = Starting
    BY <1>0 DEF Starting, TypeOK
<1>10. OneCleaner'
    BY <1>0, <1>9, Counted DEF TypeOK, Points
<1> QED BY <1>1, <1>2, <1>3, <1>4, <1>5, <1>7, <1>8, <1>10

LEMMA DialerFailsKeeps ==
    ASSUME HostInv, NEW p \in Waiter, DialerFails(p), ~Answered(p)
    PROVE  HostInv'
<1> USE Processes DEF HostInv, DialerFails, At, Answered, Waiting
<1>0. /\ pc[p] = "dialing" /\ pc' = [pc EXCEPT ![p] = "discarding"]
      /\ waiter[p].conn = None
      /\ waiter' = [waiter EXCEPT ![p] = [conn |-> None, answered |-> TRUE, closes |-> 1]]
      /\ (\A v : InQueue(v)' <=> InQueue(v))
      /\ UNCHANGED <<config, conns, count, queue, cleanerRunning, mu, open, hold, wait,
                     scratch, err>>
    BY Delivers DEF InQueue, Waits, Awaited
<1> HIDE DEF DialerFails
<1>1. TypeOK'
    BY <1>0 DEF TypeOK, Labels
<1>2. Points'
    BY <1>0 DEF Points, TypeOK
<1>3. Waits'
    <2>1. QueuedIdle'
        BY <1>0
          DEF Waits, QueuedIdle, WaitsTyped, OwnWaiter, NotQueuedYet, Awaited, TypeOK, Points, NewWaiter
    <2>2. WaitsTyped'
        BY <1>0
          DEF Waits, QueuedIdle, WaitsTyped, OwnWaiter, NotQueuedYet, Awaited, TypeOK, Points, NewWaiter
    <2>3. OwnWaiter'
        BY <1>0
          DEF Waits, QueuedIdle, WaitsTyped, OwnWaiter, NotQueuedYet, Awaited, TypeOK, Points, NewWaiter
    <2>4. NotQueuedYet'
        <3> SUFFICES ASSUME NEW q \in Process, pc'[q] = "enqueue"
                     PROVE  /\ waiter'[wait'[q]] = NewWaiter /\ pc'[wait'[q]] = "idle"
                            /\ ~In(Contents(queue'), wait'[q])
                            /\ \A r \in Process : wait'[r] = wait'[q] => r = q
            BY DEF NotQueuedYet, InQueue
        <3>1. /\ pc[q] = "enqueue" /\ wait'[q] = wait[q] /\ wait[q] \in Waiter
              /\ waiter[wait[q]] = NewWaiter /\ pc[wait[q]] = "idle"
              /\ ~InQueue(wait[q]) /\ \A r \in Process : wait[r] = wait[q] => r = q
            BY <1>0 DEF Waits, NotQueuedYet, WaitsTyped, TypeOK
        <3>2. waiter'[wait[q]] = NewWaiter /\ pc'[wait[q]] = "idle"
            BY <1>0, <3>1 DEF TypeOK
        <3>3. ~In(Contents(queue'), wait[q])
            BY <1>0, <3>1 DEF InQueue
        <3> QED BY <1>0, <3>1, <3>2, <3>3
    <2>5. Awaited'
        <3>1. ASSUME NEW v \in Waiter, ~Answered(v)',
                     \/ InQueue(v)' \/ pc'[v] = "dialing"
                     \/ \E r \in Process : pc'[r] = "delivering" /\ wait'[r] = v
              PROVE  \E r \in Caller : pc'[r] = "waiting" /\ wait'[r] = v
            <4>1. /\ ~Answered(v)
                  /\ \/ InQueue(v) \/ pc[v] = "dialing"
                     \/ \E r \in Process : pc[r] = "delivering" /\ wait[r] = v
                BY <1>0, <3>1 DEF TypeOK
            <4>2. PICK r \in Caller : pc[r] = "waiting" /\ wait[r] = v
                BY <4>1 DEF Waits, Awaited
            <4> QED BY <1>0, <4>2 DEF TypeOK
        <3>2. ASSUME NEW v \in Waiter, waiter'[v].conn # None
              PROVE  Answered(v)' /\ \E r \in Caller : pc'[r] = "waiting" /\ wait'[r] = v
            <4>1. PICK r \in Caller : pc[r] = "waiting" /\ wait[r] = v /\ Answered(v)
                BY <1>0, <3>2 DEF Waits, Awaited, TypeOK
            <4> QED BY <1>0, <4>1 DEF TypeOK
        <3> QED BY <3>1, <3>2 DEF Awaited
    <2> QED BY <2>1, <2>2, <2>3, <2>4, <2>5 DEF Waits
<1>4. Owned'
    BY <1>0, OwnedAside DEF TypeOK, Points
<1>5. ReadyClosedOnce'
    BY <1>0 DEF ReadyClosedOnce, TypeOK
<1>6. Placed' = Placed
    BY <1>0 DEF Placed, Delivered, TypeOK, Waits, WaitsTyped, Points
<1>7. CountIsExact'
    BY <1>0, <1>6, Lengths, FinitePlaced DEF CountIsExact
<1>8. CountWithinMax'
    BY <1>0 DEF CountWithinMax, TypeOK
<1>9. Starting' = Starting
    BY <1>0 DEF Starting, TypeOK
<1>10. OneCleaner'
    BY <1>0, <1>9, Counted DEF TypeOK, Points
<1> QED BY <1>1, <1>2, <1>3, <1>4, <1>5, <1>7, <1>8, <1>10

LEMMA DialerGivesUpKeeps ==
    ASSUME HostInv, NEW p \in Waiter, DialerFails(p), Answered(p)
    PROVE  HostInv'
<1> USE Processes DEF HostInv, At, Answered, Waiting
<1>0. /\ pc[p] = "dialing" /\ pc' = [pc EXCEPT ![p] = "discarding"]
      /\ UNCHANGED <<config, conns, count, queue, cleanerRunning, mu, waiter, open, hold, wait,
                     scratch, err>>
    BY Delivers DEF DialerFails
<1>1. TypeOK'
    BY <1>0 DEF TypeOK, Labels
<1>2. Points'
    BY <1>0 DEF Points, TypeOK
<1>3. Waits'
    BY <1>0, WaitsAside DEF TypeOK, Points
<1>4. Owned'
    BY <1>0, OwnedAside DEF TypeOK, Points
<1>5. ReadyClosedOnce'
    BY <1>0 DEF ReadyClosedOnce, TypeOK
<1>6. Placed' = Placed
    BY <1>0 DEF Placed, Delivered, TypeOK, Waits, WaitsTyped, Points
<1>7. CountIsExact'
    BY <1>0, <1>6, Lengths, FinitePlaced DEF CountIsExact
<1>8. CountWithinMax'
    BY <1>0 DEF CountWithinMax, TypeOK
<1>9. Starting' = Starting
    BY <1>0 DEF Starting, TypeOK
<1>10. OneCleaner'
    BY <1>0, <1>9, Counted DEF TypeOK, Points
<1> QED BY <1>1, <1>2, <1>3, <1>4, <1>5, <1>7, <1>8, <1>10

-----------------------------------------------------------------------------
LEMMA StepKeepsHost == HostInv /\ [HostNext]_vars => HostInv'
<1> SUFFICES ASSUME HostInv, [HostNext]_vars PROVE HostInv'
    OBVIOUS
<1> USE Processes
<1>1. CASE UNCHANGED vars
    <2> USE <1>1 DEF vars, HostInv
    <2>1. TypeOK' /\ Points'
        BY DEF TypeOK, Points
    <2>2. Waits' /\ Owned'
        BY WaitsAside, OwnedAside
    <2>3. ReadyClosedOnce' /\ CountWithinMax'
        BY DEF ReadyClosedOnce, Answered, CountWithinMax
    <2>4. Placed' = Placed /\ Starting' = Starting
        BY DEF Placed, Delivered, Starting, At
    <2>5. CountIsExact' /\ OneCleaner'
        BY <2>4, Counted DEF CountIsExact
    <2> QED BY <2>1, <2>2, <2>3, <2>5
<1>2. ASSUME NEW p \in Process, Release(p) PROVE HostInv'
    <2>1. RecycleDeliver(p) => HostInv'
        BY DeliverKeeps, DeliverTooLateKeeps
    <2> QED BY <1>2, <2>1, PopAnsweredKeeps, RecycleIdleKeeps, RecyclePopKeeps,
               DecrementCountKeeps, DialForWaitingCallerKeeps, CloseConnKeeps DEF Release
<1>3. ASSUME NEW p \in Caller, Do(p) \/ CallerStep(p) PROVE HostInv'
    <2>1. NoFreeConns(p) => HostInv'
        BY NoFreeConnsKeeps, StartsWaitingKeeps
    <2> QED BY <1>2, <1>3, <2>1, DoKeeps, TakeIdleKeeps, CreateConnKeeps, ClearFrontKeeps,
               QueueWaitingCallerKeeps, AnswersKeeps, TimesOutKeeps, StartCleanerKeeps,
               DialSucceedsKeeps, DialFailsKeeps, RequestSucceedsKeeps, RequestFailsKeeps
               DEF CallerStep
<1>4. ASSUME NEW w \in Waiter, DialerStep(w) PROVE HostInv'
    <2>1. DialerSucceeds(w) => HostInv'
        BY DialerDeliversKeeps, DialerTooLateKeeps
    <2>2. DialerFails(w) => HostInv'
        BY DialerFailsKeeps, DialerGivesUpKeeps
    <2> QED BY <1>2, <1>4, <2>1, <2>2 DEF DialerStep
<1>5. ASSUME CleanerStep PROVE HostInv'
    BY <1>2, <1>5, ScanKeeps, DestroyNextKeeps, MustStopKeeps, StopCleanerKeeps DEF CleanerStep
<1> QED BY <1>1, <1>3, <1>4, <1>5 DEF HostNext

LEMMA HostInvariant == Spec => []HostInv
BY InitHost, StepKeepsHost, PTL DEF Spec

\* One owner, counted.
LEMMA OwnedOnce == HostInv => OneOwner
<1> SUFFICES ASSUME HostInv PROVE OneOwner
    OBVIOUS
<1> USE Processes DEF HostInv
<1> DEFINE idle(c) == {<<"idle", i>> : i \in {i \in DOMAIN conns : conns[i] = c}}
           kept(c) == {<<"scratch", i>> : i \in {i \in DOMAIN scratch : scratch[i] = c}}
           held(c) == {<<"hold", p>> : p \in {p \in Process : hold[p] = c}}
           given(c) == {<<"delivered", p>> :
                          p \in {p \in Caller : Delivered(p) /\ waiter[wait[p]].conn = c}}
           places(c) == idle(c) \cup kept(c) \cup held(c) \cup given(c)
<1> SUFFICES ASSUME NEW c \in Conn
             PROVE  Cardinality(places(c)) = IF c \in open THEN 1 ELSE 0
    BY DEF OneOwner
<1>1. DOMAIN conns = 1 .. Len(conns) /\ DOMAIN scratch = 1 .. Len(scratch)
    BY LenProperties DEF TypeOK
<1>2. ~In(conns, c) => idle(c) = {}
    BY <1>1 DEF In
<1>3. ~In(scratch, c) => kept(c) = {}
    BY <1>1 DEF In
<1>4. (\A p \in Process : hold[p] # c) => held(c) = {}
    OBVIOUS
<1>5. (\A w \in Waiter : waiter[w].conn # c) => given(c) = {}
    BY DEF Delivered, At, Waits, WaitsTyped
<1>6. \A p, q \in Caller :
        Delivered(p) /\ waiter[wait[p]].conn = c /\ Delivered(q) /\ waiter[wait[q]].conn = c => p = q
    <2> SUFFICES ASSUME NEW p \in Caller, NEW q \in Caller, Delivered(p), Delivered(q),
                        waiter[wait[p]].conn = c, waiter[wait[q]].conn = c
                 PROVE  p = q
        OBVIOUS
    <2>1. pc[p] = "waiting" /\ pc[q] = "waiting" /\ wait[p] \in Waiter /\ wait[q] \in Waiter
        BY DEF Delivered, At, Waits, WaitsTyped
    <2>2. wait[p] = wait[q]
        BY <2>1 DEF Owned, HandedApart
    <2> QED BY <2>1, <2>2 DEF Waits, OwnWaiter
<1>7. CASE c \notin open
    <2>1. places(c) = {}
        BY <1>2, <1>3, <1>4, <1>5, <1>7 DEF Owned, IdleApart, HeldApart, HandedApart
    <2> QED BY <1>7, <2>1, FS_EmptySet
<1>8. CASE c \in open
    <2> SUFFICES \E x : places(c) = {x}
        BY <1>8, FS_Singleton
    <2>1. CASE In(conns, c)
        <3>1. PICK i \in 1 .. Len(conns) : conns[i] = c
            BY <2>1 DEF In
        <3>2. idle(c) = {<<"idle", i>>}
            BY <1>1, <3>1 DEF Owned, IdleApart, NoDup
        <3>3. kept(c) = {} /\ held(c) = {} /\ given(c) = {}
            BY <1>3, <1>4, <1>5, <2>1 DEF Owned, IdleApart, HeldApart, HandedApart
        <3> QED BY <3>2, <3>3
    <2>2. CASE In(scratch, c)
        <3>1. PICK i \in 1 .. Len(scratch) : scratch[i] = c
            BY <2>2 DEF In
        <3>2. kept(c) = {<<"scratch", i>>}
            BY <1>1, <3>1 DEF Owned, IdleApart, NoDup
        <3>3. idle(c) = {} /\ held(c) = {} /\ given(c) = {}
            BY <1>2, <1>4, <1>5, <2>2 DEF Owned, IdleApart, HeldApart, HandedApart
        <3> QED BY <3>2, <3>3
    <2>3. CASE \E p \in Process : hold[p] = c
        <3>1. PICK p \in Process : hold[p] = c
            BY <2>3
        <3>2. held(c) = {<<"hold", p>>}
            BY <3>1 DEF Owned, HeldApart
        <3>3. idle(c) = {} /\ kept(c) = {} /\ given(c) = {}
            BY <1>2, <1>3, <1>5, <3>1 DEF Owned, HeldApart, HandedApart
        <3> QED BY <3>2, <3>3
    <2>4. CASE \E w \in Waiter : waiter[w].conn = c
        <3>1. PICK w \in Waiter : waiter[w].conn = c
            BY <2>4
        <3>2. PICK p \in Caller : pc[p] = "waiting" /\ wait[p] = w
            BY <3>1 DEF Waits, Awaited
        <3>3. Delivered(p) /\ waiter[wait[p]].conn = c
            BY <3>1, <3>2 DEF Delivered, At
        <3>4. given(c) = {<<"delivered", p>>}
            BY <1>6, <3>3
        <3>5. idle(c) = {} /\ kept(c) = {} /\ held(c) = {}
            BY <1>2, <1>3, <1>4, <3>1 DEF Owned, HandedApart
        <3> QED BY <3>4, <3>5
    <2> QED BY <1>8, <2>1, <2>2, <2>3, <2>4 DEF Owned, AllOwned
<1> QED BY <1>7, <1>8

-----------------------------------------------------------------------------
(* The theorems.                                                           *)

\* Nothing leaves its range; count, which is only ever decremented by one who has
\* a place, stays a natural number.
THEOREM HostTypeCorrect == Spec => []TypeOK
BY HostInvariant, PTL DEF HostInv

\* decrementCountOrTryDialForWaitingCaller, tryRecycleClientConn, cancel and the
\* cleaner: no place of the pool is ever lost or counted twice.
THEOREM CountStaysExact == Spec => []CountIsExact
BY HostInvariant, PTL DEF HostInv

\* MaxConns is never exceeded.
THEOREM CountStaysWithinMax == Spec => []CountWithinMax
BY HostInvariant, PTL DEF HostInv

\* tryDeliver and cancel (client_wait.go:27, 42): whoever comes first closes ready
\* and nobody closes it again, whatever deliveries, failed dials and timers race.
THEOREM ReadyClosesOnce == Spec => []ReadyClosedOnce
BY HostInvariant, PTL DEF HostInv

\* cleanerRunning, though it is reset without mu, stands for exactly one cleaner.
THEOREM CleanerIsOne == Spec => []OneCleaner
BY HostInvariant, PTL DEF HostInv

\* No connection is shared, leaked or used after it was closed.
THEOREM ConnsHaveOneOwner == Spec => []OneOwner
BY HostInvariant, OwnedOnce, PTL

-----------------------------------------------------------------------------
(* The refinement of ConnPool.                                             *)

Uses == [p \in Caller |-> IF At(p, "using") THEN hold[p] ELSE None]

\* A connection is in the pool while it is open and nobody who holds it has
\* condemned it.
Carries == {"using", "recycling", "delivering"}

Pooled == {c \in open : \A p \in Process : hold[p] = c => pc[p] \in Carries}

LEMMA InThePool ==
    ASSUME HostInv
    PROVE  {c \in Conn : InPool(c)} = Pooled
<1> USE Processes DEF HostInv, Carries
<1>1. ASSUME NEW c \in Conn, InPool(c) PROVE c \in Pooled
    <2>1. CASE In(conns, c) \/ In(scratch, c)
        BY <2>1 DEF Owned, IdleApart, HeldApart, Pooled
    <2>2. ASSUME NEW p \in Process, hold[p] = c, pc[p] \in Carries PROVE c \in Pooled
        BY <2>2 DEF Owned, HeldApart, Pooled
    <2>3. ASSUME NEW p \in Caller, Delivered(p), waiter[wait[p]].conn = c PROVE c \in Pooled
        <3>1. wait[p] \in Waiter
            BY <2>3 DEF Delivered, At, Waits, WaitsTyped
        <3> QED BY <2>3, <3>1 DEF Owned, HandedApart, Pooled
    <2> QED BY <1>1, <2>1, <2>2, <2>3 DEF InPool, In
<1>2. ASSUME NEW c \in Pooled PROVE c \in Conn /\ InPool(c)
    <2>1. c \in Conn /\ c \in open /\ c # None
        BY DEF Pooled, TypeOK
    <2>2. CASE In(conns, c) \/ In(scratch, c)
        BY <2>1, <2>2 DEF InPool, In
    <2>3. ASSUME NEW p \in Process, hold[p] = c PROVE InPool(c)
        BY <2>3 DEF InPool, Pooled
    <2>4. ASSUME NEW w \in Waiter, waiter[w].conn = c PROVE InPool(c)
        <3>1. PICK p \in Caller : pc[p] = "waiting" /\ wait[p] = w
            BY <2>1, <2>4 DEF Waits, Awaited
        <3> QED BY <2>1, <2>4, <3>1 DEF InPool, Delivered, At
    <2> QED BY <2>1, <2>2, <2>3, <2>4 DEF Owned, AllOwned
<1> QED BY <1>1, <1>2

LEMMA InThePoolNext ==
    (HostInv => {c \in Conn : InPool(c)} = Pooled)'
BY InThePool, PTL

LEMMA PoolInit == HostInit => Pool!Init
<1> SUFFICES ASSUME HostInit PROVE Pool!Init
    OBVIOUS
<1>1. {c \in Conn : InPool(c)} = {}
    BY InitHost, InThePool DEF HostInit, Pooled
<1>2. Uses = [p \in Caller |-> None]
    BY Processes DEF HostInit, Uses, At
<1>3. config.MaxConns \in Nat \ {0} /\ count = 0
    BY HostAssumption DEF HostInit
<1> QED BY <1>1, <1>2, <1>3 DEF Pool!Init, Uses

\* What a finite set is mapped to.
LEMMA Image ==
    ASSUME NEW S, IsFiniteSet(S), NEW f, DOMAIN f = S, f = [x \in S |-> f[x]]
    PROVE  /\ IsFiniteSet({f[x] : x \in S}) /\ Cardinality({f[x] : x \in S}) <= Cardinality(S)
<1>1. f \in [S -> {f[x] : x \in S}]
    OBVIOUS
<1>2. \A t \in {f[x] : x \in S} : \E s \in S : f[s] = t
    OBVIOUS
<1>3. f \in Surjection(S, {f[x] : x \in S})
    BY <1>1, <1>2 DEF Surjection
<1> QED BY <1>3, FS_Surjection

LEMMA Elements ==
    ASSUME NEW S, NEW s \in Seq(S)
    PROVE  \E T : /\ \A x : In(s, x) => x \in T
                  /\ IsFiniteSet(T) /\ Cardinality(T) \in Nat /\ Cardinality(T) <= Len(s)
<1>1. Len(s) \in Nat /\ DOMAIN s = 1 .. Len(s) /\ s = [i \in 1 .. Len(s) |-> s[i]]
    BY LenProperties
<1>2. IsFiniteSet(1 .. Len(s)) /\ Cardinality(1 .. Len(s)) = Len(s)
    <2>1. 1 \in Int /\ Len(s) \in Int /\ ~(1 > Len(s) /\ Len(s) # 0) /\ Len(s) - 1 + 1 = Len(s)
        BY <1>1
    <2> QED BY <2>1, FS_Interval, Z3
<1>3. PICK T : T = {s[i] : i \in 1 .. Len(s)}
    OBVIOUS
<1>4. IsFiniteSet(T) /\ Cardinality(T) <= Len(s)
    BY <1>1, <1>2, <1>3, Image
<1>5. \A x : In(s, x) => x \in T
    BY <1>3 DEF In
<1> QED BY <1>4, <1>5, FS_CardinalityType

\* A place is left for a process that has one and none of the connections.
LEMMA PlaceLeft ==
    ASSUME HostInv, NEW p \in Process, pc[p] \in {"dialing", "discarding"}
    PROVE  Cardinality(Pooled) < count
<1> USE Processes DEF HostInv
<1>1. PICK S : /\ \A x : In(conns, x) => x \in S
               /\ IsFiniteSet(S) /\ Cardinality(S) \in Nat /\ Cardinality(S) <= Len(conns)
    BY Elements DEF TypeOK
<1>2. PICK T : /\ \A x : In(scratch, x) => x \in T
               /\ IsFiniteSet(T) /\ Cardinality(T) \in Nat /\ Cardinality(T) <= Len(scratch)
    BY Elements DEF TypeOK
<1>3. PICK R : R = Placed \ {p}
    OBVIOUS
<1>4. p \in Placed
    BY DEF Placed, At
<1>5. IsFiniteSet(R) /\ Cardinality(R) = Cardinality(Placed) - 1
    BY <1>3, <1>4, FinitePlaced, FS_RemoveElement
<1>6. PICK f : f = [q \in R |-> IF Delivered(q) THEN waiter[wait[q]].conn ELSE hold[q]]
    OBVIOUS
<1>7. PICK U : U = {f[q] : q \in R}
    OBVIOUS
<1>8. IsFiniteSet(U) /\ Cardinality(U) <= Cardinality(R) /\ Cardinality(U) \in Nat
    <2>1. DOMAIN f = R /\ f = [q \in R |-> f[q]]
        BY <1>6
    <2>2. IsFiniteSet({f[q] : q \in R}) /\ Cardinality({f[q] : q \in R}) <= Cardinality(R)
        BY <1>5, <2>1, Image
    <2> QED BY <1>7, <2>2, FS_CardinalityType
<1>9. ASSUME NEW c \in Pooled PROVE c \in S \/ c \in T \/ c \in U
    <2>1. c \in open /\ c # None
        BY DEF Pooled, TypeOK
    <2>2. ASSUME NEW q \in Process, hold[q] = c PROVE c \in U
        <3>1. pc[q] \in Carries
            BY <2>2 DEF Pooled
        <3>2. q \in R /\ ~Delivered(q)
            BY <1>3, <3>1 DEF Carries, Placed, Delivered, At
        <3> QED BY <1>6, <1>7, <2>2, <3>2
    <2>3. ASSUME NEW w \in Waiter, waiter[w].conn = c PROVE c \in U
        <3>1. PICK q \in Caller : pc[q] = "waiting" /\ wait[q] = w
            BY <2>1, <2>3 DEF Waits, Awaited
        <3>2. Delivered(q) /\ q \in R
            BY <1>3, <2>1, <2>3, <3>1 DEF Placed, Delivered, At
        <3> QED BY <1>6, <1>7, <2>3, <3>1, <3>2
    <2> QED BY <1>1, <1>2, <2>1, <2>2, <2>3 DEF Owned, AllOwned
<1>10. /\ IsFiniteSet(S \cup T) /\ Cardinality(S \cup T) \in Nat
       /\ Cardinality(S \cup T) <= Cardinality(S) + Cardinality(T)
    <2>1. IsFiniteSet(S \cap T) /\ Cardinality(S \cap T) \in Nat
        BY <1>1, FS_Intersection, FS_CardinalityType
    <2>2. IsFiniteSet(S \cup T) /\ Cardinality(S \cup T) \in Nat
        BY <1>1, <1>2, FS_Union, FS_CardinalityType
    <2>3. Cardinality(S \cup T) = Cardinality(S) + Cardinality(T) - Cardinality(S \cap T)
        BY <1>1, <1>2, FS_Union
    <2> QED BY <1>1, <1>2, <2>1, <2>2, <2>3
<1>11. /\ IsFiniteSet((S \cup T) \cup U) /\ Cardinality((S \cup T) \cup U) \in Nat
       /\ Cardinality((S \cup T) \cup U) <= Cardinality(S \cup T) + Cardinality(U)
    <2>1. IsFiniteSet((S \cup T) \cap U) /\ Cardinality((S \cup T) \cap U) \in Nat
        BY <1>10, FS_Intersection, FS_CardinalityType
    <2>2. IsFiniteSet((S \cup T) \cup U) /\ Cardinality((S \cup T) \cup U) \in Nat
        BY <1>8, <1>10, FS_Union, FS_CardinalityType
    <2>3. Cardinality((S \cup T) \cup U)
             = Cardinality(S \cup T) + Cardinality(U) - Cardinality((S \cup T) \cap U)
        BY <1>8, <1>10, FS_Union
    <2> QED BY <1>8, <1>10, <2>1, <2>2, <2>3
<1>12. /\ IsFiniteSet(Pooled) /\ Cardinality(Pooled) \in Nat
       /\ Cardinality(Pooled) <= Cardinality((S \cup T) \cup U)
    <2>1. Pooled \in SUBSET ((S \cup T) \cup U)
        BY <1>9
    <2> QED BY <1>11, <2>1, FS_Subset, FS_CardinalityType
<1>13. count = Len(conns) + Len(scratch) + Cardinality(Placed)
    BY DEF CountIsExact
<1> QED BY <1>1, <1>2, <1>5, <1>8, <1>10, <1>11, <1>12, <1>13, FinitePlaced, Lengths

-----------------------------------------------------------------------------
(* What the steps of the pool are in these terms.                          *)

\* Module ConnPool counts with the Cardinality of its own instance of FiniteSets.
LEMMA SameCardinality == ASSUME NEW S PROVE Pool!Cardinality(S) = Cardinality(S)
BY DEF Pool!Cardinality, Cardinality, Pool!IsFiniteSet, IsFiniteSet

LEMMA Stutters ==
    ASSUME HostInv, HostInv', UNCHANGED <<config, count>>, Pooled' = Pooled, Uses' = Uses
    PROVE  UNCHANGED Pool!vars
BY InThePool, InThePoolNext DEF Pool!vars, Uses

LEMMA Takes ==
    ASSUME HostInv, HostInv', config' = config, count < config.MaxConns, count' = count + 1,
           Pooled' = Pooled, Uses' = Uses
    PROVE  Pool!Next
BY InThePool, InThePoolNext DEF Pool!Next, Pool!TakePlace, Uses

LEMMA GivesUp ==
    ASSUME HostInv, HostInv', config' = config, count' = count - 1,
           Cardinality(Pooled) < count, Pooled' = Pooled, Uses' = Uses
    PROVE  Pool!Next
<1>1. Pool!Cardinality({c \in Conn : InPool(c)}) < count
    BY InThePool, SameCardinality
<1>2. ({c \in Conn : InPool(c)})' = {c \in Conn : InPool(c)}
    BY InThePool, InThePoolNext
<1>3. Uses' = Uses
    OBVIOUS
<1>4. Pool!GiveUpPlace
    BY <1>1, <1>2, <1>3, Zenon DEF Pool!GiveUpPlace, Uses
<1> QED BY <1>4 DEF Pool!Next

LEMMA Opens ==
    ASSUME HostInv, HostInv', UNCHANGED <<config, count>>, NEW c \in Conn, c \notin Pooled,
           Cardinality(Pooled) < count, Pooled' = Pooled \cup {c},
           \/ Uses' = Uses
           \/ \E u \in Caller : Uses[u] = None /\ Uses' = [Uses EXCEPT ![u] = c]
    PROVE  Pool!Next
<1>1. Pool!Cardinality({d \in Conn : InPool(d)}) < count
    BY InThePool, SameCardinality
<1>2. c \notin {d \in Conn : InPool(d)}
    BY InThePool
<1>3. ({d \in Conn : InPool(d)})' = {d \in Conn : InPool(d)} \cup {c}
    BY InThePool, InThePoolNext
<1>4. Pool!Open(c)
    BY <1>1, <1>2, <1>3, Zenon DEF Pool!Open, Uses
<1> QED BY <1>4 DEF Pool!Next

LEMMA UsesOne ==
    ASSUME HostInv, HostInv', UNCHANGED <<config, count>>, NEW u \in Caller, NEW c \in Conn,
           Uses[u] = None, c \in Pooled, \A v \in Caller : Uses[v] # c,
           Pooled' = Pooled, Uses' = [Uses EXCEPT ![u] = c]
    PROVE  Pool!Next
<1>1. Pool!Use(u, c)
    BY InThePool, InThePoolNext DEF Pool!Use, Pool!Unused, Uses
<1> QED BY <1>1 DEF Pool!Next

LEMMA Returns ==
    ASSUME HostInv, HostInv', UNCHANGED <<config, count>>, NEW u \in Caller, Uses[u] # None,
           Pooled' = Pooled, Uses' = [Uses EXCEPT ![u] = None]
    PROVE  Pool!Next
<1>1. Pool!Return(u)
    BY InThePool, InThePoolNext DEF Pool!Return, Uses
<1> QED BY <1>1 DEF Pool!Next

LEMMA Discards ==
    ASSUME HostInv, HostInv', UNCHANGED <<config, count>>, NEW u \in Caller, Uses[u] # None,
           Pooled' = Pooled \ {Uses[u]}, Uses' = [Uses EXCEPT ![u] = None]
    PROVE  Pool!Next
<1>1. Pool!Discard(u)
    BY InThePool, InThePoolNext DEF Pool!Discard, Uses
<1> QED BY <1>1 DEF Pool!Next

LEMMA Expires ==
    ASSUME HostInv, HostInv', UNCHANGED <<config, count>>, NEW c \in Conn, c \in Pooled,
           \A v \in Caller : Uses[v] # c, Pooled' = Pooled \ {c}, Uses' = Uses
    PROVE  Pool!Next
<1>1. Pool!Expire(c)
    BY InThePool, InThePoolNext DEF Pool!Expire, Pool!Unused, Uses
<1> QED BY <1>1 DEF Pool!Next

-----------------------------------------------------------------------------
(* The steps of a HostClient.                                              *)

\* A connection leaves the pool when the one who holds it decides to close it.
Condemns(p) == hold[p] # None /\ pc[p] \notin Carries

LEMMA SamePool ==
    ASSUME HostInv, open' = open,
           \A p \in Process :
              \/ ~Condemns(p) /\ ~Condemns(p)'
              \/ Condemns(p) /\ Condemns(p)' /\ hold'[p] = hold[p]
    PROVE  Pooled' = Pooled
BY Processes DEF Pooled, Condemns, HostInv, TypeOK

LEMMA SameUses ==
    ASSUME \A p \in Caller : \/ pc[p] # "using" /\ pc'[p] # "using"
                             \/ pc[p] = "using" /\ pc'[p] = "using" /\ hold'[p] = hold[p]
    PROVE  Uses' = Uses
BY DEF Uses, At

\* Only what a caller is using is in Uses.
LEMMA UsedIsHeld ==
    ASSUME HostInv
    PROVE  \A p \in Caller : Uses[p] # None => pc[p] = "using" /\ hold[p] = Uses[p]
BY DEF Uses, At

LEMMA Unnoticed ==
    ASSUME HostInv, HostInv', UNCHANGED <<config, count, open>>,
           \A p \in Process :
              \/ ~Condemns(p) /\ ~Condemns(p)'
              \/ Condemns(p) /\ Condemns(p)' /\ hold'[p] = hold[p],
           \A p \in Caller : \/ pc[p] # "using" /\ pc'[p] # "using"
                             \/ pc[p] = "using" /\ pc'[p] = "using" /\ hold'[p] = hold[p]
    PROVE  UNCHANGED Pool!vars
BY SamePool, SameUses, Stutters

LEMMA AcquireUnnoticed ==
    ASSUME HostInv, HostInv', NEW p \in Caller,
           \/ Do(p) \/ NoFreeConns(p) \/ ClearFront(p) \/ QueueWaitingCaller(p)
           \/ StartCleaner(p) \/ DialFails(p)
    PROVE  UNCHANGED Pool!vars
<1> USE Processes DEF HostInv, TypeOK, Points, Condemns, Carries, At
<1>1. CASE Do(p)
    BY <1>1, Unnoticed DEF Do
<1>2. CASE NoFreeConns(p)
    BY <1>2, Unnoticed DEF NoFreeConns
<1>3. CASE ClearFront(p)
    BY <1>3, Unnoticed DEF ClearFront
<1>4. CASE QueueWaitingCaller(p)
    BY <1>4, Unnoticed DEF QueueWaitingCaller
<1>5. CASE StartCleaner(p)
    <2>1. /\ pc[p] = "starting" /\ pc'[p] = "dialing" /\ pc'[Cleaner] = "scanning"
          /\ hold' = hold /\ UNCHANGED <<config, count, open>>
          /\ \A q \in Process : q # p /\ q # Cleaner => pc'[q] = pc[q]
        BY <1>5 DEF StartCleaner
    <2>2. hold[p] = None /\ hold[Cleaner] = None
        BY <2>1
    <2> HIDE DEF HostInv, TypeOK, Points, Carries
    <2>3. \A q \in Process : \/ ~Condemns(q) /\ ~Condemns(q)'
                             \/ Condemns(q) /\ Condemns(q)' /\ hold'[q] = hold[q]
        BY <2>1, <2>2
    <2>4. \A q \in Caller : \/ pc[q] # "using" /\ pc'[q] # "using"
                            \/ pc[q] = "using" /\ pc'[q] = "using" /\ hold'[q] = hold[q]
        BY <2>1
    <2> QED BY <2>1, <2>3, <2>4, Unnoticed
<1>6. CASE DialFails(p)
    BY <1>6, Unnoticed DEF DialFails
<1> QED BY <1>1, <1>2, <1>3, <1>4, <1>5, <1>6

LEMMA TimesOutUnnoticed ==
    ASSUME HostInv, HostInv', NEW p \in Caller, TimesOut(p)
    PROVE  UNCHANGED Pool!vars
<1> USE Processes
<1>1. /\ pc[p] = "waiting" /\ pc'[p] \in {"recycling", "idle"}
      /\ pc'[p] = "idle" => hold'[p] = None
      /\ \A q \in Process : q # p => pc'[q] = pc[q] /\ hold'[q] = hold[q]
      /\ UNCHANGED <<config, count, open>>
    BY DEF TimesOut, HostInv, TypeOK, At
<1>2. hold[p] = None
    BY <1>1 DEF HostInv, Points
<1>3. \A q \in Process : \/ ~Condemns(q) /\ ~Condemns(q)'
                         \/ Condemns(q) /\ Condemns(q)' /\ hold'[q] = hold[q]
    BY <1>1, <1>2 DEF Condemns, Carries
<1>4. \A q \in Caller : \/ pc[q] # "using" /\ pc'[q] # "using"
                        \/ pc[q] = "using" /\ pc'[q] = "using" /\ hold'[q] = hold[q]
    BY <1>1
<1> QED BY <1>1, <1>3, <1>4, Unnoticed

LEMMA ReleaseUnnoticed ==
    ASSUME HostInv, HostInv', NEW p \in Process,
           \/ PopAnswered(p) \/ RecycleIdle(p) \/ RecyclePop(p) \/ RecycleDeliver(p)
           \/ DialForWaitingCaller(p)
    PROVE  UNCHANGED Pool!vars
<1> USE Processes DEF HostInv, TypeOK, Points, Condemns, Carries, At
<1>1. CASE PopAnswered(p)
    BY <1>1, Unnoticed DEF PopAnswered
<1>2. CASE RecycleIdle(p)
    BY <1>2, Unnoticed DEF RecycleIdle
<1>3. CASE RecyclePop(p)
    BY <1>3, Unnoticed DEF RecyclePop
<1>4. CASE RecycleDeliver(p)
    BY <1>4, Unnoticed DEF RecycleDeliver
<1>5. CASE DialForWaitingCaller(p)
    <2>1. Front \in Waiter /\ pc[Front] = "idle" /\ hold[Front] = None
        BY <1>5, Popped DEF DialForWaitingCaller, Waits, QueuedIdle
    <2> QED BY <1>5, <2>1, Unnoticed DEF DialForWaitingCaller, Discarded
<1> QED BY <1>1, <1>2, <1>3, <1>4, <1>5

LEMMA CleanerUnnoticed ==
    ASSUME HostInv, HostInv', Scan \/ MustStop \/ StopCleaner
    PROVE  UNCHANGED Pool!vars
<1> USE Processes DEF HostInv, TypeOK, Points, Condemns, Carries, At
<1>1. CASE Scan
    BY <1>1, Unnoticed DEF Scan
<1>2. CASE MustStop
    BY <1>2, Unnoticed DEF MustStop
<1>3. CASE StopCleaner
    BY <1>3, Unnoticed DEF StopCleaner
<1> QED BY <1>1, <1>2, <1>3

LEMMA DialerFailsUnnoticed ==
    ASSUME HostInv, HostInv', NEW w \in Waiter, DialerFails(w)
    PROVE  UNCHANGED Pool!vars
BY Processes, Unnoticed DEF DialerFails, HostInv, TypeOK, Points, Condemns, Carries, At

\* The connection that is closed left the pool when the place was given up.
LEMMA CloseConnUnnoticed ==
    ASSUME HostInv, HostInv', NEW p \in Process, CloseConn(p)
    PROVE  UNCHANGED Pool!vars
<1> USE Processes DEF HostInv, TypeOK, Points, Carries, At, CloseConn
<1>1. hold[p] # None /\ hold[p] \in open /\ hold[p] \notin Pooled
    BY DEF Owned, HeldApart, Pooled
<1>2. \A q \in Process : q # p => pc'[q] = pc[q] /\ hold'[q] = hold[q]
    OBVIOUS
<1>3. \A q \in Process : q # p => hold[q] # hold[p]
    BY <1>1 DEF Owned, HeldApart
<1>4. hold'[p] = None /\ None \notin open /\ open' = open \ {hold[p]}
    OBVIOUS
<1>5. Pooled' = Pooled
    BY <1>1, <1>2, <1>3, <1>4 DEF Pooled
<1>6. pc[p] # "using" /\ pc'[p] # "using"
    OBVIOUS
<1>7. Uses' = Uses
    BY <1>2, <1>6, SameUses
<1> QED BY <1>5, <1>7, Stutters

LEMMA CreateConnTakes ==
    ASSUME HostInv, HostInv', NEW p \in Caller, CreateConn(p)
    PROVE  Pool!Next
<1> USE Processes DEF HostInv, TypeOK, Points, Condemns, Carries, At, CreateConn
<1>1. Pooled' = Pooled
    BY SamePool
<1>2. Uses' = Uses
    BY SameUses
<1> QED BY <1>1, <1>2, Takes

LEMMA DecrementCountGivesUp ==
    ASSUME HostInv, HostInv', NEW p \in Process, DecrementCount(p)
    PROVE  Pool!Next
<1> USE Processes DEF HostInv, TypeOK, Points, Condemns, Carries, At, DecrementCount, Discarded
<1>1. Pooled' = Pooled
    BY SamePool
<1>2. Uses' = Uses
    BY SameUses
<1> QED BY <1>1, <1>2, PlaceLeft, GivesUp

LEMMA UsedNow ==
    ASSUME HostInv, NEW p \in Caller, NEW c, pc[p] # "using",
           pc' = [pc EXCEPT ![p] = "using"], hold' = [hold EXCEPT ![p] = c]
    PROVE  Uses[p] = None /\ Uses' = [Uses EXCEPT ![p] = c]
<1>1. pc'[p] = "using" /\ hold'[p] = c
    BY Processes DEF HostInv, TypeOK
<1>2. \A q \in Caller : q # p => pc'[q] = pc[q] /\ hold'[q] = hold[q]
    BY Processes DEF HostInv, TypeOK
<1> QED BY <1>1, <1>2 DEF Uses, At

LEMMA NotUsed ==
    ASSUME HostInv, NEW c \in Conn, \A q \in Process : hold[q] # c
    PROVE  \A v \in Caller : Uses[v] # c
BY Processes, UsedIsHeld

LEMMA TakeIdleUses ==
    ASSUME HostInv, HostInv', NEW p \in Caller, TakeIdle(p)
    PROVE  Pool!Next
<1> USE Processes DEF HostInv, TypeOK, At, TakeIdle
<1>1. PICK c : c = conns[Len(conns)]
    OBVIOUS
<1>2. c \in Conn /\ In(conns, c)
    BY <1>1, LastTaken DEF Owned, IdleApart
<1>3. c \in open /\ \A q \in Process : hold[q] # c
    BY <1>2 DEF Owned, IdleApart, HeldApart
<1>4. c \in Pooled /\ \A v \in Caller : Uses[v] # c
    BY <1>2, <1>3, NotUsed DEF Pooled
<1>5. Pooled' = Pooled
    BY SamePool DEF Condemns, Points, Carries
<1>6. Uses[p] = None /\ Uses' = [Uses EXCEPT ![p] = c]
    BY <1>1, UsedNow
<1> QED BY <1>2, <1>4, <1>5, <1>6, UsesOne

LEMMA AnswersUses ==
    ASSUME HostInv, HostInv', NEW p \in Caller, Answers(p)
    PROVE  [Pool!Next]_(Pool!vars)
<1> USE Processes DEF HostInv, TypeOK, Points, Carries, At, Answers
<1>1. PICK c : c = waiter[wait[p]].conn
    OBVIOUS
<1>2. /\ pc[p] = "waiting" /\ hold' = [hold EXCEPT ![p] = c]
      /\ pc' = [pc EXCEPT ![p] = IF c = None THEN "idle" ELSE "using"]
      /\ UNCHANGED <<config, count, open>>
    BY <1>1
<1>3. wait[p] \in Waiter /\ hold[p] = None
    BY <1>2 DEF Waits, WaitsTyped
<1>4. CASE c = None
    BY <1>2, <1>3, <1>4, Unnoticed DEF Condemns
<1>5. CASE c # None
    <2>1. c \in Conn /\ c \in open /\ \A q \in Process : hold[q] # c
        BY <1>1, <1>3, <1>5 DEF Owned, HandedApart
    <2>2. c \in Pooled /\ \A v \in Caller : Uses[v] # c
        BY <2>1, UsedIsHeld DEF Pooled
    <2>3. Pooled' = Pooled
        BY <1>2, <1>3, <1>5, SamePool DEF Condemns
    <2>4. pc[p] # "using" /\ pc' = [pc EXCEPT ![p] = "using"] /\ hold' = [hold EXCEPT ![p] = c]
        BY <1>2, <1>5
    <2>5. Uses[p] = None /\ Uses' = [Uses EXCEPT ![p] = c]
        <3> HIDE DEF HostInv, TypeOK, Points, Answers
        <3> QED BY <2>4, UsedNow
    <2> QED BY <1>2, <2>1, <2>2, <2>3, <2>5, UsesOne
<1> QED BY <1>4, <1>5

LEMMA DialSucceedsOpens ==
    ASSUME HostInv, HostInv', NEW p \in Caller, DialSucceeds(p)
    PROVE  Pool!Next
<1> USE Processes
<1>1. /\ pc[p] = "dialing" /\ pc' = [pc EXCEPT ![p] = "using"] /\ p \in Process
      /\ UNCHANGED <<config, count>>
    BY DEF DialSucceeds, At
<1>2. PICK c \in Conn : Fresh(c) /\ open' = open \cup {c} /\ hold' = [hold EXCEPT ![p] = c]
    BY DEF DialSucceeds
<1>3. c \notin open /\ c \notin Pooled /\ \A q \in Process : hold[q] # c
    BY <1>2 DEF Fresh, Pooled
<1>4. /\ pc'[p] = "using" /\ hold'[p] = c /\ hold[p] = None /\ None \notin open
      /\ \A q \in Process : q # p => pc'[q] = pc[q] /\ hold'[q] = hold[q]
    <2>1. pc \in [Process -> Labels] /\ hold \in [Process -> Conn \cup {None}] /\ open \subseteq Conn
        BY DEF HostInv, TypeOK
    <2>2. hold[p] = None
        BY <1>1 DEF HostInv, Points
    <2> QED BY <1>1, <1>2, <2>1, <2>2
<1>5. Pooled' = Pooled \cup {c}
    BY <1>1, <1>2, <1>3, <1>4 DEF Pooled, Carries
<1>6. Uses[p] = None /\ Uses' = [Uses EXCEPT ![p] = c]
    BY <1>1, <1>2, UsedNow
<1> QED BY <1>1, <1>3, <1>5, <1>6, PlaceLeft, Opens

LEMMA DialerSucceedsOpens ==
    ASSUME HostInv, HostInv', NEW w \in Waiter, DialerSucceeds(w)
    PROVE  Pool!Next
<1> USE Processes DEF HostInv, TypeOK, Points, Carries, At, DialerSucceeds
<1>1. PICK c \in Conn :
         /\ Fresh(c) /\ open' = open \cup {c}
         /\ \/ pc' = [pc EXCEPT ![w] = "idle"] /\ UNCHANGED hold
            \/ pc' = [pc EXCEPT ![w] = "recycling"] /\ hold' = [hold EXCEPT ![w] = c]
    OBVIOUS
<1>2. c \notin open /\ c \notin Pooled /\ \A q \in Process : hold[q] # c
    BY <1>1 DEF Fresh, Pooled
<1>3. hold[w] = None
    OBVIOUS
<1>4. Pooled' = Pooled \cup {c}
    <2>1. \A q \in Process : q # w => pc'[q] = pc[q] /\ hold'[q] = hold[q]
        BY <1>1
    <2>2. hold'[w] = None \/ (hold'[w] = c /\ pc'[w] \in Carries)
        <3>1. CASE UNCHANGED hold
            BY <1>3, <3>1
        <3>2. CASE pc' = [pc EXCEPT ![w] = "recycling"] /\ hold' = [hold EXCEPT ![w] = c]
            <4>1. pc'[w] = "recycling" /\ hold'[w] = c
                BY <3>2
            <4> QED BY <4>1
        <3> QED BY <1>1, <3>1, <3>2
    <2>3. None \notin open /\ c # None
        OBVIOUS
    <2> HIDE DEF DialerSucceeds, TypeOK, Points, HostInv
    <2> QED BY <1>1, <1>2, <1>3, <2>1, <2>2, <2>3 DEF Pooled
<1>5. \A p \in Caller : pc'[p] = pc[p] /\ hold'[p] = hold[p]
    BY <1>1, HostAssumption
<1>6. Uses' = Uses
    BY <1>5, SameUses
<1> QED BY <1>1, <1>2, <1>4, <1>6, PlaceLeft, Opens

LEMMA UsedNoMore ==
    ASSUME HostInv, NEW p \in Caller, NEW l, pc[p] = "using", l # "using",
           pc' = [pc EXCEPT ![p] = l], hold' = hold
    PROVE  /\ Uses[p] = hold[p] /\ hold[p] # None /\ hold[p] \in open
           /\ Uses' = [Uses EXCEPT ![p] = None]
<1>1. Uses[p] = hold[p] /\ hold[p] # None /\ hold[p] \in open
    BY Processes DEF Uses, At, HostInv, Points, Owned, HeldApart
<1>2. pc'[p] = l /\ \A q \in Caller : q # p => pc'[q] = pc[q]
    BY Processes DEF HostInv, TypeOK
<1> QED BY <1>1, <1>2 DEF Uses, At

LEMMA RequestSucceedsReturns ==
    ASSUME HostInv, HostInv', NEW p \in Caller, RequestSucceeds(p)
    PROVE  Pool!Next
<1>1. Pooled' = Pooled
    BY Processes, SamePool DEF HostInv, TypeOK, Points, Condemns, Carries, At, RequestSucceeds
<1>2. Uses[p] # None /\ Uses' = [Uses EXCEPT ![p] = None] /\ UNCHANGED <<config, count>>
    BY UsedNoMore DEF RequestSucceeds, At
<1> QED BY <1>1, <1>2, Returns

LEMMA RequestFailsDiscards ==
    ASSUME HostInv, HostInv', NEW p \in Caller, NEW e, RequestFails(p, e)
    PROVE  Pool!Next
<1> USE Processes
<1>1. /\ pc[p] = "using" /\ pc' = [pc EXCEPT ![p] = "discarding"]
      /\ UNCHANGED <<config, count, open, hold>> /\ p \in Process
    BY DEF RequestFails, At
<1>2. /\ Uses[p] = hold[p] /\ hold[p] # None /\ hold[p] \in open
      /\ Uses' = [Uses EXCEPT ![p] = None]
    BY <1>1, UsedNoMore
<1>3. /\ pc'[p] = "discarding"
      /\ \A q \in Process : q # p => hold[q] # hold[p] /\ pc'[q] = pc[q]
    BY <1>1, <1>2 DEF HostInv, TypeOK, Owned, HeldApart
<1>4. Pooled' = Pooled \ {hold[p]}
    BY <1>1, <1>2, <1>3 DEF Pooled, Carries
<1> QED BY <1>1, <1>2, <1>4, Discards

LEMMA DestroyNextExpires ==
    ASSUME HostInv, HostInv', DestroyNext
    PROVE  Pool!Next
<1> USE Processes DEF HostInv, TypeOK, Points, Carries, At, DestroyNext
<1>1. PICK c : c = Head(scratch)
    OBVIOUS
<1>2. c \in Conn /\ In(scratch, c)
    BY <1>1, FirstTaken DEF Owned, IdleApart
<1>3. c \in open /\ \A q \in Process : hold[q] # c
    BY <1>2 DEF Owned, IdleApart, HeldApart
<1>4. c \in Pooled /\ \A v \in Caller : Uses[v] # c
    <2>1. c # None
        BY <1>2
    <2> HIDE DEF TypeOK, Points, DestroyNext
    <2> QED BY <1>2, <1>3, <2>1, UsedIsHeld DEF Pooled
<1>5. hold[Cleaner] = None /\ hold' = [hold EXCEPT ![Cleaner] = c]
    BY <1>1
<1>6. Pooled' = Pooled \ {c}
    BY <1>3, <1>5 DEF Pooled
<1>7. Uses' = Uses
    BY HostAssumption, SameUses
<1> QED BY <1>2, <1>4, <1>6, <1>7, Expires

LEMMA StepKeepsPool == HostInv /\ HostInv' /\ [HostNext]_vars => [Pool!Next]_(Pool!vars)
<1> SUFFICES ASSUME HostInv, HostInv', [HostNext]_vars PROVE [Pool!Next]_(Pool!vars)
    OBVIOUS
<1> USE Processes
<1>1. CASE UNCHANGED vars
    BY <1>1, Unnoticed DEF vars, Condemns
<1>2. ASSUME NEW p \in Process, Release(p) PROVE [Pool!Next]_(Pool!vars)
    BY <1>2, ReleaseUnnoticed, DecrementCountGivesUp, CloseConnUnnoticed DEF Release
<1>3. ASSUME NEW p \in Caller, Do(p) \/ CallerStep(p) PROVE [Pool!Next]_(Pool!vars)
    BY <1>2, <1>3, AcquireUnnoticed, TakeIdleUses, CreateConnTakes, AnswersUses,
       TimesOutUnnoticed, DialSucceedsOpens, RequestSucceedsReturns, RequestFailsDiscards
       DEF CallerStep
<1>4. ASSUME NEW w \in Waiter, DialerStep(w) PROVE [Pool!Next]_(Pool!vars)
    BY <1>2, <1>4, DialerSucceedsOpens, DialerFailsUnnoticed DEF DialerStep
<1>5. ASSUME CleanerStep PROVE [Pool!Next]_(Pool!vars)
    BY <1>2, <1>5, CleanerUnnoticed, DestroyNextExpires DEF CleanerStep
<1> QED BY <1>1, <1>3, <1>4, <1>5 DEF HostNext

\* A HostClient is the pool of ConnPool: whatever its goroutines do, a connection
\* is opened only in one of at most MaxConns places and carries the request of one
\* caller at a time.
THEOREM ImplementsPool == Spec => PoolSpec
<1>1. HostInv /\ HostInv' /\ [HostNext]_vars => [Pool!Next]_(Pool!vars)
    BY StepKeepsPool
<1> QED BY <1>1, PoolInit, HostInvariant, PTL DEF Spec, PoolSpec, Pool!Spec
=============================================================================
