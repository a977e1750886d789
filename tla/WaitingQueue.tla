---------------------------- MODULE WaitingQueue ----------------------------
(***************************************************************************)
(* waitingCallerQueue (src/sleepytcp/client_wait.go): a queue in two       *)
(* stages, head[headPos:] and tail.  Callers are pushed on tail; when head *)
(* is used up, tail becomes the new head.  Places of head that have been   *)
(* popped are nil, here None.                                              *)
(***************************************************************************)
EXTENDS Integers, Sequences

CONSTANT None

EmptyQueue == [head |-> <<>>, headPos |-> 0, tail |-> <<>>]

\* What the two stages stand for, first in first out.
Contents(q) == SubSeq(q.head, q.headPos + 1, Len(q.head)) \o q.tail

queueLen(q) == Len(q.head) - q.headPos + Len(q.tail)

pushBack(q, w) == [q EXCEPT !.tail = Append(@, w)]

\* The head is used up.
Spent(q) == q.headPos >= Len(q.head)

\* Mutant: the old tail is kept when it becomes the head.
popKeepingTail(q) ==
    LET h   == IF Spent(q) THEN q.tail ELSE q.head
        pos == IF Spent(q) THEN 0 ELSE q.headPos
    IN  [q EXCEPT !.head = [h EXCEPT ![pos + 1] = None], !.headPos = pos + 1]

\* popFront of a queue that is not empty: what is left of it.  The caller it
\* returns is peekFront(q).
popFront(q) ==
    LET h   == IF Spent(q) THEN q.tail ELSE q.head
        pos == IF Spent(q) THEN 0 ELSE q.headPos
    IN  [head    |-> [h EXCEPT ![pos + 1] = None],
         headPos |-> pos + 1,
         tail    |-> IF Spent(q) THEN <<>> ELSE q.tail]

peekFront(q) ==
    IF ~Spent(q) THEN q.head[q.headPos + 1]
    ELSE IF q.tail # <<>> THEN q.tail[1] ELSE None

Queues(S) == {q \in [head : Seq(S \cup {None}), headPos : Nat, tail : Seq(S)] :
                q.headPos <= Len(q.head)
                /\ \A i \in DOMAIN q.head : (q.head[i] = None) <=> i <= q.headPos}
=============================================================================
