------------------------------ MODULE ConnPool ------------------------------
(***************************************************************************)
(* What a HostClient promises to those who use it, whatever its goroutines *)
(* do: there are at most MaxConns places; a connection is opened only in a *)
(* place that has none; and it carries the request of one user at a time   *)
(* ("at any moment in time, each connection may at most be handling one    *)
(* request/response at once", README.md).  Module HostClient implements    *)
(* this specification.                                                     *)
(***************************************************************************)
EXTENDS Integers, FiniteSets

CONSTANTS User, Conn, None

VARIABLES
    MaxConns,   \* never changes
    places,     \* places taken
    pool,       \* the connections there are
    uses        \* the connection that each user's request is on

vars == <<MaxConns, places, pool, uses>>

Unused(c) == \A u \in User : uses[u] # c

Init ==
    /\ MaxConns \in Nat \ {0}
    /\ places = 0
    /\ pool = {}
    /\ uses = [u \in User |-> None]

TakePlace ==
    /\ places < MaxConns
    /\ places' = places + 1
    /\ UNCHANGED <<MaxConns, pool, uses>>

\* Only a place without a connection is given up.
GiveUpPlace ==
    /\ Cardinality(pool) < places
    /\ places' = places - 1
    /\ UNCHANGED <<MaxConns, pool, uses>>

\* A connection is opened, for a user or for whoever comes.
Open(c) ==
    /\ c \notin pool
    /\ Cardinality(pool) < places
    /\ pool' = pool \cup {c}
    /\ \/ UNCHANGED uses
       \/ \E u \in User : uses[u] = None /\ uses' = [uses EXCEPT ![u] = c]
    /\ UNCHANGED <<MaxConns, places>>

Use(u, c) ==
    /\ uses[u] = None
    /\ c \in pool
    /\ Unused(c)
    /\ uses' = [uses EXCEPT ![u] = c]
    /\ UNCHANGED <<MaxConns, places, pool>>

Return(u) ==
    /\ uses[u] # None
    /\ uses' = [uses EXCEPT ![u] = None]
    /\ UNCHANGED <<MaxConns, places, pool>>

\* The request of u has failed on its connection.
Discard(u) ==
    /\ uses[u] # None
    /\ pool' = pool \ {uses[u]}
    /\ uses' = [uses EXCEPT ![u] = None]
    /\ UNCHANGED <<MaxConns, places>>

\* A connection that nobody uses is closed.
Expire(c) ==
    /\ c \in pool
    /\ Unused(c)
    /\ pool' = pool \ {c}
    /\ UNCHANGED <<MaxConns, places, uses>>

Next ==
    \/ TakePlace
    \/ GiveUpPlace
    \/ \E c \in Conn : Open(c) \/ Expire(c)
    \/ \E u \in User : Return(u) \/ Discard(u) \/ (\E c \in Conn : Use(u, c))

Spec == Init /\ [][Next]_vars
=============================================================================
