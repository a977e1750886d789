------------------------------- MODULE Client -------------------------------
(***************************************************************************)
(* Client (src/sleepytcp/client.go): a map of HostClients by address, and  *)
(* a goroutine, cleanupIdleClients, that removes those without connections *)
(* and ends when the map is empty.                                         *)
(*                                                                         *)
(* A HostClient is a value of Instance, of which only count matters here;  *)
(* its users and its own cleaner change count as the places of ConnPool,   *)
(* which HostClient implements.  The cleaner holds c.mu while it goes      *)
(* through the map but looks at each count under client.mu alone, so every *)
(* look and every deletion is a step.                                      *)
(***************************************************************************)
EXTENDS Integers, FiniteSets

CONSTANTS
    Caller,     \* goroutines that call Do
    Host,       \* addresses
    Instance,   \* HostClient values
    Cleaner,    \* goroutines that run cleanupIdleClients
    MaxConns,   \* MaxConnsPerHost
    None

ASSUME ClientAssumption ==
    /\ MaxConns \in Nat \ {0}
    /\ None \notin Host \cup Instance \cup Cleaner
    /\ IsFiniteSet(Caller)
    /\ IsFiniteSet(Cleaner)

VARIABLES
    clients,    \* the map; None where there is no entry
    mu,         \* the cleaner that holds c.mu from step to step
    count,      \* HostClient.count
    pc,         \* of each caller
    target,     \* the HostClient a caller works with
    cleaner,    \* what each cleaner is doing
    todo,       \* the hosts that the range over the map has yet to come to
    victim      \* the host whose client was found idle

vars == <<clients, mu, count, pc, target, cleaner, todo, victim>>

ClientInit ==
    /\ clients = [h \in Host |-> None]
    /\ mu = None
    /\ count = [i \in Instance |-> 0]
    /\ pc = [p \in Caller |-> "idle"]
    /\ target = [p \in Caller |-> None]
    /\ cleaner = [k \in Cleaner |-> "off"]
    /\ todo = {}
    /\ victim = None

Mapped == {h \in Host : clients[h] # None}

InMap(i) == \E h \in Host : clients[h] = i

\* A HostClient that does not exist yet, or that nobody refers to any more.
Fresh(i) ==
    /\ ~InMap(i)
    /\ count[i] = 0
    /\ \A p \in Caller : target[p] # i

-----------------------------------------------------------------------------
(* Do.                                                                     *)

LooksUp(p, h) ==
    /\ pc[p] = "idle"
    /\ mu = None
    /\ clients[h] # None
    /\ target' = [target EXCEPT ![p] = clients[h]]
    /\ pc' = [pc EXCEPT ![p] = "calling"]
    /\ UNCHANGED <<clients, mu, count, cleaner, todo, victim>>

\* Mutant: every new HostClient starts a cleaner.
CreatesAndStarts(p, h) ==
    /\ pc[p] = "idle"
    /\ mu = None
    /\ clients[h] = None
    /\ \E i \in Instance : /\ Fresh(i)
                           /\ clients' = [clients EXCEPT ![h] = i]
                           /\ target' = [target EXCEPT ![p] = i]
    /\ pc' = [pc EXCEPT ![p] = "starting"]
    /\ UNCHANGED <<mu, count, cleaner, todo, victim>>

\* startCleaner is true of a caller at "starting".
Creates(p, h) ==
    /\ pc[p] = "idle"
    /\ mu = None
    /\ clients[h] = None
    /\ \E i \in Instance : /\ Fresh(i)
                           /\ clients' = [clients EXCEPT ![h] = i]
                           /\ target' = [target EXCEPT ![p] = i]
    /\ pc' = [pc EXCEPT ![p] = IF Mapped = {} THEN "starting" ELSE "calling"]
    /\ UNCHANGED <<mu, count, cleaner, todo, victim>>

StartsCleaner(p) ==
    /\ pc[p] = "starting"
    /\ \E k \in Cleaner : /\ cleaner[k] = "off"
                          /\ cleaner' = [cleaner EXCEPT ![k] = "running"]
    /\ pc' = [pc EXCEPT ![p] = "calling"]
    /\ UNCHANGED <<clients, mu, count, target, todo, victim>>

-----------------------------------------------------------------------------
(* HostClient.Do, and HostClient's own cleaner.                            *)

Users(i) == {p \in Caller : target[p] = i /\ pc[p] = "using"}

\* On a new place, or on the connection of one that is idle.
Acquires(p) ==
    LET i == target[p]
    IN  /\ pc[p] = "calling"
        /\ \/ count[i] < MaxConns /\ count' = [count EXCEPT ![i] = @ + 1]
           \/ count[i] > Cardinality(Users(i)) /\ UNCHANGED count
        /\ pc' = [pc EXCEPT ![p] = "using"]
        /\ UNCHANGED <<clients, mu, target, cleaner, todo, victim>>

\* No connection is free, or none comes in time.
Refused(p) ==
    /\ pc[p] = "calling"
    /\ count[target[p]] = MaxConns
    /\ pc' = [pc EXCEPT ![p] = "idle"]
    /\ target' = [target EXCEPT ![p] = None]
    /\ UNCHANGED <<clients, mu, count, cleaner, todo, victim>>

\* The connection becomes idle, or its place is given up.
Finishes(p) ==
    /\ pc[p] = "using"
    /\ \/ UNCHANGED count
       \/ count' = [count EXCEPT ![target[p]] = @ - 1]
    /\ pc' = [pc EXCEPT ![p] = "idle"]
    /\ target' = [target EXCEPT ![p] = None]
    /\ UNCHANGED <<clients, mu, cleaner, todo, victim>>

\* A failed request gives its place up, or passes it on to a caller that waits, and
\* is repeated on the same HostClient, whether that is still in the map or not.
Retries(p) ==
    /\ pc[p] = "using"
    /\ \/ UNCHANGED count
       \/ count' = [count EXCEPT ![target[p]] = @ - 1]
    /\ pc' = [pc EXCEPT ![p] = "calling"]
    /\ UNCHANGED <<clients, mu, target, cleaner, todo, victim>>

\* Mutant: a connection in use expires.
ExpiresInUse(i) ==
    /\ count[i] > 0
    /\ count' = [count EXCEPT ![i] = @ - 1]
    /\ UNCHANGED <<clients, mu, pc, target, cleaner, todo, victim>>

Expires(i) ==
    /\ count[i] > Cardinality(Users(i))
    /\ count' = [count EXCEPT ![i] = @ - 1]
    /\ UNCHANGED <<clients, mu, pc, target, cleaner, todo, victim>>

-----------------------------------------------------------------------------
(* cleanupIdleClients.                                                     *)

Locks(k) ==
    /\ cleaner[k] = "running"
    /\ mu = None
    /\ mu' = k
    /\ todo' = Mapped
    /\ cleaner' = [cleaner EXCEPT ![k] = "visiting"]
    /\ UNCHANGED <<clients, count, pc, target, victim>>

\* idle is decided under client.mu, ...
Visits(k, h) ==
    /\ cleaner[k] = "visiting"
    /\ h \in todo
    /\ todo' = todo \ {h}
    /\ IF count[clients[h]] = 0
         THEN victim' = h /\ cleaner' = [cleaner EXCEPT ![k] = "deleting"]
         ELSE UNCHANGED <<victim, cleaner>>
    /\ UNCHANGED <<clients, mu, count, pc, target>>

\* Mutant: the entry stays.
DeletesNothing(k) ==
    /\ cleaner[k] = "deleting"
    /\ victim' = None
    /\ cleaner' = [cleaner EXCEPT ![k] = "visiting"]
    /\ UNCHANGED <<clients, mu, count, pc, target, todo>>

\* ... and the entry is deleted when that has been released.
Deletes(k) ==
    /\ cleaner[k] = "deleting"
    /\ clients' = [clients EXCEPT ![victim] = None]
    /\ victim' = None
    /\ cleaner' = [cleaner EXCEPT ![k] = "visiting"]
    /\ UNCHANGED <<mu, count, pc, target, todo>>

\* stop is decided under c.mu.
Unlocks(k) ==
    /\ cleaner[k] = "visiting"
    /\ todo = {}
    /\ mu' = None
    /\ cleaner' = [cleaner EXCEPT ![k] = IF Mapped = {} THEN "off" ELSE "sleeping"]
    /\ UNCHANGED <<clients, count, pc, target, todo, victim>>

Wakes(k) ==
    /\ cleaner[k] = "sleeping"
    /\ cleaner' = [cleaner EXCEPT ![k] = "running"]
    /\ UNCHANGED <<clients, mu, count, pc, target, todo, victim>>

-----------------------------------------------------------------------------
CallerStep(p) ==
    StartsCleaner(p) \/ Acquires(p) \/ Refused(p) \/ Finishes(p) \/ Retries(p)

CleanerStep(k) ==
    Locks(k) \/ (\E h \in Host : Visits(k, h)) \/ Deletes(k) \/ Unlocks(k) \/ Wakes(k)

ClientNext ==
    \/ \E p \in Caller : CallerStep(p) \/ (\E h \in Host : LooksUp(p, h) \/ Creates(p, h))
    \/ \E i \in Instance : Expires(i)
    \/ \E k \in Cleaner : CleanerStep(k)

Spec == ClientInit /\ [][ClientNext]_vars

\* The scheduler runs a goroutine that was started, and the one about to start it.
\* Nothing is assumed of requests, which need not have a deadline and are retried
\* without bound, nor of the expiry of connections, of which an idle one may be left
\* without a cleaner of its own (client_host.go:484-490).
FairSpec ==
    /\ Spec
    /\ \A p \in Caller : WF_vars(StartsCleaner(p))
    /\ \A k \in Cleaner : WF_vars(CleanerStep(k))

-----------------------------------------------------------------------------
TypeOK ==
    /\ clients \in [Host -> Instance \cup {None}]
    /\ mu \in Cleaner \cup {None}
    /\ count \in [Instance -> 0 .. MaxConns]
    /\ pc \in [Caller -> {"idle", "starting", "calling", "using"}]
    /\ target \in [Caller -> Instance \cup {None}]
    /\ cleaner \in [Cleaner -> {"off", "running", "visiting", "deleting", "sleeping"}]
    /\ todo \subseteq Host
    /\ victim \in Host \cup {None}

\* As long as there is anything in the map exactly one cleaner looks after it or
\* is about to be started, though cleaners end by themselves and callers start
\* them outside c.mu; an empty map has none.
OneLoop ==
    Cardinality({p \in Caller : pc[p] = "starting"})
        + Cardinality({k \in Cleaner : cleaner[k] # "off"})
      = IF Mapped # {} \/ mu # None THEN 1 ELSE 0

\* A HostClient that stays without connections is removed from the map.
IdleRecycled ==
    \A h \in Host : []<>(clients[h] = None \/ count[clients[h]] > 0)
=============================================================================
