----------------------------- MODULE AddrCache -----------------------------
(***************************************************************************)
(* The cache of resolved addresses of a TCPDialer: getTCPAddrs and         *)
(* tcpAddrsClean (src/sleepytcp/dial_tcp.go).                              *)
(*                                                                         *)
(* The lock is not held while an address is resolved, so that anything may *)
(* have become of the entry by then; an entry that has left the table      *)
(* stays in use by those who found it there.                               *)
(***************************************************************************)
EXTENDS DialConstants

CONSTANTS
    Host,       \* the addr that callers ask for
    Entry       \* tcpAddrEntry values

ASSUME AddrCacheAssumption == None \notin Entry \cup Host

VARIABLES
    table,      \* tcpAddrsMap
    entries,    \* what each entry holds
    stage,      \* of each caller in getTCPAddrs
    host,       \* what it has asked for
    entry       \* the entry it has found or made

cacheVars == <<table, entries, stage, host, entry>>

\* Ages: 0 up to DefaultDNSCacheDuration, 1 up to twice that, 2 beyond.
Entries  == [idx : 0 .. IdxSize - 1, age : 0 .. 2, pending : BOOLEAN]
NewEntry == [idx |-> 0, age |-> 0, pending |-> FALSE]

AddrCacheInit ==
    /\ table = [h \in Host |-> None]
    /\ entries = [e \in Entry |-> NewEntry]
    /\ stage = [p \in Caller |-> "idle"]
    /\ host = [p \in Caller |-> None]
    /\ entry = [p \in Caller |-> None]

Found(h) == table[h] # None

Usable(h) == entries[table[h]].pending \/ entries[table[h]].age = 0

-----------------------------------------------------------------------------
(* getTCPAddrs.  Its first critical section finds an entry, ...            *)

Hits(p, h) ==
    /\ stage[p] = "idle"
    /\ Found(h) /\ Usable(h)
    /\ stage' = [stage EXCEPT ![p] = "indexing"]
    /\ entry' = [entry EXCEPT ![p] = table[h]]
    /\ UNCHANGED <<table, entries, host>>

\* ... or one that has gone stale, to be refreshed by this caller alone, ...
Refreshes(p, h) ==
    /\ stage[p] = "idle"
    /\ Found(h) /\ ~Usable(h)
    /\ entries' = [entries EXCEPT ![table[h]].pending = TRUE]
    /\ stage' = [stage EXCEPT ![p] = "resolving"]
    /\ host' = [host EXCEPT ![p] = h]
    /\ UNCHANGED <<table, entry>>

\* ... or none.
Misses(p, h) ==
    /\ stage[p] = "idle"
    /\ ~Found(h)
    /\ stage' = [stage EXCEPT ![p] = "resolving"]
    /\ host' = [host EXCEPT ![p] = h]
    /\ UNCHANGED <<table, entries, entry>>

\* Mutant: pending stays set.
FailsPending(p) ==
    /\ stage[p] = "resolving"
    /\ stage' = [stage EXCEPT ![p] = "idle"]
    /\ host' = [host EXCEPT ![p] = None]
    /\ UNCHANGED <<table, entries, entry>>

\* resolveTCPAddrs fails.  The mark is taken off the entry that is in the table
\* now, whoever has set it.
Fails(p) ==
    LET h == host[p]
    IN  /\ stage[p] = "resolving"
        /\ stage' = [stage EXCEPT ![p] = "idle"]
        /\ host' = [host EXCEPT ![p] = None]
        /\ entries' = IF Found(h) THEN [entries EXCEPT ![table[h]].pending = FALSE] ELSE entries
        /\ UNCHANGED <<table, entry>>

\* An entry that is new, or has left the table and is used by nobody.
Unused(e) ==
    /\ \A h \in Host : table[h] # e
    /\ \A p \in Caller : entry[p] # e

Resolves(p) ==
    /\ stage[p] = "resolving"
    /\ \E e \in Entry : /\ Unused(e)
                        /\ entries' = [entries EXCEPT ![e] = NewEntry]
                        /\ entry' = [entry EXCEPT ![p] = e]
                        /\ table' = [table EXCEPT ![host[p]] = e]
    /\ host' = [host EXCEPT ![p] = None]
    /\ stage' = [stage EXCEPT ![p] = "indexing"]

\* Mutant: the index outgrows its width.
TakesUnwrapped(p) ==
    /\ stage[p] = "indexing"
    /\ entries' = [entries EXCEPT ![entry[p]].idx = @ + 1]
    /\ entry' = [entry EXCEPT ![p] = None]
    /\ stage' = [stage EXCEPT ![p] = "idle"]
    /\ UNCHANGED <<table, host>>

\* atomic.AddUint32; dial goes on with the entry's addresses from this index.
TakesIndex(p) ==
    /\ stage[p] = "indexing"
    /\ entries' = [entries EXCEPT ![entry[p]].idx = (@ + 1) % IdxSize]
    /\ entry' = [entry EXCEPT ![p] = None]
    /\ stage' = [stage EXCEPT ![p] = "idle"]
    /\ UNCHANGED <<table, host>>

-----------------------------------------------------------------------------
Ages(h) ==
    /\ Found(h)
    /\ entries[table[h]].age < 2
    /\ entries' = [entries EXCEPT ![table[h]].age = @ + 1]
    /\ UNCHANGED <<table, stage, host, entry>>

\* Mutant: an entry that is being refreshed is spared.
SparesPending(h) ==
    /\ Found(h)
    /\ entries[table[h]].age = 2
    /\ ~entries[table[h]].pending
    /\ table' = [table EXCEPT ![h] = None]
    /\ UNCHANGED <<entries, stage, host, entry>>

\* tcpAddrsClean, also of an entry that is being refreshed.
Cleans(h) ==
    /\ Found(h)
    /\ entries[table[h]].age = 2
    /\ table' = [table EXCEPT ![h] = None]
    /\ UNCHANGED <<entries, stage, host, entry>>

-----------------------------------------------------------------------------
AddrCacheNext ==
    \/ \E p \in Caller :
          \/ \E h \in Host : Hits(p, h) \/ Refreshes(p, h) \/ Misses(p, h)
          \/ Fails(p) \/ Resolves(p) \/ TakesIndex(p)
    \/ \E h \in Host : Ages(h) \/ Cleans(h)

CacheSpec == AddrCacheInit /\ [][AddrCacheNext]_cacheVars

\* The resolver answers, time passes, and the cleaner runs every second.
CacheFairSpec ==
    /\ CacheSpec
    /\ \A p \in Caller : WF_cacheVars(Fails(p) \/ Resolves(p) \/ TakesIndex(p))
    /\ \A h \in Host : WF_cacheVars(Ages(h)) /\ WF_cacheVars(Cleans(h))

-----------------------------------------------------------------------------
CacheTypeOK ==
    /\ table \in [Host -> Entry \cup {None}]
    /\ entries \in [Entry -> Entries]
    /\ stage \in [Caller -> {"idle", "resolving", "indexing"}]
    /\ host \in [Caller -> Host \cup {None}]
    /\ entry \in [Caller -> Entry \cup {None}]

\* An entry that is marked as pending is being resolved by somebody, so that its
\* addresses do not stay in use after they have gone stale.
PendingIsResolved ==
    \A h \in Host : (Found(h) /\ entries[table[h]].pending) =>
        \E p \in Caller : stage[p] = "resolving" /\ host[p] = h

\* No host is served by stale addresses for ever, not even when its name can no
\* longer be resolved and callers keep marking the entry.
StaleEnds == \A h \in Host : []<>(~Found(h) \/ entries[table[h]].age = 0)
=============================================================================
