---------------------------- MODULE ProviderProbe ----------------------------
(***************************************************************************)
(* ProviderStatusCache of providers/status.rs for one command: what its    *)
(* --version probe said is kept for a minute, and callers who find nothing *)
(* share a probe through a lock of their command. A step is what happens   *)
(* between two awaits. Entries also go when a command is saved.            *)
(***************************************************************************)
EXTENDS Naturals

CONSTANTS
  Prober,     \* callers of status_for
  MaxLocks,   \* bound on locks that are created
  MaxDrops    \* bound on the times the entry of the cache goes

ASSUME ProbeConstants == MaxLocks \in Nat /\ MaxDrops \in Nat

VARIABLES
  cached,    \* the cache has an entry
  inflight,  \* the lock in the map, 0 if there is none
  locks,     \* number of locks created so far
  prober,    \* prober[c]: where a caller is, and its lock
  drops      \* number of times the entry went

probeVars == <<cached, inflight, locks, prober, drops>>

Gone == [at |-> "gone", lock |-> 0]
At(c, place) == prober[c].at = place

\* A caller that holds the lock has looked again, runs its probe, or has
\* stored the result and is about to clear the map.
Holds(c) == prober[c].at \in {"looks", "probes", "clears"}

ProbeTypeOK ==
  /\ cached \in BOOLEAN
  /\ locks \in 0..MaxLocks /\ inflight \in 0..locks
  /\ prober \in [Prober -> [at : {"gone", "asks", "waits", "looks", "probes", "clears"},
                            lock : 0..MaxLocks]]
  /\ drops \in 0..MaxDrops
  /\ \A c, d \in Prober : c # d /\ Holds(c) /\ Holds(d) => prober[c].lock # prober[d].lock

ProbeInit ==
  /\ cached = FALSE /\ inflight = 0 /\ locks = 0 /\ drops = 0
  /\ prober = [c \in Prober |-> Gone]

Moves(c, from, to) ==
  /\ At(c, from)
  /\ prober' = [prober EXCEPT ![c] = IF to = "gone" THEN Gone ELSE [@ EXCEPT !.at = to]]

\* A caller that finds an entry is answered at once.
Misses(c) ==
  /\ ~ cached
  /\ Moves(c, "gone", "asks")
  /\ UNCHANGED <<cached, inflight, locks, drops>>

\* The lock of the command, a new one if the map has none.
TakesEntry(c) ==
  /\ At(c, "asks")
  /\ inflight = 0 => locks < MaxLocks
  /\ inflight' = IF inflight = 0 THEN locks + 1 ELSE inflight
  /\ locks' = IF inflight = 0 THEN locks + 1 ELSE locks
  /\ prober' = [prober EXCEPT ![c] = [at |-> "waits", lock |-> inflight']]
  /\ UNCHANGED <<cached, drops>>

Locks(c) ==
  /\ \A d \in Prober : prober[d].lock = prober[c].lock => ~ Holds(d)
  /\ Moves(c, "waits", "looks")
  /\ UNCHANGED <<cached, inflight, locks, drops>>

\* "Another caller may have populated the cache while we waited."
LooksAgain(c) ==
  /\ Moves(c, "looks", IF cached THEN "gone" ELSE "probes")
  /\ UNCHANGED <<cached, inflight, locks, drops>>

ProbeEnds(c) ==
  /\ Moves(c, "probes", "clears")
  /\ cached' = TRUE
  /\ UNCHANGED <<inflight, locks, drops>>

\* Whatever lock the map has by now.
Clears(c) ==
  /\ Moves(c, "clears", "gone")
  /\ inflight' = 0
  /\ UNCHANGED <<cached, locks, drops>>

\* The request of a caller is dropped, and its lock with it.
IsDropped(c) ==
  /\ ~ At(c, "gone")
  /\ prober' = [prober EXCEPT ![c] = Gone]
  /\ UNCHANGED <<cached, inflight, locks, drops>>

\* invalidate, or the minute is over.
EntryGoes ==
  /\ cached /\ drops < MaxDrops
  /\ cached' = FALSE /\ drops' = drops + 1
  /\ UNCHANGED <<inflight, locks, prober>>

ProbeNext ==
  \/ \E c \in Prober :
       \/ Misses(c) \/ TakesEntry(c) \/ Locks(c) \/ LooksAgain(c)
       \/ ProbeEnds(c) \/ Clears(c) \/ IsDropped(c)
  \/ EntryGoes

ProbeSpec == ProbeInit /\ [][ProbeNext]_probeVars

-----------------------------------------------------------------------------

\* "Concurrent readers share a single probe": one is started only if nothing
\* is stored, and beside another only once an entry has gone (then the map may
\* have lost a lock that others still wait for, or lose another one).
ProbesAreShared ==
  [][\A c \in Prober : ~ At(c, "probes") /\ prober'[c].at = "probes" =>
       ~ cached /\ (drops > 0 \/ \A d \in Prober : ~ At(d, "probes"))]_probeVars
=============================================================================
