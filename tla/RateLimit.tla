------------------------------ MODULE RateLimit ------------------------------
(***************************************************************************)
(* The token buckets of src/src/security/rate_limit.rs: one per endpoint   *)
(* group and address, created full at the first costly request, refilled   *)
(* lazily, and evicted when nobody should notice. The unit of time is the  *)
(* refill of one token (half a second in main.rs), costs are in tokens. A  *)
(* check holds the lock throughout and is one step.                        *)
(***************************************************************************)
EXTENDS Integers, FiniteSets

CONSTANTS
  Key,         \* pairs of bucket name and address
  Cost,        \* what a request may cost; free ones do not get here
  Capacity,    \* tokens of a full bucket (500 in main.rs)
  MaxEntries,  \* MAX_ENTRIES
  MaxIdle,     \* MAX_IDLE (7200 refills)
  SweepEvery,  \* SWEEP_INTERVAL (120 refills)
  MaxNow       \* bound on the clock

\* An hour is longer than a bucket takes to fill: 500 tokens, two a second.
ASSUME RateConstants ==
  /\ IsFiniteSet(Key)
  /\ Cost \subseteq Nat \ {0}
  /\ Capacity \in Nat
  /\ MaxEntries \in Nat \ {0}
  /\ MaxIdle \in Nat /\ MaxIdle >= Capacity
  /\ SweepEvery \in Nat
  /\ MaxNow \in Nat

VARIABLES
  now,        \* Instant::now
  buckets,    \* the map: a Bucket, or NoBucket for keys it does not hold
  nextSweep,  \* State::next_sweep
  granted,    \* history: the tokens each key was ever granted
  answer      \* history: the last request and its answer

rateVars == <<now, buckets, nextSweep, granted, answer>>

Bucket == [tokens : 0..Capacity, last : Nat]

NoBucket == [tokens |-> -1, last |-> -1]

Answer(k, c, ok) == [key |-> k, cost |-> c, granted |-> ok]

RateInit ==
  /\ now = 0
  /\ buckets = [k \in Key |-> NoBucket]
  /\ nextSweep = SweepEvery
  /\ granted = [k \in Key |-> 0]
  /\ answer = [key |-> "none", cost |-> 0, granted |-> FALSE]

Held(m) == {k \in Key : m[k] # NoBucket}

\* Mutant of Worth: what has idled for a sweep is not worth keeping.
WorthForASweep(b) ==
  /\ now - b.last < SweepEvery
  /\ b.tokens + (now - b.last) < Capacity

\* An entry is kept while it is young and has not refilled.
Worth(b) ==
  /\ now - b.last < MaxIdle
  /\ b.tokens + (now - b.last) < Capacity

\* evict_stale
Evicted(m) ==
  [k \in Key |-> IF m[k] # NoBucket /\ Worth(m[k]) THEN m[k] ELSE NoBucket]

\* The table after the sweep that is due every minute.
Tidied == IF now >= nextSweep THEN Evicted(buckets) ELSE buckets

NoRoomFor(k, m) == m[k] = NoBucket /\ Cardinality(Held(m)) >= MaxEntries

\* The table after the sweep that a new key causes when it is full.
Cleared(k) == IF NoRoomFor(k, Tidied) THEN Evicted(Tidied) ELSE Tidied

SweepIsNoted(k) ==
  nextSweep' = IF now >= nextSweep \/ NoRoomFor(k, Tidied)
               THEN now + SweepEvery
               ELSE nextSweep

\* What the bucket of k holds by now; a new one is full.
Level(k, m) ==
  IF m[k] = NoBucket \/ m[k].tokens + (now - m[k].last) > Capacity
  THEN Capacity
  ELSE m[k].tokens + (now - m[k].last)

\* The table is full of keys that owe: unseen keys are turned away.
TurnsAway(k, c) ==
  /\ NoRoomFor(k, Cleared(k))
  /\ buckets' = Cleared(k)
  /\ answer' = Answer(k, c, FALSE)
  /\ SweepIsNoted(k)
  /\ UNCHANGED <<now, granted>>

Allows(k, c) ==
  /\ ~ NoRoomFor(k, Cleared(k))
  /\ Level(k, Cleared(k)) >= c
  /\ buckets' = [Cleared(k) EXCEPT ![k] =
                   [tokens |-> Level(k, Cleared(k)) - c, last |-> now]]
  /\ granted' = [granted EXCEPT ![k] = @ + c]
  /\ answer' = Answer(k, c, TRUE)
  /\ SweepIsNoted(k)
  /\ UNCHANGED now

\* A refusal costs nothing, but the refill is booked.
Denies(k, c) ==
  /\ ~ NoRoomFor(k, Cleared(k))
  /\ Level(k, Cleared(k)) < c
  /\ buckets' = [Cleared(k) EXCEPT ![k] =
                   [tokens |-> Level(k, Cleared(k)), last |-> now]]
  /\ answer' = Answer(k, c, FALSE)
  /\ SweepIsNoted(k)
  /\ UNCHANGED <<now, granted>>

Tick ==
  /\ now < MaxNow
  /\ now' = now + 1
  /\ UNCHANGED <<buckets, nextSweep, granted, answer>>

RateNext ==
  \/ Tick
  \/ \E k \in Key, c \in Cost : TurnsAway(k, c) \/ Allows(k, c) \/ Denies(k, c)

RateSpec == RateInit /\ [][RateNext]_rateVars

-----------------------------------------------------------------------------

RateTypeOK ==
  /\ now \in Nat /\ nextSweep \in Nat
  /\ buckets \in [Key -> Bucket \cup {NoBucket}]
  /\ \A k \in Key : buckets[k].last =< now
  /\ granted \in [Key -> Nat]

\* A key owes what its bucket lacks.
Debt == [k \in Key |-> Capacity - Level(k, buckets)]

Promise == INSTANCE Limiter WITH debt <- Debt

\* The limiter behaves as one that never drops a bucket ("a fresh entry
\* behaves identically"): eviction forgives nobody a debt, whether it comes
\* with the clock or because the table is full, and a key that owes nothing
\* is turned away only when as many keys owe as the table holds.
ImplementsLimiter == Promise!LimiterSpec

\* Over any time from the start, a key is granted at most a full bucket and
\* what was refilled since, however it times its requests around the sweeps.
RateIsBounded == \A k \in Key : granted[k] =< Capacity + now
=============================================================================
