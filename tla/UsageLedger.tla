---------------------------- MODULE UsageLedger ----------------------------
(***************************************************************************)
(* The usage of one provider session (src/src/db/usage.rs): the agent      *)
(* tells a counter that only its own restarts lower, a turn that ends with *)
(* a usage records the difference to the counter stored last, and the      *)
(* turns of a thread may overlap, since a stopped run records while the    *)
(* next one is at work. The counters of a snapshot and its cost are        *)
(* diffed alike and are one here; a snapshot may lack it: a cancelled      *)
(* prompt has a cost and counters of zero, a turn without a cost in this   *)
(* currency stores none, and either is a baseline of zero for the next.    *)
(***************************************************************************)
EXTENDS Integers

CONSTANTS
  Prompted,   \* prompt turns of the session
  MaxTokens   \* bound on the tokens of a turn, and on those used before

ASSUME UsageConstants == MaxTokens \in Nat /\ "nobody" \notin Prompted

VARIABLES
  counter,     \* what the agent would report now
  stored,      \* usage_sessions: the last counter, or NoRow
  newest,      \* history: when the stored snapshot was taken
  known,       \* history: the counter at that time, which it may lack
  ledger,      \* usage_events: the sum
  turn,        \* the turns
  writer,      \* who is in BEGIN IMMEDIATE
  taken,       \* snapshots taken so far
  used,        \* history: the tokens the turns used
  regained,    \* history: tokens a snapshot without a counter had forgotten, told again
  recordedLate \* history: a snapshot was recorded after a newer one

histVars == <<newest, known, regained, recordedLate>>
usageVars == <<counter, stored, ledger, turn, writer, taken, used, histVars>>

NoRow == -1
NoWriter == "nobody"

UsageTypeOK ==
  /\ counter \in Nat /\ stored \in Nat \cup {NoRow} /\ ledger \in Nat
  /\ turn \in [Prompted -> [at : {"off", "works", "ended", "read", "over"}, fresh : BOOLEAN,
                            snap : Nat, blank : BOOLEAN, nth : Nat, prev : Nat \cup {NoRow}]]
  /\ writer \in Prompted \cup {NoWriter}
  /\ newest \in Nat /\ taken \in Nat /\ used \in Nat /\ recordedLate \in BOOLEAN
  /\ known \in Nat /\ regained \in Nat

\* A session the server has seen from its start, or one with a past.
UsageInit ==
  /\ counter \in {0, MaxTokens}
  /\ stored = NoRow /\ newest = 0 /\ known = 0 /\ ledger = 0
  /\ turn = [t \in Prompted |-> [at |-> "off", fresh |-> FALSE, snap |-> 0,
                                 blank |-> FALSE, nth |-> 0, prev |-> NoRow]]
  /\ writer = NoWriter /\ taken = 0 /\ used = 0 /\ regained = 0 /\ recordedLate = FALSE

TurnSets(t, rec) == turn' = [turn EXCEPT ![t] = rec]

\* delta
Delta(new, prev) == IF prev # NoRow /\ new >= prev THEN new - prev ELSE new

-----------------------------------------------------------------------------

\* A turn starts. The first one of a session without a past has created it.
Begins(t) ==
  /\ turn[t].at = "off"
  /\ TurnSets(t, [turn[t] EXCEPT !.at = "works",
                !.fresh = counter = 0 /\ \A o \in Prompted : turn[o].at = "off"])
  /\ UNCHANGED <<counter, stored, ledger, writer, taken, used, histVars>>

\* It ends, after some tokens, with a snapshot, that may lack the counter, or
\* without one: a hard abort, an error and a turn without usage record nothing.
TurnEnds(t) ==
  /\ turn[t].at = "works"
  /\ \E n \in 0..MaxTokens :
       /\ counter' = counter + n /\ used' = used + n
       /\ \/ \E b \in BOOLEAN :
               /\ taken' = taken + 1
               /\ TurnSets(t, [turn[t] EXCEPT !.at = "ended", !.snap = counter',
                                              !.blank = b, !.nth = taken'])
          \/ TurnSets(t, [turn[t] EXCEPT !.at = "over"]) /\ UNCHANGED taken
  /\ UNCHANGED <<stored, ledger, writer, histVars>>

\* The agent's process restarts its accounting.
Restarts ==
  /\ counter > 0
  /\ counter' = 0
  /\ UNCHANGED <<stored, ledger, turn, writer, taken, used, histVars>>

\* Mutant of ReadsBaseline: BEGIN instead of BEGIN IMMEDIATE.
ReadsDeferred(t) ==
  /\ turn[t].at = "ended"
  /\ TurnSets(t, [turn[t] EXCEPT !.at = "read", !.prev = stored])
  /\ writer' = t
  /\ UNCHANGED <<counter, stored, ledger, taken, used, histVars>>

\* record_turn_usage: the write lock, then the baseline.
ReadsBaseline(t) ==
  /\ turn[t].at = "ended" /\ writer = NoWriter
  /\ TurnSets(t, [turn[t] EXCEPT !.at = "read", !.prev = stored])
  /\ writer' = t
  /\ UNCHANGED <<counter, stored, ledger, taken, used, histVars>>

\* The counter as the snapshot tells it.
Told(t) == IF turn[t].blank THEN 0 ELSE turn[t].snap

\* The first snapshot of a session with a past is a baseline only.
Counts(t) ==
  IF turn[t].prev = NoRow /\ ~ turn[t].fresh THEN 0 ELSE Delta(Told(t), turn[t].prev)

\* record_locked: both rows are committed, or neither is.
RecordsUsage(t) ==
  /\ turn[t].at = "read"
  /\ \/ /\ stored' = Told(t) /\ ledger' = ledger + Counts(t)
        /\ newest' = turn[t].nth /\ known' = turn[t].snap
        /\ regained' = regained + IF stored # NoRow /\ Told(t) >= known THEN known - stored ELSE 0
        /\ recordedLate' = (recordedLate \/ turn[t].nth < newest)
     \/ UNCHANGED <<stored, ledger, histVars>>
  /\ writer' = NoWriter
  /\ TurnSets(t, [turn[t] EXCEPT !.at = "over"])
  /\ UNCHANGED <<counter, taken, used>>

UsageNext ==
  \/ Restarts
  \/ \E t \in Prompted : Begins(t) \/ TurnEnds(t) \/ ReadsBaseline(t) \/ RecordsUsage(t)

UsageSpec == UsageInit /\ [][UsageNext]_usageVars

-----------------------------------------------------------------------------

\* Turns that fail, agents that restart, sessions with a past and recorders
\* that overlap never have a token counted twice, as long as snapshots are
\* recorded in the order they were taken ("would let a concurrent recorder
\* read the same stale baseline and double-count a turn"). A snapshot without a
\* counter is the exception, and costs no more than the counter it has the
\* server forget: with the next one that much is counted again.
NothingIsCountedTwice == ~ recordedLate => ledger =< used + regained

\* A stopped turn that records after the turn that replaced it lowers the
\* counter: it is counted in full, and so is the difference to come; and so it
\* is after a prompt that was cancelled.
LedgerIsBounded == ledger =< used
=============================================================================
