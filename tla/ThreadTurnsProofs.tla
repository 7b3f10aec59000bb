-------------------------- MODULE ThreadTurnsProofs --------------------------
(***************************************************************************)
(* Proofs about ThreadTurns, for any requests and stops: the turns of a    *)
(* thread stay in order, a stopped run ends once, a run that completed has *)
(* its reply, and a user message at the end of the thread is minded by a   *)
(* run or by a watchdog, whatever rows are taken back meanwhile.           *)
(***************************************************************************)
EXTENDS ThreadTurns, FiniteSetTheorems, WellFoundedInduction, TLAPS

-----------------------------------------------------------------------------
(* The inductive invariant *)

Where == {"idle", "persisted", "rollback", "edit", "regenerate", "refused",
          "dropped"} \cup InTask \cup Over
Row == [id : Nat, role : Role, turn : Nat, by : Request \cup Stopper \cup {NoRun}]

TurnsTypes ==
  /\ rows \subseteq Row
  /\ lastId \in Nat
  /\ at \in [Request -> Where]
  /\ local \in [Request -> [anchor : Nat, prompt : Nat, reply : Nat, nudged : BOOLEAN]]
  /\ status \in [Request -> {"none", "running", "completed", "failed", "stopped", "lost"}]
  /\ cancelled \in [Request -> Nat]
  /\ IsFiniteSet({q \in Request : Cancelled(q)})
  /\ holder \in Request \cup {NoRun}
  /\ dog \in [Stopper -> [at : {"idle", "waiting", "checks", "reads", "mark", "done"},
                          target : Request \cup {NoRun}, seen : SUBSET Request]]
  /\ server \in {"up", "down"}
  /\ strayed \in BOOLEAN

\* Ids are handed out in order, and turns grow with them.
NumbersInv ==
  /\ \A m \in rows : m.id <= lastId /\ m.turn <= lastId
  /\ \A m, n \in rows : m.id = n.id => m = n
  /\ TurnsAreOrdered

\* What each request has stored by the point its handler or run has come to.
Before == {"replace", "truncate", "cut", "provider", "nudge", "partial", "mark", "errpart",
           "reply", "insert"}

OwnInv ==
  \A m \in rows, q \in Request :
    /\ at[q] \in {"persisted", "rollback"} =>
         (m.by = q => m.id = local[q].prompt /\ m.role = "user")
         /\ (m.id = local[q].prompt => m.by = q)
    /\ at[q] = "dropped" => (m.by = q => m.role = "user")
    /\ at[q] \in {"inserted", "undo"} =>
         (m.by = q /\ m.role = "assistant" => m.id = local[q].reply)
         /\ (m.id = local[q].reply => m.by = q /\ m.role = "assistant")
    /\ m.by = q => at[q] \notin {"idle", "edit", "regenerate"}
    /\ m.by = q /\ m.role = "assistant" => at[q] \notin Before
    /\ m.by = q /\ m.role = "system" => at[q] \in {"err", "tail", "gone"}

\* A stopped run has ended once, and replies are runs'.
EndingInv ==
  /\ StoppedRunHasOneEnding
  /\ \A m \in rows : m.role = "assistant" => m.by \in Request

LocalInv ==
  \A q \in Request :
    local[q].anchor <= lastId /\ local[q].prompt <= lastId /\ local[q].reply <= lastId

\* The run in the map, and the runs that were stopped.
RunInv ==
  /\ \A q \in Request :
       /\ Cancelled(q) \/ holder = q => at[q] \in InTask \cup Over
       /\ status[q] = "running" => ~ Cancelled(q) /\ at[q] \in InTask \cup {"err"}
       /\ at[q] \in InTask /\ ~ Cancelled(q) => holder = q /\ status[q] = "running"
       /\ at[q] = "undo" => Cancelled(q)
  /\ server = "down" => \A q \in Request : at[q] \in {"idle", "gone"}

\* A stop waits for the task of the run in the map.
HolderIsWatched ==
  holder # NoRun /\ Cancelled(holder) /\ at[holder] \in InTask =>
    \E s \in Stopper : dog[s].at = "waiting" /\ dog[s].target = holder

\* Rows that their writer may take back, or might have if it had not been
\* dropped. The others are kept.
Shaky(m, q) ==
  /\ m.by = q
  /\ \/ at[q] \in {"persisted", "rollback", "dropped"}
     \/ at[q] \in {"inserted", "undo"} /\ Cancelled(q) /\ m.role = "assistant"

Kept == {m \in rows : \A q \in Request : ~ Shaky(m, q)}

KeptTail == \E m \in Kept : m.role = "user" /\ \A n \in Kept : n.id <= m.id

Active == InTask \ {"inserted", "finish"}

\* Somebody will close it who is not going to be aborted first.
Minded ==
  \/ server = "down"
  \/ strayed
  \/ \E q \in Request : at[q] \in Active /\ ~ Cancelled(q)
  \/ \E s \in Stopper : dog[s].at \notin {"idle", "done"}

TailInv == KeptTail => Minded

\* The running run has closed its turn.
CloseInv ==
  ~ strayed /\ Running /\ at[holder] \in {"inserted", "finish", "err"} =>
    \E c \in Kept :
      /\ c.by = holder
      /\ c.role # "user"
      /\ at[holder] # "err" => c.role = "assistant"
      /\ \A m \in Kept : m.id > c.id => m.role # "user"

\* Runs are stopped one after another, the run in the map last.
PlaceInv ==
  /\ \A q \in Request : cancelled[q] <= Cardinality({p \in Request : Cancelled(p)})
  /\ holder # NoRun /\ Cancelled(holder) =>
       \A q \in Request \ {holder} : cancelled[q] < cancelled[holder]

\* While a displaced run drains, the run in the map is not aborted, and so it
\* closes its turn itself. The watchdogs need this: a reply that the displaced
\* run is about to take back may hide the user message from them.
DrainInv ==
  /\ ~ strayed
  /\ \E q \in Request : Cancelled(q) /\ at[q] \in InTask /\ holder # q
  /\ KeptTail
  => /\ holder # NoRun
     /\ at[holder] \in Active \/ (at[holder] = "inserted" /\ Cancelled(holder))

TurnsInv ==
  /\ TurnsTypes /\ NumbersInv /\ OwnInv /\ LocalInv /\ EndingInv
  /\ RunInv /\ HolderIsWatched /\ PlaceInv /\ TailInv /\ CloseInv /\ DrainInv

-----------------------------------------------------------------------------
(* Lemmas about the table *)

\* A set of naturals that has an upper bound has a greatest element.
LEMMA MaxOfBounded ==
  ASSUME NEW T \in SUBSET Nat, T # {}, NEW bound \in Nat, \A t \in T : t <= bound
  PROVE  Max(T) \in T /\ \A t \in T : t <= Max(T)
<1> DEFINE U == {k \in Nat : \A t \in T : t <= k}
<1>1. PICK k \in U : \A j \in U : ~ (<<j, k>> \in OpToRel(<, Nat))
  <2>1. U # {}
    OBVIOUS
  <2> HIDE DEF U
  <2>2. U \subseteq Nat
    BY DEF U
  <2> QED
    BY <2>1, <2>2, NatLessThanWellFounded, WFMin
<1>2. \A j \in U : ~ (j < k)
  BY <1>1 DEF OpToRel
<1>3. k \in T
  <2> SUFFICES ASSUME k \notin T
               PROVE  FALSE
    OBVIOUS
  <2>1. k \in Nat /\ \A t \in T : t < k
    OBVIOUS
  <2>2. PICK t \in T : TRUE
    OBVIOUS
  <2>3. k - 1 \in Nat
    BY <2>1, <2>2
  <2>4. \A x \in T : x <= k - 1
    BY <2>1
  <2>5. k - 1 \in U
    BY <2>3, <2>4
  <2> QED
    BY <1>2, <2>1, <2>5
<1>4. \E x \in T : \A y \in T : x >= y
  BY <1>3
<1>5. Max(T) \in T /\ \A t \in T : Max(T) >= t
  BY <1>4 DEF Max
<1> QED
  BY <1>5

\* MaxTurn bounds the turns of the table.
LEMMA MaxTurnFacts ==
  ASSUME TurnsTypes, NumbersInv
  PROVE  /\ MaxTurn \in Nat
         /\ MaxTurn <= lastId
         /\ \A m \in rows : m.turn <= MaxTurn
<1> DEFINE T == {0} \cup {m.turn : m \in rows}
<1>1. T \in SUBSET Nat /\ T # {} /\ \A t \in T : t <= lastId
  BY DEF TurnsTypes, NumbersInv, Row
<1>2. lastId \in Nat
  BY DEF TurnsTypes
<1> HIDE DEF T
<1>3. Max(T) \in T /\ \A t \in T : t <= Max(T)
  BY <1>1, <1>2, MaxOfBounded
<1>4. MaxTurn = Max(T)
  BY DEF MaxTurn, T
<1>5. \A m \in rows : m.turn \in T
  BY DEF T
<1> QED
  BY <1>1, <1>3, <1>4, <1>5

\* The row that add_message puts into the table.
Added(row, role, writer) ==
  /\ row \in Row
  /\ row.id = lastId + 1
  /\ row.role = role
  /\ row.by = writer
  /\ \A m \in rows : m.turn <= row.turn /\ (role = "user" => m.turn < row.turn)
  /\ row.turn <= lastId + 1
  /\ rows' = rows \cup {row}
  /\ lastId' = lastId + 1

LEMMA AddFacts ==
  ASSUME TurnsTypes, NumbersInv, NEW role \in Role,
         NEW writer \in Request \cup Stopper \cup {NoRun}, Add(role, writer)
  PROVE  \E row : Added(row, role, writer)
<1> DEFINE row == [id |-> lastId + 1, role |-> role, turn |-> TurnOf(role), by |-> writer]
<1>1. lastId \in Nat
  BY DEF TurnsTypes
<1>2. TurnOf(role) \in Nat /\ TurnOf(role) <= lastId + 1
  BY <1>1, MaxTurnFacts DEF TurnOf
<1>3. \A m \in rows : m.turn \in Nat
  BY DEF TurnsTypes, Row
<1>4. \A m \in rows : m.turn <= TurnOf(role) /\ (role = "user" => m.turn < TurnOf(role))
  BY <1>3, MaxTurnFacts DEF TurnOf
<1>5. Added(row, role, writer)
  BY <1>1, <1>2, <1>4 DEF Added, Row, Add
<1> QED
  BY <1>5

LEMMA NumbersAfterAdd ==
  ASSUME TurnsTypes, NumbersInv, NEW row, NEW role, NEW writer, Added(row, role, writer)
  PROVE  rows' \subseteq Row /\ lastId' \in Nat /\ NumbersInv'
<1>1. lastId \in Nat /\ rows \subseteq Row
  BY DEF TurnsTypes
<1>2. rows' \subseteq Row /\ lastId' \in Nat
  BY <1>1 DEF Added
<1>3. \A m \in rows : m.id \in Nat /\ m.turn \in Nat /\ m.id <= lastId /\ m.turn <= lastId
  BY <1>1 DEF Row, NumbersInv
<1>4. row.id \in Nat /\ row.turn \in Nat
  BY DEF Added, Row
<1>5. \A m \in rows' : m.id <= lastId' /\ m.turn <= lastId'
  BY <1>1, <1>3, <1>4 DEF Added
<1>6. \A m, n \in rows' : m.id = n.id => m = n
  BY <1>1, <1>3, <1>4 DEF Added, NumbersInv
<1>7. TurnsAreOrdered'
  <2> SUFFICES ASSUME NEW m \in rows', NEW n \in rows', m.id < n.id
               PROVE  m.turn <= n.turn /\ (n.role = "user" => m.turn < n.turn)
    BY DEF TurnsAreOrdered
  <2>1. m \in rows
    BY <1>1, <1>3, <1>4 DEF Added
  <2>2. CASE n \in rows
    BY <2>1, <2>2 DEF NumbersInv, TurnsAreOrdered
  <2>3. CASE n = row
    BY <2>1, <2>3 DEF Added
  <2> QED
    BY <2>2, <2>3 DEF Added
<1> QED
  BY <1>2, <1>5, <1>6, <1>7 DEF NumbersInv

LEMMA NumbersAfterDelete ==
  ASSUME TurnsTypes, NumbersInv, rows' \subseteq rows, lastId' = lastId
  PROVE  rows' \subseteq Row /\ lastId' \in Nat /\ NumbersInv'
BY DEF TurnsTypes, NumbersInv, TurnsAreOrdered


\* Every step adds a row of the table or leaves it with some of those it has.
LEMMA TableStep ==
  ASSUME Next
  PROVE  \/ \E role \in Role, writer \in Request \cup Stopper \cup {NoRun} : Add(role, writer)
         \/ rows' \subseteq rows /\ lastId' = lastId
<1>1. ASSUME NEW q \in Request, Handler(q)
      PROVE  Add("user", q) \/ (rows' \subseteq rows /\ lastId' = lastId)
  BY <1>1 DEF Handler, SendPersists, SendStarts, SendRollsBack, RequestIsDropped, ResendReads,
    ResendStarts,
    Delete, db
<1>2. ASSUME NEW q \in Request, Pipeline(q)
      PROVE  \/ \E role \in Role : Add(role, q)
             \/ rows' \subseteq rows /\ lastId' = lastId
  BY <1>2 DEF Pipeline, EditReplaces, EditTruncates, EditRestores, RegenerateTruncates,
    NudgePersists, SavesPartial, Marks, SavesOutputOfFailure, SavesError, ReplyChecks,
    ReplyInserts, ReplyRechecks, ReplyUndone, Finishes, WrapperSettles, Aborted, Delete, Role, db
<1>3. ASSUME NEW q \in Request, Agent(q) \/ RecordLeaves(q)
      PROVE  rows' \subseteq rows /\ lastId' = lastId
  BY <1>3 DEF Agent, RateLimited, ProviderReturns, RecordLeaves, db
<1>4. ASSUME NEW s \in Stopper, Stop(s) \/ Watchdog(s)
      PROVE  Add("system", s) \/ (rows' \subseteq rows /\ lastId' = lastId)
  BY <1>4 DEF Stop, Watchdog, WatchdogWaits, WatchdogExpires, WatchdogChecks, WatchdogReads,
    WatchdogMarks, db
<1>5. ASSUME Crash \/ Boot
      PROVE  Add("error", NoRun) \/ (rows' \subseteq rows /\ lastId' = lastId)
  BY <1>5 DEF Crash, Boot, db
<1>6. "user" \in Role /\ "system" \in Role /\ "error" \in Role
  BY DEF Role
<1> QED
  BY <1>1, <1>2, <1>3, <1>4, <1>5, <1>6 DEF Next

LEMMA NumbersStep ==
  ASSUME TurnsTypes, NumbersInv, Next
  PROVE  rows' \subseteq Row /\ lastId' \in Nat /\ NumbersInv' /\ lastId <= lastId'
<1>1. lastId \in Nat
  BY DEF TurnsTypes
<1>2. ASSUME NEW role \in Role, NEW writer \in Request \cup Stopper \cup {NoRun},
             Add(role, writer)
      PROVE  rows' \subseteq Row /\ lastId' \in Nat /\ NumbersInv' /\ lastId <= lastId'
  BY <1>1, <1>2, AddFacts, NumbersAfterAdd DEF Added
<1> QED
  BY <1>1, <1>2, TableStep, NumbersAfterDelete

\* The types of everything but the table.
RestTypes ==
  /\ at \in [Request -> Where]
  /\ local \in [Request -> [anchor : Nat, prompt : Nat, reply : Nat, nudged : BOOLEAN]]
  /\ status \in [Request -> {"none", "running", "completed", "failed", "stopped", "lost"}]
  /\ cancelled \in [Request -> Nat]
  /\ IsFiniteSet({q \in Request : Cancelled(q)})
  /\ holder \in Request \cup {NoRun}
  /\ dog \in [Stopper -> [at : {"idle", "waiting", "checks", "reads", "mark", "done"},
                          target : Request \cup {NoRun}, seen : SUBSET Request]]
  /\ server \in {"up", "down"}
  /\ strayed \in BOOLEAN

LEMMA TypesStep ==
  ASSUME TurnsTypes, NumbersInv, Next
  PROVE  TurnsTypes'
<1>1. lastId' \in Nat /\ rows' \subseteq Row
  BY NumbersStep
<1>2. RestTypes
  BY DEF TurnsTypes, RestTypes
<1>a. \A m \in rows : m.id \in Nat
  BY DEF TurnsTypes, Row
<1> USE DEF RestTypes
<1>3. ASSUME NEW q \in Request, SendPersists(q)
      PROVE  RestTypes'
  BY <1>1, <1>2, <1>a, <1>3 DEF SendPersists, Go, Drops, StartRun, Arrives, Follow, Dog,
    registry, host, db, Strays, Cancelled, InTask, Over, Where, NoLocals
<1>4. ASSUME NEW q \in Request, SendStarts(q)
      PROVE  RestTypes'
  BY <1>1, <1>2, <1>a, <1>4 DEF SendStarts, Go, Drops, StartRun, Arrives, Follow, Dog, registry,
    host, db, Strays, Cancelled, InTask, Over, Where, NoLocals
<1>5. ASSUME NEW q \in Request, SendRollsBack(q) \/ RequestIsDropped(q)
      PROVE  RestTypes'
  <2>1. at' \in [Request -> Where]
    BY <1>2, <1>5 DEF SendRollsBack, RequestIsDropped, Go, Where
  <2>3. local' = [local EXCEPT ![q] = NoLocals]
    BY <1>5 DEF SendRollsBack, RequestIsDropped, Drops
  <2>4. local' \in [Request -> [anchor : Nat, prompt : Nat, reply : Nat, nudged : BOOLEAN]]
    BY <1>2, <2>3 DEF NoLocals
  <2>2. UNCHANGED <<status, cancelled, holder, dog, server, strayed>>
    BY <1>5 DEF SendRollsBack, RequestIsDropped, registry, host
  <2> QED
    BY <1>2, <2>1, <2>2, <2>4 DEF Cancelled
<1>6. ASSUME NEW q \in Request, ResendReads(q)
      PROVE  RestTypes'
  BY <1>1, <1>2, <1>a, <1>6 DEF ResendReads, Go, Drops, StartRun, Arrives, Follow, Dog,
    registry, host, db, Strays, Cancelled, InTask, Over, Where, NoLocals
<1>7. ASSUME NEW q \in Request, ResendStarts(q)
      PROVE  RestTypes'
  BY <1>1, <1>2, <1>a, <1>7 DEF ResendStarts, Go, Drops, StartRun, Arrives, Follow, Dog,
    registry, host, db, Strays, Cancelled, InTask, Over, Where, NoLocals
<1>8. ASSUME NEW q \in Request, EditReplaces(q)
      PROVE  RestTypes'
  BY <1>1, <1>2, <1>a, <1>8 DEF EditReplaces, Go, Drops, StartRun, Arrives, Follow, Dog,
    registry, host, db, Strays, Cancelled, InTask, Over, Where, NoLocals
<1>9. ASSUME NEW q \in Request, EditTruncates(q)
      PROVE  RestTypes'
  BY <1>1, <1>2, <1>a, <1>9 DEF EditTruncates, Go, Drops, StartRun, Arrives, Follow, Dog,
    registry, host, db, Strays, Cancelled, InTask, Over, Where, NoLocals
<1>10. ASSUME NEW q \in Request, EditRestores(q)
      PROVE  RestTypes'
  BY <1>1, <1>2, <1>a, <1>10 DEF EditRestores, Go, Drops, StartRun, Arrives, Follow, Dog,
    registry, host, db, Strays, Cancelled, InTask, Over, Where, NoLocals
<1>11. ASSUME NEW q \in Request, RegenerateTruncates(q)
      PROVE  RestTypes'
  BY <1>1, <1>2, <1>a, <1>11 DEF RegenerateTruncates, Go, Drops, StartRun, Arrives, Follow, Dog,
    registry, host, db, Strays, Cancelled, InTask, Over, Where, NoLocals
<1>12. ASSUME NEW q \in Request, RateLimited(q)
      PROVE  RestTypes'
  BY <1>1, <1>2, <1>a, <1>12 DEF RateLimited, Go, Drops, StartRun, Arrives, Follow, Dog,
    registry, host, db, Strays, Cancelled, InTask, Over, Where, NoLocals
<1>13. ASSUME NEW q \in Request, NudgePersists(q)
      PROVE  RestTypes'
  BY <1>1, <1>2, <1>a, <1>13 DEF NudgePersists, Go, Drops, StartRun, Arrives, Follow, Dog,
    registry, host, db, Strays, Cancelled, InTask, Over, Where, NoLocals
<1>14. ASSUME NEW q \in Request, ProviderReturns(q)
      PROVE  RestTypes'
  BY <1>1, <1>2, <1>a, <1>14 DEF ProviderReturns, Go, Drops, StartRun, Arrives, Follow, Dog,
    registry, host, db, Strays, Cancelled, InTask, Over, Where, NoLocals
<1>15. ASSUME NEW q \in Request, SavesPartial(q)
      PROVE  RestTypes'
  BY <1>1, <1>2, <1>a, <1>15 DEF SavesPartial, Go, Drops, StartRun, Arrives, Follow, Dog,
    registry, host, db, Strays, Cancelled, InTask, Over, Where, NoLocals
<1>16. ASSUME NEW q \in Request, Marks(q)
      PROVE  RestTypes'
  BY <1>1, <1>2, <1>a, <1>16 DEF Marks, Go, Drops, StartRun, Arrives, Follow, Dog, registry,
    host, db, Strays, Cancelled, InTask, Over, Where, NoLocals
<1>17. ASSUME NEW q \in Request, SavesOutputOfFailure(q)
      PROVE  RestTypes'
  BY <1>1, <1>2, <1>a, <1>17 DEF SavesOutputOfFailure, Go, Drops, StartRun, Arrives, Follow,
    Dog, registry, host, db, Strays, Cancelled, InTask, Over, Where, NoLocals
<1>18. ASSUME NEW q \in Request, SavesError(q)
      PROVE  RestTypes'
  BY <1>1, <1>2, <1>a, <1>18 DEF SavesError, Go, Drops, StartRun, Arrives, Follow, Dog,
    registry, host, db, Strays, Cancelled, InTask, Over, Where, NoLocals
<1>19. ASSUME NEW q \in Request, ReplyChecks(q)
      PROVE  RestTypes'
  <2>1. at' \in [Request -> Where]
    BY <1>2, <1>19 DEF ReplyChecks, Go, InTask, Where
  <2>2. UNCHANGED <<local, status, cancelled, holder, dog, server, strayed>>
    BY <1>19 DEF ReplyChecks, registry, host
  <2> QED
    BY <1>2, <2>1, <2>2 DEF Cancelled
<1>20. ASSUME NEW q \in Request, ReplyInserts(q)
      PROVE  RestTypes'
  BY <1>1, <1>2, <1>a, <1>20 DEF ReplyInserts, Go, Drops, StartRun, Arrives, Follow, Dog,
    registry, host, db, Strays, Cancelled, InTask, Over, Where, NoLocals
<1>21. ASSUME NEW q \in Request, ReplyRechecks(q)
      PROVE  RestTypes'
  BY <1>1, <1>2, <1>a, <1>21 DEF ReplyRechecks, Go, Drops, StartRun, Arrives, Follow, Dog,
    registry, host, db, Strays, Cancelled, InTask, Over, Where, NoLocals
<1>22. ASSUME NEW q \in Request, ReplyUndone(q)
      PROVE  RestTypes'
  BY <1>1, <1>2, <1>a, <1>22 DEF ReplyUndone, Go, Drops, StartRun, Arrives, Follow, Dog,
    registry, host, db, Strays, Cancelled, InTask, Over, Where, NoLocals
<1>23. ASSUME NEW q \in Request, Finishes(q)
      PROVE  RestTypes'
  BY <1>1, <1>2, <1>a, <1>23 DEF Finishes, Go, Drops, StartRun, Arrives, Follow, Dog, registry,
    host, db, Strays, Cancelled, InTask, Over, Where, NoLocals
<1>24. ASSUME NEW q \in Request, WrapperSettles(q)
      PROVE  RestTypes'
  BY <1>1, <1>2, <1>a, <1>24 DEF WrapperSettles, Go, Drops, StartRun, Arrives, Follow, Dog,
    registry, host, db, Strays, Cancelled, InTask, Over, Where, NoLocals
<1>25. ASSUME NEW q \in Request, Aborted(q)
      PROVE  RestTypes'
  BY <1>1, <1>2, <1>a, <1>25 DEF Aborted, Go, Drops, StartRun, Arrives, Follow, Dog, registry,
    host, db, Strays, Cancelled, InTask, Over, Where, NoLocals
<1>26. ASSUME NEW q \in Request, RecordLeaves(q)
      PROVE  RestTypes'
  BY <1>1, <1>2, <1>a, <1>26 DEF RecordLeaves, Go, Drops, StartRun, Arrives, Follow, Dog,
    registry, host, db, Strays, Cancelled, InTask, Over, Where, NoLocals
<1>27. ASSUME NEW s \in Stopper, Stop(s)
      PROVE  RestTypes'
  <2> DEFINE C == {q \in Request : Cancelled(q)}
  <2>1. IsFiniteSet(C) /\ IsFiniteSet(C \cup {holder}) /\ Cardinality(C) \in Nat
    BY <1>2, FS_AddElement, FS_CardinalityType
  <2>2. C' \in SUBSET (C \cup {holder})
    BY <1>2, <1>27 DEF Stop, Cancelled
  <2>3. IsFiniteSet(C')
    BY <2>1, <2>2, FS_Subset
  <2>4. Cardinality(C) + 1 \in Nat
    BY <2>1
  <2>5. cancelled' = cancelled \/ cancelled' = [cancelled EXCEPT ![holder] = Cardinality(C) + 1]
    BY <1>27 DEF Stop, registry
  <2>6. cancelled' \in [Request -> Nat]
    BY <1>2, <2>4, <2>5
  <2>7. status' \in [Request -> {"none", "running", "completed", "failed", "stopped", "lost"}]
    BY <1>2, <1>27 DEF Stop
  <2> HIDE DEF C
  <2>8. dog' \in [Stopper -> [at : {"idle", "waiting", "checks", "reads", "mark", "done"},
                              target : Request \cup {NoRun}, seen : SUBSET Request]]
    BY <1>2, <1>27 DEF Stop, Dog
  <2> QED
    BY <1>2, <1>27, <2>3, <2>6, <2>7, <2>8 DEF Stop, host, C
<1>28. ASSUME NEW s \in Stopper, WatchdogWaits(s)
      PROVE  RestTypes'
  BY <1>1, <1>2, <1>a, <1>28 DEF WatchdogWaits, Go, Drops, StartRun, Arrives, Follow, Dog,
    registry, host, db, Strays, Cancelled, InTask, Over, Where, NoLocals
<1>29. ASSUME NEW s \in Stopper, WatchdogExpires(s)
      PROVE  RestTypes'
  BY <1>1, <1>2, <1>a, <1>29 DEF WatchdogExpires, Go, Drops, StartRun, Arrives, Follow, Dog,
    registry, host, db, Strays, Cancelled, InTask, Over, Where, NoLocals
<1>30. ASSUME NEW s \in Stopper, WatchdogChecks(s)
      PROVE  RestTypes'
  BY <1>1, <1>2, <1>a, <1>30 DEF WatchdogChecks, Go, Drops, StartRun, Arrives, Follow, Dog,
    registry, host, db, Strays, Cancelled, InTask, Over, Where, NoLocals
<1>31. ASSUME NEW s \in Stopper, WatchdogReads(s)
      PROVE  RestTypes'
  BY <1>1, <1>2, <1>a, <1>31 DEF WatchdogReads, Go, Drops, StartRun, Arrives, Follow, Dog,
    registry, host, db, Strays, Cancelled, InTask, Over, Where, NoLocals
<1>32. ASSUME NEW s \in Stopper, WatchdogMarks(s)
      PROVE  RestTypes'
  BY <1>1, <1>2, <1>a, <1>32 DEF WatchdogMarks, Go, Drops, StartRun, Arrives, Follow, Dog,
    registry, host, db, Strays, Cancelled, InTask, Over, Where, NoLocals
<1>33. ASSUME Crash
      PROVE  RestTypes'
  <2>1. {q \in Request : Cancelled(q)}' = {}
    BY <1>33 DEF Crash, Cancelled
  <2>2. IsFiniteSet({q \in Request : Cancelled(q)})'
    BY <2>1, FS_EmptySet
  <2>3. at' \in [Request -> Where] /\ local' \in [Request -> [anchor : Nat, prompt : Nat, reply : Nat, nudged : BOOLEAN]]
    BY <1>2, <1>33 DEF Crash, Where, Over, NoLocals
  <2>4. dog' \in [Stopper -> [at : {"idle", "waiting", "checks", "reads", "mark", "done"},
                              target : Request \cup {NoRun}, seen : SUBSET Request]]
    BY <1>2, <1>33 DEF Crash, Dog
  <2> QED
    BY <1>2, <1>33, <2>2, <2>3, <2>4 DEF Crash, db
<1>34. ASSUME Boot
      PROVE  RestTypes'
  BY <1>1, <1>2, <1>34 DEF Boot, registry, Cancelled
<1>35. RestTypes'
  BY <1>3, <1>4, <1>5, <1>6, <1>7, <1>8, <1>9, <1>10, <1>11, <1>12, <1>13, <1>14, <1>15, <1>16,
    <1>17, <1>18, <1>19, <1>20, <1>21, <1>22, <1>23, <1>24, <1>25, <1>26, <1>27, <1>28, <1>29,
    <1>30, <1>31, <1>32, <1>33, <1>34 DEF Next, Handler, Pipeline, Agent, Watchdog
<1> QED
  BY <1>1, <1>35 DEF TurnsTypes


\* A stop gets a place among the stops.
LEMMA StopPlace ==
  ASSUME TurnsTypes, NEW s \in Stopper, Stop(s)
  PROVE  \E k \in Nat :
           /\ k > 0
           /\ cancelled' = IF Running THEN [cancelled EXCEPT ![holder] = k] ELSE cancelled
<1> DEFINE C == {q \in Request : Cancelled(q)}
<1>1. Cardinality(C) \in Nat
  BY FS_CardinalityType DEF TurnsTypes
<1>2. cancelled' = IF Running THEN [cancelled EXCEPT ![holder] = Cardinality(C) + 1] ELSE cancelled
  BY DEF Stop
<1> HIDE DEF C
<1>3. Cardinality(C) + 1 \in Nat /\ Cardinality(C) + 1 > 0
  BY <1>1
<1> QED
  BY <1>2, <1>3

LEMMA RunStep ==
  ASSUME TurnsTypes, RunInv, Next
  PROVE  RunInv'
<1>a. at \in [Request -> Where] /\ cancelled \in [Request -> Nat] /\ holder \in Request \cup {NoRun}
      /\ status \in [Request -> {"none", "running", "completed", "failed", "stopped", "lost"}]
  BY DEF TurnsTypes
<1>b. RunInv
  OBVIOUS
<1> USE DEF RunInv
<1>1. ASSUME NEW q \in Request, SendPersists(q)
      PROVE  RunInv'
  BY <1>1, TurnsConstants, <1>a, <1>b DEF SendPersists, Go, StartRun, Arrives, Follow, registry,
    host, Cancelled, Running, InTask, Over
<1>2. ASSUME NEW q \in Request, SendStarts(q)
      PROVE  RunInv'
  BY <1>2, TurnsConstants, <1>a, <1>b DEF SendStarts, Go, StartRun, Arrives, Follow, registry,
    host, Cancelled, Running, InTask, Over
<1>3. ASSUME NEW q \in Request, SendRollsBack(q) \/ RequestIsDropped(q)
      PROVE  RunInv'
  BY <1>3, TurnsConstants, <1>a, <1>b DEF SendRollsBack, RequestIsDropped, Go, StartRun,
    Arrives, Follow,
    registry, host, Cancelled, Running, InTask, Over
<1>4. ASSUME NEW q \in Request, ResendReads(q)
      PROVE  RunInv'
  BY <1>4, TurnsConstants, <1>a, <1>b DEF ResendReads, Go, StartRun, Arrives, Follow, registry,
    host, Cancelled, Running, InTask, Over
<1>5. ASSUME NEW q \in Request, ResendStarts(q)
      PROVE  RunInv'
  BY <1>5, TurnsConstants, <1>a, <1>b DEF ResendStarts, Go, StartRun, Arrives, Follow, registry,
    host, Cancelled, Running, InTask, Over
<1>6. ASSUME NEW q \in Request, EditReplaces(q)
      PROVE  RunInv'
  BY <1>6, TurnsConstants, <1>a, <1>b DEF EditReplaces, Go, StartRun, Arrives, Follow, registry,
    host, Cancelled, Running, InTask, Over
<1>7. ASSUME NEW q \in Request, EditTruncates(q)
      PROVE  RunInv'
  BY <1>7, TurnsConstants, <1>a, <1>b DEF EditTruncates, Go, StartRun, Arrives, Follow,
    registry, host, Cancelled, Running, InTask, Over
<1>8. ASSUME NEW q \in Request, EditRestores(q)
      PROVE  RunInv'
  BY <1>8, TurnsConstants, <1>a, <1>b DEF EditRestores, Go, StartRun, Arrives, Follow, registry,
    host, Cancelled, Running, InTask, Over
<1>9. ASSUME NEW q \in Request, RegenerateTruncates(q)
      PROVE  RunInv'
  BY <1>9, TurnsConstants, <1>a, <1>b DEF RegenerateTruncates, Go, StartRun, Arrives, Follow,
    registry, host, Cancelled, Running, InTask, Over
<1>10. ASSUME NEW q \in Request, RateLimited(q)
      PROVE  RunInv'
  BY <1>10, TurnsConstants, <1>a, <1>b DEF RateLimited, Go, StartRun, Arrives, Follow, registry,
    host, Cancelled, Running, InTask, Over
<1>11. ASSUME NEW q \in Request, NudgePersists(q)
      PROVE  RunInv'
  BY <1>11, TurnsConstants, <1>a, <1>b DEF NudgePersists, Go, StartRun, Arrives, Follow,
    registry, host, Cancelled, Running, InTask, Over
<1>12. ASSUME NEW q \in Request, ProviderReturns(q)
      PROVE  RunInv'
  BY <1>12, TurnsConstants, <1>a, <1>b DEF ProviderReturns, Go, StartRun, Arrives, Follow,
    registry, host, Cancelled, Running, InTask, Over
<1>13. ASSUME NEW q \in Request, SavesPartial(q)
      PROVE  RunInv'
  BY <1>13, TurnsConstants, <1>a, <1>b DEF SavesPartial, Go, StartRun, Arrives, Follow,
    registry, host, Cancelled, Running, InTask, Over
<1>14. ASSUME NEW q \in Request, Marks(q)
      PROVE  RunInv'
  BY <1>14, TurnsConstants, <1>a, <1>b DEF Marks, Go, StartRun, Arrives, Follow, registry, host,
    Cancelled, Running, InTask, Over
<1>15. ASSUME NEW q \in Request, SavesOutputOfFailure(q)
      PROVE  RunInv'
  BY <1>15, TurnsConstants, <1>a, <1>b DEF SavesOutputOfFailure, Go, StartRun, Arrives, Follow,
    registry, host, Cancelled, Running, InTask, Over
<1>16. ASSUME NEW q \in Request, SavesError(q)
      PROVE  RunInv'
  BY <1>16, TurnsConstants, <1>a, <1>b DEF SavesError, Go, StartRun, Arrives, Follow, registry,
    host, Cancelled, Running, InTask, Over
<1>17. ASSUME NEW q \in Request, ReplyChecks(q)
      PROVE  RunInv'
  BY <1>17, TurnsConstants, <1>a, <1>b DEF ReplyChecks, Go, StartRun, Arrives, Follow, registry,
    host, Cancelled, Running, InTask, Over
<1>18. ASSUME NEW q \in Request, ReplyInserts(q)
      PROVE  RunInv'
  BY <1>18, TurnsConstants, <1>a, <1>b DEF ReplyInserts, Go, StartRun, Arrives, Follow,
    registry, host, Cancelled, Running, InTask, Over
<1>19. ASSUME NEW q \in Request, ReplyRechecks(q)
      PROVE  RunInv'
  BY <1>19, TurnsConstants, <1>a, <1>b DEF ReplyRechecks, Go, StartRun, Arrives, Follow,
    registry, host, Cancelled, Running, InTask, Over
<1>20. ASSUME NEW q \in Request, ReplyUndone(q)
      PROVE  RunInv'
  BY <1>20, TurnsConstants, <1>a, <1>b DEF ReplyUndone, Go, StartRun, Arrives, Follow, registry,
    host, Cancelled, Running, InTask, Over
<1>21. ASSUME NEW q \in Request, Finishes(q)
      PROVE  RunInv'
  BY <1>21, TurnsConstants, <1>a, <1>b DEF Finishes, Go, StartRun, Arrives, Follow, registry,
    host, Cancelled, Running, InTask, Over
<1>22. ASSUME NEW q \in Request, WrapperSettles(q)
      PROVE  RunInv'
  BY <1>22, TurnsConstants, <1>a, <1>b DEF WrapperSettles, Go, StartRun, Arrives, Follow,
    registry, host, Cancelled, Running, InTask, Over
<1>23. ASSUME NEW q \in Request, Aborted(q)
      PROVE  RunInv'
  BY <1>23, TurnsConstants, <1>a, <1>b DEF Aborted, Go, StartRun, Arrives, Follow, registry,
    host, Cancelled, Running, InTask, Over
<1>24. ASSUME NEW q \in Request, RecordLeaves(q)
      PROVE  RunInv'
  BY <1>24, TurnsConstants, <1>a, <1>b DEF RecordLeaves, Go, StartRun, Arrives, Follow,
    registry, host, Cancelled, Running, InTask, Over
<1>25. ASSUME NEW s \in Stopper, Stop(s)
      PROVE  RunInv'
  <2>1. PICK k \in Nat : k > 0 /\ cancelled' = IF Running THEN [cancelled EXCEPT ![holder] = k]
                                                          ELSE cancelled
    BY <1>25, StopPlace
  <2> QED
    BY <1>25, TurnsConstants, <1>a, <1>b, <2>1 DEF Stop, host, Cancelled, Running, InTask, Over
<1>26. ASSUME NEW s \in Stopper, WatchdogWaits(s)
      PROVE  RunInv'
  BY <1>26, TurnsConstants, <1>a, <1>b DEF WatchdogWaits, Go, StartRun, Arrives, Follow,
    registry, host, Cancelled, Running, InTask, Over
<1>27. ASSUME NEW s \in Stopper, WatchdogExpires(s)
      PROVE  RunInv'
  BY <1>27, TurnsConstants, <1>a, <1>b DEF WatchdogExpires, Go, StartRun, Arrives, Follow,
    registry, host, Cancelled, Running, InTask, Over
<1>28. ASSUME NEW s \in Stopper, WatchdogChecks(s)
      PROVE  RunInv'
  BY <1>28, TurnsConstants, <1>a, <1>b DEF WatchdogChecks, Go, StartRun, Arrives, Follow,
    registry, host, Cancelled, Running, InTask, Over
<1>29. ASSUME NEW s \in Stopper, WatchdogReads(s)
      PROVE  RunInv'
  BY <1>29, TurnsConstants, <1>a, <1>b DEF WatchdogReads, Go, StartRun, Arrives, Follow,
    registry, host, Cancelled, Running, InTask, Over
<1>30. ASSUME NEW s \in Stopper, WatchdogMarks(s)
      PROVE  RunInv'
  BY <1>30, TurnsConstants, <1>a, <1>b DEF WatchdogMarks, Go, StartRun, Arrives, Follow,
    registry, host, Cancelled, Running, InTask, Over
<1>31. ASSUME Crash
      PROVE  RunInv'
  BY <1>31, TurnsConstants, <1>a, <1>b DEF Crash, Go, StartRun, Arrives, Follow, registry, host,
    Cancelled, Running, InTask, Over
<1>32. ASSUME Boot
      PROVE  RunInv'
  BY <1>32, TurnsConstants, <1>a, <1>b DEF Boot, Go, StartRun, Arrives, Follow, registry, host,
    Cancelled, Running, InTask, Over
<1> QED
  BY <1>1, <1>2, <1>3, <1>4, <1>5, <1>6, <1>7, <1>8, <1>9, <1>10, <1>11, <1>12, <1>13, <1>14,
    <1>15, <1>16, <1>17, <1>18, <1>19, <1>20, <1>21, <1>22, <1>23, <1>24, <1>25, <1>26, <1>27,
    <1>28, <1>29, <1>30, <1>31, <1>32 DEF Next, Handler, Pipeline, Agent, Watchdog


LEMMA WatchStep ==
  ASSUME TurnsTypes, RunInv, HolderIsWatched, Next
  PROVE  HolderIsWatched'
<1>a. at \in [Request -> Where] /\ cancelled \in [Request -> Nat] /\ holder \in Request \cup {NoRun}
      /\ status \in [Request -> {"none", "running", "completed", "failed", "stopped", "lost"}]
  BY DEF TurnsTypes
<1>b. dog \in [Stopper -> [at : {"idle", "waiting", "checks", "reads", "mark", "done"},
                           target : Request \cup {NoRun}, seen : SUBSET Request]]
  BY DEF TurnsTypes
<1>c. HolderIsWatched /\ RunInv
  OBVIOUS
<1> USE DEF HolderIsWatched, RunInv
<1>1. ASSUME NEW q \in Request, SendPersists(q)
      PROVE  HolderIsWatched'
  BY <1>1, TurnsConstants, <1>a, <1>b, <1>c DEF SendPersists, Go, StartRun, Arrives, Follow,
    Dog, registry, host, Cancelled, Running, InTask, Over, TaskFinished
<1>2. ASSUME NEW q \in Request, SendStarts(q)
      PROVE  HolderIsWatched'
  BY <1>2, TurnsConstants, <1>a, <1>b, <1>c DEF SendStarts, Go, StartRun, Arrives, Follow, Dog,
    registry, host, Cancelled, Running, InTask, Over, TaskFinished
<1>3. ASSUME NEW q \in Request, SendRollsBack(q) \/ RequestIsDropped(q)
      PROVE  HolderIsWatched'
  BY <1>3, TurnsConstants, <1>a, <1>b, <1>c DEF SendRollsBack, RequestIsDropped, Go, StartRun,
    Arrives, Follow,
    Dog, registry, host, Cancelled, Running, InTask, Over, TaskFinished
<1>4. ASSUME NEW q \in Request, ResendReads(q)
      PROVE  HolderIsWatched'
  BY <1>4, TurnsConstants, <1>a, <1>b, <1>c DEF ResendReads, Go, StartRun, Arrives, Follow, Dog,
    registry, host, Cancelled, Running, InTask, Over, TaskFinished
<1>5. ASSUME NEW q \in Request, ResendStarts(q)
      PROVE  HolderIsWatched'
  BY <1>5, TurnsConstants, <1>a, <1>b, <1>c DEF ResendStarts, Go, StartRun, Arrives, Follow,
    Dog, registry, host, Cancelled, Running, InTask, Over, TaskFinished
<1>6. ASSUME NEW q \in Request, EditReplaces(q)
      PROVE  HolderIsWatched'
  BY <1>6, TurnsConstants, <1>a, <1>b, <1>c DEF EditReplaces, Go, StartRun, Arrives, Follow,
    Dog, registry, host, Cancelled, Running, InTask, Over, TaskFinished
<1>7. ASSUME NEW q \in Request, EditTruncates(q)
      PROVE  HolderIsWatched'
  BY <1>7, TurnsConstants, <1>a, <1>b, <1>c DEF EditTruncates, Go, StartRun, Arrives, Follow,
    Dog, registry, host, Cancelled, Running, InTask, Over, TaskFinished
<1>8. ASSUME NEW q \in Request, EditRestores(q)
      PROVE  HolderIsWatched'
  BY <1>8, TurnsConstants, <1>a, <1>b, <1>c DEF EditRestores, Go, StartRun, Arrives, Follow,
    Dog, registry, host, Cancelled, Running, InTask, Over, TaskFinished
<1>9. ASSUME NEW q \in Request, RegenerateTruncates(q)
      PROVE  HolderIsWatched'
  BY <1>9, TurnsConstants, <1>a, <1>b, <1>c DEF RegenerateTruncates, Go, StartRun, Arrives,
    Follow, Dog, registry, host, Cancelled, Running, InTask, Over, TaskFinished
<1>10. ASSUME NEW q \in Request, RateLimited(q)
      PROVE  HolderIsWatched'
  BY <1>10, TurnsConstants, <1>a, <1>b, <1>c DEF RateLimited, Go, StartRun, Arrives, Follow,
    Dog, registry, host, Cancelled, Running, InTask, Over, TaskFinished
<1>11. ASSUME NEW q \in Request, NudgePersists(q)
      PROVE  HolderIsWatched'
  BY <1>11, TurnsConstants, <1>a, <1>b, <1>c DEF NudgePersists, Go, StartRun, Arrives, Follow,
    Dog, registry, host, Cancelled, Running, InTask, Over, TaskFinished
<1>12. ASSUME NEW q \in Request, ProviderReturns(q)
      PROVE  HolderIsWatched'
  BY <1>12, TurnsConstants, <1>a, <1>b, <1>c DEF ProviderReturns, Go, StartRun, Arrives, Follow,
    Dog, registry, host, Cancelled, Running, InTask, Over, TaskFinished
<1>13. ASSUME NEW q \in Request, SavesPartial(q)
      PROVE  HolderIsWatched'
  BY <1>13, TurnsConstants, <1>a, <1>b, <1>c DEF SavesPartial, Go, StartRun, Arrives, Follow,
    Dog, registry, host, Cancelled, Running, InTask, Over, TaskFinished
<1>14. ASSUME NEW q \in Request, Marks(q)
      PROVE  HolderIsWatched'
  BY <1>14, TurnsConstants, <1>a, <1>b, <1>c DEF Marks, Go, StartRun, Arrives, Follow, Dog,
    registry, host, Cancelled, Running, InTask, Over, TaskFinished
<1>15. ASSUME NEW q \in Request, SavesOutputOfFailure(q)
      PROVE  HolderIsWatched'
  BY <1>15, TurnsConstants, <1>a, <1>b, <1>c DEF SavesOutputOfFailure, Go, StartRun, Arrives,
    Follow, Dog, registry, host, Cancelled, Running, InTask, Over, TaskFinished
<1>16. ASSUME NEW q \in Request, SavesError(q)
      PROVE  HolderIsWatched'
  BY <1>16, TurnsConstants, <1>a, <1>b, <1>c DEF SavesError, Go, StartRun, Arrives, Follow, Dog,
    registry, host, Cancelled, Running, InTask, Over, TaskFinished
<1>17. ASSUME NEW q \in Request, ReplyChecks(q)
      PROVE  HolderIsWatched'
  BY <1>17, TurnsConstants, <1>a, <1>b, <1>c DEF ReplyChecks, Go, StartRun, Arrives, Follow,
    Dog, registry, host, Cancelled, Running, InTask, Over, TaskFinished
<1>18. ASSUME NEW q \in Request, ReplyInserts(q)
      PROVE  HolderIsWatched'
  BY <1>18, TurnsConstants, <1>a, <1>b, <1>c DEF ReplyInserts, Go, StartRun, Arrives, Follow,
    Dog, registry, host, Cancelled, Running, InTask, Over, TaskFinished
<1>19. ASSUME NEW q \in Request, ReplyRechecks(q)
      PROVE  HolderIsWatched'
  BY <1>19, TurnsConstants, <1>a, <1>b, <1>c DEF ReplyRechecks, Go, StartRun, Arrives, Follow,
    Dog, registry, host, Cancelled, Running, InTask, Over, TaskFinished
<1>20. ASSUME NEW q \in Request, ReplyUndone(q)
      PROVE  HolderIsWatched'
  BY <1>20, TurnsConstants, <1>a, <1>b, <1>c DEF ReplyUndone, Go, StartRun, Arrives, Follow,
    Dog, registry, host, Cancelled, Running, InTask, Over, TaskFinished
<1>21. ASSUME NEW q \in Request, Finishes(q)
      PROVE  HolderIsWatched'
  BY <1>21, TurnsConstants, <1>a, <1>b, <1>c DEF Finishes, Go, StartRun, Arrives, Follow, Dog,
    registry, host, Cancelled, Running, InTask, Over, TaskFinished
<1>22. ASSUME NEW q \in Request, WrapperSettles(q)
      PROVE  HolderIsWatched'
  BY <1>22, TurnsConstants, <1>a, <1>b, <1>c DEF WrapperSettles, Go, StartRun, Arrives, Follow,
    Dog, registry, host, Cancelled, Running, InTask, Over, TaskFinished
<1>23. ASSUME NEW q \in Request, Aborted(q)
      PROVE  HolderIsWatched'
  BY <1>23, TurnsConstants, <1>a, <1>b, <1>c DEF Aborted, Go, StartRun, Arrives, Follow, Dog,
    registry, host, Cancelled, Running, InTask, Over, TaskFinished
<1>24. ASSUME NEW q \in Request, RecordLeaves(q)
      PROVE  HolderIsWatched'
  BY <1>24, TurnsConstants, <1>a, <1>b, <1>c DEF RecordLeaves, Go, StartRun, Arrives, Follow,
    Dog, registry, host, Cancelled, Running, InTask, Over, TaskFinished
<1>25. ASSUME NEW s \in Stopper, Stop(s)
      PROVE  HolderIsWatched'
  BY <1>25, TurnsConstants, <1>a, <1>b, <1>c DEF Stop, Go, StartRun, Arrives, Follow, Dog,
    registry, host, Cancelled, Running, InTask, Over, TaskFinished
<1>26. ASSUME NEW s \in Stopper, WatchdogWaits(s)
      PROVE  HolderIsWatched'
  BY <1>26, TurnsConstants, <1>a, <1>b, <1>c DEF WatchdogWaits, Go, StartRun, Arrives, Follow,
    Dog, registry, host, Cancelled, Running, InTask, Over, TaskFinished
<1>27. ASSUME NEW s \in Stopper, WatchdogExpires(s)
      PROVE  HolderIsWatched'
  BY <1>27, TurnsConstants, <1>a, <1>b, <1>c DEF WatchdogExpires, Go, StartRun, Arrives, Follow,
    Dog, registry, host, Cancelled, Running, InTask, Over, TaskFinished
<1>28. ASSUME NEW s \in Stopper, WatchdogChecks(s)
      PROVE  HolderIsWatched'
  BY <1>28, TurnsConstants, <1>a, <1>b, <1>c DEF WatchdogChecks, Go, StartRun, Arrives, Follow,
    Dog, registry, host, Cancelled, Running, InTask, Over, TaskFinished
<1>29. ASSUME NEW s \in Stopper, WatchdogReads(s)
      PROVE  HolderIsWatched'
  BY <1>29, TurnsConstants, <1>a, <1>b, <1>c DEF WatchdogReads, Go, StartRun, Arrives, Follow,
    Dog, registry, host, Cancelled, Running, InTask, Over, TaskFinished
<1>30. ASSUME NEW s \in Stopper, WatchdogMarks(s)
      PROVE  HolderIsWatched'
  BY <1>30, TurnsConstants, <1>a, <1>b, <1>c DEF WatchdogMarks, Go, StartRun, Arrives, Follow,
    Dog, registry, host, Cancelled, Running, InTask, Over, TaskFinished
<1>31. ASSUME Crash
      PROVE  HolderIsWatched'
  BY <1>31, TurnsConstants, <1>a, <1>b, <1>c DEF Crash, Go, StartRun, Arrives, Follow, Dog,
    registry, host, Cancelled, Running, InTask, Over, TaskFinished
<1>32. ASSUME Boot
      PROVE  HolderIsWatched'
  BY <1>32, TurnsConstants, <1>a, <1>b, <1>c DEF Boot, Go, StartRun, Arrives, Follow, Dog,
    registry, host, Cancelled, Running, InTask, Over, TaskFinished
<1> QED
  BY <1>1, <1>2, <1>3, <1>4, <1>5, <1>6, <1>7, <1>8, <1>9, <1>10, <1>11, <1>12, <1>13, <1>14,
    <1>15, <1>16, <1>17, <1>18, <1>19, <1>20, <1>21, <1>22, <1>23, <1>24, <1>25, <1>26, <1>27,
    <1>28, <1>29, <1>30, <1>31, <1>32 DEF Next, Handler, Pipeline, Agent, Watchdog

LEMMA LocalStep ==
  ASSUME TurnsTypes, NumbersInv, LocalInv, Next
  PROVE  LocalInv'
<1>a. local \in [Request -> [anchor : Nat, prompt : Nat, reply : Nat, nudged : BOOLEAN]]
      /\ lastId \in Nat
  BY DEF TurnsTypes
<1>b. lastId <= lastId' /\ lastId' \in Nat
  BY NumbersStep
<1>c. \A m \in rows : m.id \in Nat /\ m.id <= lastId
  BY DEF TurnsTypes, NumbersInv, Row
<1> USE DEF LocalInv
<1>1. ASSUME NEW q \in Request, SendPersists(q)
      PROVE  LocalInv'
  BY <1>1, <1>a, <1>b, <1>c DEF SendPersists, Go, Follow, Drops, Arrives, NoLocals, Add, Delete,
    db
<1>2. ASSUME NEW q \in Request, SendStarts(q)
      PROVE  LocalInv'
  BY <1>2, <1>a, <1>b, <1>c DEF SendStarts, Go, Follow, Drops, Arrives, NoLocals, Add, Delete,
    db
<1>3. ASSUME NEW q \in Request, SendRollsBack(q) \/ RequestIsDropped(q)
      PROVE  LocalInv'
  BY <1>3, <1>a, <1>b, <1>c DEF SendRollsBack, RequestIsDropped, Go, Follow, Drops, Arrives,
    NoLocals, Add,
    Delete, db
<1>4. ASSUME NEW q \in Request, ResendReads(q)
      PROVE  LocalInv'
  BY <1>4, <1>a, <1>b, <1>c DEF ResendReads, Go, Follow, Drops, Arrives, NoLocals, Add, Delete,
    db
<1>5. ASSUME NEW q \in Request, ResendStarts(q)
      PROVE  LocalInv'
  BY <1>5, <1>a, <1>b, <1>c DEF ResendStarts, Go, Follow, Drops, Arrives, NoLocals, Add, Delete,
    db
<1>6. ASSUME NEW q \in Request, EditReplaces(q)
      PROVE  LocalInv'
  BY <1>6, <1>a, <1>b, <1>c DEF EditReplaces, Go, Follow, Drops, Arrives, NoLocals, Add, Delete,
    db
<1>7. ASSUME NEW q \in Request, EditTruncates(q)
      PROVE  LocalInv'
  BY <1>7, <1>a, <1>b, <1>c DEF EditTruncates, Go, Follow, Drops, Arrives, NoLocals, Add,
    Delete, db
<1>8. ASSUME NEW q \in Request, EditRestores(q)
      PROVE  LocalInv'
  BY <1>8, <1>a, <1>b, <1>c DEF EditRestores, Go, Follow, Drops, Arrives, NoLocals, Add, Delete,
    db
<1>9. ASSUME NEW q \in Request, RegenerateTruncates(q)
      PROVE  LocalInv'
  BY <1>9, <1>a, <1>b, <1>c DEF RegenerateTruncates, Go, Follow, Drops, Arrives, NoLocals, Add,
    Delete, db
<1>10. ASSUME NEW q \in Request, RateLimited(q)
      PROVE  LocalInv'
  BY <1>10, <1>a, <1>b, <1>c DEF RateLimited, Go, Follow, Drops, Arrives, NoLocals, Add, Delete,
    db
<1>11. ASSUME NEW q \in Request, NudgePersists(q)
      PROVE  LocalInv'
  BY <1>11, <1>a, <1>b, <1>c DEF NudgePersists, Go, Follow, Drops, Arrives, NoLocals, Add,
    Delete, db
<1>12. ASSUME NEW q \in Request, ProviderReturns(q)
      PROVE  LocalInv'
  BY <1>12, <1>a, <1>b, <1>c DEF ProviderReturns, Go, Follow, Drops, Arrives, NoLocals, Add,
    Delete, db
<1>13. ASSUME NEW q \in Request, SavesPartial(q)
      PROVE  LocalInv'
  BY <1>13, <1>a, <1>b, <1>c DEF SavesPartial, Go, Follow, Drops, Arrives, NoLocals, Add,
    Delete, db
<1>14. ASSUME NEW q \in Request, Marks(q)
      PROVE  LocalInv'
  BY <1>14, <1>a, <1>b, <1>c DEF Marks, Go, Follow, Drops, Arrives, NoLocals, Add, Delete, db
<1>15. ASSUME NEW q \in Request, SavesOutputOfFailure(q)
      PROVE  LocalInv'
  BY <1>15, <1>a, <1>b, <1>c DEF SavesOutputOfFailure, Go, Follow, Drops, Arrives, NoLocals,
    Add, Delete, db
<1>16. ASSUME NEW q \in Request, SavesError(q)
      PROVE  LocalInv'
  BY <1>16, <1>a, <1>b, <1>c DEF SavesError, Go, Follow, Drops, Arrives, NoLocals, Add, Delete,
    db
<1>17. ASSUME NEW q \in Request, ReplyChecks(q)
      PROVE  LocalInv'
  BY <1>17, <1>a, <1>b, <1>c DEF ReplyChecks, Go, Follow, Drops, Arrives, NoLocals, Add, Delete,
    db
<1>18. ASSUME NEW q \in Request, ReplyInserts(q)
      PROVE  LocalInv'
  BY <1>18, <1>a, <1>b, <1>c DEF ReplyInserts, Go, Follow, Drops, Arrives, NoLocals, Add,
    Delete, db
<1>19. ASSUME NEW q \in Request, ReplyRechecks(q)
      PROVE  LocalInv'
  BY <1>19, <1>a, <1>b, <1>c DEF ReplyRechecks, Go, Follow, Drops, Arrives, NoLocals, Add,
    Delete, db
<1>20. ASSUME NEW q \in Request, ReplyUndone(q)
      PROVE  LocalInv'
  BY <1>20, <1>a, <1>b, <1>c DEF ReplyUndone, Go, Follow, Drops, Arrives, NoLocals, Add, Delete,
    db
<1>21. ASSUME NEW q \in Request, Finishes(q)
      PROVE  LocalInv'
  BY <1>21, <1>a, <1>b, <1>c DEF Finishes, Go, Follow, Drops, Arrives, NoLocals, Add, Delete, db
<1>22. ASSUME NEW q \in Request, WrapperSettles(q)
      PROVE  LocalInv'
  BY <1>22, <1>a, <1>b, <1>c DEF WrapperSettles, Go, Follow, Drops, Arrives, NoLocals, Add,
    Delete, db
<1>23. ASSUME NEW q \in Request, Aborted(q)
      PROVE  LocalInv'
  BY <1>23, <1>a, <1>b, <1>c DEF Aborted, Go, Follow, Drops, Arrives, NoLocals, Add, Delete, db
<1>24. ASSUME NEW q \in Request, RecordLeaves(q)
      PROVE  LocalInv'
  BY <1>24, <1>a, <1>b, <1>c DEF RecordLeaves, Go, Follow, Drops, Arrives, NoLocals, Add,
    Delete, db
<1>25. ASSUME NEW s \in Stopper, Stop(s)
      PROVE  LocalInv'
  BY <1>25, <1>a, <1>b, <1>c DEF Stop, Go, Follow, Drops, Arrives, NoLocals, Add, Delete, db
<1>26. ASSUME NEW s \in Stopper, WatchdogWaits(s)
      PROVE  LocalInv'
  BY <1>26, <1>a, <1>b, <1>c DEF WatchdogWaits, Go, Follow, Drops, Arrives, NoLocals, Add,
    Delete, db
<1>27. ASSUME NEW s \in Stopper, WatchdogExpires(s)
      PROVE  LocalInv'
  BY <1>27, <1>a, <1>b, <1>c DEF WatchdogExpires, Go, Follow, Drops, Arrives, NoLocals, Add,
    Delete, db
<1>28. ASSUME NEW s \in Stopper, WatchdogChecks(s)
      PROVE  LocalInv'
  BY <1>28, <1>a, <1>b, <1>c DEF WatchdogChecks, Go, Follow, Drops, Arrives, NoLocals, Add,
    Delete, db
<1>29. ASSUME NEW s \in Stopper, WatchdogReads(s)
      PROVE  LocalInv'
  BY <1>29, <1>a, <1>b, <1>c DEF WatchdogReads, Go, Follow, Drops, Arrives, NoLocals, Add,
    Delete, db
<1>30. ASSUME NEW s \in Stopper, WatchdogMarks(s)
      PROVE  LocalInv'
  BY <1>30, <1>a, <1>b, <1>c DEF WatchdogMarks, Go, Follow, Drops, Arrives, NoLocals, Add,
    Delete, db
<1>31. ASSUME Crash
      PROVE  LocalInv'
  BY <1>31, <1>a, <1>b, <1>c DEF Crash, Go, Follow, Drops, Arrives, NoLocals, Add, Delete, db
<1>32. ASSUME Boot
      PROVE  LocalInv'
  BY <1>32, <1>a, <1>b, <1>c DEF Boot, Go, Follow, Drops, Arrives, NoLocals, Add, Delete, db
<1> QED
  BY <1>1, <1>2, <1>3, <1>4, <1>5, <1>6, <1>7, <1>8, <1>9, <1>10, <1>11, <1>12, <1>13, <1>14,
    <1>15, <1>16, <1>17, <1>18, <1>19, <1>20, <1>21, <1>22, <1>23, <1>24, <1>25, <1>26, <1>27,
    <1>28, <1>29, <1>30, <1>31, <1>32 DEF Next, Handler, Pipeline, Agent, Watchdog


LEMMA OwnStep ==
  ASSUME TurnsTypes, NumbersInv, LocalInv, RunInv, OwnInv, Next
  PROVE  OwnInv'
<1>a. at \in [Request -> Where] /\ lastId \in Nat /\ rows \subseteq Row
      /\ local \in [Request -> [anchor : Nat, prompt : Nat, reply : Nat, nudged : BOOLEAN]]
  BY DEF TurnsTypes
<1>b. \A m \in rows : m.id \in Nat /\ m.id <= lastId
  BY DEF TurnsTypes, NumbersInv, Row
<1>c. OwnInv /\ LocalInv /\ RunInv /\ TurnsConstants
  BY TurnsConstants
<1>d. \A role \in Role, writer \in Request \cup Stopper \cup {NoRun} :
        Add(role, writer) => \E row : Added(row, role, writer)
  BY AddFacts
<1>e. "user" \in Role /\ "assistant" \in Role /\ "system" \in Role /\ "error" \in Role
  BY DEF Role
<1> USE DEF OwnInv
<1>1. ASSUME NEW q \in Request, SendPersists(q)
      PROVE  OwnInv'
  <2>1. PICK row : Added(row, "user", q)
    BY <1>1, <1>d, <1>e DEF SendPersists
  <2> QED
    BY <1>1, <1>a, <1>b, <1>c, <2>1 DEF SendPersists, Added, TurnsConstants, Go, Follow,
      Arrives, InTask, Over, Before, LocalInv
<1>2. ASSUME NEW q \in Request, SendStarts(q)
      PROVE  OwnInv'
  BY <1>2, <1>a, <1>b, <1>c DEF SendStarts, Go, StartRun, Arrives, Follow, Drops, NoLocals,
    Delete, db, InTask, Over, Before, LocalInv
<1>3. ASSUME NEW q \in Request, SendRollsBack(q) \/ RequestIsDropped(q)
      PROVE  OwnInv'
  BY <1>3, <1>a, <1>b, <1>c DEF SendRollsBack, RequestIsDropped, Go, StartRun, Arrives, Follow,
    Drops, NoLocals,
    Delete, db, InTask, Over, Before, LocalInv
<1>4. ASSUME NEW q \in Request, ResendReads(q)
      PROVE  OwnInv'
  BY <1>4, <1>a, <1>b, <1>c DEF ResendReads, Go, StartRun, Arrives, Follow, Drops, NoLocals,
    Delete, db, InTask, Over, Before, LocalInv
<1>5. ASSUME NEW q \in Request, ResendStarts(q)
      PROVE  OwnInv'
  BY <1>5, <1>a, <1>b, <1>c DEF ResendStarts, Go, StartRun, Arrives, Follow, Drops, NoLocals,
    Delete, db, InTask, Over, Before, LocalInv
<1>6. ASSUME NEW q \in Request, EditReplaces(q)
      PROVE  OwnInv'
  <2>1. PICK row : Added(row, "user", q)
    BY <1>6, <1>d, <1>e DEF EditReplaces
  <2> QED
    BY <1>6, <1>a, <1>b, <1>c, <2>1 DEF EditReplaces, Added, TurnsConstants, Go, Follow,
      Arrives, InTask, Over, Before, LocalInv
<1>7. ASSUME NEW q \in Request, EditTruncates(q)
      PROVE  OwnInv'
  BY <1>7, <1>a, <1>b, <1>c DEF EditTruncates, Go, StartRun, Arrives, Follow, Drops, NoLocals,
    Delete, db, InTask, Over, Before, LocalInv
<1>8. ASSUME NEW q \in Request, EditRestores(q)
      PROVE  OwnInv'
  BY <1>8, <1>a, <1>b, <1>c DEF EditRestores, Go, StartRun, Arrives, Follow, Drops, NoLocals,
    Delete, db, InTask, Over, Before, LocalInv
<1>9. ASSUME NEW q \in Request, RegenerateTruncates(q)
      PROVE  OwnInv'
  BY <1>9, <1>a, <1>b, <1>c DEF RegenerateTruncates, Go, StartRun, Arrives, Follow, Drops,
    NoLocals, Delete, db, InTask, Over, Before, LocalInv
<1>10. ASSUME NEW q \in Request, RateLimited(q)
      PROVE  OwnInv'
  BY <1>10, <1>a, <1>b, <1>c DEF RateLimited, Go, StartRun, Arrives, Follow, Drops, NoLocals,
    Delete, db, InTask, Over, Before, LocalInv
<1>11. ASSUME NEW q \in Request, NudgePersists(q)
      PROVE  OwnInv'
  <2>1. PICK row : Added(row, "user", q)
    BY <1>11, <1>d, <1>e DEF NudgePersists
  <2> QED
    BY <1>11, <1>a, <1>b, <1>c, <2>1 DEF NudgePersists, Added, TurnsConstants, Go, Follow,
      Arrives, InTask, Over, Before, LocalInv
<1>12. ASSUME NEW q \in Request, ProviderReturns(q)
      PROVE  OwnInv'
  BY <1>12, <1>a, <1>b, <1>c DEF ProviderReturns, Go, StartRun, Arrives, Follow, Drops,
    NoLocals, Delete, db, InTask, Over, Before, LocalInv
<1>13. ASSUME NEW q \in Request, SavesPartial(q)
      PROVE  OwnInv'
  <2>1. PICK row : Added(row, "assistant", q)
    BY <1>13, <1>d, <1>e DEF SavesPartial
  <2> QED
    BY <1>13, <1>a, <1>b, <1>c, <2>1 DEF SavesPartial, Added, TurnsConstants, Go, Follow,
      Arrives, InTask, Over, Before, LocalInv
<1>14. ASSUME NEW q \in Request, Marks(q)
      PROVE  OwnInv'
  <2>1. PICK row : Added(row, "system", q)
    BY <1>14, <1>d, <1>e DEF Marks
  <2> QED
    BY <1>14, <1>a, <1>b, <1>c, <2>1 DEF Marks, Added, TurnsConstants, Go, Follow, Arrives,
      InTask, Over, Before, LocalInv
<1>15. ASSUME NEW q \in Request, SavesOutputOfFailure(q)
      PROVE  OwnInv'
  <2>1. PICK row : Added(row, "assistant", q)
    BY <1>15, <1>d, <1>e DEF SavesOutputOfFailure
  <2> QED
    BY <1>15, <1>a, <1>b, <1>c, <2>1 DEF SavesOutputOfFailure, Added, TurnsConstants, Go,
      Follow, Arrives, InTask, Over, Before, LocalInv
<1>16. ASSUME NEW q \in Request, SavesError(q)
      PROVE  OwnInv'
  <2>1. PICK row : Added(row, "error", q)
    BY <1>16, <1>d, <1>e DEF SavesError
  <2> QED
    BY <1>16, <1>a, <1>b, <1>c, <2>1 DEF SavesError, Added, TurnsConstants, Go, Follow, Arrives,
      InTask, Over, Before, LocalInv
<1>17. ASSUME NEW q \in Request, ReplyChecks(q)
      PROVE  OwnInv'
  BY <1>17, <1>a, <1>b, <1>c DEF ReplyChecks, Go, StartRun, Arrives, Follow, Drops, NoLocals,
    Delete, db, InTask, Over, Before, LocalInv
<1>18. ASSUME NEW q \in Request, ReplyInserts(q)
      PROVE  OwnInv'
  <2>1. PICK row : Added(row, "assistant", q)
    BY <1>18, <1>d, <1>e DEF ReplyInserts
  <2> QED
    BY <1>18, <1>a, <1>b, <1>c, <2>1 DEF ReplyInserts, Added, TurnsConstants, Go, Follow,
      Arrives, InTask, Over, Before, LocalInv
<1>19. ASSUME NEW q \in Request, ReplyRechecks(q)
      PROVE  OwnInv'
  BY <1>19, <1>a, <1>b, <1>c DEF ReplyRechecks, Go, StartRun, Arrives, Follow, Drops, NoLocals,
    Delete, db, InTask, Over, Before, LocalInv
<1>20. ASSUME NEW q \in Request, ReplyUndone(q)
      PROVE  OwnInv'
  BY <1>20, <1>a, <1>b, <1>c DEF ReplyUndone, Go, StartRun, Arrives, Follow, Drops, NoLocals,
    Delete, db, InTask, Over, Before, LocalInv
<1>21. ASSUME NEW q \in Request, Finishes(q)
      PROVE  OwnInv'
  BY <1>21, <1>a, <1>b, <1>c DEF Finishes, Go, StartRun, Arrives, Follow, Drops, NoLocals,
    Delete, db, InTask, Over, Before, LocalInv
<1>22. ASSUME NEW q \in Request, WrapperSettles(q)
      PROVE  OwnInv'
  BY <1>22, <1>a, <1>b, <1>c DEF WrapperSettles, Go, StartRun, Arrives, Follow, Drops, NoLocals,
    Delete, db, InTask, Over, Before, LocalInv
<1>23. ASSUME NEW q \in Request, Aborted(q)
      PROVE  OwnInv'
  BY <1>23, <1>a, <1>b, <1>c DEF Aborted, Go, StartRun, Arrives, Follow, Drops, NoLocals,
    Delete, db, InTask, Over, Before, LocalInv
<1>24. ASSUME NEW q \in Request, RecordLeaves(q)
      PROVE  OwnInv'
  BY <1>24, <1>a, <1>b, <1>c DEF RecordLeaves, Go, StartRun, Arrives, Follow, Drops, NoLocals,
    Delete, db, InTask, Over, Before, LocalInv
<1>25. ASSUME NEW s \in Stopper, Stop(s)
      PROVE  OwnInv'
  BY <1>25, <1>a, <1>b, <1>c DEF Stop, Go, StartRun, Arrives, Follow, Drops, NoLocals, Delete,
    db, InTask, Over, Before, LocalInv
<1>26. ASSUME NEW s \in Stopper, WatchdogWaits(s)
      PROVE  OwnInv'
  BY <1>26, <1>a, <1>b, <1>c DEF WatchdogWaits, Go, StartRun, Arrives, Follow, Drops, NoLocals,
    Delete, db, InTask, Over, Before, LocalInv
<1>27. ASSUME NEW s \in Stopper, WatchdogExpires(s)
      PROVE  OwnInv'
  BY <1>27, <1>a, <1>b, <1>c DEF WatchdogExpires, Go, StartRun, Arrives, Follow, Drops,
    NoLocals, Delete, db, InTask, Over, Before, LocalInv
<1>28. ASSUME NEW s \in Stopper, WatchdogChecks(s)
      PROVE  OwnInv'
  BY <1>28, <1>a, <1>b, <1>c DEF WatchdogChecks, Go, StartRun, Arrives, Follow, Drops, NoLocals,
    Delete, db, InTask, Over, Before, LocalInv
<1>29. ASSUME NEW s \in Stopper, WatchdogReads(s)
      PROVE  OwnInv'
  BY <1>29, <1>a, <1>b, <1>c DEF WatchdogReads, Go, StartRun, Arrives, Follow, Drops, NoLocals,
    Delete, db, InTask, Over, Before, LocalInv
<1>30. ASSUME NEW s \in Stopper, WatchdogMarks(s)
      PROVE  OwnInv'
  <2>1. PICK row : Added(row, "system", s)
    BY <1>30, <1>d, <1>e DEF WatchdogMarks
  <2> QED
    BY <1>30, <1>a, <1>b, <1>c, <2>1 DEF WatchdogMarks, Added, TurnsConstants, Go, Follow,
      Arrives, InTask, Over, Before, LocalInv
<1>31. ASSUME Crash
      PROVE  OwnInv'
  BY <1>31, <1>a, <1>c DEF Crash, db, RunInv, Before
<1>32. ASSUME Boot
      PROVE  OwnInv'
  <2>1. CASE Add("error", NoRun)
    <3>1. PICK row : Added(row, "error", NoRun)
      BY <2>1, <1>d, <1>e
    <3> QED
      BY <1>32, <1>a, <1>b, <1>c, <3>1 DEF Boot, Added, TurnsConstants, LocalInv
  <2>2. CASE rows' = rows
    BY <1>32, <1>c, <2>2 DEF Boot
  <2> QED
    BY <1>32, <2>1, <2>2 DEF Boot, db
<1> QED
  BY <1>1, <1>2, <1>3, <1>4, <1>5, <1>6, <1>7, <1>8, <1>9, <1>10, <1>11, <1>12, <1>13, <1>14,
    <1>15, <1>16, <1>17, <1>18, <1>19, <1>20, <1>21, <1>22, <1>23, <1>24, <1>25, <1>26, <1>27,
    <1>28, <1>29, <1>30, <1>31, <1>32 DEF Next, Handler, Pipeline, Agent, Watchdog


\* Only the steps that store a reply or a marker matter to it.
LEMMA EndingStep ==
  ASSUME TurnsTypes, NumbersInv, OwnInv, EndingInv, Next
  PROVE  EndingInv'
<1>a. at \in [Request -> Where] /\ Request \cap Stopper = {} /\ NoRun \notin Request
  BY TurnsConstants DEF TurnsTypes, TurnsConstants
<1>1. ASSUME rows' \subseteq rows
      PROVE  EndingInv'
  BY <1>1 DEF EndingInv, StoppedRunHasOneEnding
<1>2. ASSUME NEW role \in {"user", "error"}, NEW writer \in Request \cup Stopper \cup {NoRun},
             Add(role, writer)
      PROVE  EndingInv'
  <2>1. PICK row : Added(row, role, writer)
    BY <1>2, AddFacts DEF Role
  <2> QED
    BY <2>1 DEF Added, EndingInv, StoppedRunHasOneEnding
<1>3. ASSUME NEW q \in Request, Add("assistant", q), at[q] \notin {"err", "tail", "gone"}
      PROVE  EndingInv'
  <2>1. PICK row : Added(row, "assistant", q)
    BY <1>3, AddFacts DEF Role
  <2>2. \A m \in rows : m.by = q => m.role # "system"
    BY <1>3 DEF OwnInv
  <2> QED
    BY <2>1, <2>2 DEF Added, EndingInv, StoppedRunHasOneEnding
<1>4. ASSUME NEW writer \in Request \cup Stopper, Add("system", writer),
             writer \in Request => at[writer] \in Before
      PROVE  EndingInv'
  <2>1. PICK row : Added(row, "system", writer)
    BY <1>4, AddFacts DEF Role
  <2>2. \A m \in rows : m.by = writer => m.role # "assistant"
    BY <1>a, <1>4 DEF OwnInv, EndingInv
  <2> QED
    BY <2>1, <2>2 DEF Added, EndingInv, StoppedRunHasOneEnding
<1>5. ASSUME NEW q \in Request, Handler(q)
      PROVE  EndingInv'
  <2>1. Add("user", q) \/ rows' \subseteq rows
    BY <1>5 DEF Handler, SendPersists, SendStarts, SendRollsBack, RequestIsDropped, ResendReads,
      ResendStarts,
      Delete, db
  <2> QED
    BY <1>1, <1>2, <2>1
<1>6. ASSUME NEW q \in Request, Pipeline(q)
      PROVE  EndingInv'
  <2>1. \/ Add("user", q) \/ Add("error", q)
        \/ Add("assistant", q) /\ at[q] \in {"partial", "errpart", "insert"}
        \/ Add("system", q) /\ at[q] = "mark"
        \/ rows' \subseteq rows
    BY <1>6 DEF Pipeline, EditReplaces, EditTruncates, EditRestores, RegenerateTruncates,
      NudgePersists, SavesPartial, Marks, SavesOutputOfFailure, SavesError, ReplyChecks, ReplyInserts,
      ReplyRechecks, ReplyUndone, Finishes, WrapperSettles, Aborted, Delete, Go, db
  <2> QED
    BY <1>1, <1>2, <1>3, <1>4, <2>1 DEF Before
<1>7. ASSUME NEW q \in Request, Agent(q) \/ RecordLeaves(q)
      PROVE  EndingInv'
  BY <1>1, <1>7 DEF Agent, RateLimited, ProviderReturns, RecordLeaves, db
<1>8. ASSUME NEW s \in Stopper, Stop(s) \/ Watchdog(s)
      PROVE  EndingInv'
  <2>1. Add("system", s) \/ rows' \subseteq rows
    BY <1>8 DEF Stop, Watchdog, WatchdogWaits, WatchdogExpires, WatchdogChecks, WatchdogReads,
      WatchdogMarks, db
  <2> QED
    BY <1>a, <1>1, <1>4, <2>1
<1>9. ASSUME Crash \/ Boot
      PROVE  EndingInv'
  <2>1. Add("error", NoRun) \/ rows' \subseteq rows
    BY <1>9 DEF Crash, Boot, db
  <2> QED
    BY <1>1, <1>2, <2>1
<1> QED
  BY <1>5, <1>6, <1>7, <1>8, <1>9 DEF Next

\* PlaceInv is kept.
LEMMA PlaceStep ==
  ASSUME TurnsTypes, RunInv, PlaceInv, Next
  PROVE  PlaceInv'
<1> DEFINE C == {p \in Request : Cancelled(p)}
<1>1. /\ cancelled \in [Request -> Nat] /\ holder \in Request \cup {NoRun}
      /\ at \in [Request -> Where]
      /\ IsFiniteSet(C) /\ Cardinality(C) \in Nat
  BY FS_CardinalityType DEF TurnsTypes
<1>2. CASE cancelled' = cancelled /\ (holder' = holder \/ holder' = NoRun \/ cancelled[holder'] = 0)
  BY <1>1, <1>2 DEF PlaceInv, Cancelled
<1>3. ASSUME NEW s \in Stopper, Stop(s), Running
      PROVE  PlaceInv'
  <2>1. holder \in Request /\ cancelled[holder] = 0 /\ holder' = holder
    BY <1>1, <1>3 DEF Stop, RunInv, Running, Cancelled
  <2>2. cancelled' = [cancelled EXCEPT ![holder] = Cardinality(C) + 1]
    BY <1>3 DEF Stop
  <2>3. C' = C \cup {holder} /\ holder \notin C
    BY <1>1, <2>1, <2>2 DEF Cancelled
  <2>4. Cardinality(C') = Cardinality(C) + 1
    BY <1>1, <2>3, FS_AddElement
  <2>5. \A q \in Request : cancelled[q] <= Cardinality(C)
    BY DEF PlaceInv
  <2> HIDE DEF C
  <2>6. \A q \in Request : cancelled'[q] <= Cardinality(C')
    BY <1>1, <2>1, <2>2, <2>4, <2>5
  <2>7. \A q \in Request \ {holder} : cancelled'[q] < cancelled'[holder]
    BY <1>1, <2>1, <2>2, <2>5
  <2> QED
    BY <2>1, <2>6, <2>7 DEF PlaceInv, C
<1>4. CASE Crash
  <2>1. cancelled' = [q \in Request |-> 0] /\ holder' = NoRun
    BY <1>4 DEF Crash
  <2>2. C' = {}
    BY <2>1 DEF Cancelled
  <2>3. Cardinality(C') = 0
    BY <2>2, FS_EmptySet
  <2> HIDE DEF C
  <2>4. \A q \in Request : cancelled'[q] <= Cardinality(C')
    BY <2>1, <2>3
  <2> QED
    BY <2>1, <2>4 DEF PlaceInv, C
<1>5. ASSUME NEW q \in Request, SendStarts(q) \/ ResendStarts(q)
      PROVE  cancelled' = cancelled /\ (holder' = holder \/ cancelled[holder'] = 0)
  BY <1>1, <1>5 DEF SendStarts, ResendStarts, StartRun, Go, registry, RunInv, Cancelled, InTask,
    Over
<1>6. ASSUME NEW q \in Request, Handler(q), ~ SendStarts(q), ~ ResendStarts(q)
      PROVE  cancelled' = cancelled /\ holder' = holder
  BY <1>6 DEF Handler, SendPersists, SendRollsBack, RequestIsDropped, ResendReads, registry
<1>7. ASSUME NEW q \in Request, Pipeline(q) \/ Agent(q)
      PROVE  cancelled' = cancelled /\ holder' = holder
  BY <1>7 DEF Pipeline, Agent, EditReplaces, EditTruncates, EditRestores, RegenerateTruncates,
    NudgePersists, SavesPartial, Marks, SavesOutputOfFailure, SavesError, ReplyChecks,
    ReplyInserts, ReplyRechecks, ReplyUndone, Finishes, WrapperSettles, Aborted, RateLimited,
    ProviderReturns, registry
<1>8. ASSUME NEW q \in Request, RecordLeaves(q)
      PROVE  cancelled' = cancelled /\ holder' = NoRun
  BY <1>8 DEF RecordLeaves
<1>9. ASSUME NEW s \in Stopper, Watchdog(s) \/ (Stop(s) /\ ~ Running)
      PROVE  cancelled' = cancelled /\ holder' = holder
  BY <1>9 DEF Watchdog, WatchdogWaits, WatchdogExpires, WatchdogChecks, WatchdogReads,
    WatchdogMarks, Follow, Stop, registry
<1>10. ASSUME Boot
       PROVE  cancelled' = cancelled /\ holder' = holder
  BY <1>10 DEF Boot, registry
<1> HIDE DEF C
<1> QED
  BY <1>2, <1>3, <1>4, <1>5, <1>6, <1>7, <1>8, <1>9, <1>10 DEF Next

-----------------------------------------------------------------------------
(* What the steps do to the rows that are kept *)

\* Steps of the handlers and of a run that store nothing, or something they may
\* take back, leave the kept rows as they are.
LEMMA QuietStep ==
  ASSUME TurnsTypes, NumbersInv, LocalInv, OwnInv, RunInv, NEW q \in Request,
         \/ SendPersists(q)
         \/ SendStarts(q) /\ Running
         \/ SendRollsBack(q)
         \/ RequestIsDropped(q)
         \/ ResendReads(q)
         \/ ResendStarts(q)
         \/ RateLimited(q)
         \/ ProviderReturns(q)
         \/ ReplyChecks(q)
         \/ ReplyInserts(q) /\ Cancelled(q)
         \/ ReplyRechecks(q)
         \/ ReplyUndone(q)
         \/ Finishes(q)
         \/ WrapperSettles(q)
         \/ RecordLeaves(q)
  PROVE  Kept' = Kept
<1>a. /\ at \in [Request -> Where]
      /\ cancelled \in [Request -> Nat]
      /\ rows \subseteq Row /\ lastId \in Nat
      /\ local \in [Request -> [anchor : Nat, prompt : Nat, reply : Nat, nudged : BOOLEAN]]
  BY DEF TurnsTypes
<1>b. OwnInv /\ RunInv
  OBVIOUS
<1> SUFFICES ASSUME NEW m
             PROVE  m \in Kept' <=> m \in Kept
  OBVIOUS
<1> USE DEF Kept
<1>c. \A r \in rows : r.id \in Nat /\ r.id <= lastId
  BY DEF TurnsTypes, NumbersInv, Row
<1>d. ASSUME NEW role \in Role, Add(role, q)
      PROVE  \E row : Added(row, role, q)
  BY <1>d, AddFacts
<1>e. "user" \in Role /\ "assistant" \in Role
  BY DEF Role
<1>1. CASE SendPersists(q)
  <2>1. PICK row : Added(row, "user", q)
    BY <1>1, <1>d, <1>e DEF SendPersists
  <2>2. at'[q] = "persisted" /\ at[q] = "idle" /\ \A p \in Request : p # q => at'[p] = at[p]
    BY <1>1, <1>a DEF SendPersists, Arrives, Go
  <2>3. cancelled' = cancelled
    BY <1>1 DEF SendPersists, registry
  <2>4. \A r \in rows : r.by # q
    BY <1>b, <2>2 DEF OwnInv
  <2>5. m \in rows => (\A p \in Request : Shaky(m, p)' <=> Shaky(m, p))
    BY <2>2, <2>3, <2>4 DEF Shaky, Cancelled
  <2>6. m = row => Shaky(m, q)'
    BY <2>1, <2>2 DEF Shaky, Added
  <2>7. row \notin rows
    BY <1>a, <1>c, <2>1 DEF Added
  <2> QED
    BY <2>1, <2>5, <2>6, <2>7 DEF Added
<1>2. CASE SendStarts(q) /\ Running
  BY <1>2, <1>a DEF SendStarts, StartRun, Go, Shaky, Cancelled, db, registry
<1>3. CASE SendRollsBack(q)
  <2>1. at[q] = "rollback" /\ at'[q] = "refused" /\ \A p \in Request : p # q => at'[p] = at[p]
    BY <1>3, <1>a DEF SendRollsBack, RequestIsDropped, Go
  <2>2. cancelled' = cancelled /\ rows' = {r \in rows : r.id # local[q].prompt}
    BY <1>3 DEF SendRollsBack, RequestIsDropped, registry, Delete
  <2>3. m \in rows => (m.by = q <=> m.id = local[q].prompt)
    BY <1>b, <2>1 DEF OwnInv
  <2>4. m \in rows /\ m.by # q => (\A p \in Request : Shaky(m, p)' <=> Shaky(m, p))
    BY <2>1, <2>2 DEF Shaky, Cancelled
  <2>5. m \in rows /\ m.by = q => Shaky(m, q)
    BY <2>1 DEF Shaky
  <2> QED
    BY <2>2, <2>3, <2>4, <2>5
<1>4. CASE ResendReads(q) \/ ResendStarts(q)
  <2>1. \A p \in Request : at'[p] # at[p] => at[p] \in {"idle", "edit", "regenerate"}
    BY <1>4, <1>a DEF ResendReads, ResendStarts, StartRun, Arrives, Go
  <2>2. cancelled' = cancelled /\ rows' = rows
    BY <1>4 DEF ResendReads, ResendStarts, StartRun, registry, db
  <2>3. m \in rows => (\A p \in Request : m.by = p => at'[p] = at[p])
    BY <1>b, <2>1 DEF OwnInv
  <2> QED
    BY <2>2, <2>3 DEF Shaky, Cancelled
<1>5. CASE RateLimited(q) \/ ProviderReturns(q) \/ ReplyChecks(q) \/ Finishes(q) \/ WrapperSettles(q)
  <2>1. \A p \in Request :
          \/ at'[p] = at[p]
          \/ {at[p], at'[p]} \cap {"persisted", "rollback", "dropped", "inserted", "undo"} = {}
    BY <1>5, <1>a DEF RateLimited, ProviderReturns, ReplyChecks, Finishes, WrapperSettles, Go
  <2>2. cancelled' = cancelled /\ rows' = rows
    BY <1>5 DEF RateLimited, ProviderReturns, ReplyChecks, Finishes, WrapperSettles, registry,
      db
  <2> QED
    BY <2>1, <2>2 DEF Shaky, Cancelled
<1>6. CASE ReplyInserts(q) /\ Cancelled(q)
  <2>1. PICK row : Added(row, "assistant", q)
    BY <1>6, <1>d, <1>e DEF ReplyInserts
  <2>2. at'[q] = "inserted" /\ at[q] = "insert" /\ \A p \in Request : p # q => at'[p] = at[p]
    BY <1>6, <1>a DEF ReplyInserts, Go
  <2>3. cancelled' = cancelled
    BY <1>6 DEF ReplyInserts, registry
  <2>4. \A r \in rows : r.by = q => r.role # "assistant"
    BY <1>b, <2>2 DEF OwnInv, Before
  <2>5. m \in rows => (\A p \in Request : Shaky(m, p)' <=> Shaky(m, p))
    BY <2>2, <2>3, <2>4 DEF Shaky, Cancelled
  <2>6. m = row => Shaky(m, q)'
    BY <1>6, <2>1, <2>2, <2>3 DEF Shaky, Added, Cancelled
  <2>7. row \notin rows
    BY <1>a, <1>c, <2>1 DEF Added
  <2> QED
    BY <2>1, <2>5, <2>6, <2>7 DEF Added
<1>7. CASE ReplyRechecks(q)
  BY <1>7, <1>a DEF ReplyRechecks, Go, Shaky, Cancelled, registry, db
<1>8. CASE ReplyUndone(q)
  <2>1. at[q] = "undo" /\ at'[q] = "mark" /\ \A p \in Request : p # q => at'[p] = at[p]
    BY <1>8, <1>a DEF ReplyUndone, Go
  <2>2. cancelled' = cancelled /\ rows' = {r \in rows : r.id # local[q].reply}
    BY <1>8 DEF ReplyUndone, registry, Delete
  <2>3. m \in rows => (m.by = q /\ m.role = "assistant" <=> m.id = local[q].reply)
    BY <1>b, <2>1 DEF OwnInv
  <2>4. Cancelled(q)
    BY <1>b, <2>1 DEF RunInv
  <2>5. m \in rows /\ ~ (m.by = q /\ m.role = "assistant")
          => (\A p \in Request : Shaky(m, p)' <=> Shaky(m, p))
    BY <2>1, <2>2 DEF Shaky, Cancelled
  <2>6. m \in rows /\ m.by = q /\ m.role = "assistant" => Shaky(m, q)
    BY <2>1, <2>4 DEF Shaky
  <2> QED
    BY <2>2, <2>3, <2>5, <2>6
<1>9. CASE RecordLeaves(q)
  BY <1>9 DEF RecordLeaves, Shaky, Cancelled, db
<1>10. CASE RequestIsDropped(q)
  <2>1. /\ \A p \in Request : p # q => at'[p] = at[p]
        /\ \/ at[q] \in {"persisted", "rollback"} /\ at'[q] = "dropped"
           \/ at[q] \in {"edit", "regenerate"} /\ at'[q] = "refused"
    BY <1>10, <1>a DEF RequestIsDropped, Go
  <2>2. cancelled' = cancelled /\ rows' = rows
    BY <1>10 DEF RequestIsDropped, registry, db
  <2>3. m \in rows /\ m.by = q => at[q] \notin {"edit", "regenerate"}
    BY <1>b DEF OwnInv
  <2> QED
    BY <2>1, <2>2, <2>3 DEF Shaky, Cancelled
<1> QED
  BY <1>1, <1>2, <1>3, <1>4, <1>5, <1>6, <1>7, <1>8, <1>9, <1>10

\* So do the watchdogs before they mark, and a boot that finds nothing to do.
LEMMA QuietWatchdog ==
  ASSUME \/ \E s \in Stopper : \/ WatchdogWaits(s) \/ WatchdogExpires(s)
                               \/ WatchdogChecks(s) \/ WatchdogReads(s)
                               \/ Stop(s) /\ ~ Running
         \/ Boot /\ rows' = rows
  PROVE  Kept' = Kept
BY DEF WatchdogWaits, WatchdogExpires, WatchdogChecks, WatchdogReads, Stop, Boot, Follow,
  registry,
  db, Kept, Shaky, Cancelled

\* A row that closes a turn: not a user's, kept, and the last.
Closes(row) ==
  /\ row.role # "user"
  /\ Kept' = Kept \cup {row}
  /\ \A n \in Kept : n.id < row.id

LEMMA ClosingStep ==
  ASSUME TurnsTypes, NumbersInv, OwnInv, RunInv, NEW q \in Request,
         \/ SavesPartial(q) \/ Marks(q) \/ SavesOutputOfFailure(q) \/ SavesError(q)
         \/ ReplyInserts(q) /\ ~ Cancelled(q)
  PROVE  \E row : Closes(row) /\ row.by = q /\ (ReplyInserts(q) => row.role = "assistant")
<1>a. /\ at \in [Request -> Where]
      /\ cancelled \in [Request -> Nat]
      /\ rows \subseteq Row /\ lastId \in Nat
  BY DEF TurnsTypes
<1>b. OwnInv /\ RunInv
  OBVIOUS
<1>c. \A r \in rows : r.id \in Nat /\ r.id <= lastId
  BY DEF TurnsTypes, NumbersInv, Row
<1>1. PICK role \in {"assistant", "system", "error"} :
        Add(role, q) /\ (ReplyInserts(q) => role = "assistant")
  BY DEF SavesPartial, Marks, SavesOutputOfFailure, SavesError, ReplyInserts, Go
<1>2. PICK row : Added(row, role, q)
  BY <1>1, AddFacts DEF Role
<1>3. /\ \A p \in Request : p # q => at'[p] = at[p]
      /\ at[q] \notin {"persisted", "rollback", "dropped", "inserted", "undo"}
      /\ at'[q] \in {"err", "error"} \/ (at'[q] = "inserted" /\ ~ Cancelled(q))
  BY <1>a DEF SavesPartial, Marks, SavesOutputOfFailure, SavesError, ReplyInserts, Go
<1>4. cancelled' = cancelled
  BY DEF SavesPartial, Marks, SavesOutputOfFailure, SavesError, ReplyInserts, registry
<1>5. ASSUME NEW m, NEW p \in Request
      PROVE  Shaky(m, p)' <=> Shaky(m, p)
  BY <1>3, <1>4 DEF Shaky, Cancelled
<1>6. \A p \in Request : ~ Shaky(row, p)'
  BY <1>2, <1>3, <1>4 DEF Shaky, Added, Cancelled
<1>7. Kept' = Kept \cup {row}
  BY <1>2, <1>5, <1>6 DEF Added, Kept
<1>8. \A n \in Kept : n.id < row.id
  BY <1>a, <1>c, <1>2 DEF Added, Kept
<1> QED
  BY <1>1, <1>2, <1>7, <1>8 DEF Closes, Added

LEMMA MarkingStep ==
  ASSUME TurnsTypes, NumbersInv, OwnInv, RunInv,
         \/ \E s \in Stopper : WatchdogMarks(s)
         \/ Boot /\ UserTail
  PROVE  \E row : Closes(row)
<1>a. /\ at \in [Request -> Where]
      /\ cancelled \in [Request -> Nat]
      /\ rows \subseteq Row /\ lastId \in Nat
  BY DEF TurnsTypes
<1>b. OwnInv /\ RunInv
  OBVIOUS
<1>c. \A r \in rows : r.id \in Nat /\ r.id <= lastId
  BY DEF TurnsTypes, NumbersInv, Row
<1>1. PICK role \in {"system", "error"}, writer \in Stopper \cup {NoRun} : Add(role, writer)
  BY DEF WatchdogMarks, Boot
<1>2. PICK row : Added(row, role, writer)
  BY <1>1, AddFacts DEF Role
<1>3. at' = at /\ cancelled' = cancelled
  BY DEF WatchdogMarks, Boot, Follow, registry
<1>4. ASSUME NEW m, NEW p \in Request
      PROVE  Shaky(m, p)' <=> Shaky(m, p)
  BY <1>3 DEF Shaky, Cancelled
<1>5. \A p \in Request : ~ Shaky(row, p)'
  BY <1>2, TurnsConstants DEF Shaky, Added, TurnsConstants
<1>6. Kept' = Kept \cup {row}
  BY <1>2, <1>4, <1>5 DEF Added, Kept
<1>7. \A n \in Kept : n.id < row.id
  BY <1>a, <1>c, <1>2 DEF Added, Kept
<1> QED
  BY <1>2, <1>6, <1>7 DEF Closes, Added

\* After it the last kept row is not a user's.
LEMMA ClosedTail ==
  ASSUME TurnsTypes, NEW row, Closes(row), Kept' \subseteq Row
  PROVE  ~ KeptTail'
<1>1. \A m \in Kept' : m.id \in Nat
  BY DEF Row
<1>2. \A m \in Kept' : m = row \/ m.id < row.id
  BY DEF Closes
<1>3. row \in Kept'
  BY DEF Closes
<1> QED
  BY <1>1, <1>2, <1>3 DEF KeptTail, Closes

\* What a run that is aborted leaves is a reply.
LEMMA AbortStep ==
  ASSUME TurnsTypes, OwnInv, NEW q \in Request, Aborted(q)
  PROVE  Kept \subseteq Kept' /\ \A m \in Kept' \ Kept : m.role = "assistant"
<1>1. /\ \A p \in Request : p # q => at'[p] = at[p]
      /\ at[q] \notin {"persisted", "rollback", "dropped"} /\ at'[q] = "gone"
  BY DEF Aborted, Go, TurnsTypes, InTask
<1>2. rows' = rows /\ cancelled' = cancelled
  BY DEF Aborted, db, registry
<1>3. ASSUME NEW m, NEW p \in Request
      PROVE  /\ Shaky(m, p)' => Shaky(m, p)
             /\ Shaky(m, p) => Shaky(m, p)' \/ m.role = "assistant"
  BY <1>1, <1>2 DEF Shaky, Cancelled
<1> QED
  BY <1>2, <1>3 DEF Kept

\* A stop makes the reply shaky that is being stored.
LEMMA StopStep ==
  ASSUME TurnsTypes, RunInv, NEW s \in Stopper, Stop(s)
  PROVE  Kept' \subseteq Kept /\ (at[holder] # "inserted" => Kept' = Kept)
<1>1. PICK k \in Nat : k > 0 /\ cancelled' = IF Running THEN [cancelled EXCEPT ![holder] = k]
                                                        ELSE cancelled
  BY StopPlace
<1>2. rows' = rows /\ at' = at
  BY DEF Stop, db
<1>3. cancelled \in [Request -> Nat] /\ (Running => holder \in Request /\ ~ Cancelled(holder))
  BY DEF TurnsTypes, RunInv, Running
<1>4. ASSUME NEW m, NEW p \in Request
      PROVE  /\ Shaky(m, p) => Shaky(m, p)'
             /\ at[holder] # "inserted" => (Shaky(m, p)' => Shaky(m, p))
  <2>1. at[p] = "undo" => Cancelled(p)
    BY DEF RunInv
  <2> QED
    BY <1>1, <1>2, <1>3, <2>1 DEF Shaky, Cancelled
<1> QED
  BY <1>2, <1>4 DEF Kept

\* A dead server has nothing to take back.
LEMMA AllKept ==
  ASSUME RunInv, server = "down"
  PROVE  Kept = rows
BY DEF RunInv, Kept, Shaky

-----------------------------------------------------------------------------
(* A trailing user message is minded *)

LEMMA KeptTyped ==
  ASSUME TurnsTypes
  PROVE  Kept \subseteq Row
BY DEF TurnsTypes, Kept

\* The table has a last row unless it is empty.
LEMMA LastRow ==
  ASSUME TurnsTypes, NumbersInv, rows # {}
  PROVE  \E n \in rows : \A m \in rows : m.id <= n.id
<1> DEFINE T == {m.id : m \in rows}
<1>1. T \in SUBSET Nat /\ T # {} /\ lastId \in Nat /\ \A t \in T : t <= lastId
  BY DEF TurnsTypes, NumbersInv, Row
<1> HIDE DEF T
<1>2. Max(T) \in T /\ \A t \in T : t <= Max(T)
  BY <1>1, MaxOfBounded
<1> QED
  BY <1>2 DEF T

\* The run in the map, once stopped, keeps a watchdog waiting.
LEMMA StoppedHolderIsMinded ==
  ASSUME HolderIsWatched, NEW q \in Request, q = holder, Cancelled(q), at[q] \in InTask,
         TurnsConstants
  PROVE  \E s \in Stopper : dog[s].at = "waiting"
BY DEF HolderIsWatched, TurnsConstants

\* When a watchdog finds no user message at the tail, either none is there
\* among the kept rows, or a stopped run still drains and others mind it.
LEMMA NoUserTail ==
  ASSUME TurnsTypes, NumbersInv, OwnInv, RunInv, HolderIsWatched, DrainInv, TurnsConstants,
         ~ UserTail, KeptTail, ~ strayed
  PROVE  \/ \E q \in Request : at[q] \in Active /\ ~ Cancelled(q)
         \/ \E s \in Stopper : dog[s].at = "waiting"
<1>1. PICK m \in Kept : m.role = "user" /\ \A n \in Kept : n.id <= m.id
  BY DEF KeptTail
<1>2. m \in rows
  BY DEF Kept
<1>3. PICK n \in rows : \A r \in rows : r.id <= n.id
  BY <1>2, LastRow
<1>4. n.role # "user"
  BY <1>3 DEF UserTail
<1>5. n.id \in Nat /\ m.id \in Nat /\ m.id <= n.id
  BY <1>2, <1>3 DEF TurnsTypes, Row
<1>6. n \notin Kept
  <2> SUFFICES ASSUME n \in Kept
               PROVE  FALSE
    OBVIOUS
  <2>1. n.id = m.id
    BY <1>1, <1>5
  <2> QED
    BY <1>1, <1>2, <1>4, <2>1 DEF NumbersInv
<1>7. PICK q \in Request : Shaky(n, q)
  BY <1>6 DEF Kept
<1>8. at[q] \in {"inserted", "undo"} /\ Cancelled(q)
  BY <1>4, <1>7 DEF Shaky, OwnInv
<1>9. at[q] \in InTask
  BY <1>8 DEF InTask
<1>10. CASE q = holder
  BY <1>8, <1>9, <1>10, StoppedHolderIsMinded
<1>11. CASE q # holder
  <2>1. holder \in Request /\ (at[holder] \in Active \/ (at[holder] = "inserted" /\ Cancelled(holder)))
    BY <1>8, <1>9, <1>11 DEF DrainInv, TurnsTypes
  <2>2. CASE ~ Cancelled(holder)
    BY <2>1, <2>2
  <2>3. CASE Cancelled(holder)
    BY <2>1, <2>3, StoppedHolderIsMinded DEF Active, InTask
  <2> QED
    BY <2>2, <2>3
<1> QED
  BY <1>10, <1>11

\* A run that goes on, as the run in the map or astray, is minded.
LEMMA GoesOn ==
  ASSUME TurnsTypes, RunInv, HolderIsWatched, TurnsConstants, NEW q \in Request,
         at[q] \in InTask, at'[q] \in Active, cancelled' = cancelled, dog' = dog, Strays(q)
  PROVE  Minded'
<1>1. CASE ~ Cancelled(q)
  BY <1>1 DEF Minded, Cancelled
<1>2. CASE holder # q
  BY <1>2 DEF Minded, Strays
<1>3. CASE Cancelled(q) /\ holder = q
  BY <1>3, StoppedHolderIsMinded DEF Minded
<1> QED
  BY <1>1, <1>2, <1>3

LEMMA TailStep ==
  ASSUME TurnsTypes, NumbersInv, LocalInv, OwnInv, RunInv, HolderIsWatched, TailInv, CloseInv,
         DrainInv, Next
  PROVE  TailInv'
<1>a. /\ at \in [Request -> Where] /\ TurnsConstants
      /\ cancelled \in [Request -> Nat] /\ holder \in Request \cup {NoRun}
      /\ dog \in [Stopper -> [at : {"idle", "waiting", "checks", "reads", "mark", "done"},
                              target : Request \cup {NoRun}, seen : SUBSET Request]]
  BY TurnsConstants DEF TurnsTypes
<1>b. Kept' \subseteq Row
  BY TypesStep DEF TurnsTypes, Kept
<1>1. ASSUME Kept' = Kept, Minded => Minded'
      PROVE  TailInv'
  BY <1>1 DEF TailInv, KeptTail
<1>2. ASSUME NEW row, Closes(row)
      PROVE  TailInv'
  BY <1>2, <1>b, ClosedTail DEF TailInv
<1>3. ASSUME Minded'
      PROVE  TailInv'
  BY <1>3 DEF TailInv
<1>4. ASSUME NEW q \in Request,
             \/ SendPersists(q) \/ (SendStarts(q) /\ Running) \/ SendRollsBack(q)
             \/ RequestIsDropped(q) \/ ResendReads(q) \/ (ResendStarts(q) /\ Running)
      PROVE  TailInv'
  <2>1. Minded => Minded'
    BY <1>4, <1>a DEF SendPersists, SendStarts, SendRollsBack, RequestIsDropped, ResendReads,
      ResendStarts,
      StartRun,
      Arrives, Go, Minded, Active, InTask, Cancelled, registry, host
  <2> QED
    BY <1>1, <1>4, <2>1, QuietStep
<1>5. ASSUME NEW q \in Request, SendStarts(q) \/ ResendStarts(q), ~ Running
      PROVE  TailInv'
  <2>1. ~ Cancelled(q)
    BY <1>5 DEF RunInv, SendStarts, ResendStarts, StartRun, Go, InTask, Over
  <2>2. at'[q] \in Active /\ cancelled' = cancelled
    BY <1>5, <1>a DEF SendStarts, ResendStarts, StartRun, Go, InTask, Active
  <2> QED
    BY <1>3, <2>1, <2>2 DEF Minded, Cancelled
<1>6. ASSUME NEW q \in Request,
             EditReplaces(q) \/ EditTruncates(q) \/ RegenerateTruncates(q) \/ NudgePersists(q)
      PROVE  TailInv'
  <2>1. at[q] \in InTask /\ at'[q] \in Active /\ cancelled' = cancelled /\ dog' = dog /\ Strays(q)
    BY <1>6, <1>a DEF EditReplaces, EditTruncates, RegenerateTruncates, NudgePersists, Go,
      InTask,
      Active, registry
  <2> QED
    BY <1>3, <1>a, <2>1, GoesOn
<1>7. ASSUME NEW q \in Request, EditRestores(q)
      PROVE  TailInv'
  BY <1>3, <1>7 DEF EditRestores, Minded
<1>8. ASSUME NEW q \in Request,
             \/ RateLimited(q) \/ ProviderReturns(q) \/ ReplyChecks(q) \/ (ReplyInserts(q) /\ Cancelled(q))
             \/ ReplyRechecks(q) \/ ReplyUndone(q) \/ Finishes(q) \/ WrapperSettles(q) \/ RecordLeaves(q)
      PROVE  TailInv'
  <2>1. \A p \in Request : at[p] \in Active /\ ~ Cancelled(p) => at'[p] \in Active
    BY <1>8, <1>a DEF RateLimited, ProviderReturns, ReplyChecks, ReplyInserts, ReplyRechecks,
      ReplyUndone, Finishes, WrapperSettles, RecordLeaves, Go, Active, InTask, RunInv
  <2>2. cancelled' = cancelled /\ dog' = dog /\ server' = server /\ strayed' = strayed
    BY <1>8 DEF RateLimited, ProviderReturns, ReplyChecks, ReplyInserts, ReplyRechecks,
      ReplyUndone, Finishes, WrapperSettles, RecordLeaves, registry, host
  <2>3. Minded => Minded'
    BY <2>1, <2>2 DEF Minded, Cancelled
  <2> QED
    BY <1>1, <1>8, <2>3, QuietStep
<1>9. ASSUME NEW q \in Request,
             \/ SavesPartial(q) \/ Marks(q) \/ SavesOutputOfFailure(q) \/ SavesError(q)
             \/ ReplyInserts(q) /\ ~ Cancelled(q)
      PROVE  TailInv'
  BY <1>2, <1>9, ClosingStep
<1>10. ASSUME NEW q \in Request, Aborted(q)
       PROVE  TailInv'
  <2>1. KeptTail' => KeptTail
    BY <1>10, AbortStep DEF KeptTail
  <2>2. Minded => Minded'
    BY <1>10, <1>a DEF Aborted, Go, Minded, Cancelled, registry, host
  <2> QED
    BY <2>1, <2>2 DEF TailInv
<1>11. ASSUME NEW s \in Stopper, Stop(s) \/ WatchdogWaits(s) \/ WatchdogExpires(s)
       PROVE  TailInv'
  BY <1>3, <1>11, <1>a DEF Stop, WatchdogWaits, WatchdogExpires, Follow, Dog, Minded
<1>12. ASSUME NEW s \in Stopper, WatchdogChecks(s)
       PROVE  TailInv'
  <2>1. CASE Running
    <3>1. holder \in Request /\ ~ Cancelled(holder) /\ at[holder] \in InTask \cup {"err"}
      BY <1>a, <2>1 DEF Running, RunInv
    <3>2. at' = at /\ cancelled' = cancelled /\ strayed' = strayed
      BY <1>12 DEF WatchdogChecks, Follow, registry
    <3>3. CASE at[holder] \in Active
      BY <1>3, <3>1, <3>2, <3>3 DEF Minded, Cancelled
    <3>4. CASE strayed
      BY <1>3, <3>2, <3>4 DEF Minded
    <3>5. CASE at[holder] \notin Active /\ ~ strayed
      <4>1. at[holder] \in {"inserted", "finish", "err"}
        BY <3>1, <3>5 DEF Active
      <4>2. PICK c \in Kept : c.role # "user" /\ \A m \in Kept : m.id > c.id => m.role # "user"
        BY <2>1, <3>5, <4>1 DEF CloseInv
      <4>3. Kept \subseteq Row
        BY KeptTyped
      <4>4. ~ KeptTail
        <5> SUFFICES ASSUME NEW m \in Kept, m.role = "user", \A n \in Kept : n.id <= m.id
                     PROVE  FALSE
          BY DEF KeptTail
        <5>1. m.id \in Nat /\ c.id \in Nat /\ c.id <= m.id
          BY <4>3 DEF Row
        <5>2. m.id = c.id
          BY <4>2, <5>1
        <5> QED
          BY <4>2, <5>2 DEF NumbersInv, Kept
      <4> QED
        BY <1>12, <4>4, QuietWatchdog DEF TailInv, KeptTail
    <3> QED
      BY <3>3, <3>4, <3>5
  <2>2. CASE ~ Running
    BY <1>3, <1>12, <1>a, <2>2 DEF WatchdogChecks, Follow, Minded
  <2> QED
    BY <2>1, <2>2
<1>13. ASSUME NEW s \in Stopper, WatchdogReads(s)
       PROVE  TailInv'
  <2>1. CASE UserTail
    BY <1>3, <1>13, <1>a, <2>1 DEF WatchdogReads, Follow, Minded
  <2>2. CASE ~ UserTail /\ KeptTail /\ ~ strayed
    <3>1. \/ \E q \in Request : at[q] \in Active /\ ~ Cancelled(q)
          \/ \E t \in Stopper : dog[t].at = "waiting"
      BY <1>a, <2>2, NoUserTail
    <3>2. at' = at /\ cancelled' = cancelled /\ \A t \in Stopper : dog[t].at = "waiting" => dog'[t] = dog[t]
      BY <1>13, <1>a DEF WatchdogReads, Follow, registry
    <3>3. Minded'
      BY <3>1, <3>2 DEF Minded, Cancelled
    <3> QED
      BY <1>3, <3>3
  <2>3. CASE ~ KeptTail
    BY <1>13, <2>3, QuietWatchdog DEF TailInv, KeptTail
  <2>4. CASE strayed
    BY <1>3, <1>13, <2>4 DEF WatchdogReads, Follow, Minded
  <2> QED
    BY <2>1, <2>2, <2>3, <2>4
<1>14. ASSUME NEW s \in Stopper, WatchdogMarks(s)
       PROVE  TailInv'
  BY <1>2, <1>14, MarkingStep
<1>15. CASE Crash
  BY <1>3, <1>15 DEF Crash, Minded
<1>16. CASE Boot
  <2>1. CASE UserTail
    BY <1>2, <1>16, <2>1, MarkingStep
  <2>2. CASE ~ UserTail
    <3>1. rows' = rows /\ server = "down"
      BY <1>16, <2>2 DEF Boot, db
    <3>2. Kept' = Kept /\ Kept = rows
      BY <1>16, <3>1, QuietWatchdog, AllKept
    <3>3. ~ KeptTail'
      BY <2>2, <3>2 DEF KeptTail, UserTail
    <3> QED
      BY <3>3 DEF TailInv
  <2> QED
    BY <2>1, <2>2
<1>17. ASSUME NEW q \in Request, Handler(q)
       PROVE  TailInv'
  BY <1>4, <1>5, <1>17 DEF Handler
<1>18. ASSUME NEW q \in Request, Pipeline(q)
       PROVE  TailInv'
  BY <1>6, <1>7, <1>8, <1>9, <1>10, <1>18 DEF Pipeline
<1>19. ASSUME NEW q \in Request, Agent(q) \/ RecordLeaves(q)
       PROVE  TailInv'
  BY <1>8, <1>19 DEF Agent
<1>20. ASSUME NEW s \in Stopper, Stop(s) \/ Watchdog(s)
       PROVE  TailInv'
  BY <1>11, <1>12, <1>13, <1>14, <1>20 DEF Watchdog
<1> QED
  BY <1>15, <1>16, <1>17, <1>18, <1>19, <1>20 DEF Next

-----------------------------------------------------------------------------
(* The running run has closed its turn *)

Closing == {"inserted", "finish", "err"}
MustHaveClosed == ~ strayed /\ Running /\ at[holder] \in Closing

\* The closing row stays the last but for others that are not a user's.
LEMMA StillClosed ==
  ASSUME CloseInv,
         MustHaveClosed' => /\ MustHaveClosed /\ holder' = holder
                            /\ at'[holder] # "err" => at[holder] # "err",
         Kept \subseteq Kept', \A m \in Kept' \ Kept : m.role # "user"
  PROVE  CloseInv'
<1> SUFFICES ASSUME MustHaveClosed'
             PROVE  \E c \in Kept' :
                      /\ c.by = holder'
                      /\ c.role # "user"
                      /\ at'[holder'] # "err" => c.role = "assistant"
                      /\ \A m \in Kept' : m.id > c.id => m.role # "user"
  BY DEF CloseInv, MustHaveClosed, Closing
<1>1. MustHaveClosed /\ holder' = holder /\ (at'[holder] # "err" => at[holder] # "err")
  OBVIOUS
<1>2. PICK c \in Kept :
        /\ c.by = holder
        /\ c.role # "user"
        /\ at[holder] # "err" => c.role = "assistant"
        /\ \A m \in Kept : m.id > c.id => m.role # "user"
  BY <1>1 DEF CloseInv, MustHaveClosed, Closing
<1> QED
  BY <1>1, <1>2

LEMMA CloseStep ==
  ASSUME TurnsTypes, NumbersInv, LocalInv, OwnInv, RunInv, CloseInv, Next
  PROVE  CloseInv'
<1>a. /\ at \in [Request -> Where] /\ TurnsConstants
      /\ cancelled \in [Request -> Nat] /\ holder \in Request \cup {NoRun}
      /\ status \in [Request -> {"none", "running", "completed", "failed", "stopped", "lost"}]
  BY TurnsConstants DEF TurnsTypes
<1>b. Kept' \subseteq Row
  BY TypesStep DEF TurnsTypes, Kept
<1>1. ASSUME ~ MustHaveClosed'
      PROVE  CloseInv'
  BY <1>1 DEF CloseInv, MustHaveClosed, Closing
<1>2. ASSUME Kept' = Kept,
             MustHaveClosed' => /\ MustHaveClosed /\ holder' = holder
                                /\ at'[holder] # "err" => at[holder] # "err"
      PROVE  CloseInv'
  BY <1>2, StillClosed
<1>3. ASSUME NEW q \in Request,
             \/ SendPersists(q) \/ (SendStarts(q) /\ Running) \/ SendRollsBack(q)
             \/ RequestIsDropped(q) \/ ResendReads(q) \/ (ResendStarts(q) /\ Running)
      PROVE  CloseInv'
  <2>1. /\ holder' = holder /\ status' = status /\ strayed' = strayed
        /\ \A p \in Request : at'[p] # at[p] => at'[p] \notin Closing
    BY <1>3, <1>a DEF SendPersists, SendStarts, SendRollsBack, RequestIsDropped, ResendReads,
      ResendStarts,
      StartRun,
      Arrives, Go, Closing, registry
  <2>2. MustHaveClosed' => MustHaveClosed /\ at'[holder] = at[holder]
    BY <1>a, <2>1 DEF MustHaveClosed, Running
  <2> QED
    BY <1>2, <1>3, <2>1, <2>2, QuietStep
<1>4. ASSUME NEW q \in Request, SendStarts(q) \/ ResendStarts(q), ~ Running
      PROVE  CloseInv'
  <2>1. holder' = q /\ at'[q] \notin Closing
    BY <1>4, <1>a DEF SendStarts, ResendStarts, StartRun, Go, Closing
  <2> QED
    BY <1>1, <2>1 DEF MustHaveClosed
<1>5. ASSUME NEW q \in Request,
             \/ EditReplaces(q) \/ EditTruncates(q) \/ RegenerateTruncates(q) \/ NudgePersists(q)
             \/ EditRestores(q)
      PROVE  CloseInv'
  <2>1. strayed' \/ (holder' = q /\ at'[q] \notin Closing)
    BY <1>5, <1>a DEF EditReplaces, EditTruncates, RegenerateTruncates, NudgePersists,
      EditRestores,
      Strays, Go, Closing, registry
  <2> QED
    BY <1>1, <2>1 DEF MustHaveClosed
<1>6. ASSUME NEW q \in Request,
             \/ RateLimited(q) \/ ProviderReturns(q) \/ ReplyChecks(q)
             \/ (ReplyInserts(q) /\ Cancelled(q)) \/ ReplyRechecks(q) \/ ReplyUndone(q) \/ Finishes(q)
             \/ WrapperSettles(q) \/ RecordLeaves(q)
      PROVE  CloseInv'
  <2>1. strayed' = strayed /\ (holder' = holder \/ holder' = NoRun)
        /\ \A p \in Request : status'[p] = "running" => status[p] = "running"
    BY <1>6, <1>a DEF RateLimited, ProviderReturns, ReplyChecks, ReplyInserts, ReplyRechecks,
      ReplyUndone, Finishes, WrapperSettles, RecordLeaves, registry
  <2>2. \A p \in Request :
          \/ at'[p] = at[p] \/ at'[p] \notin Closing \/ Cancelled(p)
          \/ at[p] = "inserted" /\ at'[p] = "finish"
    BY <1>6, <1>a DEF RateLimited, ProviderReturns, ReplyChecks, ReplyInserts, ReplyRechecks,
      ReplyUndone, Finishes, WrapperSettles, RecordLeaves, Go, Closing
  <2>3. MustHaveClosed' => /\ MustHaveClosed /\ holder' = holder
                           /\ at'[holder] # "err" => at[holder] # "err"
    BY <1>a, <2>1, <2>2 DEF MustHaveClosed, Running, RunInv, Closing
  <2> QED
    BY <1>2, <1>6, <2>3, QuietStep
<1>7. ASSUME NEW q \in Request,
             \/ SavesPartial(q) \/ Marks(q) \/ SavesOutputOfFailure(q) \/ SavesError(q)
             \/ (ReplyInserts(q) /\ ~ Cancelled(q))
      PROVE  CloseInv'
  <2>1. PICK row : Closes(row) /\ row.by = q /\ (ReplyInserts(q) => row.role = "assistant")
    BY <1>7, ClosingStep
  <2>2. /\ holder' = holder /\ status' = status /\ strayed' = strayed
        /\ \A p \in Request : p # q => at'[p] = at[p]
        /\ at'[q] \in {"err", "error"} \/ ReplyInserts(q)
    BY <1>7, <1>a DEF SavesPartial, Marks, SavesOutputOfFailure, SavesError, ReplyInserts, Go,
      registry
  <2>3. CASE q = holder
    <3>1. row \in Kept' /\ \A m \in Kept' : m = row \/ m.id < row.id
      BY <2>1 DEF Closes
    <3>2. \A m \in Kept' : m.id > row.id => FALSE
      BY <1>b, <3>1 DEF Row
    <3>3. CASE ReplyInserts(q)
      BY <2>1, <2>2, <2>3, <3>1, <3>2, <3>3 DEF CloseInv, Closes
    <3>4. CASE at'[q] = "err"
      BY <2>1, <2>2, <2>3, <3>1, <3>2, <3>4 DEF CloseInv, Closes
    <3>5. CASE at'[q] = "error"
      BY <1>1, <2>2, <2>3, <3>5 DEF MustHaveClosed, Closing
    <3> QED
      BY <2>2, <3>3, <3>4, <3>5
  <2>4. CASE q # holder
    <3>1. MustHaveClosed' => MustHaveClosed /\ at'[holder] = at[holder]
      BY <1>a, <2>2, <2>4 DEF MustHaveClosed, Running
    <3> QED
      BY <2>1, <2>2, <3>1, StillClosed DEF Closes
  <2> QED
    BY <2>3, <2>4
<1>8. ASSUME NEW q \in Request, Aborted(q)
      PROVE  CloseInv'
  <2>1. /\ holder' = holder /\ status' = status /\ strayed' = strayed /\ Cancelled(q)
        /\ \A p \in Request : p # q => at'[p] = at[p]
    BY <1>8, <1>a DEF Aborted, Go, registry
  <2>2. MustHaveClosed' => MustHaveClosed /\ at'[holder] = at[holder]
    BY <1>a, <2>1 DEF MustHaveClosed, Running, RunInv
  <2> QED
    BY <1>8, <2>1, <2>2, AbortStep, StillClosed
<1>9. ASSUME NEW s \in Stopper, Stop(s)
      PROVE  CloseInv'
  <2>1. ~ Running'
    BY <1>9, <1>a DEF Stop, Running
  <2> QED
    BY <1>1, <2>1 DEF MustHaveClosed
<1>10. ASSUME NEW s \in Stopper,
              WatchdogWaits(s) \/ WatchdogExpires(s) \/ WatchdogChecks(s) \/ WatchdogReads(s)
       PROVE  CloseInv'
  <2>1. MustHaveClosed' => MustHaveClosed /\ holder' = holder /\ at' = at
    BY <1>10 DEF WatchdogWaits, WatchdogExpires, WatchdogChecks, WatchdogReads, Follow,
      registry,
      MustHaveClosed, Running
  <2> QED
    BY <1>2, <1>10, <2>1, QuietWatchdog
<1>11. ASSUME NEW s \in Stopper, WatchdogMarks(s)
       PROVE  CloseInv'
  <2>1. PICK row : Closes(row)
    BY <1>11, MarkingStep
  <2>2. MustHaveClosed' => MustHaveClosed /\ holder' = holder /\ at' = at
    BY <1>11 DEF WatchdogMarks, Follow, registry, MustHaveClosed, Running
  <2> QED
    BY <2>1, <2>2, StillClosed DEF Closes
<1>12. CASE Crash
  BY <1>1, <1>12 DEF Crash, MustHaveClosed, Running
<1>13. CASE Boot
  <2>1. Running => at[holder] \notin Closing
    BY <1>13, <1>a DEF Boot, RunInv, Running, Closing
  <2>2. holder' = holder /\ status' = status /\ at' = at
    BY <1>13 DEF Boot, registry
  <2> QED
    BY <1>1, <2>1, <2>2 DEF MustHaveClosed, Running
<1>14. ASSUME NEW q \in Request, Handler(q)
       PROVE  CloseInv'
  BY <1>3, <1>4, <1>14 DEF Handler
<1>15. ASSUME NEW q \in Request, Pipeline(q)
       PROVE  CloseInv'
  BY <1>5, <1>6, <1>7, <1>8, <1>15 DEF Pipeline
<1>16. ASSUME NEW q \in Request, Agent(q) \/ RecordLeaves(q)
       PROVE  CloseInv'
  BY <1>6, <1>16 DEF Agent
<1>17. ASSUME NEW s \in Stopper, Stop(s) \/ Watchdog(s)
       PROVE  CloseInv'
  BY <1>9, <1>10, <1>11, <1>17 DEF Watchdog
<1> QED
  BY <1>12, <1>13, <1>14, <1>15, <1>16, <1>17 DEF Next

-----------------------------------------------------------------------------
(* While a displaced run drains *)

Draining == \E q \in Request : Cancelled(q) /\ at[q] \in InTask /\ holder # q
HolderGoesOn ==
  holder # NoRun /\ (at[holder] \in Active \/ (at[holder] = "inserted" /\ Cancelled(holder)))

LEMMA DrainStep ==
  ASSUME TurnsTypes, NumbersInv, LocalInv, OwnInv, RunInv, PlaceInv, DrainInv, Next
  PROVE  DrainInv'
<1>a. /\ at \in [Request -> Where] /\ TurnsConstants
      /\ cancelled \in [Request -> Nat] /\ holder \in Request \cup {NoRun}
  BY TurnsConstants DEF TurnsTypes
<1>b. Kept' \subseteq Row
  BY TypesStep DEF TurnsTypes, Kept
<1>1. ASSUME strayed' \/ ~ Draining' \/ ~ KeptTail' \/ HolderGoesOn'
      PROVE  DrainInv'
  BY <1>1 DEF DrainInv, Draining, HolderGoesOn
<1>2. ASSUME KeptTail' => KeptTail, strayed' \/ ~ strayed, Draining' => Draining,
             HolderGoesOn => HolderGoesOn'
      PROVE  DrainInv'
  BY <1>2 DEF DrainInv, Draining, HolderGoesOn
<1>3. ASSUME NEW q \in Request,
             \/ SendPersists(q) \/ (SendStarts(q) /\ Running) \/ SendRollsBack(q)
             \/ RequestIsDropped(q) \/ ResendReads(q) \/ (ResendStarts(q) /\ Running)
      PROVE  DrainInv'
  <2>1. /\ holder' = holder /\ cancelled' = cancelled /\ strayed' = strayed
        /\ \A p \in Request : at'[p] # at[p] => at[p] \notin InTask /\ at'[p] \notin InTask
    BY <1>3, <1>a DEF SendPersists, SendStarts, SendRollsBack, RequestIsDropped, ResendReads,
      ResendStarts,
      StartRun,
      Arrives, Go, InTask, registry
  <2>2. Draining' => Draining
    BY <2>1 DEF Draining, Cancelled
  <2>3. HolderGoesOn => HolderGoesOn'
    BY <1>a, <2>1 DEF HolderGoesOn, Cancelled, Active, InTask
  <2>4. KeptTail' => KeptTail
    BY <1>3, QuietStep DEF KeptTail
  <2> QED
    BY <1>2, <2>1, <2>2, <2>3, <2>4
<1>4. ASSUME NEW q \in Request, SendStarts(q) \/ ResendStarts(q), ~ Running
      PROVE  DrainInv'
  <2>1. holder' = q /\ at'[q] \in Active
    BY <1>4, <1>a DEF SendStarts, ResendStarts, StartRun, Go, Active, InTask
  <2> QED
    BY <1>1, <1>a, <2>1 DEF HolderGoesOn, TurnsConstants
<1>5. ASSUME NEW q \in Request,
             \/ EditReplaces(q) \/ EditTruncates(q) \/ RegenerateTruncates(q) \/ NudgePersists(q)
             \/ EditRestores(q)
      PROVE  DrainInv'
  <2>1. strayed' \/ (holder' = q /\ at'[q] \in Active)
    BY <1>5, <1>a DEF EditReplaces, EditTruncates, RegenerateTruncates, NudgePersists,
      EditRestores,
      Strays, Go, Active, InTask, registry
  <2> QED
    BY <1>1, <1>a, <2>1 DEF HolderGoesOn, TurnsConstants
<1>6. ASSUME NEW q \in Request,
             \/ RateLimited(q) \/ ProviderReturns(q) \/ ReplyChecks(q)
             \/ (ReplyInserts(q) /\ Cancelled(q)) \/ ReplyRechecks(q) \/ ReplyUndone(q) \/ Finishes(q)
             \/ WrapperSettles(q)
      PROVE  DrainInv'
  <2>1. holder' = holder /\ cancelled' = cancelled /\ strayed' = strayed
    BY <1>6 DEF RateLimited, ProviderReturns, ReplyChecks, ReplyInserts, ReplyRechecks,
      ReplyUndone, Finishes, WrapperSettles, registry
  <2>2. \A p \in Request :
          /\ at'[p] \in InTask => at[p] \in InTask
          /\ at[p] \in Active \/ (at[p] = "inserted" /\ Cancelled(p)) =>
               at'[p] \in Active \/ (at'[p] = "inserted" /\ Cancelled(p))
    BY <1>6, <1>a DEF RateLimited, ProviderReturns, ReplyChecks, ReplyInserts, ReplyRechecks,
      ReplyUndone, Finishes, WrapperSettles, Go, Active, InTask
  <2>3. Draining' => Draining
    BY <2>1, <2>2 DEF Draining, Cancelled
  <2>4. HolderGoesOn => HolderGoesOn'
    BY <1>a, <2>1, <2>2 DEF HolderGoesOn, Cancelled
  <2>5. KeptTail' => KeptTail
    BY <1>6, QuietStep DEF KeptTail
  <2> QED
    BY <1>2, <2>1, <2>3, <2>4, <2>5
<1>7. ASSUME NEW q \in Request, RecordLeaves(q)
      PROVE  DrainInv'
  <2>1. holder = q /\ at[q] \notin InTask /\ at' = at /\ cancelled' = cancelled /\ strayed' = strayed
    BY <1>7 DEF RecordLeaves, InTask
  <2>2. Draining' => Draining
    BY <2>1 DEF Draining, Cancelled
  <2>3. ~ HolderGoesOn
    BY <2>1 DEF HolderGoesOn, Active, InTask
  <2>4. KeptTail' => KeptTail
    BY <1>7, QuietStep DEF KeptTail
  <2> QED
    BY <1>2, <2>1, <2>2, <2>3, <2>4
<1>8. ASSUME NEW q \in Request,
             \/ SavesPartial(q) \/ Marks(q) \/ SavesOutputOfFailure(q) \/ SavesError(q)
             \/ (ReplyInserts(q) /\ ~ Cancelled(q))
      PROVE  DrainInv'
  BY <1>1, <1>8, <1>b, ClosingStep, ClosedTail
<1>9. ASSUME NEW q \in Request, Aborted(q)
      PROVE  DrainInv'
  <2>1. /\ holder' = holder /\ strayed' = strayed /\ cancelled' = cancelled /\ Cancelled(q)
        /\ at'[q] = "gone" /\ \A p \in Request : p # q => at'[p] = at[p]
    BY <1>9, <1>a DEF Aborted, Go, registry
  <2>2. KeptTail' => KeptTail
    BY <1>9, AbortStep DEF KeptTail
  <2>3. CASE q # holder
    <3>1. Draining' => Draining
      BY <2>1 DEF Draining, Cancelled, InTask
    <3>2. HolderGoesOn => HolderGoesOn'
      BY <1>a, <2>1, <2>3 DEF HolderGoesOn, Cancelled
    <3> QED
      BY <1>2, <2>1, <2>2, <3>1, <3>2
  <2>4. CASE q = holder
    <3>1. ASSUME NEW p \in Request, Cancelled(p)', at'[p] \in InTask, p # q
          PROVE  FALSE
      <4>1. Cancelled(p) /\ at[p] \in InTask
        BY <2>1, <3>1 DEF Cancelled
      <4>2. cancelled[p] < cancelled[q]
        BY <1>a, <2>1, <2>4, <3>1 DEF PlaceInv, TurnsConstants
      <4>3. TaskFinished(p)
        BY <1>9, <4>1, <4>2 DEF Aborted
      <4> QED
        BY <4>1, <4>3 DEF TaskFinished, InTask, Over
    <3>2. ~ Draining'
      BY <2>1, <2>4, <3>1 DEF Draining
    <3> QED
      BY <1>1, <3>2
  <2> QED
    BY <2>3, <2>4
<1>10. ASSUME NEW s \in Stopper, Stop(s)
       PROVE  DrainInv'
  <2>1. holder' = holder /\ at' = at /\ strayed' = strayed
    BY <1>10 DEF Stop
  <2>2. PICK k \in Nat : k > 0 /\ cancelled' = IF Running THEN [cancelled EXCEPT ![holder] = k]
                                                         ELSE cancelled
    BY <1>10, StopPlace
  <2>3. Draining' => Draining
    BY <1>a, <2>1, <2>2 DEF Draining, Cancelled
  <2>4. Running => holder \in Request
    BY <1>a DEF Running
  <2>5. HolderGoesOn => HolderGoesOn'
    BY <1>a, <2>1, <2>2, <2>4 DEF HolderGoesOn, Cancelled
  <2>6. CASE at[holder] = "inserted" /\ Running
    <3>1. Cancelled(holder)'
      BY <1>a, <2>1, <2>2, <2>4, <2>6 DEF Cancelled
    <3> QED
      BY <1>1, <2>1, <2>6, <3>1 DEF HolderGoesOn, Running
  <2>7. CASE ~ (at[holder] = "inserted" /\ Running)
    <3>1. Kept' = Kept
      BY <1>10, <2>7, StopStep, QuietWatchdog
    <3> QED
      BY <1>2, <2>1, <2>3, <2>5, <3>1 DEF KeptTail
  <2> QED
    BY <2>6, <2>7
<1>11. ASSUME NEW s \in Stopper,
              WatchdogWaits(s) \/ WatchdogExpires(s) \/ WatchdogChecks(s) \/ WatchdogReads(s)
       PROVE  DrainInv'
  <2>1. holder' = holder /\ at' = at /\ cancelled' = cancelled /\ strayed' = strayed
    BY <1>11 DEF WatchdogWaits, WatchdogExpires, WatchdogChecks, WatchdogReads, Follow, registry
  <2>2. KeptTail' => KeptTail
    BY <1>11, QuietWatchdog DEF KeptTail
  <2> QED
    BY <1>2, <2>1, <2>2 DEF Draining, HolderGoesOn, Cancelled
<1>12. ASSUME NEW s \in Stopper, WatchdogMarks(s)
       PROVE  DrainInv'
  BY <1>1, <1>12, <1>b, MarkingStep, ClosedTail
<1>13. CASE Crash
  <2>1. \A q \in Request : at'[q] \in {"idle", "gone"}
    BY <1>13 DEF Crash
  <2> QED
    BY <1>1, <2>1 DEF Draining, InTask
<1>14. CASE Boot
  <2>1. \A q \in Request : at'[q] \in {"idle", "gone"}
    BY <1>14 DEF Boot, RunInv
  <2> QED
    BY <1>1, <2>1 DEF Draining, InTask
<1>15. ASSUME NEW q \in Request, Handler(q)
       PROVE  DrainInv'
  BY <1>3, <1>4, <1>15 DEF Handler
<1>16. ASSUME NEW q \in Request, Pipeline(q)
       PROVE  DrainInv'
  BY <1>5, <1>6, <1>8, <1>9, <1>16 DEF Pipeline
<1>17. ASSUME NEW q \in Request, Agent(q) \/ RecordLeaves(q)
       PROVE  DrainInv'
  BY <1>6, <1>7, <1>17 DEF Agent
<1>18. ASSUME NEW s \in Stopper, Stop(s) \/ Watchdog(s)
       PROVE  DrainInv'
  BY <1>10, <1>11, <1>12, <1>18 DEF Watchdog
<1> QED
  BY <1>13, <1>14, <1>15, <1>16, <1>17, <1>18 DEF Next

-----------------------------------------------------------------------------
(* The theorems *)

LEMMA TurnsInvInit ==
  ASSUME Init
  PROVE  TurnsInv
<1>1. {q \in Request : Cancelled(q)} = {}
  BY DEF Init, Cancelled
<1>2. IsFiniteSet({q \in Request : Cancelled(q)}) /\ Cardinality({q \in Request : Cancelled(q)}) = 0
  BY <1>1, FS_EmptySet
<1>3. TurnsTypes
  BY <1>2 DEF TurnsTypes, Init, NoLocals, Dog, Where, Row
<1>4. NumbersInv /\ OwnInv /\ LocalInv /\ EndingInv
  BY DEF Init, NumbersInv, TurnsAreOrdered, OwnInv, LocalInv, EndingInv, StoppedRunHasOneEnding,
    NoLocals
<1>5. RunInv /\ HolderIsWatched
  BY TurnsConstants DEF Init, RunInv, HolderIsWatched, Cancelled, TurnsConstants, InTask, Over
<1>6. PlaceInv
  BY <1>2 DEF Init, PlaceInv
<1>7. TailInv /\ CloseInv /\ DrainInv
  BY DEF Init, TailInv, CloseInv, DrainInv, KeptTail, Kept, Running
<1> QED
  BY <1>3, <1>4, <1>5, <1>6, <1>7 DEF TurnsInv

LEMMA TurnsInvStep ==
  ASSUME TurnsInv, [Next]_vars
  PROVE  TurnsInv'
<1>1. CASE Next
  <2>1. TurnsTypes' /\ NumbersInv' /\ LocalInv' /\ OwnInv' /\ EndingInv' /\ RunInv'
    BY <1>1, TypesStep, NumbersStep, LocalStep, OwnStep, EndingStep, RunStep DEF TurnsInv
  <2>2. HolderIsWatched' /\ PlaceInv'
    BY <1>1, WatchStep, PlaceStep DEF TurnsInv
  <2>3. TailInv' /\ CloseInv' /\ DrainInv'
    BY <1>1, TailStep, CloseStep, DrainStep DEF TurnsInv
  <2> QED
    BY <2>1, <2>2, <2>3 DEF TurnsInv
<1>2. CASE UNCHANGED vars
  <2>1. UNCHANGED <<rows, lastId, at, local, status, cancelled, holder, dog, server, strayed>>
    BY <1>2 DEF vars, db, registry, host
  <2>2. (TurnsTypes <=> TurnsTypes') /\ (NumbersInv <=> NumbersInv') /\ (OwnInv <=> OwnInv')
        /\ (LocalInv <=> LocalInv') /\ (EndingInv <=> EndingInv')
    BY <2>1 DEF TurnsTypes, NumbersInv, OwnInv, LocalInv, EndingInv, StoppedRunHasOneEnding,
      Cancelled,
      TurnsAreOrdered
  <2>3. (RunInv <=> RunInv') /\ (HolderIsWatched <=> HolderIsWatched') /\ (PlaceInv <=> PlaceInv')
    BY <2>1 DEF RunInv, HolderIsWatched, PlaceInv, Cancelled
  <2>4. Kept' = Kept
    BY <2>1 DEF Kept, Shaky, Cancelled
  <2>5. (TailInv <=> TailInv') /\ (CloseInv <=> CloseInv') /\ (DrainInv <=> DrainInv')
    BY <2>1, <2>4 DEF TailInv, Minded, KeptTail, CloseInv, DrainInv, Running, Cancelled
  <2> QED
    BY <2>2, <2>3, <2>5 DEF TurnsInv
<1> QED
  BY <1>1, <1>2

\* TurnsInv holds of every reachable state.
LEMMA TurnsInvariance == Spec => []TurnsInv
  BY TurnsInvInit, TurnsInvStep, PTL DEF Spec

\* The turns of a thread are in the order of its messages, each with one user
\* message at most, whatever edits, regenerations and rollbacks have deleted
\* (add_message of db/messages.rs).
THEOREM TurnsStayOrdered == Spec => []TurnsAreOrdered
<1>1. TurnsInv => TurnsAreOrdered
  BY DEF TurnsInv, NumbersInv
<1> QED
  BY <1>1, TurnsInvariance, PTL

\* A stopped run does not end twice, with its reply and with the marker
\* (persist_assistant_reply of persistence.rs).
THEOREM StoppedRunEndsOnce == Spec => []StoppedRunHasOneEnding
<1>1. TurnsInv => StoppedRunHasOneEnding
  BY DEF TurnsInv, EndingInv
<1> QED
  BY <1>1, TurnsInvariance, PTL

\* With any number of requests, dropped ones among them, of stops and crashes, a
\* user message at the tail has somebody who will close its turn or take the
\* message back: a handler, a run, or the watchdog of a stop (send.rs, runs.rs,
\* rate_limit.rs). The exceptions: the very message of a send that was dropped
\* since the last boot, and what follows once a displaced run has written.
THEOREM UserTailStaysAttended == Spec => []UserTailIsAttended
<1>1. ASSUME TurnsInv
      PROVE  UserTailIsAttended
  <2> SUFFICES ASSUME UserTail, server = "up", ~ strayed
               PROVE  \/ LeftTail
                      \/ \E q \in Request : Attends(q)
                      \/ \E s \in Stopper : dog[s].at \notin {"idle", "done"}
    BY <1>1 DEF UserTailIsAttended, TurnsInv, TurnsTypes
  <2>1. PICK m \in rows : m.role = "user" /\ \A n \in rows : n.id <= m.id
    BY DEF UserTail
  <2>2. CASE m \in Kept
    <3>1. KeptTail
      BY <2>1, <2>2 DEF KeptTail, Kept
    <3>2. Minded
      BY <1>1, <3>1 DEF TurnsInv, TailInv
    <3>3. server # "down"
      OBVIOUS
    <3> QED
      BY <3>2 DEF Minded, Active, Attends
  <2>3. CASE m \notin Kept
    <3>1. PICK q \in Request : Shaky(m, q)
      BY <2>1, <2>3 DEF Kept
    <3>2. at[q] \in {"persisted", "rollback"} \/ (m.by = q /\ at[q] = "dropped")
      BY <2>1, <3>1 DEF Shaky
    <3> QED
      BY <2>1, <3>2 DEF Attends, LeftTail, LeftBehind
  <2> QED
    BY <2>2, <2>3
<1> QED
  BY <1>1, TurnsInvariance, PTL

\* A run becomes Completed only with its reply in the table, unless a displaced
\* run has written before (finish_run of runs.rs).
THEOREM CompletedAlwaysHasReply == Spec => CompletedHasReply
<1>1. ASSUME TurnsInv, [Next]_vars
      PROVE  [\A q \in Request :
                status'[q] = "completed" /\ status[q] # "completed" /\ ~ strayed =>
                  \E m \in rows' : m.by = q /\ m.role = "assistant"]_vars
  <2> SUFFICES ASSUME Next, NEW q \in Request,
                      status'[q] = "completed", status[q] # "completed", ~ strayed
               PROVE  \E m \in rows' : m.by = q /\ m.role = "assistant"
    BY <1>1
  <2>1. TurnsTypes /\ RunInv /\ CloseInv
    BY <1>1 DEF TurnsInv
  <2>2. status \in [Request -> {"none", "running", "completed", "failed", "stopped", "lost"}]
    BY <2>1 DEF TurnsTypes
  <2>3. Finishes(q) /\ ~ Cancelled(q)
    <3>1. ASSUME NEW p \in Request, Handler(p)
          PROVE  status'[q] = status[q] \/ status'[q] = "running"
      BY <2>2, <3>1 DEF Handler, SendPersists, SendStarts, SendRollsBack, RequestIsDropped,
        ResendReads,
        ResendStarts,
        StartRun, registry
    <3>2. ASSUME NEW p \in Request, Pipeline(p), ~ Finishes(p)
          PROVE  status'[q] = status[q] \/ status'[q] = "failed"
      BY <2>2, <3>2 DEF Pipeline, EditReplaces, EditTruncates, EditRestores,
        RegenerateTruncates,
        NudgePersists, SavesPartial, Marks, SavesOutputOfFailure, SavesError, ReplyChecks,
        ReplyInserts, ReplyRechecks, ReplyUndone, WrapperSettles, Aborted, registry
    <3>3. ASSUME NEW p \in Request, Finishes(p)
          PROVE  status'[q] = status[q] \/ (p = q /\ ~ Cancelled(q))
      BY <2>2, <3>3 DEF Finishes
    <3>4. ASSUME NEW p \in Request, Agent(p) \/ RecordLeaves(p)
          PROVE  status'[q] = status[q]
      BY <3>4 DEF Agent, RateLimited, ProviderReturns, RecordLeaves, registry
    <3>5. ASSUME NEW s \in Stopper, Stop(s) \/ Watchdog(s)
          PROVE  status'[q] = status[q] \/ status'[q] = "stopped"
      BY <2>2, <3>5 DEF Stop, Watchdog, WatchdogWaits, WatchdogExpires, WatchdogChecks,
        WatchdogReads,
        WatchdogMarks, Follow, registry
    <3>6. ASSUME Crash \/ Boot
          PROVE  status'[q] \in {status[q], "none", "lost"}
      BY <3>6 DEF Crash, Boot, registry
    <3> QED
      BY <3>1, <3>2, <3>3, <3>4, <3>5, <3>6 DEF Next
  <2>4. holder = q /\ status[q] = "running" /\ at[q] = "finish"
    BY <2>1, <2>3 DEF RunInv, Finishes, Go, InTask
  <2>5. Running
    BY <2>4, TurnsConstants DEF Running, TurnsConstants
  <2>6. \E c \in Kept : c.by = q /\ c.role = "assistant"
    BY <2>1, <2>4, <2>5 DEF CloseInv
  <2> QED
    BY <2>3, <2>6 DEF Finishes, Kept, db
<1> QED
  BY <1>1, TurnsInvariance, PTL DEF Spec, CompletedHasReply

=============================================================================
