----------------------------- MODULE ThreadTurns -----------------------------
(***************************************************************************)
(* The messages of one thread: the rows and turn numbers of db/messages.rs *)
(* and everybody who writes them: the send handler (send.rs), the resend   *)
(* handler and its run (resend.rs), the pipeline of a run (run_thread of   *)
(* runs.rs, persistence.rs, the nudge of rate_limit.rs), the watchdog that *)
(* the stop handler leaves behind, and the reconciliation at boot.         *)
(*                                                                         *)
(* A step is one statement against the database or one look at shared      *)
(* state. The registry is coarser than in ThreadRunner: a stop cancels and *)
(* publishes in one step, and a record leaves the map at any time after    *)
(* its task has ended.                                                     *)
(***************************************************************************)
EXTENDS Naturals, FiniteSets, FiniteSetsExt

CONSTANTS
  Request,    \* send and resend requests, numbered in the order in which they
              \* come; each starts at most one run
  Stopper,    \* stop requests, each with its watchdog
  Kind,       \* which requests clients make: send, edit, regenerate
  NoRun,      \* the thread has no record in the map
  MaxCrashes  \* bound on crashes

ASSUME TurnsConstants ==
  /\ Request \subseteq Nat
  /\ NoRun \notin Request
  /\ Request \cap Stopper = {}
  /\ Kind \subseteq {"send", "edit", "regenerate"}
  /\ MaxCrashes \in Nat

VARIABLES
  rows,       \* the messages of the thread
  lastId,     \* the last id given out (AUTOINCREMENT: never reused)
  at,         \* where a request, later its run, is
  local,      \* the variables of its futures (see Locals)
  status,     \* RunState.status
  cancelled,  \* RunState.cancelled: 0 if clear, else its place among the stops
  holder,     \* the run in the map of the registry
  dog,        \* the watchdog of a stop request: where it is, the run that was
              \* stopped, and the runs its wait_finished has seen
  server,     \* "up", or "down" after a crash
  crashes,    \* number of crashes so far
  strayed     \* history: a displaced run has prompted or cut (see Strays)

db == <<rows, lastId>>
registry == <<status, cancelled, holder>>
host == <<server, crashes>>
vars == <<db, at, local, registry, dog, host, strayed>>

Role == {"user", "assistant", "system", "error"}

\* Where the future of a run is, in the order of the code: the two statements
\* a resend begins with, the provider call, and the ways to a closing row.
InTask == {"replace", "truncate", "cut", "provider", "nudge", "partial", "mark",
           "errpart", "error", "reply", "insert", "inserted", "undo", "finish"}
Over == {"ok", "err", "tail", "gone"}

\* The message a resend is anchored on, the user message of a request, the
\* reply its run has inserted, and whether the run has nudged the agent.
Locals == [anchor : 0 .. lastId, prompt : 0 .. lastId, reply : 0 .. lastId,
           nudged : BOOLEAN]
NoLocals == [anchor |-> 0, prompt |-> 0, reply |-> 0, nudged |-> FALSE]

Dog(where, run, runs) == [at |-> where, target |-> run, seen |-> runs]

TypeOK ==
  /\ rows \subseteq [id : Nat, role : Role, turn : Nat, by : Request \cup Stopper \cup {NoRun}]
  /\ lastId \in Nat
  /\ \A m \in rows : m.id <= lastId
  /\ at \in [Request -> {"idle", "persisted", "rollback", "edit", "regenerate",
                         "refused", "dropped"} \cup InTask \cup Over]
  /\ local \in [Request -> Locals]
  /\ status \in [Request -> {"none", "running", "completed", "failed", "stopped", "lost"}]
  /\ cancelled \in [Request -> 0 .. Cardinality(Request)]
  /\ holder \in Request \cup {NoRun}
  /\ dog \in [Stopper -> [at : {"idle", "waiting", "checks", "reads", "mark", "done"},
                          target : Request \cup {NoRun},
                          seen : SUBSET Request]]
  /\ server \in {"up", "down"}
  /\ crashes \in 0 .. MaxCrashes
  /\ strayed \in BOOLEAN

Init ==
  /\ rows = {}
  /\ lastId = 0
  /\ at = [q \in Request |-> "idle"]
  /\ local = [q \in Request |-> NoLocals]
  /\ status = [q \in Request |-> "none"]
  /\ cancelled = [q \in Request |-> 0]
  /\ holder = NoRun
  /\ dog = [s \in Stopper |-> Dog("idle", NoRun, {})]
  /\ server = "up"
  /\ crashes = 0
  /\ strayed = FALSE

-----------------------------------------------------------------------------
(* The table *)

MaxTurn == Max({0} \cup {m.turn : m \in rows})

\* Mutant of TurnOf: a user message gets the number of user messages plus one.
TurnByCount(role) ==
  IF role = "user" THEN Cardinality({m \in rows : m.role = "user"}) + 1
                   ELSE MaxTurn

\* A user message opens the next turn, anything else joins the last one.
TurnOf(role) == IF role = "user" THEN MaxTurn + 1 ELSE MaxTurn

\* add_message
Add(role, writer) ==
  /\ rows' = rows \cup {[id |-> lastId + 1, role |-> role, turn |-> TurnOf(role),
                         by |-> writer]}
  /\ lastId' = lastId + 1

\* delete_message, delete_messages_from_except and delete_messages_after.
Delete(ids) ==
  /\ rows' = {m \in rows : m.id \notin ids}
  /\ UNCHANGED lastId

\* last_message_role = 'user': the reading "this thread is working".
UserTail == \E m \in rows : m.role = "user" /\ \A n \in rows : n.id <= m.id

-----------------------------------------------------------------------------
(* Helpers *)

Running == holder # NoRun /\ status[holder] = "running"
TaskFinished(q) == at[q] \in Over
Cancelled(q) == cancelled[q] > 0

Go(q, from, to) ==
  /\ server = "up"
  /\ at[q] = from
  /\ at' = [at EXCEPT ![q] = to]

\* The next request is handled.
Arrives(q, to) ==
  /\ \A p \in Request : p < q => at[p] # "idle"
  /\ Go(q, "idle", to)

\* The future has ended and its variables with it.
Drops(q) == local' = [local EXCEPT ![q] = NoLocals]

\* ThreadRunner.start; the rows are not its business.
StartRun(q, from, work, refused) ==
  IF Running
  THEN /\ Go(q, from, refused)
       /\ UNCHANGED registry
  ELSE /\ Go(q, from, work)
       /\ holder' = q
       /\ status' = [status EXCEPT ![q] = "running"]
       /\ UNCHANGED cancelled

\* A run does not look at its flag before it stores a message for the agent
\* or deletes rows, so a stopped run may do it when a newer run has displaced
\* it. What it can spoil then, and what a failed cut does, is kept apart.
Strays(q) == strayed' = (strayed \/ holder # q)

-----------------------------------------------------------------------------
(* The send handler *)

\* The user message is written before the run is asked for.
SendPersists(q) ==
  /\ "send" \in Kind
  /\ Arrives(q, "persisted")
  /\ Add("user", q)
  /\ local' = [local EXCEPT ![q].prompt = lastId']
  /\ UNCHANGED <<registry, dog, host, strayed>>

SendStarts(q) ==
  /\ StartRun(q, "persisted", "provider", "rollback")
  /\ UNCHANGED <<db, local, dog, host, strayed>>

\* AlreadyRunning: the message is taken back.
SendRollsBack(q) ==
  /\ Go(q, "rollback", "refused")
  /\ Delete({local[q].prompt})
  /\ Drops(q)
  /\ UNCHANGED <<registry, dog, host, strayed>>

\* The client goes away and axum drops its handler: after the message was
\* stored and before the run was asked for, or before the message was taken
\* back. The message stays and nobody knows of it. A resend has stored nothing
\* by then.
RequestIsDropped(q) ==
  /\ \/ Go(q, "persisted", "dropped") \/ Go(q, "rollback", "dropped")
     \/ Go(q, "edit", "refused") \/ Go(q, "regenerate", "refused")
  /\ Drops(q)
  /\ UNCHANGED <<db, registry, dog, host, strayed>>

-----------------------------------------------------------------------------
(* The resend handler, and what its run does before run_thread *)

\* The handler reads the user message the replay is anchored on: the one
\* that was asked for, or the one of the turn of the row that was.
ResendReads(q) ==
  \E kind \in Kind \cap {"edit", "regenerate"}, m \in rows :
    /\ m.role = "user"
    /\ Arrives(q, kind)
    /\ local' = [local EXCEPT ![q].anchor = m.id]
    /\ UNCHANGED <<db, registry, dog, host, strayed>>

ResendStarts(q) ==
  /\ \/ StartRun(q, "edit", "replace", "refused")
     \/ StartRun(q, "regenerate", "cut", "refused")
  /\ UNCHANGED <<db, local, dog, host, strayed>>

\* The replacement goes in first.
EditReplaces(q) ==
  /\ Go(q, "replace", "truncate")
  /\ Add("user", q)
  /\ local' = [local EXCEPT ![q].prompt = lastId']
  /\ Strays(q)
  /\ UNCHANGED <<registry, dog, host>>

\* Then the old message and all after it go, except the replacement.
EditTruncates(q) ==
  /\ Go(q, "truncate", "provider")
  /\ Delete((local[q].anchor .. lastId) \ {local[q].prompt})
  /\ Strays(q)
  /\ UNCHANGED <<local, registry, dog, host>>

\* That delete failed: the replacement is taken back and the run fails.
EditRestores(q) ==
  /\ Go(q, "truncate", "err")
  /\ Delete({local[q].prompt})
  /\ strayed' = TRUE
  /\ UNCHANGED <<local, registry, dog, host>>

RegenerateTruncates(q) ==
  /\ Go(q, "cut", "provider")
  /\ Delete((local[q].anchor + 1) .. lastId)
  /\ local' = [local EXCEPT ![q].prompt = local[q].anchor]
  /\ Strays(q)
  /\ UNCHANGED <<registry, dog, host>>

-----------------------------------------------------------------------------
(* run_thread *)

\* The provider was rate limited and the wait is over. One retry per run.
RateLimited(q) ==
  /\ Go(q, "provider", "nudge")
  /\ ~ Cancelled(q)
  /\ ~ local[q].nudged
  /\ local' = [local EXCEPT ![q].nudged = TRUE]
  /\ UNCHANGED <<db, registry, dog, host, strayed>>

\* "continue working" is sent to the agent and stored as a user message.
NudgePersists(q) ==
  /\ Go(q, "nudge", "provider")
  /\ Add("user", q)
  /\ Strays(q)
  /\ UNCHANGED <<local, registry, dog, host>>

\* The provider call returns, with or without an error and with or without
\* output; the flag is read at once.
ProviderReturns(q) ==
  /\ \E failed, output \in BOOLEAN :
       Go(q, "provider", CASE Cancelled(q) /\ output -> "partial"
                           [] Cancelled(q) /\ ~ output -> "mark"
                           [] ~ Cancelled(q) /\ failed /\ output -> "errpart"
                           [] ~ Cancelled(q) /\ failed /\ ~ output -> "error"
                           [] OTHER -> "reply")
  /\ UNCHANGED <<db, local, registry, dog, host, strayed>>

\* A stopped run keeps the output it has.
SavesPartial(q) ==
  /\ Go(q, "partial", "err")
  /\ Add("assistant", q)
  /\ UNCHANGED <<local, registry, dog, host, strayed>>

\* persist_stopped_marker
Marks(q) ==
  /\ Go(q, "mark", "err")
  /\ Add("system", q)
  /\ UNCHANGED <<local, registry, dog, host, strayed>>

\* A failed run keeps the output it has, and then tells the error.
SavesOutputOfFailure(q) ==
  /\ Go(q, "errpart", "error")
  /\ Add("assistant", q)
  /\ UNCHANGED <<local, registry, dog, host, strayed>>

SavesError(q) ==
  /\ Go(q, "error", "err")
  /\ Add("error", q)
  /\ UNCHANGED <<local, registry, dog, host, strayed>>

\* Mutant of ReplyChecks: an answer without text is not worth a row.
ReplySkipsEmpty(q) ==
  /\ \/ Cancelled(q) /\ Go(q, "reply", "mark")
     \/ ~ Cancelled(q) /\ Go(q, "reply", "insert")
     \/ ~ Cancelled(q) /\ Go(q, "reply", "finish")
  /\ UNCHANGED <<db, local, registry, dog, host, strayed>>

\* The checks before the insert in persist_assistant_reply all lead to the
\* marker, so the last one stands for them.
ReplyChecks(q) ==
  /\ \/ Cancelled(q) /\ Go(q, "reply", "mark")
     \/ ~ Cancelled(q) /\ Go(q, "reply", "insert")
  /\ UNCHANGED <<db, local, registry, dog, host, strayed>>

ReplyInserts(q) ==
  /\ Go(q, "insert", "inserted")
  /\ Add("assistant", q)
  /\ local' = [local EXCEPT ![q].reply = lastId']
  /\ UNCHANGED <<registry, dog, host, strayed>>

\* A stop may have come in between.
ReplyRechecks(q) ==
  /\ \/ Cancelled(q) /\ Go(q, "inserted", "undo")
     \/ ~ Cancelled(q) /\ Go(q, "inserted", "finish")
  /\ UNCHANGED <<db, local, registry, dog, host, strayed>>

\* Mutant of ReplyUndone: the reply stays, only the marker is added.
ReplyStays(q) ==
  /\ Go(q, "undo", "mark")
  /\ UNCHANGED <<db, local, registry, dog, host, strayed>>

ReplyUndone(q) ==
  /\ Go(q, "undo", "mark")
  /\ Delete({local[q].reply})
  /\ UNCHANGED <<local, registry, dog, host, strayed>>

\* A last look, then Completed (which set_status ignores if cancelled).
Finishes(q) ==
  /\ Go(q, "finish", IF Cancelled(q) THEN "err" ELSE "ok")
  /\ status' = IF Cancelled(q) THEN status ELSE [status EXCEPT ![q] = "completed"]
  /\ UNCHANGED <<db, local, cancelled, holder, dog, host, strayed>>

\* The wrapper of the task; an error is Failed unless the run was stopped.
WrapperSettles(q) ==
  /\ Go(q, "ok", "tail") \/ Go(q, "err", "tail")
  /\ status' = IF at[q] = "err" /\ ~ Cancelled(q)
               THEN [status EXCEPT ![q] = "failed"] ELSE status
  /\ Drops(q)
  /\ UNCHANGED <<db, cancelled, holder, dog, host, strayed>>

\* The hard abort, ten seconds after the stop: runs that were stopped earlier
\* have had theirs.
Aborted(q) ==
  /\ Cancelled(q)
  /\ \A p \in Request : Cancelled(p) /\ cancelled[p] < cancelled[q] => TaskFinished(p)
  /\ at[q] \in InTask
  /\ Go(q, at[q], "gone")
  /\ Drops(q)
  /\ UNCHANGED <<db, registry, dog, host, strayed>>

\* The record of the run leaves the map.
RecordLeaves(q) ==
  /\ server = "up"
  /\ holder = q
  /\ at[q] \in {"tail", "gone"}
  /\ holder' = NoRun
  /\ UNCHANGED <<db, at, local, status, cancelled, dog, host, strayed>>

-----------------------------------------------------------------------------
(* The stop handler and its watchdog *)

\* A record that has finished is answered with a snapshot, and watched too.
Stop(s) ==
  /\ server = "up"
  /\ dog[s].at = "idle"
  /\ holder # NoRun
  /\ dog' = [dog EXCEPT ![s] = Dog("waiting", holder, {})]
  /\ status' = IF Running THEN [status EXCEPT ![holder] = "stopped"] ELSE status
  /\ cancelled' = IF Running
                  THEN [cancelled EXCEPT ![holder] = Cardinality({q \in Request : Cancelled(q)}) + 1]
                  ELSE cancelled
  /\ UNCHANGED <<db, at, local, holder, host, strayed>>

Follow(s, from, to) ==
  /\ server = "up"
  /\ dog[s].at = from
  /\ dog' = [dog EXCEPT ![s] = IF to = "done" THEN Dog("done", NoRun, {})
                               ELSE [@ EXCEPT !.at = to]]
  /\ UNCHANGED <<at, local, registry, host, strayed>>

\* wait_finished: whatever the map holds is watched from then on; it returns
\* when all that was seen has ended.
WatchdogWaits(s) ==
  LET seen == dog[s].seen \cup ({holder} \ {NoRun})
      to == IF \A q \in seen : TaskFinished(q) THEN "checks" ELSE "waiting"
  IN /\ server = "up"
     /\ dog[s].at = "waiting"
     /\ dog' = [dog EXCEPT ![s] = Dog(to, dog[s].target, seen)]
     /\ UNCHANGED <<db, at, local, registry, host, strayed>>

\* After fifteen seconds it returns in any case. The run that was stopped has
\* been aborted by then.
WatchdogExpires(s) ==
  /\ Follow(s, "waiting", "checks")
  /\ TaskFinished(dog[s].target)
  /\ UNCHANGED db

\* A thread with a run that is Running is left alone.
WatchdogChecks(s) ==
  /\ Follow(s, "checks", IF Running THEN "done" ELSE "reads")
  /\ UNCHANGED db

WatchdogReads(s) ==
  /\ Follow(s, "reads", IF UserTail THEN "mark" ELSE "done")
  /\ UNCHANGED db

\* Mutant of WatchdogMarks: only the updated_at of the thread is touched.
WatchdogTouches(s) ==
  /\ Follow(s, "mark", "done")
  /\ UNCHANGED db

WatchdogMarks(s) ==
  /\ Follow(s, "mark", "done")
  /\ Add("system", s)

-----------------------------------------------------------------------------
(* Crash and boot *)

\* All that is not in the database is lost.
Crash ==
  /\ server = "up"
  /\ crashes < MaxCrashes
  /\ server' = "down"
  /\ crashes' = crashes + 1
  /\ at' = [q \in Request |-> IF at[q] = "idle" THEN "idle" ELSE "gone"]
  /\ status' = [q \in Request |-> IF status[q] = "none" THEN "none" ELSE "lost"]
  /\ cancelled' = [q \in Request |-> 0]
  /\ holder' = NoRun
  /\ dog' = [s \in Stopper |-> IF dog[s].at = "idle" THEN dog[s] ELSE Dog("done", NoRun, {})]
  /\ local' = [q \in Request |-> NoLocals]
  /\ UNCHANGED <<db, strayed>>

\* Mutant of Boot: no reconciliation.
BootOnly ==
  /\ server = "down"
  /\ server' = "up"
  /\ UNCHANGED <<db, at, local, registry, dog, crashes, strayed>>

\* fail_interrupted_runs, before requests are served.
Boot ==
  /\ server = "down"
  /\ server' = "up"
  /\ IF UserTail THEN Add("error", NoRun) ELSE UNCHANGED db
  /\ UNCHANGED <<at, local, registry, dog, crashes, strayed>>

-----------------------------------------------------------------------------
(* The specification *)

Handler(q) ==
  \/ SendPersists(q) \/ SendStarts(q) \/ SendRollsBack(q) \/ RequestIsDropped(q)
  \/ ResendReads(q) \/ ResendStarts(q)

Pipeline(q) ==
  \/ EditReplaces(q) \/ EditTruncates(q) \/ EditRestores(q) \/ RegenerateTruncates(q)
  \/ NudgePersists(q)
  \/ SavesPartial(q) \/ Marks(q) \/ SavesOutputOfFailure(q) \/ SavesError(q)
  \/ ReplyChecks(q) \/ ReplyInserts(q) \/ ReplyRechecks(q) \/ ReplyUndone(q)
  \/ Finishes(q) \/ WrapperSettles(q) \/ Aborted(q)

Agent(q) == RateLimited(q) \/ ProviderReturns(q)

Watchdog(s) ==
  \/ WatchdogWaits(s) \/ WatchdogExpires(s)
  \/ WatchdogChecks(s) \/ WatchdogReads(s) \/ WatchdogMarks(s)

Next ==
  \/ \E q \in Request : Handler(q) \/ Pipeline(q) \/ Agent(q) \/ RecordLeaves(q)
  \/ \E s \in Stopper : Stop(s) \/ Watchdog(s)
  \/ Crash \/ Boot

Spec == Init /\ [][Next]_vars

\* Handlers go on until they end or are dropped with their request, tasks are
\* polled and timers fire. Agents may work for ever,
\* nobody has to send or stop, and a server that is down may stay down.
FairSpec ==
  /\ Spec
  /\ \A q \in Request :
       WF_vars(SendStarts(q) \/ SendRollsBack(q) \/ ResendStarts(q) \/ RequestIsDropped(q)
                 \/ Pipeline(q))
  /\ \A s \in Stopper : WF_vars(Watchdog(s))

-----------------------------------------------------------------------------
(* Properties *)

\* Turns group the messages in the order of the ids and each has at most one
\* user message, also after edits, regenerations and rollbacks have deleted
\* rows (add_message numbers by the rows that are left).
TurnsAreOrdered ==
  \A m, n \in rows :
    m.id < n.id => m.turn <= n.turn /\ (n.role = "user" => m.turn < n.turn)

\* Whoever will look at the tail again: a send that may be rolled back, a run
\* that has its closing row ahead of it, a watchdog.
Attends(q) ==
  \/ at[q] \in {"persisted", "rollback"} \cup (InTask \ {"inserted", "finish"})
  \/ at[q] = "inserted" /\ Cancelled(q)

\* The message of a send that was dropped. It waits for the next message, stop
\* or boot: nobody else comes to look.
LeftBehind(m) == \E q \in Request : m.by = q /\ at[q] = "dropped"
LeftTail == \E m \in rows : LeftBehind(m) /\ \A n \in rows : n.id <= m.id

\* A trailing user message reads as "working". Whenever there is one, somebody
\* is left who will close the turn: nothing that was stopped, aborted,
\* displaced, rolled back or cut off by a crash leaves the thread working for
\* ever. The code keeps this except for the message of a send that was dropped
\* since the last boot, and until a displaced run has strayed.
UserTailIsAttended ==
  UserTail => \/ server = "down"
              \/ strayed
              \/ LeftTail
              \/ \E q \in Request : Attends(q)
              \/ \E s \in Stopper : dog[s].at \notin {"idle", "done"}

\* A run that was stopped while its reply was being stored ends with the reply
\* or with the marker, not both: the client that saw "stopped" does not find
\* an answer in front of it.
StoppedRunHasOneEnding ==
  \A m, n \in rows :
    m.by = n.by /\ m.role = "system" => n.role # "assistant"

\* When a run becomes Completed its reply is in the table, so a client that
\* reloads on "done" finds it, whatever other requests did meanwhile. (Again
\* not once a displaced run has strayed.)
CompletedHasReply ==
  [][\A q \in Request :
       status'[q] = "completed" /\ status[q] # "completed" /\ ~ strayed =>
         \E m \in rows' : m.by = q /\ m.role = "assistant"]_vars

\* A thread does not stay "working" when nothing runs: a user message at the
\* tail is followed by another row or goes, or a run takes it up. (Again but
\* for what a dropped send has left.)
UserTailCloses ==
  (UserTail /\ ~ Running) ~>
    (~ UserTail \/ Running \/ LeftTail \/ strayed \/ server = "down")

-----------------------------------------------------------------------------
(* Statements of the source that the code does not keep *)

\* Turns are "user-anchored": each has the user message that opened it, so
\* that a reply can be regenerated.
TurnHasAnchor ==
  \A m \in rows : \E u \in rows : u.role = "user" /\ u.turn = m.turn

\* The watchdog leaves the user message of a newer run "alone while it is
\* live": it does not write "stopped by user" into the thread of a running
\* one.
MarkerSparesLiveRun ==
  [][\A s \in Stopper :
       dog[s].at = "mark" /\ dog'[s].at = "done" /\ server' = "up" => ~ Running]_vars

\* Deletion happens inside the run so that another active run "can never lose
\* rows": the message a running run answers stays.
RunningKeepsPrompt ==
  \A q \in Request :
    status[q] = "running" /\ at[q] \in InTask \ {"replace", "cut"} =>
      \E m \in rows : m.id = local[q].prompt

=============================================================================
