---------------------------- MODULE SatelliteRun ----------------------------
(***************************************************************************)
(* One turn of an agent on a satellite: the hub's side (run_turn, consume  *)
(* and handle_event of providers/remote.rs, the calls of node_client.rs)   *)
(* and the satellite's (run, drive, the callbacks of send_options,         *)
(* RunGuard, callback and cancel_run of satellite/runs.rs), with the event *)
(* stream and the calls between them, each of which may be lost.           *)
(***************************************************************************)
EXTENDS Naturals, Sequences, FiniteSets

CONSTANTS
  MaxAsks,   \* bound on the requests for a decision in the turn
  MaxParts,  \* bound on the parts the agent writes
  MaxLost    \* bound on the calls from the hub that are lost

ASSUME SatelliteConstants == MaxAsks \in Nat /\ MaxParts \in Nat /\ MaxLost \in Nat

VARIABLES
  hub,         \* where run_turn is
  flag,        \* the hub run's cancelled flag
  watcher,     \* the task that watches the flag
  conn,        \* the connection that carries the event stream
  wire,        \* events sent by the run and not yet read by the hub
  parts,       \* parts the agent has written
  lost,        \* calls lost so far
  deaf,        \* history: asks whose answer was lost on its way
  registered,  \* the satellite's run table has the run
  scancel,     \* the satellite run's cancel flag
  drive,       \* where the task of the run on the satellite is
  asks,        \* decisions the agent has asked for
  pending,     \* the satellite's map of pending callbacks
  ids,         \* pending_ids of the run, for its guard
  answer,      \* answer[i]: the oneshot channel of ask i
  decided,     \* decided[i]: what the agent was told
  guard        \* RunGuard and the task its drop spawns

hubVars == <<hub, flag, watcher, lost, deaf>>
runVars == <<registered, scancel, drive, parts>>
askVars == <<asks, pending, ids, answer, decided>>
vars == <<hubVars, conn, wire, runVars, askVars, guard>>

Asks == 1 .. MaxAsks
HubOver == {"done", "failed", "aborted"}
Event == [type : {"part", "ask", "done", "error"}, id : 0 .. MaxAsks]

TypeOK ==
  /\ hub \in [at : {"posts", "reads", "asks", "answers", "cancels"} \cup HubOver,
              ask : 0 .. MaxAsks, says : {"allow", "cancel"}]
  /\ flag \in BOOLEAN /\ watcher \in {"none", "polls", "calls"}
  /\ conn \in {"none", "up", "down"}
  /\ wire \in Seq(Event)
  /\ parts \in 0 .. MaxParts /\ lost \in 0 .. MaxLost /\ deaf \subseteq Asks
  /\ registered \in BOOLEAN /\ scancel \in BOOLEAN
  /\ drive \in {"none", "works", "inserts", "pushes", "sends", "awaits", "over"}
  /\ asks \in 0 .. MaxAsks /\ pending \subseteq Asks /\ ids \subseteq Asks
  /\ answer \in [Asks -> {"open", "allow", "cancel"}]
  /\ decided \in [Asks -> {"none", "allow", "cancel"}]
  /\ guard \in {"none", "held", "unregisters", "takes", "gone"}

Init ==
  /\ hub = [at |-> "posts", ask |-> 0, says |-> "cancel"]
  /\ flag = FALSE /\ watcher = "none" /\ conn = "none" /\ wire = <<>>
  /\ parts = 0 /\ lost = 0 /\ deaf = {}
  /\ registered = FALSE /\ scancel = FALSE /\ drive = "none"
  /\ asks = 0 /\ pending = {} /\ ids = {}
  /\ answer = [i \in Asks |-> "open"] /\ decided = [i \in Asks |-> "none"]
  /\ guard = "none"

(***************************************************************************)
(* The satellite                                                           *)
(***************************************************************************)

\* An event goes into the run's channel, unless its stream has been dropped.
StreamHeld == guard = "held"
Emit(type) ==
  wire' = IF StreamHeld THEN Append(wire, [type |-> type, id |-> asks]) ELSE wire

\* POST /api/node/run arrives: the run is entered into the table, its task
\* spawned and the stream with its guard returned. The response may not reach
\* the hub, which then gives up.
RunArrives ==
  /\ hub.at = "posts" /\ guard = "none"
  /\ registered' = TRUE /\ drive' = "works" /\ guard' = "held"
  /\ \/ /\ conn' = "up" /\ hub' = [hub EXCEPT !.at = "reads"] /\ watcher' = "polls"
        /\ UNCHANGED lost
     \/ /\ conn' = "down" /\ hub' = [hub EXCEPT !.at = "failed"]
        /\ lost < MaxLost /\ lost' = lost + 1 /\ UNCHANGED watcher
  /\ UNCHANGED <<flag, deaf, wire, scancel, parts, askVars>>

AgentWrites ==
  /\ drive = "works" /\ parts < MaxParts
  /\ parts' = parts + 1
  /\ Emit("part")
  /\ UNCHANGED <<hubVars, conn, registered, scancel, drive, askVars, guard>>

\* The agent asks: a callback of send_options. The entry, its id for the guard
\* and the event are three steps.
AgentAsks ==
  /\ drive = "works" /\ asks < MaxAsks
  /\ asks' = asks + 1
  /\ drive' = "inserts"
  /\ UNCHANGED <<hubVars, conn, wire, registered, scancel, parts, pending, ids, answer, decided, guard>>

\* Mutant of CallbackInserts: the event goes out, the entry is forgotten.
CallbackInsertsNothing ==
  /\ drive = "inserts"
  /\ drive' = "pushes"
  /\ UNCHANGED <<hubVars, conn, wire, registered, scancel, parts, askVars, guard>>

CallbackInserts ==
  /\ drive = "inserts"
  /\ pending' = pending \cup {asks}
  /\ drive' = "pushes"
  /\ UNCHANGED <<hubVars, conn, wire, registered, scancel, parts, asks, ids, answer, decided, guard>>

CallbackPushes ==
  /\ drive = "pushes"
  /\ ids' = ids \cup {asks}
  /\ drive' = "sends"
  /\ UNCHANGED <<hubVars, conn, wire, registered, scancel, parts, asks, pending, answer, decided, guard>>

CallbackSends ==
  /\ drive = "sends"
  /\ Emit("ask")
  /\ IF StreamHeld
     THEN drive' = "awaits" /\ UNCHANGED decided
     ELSE drive' = "works" /\ decided' = [decided EXCEPT ![asks] = "cancel"]
  /\ UNCHANGED <<hubVars, conn, registered, scancel, parts, asks, pending, ids, answer, guard>>

\* The oneshot is answered; without a time-out it is waited for as long as it
\* takes. A sender that was dropped is a cancellation.
AgentResumes ==
  /\ drive = "awaits"
  /\ answer[asks] # "open"
  /\ decided' = [decided EXCEPT ![asks] = answer[asks]]
  /\ drive' = "works"
  /\ UNCHANGED <<hubVars, conn, wire, registered, scancel, parts, asks, pending, ids, answer, guard>>

\* The turn ends; the channel ends with it.
DriveEnds(result) ==
  /\ drive = "works"
  /\ drive' = "over"
  /\ Emit(result)
  /\ UNCHANGED <<hubVars, conn, registered, scancel, parts, askVars, guard>>

\* The body of the response is dropped: its connection has broken, or its last
\* event was read. The guard asks for the abort and spawns the cleanup.
GuardDrops ==
  /\ guard = "held"
  /\ conn = "down" \/ (drive = "over" /\ wire = <<>>)
  /\ guard' = "unregisters"
  /\ UNCHANGED <<hubVars, conn, wire, runVars, askVars>>

\* Mutant of DriveAborted: the guard flips the flag and leaves the task alone.
DriveAsked ==
  /\ guard \notin {"none", "held"} /\ drive \in {"inserts", "awaits"}
  /\ drive' = "over"
  /\ UNCHANGED <<hubVars, conn, wire, registered, scancel, parts, askVars, guard>>

\* The abort takes effect at an await: in the agent, for the map lock, for an
\* answer.
DriveAborted ==
  /\ guard \notin {"none", "held"} /\ drive \in {"works", "inserts", "awaits"}
  /\ drive' = "over"
  /\ UNCHANGED <<hubVars, conn, wire, registered, scancel, parts, askVars, guard>>

CleanupUnregisters ==
  /\ guard = "unregisters"
  /\ guard' = "takes"
  /\ registered' = FALSE
  /\ scancel' = (scancel \/ registered)
  /\ UNCHANGED <<hubVars, conn, wire, drive, parts, askVars>>

\* The ids are taken out of the list; their entries go under the map lock.
CleanupTakes ==
  /\ guard = "takes"
  /\ guard' = "gone"
  /\ pending' = pending \ ids
  /\ answer' = [i \in Asks |-> IF i \in pending \cap ids THEN "cancel" ELSE answer[i]]
  /\ ids' = {}
  /\ UNCHANGED <<hubVars, conn, wire, runVars, asks, decided>>

(***************************************************************************)
(* The hub                                                                 *)
(***************************************************************************)

LosesCall == lost < MaxLost /\ lost' = lost + 1

\* The POST never arrives: the turn fails before it has a watcher.
PostFails ==
  /\ hub.at = "posts"
  /\ LosesCall
  /\ hub' = [hub EXCEPT !.at = "failed"]
  /\ UNCHANGED <<flag, watcher, deaf, conn, wire, runVars, askVars, guard>>

\* handle_event: a prompt is put to the user before the next event is read.
\* An error, and a stream that ends without a result, go to the last cancel.
After == [part |-> "reads", ask |-> "asks", done |-> "done", error |-> "cancels"]

HubReads ==
  /\ hub.at = "reads" /\ wire # <<>>
  /\ wire' = Tail(wire)
  /\ LET ev == Head(wire)
         over == ev.type \in {"done", "error"}
     IN /\ hub' = [hub EXCEPT !.at = After[ev.type], !.ask = ev.id]
        /\ watcher' = IF over THEN "none" ELSE watcher
        /\ conn' = IF over THEN "down" ELSE conn
  /\ UNCHANGED <<flag, lost, deaf, runVars, askVars, guard>>

HubLosesStream ==
  /\ hub.at = "reads" /\ conn = "down"
  /\ hub' = [hub EXCEPT !.at = "cancels"]
  /\ watcher' = "none"
  /\ UNCHANGED <<flag, lost, deaf, conn, wire, runVars, askVars, guard>>

\* The user decides, or their prompt times out.
UserDecides(says) ==
  /\ hub.at = "asks"
  /\ hub' = [hub EXCEPT !.at = "answers", !.says = says]
  /\ UNCHANGED <<flag, watcher, lost, deaf, conn, wire, runVars, askVars, guard>>

\* POST /api/node/callback: the entry is taken out and the answer sent; the
\* hub goes on whatever comes of it.
CallbackArrives ==
  /\ hub.at = "answers"
  /\ hub' = [hub EXCEPT !.at = "reads"]
  /\ pending' = pending \ {hub.ask}
  /\ answer' = IF hub.ask \in pending THEN [answer EXCEPT ![hub.ask] = hub.says] ELSE answer
  /\ UNCHANGED <<flag, watcher, lost, deaf, conn, wire, runVars, asks, ids, decided, guard>>

CallbackFails ==
  /\ hub.at = "answers"
  /\ LosesCall
  /\ deaf' = deaf \cup {hub.ask}
  /\ hub' = [hub EXCEPT !.at = "reads"]
  /\ UNCHANGED <<flag, watcher, conn, wire, runVars, askVars, guard>>

\* Mutant of HubGivesUp: the run is told, its state is not set.
HubGivesUpTwice ==
  /\ hub.at = "cancels"
  /\ hub' = [hub EXCEPT !.at = "cancelled"]
  /\ UNCHANGED <<flag, watcher, lost, deaf, conn, wire, runVars, askVars, guard>>

\* The best-effort cancel of a failed turn.
HubGivesUp ==
  /\ hub.at = "cancels"
  /\ hub' = [hub EXCEPT !.at = "failed"]
  /\ \/ scancel' = (scancel \/ registered) /\ UNCHANGED lost
     \/ LosesCall /\ UNCHANGED scancel
  /\ UNCHANGED <<flag, watcher, deaf, conn, wire, registered, drive, parts, askVars, guard>>

\* A stop of the run; later its task is aborted, and the stream dropped.
HubStops ==
  /\ ~flag /\ hub.at \notin HubOver
  /\ flag' = TRUE
  /\ UNCHANGED <<hub, watcher, lost, deaf, conn, wire, runVars, askVars, guard>>

HubAborted ==
  /\ flag /\ hub.at \notin HubOver
  /\ hub' = [hub EXCEPT !.at = "aborted"]
  /\ conn' = "down"
  /\ UNCHANGED <<flag, watcher, lost, deaf, wire, runVars, askVars, guard>>

WatcherSees ==
  /\ watcher = "polls" /\ flag
  /\ watcher' = "calls"
  /\ UNCHANGED <<hub, flag, lost, deaf, conn, wire, runVars, askVars, guard>>

\* POST /api/node/runs/:id/cancel, once.
WatcherCalls ==
  /\ watcher = "calls"
  /\ watcher' = "none"
  /\ \/ scancel' = (scancel \/ registered) /\ UNCHANGED lost
     \/ LosesCall /\ UNCHANGED scancel
  /\ UNCHANGED <<hub, flag, deaf, conn, wire, registered, drive, parts, askVars, guard>>

\* The network between them.
ConnectionBreaks ==
  /\ conn = "up"
  /\ conn' = "down"
  /\ UNCHANGED <<hubVars, wire, runVars, askVars, guard>>

(***************************************************************************)
(* Specification                                                           *)
(***************************************************************************)

Callback == CallbackInserts \/ CallbackPushes \/ CallbackSends \/ AgentResumes
Cleanup == GuardDrops \/ CleanupUnregisters \/ CleanupTakes
HubActs == HubReads \/ HubLosesStream \/ CallbackArrives \/ CallbackFails \/ HubGivesUp

Next ==
  \/ RunArrives \/ AgentWrites \/ AgentAsks \/ Callback \/ Cleanup \/ DriveAborted
  \/ \E result \in {"done", "error"} : DriveEnds(result)
  \/ PostFails \/ HubActs \/ HubStops \/ HubAborted \/ WatcherSees \/ WatcherCalls
  \/ \E says \in {"allow", "cancel"} : UserDecides(says)
  \/ ConnectionBreaks

Spec == Init /\ [][Next]_vars

(***************************************************************************)
(* Properties                                                              *)
(***************************************************************************)

\* The agent is allowed only what the user allowed: its answer is the one the
\* hub gave for this ask, and every way to lose hub, call or stream refuses.
AllowedByUser ==
  \A i \in Asks : decided[i] = "allow" => (answer[i] = "allow" /\ i \notin pending)

\* An ask that the hub can still answer has its entry: the satellite does not
\* drop an entry whose answer may yet come while the agent waits for it.
AskCanBeAnswered ==
  (drive = "awaits" /\ answer[asks] = "open") => asks \in pending

\* However the hub's turn ends, nothing of it goes on at the satellite: the
\* agent stops and the run leaves the table, whether or not a cancel arrives.
LostHubStopsAgent ==
  (hub.at \in HubOver /\ guard # "none") ~> (drive = "over" /\ ~registered)

\* Once the user has decided, the agent goes on or its turn is over, unless the
\* one call that carries the decision was lost: that one is not repeated.
DecisionReachesAgent ==
  \A i \in Asks :
    (hub.at = "answers" /\ hub.ask = i)
      ~> (decided[i] # "none" \/ drive = "over" \/ i \in deaf)

\* A hub that still reads notices the end of the turn or of the connection.
HubNotices ==
  (conn = "down" \/ drive = "over") ~> (hub.at \in HubOver \cup {"asks"})

\* The cleanup of a run leaves no callback behind: RunGuard is to "release its
\* pending callbacks" (satellite/runs.rs:346).
NoOrphanCallback == (guard = "gone" /\ drive = "over") => pending = {}

=============================================================================
