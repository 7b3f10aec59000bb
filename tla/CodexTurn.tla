----------------------------- MODULE CodexTurn -----------------------------
(***************************************************************************)
(* One turn of codex app-server: run_prompt and open_thread of             *)
(* providers/codex/provider.rs over the JSON-RPC transport of rpc.rs, with *)
(* its reader task, its map of pending requests under one lock and its     *)
(* bounded channel of events. The child process is external: it answers,   *)
(* reports and exits as it likes, in one ordered stream of lines.          *)
(***************************************************************************)
EXTENDS Naturals, Sequences

CONSTANTS
  EventCap,   \* EVENT_CHANNEL_CAP
  MaxEvents   \* bound on the events the child reports

ASSUME CodexConstants == EventCap \in Nat \ {0} /\ MaxEvents \in Nat

VARIABLES
  prompt,     \* run_prompt: where it is, and the request it is at
  child,      \* the process
  stdin,      \* requests the child has received and not answered
  stdout,     \* lines of the child that the reader has not taken
  reader,     \* the task that reads them
  inFlight,   \* AppServer.pending
  replies,    \* the oneshot channels of the requests
  events,     \* the bounded channel to the consumer
  threadId,   \* the thread id run_prompt goes by (live_thread_id)
  stored,     \* the id the session callback stored last
  announced,  \* the child's own thread id, as of its last report on this turn
  reported,   \* events the child has reported
  completed,  \* the child has completed this turn
  stop,       \* cancel_signal
  poller      \* the task that turns it into turn/interrupt

childVars == <<child, stdin, announced, reported, completed>>
idVars == <<threadId, stored>>
cxVars == <<prompt, childVars, stdout, reader, inFlight, replies, events, idVars, stop, poller>>

Request == {"initialize", "resume", "start", "turn", "unsubscribe"}
ThreadId == {"none", "session", "provisional", "rollout"}
PromptOver == {"done", "failed", "aborted"}
Line == [kind : {"ok", "error"}, of : Request]
          \cup [kind : {"note", "completed"}, mine : BOOLEAN, thread : ThreadId]
          \cup [kind : {"request"}]

CxTypeOK ==
  /\ prompt \in [at : {"enters", "writes", "waits", "withdraws", "loop", "asks"} \cup PromptOver,
                 req : Request]
  /\ child \in {"runs", "dead"} /\ stdin \subseteq Request /\ stdout \in Seq(Line)
  /\ reader \in {"reads", "closes", "gone"}
  /\ inFlight \subseteq Request
  /\ replies \in [Request -> {"none", "ok", "error"}]
  /\ events \in Seq(Line \cup [kind : {"closed"}]) /\ Len(events) <= EventCap
  /\ {threadId, stored, announced} \subseteq ThreadId
  /\ reported \in 0 .. MaxEvents /\ completed \in BOOLEAN
  /\ stop \in BOOLEAN /\ poller \in {"none", "polls", "gone"}

\* A first turn has no session, a later one names the stored one.
CxInit ==
  /\ prompt = [at |-> "enters", req |-> "initialize"]
  /\ child = "runs" /\ stdin = {} /\ stdout = <<>> /\ reader = "reads"
  /\ inFlight = {} /\ replies = [r \in Request |-> "none"] /\ events = <<>>
  /\ stored \in {"none", "session"} /\ threadId = "none" /\ announced = "none"
  /\ reported = 0 /\ completed = FALSE /\ stop = FALSE /\ poller = "none"

PromptIsOver == prompt.at \in PromptOver

\* The reader keeps the lock of the map while it sends Closed; every other
\* holder gives it back in the same step.
MapIsFree == reader # "closes"

(***************************************************************************)
(* AppServer::request                                                      *)
(***************************************************************************)

RequestEnters ==
  /\ prompt.at = "enters" /\ MapIsFree
  /\ inFlight' = inFlight \cup {prompt.req}
  /\ prompt' = [prompt EXCEPT !.at = "writes"]
  /\ UNCHANGED <<childVars, stdout, reader, replies, events, idVars, stop, poller>>

RequestIsWritten ==
  /\ prompt.at = "writes"
  /\ IF child = "runs"
     THEN stdin' = stdin \cup {prompt.req} /\ prompt' = [prompt EXCEPT !.at = "waits"]
     ELSE prompt' = [prompt EXCEPT !.at = "withdraws"] /\ UNCHANGED stdin
  /\ UNCHANGED <<child, announced, reported, completed, stdout, reader, inFlight, replies,
                 events, idVars, stop, poller>>

RequestTimesOut ==
  /\ prompt.at = "waits"
  /\ prompt' = [prompt EXCEPT !.at = "withdraws"]
  /\ UNCHANGED <<childVars, stdout, reader, inFlight, replies, events, idVars, stop, poller>>

(***************************************************************************)
(* run_prompt                                                              *)
(***************************************************************************)

GoesOn(req) == prompt' = [at |-> "enters", req |-> req]
Ends(how) == prompt' = [prompt EXCEPT !.at = how]

\* What a request that succeeded leads to. A thread id that is not the stored
\* one is stored before the turn starts.
Succeeds ==
  CASE prompt.req = "initialize" ->
         /\ GoesOn(IF stored = "session" THEN "resume" ELSE "start")
         /\ UNCHANGED <<idVars, poller>>
    [] prompt.req = "resume" -> GoesOn("turn") /\ threadId' = "session" /\ UNCHANGED <<stored, poller>>
    [] prompt.req = "start" ->
         GoesOn("turn") /\ threadId' = "provisional" /\ stored' = "provisional" /\ UNCHANGED poller
    [] prompt.req = "turn" ->
         prompt' = [prompt EXCEPT !.at = "loop"] /\ poller' = "polls" /\ UNCHANGED idVars
    [] prompt.req = "unsubscribe" -> Ends("done") /\ UNCHANGED <<idVars, poller>>

\* A thread that cannot be resumed is started anew; the outcome of
\* thread/unsubscribe does not matter.
Fails ==
  /\ CASE prompt.req = "resume" -> GoesOn("start")
       [] prompt.req = "unsubscribe" -> Ends("done")
       [] OTHER -> Ends("failed")
  /\ UNCHANGED <<idVars, poller>>

RequestIsWithdrawn ==
  /\ prompt.at = "withdraws" /\ MapIsFree
  /\ inFlight' = inFlight \ {prompt.req}
  /\ Fails
  /\ UNCHANGED <<childVars, stdout, reader, replies, events, stop>>

RequestIsAnswered ==
  /\ prompt.at = "waits"
  /\ \/ replies[prompt.req] = "ok" /\ Succeeds
     \/ replies[prompt.req] = "error" /\ Fails
  /\ UNCHANGED <<childVars, stdout, reader, inFlight, replies, events, stop>>

\* An id that differs from the one in use is adopted and stored.
Adopts(id) ==
  IF id \notin {"none", threadId}
  THEN threadId' = id /\ stored' = id
  ELSE UNCHANGED idVars

\* Mutant of TakesNote: the id is adopted before the turn is compared.
AdoptsFromAny(ev) ==
  /\ Adopts(ev.thread)
  /\ UNCHANGED prompt

\* The event loop. A note of another turn is skipped before its id is looked
\* at; a completion is compared with the turn after that.
TakesNote(ev) ==
  /\ IF ev.mine THEN Adopts(ev.thread) ELSE UNCHANGED idVars
  /\ UNCHANGED prompt

TakesCompletion(ev) ==
  /\ Adopts(ev.thread)
  /\ IF ev.mine THEN GoesOn("unsubscribe") ELSE UNCHANGED prompt

EventIsTaken ==
  /\ prompt.at = "loop" /\ events # <<>>
  /\ events' = Tail(events)
  /\ LET ev == Head(events)
     IN CASE ev.kind = "note" -> TakesNote(ev)
          [] ev.kind = "completed" -> TakesCompletion(ev)
          [] ev.kind = "request" -> prompt' = [prompt EXCEPT !.at = "asks"] /\ UNCHANGED idVars
          [] ev.kind = "closed" -> Ends("failed") /\ UNCHANGED idVars
  /\ UNCHANGED <<childVars, stdout, reader, inFlight, replies, stop, poller>>

\* The user answers a server request, or their prompt times out.
UserAnswers ==
  /\ prompt.at = "asks"
  /\ prompt' = [prompt EXCEPT !.at = "loop"]
  /\ UNCHANGED <<childVars, stdout, reader, inFlight, replies, events, idVars, stop, poller>>

(***************************************************************************)
(* Stop, abort and teardown                                                *)
(***************************************************************************)

UserStops ==
  /\ ~stop /\ stop' = TRUE
  /\ UNCHANGED <<prompt, childVars, stdout, reader, inFlight, replies, events, idVars, poller>>

\* turn/interrupt, without waiting for its reply.
WatcherInterrupts ==
  /\ poller = "polls" /\ stop
  /\ poller' = "gone"
  /\ UNCHANGED <<prompt, childVars, stdout, reader, inFlight, replies, events, idVars, stop>>

\* Mutant of WatcherIsAborted: nothing aborts it, it ends with the flag.
WatcherLingers ==
  /\ poller = "polls" /\ PromptIsOver /\ stop
  /\ poller' = "gone"
  /\ UNCHANGED <<prompt, childVars, stdout, reader, inFlight, replies, events, idVars, stop>>

\* AbortOnDrop, when run_prompt returns or is dropped.
WatcherIsAborted ==
  /\ poller = "polls" /\ PromptIsOver
  /\ poller' = "gone"
  /\ UNCHANGED <<prompt, childVars, stdout, reader, inFlight, replies, events, idVars, stop>>

\* The hard abort of the run drops run_prompt at whichever await it is.
PromptIsAborted ==
  /\ stop /\ ~PromptIsOver
  /\ Ends("aborted")
  /\ UNCHANGED <<childVars, stdout, reader, inFlight, replies, events, idVars, stop, poller>>

\* The last owner of the AppServer drops it: its process group is killed.
ServerIsDropped ==
  /\ PromptIsOver /\ poller # "polls" /\ child = "runs"
  /\ child' = "dead"
  /\ UNCHANGED <<prompt, stdin, announced, reported, completed, stdout, reader, inFlight, replies,
                 events, idVars, stop, poller>>

(***************************************************************************)
(* The reader                                                              *)
(***************************************************************************)

IsReply(line) == line.kind \in {"ok", "error"}

ReaderTakesReply ==
  /\ reader = "reads" /\ stdout # <<>> /\ IsReply(Head(stdout))
  /\ LET line == Head(stdout)
     IN IF line.of \in inFlight
        THEN inFlight' = inFlight \ {line.of} /\ replies' = [replies EXCEPT ![line.of] = line.kind]
        ELSE UNCHANGED <<inFlight, replies>>
  /\ stdout' = Tail(stdout)
  /\ UNCHANGED <<prompt, childVars, reader, events, idVars, stop, poller>>

\* With the channel full the reader waits, and with it every later line. When
\* its consumer is gone it returns.
ReaderForwards ==
  /\ reader = "reads" /\ stdout # <<>> /\ ~IsReply(Head(stdout))
  /\ IF PromptIsOver
     THEN reader' = "gone" /\ UNCHANGED events
     ELSE /\ Len(events) < EventCap
          /\ events' = Append(events, Head(stdout))
          /\ UNCHANGED reader
  /\ stdout' = Tail(stdout)
  /\ UNCHANGED <<prompt, childVars, inFlight, replies, idVars, stop, poller>>

\* End of the output: every request in the map fails.
ReaderFailsAll ==
  /\ reader = "reads" /\ stdout = <<>> /\ child = "dead"
  /\ replies' = [r \in Request |-> IF r \in inFlight THEN "error" ELSE replies[r]]
  /\ inFlight' = {}
  /\ reader' = "closes"
  /\ UNCHANGED <<prompt, childVars, stdout, events, idVars, stop, poller>>

\* Closed is sent with the lock still held.
ReaderSendsClosed ==
  /\ reader = "closes"
  /\ PromptIsOver \/ Len(events) < EventCap
  /\ events' = IF PromptIsOver THEN events ELSE Append(events, [kind |-> "closed"])
  /\ reader' = "gone"
  /\ UNCHANGED <<prompt, childVars, stdout, inFlight, replies, idVars, stop, poller>>

(***************************************************************************)
(* The child                                                               *)
(***************************************************************************)

ChildSays(line) == stdout' = Append(stdout, line)

TurnThread == IF announced = "none" THEN threadId ELSE announced

ChildReplies(req, kind) ==
  /\ child = "runs" /\ req \in stdin
  /\ stdin' = stdin \ {req}
  /\ announced' = IF req = "turn" /\ kind = "ok" THEN TurnThread ELSE announced
  /\ ChildSays([kind |-> kind, of |-> req])
  /\ UNCHANGED <<prompt, child, reported, completed, reader, inFlight, replies, events, idVars, stop, poller>>

\* Reports of this turn start when the child has the request and end with its
\* completion; those of another turn may come at any time, a completion only of the same thread.
\* That is the one the request named until the child has announced another.
TurnRuns == ~completed /\ ("turn" \in stdin \/ announced # "none")

ChildReports(kind, mine, id) ==
  /\ child = "runs" /\ reported < MaxEvents
  /\ mine => TurnRuns /\ id \in {"none", TurnThread, "rollout"}
  /\ ~mine => id = IF kind = "note" THEN "session" ELSE TurnThread
  /\ reported' = reported + 1
  /\ announced' = IF ~mine THEN announced ELSE IF id = "none" THEN TurnThread ELSE id
  /\ completed' = (completed \/ (mine /\ kind = "completed"))
  /\ ChildSays([kind |-> kind, mine |-> mine, thread |-> id])
  /\ UNCHANGED <<prompt, child, stdin, reader, inFlight, replies, events, idVars, stop, poller>>

ChildAsks ==
  /\ child = "runs" /\ reported < MaxEvents /\ TurnRuns
  /\ reported' = reported + 1
  /\ ChildSays([kind |-> "request"])
  /\ UNCHANGED <<prompt, child, stdin, announced, completed, reader, inFlight, replies, events, idVars, stop, poller>>

ChildExits ==
  /\ child = "runs"
  /\ child' = "dead"
  /\ UNCHANGED <<prompt, stdin, announced, reported, completed, stdout, reader, inFlight, replies,
                 events, idVars, stop, poller>>

(***************************************************************************)
(* Specification                                                           *)
(***************************************************************************)

Transport == RequestEnters \/ RequestIsWritten \/ RequestIsWithdrawn \/ RequestIsAnswered \/ EventIsTaken
Reading == ReaderTakesReply \/ ReaderForwards \/ ReaderFailsAll \/ ReaderSendsClosed
Teardown == WatcherIsAborted \/ ServerIsDropped

CxNext ==
  \/ Transport \/ RequestTimesOut \/ UserAnswers
  \/ UserStops \/ WatcherInterrupts \/ PromptIsAborted \/ Teardown \/ Reading
  \/ \E req \in Request, kind \in {"ok", "error"} : ChildReplies(req, kind)
  \/ \E kind \in {"note", "completed"}, mine \in BOOLEAN, id \in ThreadId : ChildReports(kind, mine, id)
  \/ ChildAsks \/ ChildExits

CxSpec == CxInit /\ [][CxNext]_cxVars

\* Tasks are polled, the timer of a request fires, a stop aborts in the end.
\* The child and the user owe nothing; a prompt that is open is waited for by
\* its own time-out.
CxFairSpec ==
  /\ CxSpec
  /\ WF_cxVars(Transport) /\ WF_cxVars(RequestTimesOut) /\ WF_cxVars(UserAnswers)
  /\ WF_cxVars(Teardown) /\ WF_cxVars(Reading) /\ WF_cxVars(PromptIsAborted)

(***************************************************************************)
(* Properties                                                              *)
(***************************************************************************)

\* After a turn that completed, the stored session is the thread the child
\* last announced for it, through resume, its fallback and the change of id
\* in mid-turn, whatever reports of other turns came between.
StoredThreadIsLive == prompt.at = "done" => stored = announced

\* Whichever way a turn ends, its process does not outlive it: the poller
\* lets go of the server.
TurnLeavesNoChild == PromptIsOver ~> child = "dead"

\* When the app-server dies, "fail every in-flight request, then tell the
\* consumer" (providers/codex/rpc.rs:206): the turn ends.
DeathEndsTurn == child = "dead" ~> PromptIsOver

=============================================================================
