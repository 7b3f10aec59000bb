------------------------------ MODULE RunEvents ------------------------------
(***************************************************************************)
(* How a client watches a run: the event channel of RunState (emit,        *)
(* subscribe, close and snapshot of thread_runner.rs), the stream the      *)
(* server makes of it (events_stream of runs.rs), and the client that      *)
(* reduces it (streaming_reducer.dart), recovers when it breaks and        *)
(* answers what the run asks (thread_store.dart).                          *)
(*                                                                         *)
(* One run and one client. A step holds one lock or does one atomic        *)
(* operation: a part is applied, its event is numbered and it is sent in   *)
(* three steps, and a snapshot reads the fields one after the other. The   *)
(* cancelled flag and the status Stopped are one step here (ThreadRunner   *)
(* has them apart).                                                        *)
(***************************************************************************)
EXTENDS Naturals, Sequences, FiniteSets

CONSTANTS
  Capacity,    \* of the broadcast channel (256 in the code)
  MaxParts,    \* bound on the parts the agent writes
  MaxPrompts,  \* bound on the permission prompts it raises
  MaxOutput,   \* bound on the two together
  MaxDrops     \* bound on the connections that break

ASSUME EventsConstants ==
  /\ Capacity \in Nat \ {0}
  /\ {MaxParts, MaxPrompts, MaxOutput, MaxDrops} \subseteq Nat

VARIABLES
  status,   \* RunState.status
  parts,    \* RunState.parts: how many; the i-th part is i
  prompt,   \* RunState.permission_request: the n-th prompt, or 0
  issued,   \* the events in the order of their numbers; next_seq is the length
  sent,     \* the numbers of the events in the channel, in the order sent
  closed,   \* RunState.events has been taken
  initial,  \* RunState.initial_receiver is still there
  task,     \* where the task of the run is
  stop,     \* where the stop handler is
  out,      \* what the task and the stop handler are emitting
  snap,     \* the snapshot that is being read for the client
  rx,       \* the receiver of the client's stream: its next event, 0 if none
  mode,     \* what the client does: connecting, stream, probe, tail, settled
  view,     \* the StreamingSnapshot of the client
  drops,    \* how many connections have broken
  reply,    \* the client's answer to a prompt, and where its request is
  taken     \* the server took the answer to the prompt it still waits on

runVars == <<status, parts, prompt, task, stop>>
channel == <<issued, sent, closed, out>>
client == <<snap, rx, mode, view, drops>>
watched == <<runVars, channel, initial, client>>
answers == <<reply, taken>>
vars == <<watched, answers>>

Terminal == {"completed", "failed", "stopped"}
Emitter == {"task", "stop"}

Nothing == [event |-> "none", body |-> 0, seq |-> 0]
NoSnap == [for |-> "none", at |-> "parts", parts |-> 0, prompt |-> 0, seq |-> 0,
           torn |-> FALSE]
EmptyView == [phase |-> "idle", parts |-> <<>>, prompt |-> 0, lastSeq |-> 0,
              torn |-> FALSE, wiped |-> FALSE]
NoReply == [prompt |-> 0, at |-> "none"]

TypeOK ==
  /\ status \in {"running"} \cup Terminal
  /\ parts \in 0 .. MaxParts
  /\ prompt \in 0 .. MaxPrompts
  /\ issued \in Seq([event : {"part", "prompt", "done", "error", "stopped"}, body : Nat])
  /\ \A i \in DOMAIN sent : sent[i] \in DOMAIN issued
  /\ closed \in BOOLEAN /\ initial \in BOOLEAN
  /\ task \in {"working", "asking", "finishing", "failing", "closing",
               "ended"}
  /\ stop \in {"idle", "closing", "ended"}
  /\ \A e \in Emitter : out[e].seq \in 0 .. Len(issued)
  /\ snap.for \in {"none", "stream", "probe"}
  /\ snap.at \in {"parts", "prompt", "seq", "status"}
  /\ rx \in 0 .. Len(sent) + 1
  /\ mode \in {"connecting", "stream", "probe", "tail", "settled"}
  /\ snap.for # "none" => mode = snap.for
  /\ view.phase \in {"idle", "running"} \cup Terminal
  /\ view.parts \in Seq(1 .. MaxParts)
  /\ view.prompt \in 0 .. MaxPrompts
  /\ view.lastSeq \in 0 .. Len(issued)
  /\ view.wiped \in BOOLEAN
  /\ drops \in 0 .. MaxDrops
  /\ reply \in [prompt : 0 .. MaxPrompts, at : {"none", "asked", "taken"}]
  /\ taken \in BOOLEAN

Begin(for) == [NoSnap EXCEPT !.for = for]

\* The client has sent the message that started the run and its stream is on
\* the way, or it comes to the thread and asks for the run first. Another
\* client may have claimed the initial receiver.
Init ==
  /\ status = "running"
  /\ parts = 0
  /\ prompt = 0
  /\ issued = <<>>
  /\ sent = <<>>
  /\ closed = FALSE
  /\ initial \in BOOLEAN
  /\ task = "working"
  /\ stop = "idle"
  /\ out = [e \in Emitter |-> Nothing]
  /\ \/ mode = "connecting" /\ snap = NoSnap
     \/ mode = "probe" /\ snap = Begin("probe")
  /\ rx = 0
  /\ view = EmptyView
  /\ drops = 0
  /\ reply = NoReply
  /\ taken = FALSE

-----------------------------------------------------------------------------
(* emit and close *)

Emits(e, event, body) ==
  /\ out[e] = Nothing
  /\ out' = [out EXCEPT ![e] = [event |-> event, body |-> body, seq |-> 0]]

\* next_seq.fetch_add, before the lock of the channel is taken.
Number(e) ==
  /\ out[e].event # "none"
  /\ out[e].seq = 0
  /\ issued' = Append(issued, [event |-> out[e].event, body |-> out[e].body])
  /\ out' = [out EXCEPT ![e].seq = Len(issued')]
  /\ UNCHANGED <<runVars, sent, closed, initial, client>>

\* Nobody hears it when the channel is closed.
SendEvent(e) ==
  /\ out[e].seq > 0
  /\ sent' = IF closed THEN sent ELSE Append(sent, out[e].seq)
  /\ out' = [out EXCEPT ![e] = Nothing]
  /\ UNCHANGED <<runVars, issued, closed, initial, client>>

CloseChannel(e) ==
  /\ out[e] = Nothing
  /\ closed' = TRUE
  /\ initial' = FALSE
  /\ UNCHANGED <<status, parts, prompt, issued, sent, out, client>>

-----------------------------------------------------------------------------
(* The task of the run *)

\* How many of the first n events of s are of this kind.
CountIn(s, event, n) == Cardinality({i \in 1 .. n : s[i].event = event})

\* The prompts that have been raised so far.
Raised == CountIn(issued, "prompt", Len(issued))

\* The part callback: apply_part, then emit.
WritesPart ==
  /\ task = "working"
  /\ parts < MaxParts /\ parts + Raised < MaxOutput
  /\ parts' = parts + 1
  /\ Emits("task", "part", parts')
  /\ UNCHANGED <<status, prompt, task, stop, issued, sent, closed, initial, client>>

\* The permission callback: set_permission_request, then emit, then wait.
AsksUser ==
  /\ task = "working"
  /\ Raised < MaxPrompts /\ parts + Raised < MaxOutput
  /\ prompt' = Raised + 1
  /\ task' = "asking"
  /\ Emits("task", "prompt", prompt')
  /\ UNCHANGED <<status, parts, stop, issued, sent, closed, initial, client>>

\* The callback goes on: with the answer of this client, which the server has
\* taken, with that of another one, or at the timeout. No event tells it.
Answered ==
  /\ task = "asking"
  /\ out["task"] = Nothing
  /\ prompt' = 0
  /\ task' = "working"
  /\ UNCHANGED <<status, parts, stop, channel, initial, client>>

\* The agent is done; a run that finds itself cancelled ends without an event.
AgentReturns ==
  /\ task = "working"
  /\ out["task"] = Nothing
  /\ task' = IF status = "stopped" THEN "closing" ELSE "finishing"
  /\ UNCHANGED <<status, parts, prompt, stop, channel, initial, client>>

\* set_status, which a stop may have anticipated, and the event in any case.
Completes ==
  /\ task = "finishing"
  /\ task' = "closing"
  /\ status' = IF status = "stopped" THEN status ELSE "completed"
  /\ Emits("task", "done", 0)
  /\ UNCHANGED <<parts, prompt, stop, issued, sent, closed, initial, client>>

\* run_thread returned an error and the wrapper finds the flag clear.
AgentFails ==
  /\ task = "working"
  /\ out["task"] = Nothing
  /\ status = "running"
  /\ task' = "failing"
  /\ UNCHANGED <<status, parts, prompt, stop, channel, initial, client>>

\* Again a stop may have anticipated set_status, and the event comes anyway.
Fails ==
  /\ task = "failing"
  /\ task' = "closing"
  /\ status' = IF status = "stopped" THEN status ELSE "failed"
  /\ Emits("task", "error", 0)
  /\ UNCHANGED <<parts, prompt, stop, issued, sent, closed, initial, client>>

TaskCloses ==
  /\ task = "closing"
  /\ task' = "ended"
  /\ UNCHANGED stop
  /\ CloseChannel("task")

-----------------------------------------------------------------------------
(* stop *)

StopPublishes ==
  /\ stop = "idle"
  /\ status = "running"
  /\ stop' = "closing"
  /\ status' = "stopped"
  /\ Emits("stop", "stopped", 0)
  /\ UNCHANGED <<parts, prompt, task, issued, sent, closed, initial, client>>

StopCloses ==
  /\ stop = "closing"
  /\ stop' = "ended"
  /\ UNCHANGED task
  /\ CloseChannel("stop")

\* The hard abort drops the future of the task, and its prompt with it.
TaskAborted ==
  /\ stop = "ended"
  /\ task # "ended"
  /\ task' = "ended"
  /\ prompt' = 0
  /\ out' = [out EXCEPT !["task"] = Nothing]
  /\ UNCHANGED <<status, parts, stop, issued, sent, closed, initial, client>>

-----------------------------------------------------------------------------
(* snapshot: the fields in the order in which it reads them *)

PartsIn(n) == CountIn(issued, "part", n)

ReadsParts ==
  /\ snap.for # "none"
  /\ snap.at = "parts"
  /\ snap' = [snap EXCEPT !.at = "prompt", !.parts = parts]
  /\ UNCHANGED <<runVars, channel, initial, rx, mode, view, drops>>

ReadsPrompt ==
  /\ snap.at = "prompt"
  /\ snap' = [snap EXCEPT !.at = "seq", !.prompt = prompt]
  /\ UNCHANGED <<runVars, channel, initial, rx, mode, view, drops>>

\* "torn" is history: the fields read so far are not those of this number.
ReadsSeq ==
  /\ snap.at = "seq"
  /\ snap' = [snap EXCEPT !.at = "status", !.seq = Len(issued),
                          !.torn = \/ snap.parts # PartsIn(Len(issued))
                                   \/ snap.prompt # prompt /\ prompt = Raised]
  /\ UNCHANGED <<runVars, channel, initial, rx, mode, view, drops>>

-----------------------------------------------------------------------------
(* The reducer of the client *)

\* _finishSnapshot
Finished(phase) == [EmptyView EXCEPT !.phase = phase]

\* Mutant of FromSnapshot: a prompt is only taken from its event.
SnapshotSansPrompt ==
  [phase |-> status, parts |-> [i \in 1 .. snap.parts |-> i],
   prompt |-> 0, lastSeq |-> snap.seq, torn |-> snap.torn,
   wiped |-> FALSE]

FromSnapshot ==
  [phase |-> status, parts |-> [i \in 1 .. snap.parts |-> i],
   prompt |-> snap.prompt, lastSeq |-> snap.seq, torn |-> snap.torn,
   wiped |-> FALSE]

\* A "state" event: whatever the client had is replaced.
ReduceState == IF status \in {"completed", "failed"} THEN Finished(status) ELSE FromSnapshot

Stale(n) == n <= view.lastSeq

\* An event that is not stale. "stopped" leaves the parts and the number alone;
\* the store finishes on "done" and "error" even if the reducer dropped them.
Reduce(n) ==
  LET ev == issued[n]
  IN CASE ev.event = "done" -> Finished("completed")
       [] ev.event = "error" -> Finished("failed")
       [] ev.event = "part" /\ ~ Stale(n) ->
            [view EXCEPT !.phase = "running", !.parts = Append(@, ev.body), !.lastSeq = n]
       [] ev.event = "prompt" /\ ~ Stale(n) ->
            [view EXCEPT !.phase = "running", !.prompt = ev.body, !.lastSeq = n,
                         !.wiped = FALSE]
       [] ev.event = "stopped" /\ ~ Stale(n) ->
            [view EXCEPT !.phase = "stopped", !.prompt = 0]
       [] OTHER -> view

-----------------------------------------------------------------------------
(* The stream of the client *)

\* events_stream: first the receiver, then the snapshot. A closed run has an
\* empty stream behind its snapshot.
Subscribes ==
  /\ mode = "connecting"
  /\ mode' = "stream"
  /\ snap' = Begin("stream")
  /\ rx' = IF initial THEN 1 ELSE IF closed THEN 0 ELSE Len(sent) + 1
  /\ initial' = FALSE
  /\ UNCHANGED <<runVars, channel, view, drops>>

\* The snapshot of the stream is complete and reaches the client.
ReceivesState ==
  /\ snap.for = "stream"
  /\ snap.at = "status"
  /\ view' = ReduceState
  /\ snap' = NoSnap
  /\ UNCHANGED <<runVars, channel, initial, rx, mode, drops>>

Waiting == rx > 0 /\ rx <= Len(sent)
Lagging == Waiting /\ Len(sent) - rx + 1 > Capacity
Listening == mode = "stream" /\ snap.for = "none"

\* The last event of a run ends the stream on the client's side, whether or
\* not the reducer dropped it.
ReceivesEvent ==
  /\ Listening
  /\ Waiting /\ ~ Lagging
  /\ view' = Reduce(sent[rx])
  /\ mode' = CASE issued[sent[rx]].event \in {"done", "error"} -> "settled"
               [] issued[sent[rx]].event = "stopped" -> "tail"
               [] OTHER -> mode
  /\ rx' = IF mode' = mode THEN rx + 1 ELSE 0
  /\ UNCHANGED <<runVars, channel, initial, snap, drops>>

\* Mutant of Lags: the events that were overwritten are skipped, no snapshot
\* is sent.
SkipsLost ==
  /\ Listening
  /\ Lagging
  /\ rx' = Len(sent) - Capacity + 1
  /\ UNCHANGED <<runVars, channel, initial, snap, mode, view, drops>>

\* Events were overwritten before they were read: the receiver goes on with
\* the oldest that is left, and a snapshot is sent first.
Lags ==
  /\ Listening
  /\ Lagging
  /\ rx' = Len(sent) - Capacity + 1
  /\ snap' = Begin("stream")
  /\ UNCHANGED <<runVars, channel, initial, mode, view, drops>>

\* Mutant of StreamEnds: a phase that is not running is taken for the outcome,
\* and a client that shows a running run goes on waiting for events.
StreamEndsForGood ==
  /\ Listening
  /\ closed /\ ~ Waiting
  /\ mode' = IF view.phase = "running" THEN mode ELSE "settled"
  /\ rx' = IF view.phase = "running" THEN rx ELSE 0
  /\ UNCHANGED <<runVars, channel, initial, snap, view, drops>>

\* The channel is closed and read to its end without a last event.
StreamEnds ==
  /\ Listening
  /\ closed /\ ~ Waiting
  /\ mode' = "probe"
  /\ snap' = Begin("probe")
  /\ rx' = 0
  /\ UNCHANGED <<runVars, channel, initial, view, drops>>

\* Mutant of Breaks: a stream that died means that the run failed.
BreaksFails ==
  /\ mode = "stream"
  /\ drops < MaxDrops
  /\ drops' = drops + 1
  /\ mode' = "settled"
  /\ view' = Finished("failed")
  /\ snap' = NoSnap
  /\ rx' = 0
  /\ UNCHANGED <<runVars, channel, initial>>

\* The connection breaks; what was on its way is lost.
Breaks ==
  /\ mode = "stream"
  /\ drops < MaxDrops
  /\ drops' = drops + 1
  /\ mode' = "probe"
  /\ snap' = Begin("probe")
  /\ rx' = 0
  /\ UNCHANGED <<runVars, channel, initial, view>>

\* resume and _recoverStream ask for the run: one that runs is subscribed to
\* again, with the view of the answer; the outcome of any other is shown.
Probed ==
  /\ snap.for = "probe"
  /\ snap.at = "status"
  /\ view' = ReduceState
  /\ mode' = CASE status = "running" -> "connecting"
               [] status = "stopped" -> "tail"
               [] OTHER -> "settled"
  /\ snap' = NoSnap
  /\ UNCHANGED <<runVars, channel, initial, rx, drops>>

\* _refreshTailAfterStop: the partial reply of a stopped run stays in view
\* until its row is found, or for twenty polls.
TailRefreshed ==
  /\ mode = "tail"
  /\ mode' = "settled"
  /\ view' = EmptyView
  /\ UNCHANGED <<runVars, channel, initial, snap, rx, drops>>

-----------------------------------------------------------------------------
(* The client's answer to a prompt *)

\* respondToPermissionRequest, respondToAskRequest: one request at a time, for
\* the prompt that is in front of the user.
ClientAnswers ==
  /\ reply.at = "none"
  /\ view.prompt # 0
  /\ reply' = [prompt |-> view.prompt, at |-> "asked"]
  /\ UNCHANGED <<watched, taken>>

\* The server takes the answer to a prompt that is pending, once.
ServerTakesAnswer ==
  /\ reply.at = "asked"
  /\ task = "asking"
  /\ reply.prompt = prompt
  /\ ~ taken
  /\ reply' = [reply EXCEPT !.at = "taken"]
  /\ taken' = TRUE
  /\ UNCHANGED watched

\* The request fails, the server refuses it, as it does when another client or
\* the timeout was ahead, or its response is lost: the prompt stays in view.
AnswerFails ==
  /\ reply.at # "none"
  /\ reply' = NoReply
  /\ UNCHANGED <<watched, taken>>

\* The response clears the prompt that is shown, whichever that is by then;
\* "wiped" is history: it was another than the one that was answered.
ReplyArrives ==
  /\ reply.at = "taken"
  /\ reply' = NoReply
  /\ view' = [view EXCEPT !.prompt = 0, !.wiped = @ \/ view.prompt \notin {0, reply.prompt}]
  /\ UNCHANGED <<runVars, channel, initial, snap, rx, mode, drops, taken>>

-----------------------------------------------------------------------------
(* The specification *)

Agent == WritesPart \/ AsksUser \/ AgentReturns \/ AgentFails

Task ==
  \/ Number("task") \/ SendEvent("task")
  \/ Completes \/ Fails \/ TaskCloses \/ TaskAborted

Stop == Number("stop") \/ SendEvent("stop") \/ StopCloses

Client ==
  \/ Subscribes \/ ReceivesState \/ ReceivesEvent \/ Lags \/ StreamEnds \/ Probed
  \/ TailRefreshed
  \/ ReadsParts \/ ReadsPrompt \/ ReadsSeq

Watching ==
  \/ Agent \/ Answered \/ Task
  \/ StopPublishes \/ Stop
  \/ Client \/ Breaks

Answering == ClientAnswers \/ ServerTakesAnswer \/ AnswerFails \/ ReplyArrives

\* Once the callback goes on, nothing waits for an answer.
Waits == UNCHANGED reply /\ taken' = (taken /\ task' = "asking")

Next == (Watching /\ Waits) \/ Answering

Spec == Init /\ [][Next]_vars

\* Emitting and closing go on, and so does the client. The agent may work for
\* ever, and nobody has to answer or to stop.
FairSpec ==
  /\ Spec
  /\ WF_vars(Task /\ Waits)
  /\ WF_vars(Stop /\ Waits)
  /\ WF_vars(Client /\ Waits)

-----------------------------------------------------------------------------
(* Properties *)

\* What a client that watches a running run shows is the output of the run up
\* to the number it has seen: no part twice and none missing, over late
\* subscriptions, the initial receiver, overwritten events, broken connections
\* and resubscriptions. (Unless the snapshot it started from was torn.)
ViewIsRun ==
  status = "running" /\ view.phase = "running" /\ ~ view.torn =>
    view.parts = [i \in 1 .. PartsIn(view.lastSeq) |-> i]

\* The stream has been read up to the last event that was emitted.
CaughtUp == Listening /\ ~ Waiting /\ out["task"] = Nothing /\ ~ closed

\* A prompt the run waits on is in front of a client that has caught up, until
\* its answer is taken: "A missed permission_request would strand the run". It
\* is not if the snapshot was torn, or if the reply to an earlier answer came
\* after it and cleared it, as the client clears whatever it shows.
PromptIsShown ==
  CaughtUp /\ task = "asking" /\ ~ taken /\ ~ view.torn /\ ~ view.wiped =>
    view.prompt = prompt

\* What a watching client shows is what the run is at: its output, and what it
\* asks.
ClientShowsRun == ViewIsRun /\ PromptIsShown

\* A client that has given up its stream for good does not show a run in
\* progress, and the run is over: a broken connection is not taken for a
\* failed run ("A dropped stream made clients mark still-running turns as
\* failed").
SettledIsOver ==
  mode = "settled" => view.phase # "running" /\ status # "running"

\* Every client learns that the run is over, whatever it missed.
ClientSettles == (status \in Terminal) ~> (mode = "settled")

-----------------------------------------------------------------------------
(* A statement of the source that the code does not keep *)

\* "Subscribe first so events emitted while the snapshot is being built are
\* captured in the live stream and not lost": a client that has caught up has
\* the prompt of the run.
NoPromptLost ==
  CaughtUp /\ task = "asking" /\ ~ taken => view.prompt = prompt

=============================================================================
