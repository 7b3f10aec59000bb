---------------------------- MODULE RunAttention ----------------------------
(***************************************************************************)
(* What a run asks of its user: permission prompts and asks (the callbacks *)
(* and answers of permissions.rs), the pause for a rate limit              *)
(* (rate_limit.rs), the attention part of the lifecycle feed               *)
(* (thread_runner.rs) and the two readers of that feed: the dispatcher of  *)
(* push notifications (push/dispatch.rs) and the sidebar's event stream    *)
(* (runs_events of runs.rs). One run, whose prompts come one after         *)
(* another, as the providers raise them.                                   *)
(***************************************************************************)
EXTENDS Naturals, Sequences, FiniteSets, SequencesExt

CONSTANTS
  Client,      \* clients that answer prompts; each answers once
  MaxWaits,    \* bound on the prompts and the pauses for a rate limit of the run
  Capacity     \* capacity of the broadcast channel (256 in the code)

ASSUME AttentionConstants ==
  /\ MaxWaits \in Nat
  /\ Capacity \in Nat \ {0}

VARIABLES
  status,     \* RunState.status
  cancelled,  \* RunState.cancelled
  stopper,    \* where the stop of the run is
  task,       \* where the run's task is
  kind,       \* kind[i]: what prompt i asks for
  field,      \* permission_request, ask_request (prompt numbers) and rate_limit
  limits,     \* pauses for a rate limit so far
  pending,    \* the pending maps: prompts with an entry
  removals,   \* prompts whose RemoveOnDrop task has not run yet
  answer,     \* answer[i]: what is in the oneshot channel of prompt i
  outcome,    \* outcome[i]: what the callback of prompt i returned
  responder,  \* responder[c]: where the request of client c is
  publisher,  \* publish_attention: where it is
  deferred,   \* a deferred publish_attention is waiting for the status lock
  feed,       \* what has been sent to the lifecycle feed
  pump,       \* the push dispatcher
  sidebar,    \* a subscriber of runs_events
  reader      \* which of the two this behaviour follows; neither affects the run

runVars == <<status, cancelled, stopper, task, limits>>
promptVars == <<kind, pending, removals, answer, outcome>>
publishing == <<publisher, deferred>>
readers == <<pump, sidebar, reader>>
vars == <<runVars, promptVars, field, responder, publishing, feed, readers>>

PromptKind == {"permission", "ask"}
Terminal == {"Completed", "Failed", "Stopped"}
NoFlag == "none"
Event == [status : {"Running"} \cup Terminal, attention : PromptKind \cup {"rate_limit", NoFlag}]
Prompts == 1 .. Len(kind)
Current == Len(kind)

TypeOK ==
  /\ status \in {"Running"} \cup Terminal
  /\ cancelled \in BOOLEAN
  /\ stopper \in {"idle", "flags", "enters", "writes", "grace"}
  /\ task \in {"works", "enters", "raises", "waits", "limited", "done"}
  /\ kind \in Seq(PromptKind) /\ Len(kind) <= MaxWaits
  /\ field \in [permission : 0 .. MaxWaits, ask : 0 .. MaxWaits, rate_limit : BOOLEAN]
  /\ limits \in 0 .. MaxWaits
  /\ pending \subseteq Prompts /\ removals \subseteq Prompts
  /\ answer \in [1 .. MaxWaits -> {"open", "allow", "dismiss"}]
  /\ outcome \in [1 .. MaxWaits -> {"none", "allow", "cancel", "dropped"}]
  /\ responder \in [Client -> [at : {"idle", "holds", "ok", "gone"},
                               prompt : 0 .. MaxWaits, says : {"allow", "dismiss"}]]
  /\ publisher \in {"idle", "reads", "sends"}
  /\ deferred \in BOOLEAN
  /\ feed \in Seq(Event)
  /\ pump \in [at : 0 .. Len(feed), announced : SUBSET PromptKind, pushes : Nat, lagged : BOOLEAN]
  /\ sidebar \in [mode : {"off", "subscribed", "live"}, at : 0 .. Len(feed), view : Event]
  /\ reader \in {"pump", "sidebar"}

Happens(s, flag) == [status |-> s, attention |-> flag]

Init ==
  /\ status = "Running" /\ cancelled = FALSE /\ stopper = "idle" /\ task = "works"
  /\ kind = <<>> /\ limits = 0
  /\ field = [permission |-> 0, ask |-> 0, rate_limit |-> FALSE]
  /\ pending = {} /\ removals = {}
  /\ answer = [i \in 1 .. MaxWaits |-> "open"]
  /\ outcome = [i \in 1 .. MaxWaits |-> "none"]
  /\ responder = [c \in Client |-> [at |-> "idle", prompt |-> 0, says |-> "dismiss"]]
  /\ publisher = "idle" /\ deferred = FALSE
  /\ feed = <<Happens("Running", NoFlag)>>
  /\ pump = [at |-> 0, announced |-> {}, pushes |-> 0, lagged |-> FALSE]
  /\ sidebar = [mode |-> "off", at |-> 0, view |-> Happens("Running", NoFlag)]
  /\ reader \in {"pump", "sidebar"}

(***************************************************************************)
(* The lifecycle feed                                                      *)
(***************************************************************************)

\* What the run waits on; a permission wins when several apply.
CurrentAttention ==
  CASE field.permission # 0 -> "permission"
    [] field.permission = 0 /\ field.ask # 0 -> "ask"
    [] field.permission = 0 /\ field.ask = 0 /\ field.rate_limit -> "rate_limit"
    [] OTHER -> NoFlag

\* What a snapshot of the registry says of the run.
Truth == Happens(status, IF status = "Running" THEN CurrentAttention ELSE NoFlag)

\* stop holds the status lock from its write to its event.
StatusLocked == stopper = "writes"

\* Between the synchronous steps of the task nothing else of it happens.
TaskIdle == publisher = "idle"

\* A field changes and publish_attention is called.
Publishes(f) ==
  /\ field' = f
  /\ publisher' = "reads"

\* The status is read and its lock released; a writer defers the call.
PublishReads ==
  /\ publisher = "reads"
  /\ publisher' = IF ~StatusLocked /\ status = "Running" THEN "sends" ELSE "idle"
  /\ deferred' = (deferred \/ StatusLocked)
  /\ UNCHANGED <<runVars, promptVars, field, responder, feed, readers>>

PublishSends ==
  /\ publisher = "sends"
  /\ publisher' = "idle"
  /\ feed' = Append(feed, Happens("Running", CurrentAttention))
  /\ UNCHANGED <<runVars, promptVars, field, responder, deferred, readers>>

PublishDeferred ==
  /\ deferred /\ ~StatusLocked
  /\ deferred' = FALSE
  /\ feed' = IF status = "Running" THEN Append(feed, Happens("Running", CurrentAttention)) ELSE feed
  /\ UNCHANGED <<runVars, promptVars, field, responder, publisher, readers>>

(***************************************************************************)
(* The task of the run                                                     *)
(***************************************************************************)

\* The agent asks: the callback makes its guard and goes for the map lock.
Asks(k) ==
  /\ task = "works" /\ TaskIdle /\ Len(kind) + limits < MaxWaits
  /\ kind' = Append(kind, k)
  /\ task' = "enters"
  /\ UNCHANGED <<status, cancelled, stopper, limits, pending, removals, answer, outcome,
                 field, responder, publishing, feed, readers>>

\* Mutant of Registers: the prompt is raised without an entry.
RegistersNothing ==
  /\ task = "enters"
  /\ task' = "raises"
  /\ UNCHANGED <<status, cancelled, stopper, limits, promptVars, field, responder, publishing,
                 feed, readers>>

Registers ==
  /\ task = "enters"
  /\ pending' = pending \cup {Current}
  /\ task' = "raises"
  /\ UNCHANGED <<status, cancelled, stopper, limits, kind, removals, answer, outcome, field,
                 responder, publishing, feed, readers>>

Raises ==
  /\ task = "raises"
  /\ Publishes([field EXCEPT ![kind[Current]] = Current])
  /\ task' = "waits"
  /\ UNCHANGED <<status, cancelled, stopper, limits, promptVars, responder, deferred, feed, readers>>

\* The callback returns o: the field is cleared, and its guard spawns a
\* removal, whether or not the answer has taken the entry out already.
Returns(o) ==
  /\ outcome' = [outcome EXCEPT ![Current] = o]
  /\ Publishes([field EXCEPT ![kind[Current]] = 0])
  /\ removals' = removals \cup {Current}
  /\ task' = "works"
  /\ UNCHANGED <<status, cancelled, stopper, limits, kind, pending, answer, responder, deferred,
                 feed, readers>>

Answered ==
  /\ task = "waits" /\ TaskIdle
  /\ answer[Current] # "open"
  /\ Returns(IF answer[Current] = "allow" THEN "allow" ELSE "cancel")

TimesOut ==
  /\ task = "waits" /\ TaskIdle
  /\ answer[Current] = "open"
  /\ Returns("cancel")

\* Mutant of CallbackDropped: without the guard.
CallbackForgotten ==
  /\ task \in {"enters", "waits"} /\ TaskIdle
  /\ cancelled
  /\ outcome' = [outcome EXCEPT ![Current] = "dropped"]
  /\ task' = "done"
  /\ UNCHANGED <<status, cancelled, stopper, limits, kind, pending, removals, answer, field,
                 responder, publishing, feed, readers>>

\* The callback's future is dropped: the provider reacts to the flag, or the
\* task is aborted. The guard clears the field if it still is this prompt's.
CallbackDropped ==
  /\ task \in {"enters", "waits"} /\ TaskIdle
  /\ cancelled
  /\ outcome' = [outcome EXCEPT ![Current] = "dropped"]
  /\ removals' = removals \cup {Current}
  /\ IF field[kind[Current]] = Current
     THEN Publishes([field EXCEPT ![kind[Current]] = 0])
     ELSE UNCHANGED <<field, publisher>>
  /\ task' = "done"
  /\ UNCHANGED <<status, cancelled, stopper, limits, kind, pending, answer, responder, deferred,
                 feed, readers>>

\* The task a guard has spawned.
RemovesEntry(i) ==
  /\ i \in removals
  /\ removals' = removals \ {i}
  /\ pending' = pending \ {i}
  /\ UNCHANGED <<runVars, kind, answer, outcome, field, responder, publishing, feed, readers>>

LimitBegins ==
  /\ task = "works" /\ TaskIdle /\ ~cancelled /\ Len(kind) + limits < MaxWaits
  /\ limits' = limits + 1
  /\ task' = "limited"
  /\ Publishes([field EXCEPT !.rate_limit = TRUE])
  /\ UNCHANGED <<status, cancelled, stopper, promptVars, responder, deferred, feed, readers>>

\* The wait is over or the run cancelled; a stop may have cleared the field,
\* and then nothing is published.
LimitEnds ==
  /\ task = "limited" /\ TaskIdle
  /\ task' = "works"
  /\ IF field.rate_limit THEN Publishes([field EXCEPT !.rate_limit = FALSE])
     ELSE UNCHANGED <<field, publisher>>
  /\ UNCHANGED <<status, cancelled, stopper, limits, promptVars, responder, deferred, feed, readers>>

\* set_status: ignored once the run is cancelled.
Finishes(s) ==
  /\ task = "works" /\ TaskIdle /\ ~StatusLocked
  /\ task' = "done"
  /\ IF cancelled THEN UNCHANGED <<status, feed>>
     ELSE /\ status' = s
          /\ feed' = Append(feed, Happens(s, NoFlag))
  /\ UNCHANGED <<cancelled, stopper, limits, promptVars, field, responder, publishing, readers>>

(***************************************************************************)
(* A stop                                                                  *)
(***************************************************************************)

StopReads ==
  /\ stopper = "idle" /\ status = "Running"
  /\ stopper' = "flags"
  /\ UNCHANGED <<status, cancelled, task, limits, promptVars, field, responder, publishing, feed, readers>>

\* The flag, and clear_rate_limit, which does not publish.
StopFlags ==
  /\ stopper = "flags"
  /\ stopper' = "enters"
  /\ cancelled' = TRUE
  /\ field' = [field EXCEPT !.rate_limit = FALSE]
  /\ UNCHANGED <<status, task, limits, promptVars, responder, publishing, feed, readers>>

StopWrites ==
  /\ stopper = "enters"
  /\ stopper' = "writes"
  /\ status' = "Stopped"
  /\ UNCHANGED <<cancelled, task, limits, promptVars, field, responder, publishing, feed, readers>>

StopPublishes ==
  /\ stopper = "writes"
  /\ stopper' = "grace"
  /\ feed' = Append(feed, Happens("Stopped", NoFlag))
  /\ UNCHANGED <<status, cancelled, task, limits, promptVars, field, responder, publishing, readers>>

\* The hard abort of a task that is not in a callback.
TaskAborted ==
  /\ stopper = "grace" /\ task \in {"works", "limited"} /\ TaskIdle
  /\ task' = "done"
  /\ UNCHANGED <<status, cancelled, stopper, limits, promptVars, field, responder, publishing, feed, readers>>

(***************************************************************************)
(* Answers: respond_permission and respond_ask                             *)
(***************************************************************************)

\* Under the map lock the entry is looked up and taken out.
TakesEntry(c, i, a) ==
  /\ responder[c].at = "idle" /\ i \in pending
  /\ pending' = pending \ {i}
  /\ responder' = [responder EXCEPT ![c] = [at |-> "holds", prompt |-> i, says |-> a]]
  /\ UNCHANGED <<runVars, kind, removals, answer, outcome, field, publishing, feed, readers>>

\* Mutant of Sends: the send's error is not looked at.
SendsBlindly(c) ==
  LET r == responder[c]
  IN /\ r.at = "holds"
     /\ responder' = [responder EXCEPT ![c].at = "ok"]
     /\ answer' = IF outcome[r.prompt] = "none" THEN [answer EXCEPT ![r.prompt] = r.says] ELSE answer
     /\ UNCHANGED <<runVars, kind, pending, removals, outcome, field, publishing, feed, readers>>

\* Later it is sent to; a dismissal drops the sender and is OK in any case.
Sends(c) ==
  LET r == responder[c]
      heard == outcome[r.prompt] = "none"
  IN /\ r.at = "holds"
     /\ responder' = [responder EXCEPT ![c].at =
                        IF heard \/ r.says = "dismiss" THEN "ok" ELSE "gone"]
     /\ answer' = IF heard THEN [answer EXCEPT ![r.prompt] = r.says] ELSE answer
     /\ UNCHANGED <<runVars, kind, pending, removals, outcome, field, publishing, feed, readers>>

(***************************************************************************)
(* Readers of the feed                                                     *)
(***************************************************************************)

\* A receiver that is more than the channel behind loses the oldest events.
Lags(at) == Len(feed) - at > Capacity
Oldest == Len(feed) - Capacity

\* Mutant of Decide: kinds stay announced when the flag clears.
DecideForever(announced, ev) ==
  IF ev.status # "Running" THEN [push |-> ev.status # "Stopped", announced |-> {}]
  ELSE IF ev.attention \notin PromptKind THEN [push |-> FALSE, announced |-> announced]
  ELSE [push |-> ev.attention \notin announced, announced |-> announced \cup {ev.attention}]

\* decide: which push an event is worth, and the kinds announced afterwards.
Decide(announced, ev) ==
  IF ev.status # "Running" THEN [push |-> ev.status # "Stopped", announced |-> {}]
  ELSE IF ev.attention \notin PromptKind THEN [push |-> FALSE, announced |-> {}]
  ELSE [push |-> ev.attention \notin announced, announced |-> announced \cup {ev.attention}]

PumpReads ==
  /\ reader = "pump" /\ pump.at < Len(feed)
  /\ LET next == Decide(pump.announced, feed[pump.at + 1])
     IN pump' = IF Lags(pump.at) THEN [pump EXCEPT !.at = Oldest, !.lagged = TRUE]
                ELSE [pump EXCEPT !.at = @ + 1,
                                  !.announced = next.announced,
                                  !.pushes = IF next.push THEN @ + 1 ELSE @]
  /\ UNCHANGED <<runVars, promptVars, field, responder, publishing, feed, sidebar, reader>>

SidebarSubscribes ==
  /\ reader = "sidebar" /\ sidebar.mode = "off"
  /\ sidebar' = [sidebar EXCEPT !.mode = "subscribed", !.at = Len(feed)]
  /\ UNCHANGED <<runVars, promptVars, field, responder, publishing, feed, pump, reader>>

SidebarSnapshot ==
  /\ sidebar.mode = "subscribed"
  /\ sidebar' = [sidebar EXCEPT !.mode = "live", !.view = Truth]
  /\ UNCHANGED <<runVars, promptVars, field, responder, publishing, feed, pump, reader>>

\* Mutant of SidebarReads: a lagging subscriber goes on with what is left.
SidebarSkips ==
  /\ sidebar.mode = "live" /\ sidebar.at < Len(feed)
  /\ sidebar' = IF Lags(sidebar.at) THEN [sidebar EXCEPT !.at = Len(feed)]
                ELSE [sidebar EXCEPT !.at = @ + 1, !.view = feed[sidebar.at + 1]]
  /\ UNCHANGED <<runVars, promptVars, field, responder, publishing, feed, pump, reader>>

\* A subscriber that lags gets a fresh snapshot.
SidebarReads ==
  /\ sidebar.mode = "live" /\ sidebar.at < Len(feed)
  /\ sidebar' = IF Lags(sidebar.at) THEN [sidebar EXCEPT !.at = Oldest, !.view = Truth]
                ELSE [sidebar EXCEPT !.at = @ + 1, !.view = feed[sidebar.at + 1]]
  /\ UNCHANGED <<runVars, promptVars, field, responder, publishing, feed, pump, reader>>

(***************************************************************************)
(* Specification                                                           *)
(***************************************************************************)

Publish == PublishReads \/ PublishSends \/ PublishDeferred
Stop == StopReads \/ StopFlags \/ StopWrites \/ StopPublishes
Prompt == Registers \/ Raises \/ Answered \/ CallbackDropped

Next ==
  \/ Publish \/ Stop \/ Prompt
  \/ \E k \in PromptKind : Asks(k)
  \/ TimesOut \/ LimitBegins \/ LimitEnds \/ TaskAborted
  \/ \E s \in {"Completed", "Failed"} : Finishes(s)
  \/ \E i \in Prompts : RemovesEntry(i)
  \/ \E c \in Client : \E i \in Prompts, a \in {"allow", "dismiss"} : TakesEntry(c, i, a)
  \/ \E c \in Client : Sends(c)
  \/ PumpReads \/ SidebarSubscribes \/ SidebarSnapshot \/ SidebarReads

Spec == Init /\ [][Next]_vars

\* What the runtime does by itself. A stopped run's callback is dropped, by
\* the provider or ten seconds later; agents, users and time-outs owe nothing.
Fairness ==
  /\ WF_vars(Publish)
  /\ WF_vars(StopFlags \/ StopWrites \/ StopPublishes)
  /\ WF_vars(Prompt)
  /\ WF_vars(TaskAborted)
  /\ \A i \in 1 .. MaxWaits : WF_vars(i \in Prompts /\ RemovesEntry(i))
  /\ \A c \in Client : WF_vars(Sends(c))

FairSpec == Spec /\ Fairness

(***************************************************************************)
(* Properties                                                              *)
(***************************************************************************)

\* An answer that was acknowledged is the one the agent gets, unless its run
\* was stopped: no second client, time-out or late removal comes in between.
\* A dismissal may find the prompt timed out, which is the same to the agent.
AnswerIsObeyed ==
  \A c \in Client :
    responder[c].at = "ok" =>
      LET i == responder[c].prompt
      IN /\ responder[c].says = "allow" => outcome[i] \in {"none", "allow", "dropped"}
         /\ outcome[i] = "allow" => responder[c].says = "allow"

\* While a run waits for its user, somebody can still answer it: its prompt is
\* registered, being answered or answered, and the snapshot of the run says
\* what it waits for.
WaitingIsAnswerable ==
  task = "waits" =>
    /\ \/ Current \in pending \/ answer[Current] # "open"
       \/ \E c \in Client : responder[c].at = "holds" /\ responder[c].prompt = Current
    /\ CurrentAttention = kind[Current]

\* A prompt gets the answer that its user was told it got, and can get one.
PromptsAreAnswered == AnswerIsObeyed /\ WaitingIsAnswerable

\* A sidebar that has read everything shows the run as it is, provided nothing
\* is on its way to the feed and no event of attention has come after the
\* terminal one (see TerminalEventIsLast).
SidebarIsCurrent ==
  LET quiet == publisher = "idle" /\ ~deferred /\ ~StatusLocked
      late == status # "Running" /\ Last(feed).status = "Running"
  IN sidebar.mode = "live" /\ sidebar.at = Len(feed) /\ quiet /\ ~late
       => \/ sidebar.view = Truth
          \/ stopper = "enters" /\ sidebar.view = Happens("Running", "rate_limit")

\* A dispatcher that has read everything and lost nothing has sent one push for
\* each prompt that was raised, not one per event.
EachPromptIsPushed ==
  pump.at = Len(feed) /\ ~pump.lagged /\ publisher = "idle" /\ status = "Running" /\ ~cancelled
    => pump.pushes = Cardinality({i \in Prompts : i < Current \/ task \notin {"enters", "raises"}})

\* No prompt of a run that is over stays in the pending maps, however the run
\* has ended.
PendingDrains == task = "done" ~> pending = {}

\* A run does not go back to Running in the feed. thread_runner.rs says racing
\* transitions "reach subscribers in status order" (315) and that attention is
\* "only meaningful while the run is live" (348).
TerminalEventIsLast ==
  [][feed # feed' /\ Last(feed').status = "Running" => Last(feed).status = "Running"]_feed

=============================================================================
