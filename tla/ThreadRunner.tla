---------------------------- MODULE ThreadRunner ----------------------------
(***************************************************************************)
(* The background-run registry of the server (src/src/thread_runner.rs):   *)
(* the map from threads to runs, the task that drives a run, stop with its *)
(* graceful cancellation and hard abort, the retention of finished         *)
(* records, the lifecycle feed, and stop_all at shutdown.                  *)
(*                                                                         *)
(* A step is what one task does between two points where another one may   *)
(* run in between. set_status is one step: it holds the status write lock  *)
(* until it has published, and every reader of a status takes that lock.   *)
(* start and the two removals hold the map lock and are one step each;     *)
(* stop holds it too, but the task of the run it stops does not need the   *)
(* map, so stop is split where that task can see it.                       *)
(***************************************************************************)

CONSTANTS
  Thread,       \* thread ids
  Run,          \* run ids (a fresh UUID per start): bounds the starts
  NoThread,     \* owner of a run that has not been started
  NoRun,        \* an empty map slot, or no stop in progress
  TaskMayPanic  \* whether the provider task of a run may panic

ASSUME RunnerConstants ==
  /\ NoThread \notin Thread
  /\ NoRun \notin Run
  /\ TaskMayPanic \in BOOLEAN

VARIABLES
  current,    \* ThreadRunner.runs: the run recorded for a thread
  owner,      \* RunState.thread_id
  status,     \* RunState.status ("idle" before the run exists)
  error,      \* whether RunState.error is set
  cancelled,  \* RunState.cancelled
  open,       \* RunState.events: the event sender is still there
  task,       \* where the spawned task of the run is
  reaper,     \* where the task is that stop spawns: grace, tail, done
  stopRun,    \* the run a stop (or stop_all) is in the middle of
  stopPc,     \* and how far it is
  announced,  \* the last event of the lifecycle feed, per thread
  shutdown,   \* where stop_all is
  swept,      \* the runs stop_all found in the map
  unvisited   \* and those of them it has yet to visit

vars == <<current, owner, status, error, cancelled, open, task, reaper,
          stopRun, stopPc, announced, shutdown, swept, unvisited>>

Terminal == {"completed", "failed", "stopped"}
Status == {"idle", "running"} \cup Terminal

(***************************************************************************)
(* The task of a run: "admitted" until run_thread has looked the thread    *)
(* up, "body" while it works, "finishing" once run_thread has set the run  *)
(* Completed itself; then the wrapper around it, after task_done is set:   *)
(* "ok"/"err" before it looks at the cancelled flag, "complete" and        *)
(* "seterror"/"fail" after it found the flag clear, "close", the "tail"    *)
(* that keeps the record, and "gone".                                      *)
(***************************************************************************)
InBody == {"admitted", "body", "finishing"}
TaskPc == {"unborn", "gone"} \cup InBody \cup
          {"ok", "err", "complete", "seterror", "fail", "close", "tail"}

Event(r, s) == [run |-> r, status |-> s]

TypeOK ==
  /\ current \in [Thread -> Run \cup {NoRun}]
  /\ owner \in [Run -> Thread \cup {NoThread}]
  /\ status \in [Run -> Status]
  /\ error \in [Run -> BOOLEAN]
  /\ cancelled \in [Run -> BOOLEAN]
  /\ open \in [Run -> BOOLEAN]
  /\ task \in [Run -> TaskPc]
  /\ reaper \in [Run -> {"none", "grace", "tail", "done"}]
  /\ stopRun \in Run \cup {NoRun}
  /\ stopPc \in {"idle", "cancel", "publish", "close"}
  /\ stopPc = "idle" <=> stopRun = NoRun
  /\ announced \in [Thread -> [run : Run \cup {NoRun}, status : Status]]
  /\ shutdown \in {"up", "sweeping", "draining", "aborting", "exited"}
  /\ swept \in SUBSET Run
  /\ unvisited \in SUBSET Run

Init ==
  /\ current = [t \in Thread |-> NoRun]
  /\ owner = [r \in Run |-> NoThread]
  /\ status = [r \in Run |-> "idle"]
  /\ error = [r \in Run |-> FALSE]
  /\ cancelled = [r \in Run |-> FALSE]
  /\ open = [r \in Run |-> FALSE]
  /\ task = [r \in Run |-> "unborn"]
  /\ reaper = [r \in Run |-> "none"]
  /\ stopRun = NoRun
  /\ stopPc = "idle"
  /\ announced = [t \in Thread |-> Event(NoRun, "idle")]
  /\ shutdown = "up"
  /\ swept = {}
  /\ unvisited = {}

-----------------------------------------------------------------------------
(* Helpers *)

\* The map lock is free. stop holds it from end to end; stop_all does not
\* take it, but no timer of two minutes runs out between two of its
\* statements, so the removals below may ask for the same condition.
MapFree == stopRun = NoRun

\* The run the map records for the thread is Running.
Active(t) == current[t] # NoRun /\ status[current[t]] = "running"

\* task_finished: task_done is set, or the task has ended in any way.
TaskFinished(r) == task[r] \notin InBody

\* Mutant of AbortRequested: stop_all aborts, the grace timer of stop does not.
AbortOnlyAtShutdown(r) == shutdown = "aborting" /\ r \in swept

\* An abort was requested of the task: by the grace timer of stop, or by
\* stop_all when its deadline passed.
AbortRequested(r) ==
  \/ reaper[r] \in {"tail", "done"}
  \/ shutdown = "aborting" /\ r \in swept

\* Mutant of SetStatus: the cancelled flag is not looked at under the lock.
SetStatusUnchecked(r, s) ==
  /\ status' = [status EXCEPT ![r] = s]
  /\ announced' = IF status[r] = s THEN announced
                  ELSE [announced EXCEPT ![owner[r]] = Event(r, s)]

\* set_status: ignored once the run is cancelled, unless it is the stop
\* itself; a change is published before the lock is released.
SetStatus(r, s) ==
  IF s # "stopped" /\ cancelled[r]
  THEN UNCHANGED <<status, announced>>
  ELSE /\ status' = [status EXCEPT ![r] = s]
       /\ announced' = IF status[r] = s THEN announced
                       ELSE [announced EXCEPT ![owner[r]] = Event(r, s)]

\* Mutant of Forget: no pointer comparison, whatever is in the slot goes.
ForgetWhatever(r) == current' = [current EXCEPT ![owner[r]] = NoRun]

\* Drop the record if the map still points at this very run.
Forget(r) ==
  current' = IF current[owner[r]] = r
             THEN [current EXCEPT ![owner[r]] = NoRun]
             ELSE current

\* The process has not exited.
Alive == shutdown # "exited"

Advance(r, from, to) ==
  /\ Alive
  /\ task[r] = from
  /\ task' = [task EXCEPT ![r] = to]

stopVars == <<stopRun, stopPc>>
sweepVars == <<shutdown, swept, unvisited>>

-----------------------------------------------------------------------------
(* start *)

\* A run is refused while the recorded one is Running; any other record is
\* displaced, whether or not its task has ended.
Start(t, r) ==
  /\ MapFree
  /\ shutdown = "up"
  /\ task[r] = "unborn"
  /\ ~ Active(t)
  /\ current' = [current EXCEPT ![t] = r]
  /\ owner' = [owner EXCEPT ![r] = t]
  /\ status' = [status EXCEPT ![r] = "running"]
  /\ open' = [open EXCEPT ![r] = TRUE]
  /\ task' = [task EXCEPT ![r] = "admitted"]
  /\ announced' = [announced EXCEPT ![t] = Event(r, "running")]
  /\ UNCHANGED <<error, cancelled, reaper, stopVars, sweepVars>>

-----------------------------------------------------------------------------
(* The task of a run *)

\* run_thread finds its thread and goes to work.
BodyEnters(r) ==
  /\ Advance(r, "admitted", "body")
  /\ UNCHANGED <<current, owner, status, error, cancelled, open, reaper,
                 stopVars, announced, sweepVars>>

\* run_thread returns before it worked: the thread row is gone.
BodyBails(r) ==
  /\ Advance(r, "admitted", "ok")
  /\ UNCHANGED <<current, owner, status, error, cancelled, open, reaper,
                 stopVars, announced, sweepVars>>

\* The provider failed, the reply could not be saved, or the run found
\* itself cancelled.
BodyFails(r) ==
  /\ Advance(r, "body", "err")
  /\ UNCHANGED <<current, owner, status, error, cancelled, open, reaper,
                 stopVars, announced, sweepVars>>

\* The last act of run_thread: Completed, then the "done" event.
BodyCompletes(r) ==
  /\ Advance(r, "body", "finishing")
  /\ SetStatus(r, "completed")
  /\ UNCHANGED <<current, owner, error, cancelled, open, reaper, stopVars,
                 sweepVars>>

BodyReturns(r) ==
  /\ Advance(r, "finishing", "ok")
  /\ UNCHANGED <<current, owner, status, error, cancelled, open, reaper,
                 stopVars, announced, sweepVars>>

\* A panic unwinds the body and the wrapper with it.
BodyPanics(r) ==
  /\ TaskMayPanic
  /\ Advance(r, "body", "gone")
  /\ UNCHANGED <<current, owner, status, error, cancelled, open, reaper,
                 stopVars, announced, sweepVars>>

\* Mutant of WrapperReadsFlag: a body that returned Ok is taken to have set
\* Completed itself.
WrapperTrustsBody(r) ==
  /\ \/ Advance(r, "ok", "close")
     \/ cancelled[r] /\ Advance(r, "err", "close")
     \/ ~ cancelled[r] /\ Advance(r, "err", "seterror")
  /\ UNCHANGED <<current, owner, status, error, cancelled, open, reaper,
                 stopVars, announced, sweepVars>>

\* The wrapper looks at the flag once.
WrapperReadsFlag(r) ==
  /\ \/ /\ cancelled[r]
        /\ Advance(r, "ok", "close") \/ Advance(r, "err", "close")
     \/ /\ ~ cancelled[r]
        /\ Advance(r, "ok", "complete") \/ Advance(r, "err", "seterror")
  /\ UNCHANGED <<current, owner, status, error, cancelled, open, reaper,
                 stopVars, announced, sweepVars>>

WrapperCompletes(r) ==
  /\ Advance(r, "complete", "close")
  /\ SetStatus(r, "completed")
  /\ UNCHANGED <<current, owner, error, cancelled, open, reaper, stopVars,
                 sweepVars>>

\* set_error
WrapperSetsError(r) ==
  /\ Advance(r, "seterror", "fail")
  /\ error' = [error EXCEPT ![r] = @ \/ ~ cancelled[r]]
  /\ UNCHANGED <<current, owner, status, cancelled, open, reaper, stopVars,
                 announced, sweepVars>>

WrapperFails(r) ==
  /\ Advance(r, "fail", "close")
  /\ SetStatus(r, "failed")
  /\ UNCHANGED <<current, owner, error, cancelled, open, reaper, stopVars,
                 sweepVars>>

WrapperCloses(r) ==
  /\ Advance(r, "close", "tail")
  /\ open' = [open EXCEPT ![r] = FALSE]
  /\ UNCHANGED <<current, owner, status, error, cancelled, reaper, stopVars,
                 announced, sweepVars>>

\* Two minutes later the record goes.
RetentionEnds(r) ==
  /\ MapFree
  /\ Advance(r, "tail", "gone")
  /\ Forget(r)
  /\ UNCHANGED <<owner, status, error, cancelled, open, reaper, stopVars,
                 announced, sweepVars>>

\* An aborted task ends at its next await, whatever it was doing.
TaskAborted(r) ==
  /\ Alive
  /\ AbortRequested(r)
  /\ task[r] \notin {"unborn", "gone"}
  /\ task' = [task EXCEPT ![r] = "gone"]
  /\ UNCHANGED <<current, owner, status, error, cancelled, open, reaper,
                 stopVars, announced, sweepVars>>

-----------------------------------------------------------------------------
(* stop *)

\* The handler holds the map lock and has read Running. (For any other
\* status it returns a snapshot and changes nothing.)
StopBegins(t) ==
  /\ MapFree
  /\ shutdown = "up"
  /\ Active(t)
  /\ stopRun' = current[t]
  /\ stopPc' = "cancel"
  /\ UNCHANGED <<current, owner, status, error, cancelled, open, task, reaper,
                 announced, sweepVars>>

StopCancels ==
  /\ stopPc = "cancel"
  /\ stopPc' = "publish"
  /\ cancelled' = [cancelled EXCEPT ![stopRun] = TRUE]
  /\ UNCHANGED <<current, owner, status, error, open, task, reaper, stopRun,
                 announced, sweepVars>>

StopPublishes ==
  /\ stopPc = "publish"
  /\ stopPc' = "close"
  /\ SetStatus(stopRun, "stopped")
  /\ UNCHANGED <<current, owner, error, cancelled, open, task, reaper,
                 stopRun, sweepVars>>

\* Mutant of StopCloses: the map lock is not released.
StopKeepsLock ==
  /\ stopPc = "close"
  /\ stopPc' = "idle"
  /\ open' = [open EXCEPT ![stopRun] = FALSE]
  /\ reaper' = [reaper EXCEPT ![stopRun] = "grace"]
  /\ UNCHANGED <<current, owner, status, error, cancelled, task, stopRun,
                 announced, sweepVars>>

\* The stream ends, the reaper is spawned and the lock is released. stop_all
\* spawns no reaper: its own loop watches the tasks.
StopCloses ==
  /\ stopPc = "close"
  /\ stopPc' = "idle"
  /\ stopRun' = NoRun
  /\ open' = [open EXCEPT ![stopRun] = FALSE]
  /\ reaper' = IF shutdown = "up"
               THEN [reaper EXCEPT ![stopRun] = "grace"]
               ELSE reaper
  /\ UNCHANGED <<current, owner, status, error, cancelled, task, announced,
                 sweepVars>>

\* Ten seconds are over: the task is aborted, if it still runs.
GraceEnds(r) ==
  /\ Alive
  /\ reaper[r] = "grace"
  /\ reaper' = [reaper EXCEPT ![r] = "tail"]
  /\ UNCHANGED <<current, owner, status, error, cancelled, open, task,
                 stopVars, announced, sweepVars>>

\* Another 110 seconds: the record goes.
ReaperForgets(r) ==
  /\ Alive
  /\ MapFree
  /\ reaper[r] = "tail"
  /\ reaper' = [reaper EXCEPT ![r] = "done"]
  /\ Forget(r)
  /\ UNCHANGED <<owner, status, error, cancelled, open, task, stopVars,
                 announced, sweepVars>>

-----------------------------------------------------------------------------
(* stop_all *)

\* The HTTP server has drained: no handler is in stop or start any more.
ShutdownBegins ==
  /\ shutdown = "up"
  /\ MapFree
  /\ shutdown' = "sweeping"
  /\ swept' = {current[t] : t \in Thread} \ {NoRun}
  /\ unvisited' = swept'
  /\ UNCHANGED <<current, owner, status, error, cancelled, open, task, reaper,
                 stopVars, announced>>

\* The next run of the list: cancelled like stop does it if it is Running.
SweepVisits(r) ==
  /\ shutdown = "sweeping"
  /\ stopRun = NoRun
  /\ r \in unvisited
  /\ unvisited' = unvisited \ {r}
  /\ IF status[r] = "running"
     THEN stopRun' = r /\ stopPc' = "cancel"
     ELSE UNCHANGED stopVars
  /\ UNCHANGED <<current, owner, status, error, cancelled, open, task, reaper,
                 announced, shutdown, swept>>

SweepEnds ==
  /\ shutdown = "sweeping"
  /\ stopRun = NoRun
  /\ unvisited = {}
  /\ shutdown' = "draining"
  /\ UNCHANGED <<current, owner, status, error, cancelled, open, task, reaper,
                 stopVars, announced, swept, unvisited>>

SweptFinished == \A r \in swept : TaskFinished(r)

DrainExpires ==
  /\ shutdown = "draining"
  /\ ~ SweptFinished
  /\ shutdown' = "aborting"
  /\ UNCHANGED <<current, owner, status, error, cancelled, open, task, reaper,
                 stopVars, announced, swept, unvisited>>

\* stop_all returns and the process exits. The two seconds it gives aborted
\* tasks are taken to be enough for them to end.
Exit ==
  /\ shutdown \in {"draining", "aborting"}
  /\ SweptFinished
  /\ shutdown' = "exited"
  /\ UNCHANGED <<current, owner, status, error, cancelled, open, task, reaper,
                 stopVars, announced, swept, unvisited>>

-----------------------------------------------------------------------------
(* The specification *)

\* What the runtime schedules by itself once it is possible: the statements
\* of a task outside the agent's work, timers and aborts.
Scheduled(r) ==
  \/ BodyEnters(r) \/ BodyBails(r) \/ BodyReturns(r)
  \/ WrapperReadsFlag(r) \/ WrapperCompletes(r)
  \/ WrapperSetsError(r) \/ WrapperFails(r) \/ WrapperCloses(r)
  \/ RetentionEnds(r) \/ TaskAborted(r)

\* What the agent does with the run, when it pleases.
Agent(r) == BodyFails(r) \/ BodyCompletes(r) \/ BodyPanics(r)

StopSteps == StopCancels \/ StopPublishes \/ StopCloses

ShutdownSteps ==
  \/ \E r \in Run : SweepVisits(r)
  \/ SweepEnds \/ DrainExpires \/ Exit

Requests ==
  \/ \E t \in Thread, r \in Run : Start(t, r)
  \/ \E t \in Thread : StopBegins(t)
  \/ ShutdownBegins

Next ==
  \/ Requests
  \/ StopSteps
  \/ ShutdownSteps
  \/ \E r \in Run : Scheduled(r) \/ Agent(r) \/ GraceEnds(r) \/ ReaperForgets(r)

Spec == Init /\ [][Next]_vars

\* Tasks are polled, timers fire, an abort takes effect. Nobody has to start,
\* stop or shut down, and an agent may work for ever.
Fairness ==
  /\ \A r \in Run :
       /\ WF_vars(Scheduled(r))
       /\ WF_vars(TaskAborted(r))
       /\ WF_vars(GraceEnds(r))
       /\ WF_vars(ReaperForgets(r))
  /\ WF_vars(StopSteps)
  /\ WF_vars(ShutdownSteps)

FairSpec == Spec /\ Fairness

-----------------------------------------------------------------------------
(* Safety *)

\* A thread has at most one run whose status is Running, and it is the one in
\* the map, so stop, the event stream and the next start can reach it. The
\* removals of old records, which fire minutes later and may find a newer
\* run in the slot, must not break this (start, the ptr_eq checks of the
\* retention tail and of the task stop spawns).
RunningIsCurrent ==
  \A r \in Run : status[r] = "running" => owner[r] \in Thread /\ current[owner[r]] = r

\* A cancelled run is reported Stopped once the stop is through: the task,
\* which may complete or fail at the same time, cannot overwrite it
\* (set_status looks at the flag under the write lock).
CancelledIsStopped ==
  \A r \in Run : cancelled[r] /\ stopRun # r => status[r] = "stopped"

\* A run that is reported Failed carries its error: set_error and set_status
\* take different locks and a stop may cancel in between.
FailureCarriesError ==
  \A r \in Run : status[r] = "failed" => error[r]

\* When the event stream of a run has ended, a client that asks again finds
\* the run settled, never still Running (close comes last in the wrapper and
\* in stop).
ClosedIsSettled ==
  \A r \in Run :
    task[r] # "unborn" /\ ~ open[r] /\ stopRun # r => status[r] \in Terminal

\* What a run is told to have come to is true: a stop wins, a failure has its
\* error, and the end of the stream is the end of the run, although flag, error,
\* status and stream are four steps of the wrapper and four of stop.
OutcomeIsTrue == CancelledIsStopped /\ FailureCarriesError /\ ClosedIsSettled

\* The lifecycle feed of a thread only speaks of the run in the map. A run
\* that was displaced while its task still drained is silent, otherwise a
\* client that keys its tile by thread would take the old outcome for the
\* new run's.
OnlyCurrentRunSpeaks ==
  [][\A t \in Thread :
       announced'[t] # announced[t] => announced'[t].run = current'[t]]_vars

\* The feed is the registry of RunRegistry: the slot is taken exactly while
\* the recorded run is Running, and every transition is told when it happens.
Slot == [t \in Thread |-> IF Active(t) THEN current[t] ELSE NoRun]

Registry == INSTANCE RunRegistry WITH
  live <- Slot,
  outcome <- status,
  told <- announced

ImplementsRegistry == Registry!RegistrySpec

-----------------------------------------------------------------------------
(* Liveness, under FairSpec *)

\* A stopped run does not linger: its task ends, gracefully or by the hard
\* abort, unless the process exits first.
StoppedTaskEnds ==
  \A r \in Run : cancelled[r] ~> (TaskFinished(r) \/ shutdown = "exited")

\* The record of a settled run whose task has ended leaves the map ("the
\* retention tail removes them later"), so the map does not grow with every
\* thread, even when the task panicked after it was stopped. (A task that
\* panics on its own leaves its run Running: that run is never settled.)
FinishedRecordLeaves ==
  LET Recorded(r) == \E t \in Thread : current[t] = r
  IN \A r \in Run :
       (Recorded(r) /\ TaskFinished(r) /\ status[r] \in Terminal)
         ~> (~ Recorded(r) \/ shutdown = "exited")

\* Shutdown comes to an end although agents may ignore the cancellation.
ShutdownEnds == (shutdown = "sweeping") ~> (shutdown = "exited")

\* Nothing that the runner has started to end stays: the tasks of stopped
\* runs, the records of settled ones, and the shutdown itself.
EndingsEnd == StoppedTaskEnds /\ FinishedRecordLeaves /\ ShutdownEnds

-----------------------------------------------------------------------------
(* Statements of the source that the code does not keep *)

\* stop "returns the final snapshot if a run was stopped, or the current
\* snapshot if it already finished or failed": a run that finished or failed
\* stays so.
OutcomeIsFinal ==
  [][\A r \in Run : status[r] \in Terminal => status'[r] = status[r]]_vars

=============================================================================
