-------------------------- MODULE WorktreeTeardown --------------------------
(***************************************************************************)
(* Deleting a thread (src/src/api/threads/routes.rs, delete; delete_one of *)
(* projects.rs does the same for each thread of a project): the row goes,  *)
(* then the run is stopped, then wait_finished polls until the tasks it    *)
(* watches have ended, then the worktree is removed. Meanwhile runs start, *)
(* end and are displaced as in ThreadRunner, and a send that had read the  *)
(* row before it went may still start one. All of it is the future of the  *)
(* request: a client that goes away drops it at any of these awaits.       *)
(***************************************************************************)
EXTENDS ThreadRunner

VARIABLES
  deletion,  \* deletion[t]: where the delete handler of t is
  watched,   \* watched[t]: the runs its wait_finished has seen in the map
  unseen     \* unseen[t]: unfinished runs of t displaced before the first look

teardownVars == <<deletion, watched, unseen>>

allVars == <<vars, teardownVars>>

TeardownTypeOK ==
  /\ TypeOK
  /\ deletion \in [Thread -> {"none", "stop", "look", "check", "cleanup", "removed",
                           "dropped"}]
  /\ watched \in [Thread -> SUBSET Run]
  /\ unseen \in [Thread -> SUBSET Run]
  /\ \A t \in Thread : watched[t] \cup unseen[t] \subseteq {r \in Run : owner[r] = t}

TeardownInit ==
  /\ Init
  /\ deletion = [t \in Thread |-> "none"]
  /\ watched = [t \in Thread |-> {}]
  /\ unseen = [t \in Thread |-> {}]

Deleted(t) == deletion[t] # "none"

\* The run works inside the worktree.
InWorktree(r) == task[r] = "body"

-----------------------------------------------------------------------------
(* The delete handler *)

DeleteRow(t) ==
  /\ deletion[t] = "none"
  /\ deletion' = [deletion EXCEPT ![t] = "stop"]
  /\ UNCHANGED <<vars, watched, unseen>>

\* stop: it begins like any other and goes on under the map lock. When the
\* recorded run is not Running it does nothing.
DeleteStops(t) ==
  /\ deletion[t] = "stop"
  /\ MapFree
  /\ deletion' = [deletion EXCEPT ![t] = "look"]
  /\ IF Active(t) THEN StopBegins(t) ELSE UNCHANGED vars
  /\ UNCHANGED <<watched, unseen>>

\* Mutant of WaitLooks: only the run that is in the map now is watched.
WaitLooksAnew(t) ==
  /\ deletion[t] = "look"
  /\ MapFree
  /\ deletion' = [deletion EXCEPT ![t] = "check"]
  /\ watched' = [watched EXCEPT ![t] = {current[t]} \ {NoRun}]
  /\ unseen' = [unseen EXCEPT ![t] =
       IF watched[t] = {} THEN {r \in Run : owner[r] = t /\ current[t] # r /\ ~ TaskFinished(r)}
       ELSE @]
  /\ UNCHANGED vars

\* wait_finished adds the recorded run to those it watches.
WaitLooks(t) ==
  /\ deletion[t] = "look"
  /\ MapFree
  /\ deletion' = [deletion EXCEPT ![t] = "check"]
  /\ watched' = [watched EXCEPT ![t] = @ \cup ({current[t]} \ {NoRun})]
  /\ unseen' = [unseen EXCEPT ![t] =
       IF watched[t] = {} THEN {r \in Run : owner[r] = t /\ current[t] # r /\ ~ TaskFinished(r)}
       ELSE @]
  /\ UNCHANGED vars

\* All watched tasks have ended, or it sleeps 50 ms and looks again.
WaitChecks(t) ==
  /\ deletion[t] = "check"
  /\ deletion' = [deletion EXCEPT ![t] =
       IF \A r \in watched[t] : TaskFinished(r) THEN "cleanup" ELSE "look"]
  /\ UNCHANGED <<vars, watched, unseen>>

\* The 15 seconds are over. A watched run that was stopped is gone by then,
\* for its abort came after ten; one that was not may still be there.
WaitExpires(t) ==
  /\ deletion[t] = "check"
  /\ \A r \in watched[t] : cancelled[r] => TaskFinished(r)
  /\ deletion' = [deletion EXCEPT ![t] = "cleanup"]
  /\ UNCHANGED <<vars, watched, unseen>>

\* cleanup_thread_worktree
CleanupWorktree(t) ==
  /\ deletion[t] = "cleanup"
  /\ deletion' = [deletion EXCEPT ![t] = "removed"]
  /\ UNCHANGED <<vars, watched, unseen>>

\* The client goes away and axum drops the handler. Nobody takes it up again:
\* the row is gone, a second delete finds none. A drop inside of stop counts as
\* one before or after it, for all it awaits are locks that are held for instants.
DeletionIsDropped(t) ==
  /\ deletion[t] \in {"stop", "look", "check", "cleanup"}
  /\ deletion' = [deletion EXCEPT ![t] = "dropped"]
  /\ UNCHANGED <<vars, watched, unseen>>

\* What the handler does without the help of the deadline while it is there.
HandlerGoesOn(t) ==
  DeleteStops(t) \/ WaitLooks(t) \/ WaitChecks(t) \/ CleanupWorktree(t)

DeleteSteps(t) == HandlerGoesOn(t) \/ WaitExpires(t) \/ DeletionIsDropped(t)

-----------------------------------------------------------------------------
(* The runner underneath: run_thread looks the thread up before it works. *)

EnterOrBail(r) ==
  \/ BodyEnters(r) /\ ~ Deleted(owner[r])
  \/ BodyBails(r) /\ Deleted(owner[r])

RunnerScheduled(r) ==
  \/ EnterOrBail(r) \/ BodyReturns(r)
  \/ WrapperReadsFlag(r) \/ WrapperCompletes(r)
  \/ WrapperSetsError(r) \/ WrapperFails(r) \/ WrapperCloses(r)
  \/ RetentionEnds(r) \/ TaskAborted(r)

RunnerStep ==
  \/ \E t \in Thread : StopBegins(t) \/ \E r \in Run : Start(t, r)
  \/ StopSteps
  \/ \E r \in Run : RunnerScheduled(r) \/ Agent(r) \/ GraceEnds(r) \/ ReaperForgets(r)

TeardownNext ==
  \/ RunnerStep /\ UNCHANGED teardownVars
  \/ \E t \in Thread : DeleteRow(t) \/ DeleteSteps(t)

TeardownSpec == TeardownInit /\ [][TeardownNext]_allVars

\* As in ThreadRunner; a request is driven to its end or dropped.
TeardownFairness ==
  /\ \A r \in Run :
       /\ WF_allVars(RunnerScheduled(r) /\ UNCHANGED teardownVars)
       /\ WF_allVars(TaskAborted(r) /\ UNCHANGED teardownVars)
       /\ WF_allVars(GraceEnds(r) /\ UNCHANGED teardownVars)
  /\ WF_allVars(StopSteps /\ UNCHANGED teardownVars)
  /\ \A t \in Thread :
       WF_allVars(HandlerGoesOn(t) \/ DeletionIsDropped(t))

FairTeardownSpec == TeardownSpec /\ TeardownFairness

-----------------------------------------------------------------------------

\* The promise wait_finished does keep: once the worktree is removed nobody
\* works in it, except a run that had already been displaced when the wait
\* first looked at the map. In particular a run displaced during the wait,
\* and one started by a send that was under way, are no exceptions.
WorktreeOutlivesWatchedRuns ==
  \A t \in Thread : deletion[t] = "removed" =>
    \A r \in Run : owner[r] = t /\ InWorktree(r) => r \in unseen[t]

\* Deleting a thread whose agent ignores the cancellation still ends, unless
\* its client goes away, and without the help of the 15 second deadline: the
\* hard abort of stop suffices. A deletion whose stop is through leaves nobody
\* at work in the worktree, and that also when its handler was dropped then,
\* for the abort is a task of its own.
DeletionEnds ==
  \A t \in Thread :
    /\ (deletion[t] = "stop") ~> (deletion[t] \in {"removed", "dropped"})
    /\ (deletion[t] = "look") ~> (\A r \in Run : owner[r] = t => ~ InWorktree(r))

\* "A run that was displaced in the map by a newer `start` is watched too, so
\* a still-draining cancelled run is not lost sight of. Used before removing
\* a thread's worktree so the agent is not left writing inside a deleted
\* directory." The code does not keep this for a run displaced earlier.
NobodyInRemovedWorktree ==
  \A t \in Thread : deletion[t] = "removed" =>
    \A r \in Run : owner[r] = t => ~ InWorktree(r)

=============================================================================
