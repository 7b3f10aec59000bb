------------------------- MODULE ThreadRunnerProofs -------------------------
(***************************************************************************)
(* Proofs about ThreadRunner, for any threads, any number of runs and any  *)
(* interleaving: type correctness, the inductive invariant IInv, the       *)
(* safety invariants it implies, the silence of displaced runs, and the    *)
(* implementation of RunRegistry. Then about WorktreeTeardown, which lets  *)
(* any number of deletions run beside it: the runs that still work in a    *)
(* deleted thread's worktree are watched or were unseen, and once it is    *)
(* removed only the latter are left.                                       *)
(***************************************************************************)
EXTENDS WorktreeTeardown, TLAPS

-----------------------------------------------------------------------------
(* The inductive invariant *)

\* A run exists exactly when it has an owner; before that nothing has touched it.
BornInv ==
  \A r \in Run :
    /\ task[r] = "unborn" <=> status[r] = "idle"
    /\ task[r] = "unborn" => ~ cancelled[r] /\ stopRun # r
    /\ task[r] = "unborn" <=> owner[r] = NoThread

\* A map slot records a run of its own thread.
MapInv == \A t \in Thread : current[t] # NoRun => owner[current[t]] = t

\* The run a stop is in the middle of is in the map, and stays there.
StopInv ==
  /\ stopRun # NoRun => /\ task[stopRun] # "unborn"
                        /\ current[owner[stopRun]] = stopRun
  /\ stopPc = "publish" => cancelled[stopRun]
  /\ stopPc = "close" => cancelled[stopRun] /\ status[stopRun] = "stopped"

\* Only a cancelled run is Stopped; a cancelled run is Stopped, or about to be.
CancelInv ==
  \A r \in Run :
    /\ status[r] = "stopped" => cancelled[r]
    /\ cancelled[r] => status[r] = "stopped" \/ (stopRun = r /\ stopPc = "publish")
    /\ reaper[r] # "none" => status[r] = "stopped"

\* What the place of the task says about the status, unless a stop came in.
TaskInv ==
  \A r \in Run : ~ cancelled[r] =>
    /\ task[r] \in {"admitted", "body", "err", "seterror", "fail"} => status[r] = "running"
    /\ task[r] \in {"ok", "complete"} => status[r] \in {"running", "completed"}
    /\ task[r] = "finishing" => status[r] = "completed"
    /\ task[r] \in {"close", "tail"} => status[r] \in {"completed", "failed"}
    /\ task[r] = "fail" => error[r]
    /\ task[r] # "unborn" /\ ~ open[r] => status[r] \in {"completed", "failed"}

\* The last event of a thread is about the run in the map and is up to date.
NewsInv ==
  \A t \in Thread :
    current[t] # NoRun => announced[t] = Event(current[t], status[current[t]])

IInv ==
  /\ TypeOK
  /\ BornInv
  /\ MapInv
  /\ RunningIsCurrent
  /\ StopInv
  /\ CancelInv
  /\ TaskInv
  /\ NewsInv
  /\ FailureCarriesError

-----------------------------------------------------------------------------
(* Type correctness *)

\* A fresh server has nothing in its map and no run.
LEMMA TypeInit == Init => TypeOK
  BY RunnerConstants DEF Init, TypeOK, Status, TaskPc, Event

\* Every handler, task, timer and shutdown step keeps the state well-formed.
LEMMA TypeStep == TypeOK /\ [Next]_vars => TypeOK'
<1> SUFFICES ASSUME TypeOK, [Next]_vars
             PROVE  TypeOK'
  OBVIOUS
<1> USE RunnerConstants DEF TypeOK, Status, Terminal, TaskPc, InBody, Event, stopVars, sweepVars
<1>1. ASSUME NEW t \in Thread, NEW r \in Run, Start(t, r)
      PROVE  TypeOK'
  BY <1>1 DEF Start, MapFree, Active
<1>2. ASSUME NEW t \in Thread, StopBegins(t)
      PROVE  TypeOK'
  BY <1>2 DEF StopBegins, MapFree, Active
<1>3. ASSUME NEW r \in Run, BodyEnters(r)
      PROVE  TypeOK'
  BY <1>3 DEF BodyEnters, Advance
<1>4. ASSUME NEW r \in Run, BodyBails(r)
      PROVE  TypeOK'
  BY <1>4 DEF BodyBails, Advance
<1>5. ASSUME NEW r \in Run, BodyFails(r)
      PROVE  TypeOK'
  BY <1>5 DEF BodyFails, Advance
<1>6. ASSUME NEW r \in Run, BodyCompletes(r)
      PROVE  TypeOK'
  BY <1>6 DEF BodyCompletes, Advance, SetStatus
<1>7. ASSUME NEW r \in Run, BodyReturns(r)
      PROVE  TypeOK'
  BY <1>7 DEF BodyReturns, Advance
<1>8. ASSUME NEW r \in Run, BodyPanics(r)
      PROVE  TypeOK'
  BY <1>8 DEF BodyPanics, Advance
<1>9. ASSUME NEW r \in Run, WrapperReadsFlag(r)
      PROVE  TypeOK'
  BY <1>9 DEF WrapperReadsFlag, Advance
<1>10. ASSUME NEW r \in Run, WrapperCompletes(r)
      PROVE  TypeOK'
  BY <1>10 DEF WrapperCompletes, Advance, SetStatus
<1>11. ASSUME NEW r \in Run, WrapperSetsError(r)
      PROVE  TypeOK'
  BY <1>11 DEF WrapperSetsError, Advance
<1>12. ASSUME NEW r \in Run, WrapperFails(r)
      PROVE  TypeOK'
  BY <1>12 DEF WrapperFails, Advance, SetStatus
<1>13. ASSUME NEW r \in Run, WrapperCloses(r)
      PROVE  TypeOK'
  BY <1>13 DEF WrapperCloses, Advance
<1>14. ASSUME NEW r \in Run, RetentionEnds(r)
      PROVE  TypeOK'
  BY <1>14 DEF RetentionEnds, Advance, Forget, MapFree
<1>15. ASSUME NEW r \in Run, TaskAborted(r)
      PROVE  TypeOK'
  BY <1>15 DEF TaskAborted
<1>16. ASSUME NEW r \in Run, GraceEnds(r)
      PROVE  TypeOK'
  BY <1>16 DEF GraceEnds
<1>17. ASSUME NEW r \in Run, ReaperForgets(r)
      PROVE  TypeOK'
  BY <1>17 DEF ReaperForgets, Forget, MapFree
<1>18. ASSUME NEW r \in Run, SweepVisits(r)
      PROVE  TypeOK'
  BY <1>18 DEF SweepVisits
<1>19. ASSUME StopCancels
      PROVE  TypeOK'
  BY <1>19 DEF StopCancels
<1>20. ASSUME StopPublishes
      PROVE  TypeOK'
  <2>1. stopRun \in Run
    BY <1>20 DEF StopPublishes
  <2>2. status' \in [Run -> Status]
    BY <1>20, <2>1 DEF StopPublishes, SetStatus
  <2>3. announced' \in [Thread -> [run : Run \cup {NoRun}, status : Status]]
    BY <1>20, <2>1 DEF StopPublishes, SetStatus
  <2> QED
    BY <1>20, <2>1, <2>2, <2>3 DEF StopPublishes
<1>21. ASSUME StopCloses
      PROVE  TypeOK'
  BY <1>21 DEF StopCloses
<1>22. ASSUME ShutdownBegins
      PROVE  TypeOK'
  BY <1>22 DEF ShutdownBegins, MapFree
<1>23. ASSUME SweepEnds
      PROVE  TypeOK'
  BY <1>23 DEF SweepEnds
<1>24. ASSUME DrainExpires
      PROVE  TypeOK'
  BY <1>24 DEF DrainExpires
<1>25. ASSUME Exit
      PROVE  TypeOK'
  BY <1>25 DEF Exit
<1>26. CASE UNCHANGED vars
  BY <1>26 DEF vars
<1> QED
  BY <1>1, <1>2, <1>3, <1>4, <1>5, <1>6, <1>7, <1>8, <1>9, <1>10, <1>11, <1>12, <1>13, <1>14, <1>15, <1>16, <1>17, <1>18, <1>19, <1>20, <1>21, <1>22, <1>23, <1>24, <1>25, <1>26
  DEF Next, Requests, StopSteps, ShutdownSteps, Scheduled, Agent

-----------------------------------------------------------------------------
(* The invariant is inductive *)

\* A fresh server satisfies the inductive invariant.
LEMMA IInvInit == Init => IInv
  BY TypeInit, RunnerConstants
  DEF Init, IInv, BornInv, MapInv, RunningIsCurrent, StopInv, CancelInv, TaskInv,
      NewsInv, FailureCarriesError

\* set_status keeps the feed up to date when it is called for the run in the map,
\* and does not speak when it changes nothing.
LEMMA SetStatusNews ==
  ASSUME NEW r \in Run, NEW s \in Status, TypeOK, MapInv, NewsInv, SetStatus(r, s),
         UNCHANGED <<current, owner>>, owner[r] \in Thread,
         status[r] = s \/ current[owner[r]] = r \/ (s # "stopped" /\ cancelled[r])
  PROVE  NewsInv'
<1> USE RunnerConstants DEF TypeOK, MapInv, NewsInv
<1>1. CASE UNCHANGED <<status, announced>>
  BY <1>1
<1>2. CASE ~ UNCHANGED <<status, announced>>
  <2>1. /\ status' = [status EXCEPT ![r] = s]
        /\ announced' = [announced EXCEPT ![owner[r]] = Event(r, s)]
        /\ current[owner[r]] = r
    BY <1>2 DEF SetStatus
  <2>2. ASSUME NEW t \in Thread, current[t] # NoRun
        PROVE  announced'[t] = Event(current[t], status'[current[t]])
    BY <2>1, <2>2 DEF Event
  <2> QED
    BY <2>2
<1> QED
  BY <1>1, <1>2

\* Every step of Next keeps the inductive invariant, and so does a stutter.
LEMMA IInvStep == IInv /\ [Next]_vars => IInv'
<1> SUFFICES ASSUME IInv, [Next]_vars
             PROVE  IInv'
  OBVIOUS
<1>0. TypeOK'
  BY TypeStep DEF IInv
<1> USE RunnerConstants, <1>0
    DEF IInv, TypeOK, BornInv, MapInv, RunningIsCurrent, StopInv, CancelInv, TaskInv,
        NewsInv, FailureCarriesError, Status, Event, Terminal, TaskPc, InBody, stopVars, sweepVars
<1>1. ASSUME NEW t \in Thread, NEW r \in Run, Start(t, r)
      PROVE  IInv'
  BY <1>1 DEF Start, MapFree, Active
<1>2. ASSUME NEW t \in Thread, StopBegins(t)
      PROVE  IInv'
  BY <1>2 DEF StopBegins, MapFree, Active
<1>3. ASSUME NEW r \in Run, BodyEnters(r)
      PROVE  IInv'
  BY <1>3 DEF BodyEnters, Advance
<1>4. ASSUME NEW r \in Run, BodyBails(r)
      PROVE  IInv'
  BY <1>4 DEF BodyBails, Advance
<1>5. ASSUME NEW r \in Run, BodyFails(r)
      PROVE  IInv'
  BY <1>5 DEF BodyFails, Advance
<1>6. ASSUME NEW r \in Run, BodyCompletes(r)
      PROVE  IInv'
  <2>1. UNCHANGED <<current, owner>> /\ SetStatus(r, "completed") /\ owner[r] \in Thread
    BY <1>6 DEF BodyCompletes, Advance
  <2>2. status[r] = "completed" \/ current[owner[r]] = r \/ cancelled[r]
    BY <1>6 DEF BodyCompletes, Advance
  <2>3. NewsInv'
    BY <2>1, <2>2, SetStatusNews
  <2> HIDE DEF NewsInv
  <2> QED
    BY <1>6, <2>3 DEF BodyCompletes, Advance, SetStatus
<1>7. ASSUME NEW r \in Run, BodyReturns(r)
      PROVE  IInv'
  BY <1>7 DEF BodyReturns, Advance
<1>8. ASSUME NEW r \in Run, BodyPanics(r)
      PROVE  IInv'
  BY <1>8 DEF BodyPanics, Advance
<1>9. ASSUME NEW r \in Run, WrapperReadsFlag(r)
      PROVE  IInv'
  BY <1>9 DEF WrapperReadsFlag, Advance
<1>10. ASSUME NEW r \in Run, WrapperCompletes(r)
      PROVE  IInv'
  <2>1. UNCHANGED <<current, owner>> /\ SetStatus(r, "completed") /\ owner[r] \in Thread
    BY <1>10 DEF WrapperCompletes, Advance
  <2>2. status[r] = "completed" \/ current[owner[r]] = r \/ cancelled[r]
    BY <1>10 DEF WrapperCompletes, Advance
  <2>3. NewsInv'
    BY <2>1, <2>2, SetStatusNews
  <2> HIDE DEF NewsInv
  <2> QED
    BY <1>10, <2>3 DEF WrapperCompletes, Advance, SetStatus
<1>11. ASSUME NEW r \in Run, WrapperSetsError(r)
      PROVE  IInv'
  BY <1>11 DEF WrapperSetsError, Advance
<1>12. ASSUME NEW r \in Run, WrapperFails(r)
      PROVE  IInv'
  <2>1. UNCHANGED <<current, owner>> /\ SetStatus(r, "failed") /\ owner[r] \in Thread
    BY <1>12 DEF WrapperFails, Advance
  <2>2. status[r] = "failed" \/ current[owner[r]] = r \/ cancelled[r]
    BY <1>12 DEF WrapperFails, Advance
  <2>3. NewsInv'
    BY <2>1, <2>2, SetStatusNews
  <2> HIDE DEF NewsInv
  <2> QED
    BY <1>12, <2>3 DEF WrapperFails, Advance, SetStatus
<1>13. ASSUME NEW r \in Run, WrapperCloses(r)
      PROVE  IInv'
  BY <1>13 DEF WrapperCloses, Advance
<1>14. ASSUME NEW r \in Run, RetentionEnds(r)
      PROVE  IInv'
  BY <1>14 DEF RetentionEnds, Advance, Forget, MapFree
<1>15. ASSUME NEW r \in Run, TaskAborted(r)
      PROVE  IInv'
  BY <1>15 DEF TaskAborted
<1>16. ASSUME NEW r \in Run, GraceEnds(r)
      PROVE  IInv'
  BY <1>16 DEF GraceEnds
<1>17. ASSUME NEW r \in Run, ReaperForgets(r)
      PROVE  IInv'
  BY <1>17 DEF ReaperForgets, Forget, MapFree
<1>18. ASSUME NEW r \in Run, SweepVisits(r)
      PROVE  IInv'
  BY <1>18 DEF SweepVisits
<1>19. ASSUME StopCancels
      PROVE  IInv'
  BY <1>19 DEF StopCancels
<1>20. ASSUME StopPublishes
      PROVE  IInv'
  BY <1>20 DEF StopPublishes, SetStatus
<1>21. ASSUME StopCloses
      PROVE  IInv'
  BY <1>21 DEF StopCloses
<1>22. ASSUME ShutdownBegins
      PROVE  IInv'
  BY <1>22 DEF ShutdownBegins, MapFree
<1>23. ASSUME SweepEnds
      PROVE  IInv'
  BY <1>23 DEF SweepEnds
<1>24. ASSUME DrainExpires
      PROVE  IInv'
  BY <1>24 DEF DrainExpires
<1>25. ASSUME Exit
      PROVE  IInv'
  BY <1>25 DEF Exit
<1>26. CASE UNCHANGED vars
  BY <1>26 DEF vars
<1> QED
  BY <1>1, <1>2, <1>3, <1>4, <1>5, <1>6, <1>7, <1>8, <1>9, <1>10, <1>11, <1>12, <1>13, <1>14, <1>15, <1>16, <1>17, <1>18, <1>19, <1>20, <1>21, <1>22, <1>23, <1>24, <1>25, <1>26
  DEF Next, Requests, StopSteps, ShutdownSteps, Scheduled, Agent

-----------------------------------------------------------------------------
(* The safety theorems *)

\* The inductive invariant holds in every reachable state, whatever the threads,
\* the runs and the interleaving of start, stop, tasks, timers and shutdown.
THEOREM Invariance == Spec => []IInv
  BY IInvInit, IInvStep, PTL DEF Spec

\* The state of the registry stays well-formed.
THEOREM TypeCorrect == Spec => []TypeOK
<1>1. IInv => TypeOK
  BY DEF IInv
<1> QED
  BY <1>1, Invariance, PTL

\* A thread has at most one Running run, the one in the map: start refuses while
\* it is Running, and the delayed removals never remove a newer run.
THEOREM OneRunningRun == Spec => []RunningIsCurrent
<1>1. IInv => RunningIsCurrent
  BY DEF IInv
<1> QED
  BY <1>1, Invariance, PTL

\* Once a stop is through, the run it cancelled is Stopped and stays so: the task
\* cannot overwrite it with Completed or Failed.
THEOREM StopWins == Spec => []CancelledIsStopped
<1>1. IInv => CancelledIsStopped
  BY DEF IInv, CancelInv, CancelledIsStopped
<1> QED
  BY <1>1, Invariance, PTL

\* A run reported Failed has its error recorded, although set_error and set_status
\* take different locks and a stop may come in between.
THEOREM FailureHasError == Spec => []FailureCarriesError
<1>1. IInv => FailureCarriesError
  BY DEF IInv
<1> QED
  BY <1>1, Invariance, PTL

\* A run whose event stream has ended is settled, so that a client that asks again
\* does not find it Running.
THEOREM EndOfStreamIsSettled == Spec => []ClosedIsSettled
<1>1. IInv => ClosedIsSettled
  BY DEF IInv, CancelInv, TaskInv, ClosedIsSettled, Terminal
<1> QED
  BY <1>1, Invariance, PTL

\* What a run is told to have come to is true, whatever the wrapper, stop and
\* the readers of the run do between each other's steps.
THEOREM OutcomesAreTrue == Spec => []OutcomeIsTrue
<1>1. CancelledIsStopped /\ FailureCarriesError /\ ClosedIsSettled => OutcomeIsTrue
  BY DEF OutcomeIsTrue
<1> QED
  BY <1>1, StopWins, FailureHasError, EndOfStreamIsSettled, PTL

-----------------------------------------------------------------------------
(* Displaced runs are silent *)

Speaks(t) == announced'[t] # announced[t] => announced'[t].run = current'[t]

\* set_status on the run in the map speaks of the run in the map.
LEMMA SetStatusSpeaks ==
  ASSUME NEW r \in Run, NEW s \in Status, IInv, SetStatus(r, s), UNCHANGED current,
         task[r] # "unborn",
         status[r] = s \/ current[owner[r]] = r \/ (s # "stopped" /\ cancelled[r])
  PROVE  \A t \in Thread : Speaks(t)
<1> USE DEF IInv, TypeOK, BornInv
<1>1. CASE announced' = announced
  BY <1>1 DEF Speaks
<1>2. CASE announced' # announced
  <2>1. /\ announced' = [announced EXCEPT ![owner[r]] = Event(r, s)]
        /\ current[owner[r]] = r
    BY <1>2 DEF SetStatus
  <2> QED
    BY <2>1 DEF Speaks, Event
<1> QED
  BY <1>1, <1>2

\* No step makes the lifecycle feed of a thread speak of a run that is not in its
\* slot after the step.
LEMMA SilenceStep ==
  ASSUME IInv, [Next]_vars
  PROVE  \A t \in Thread : Speaks(t)
<1> USE DEF IInv
<1>1. ASSUME NEW t \in Thread, NEW r \in Run, Start(t, r)
      PROVE  \A u \in Thread : Speaks(u)
  BY <1>1 DEF Start, Speaks, Event, TypeOK
<1>2. ASSUME NEW r \in Run, BodyCompletes(r)
      PROVE  \A u \in Thread : Speaks(u)
  BY <1>2, SetStatusSpeaks DEF BodyCompletes, Advance, TaskInv, RunningIsCurrent, Status, Terminal
<1>3. ASSUME NEW r \in Run, WrapperCompletes(r)
      PROVE  \A u \in Thread : Speaks(u)
  BY <1>3, SetStatusSpeaks DEF WrapperCompletes, Advance, TaskInv, RunningIsCurrent, Status, Terminal
<1>4. ASSUME NEW r \in Run, WrapperFails(r)
      PROVE  \A u \in Thread : Speaks(u)
  BY <1>4, SetStatusSpeaks DEF WrapperFails, Advance, TaskInv, RunningIsCurrent, Status, Terminal
<1>5. ASSUME StopPublishes
      PROVE  \A u \in Thread : Speaks(u)
  <2>1. stopRun \in Run /\ task[stopRun] # "unborn" /\ current[owner[stopRun]] = stopRun
    BY <1>5, RunnerConstants DEF StopPublishes, TypeOK, StopInv
  <2> QED
    BY <1>5, <2>1, SetStatusSpeaks DEF StopPublishes, Status, Terminal
<1>6. CASE UNCHANGED announced
  BY <1>6 DEF Speaks
<1> QED
  BY <1>1, <1>2, <1>3, <1>4, <1>5, <1>6
  DEF Next, Requests, StopSteps, ShutdownSteps, Scheduled, Agent, vars, stopVars, sweepVars,
      StopBegins, ShutdownBegins, StopCancels, StopCloses, SweepVisits, SweepEnds,
      DrainExpires, Exit, BodyEnters, BodyBails, BodyFails, BodyReturns, BodyPanics,
      WrapperReadsFlag, WrapperSetsError, WrapperCloses, RetentionEnds, TaskAborted,
      GraceEnds, ReaperForgets

\* The lifecycle feed never speaks of a displaced run, even while its task drains.
THEOREM DisplacedRunsAreSilent == Spec => OnlyCurrentRunSpeaks
<1>1. IInv /\ [Next]_vars =>
        [\A t \in Thread : announced'[t] # announced[t] => announced'[t].run = current'[t]]_vars
  BY SilenceStep DEF Speaks
<1> QED
  BY <1>1, Invariance, PTL DEF Spec, OnlyCurrentRunSpeaks

-----------------------------------------------------------------------------
(* The runner implements RunRegistry *)

\* A call of set_status on a started run is a step of the registry or none.
\* A run that changes is Running, and its slot is freed, or it has ended and
\* a stop relabels it.
LEMMA SetStatusImplements ==
  ASSUME NEW r \in Run, NEW s \in Terminal, IInv, SetStatus(r, s), UNCHANGED current,
         task[r] # "unborn",
         \/ status[r] \in {s, "running"}
         \/ s # "stopped" /\ cancelled[r]
         \/ s = "stopped" /\ current[owner[r]] = r /\ status[r] \in {"completed", "failed"}
  PROVE  Registry!RegistryNext \/ UNCHANGED <<Slot, status, announced>>
<1> USE RunnerConstants DEF IInv, TypeOK, BornInv, MapInv, RunningIsCurrent
<1>0. PICK t \in Thread : t = owner[r]
  OBVIOUS
<1>1. CASE UNCHANGED <<status, announced>>
  BY <1>1 DEF Slot, Active
<1>2. CASE ~ UNCHANGED <<status, announced>>
  <2>1. /\ status' = [status EXCEPT ![r] = s]
        /\ announced' = [announced EXCEPT ![t] = Event(r, s)]
        /\ status[r] # s
    BY <1>0, <1>2 DEF SetStatus
  <2>2. CASE status[r] = "running"
    <3>0. current[t] = r /\ r # NoRun
      BY <1>0, <2>2
    <3>1. Slot[t] = r
      BY <1>0, <2>2, <3>0 DEF Slot, Active
    <3>2. Slot' = [Slot EXCEPT ![t] = NoRun]
      <4>1. \A u \in Thread \ {t} : current[u] # r
        BY <1>0
      <4>2. s # "running"
        BY DEF Terminal
      <4>3. ~ Active(t)'
        BY <2>1, <3>0, <4>2 DEF Active
      <4>4. \A u \in Thread \ {t} : Active(u)' <=> Active(u)
        BY <2>1, <4>1 DEF Active
      <4>5. \A u \in Thread : Slot'[u] = IF u = t THEN NoRun ELSE Slot[u]
        <5>1. UNCHANGED current
          BY <1>0
        <5> QED
          BY <4>3, <4>4, <5>1 DEF Slot
      <4> QED
        BY <4>5 DEF Slot
    <3>3. Registry!End(t, s)
      BY <2>1, <3>1, <3>2 DEF Registry!End, Registry!Event, Event
    <3> QED
      BY <3>3, <1>0 DEF Registry!RegistryNext, Registry!Ended, Terminal
  <2>3. CASE status[r] # "running"
    <3>1. /\ s = "stopped"
          /\ current[t] = r
          /\ status[r] \in {"completed", "failed"}
      BY <1>0, <2>1, <2>3, <1>2 DEF SetStatus
    <3>2. UNCHANGED Slot
      BY <2>1, <2>3, <3>1 DEF Slot, Active
    <3>3. announced[t].run = r
      BY <3>1, <1>0 DEF NewsInv, Event
    <3>4. Registry!Relabel(t, r)
      BY <2>1, <3>1, <3>2, <3>3 DEF Registry!Relabel, Registry!Event, Event
    <3> QED
      BY <3>4, <1>0 DEF Registry!RegistryNext
  <2> QED
    BY <2>2, <2>3
<1> QED
  BY <1>1, <1>2

\* A removal touches no Running record: it leaves the slots as they are.
LEMMA ForgetLeavesSlots ==
  ASSUME NEW r \in Run, IInv, Forget(r), task[r] # "unborn", status[r] # "running",
         UNCHANGED status
  PROVE  UNCHANGED Slot
  BY RunnerConstants DEF IInv, TypeOK, BornInv, MapInv, Forget, Slot, Active

\* A fresh server is an empty registry.
LEMMA RegistryInitially == Init => Registry!RegistryInit
  BY RunnerConstants DEF Init, Registry!RegistryInit, Slot, Active, Event, Registry!Event

\* Every step of the runner is a Begin, an End or a Relabel of the registry, or
\* leaves it as it is.
LEMMA RegistryStep ==
  ASSUME IInv, [Next]_vars
  PROVE  Registry!RegistryNext \/ UNCHANGED <<Slot, status, announced>>
<1> DEFINE Implemented == Registry!RegistryNext \/ UNCHANGED <<Slot, status, announced>>
<1>1. ASSUME NEW t \in Thread, NEW r \in Run, Start(t, r)
      PROVE  Implemented
  <2> USE RunnerConstants DEF IInv, TypeOK, BornInv, MapInv
  <2>1. Slot[t] = NoRun /\ status[r] = "idle"
    BY <1>1 DEF Start, Slot
  <2>2. \A u \in Thread : current[u] # r
    BY <1>1 DEF Start
  <2>3. Slot' = [Slot EXCEPT ![t] = r]
    <3>1. current' = [current EXCEPT ![t] = r] /\ status' = [status EXCEPT ![r] = "running"]
      BY <1>1 DEF Start
    <3>2. Active(t)' /\ current'[t] = r
      BY <3>1 DEF Active
    <3>3. \A u \in Thread \ {t} : current'[u] = current[u] /\ (Active(u)' <=> Active(u))
      BY <2>2, <3>1 DEF Active
    <3>4. \A u \in Thread : Slot'[u] = IF u = t THEN r ELSE Slot[u]
      BY <3>2, <3>3 DEF Slot
    <3> QED
      BY <3>4 DEF Slot
  <2>4. Registry!Begin(t, r)
    BY <1>1, <2>1, <2>3 DEF Start, Registry!Begin, Registry!Event, Event
  <2> QED
    BY <2>4 DEF Registry!RegistryNext
<1>2. ASSUME NEW r \in Run, BodyCompletes(r)
      PROVE  Implemented
  BY <1>2, SetStatusImplements DEF BodyCompletes, Advance, IInv, TaskInv, Terminal
<1>3. ASSUME NEW r \in Run, WrapperCompletes(r)
      PROVE  Implemented
  BY <1>3, SetStatusImplements DEF WrapperCompletes, Advance, IInv, TaskInv, Terminal
<1>4. ASSUME NEW r \in Run, WrapperFails(r)
      PROVE  Implemented
  BY <1>4, SetStatusImplements DEF WrapperFails, Advance, IInv, TaskInv, Terminal
<1>5. ASSUME StopPublishes
      PROVE  Implemented
  <2>1. stopRun \in Run /\ task[stopRun] # "unborn" /\ current[owner[stopRun]] = stopRun
    BY <1>5, RunnerConstants DEF StopPublishes, IInv, TypeOK, StopInv
  <2>2. status[stopRun] \in {"running", "completed", "failed", "stopped"}
    BY <2>1 DEF IInv, TypeOK, BornInv, Status, Terminal
  <2> QED
    BY <1>5, <2>1, <2>2, SetStatusImplements DEF StopPublishes, Terminal
<1>6. ASSUME NEW r \in Run, RetentionEnds(r)
      PROVE  Implemented
  <2>1. task[r] # "unborn" /\ status[r] # "running"
    BY <1>6 DEF RetentionEnds, Advance, MapFree, IInv, TypeOK, TaskInv, CancelInv
  <2> QED
    BY <1>6, <2>1, ForgetLeavesSlots DEF RetentionEnds
<1>7. ASSUME NEW r \in Run, ReaperForgets(r)
      PROVE  Implemented
  <2>1. task[r] # "unborn" /\ status[r] # "running"
    BY <1>7 DEF ReaperForgets, IInv, TypeOK, BornInv, CancelInv
  <2> QED
    BY <1>7, <2>1, ForgetLeavesSlots DEF ReaperForgets
<1>8. CASE UNCHANGED <<current, status, announced>>
  BY <1>8 DEF Slot, Active
<1> QED
  BY <1>1, <1>2, <1>3, <1>4, <1>5, <1>6, <1>7, <1>8
  DEF Next, Requests, StopSteps, ShutdownSteps, Scheduled, Agent, vars, stopVars, sweepVars,
      StopBegins, ShutdownBegins, StopCancels, StopCloses, SweepVisits, SweepEnds,
      DrainExpires, Exit, BodyEnters, BodyBails, BodyFails, BodyReturns, BodyPanics,
      WrapperReadsFlag, WrapperSetsError, WrapperCloses, TaskAborted, GraceEnds

\* The runner with its map, locks, flags and timers implements RunRegistry: one
\* slot per thread, and a feed that tells each transition when it happens.
THEOREM RunnerImplementsRegistry == Spec => ImplementsRegistry
<1>1. IInv /\ [Next]_vars => [Registry!RegistryNext]_(Registry!registryVars)
  BY RegistryStep DEF Registry!registryVars
<1> QED
  BY <1>1, RegistryInitially, Invariance, PTL
  DEF Spec, ImplementsRegistry, Registry!RegistrySpec

-----------------------------------------------------------------------------
(* Deletions beside the runner: the inductive invariant of WorktreeTeardown *)

\* A run that works in the worktree of a thread whose row is gone: it is
\* cancelled once the stop is through, the wait watches it unless it had been
\* displaced before, and no watched one is left when the wait is over.
LingersRight(t, r) ==
  /\ deletion[t] = "look" => cancelled[r] \/ stopRun = r
  /\ deletion[t] = "check" => cancelled[r]
  /\ deletion[t] = "check" \/ (deletion[t] = "look" /\ watched[t] # {})
       => r \in watched[t] \cup unseen[t]
  /\ deletion[t] \in {"cleanup", "removed"} => r \in unseen[t]

LingerInv == \A t \in Thread, r \in Run : owner[r] = t /\ InWorktree(r) => LingersRight(t, r)

\* A deletion watches nobody before it waits.
WaitInv == \A t \in Thread : deletion[t] \in {"none", "stop"} => watched[t] = {}

TeardownInv == TeardownTypeOK /\ IInv /\ WaitInv /\ LingerInv

-----------------------------------------------------------------------------
(* Steps of the runner *)

\* A server starts without a run and without a deletion.
LEMMA TeardownInvInit == TeardownInit => TeardownInv
  BY IInvInit, TypeInit, RunnerConstants
  DEF TeardownInit, TeardownInv, TeardownTypeOK, WaitInv, LingerInv, InWorktree, Init

\* What the runner does here is what it does in ThreadRunner.
LEMMA RunnerStepIsNext == RunnerStep => Next
  BY DEF RunnerStep, RunnerScheduled, EnterOrBail, Next, Requests, StopSteps, Scheduled

\* A step of the runner puts no run into the worktree of a thread that has been
\* deleted, cancels only, and takes no run away from a stop that has not
\* cancelled it yet.
LEMMA RunnerLeavesWorktree ==
  ASSUME IInv, RunnerStep, NEW r \in Run, task'[r] = "body", Deleted(owner'[r])
  PROVE  /\ task[r] = "body" /\ owner'[r] = owner[r]
         /\ cancelled[r] => cancelled'[r]
         /\ stopRun = r => cancelled'[r] \/ stopRun' = r
<1> USE RunnerConstants DEF IInv, TypeOK, BornInv, StopInv, stopVars, sweepVars
<1>1. ASSUME NEW t \in Thread, StopBegins(t)
      PROVE  task[r] = "body" /\ owner' = owner /\ cancelled' = cancelled
             /\ stopRun # r
  BY <1>1 DEF StopBegins, MapFree
<1>2. ASSUME NEW t \in Thread, NEW q \in Run, Start(t, q)
      PROVE  task[r] = "body" /\ owner'[r] = owner[r] /\ cancelled' = cancelled
             /\ stopRun # r
  BY <1>2 DEF Start, MapFree
<1>3. CASE StopSteps
  <2>1. UNCHANGED <<task, owner>>
    BY <1>3 DEF StopSteps, StopCancels, StopPublishes, StopCloses
  <2>2. CASE StopCancels
    BY <2>1, <2>2 DEF StopCancels
  <2>3. CASE StopPublishes
    BY <2>1, <2>3 DEF StopPublishes
  <2>4. CASE StopCloses
    BY <2>1, <2>4 DEF StopCloses
  <2> QED
    BY <1>3, <2>2, <2>3, <2>4 DEF StopSteps
<1>4. ASSUME NEW q \in Run, RunnerScheduled(q) \/ Agent(q) \/ GraceEnds(q) \/ ReaperForgets(q)
      PROVE  task[r] = "body" /\ UNCHANGED <<owner, cancelled, stopRun>>
  <2>1. UNCHANGED <<owner, cancelled, stopRun>>
    BY <1>4 DEF RunnerScheduled, EnterOrBail, Agent, BodyEnters, BodyBails, BodyFails,
      BodyCompletes, BodyReturns, BodyPanics, WrapperReadsFlag, WrapperCompletes,
      WrapperSetsError, WrapperFails, WrapperCloses, RetentionEnds, TaskAborted, GraceEnds,
      ReaperForgets
  <2>2. task[r] = "body"
    BY <1>4, <2>1 DEF RunnerScheduled, EnterOrBail, Agent, BodyEnters, BodyBails, BodyFails,
      BodyCompletes, BodyReturns, BodyPanics, WrapperReadsFlag, WrapperCompletes,
      WrapperSetsError, WrapperFails, WrapperCloses, RetentionEnds, TaskAborted, GraceEnds,
      ReaperForgets, Advance
  <2> QED
    BY <2>1, <2>2
<1> QED
  BY <1>1, <1>2, <1>3, <1>4 DEF RunnerStep

\* The runs a deletion watches, and those it has not seen, keep their owner.
LEMMA RunnerKeepsOwners ==
  ASSUME IInv, RunnerStep, NEW r \in Run, owner[r] # NoThread
  PROVE  owner'[r] = owner[r]
  BY RunnerConstants DEF IInv, BornInv, TypeOK, RunnerStep, RunnerScheduled, EnterOrBail, Agent,
      StopSteps, Start, StopBegins, StopCancels, StopPublishes, StopCloses, BodyEnters, BodyBails,
      BodyFails, BodyCompletes, BodyReturns, BodyPanics, WrapperReadsFlag, WrapperCompletes,
      WrapperSetsError, WrapperFails, WrapperCloses, RetentionEnds, TaskAborted, GraceEnds,
      ReaperForgets

\* A step of the runner keeps the invariant: it starts no work in the worktree of
\* a deleted thread.
LEMMA RunnerKeepsInv ==
  ASSUME TeardownInv, RunnerStep, UNCHANGED teardownVars
  PROVE  TeardownInv'
<1> USE DEF TeardownInv, teardownVars
<1>1. IInv'
  BY IInvStep, RunnerStepIsNext
<1>2. TeardownTypeOK'
  <2>1. \A t \in Thread : \A r \in watched[t] \cup unseen[t] : r \in Run /\ owner'[r] = t
    BY RunnerKeepsOwners, RunnerConstants DEF TeardownTypeOK
  <2> QED
    BY <1>1, <2>1 DEF TeardownTypeOK, IInv
<1>3. LingerInv'
  <2> SUFFICES ASSUME NEW t \in Thread, NEW r \in Run, owner'[r] = t, task'[r] = "body",
                      Deleted(t)
               PROVE  LingersRight(t, r)'
    BY DEF LingerInv, InWorktree, LingersRight, Deleted
  <2>1. /\ task[r] = "body" /\ owner[r] = t
        /\ cancelled[r] => cancelled'[r]
        /\ stopRun = r => cancelled'[r] \/ stopRun' = r
    BY RunnerLeavesWorktree
  <2>2. LingersRight(t, r)
    BY <2>1 DEF LingerInv, InWorktree
  <2> QED
    BY <2>1, <2>2 DEF LingersRight
<1>4. WaitInv'
  BY DEF WaitInv
<1> QED
  BY <1>1, <1>2, <1>3, <1>4

-----------------------------------------------------------------------------
(* Steps of the delete handler *)

\* While nobody is in stop, a run that works and that the map does not show as
\* Running is cancelled.
LEMMA IdleStopMeansCancelled ==
  ASSUME IInv, MapFree, NEW r \in Run, task[r] = "body", ~ Active(owner[r])
  PROVE  cancelled[r]
  BY RunnerConstants
  DEF IInv, TypeOK, BornInv, TaskInv, RunningIsCurrent, Active, MapFree

\* The handler of one thread changes what it knows of that thread only.
LEMMA DeleteKeepsInv ==
  ASSUME TeardownInv, NEW t \in Thread, DeleteRow(t) \/ DeleteSteps(t)
  PROVE  TeardownInv'
<1> USE DEF TeardownInv
<1>1. IInv'
  <2>1. Next \/ UNCHANGED vars
    BY DEF DeleteRow, DeleteSteps, HandlerGoesOn, DeletionIsDropped, DeleteStops, WaitLooks,
      WaitChecks, WaitExpires, CleanupWorktree, Next, Requests
  <2> QED
    BY <2>1, IInvStep
<1>2. owner' = owner /\ task' = task /\ cancelled' = cancelled
  BY DEF DeleteRow, DeleteSteps, HandlerGoesOn, DeletionIsDropped,
    DeleteStops, WaitLooks, WaitChecks, WaitExpires,
    CleanupWorktree, StopBegins, vars
<1>3. TeardownTypeOK'
  <2>1. TypeOK'
    BY <1>1 DEF IInv
  <2>2. CASE WaitLooks(t)
    <3>1. current[t] \in Run \cup {NoRun} /\ (current[t] # NoRun => owner[current[t]] = t)
      BY DEF IInv, TypeOK, MapInv
    <3> QED
      BY <1>2, <2>1, <2>2, <3>1 DEF TeardownTypeOK, WaitLooks
  <2>3. CASE ~ WaitLooks(t)
    BY <1>2, <2>1, <2>3 DEF TeardownTypeOK, DeleteRow, DeleteSteps, HandlerGoesOn, DeletionIsDropped,
      DeleteStops, WaitChecks,
      WaitExpires, CleanupWorktree
  <2> QED
    BY <2>2, <2>3
<1>4. WaitInv'
  BY DEF TeardownTypeOK, WaitInv, DeleteRow, DeleteSteps, HandlerGoesOn, DeletionIsDropped,
    DeleteStops, WaitLooks, WaitChecks,
    WaitExpires, CleanupWorktree
<1>5. LingerInv'
  <2> SUFFICES ASSUME NEW u \in Thread, NEW r \in Run, owner[r] = u, task[r] = "body"
               PROVE  LingersRight(u, r)'
    BY <1>2 DEF LingerInv, InWorktree
  <2> USE RunnerConstants DEF TeardownTypeOK
  <2>0. LingersRight(u, r)
    BY DEF LingerInv, InWorktree
  <2>1. CASE u # t
    <3>1. UNCHANGED <<deletion[u], watched[u], unseen[u]>>
      BY <2>1 DEF DeleteRow, DeleteSteps, HandlerGoesOn, DeletionIsDropped,
        DeleteStops, WaitLooks, WaitChecks, WaitExpires,
        CleanupWorktree
    <3>2. stopRun' = stopRun \/ stopRun = NoRun
      BY DEF DeleteRow, DeleteSteps, HandlerGoesOn, DeletionIsDropped,
        DeleteStops, WaitLooks, WaitChecks, WaitExpires,
        CleanupWorktree, StopBegins, MapFree, vars
    <3> QED
      BY <1>2, <2>0, <3>1, <3>2 DEF LingersRight
  <2>2. CASE u = t /\ DeleteRow(t)
    BY <2>2 DEF DeleteRow, LingersRight
  <2>3. CASE u = t /\ DeleteStops(t)
    <3>1. watched'[t] = {} /\ deletion'[t] = "look"
      BY <2>3 DEF DeleteStops, WaitInv
    <3>2. CASE Active(t)
      <4>1. stopRun' = current[t]
        BY <2>3, <3>2 DEF DeleteStops, StopBegins
      <4>2. cancelled[r] \/ current[t] = r
        BY <2>3, <3>2 DEF IInv, TaskInv, RunningIsCurrent
      <4> QED
        BY <1>2, <2>3, <3>1, <4>1, <4>2 DEF LingersRight
    <3>3. CASE ~ Active(t)
      <4>1. cancelled[r]
        BY <2>3, <3>3, IdleStopMeansCancelled DEF DeleteStops
      <4> QED
        BY <1>2, <2>3, <3>1, <4>1 DEF LingersRight
    <3> QED
      BY <3>2, <3>3
  <2>4. CASE u = t /\ WaitLooks(t)
    BY <1>2, <2>0, <2>4 DEF WaitLooks, LingersRight, MapFree, TaskFinished, InBody
  <2>5. CASE u = t /\ WaitChecks(t)
    BY <1>2, <2>0, <2>5 DEF WaitChecks, LingersRight, TaskFinished, InBody
  <2>6. CASE u = t /\ WaitExpires(t)
    BY <1>2, <2>0, <2>6 DEF WaitExpires, LingersRight, TaskFinished, InBody
  <2>7. CASE u = t /\ CleanupWorktree(t)
    BY <1>2, <2>0, <2>7 DEF CleanupWorktree, LingersRight
  <2>8. CASE u = t /\ DeletionIsDropped(t)
    BY <1>2, <2>0, <2>8 DEF DeletionIsDropped, LingersRight
  <2> QED
    BY <2>1, <2>2, <2>3, <2>4, <2>5, <2>6, <2>7, <2>8 DEF DeleteSteps, HandlerGoesOn
<1> QED
  BY <1>1, <1>3, <1>4, <1>5

-----------------------------------------------------------------------------
(* The theorems *)

\* The inductive invariant holds in every reachable state.
THEOREM TeardownInvariance == TeardownSpec => []TeardownInv
<1>1. TeardownInv /\ [TeardownNext]_allVars => TeardownInv'
  <2> SUFFICES ASSUME TeardownInv, [TeardownNext]_allVars
               PROVE  TeardownInv'
    OBVIOUS
  <2>1. CASE RunnerStep /\ UNCHANGED teardownVars
    BY <2>1, RunnerKeepsInv
  <2>2. ASSUME NEW t \in Thread, DeleteRow(t) \/ DeleteSteps(t)
        PROVE  TeardownInv'
    BY <2>2, DeleteKeepsInv
  <2>3. CASE UNCHANGED allVars
    <3>1. UNCHANGED vars
      BY <2>3 DEF allVars
    <3>2. IInv'
      BY <3>1, IInvStep DEF TeardownInv
    <3> QED
      BY <2>3, <3>2 DEF allVars, vars, teardownVars, TeardownInv, TeardownTypeOK, IInv,
        WaitInv, LingerInv, LingersRight, InWorktree
  <2> QED
    BY <2>1, <2>2, <2>3 DEF TeardownNext
<1> QED
  BY <1>1, TeardownInvInit, PTL DEF TeardownSpec

\* Once a worktree is removed nobody works in it, except a run that had been
\* displaced before wait_finished first looked: with any number of starts, stops
\* and deletions, and of runs that a send starts late or that ignore their stop.
THEOREM WorktreeIsLeft == TeardownSpec => []WorktreeOutlivesWatchedRuns
<1>1. TeardownInv => WorktreeOutlivesWatchedRuns
  BY DEF TeardownInv, LingerInv, LingersRight, WorktreeOutlivesWatchedRuns
<1> QED
  BY <1>1, TeardownInvariance, PTL

\* What was proved of the runner holds beside deletions too: nothing a delete
\* handler does is more than a stop.
THEOREM DeletionsOnlyStop == TeardownSpec => Spec
<1>1. TeardownInit => Init
  BY DEF TeardownInit
<1>2. [TeardownNext]_allVars => [Next]_vars
  BY RunnerStepIsNext
  DEF TeardownNext, DeleteRow, DeleteSteps, HandlerGoesOn, DeletionIsDropped,
    DeleteStops, WaitLooks, WaitChecks, WaitExpires,
    CleanupWorktree, Next, Requests, allVars
<1> QED
  BY <1>1, <1>2, PTL DEF TeardownSpec, Spec

=============================================================================
