\* Two starts: a run can be displaced before, during and after the wait. No
\* symmetry, for the temporal property.
SPECIFICATION FairTeardownSpec
CONSTANTS
  Thread = {t1}
  Run = {r1, r2}
  NoThread = NoThread
  NoRun = NoRun
  TaskMayPanic = TRUE
CHECK_DEADLOCK FALSE
INVARIANTS
  WorktreeOutlivesWatchedRuns
PROPERTIES
  DeletionEnds
