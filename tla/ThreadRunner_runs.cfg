\* Two runs of two threads: every order of start, stop, displacement, end and
\* shutdown, and the map lock that the threads share.
SPECIFICATION FairSpec
CONSTANTS
  Thread = {t1, t2}
  Run = {r1, r2}
  NoThread = NoThread
  NoRun = NoRun
  TaskMayPanic = TRUE
CHECK_DEADLOCK FALSE
INVARIANTS
  TypeOK
  RunningIsCurrent
  OutcomeIsTrue
PROPERTIES
  OnlyCurrentRunSpeaks
  ImplementsRegistry
  EndingsEnd
