\* Two requests of any kind, a stop with its watchdog, and a crash.
SPECIFICATION FairSpec
CONSTANTS
  Request = {1, 2}
  Stopper = {s1}
  Kind = {"send", "edit", "regenerate"}
  NoRun = NoRun
  MaxCrashes = 1
CHECK_DEADLOCK FALSE
INVARIANTS
  TurnsAreOrdered
  UserTailIsAttended
  StoppedRunHasOneEnding
PROPERTIES
  CompletedHasReply
  UserTailCloses
