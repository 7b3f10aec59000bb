SPECIFICATION Spec
CONSTANTS
  Request = {1, 2}
  Stopper = {s1}
  Kind = {"send"}
  NoRun = NoRun
  MaxCrashes = 0
CHECK_DEADLOCK FALSE
INVARIANTS
  TurnHasAnchor
