\* Two requests of the git panel on two paths with two steps of an agent; two
\* callers of the git caches; two requests to serve two ports; three turns with
\* usage; two elements of a page; two keys of a rate limiter with room for one.
\* (The other constants are those of Services_work.)
SPECIFICATION ServicesSpec
CONSTANTS
  Part = {"panel", "cache", "serve", "usage", "browser", "rate"}
  Client = {c1}
  Other = other
  Call = {k1, k2}
  Locks = TRUE
  MaxWrites = 2
  MaxOpens = 1
  MaxCalls = 3
  Turn = {t1, t2}
  MaxUpdates = 1
  Pairer = {p1, p2}
  Address = {a1, a2}
  MaxFails = 1
  AttemptsCap = 1
  MaxBoots = 2
  Applier = {u1, u2}
  MaxApplies = 3
  Owner = {o1, o2}
  Sender = {s1, s2}
  Worktree = {w1, w2}
  Cloner = {q1, q2, q3}
  User = {v1, v2}
  Tab = {b1, b2}
  Bundle = {m1, m2}
  MaxInstalls = 3
  File = {f, g}
  MaxEdits = 2
  MaxGits = 2
  Caller = {x1, x2}
  MaxVersion = 2
  MaxAsked = 3
  Serving = {r1, r2}
  HttpsPort = {1, 2}
  MaxSteps = 1
  Prompted = {d1, d2, d3}
  MaxTokens = 1
  Element = {e1, e2}
  MaxEpoch = 2
  Key = {i1, i2}
  Cost = {1, 2}
  Capacity = 3
  MaxEntries = 1
  MaxIdle = 3
  SweepEvery = 2
  MaxNow = 4
CHECK_DEADLOCK FALSE
INVARIANTS
  CachesFollowThePanel
  NothingIsCountedTwice
PROPERTIES
  ActsOnWhatItSaw
  ImplementsLimiter
