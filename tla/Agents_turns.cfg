\* A Codex turn with two reports and a channel of one; two terminals with one
\* socket; a remote turn that asks twice and loses one call.
SPECIFICATION AgentsSpec
CONSTANTS
  EventCap = 1
  MaxEvents = 2
  Session = {s1, s2}
  Socket = {c1}
  MaxOutput = 1
  MaxAsks = 2
  MaxParts = 1
  MaxLost = 1
CHECK_DEADLOCK FALSE
INVARIANTS
  StoredThreadIsLive
  AsksAreAnswered
PROPERTIES
  NoProcessIsLeft
  NobodyWaitsInVain
