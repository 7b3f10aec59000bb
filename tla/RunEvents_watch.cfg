\* A part, two prompts and a last event against a channel of one event, so that
\* a slow client lags and a reply overtakes a prompt, and one broken connection.
SPECIFICATION FairSpec
CONSTANTS
  Capacity = 1
  MaxParts = 1
  MaxPrompts = 2
  MaxOutput = 2
  MaxDrops = 1
CHECK_DEADLOCK FALSE
INVARIANTS
  ClientShowsRun
  SettledIsOver
PROPERTIES
  ClientSettles
