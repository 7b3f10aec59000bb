SPECIFICATION CxFairSpec
CONSTANTS
  EventCap = 1
  MaxEvents = 3
CHECK_DEADLOCK FALSE
PROPERTIES
  DeathEndsTurn
