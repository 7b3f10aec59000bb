\* Two prompts or rate limits and a stop against a client that answers and a
\* channel of two events.
SPECIFICATION FairSpec
CONSTANTS
  Client = {c1}
  MaxWaits = 2
  Capacity = 2
CHECK_DEADLOCK FALSE
INVARIANTS
  PromptsAreAnswered
  SidebarIsCurrent
  EachPromptIsPushed
PROPERTIES
  PendingDrains
