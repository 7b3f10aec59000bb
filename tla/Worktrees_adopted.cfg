\* Two threads of one project; both runs may make worktrees of their own.
SPECIFICATION WorktreeSpec
CONSTANTS
  Owner = {o1, o2}
  Sender = {s1, s2}
  Worktree = {w1, w2}
CHECK_DEADLOCK FALSE
PROPERTIES
  CleanupSparesOthers
