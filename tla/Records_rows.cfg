\* Two boots beside two requests to manage accounts; two requests of a user;
\* two requests to change the provider; three probes; two sends beside an
\* update and a reset of a thread; two requests that make a project; two that
\* group three projects; two that remove three threads of two projects; two
\* readers of four messages; two that share a thread; a run beside two changes
\* of three servers; two turns of each agent; a call beside two changes of two
\* machines.
SPECIFICATION RecordsSpec
CONSTANTS
  Username = {owner, local, other}
  Configured = owner
  Local = local
  Manager = {g1, g2}
  MaxSetups = 2
  MaxManaged = 3
  Visit = {v1, v2}
  MaxSecret = 2
  MaxVisits = 4
  Provider = {"devin", "codex"}
  Command = {"mine"}
  First = "devin"
  Patcher = {r1, r2}
  MaxPatches = 2
  Prober = {p1, p2, p3}
  MaxLocks = 3
  MaxDrops = 1
  Agent = {"devin", "codex"}
  Send = {s1, s2}
  Editor = {e1}
  MaxResets = 1
  MaxEdits = 1
  Name = {"a", "b"}
  Creator = {c1, c2}
  MaxProjects = 3
  MaxRenames = 1
  Member = {1, 2, 3}
  Grouper = {m1, m2}
  Group = {"g", "h"}
  ThreadId = {1, 2, 3}
  ProjectNo = {11, 12}
  Remover = {r1, r2}
  Viewer = {v1, v2}
  MaxMessages = 3
  MaxViews = 3
  Sharer = {s1, s2}
  MaxShares = 4
  MaxAges = 2
  Server = {"tools", "devinorium-browser", "third"}
  MaxServers = 2
  McpSend = {i1}
  MaxMcpEdits = 2
  Kind = {"devin", "opencode", "grok", "gemini", "codex"}
  Turning = {t1}
  MaxTurning = 2
  Machine = {j1, j2}
  Token = {y1}
  Control = {l1}
  Owning = {n1}
  MaxMachineEdits = 2
  MaxControls = 1
CHECK_DEADLOCK FALSE
INVARIANTS
  RecordsTypeOK
  RowsAgree
  NothingIsMissed
  RunsAsConfigured
  OtherMachinesAreSafe
PROPERTIES
  OthersAreRespected
