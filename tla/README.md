# Devinorium: a formal model of agent runs and of the services around them

Devinorium is a self-hosted server (Rust, axum, SQLite) with a Flutter client. A user
writes into a *thread*; the server stores the message, starts a *run* that drives a coding
agent (a local process or a remote satellite), streams the agent's output to whoever
watches, and stores the reply. Most of what is hard in this program happens around the run:
it is started, watched, stopped, displaced by a newer run, asks its user, is retried,
aborted, deleted under its feet and cut off by crashes, by request handlers, spawned tasks,
timers and clients that know little of each other. The rest is services that share little
with it and with each other, and whose difficulty is several steps against a file system,
git, a child process or a network, any of which may fail or change meanwhile.

## Inventory

| Component | State it keeps | Operations | What is hard | What makes it correct | Module |
|---|---|---|---|---|---|
| Thread runner (`src/src/thread_runner.rs`) | map thread -> run; per run: status, error, cancelled flag, task handle, event sender; lifecycle feed | start, stop, set_status, close, removal of old records, stop_all, wait_finished | the task, stop, two timers and the next start race for one record | one Running run per thread and it can be reached; a stop wins; the feed tells the truth | `RunRegistry`, `ThreadRunner` |
| Run pipeline (`src/src/api/threads/{send,resend,runs,persistence,rate_limit}.rs`, `src/src/db/messages.rs`) | message rows with turn numbers | send, edit, regenerate, run_thread, watchdog of stop, reconciliation at boot | writers without a common lock, rollback, crashes, dropped handlers | turns stay in order, each has its user message, each gets closed | `ThreadTurns` |
| Event stream (`thread_runner.rs`, `runs.rs`, `src/flutter/lib/state/`) | numbered events, broadcast channel, snapshots, the client's view | emit, subscribe, snapshot, reduce, recover | lag, reconnection, snapshots that are not atomic | the client shows the run, sees its prompt, and settles | `RunEvents` |
| Permissions, asks, attention (`permissions.rs`, `thread_runner.rs`, `push/dispatch.rs`) | pending maps, the request of the run, the feed's readers | ask, answer, time out, drop, publish | answer against time-out against abort; two publishers of one feed | the agent obeys the user's answer; who waits can be answered; the sidebar is current | `RunAttention` |
| Deletion of a thread (`routes.rs`, `projects.rs`) | rows, the run | delete, stop, wait, clean up | a draining agent, a send under way, a client that goes away | nobody that could be waited for works in a removed worktree | `WorktreeTeardown` |
| Worktrees (`worktree.rs`) | git worktrees, git fields of threads | create with rollback, adopt, clean up | git and the row are two things; two threads look at one repository | nothing leaks, nothing of others is removed | `Worktrees` |
| Satellite and hub (`src/src/satellite/`, `providers/remote.rs`, `node_client.rs`) | run table, pending callbacks | run, callback, cancel | the network in between | who asks is answered by the user; nobody waits for a side that is gone | `SatelliteRun` |
| Pairing (`satellite/mod.rs`, `api/federation.rs`) | code, token, nodes | pair, probe, remove | lost answers, restarts between two steps | one pair per code, for good as far as the state file can be written and read | `SatellitePairing` |
| Codex (`providers/codex/`) | child, pending requests, event channel | start, resume, prompt, cancel | reader, consumer and watcher around one child | what is stored can be resumed; no child is left | `CodexTurn` |
| ACP agents (`providers/acp/`) | session, staged attachments | load, prompt, cancel, stage | replay against live messages; a shared directory; options set one request after the other, each with fallbacks | history stays history; staged files stay; what runs unasked was allowed to | `AcpTurn`, `AgentSetup` |
| Terminals (`src/src/terminal/`, `api/terminal.rs`) | sessions, their sockets | spawn, attach, sweep, kill | the sweep, kill, the shell's end and sockets race | a removed shell is dead; open sockets hear the exit | `Terminals` |
| Files and the editor (`api/files.rs`, `satellite/files.rs`, `editor_store.dart`) | a file, tabs | open, save, reload, upload, delete | check and write are apart; dropped requests go on | no update is overwritten unseen | `FileEdits` |
| Git panel (`git/service/changes.rs`, `api/git.rs`) | HEAD, index, working tree | discard, stage, unstage, commit | many git calls per request, an agent in the same tree | a row discarded is gone, the index goes back to HEAD, embedded repositories stay | `GitPanel` |
| Git caches (`git/service/{mod,status,branch,sync}.rs`) | detected repository, lists of branches and worktrees | read through, drop, invalidate | a slow read against a change | no entry is older than the last change, unless its read overlapped | `GitCache` |
| Clones (`git/clone.rs`, `api/clones.rs`, `satellite/clone.rs`) | rows, directories | clone, time out, clean up | a target two users share | a failed clone leaves nothing that it can remove, and takes nothing | `Clones` |
| MCP servers and bundles (`api/settings.rs`, `mcpb.rs`, `mcp_store.dart`) | list, extracted files | set, install, prune | file tasks outlive their request and lock | what is stored has its files; the arguments of a bundle have their values, what is off stays off | `Bundles`, `McpServers` |
| Self-update (`update.rs`, `api/update.rs`) | in-progress flag, staged file, executable | check, apply, restart | concurrent and dropped requests | only a verified executable is installed | `SelfUpdate` |
| Usage (`db/usage.rs`) | last counters of a session, events | record | cumulative counters, concurrent recorders, restarts, snapshots without counters | no token is counted twice but for what such a snapshot has forgotten | `UsageLedger` |
| Tailscale serve (`api/tailscale.rs`, `tailscale/mod.rs`, `main.rs`) | mappings of tailscaled, setting | enable, disable, start, shutdown | each call may fail; others use the host | no foreign port is taken; a failed enable does not unexpose | `TailscaleServe` |
| Browser tools (`src/src/browser/`) | engine, epoch of the snapshot, refs in the page | navigate, snapshot, act | the page moves by itself; time-outs | a ref hits what it was shown for | `BrowserSession` |
| Rate limiter (`security/rate_limit.rs`) | token buckets | check, evict | eviction must not refill | no debt is forgiven | `Limiter`, `RateLimit` |
| Accounts and sign-in (`auth/`, `api/{auth,accounts}.rs`, `db/{users,sessions}.rs`) | users, sessions, pending secrets | boot, login, factor, passwords | two statements and a crash in between; handlers that go by an old row | somebody is owner; a factor that is on was confirmed | `AccountSetup`, `SignIn` |
| Provider settings (`api/auth.rs`, `db/mod.rs`, `providers/status.rs`) | two columns and a map of commands; probe results | patch, probe | a legacy column beside the map; a lock that leaves its map | the command that was named runs; one probe at a time | `ProviderChoice`, `ProviderProbe` |
| The row of a thread (`api/threads/{routes,context}.rs`, `db/threads.rs`) | provider, session, title, group, viewed mark | send, update, reset, view | runs that go on with an old copy of the row | a session fits its provider; the user's title stays; new output is unread | `ThreadRow`, `ThreadReaders` |
| Projects and groups (`api/{projects,project_groups}.rs`, `db/`) | projects, positions, groups, folders | create, rename, reorder, group, delete | a look, a folder and an insert; half a group | a new project comes last; groups that are named are there | `Projects`, `ProjectGroups` |
| Removal and shares of threads (`routes.rs`, `projects.rs`, `share.rs`) | threads, who cleans up; links | create, delete one, delete a project; share | who deletes a row has to clean up after it | each is cleaned up after once; links stay | `ThreadRemoval`, `ThreadShare` |
| Remote machines (`api/machines.rs`, `api/machine_control.rs`, `machine_grants.rs`, `ssh.rs`, `vnc/`) | rows with a pinned key, tokens | create, change, grant, probe, exec, input, screenshot | a call works on a row read before; servers send what they like | a pin belongs to its endpoint; input is whole or nothing; a picture stays in its canvas | `Machines` |
| Context references and skills, Flutter views | mostly rows | request-scoped | little | - | not modelled |

`PROJECT.json` lists every component with its source files and says what is modelled of it;
its `hazards` are what is hard to test in this code, each at its line, with the properties
that watch over it or the reason why none does.

## Modules and how they correspond to the code

The run:

- **`RunRegistry`** - what the runner promises, without locks, timers or tasks: a slot
  per thread that a run occupies from its start to its outcome, and a feed that tells
  exactly the transitions.
- **`ThreadRunner`** - the runner itself. `current` is the map, `status`, `error`,
  `cancelled`, `open` the fields of `RunState`, `task` the program counter of the spawned
  task and its wrapper, `reaper` that of the task `stop` spawns, `stopRun`/`stopPc` a stop
  that holds the map lock, `shutdown`/`swept`/`unvisited` the state of `stop_all`.
  `set_status` is one step because it publishes under the status write lock; stop is four,
  because the task it stops needs no map lock and can act between them. It implements
  `RunRegistry` (`ImplementsRegistry`). **`ThreadRunnerProofs`** holds the theorems.
- **`WorktreeTeardown`** - extends `ThreadRunner` by the delete handler: the row goes, the
  run is stopped (with the runner's own steps), `wait_finished` looks and checks in turn,
  the worktree is removed. All of it is the future of the request, so that a client that goes
  away drops it between any two steps (`DeletionIsDropped`); `stop` itself awaits only locks
  that are held for instants, and a drop inside of it counts as one before or after. Runs go on
  as before underneath. `unseen` is history: the unfinished runs that had been displaced when
  the wait first looked.
  Its theorems are in `ThreadRunnerProofs` too.
- **`ThreadTurns`** - one thread's rows and their writers. A request is a send or a resend,
  numbered in the order of arrival; `at` follows its handler and then its run from statement
  to statement, and a handler may be dropped between two (`RequestIsDropped`), which leaves the
  message of a send behind; `dog` is a stop request with its watchdog, which `stop` spawns
  as soon as the locks of the runner let it. The registry is coarser here
  (cancelled and Stopped in one step). `strayed` is history: a run that was stopped *and*
  displaced by a newer run has stored a prompt or deleted rows, or the delete of an edit has
  failed. Three properties are stated for threads in which that has not happened.
  **`ThreadTurnsProofs`** holds the theorems.
- **`RunEvents`** - one run and one client. Applying a part, numbering its event and sending
  it are three steps; a snapshot reads parts, prompt, number and status in four. `rx` is the
  cursor of the client's receiver in the channel, `view` the `StreamingSnapshot` of the
  reducer, `mode` what the store is doing. `view.torn` is history: the snapshot this view
  started from had fields older than its number. `reply` is the client's answer to a prompt, on
  its way to the server and back; the client then clears the prompt that it shows, whichever
  it is (`view.wiped` is history: that was a later one). **`RunEventsProofs`** holds the
  theorems.
- **`RunAttention`** - one run whose prompts come one after another. `pending` is the map of
  open prompts with `RemoveOnDrop`, `responder` a client's answer between its look and its
  send, `feed` the lifecycle feed, whose Running events are read and sent in two steps
  against `set_status`; the push dispatcher and the sidebar read it.
  **`RunAttentionProofs`** holds the theorems.

The agent's side, composed in **`Agents`** (they share no state: `part` names the one a
behaviour is about; theorems in **`AgentsProofs`**):

- **`CodexTurn`** - `run_prompt` with its reader task, the pending requests under their lock,
  the bounded event channel, the cancel watcher and the teardown; the child is external.
- **`Terminals`** - the session map, the reader and the exit task of a session, kill and the
  sweep, and sockets that subscribe, lag and close.
- **`SatelliteRun`** - hub and satellite with the event stream, callbacks and cancellation
  between them, `RunGuard` and its cleanup; any call may be lost and the connection break.

The services, composed in **`Services`** in the same way (theorems in **`ServicesProofs`**):

- **`FileEdits`**, **`AcpTurn`**, **`SatellitePairing`**, **`SelfUpdate`**, **`Worktrees`**,
  **`Clones`**, **`Bundles`** - a request is a record with a step of its handler; a dropped
  request leaves what its blocking tasks still do. The state file of `SatellitePairing` may fail
  to be written or read, and `forgotten` is history: whose token that took. `loose` of `Bundles`
  are the servers whose values name their directory elsewhere than at the beginning.
- **`GitPanel`** - `req` is the request with the path it is at and what it does next; `born`,
  `head`, `index`, `workTree` are the repository, which an agent changes between any two git
  calls. Every git call may fail, before or after its effect; a `rev-parse` that does is read as
  an unborn branch (`req.misread`). `touched` is history.
- **`GitCache`** - `version` counts what git would say; a request is the list of steps it has
  left (`CallSteps`), so that checkout's second invalidation and create_branch's nested
  checkout come out as in the code. `cleared` and an entry's `overlaps` are history. One of
  the two lists is modelled.
- **`TailscaleServe`** - `mapping` is tailscaled's, `request` the owner's calls, `startup` the
  task of `main` and later its shutdown. `seen` is history.
- **`UsageLedger`** - one session, `turn` its recorders, `writer` who is in BEGIN IMMEDIATE. A
  `blank` snapshot has a cost and no counters. `known` and `regained` are history: the counter
  the server was last told in truth, and what blank snapshots had it count again.
- **`BrowserSession`** - `epoch` and `stamp` are `SnapshotClock`, `tags` the attributes in the
  page, `told` what the agent was shown. `torn` is history: a script renumbered the page
  after its call had failed.
- **`RateLimit`** implements **`Limiter`**: a key's debt is what its bucket lacks. Tokens are
  whole and the unit of time refills one.

The handlers over rows of the database, composed in **`Records`** in the same way; a step is
one statement or transaction, and a request may end or be dropped between any two (theorems
in **`RecordsProofs`**):

- **`AccountSetup`** - `boot` is how far `main` has come with `bootstrap::run` and
  `run_local`, `managing` the requests of `api/accounts.rs`.
- **`SignIn`** - one account; `visit` is a request with what its handler goes by of the row
  that the middleware has read. `confirmed` and `halves` are history.
- **`ProviderChoice`** - `chosen` is the two columns and the map of `users`, `patcher` a
  request with the row it has read. **`ProviderProbe`** - `inflight` is the map of locks,
  `prober` a caller of `status_for`.
- **`ThreadRow`** - `sends` hold the copy of the row that a run works with, `edit` the PATCH,
  `resetter` the reset. **`ThreadReaders`** - `viewed` is the watermark, `viewer` a request
  for the detail; `seen` is history.
- **`McpServers`** - the list of the owner and what a run makes of it. A text is a sequence
  of pieces, literals or placeholders. `mcpRun[s].got` is what the agent got; `off` is
  history: the servers that have been off all along, and `bundled`: those whose entry came of a
  bundle. What the owner writes by hand is stored as it is, a placeholder included.
- **`AgentSetup`** - `saved` is what an agent has stored with the session, `setup` a turn with
  the options its session has by now; `catalog` is the cache of models. `lack` of a turn is
  history: its request for the permission mode was refused or could not be made, or it took the
  first choice of an agent that has no mode of that name; and `allowed`: some turn was to run
  unasked.
- **`Machines`** - `mrow` is the table, `grant` the tokens, `ctl` a call with the row it has
  read, `owning` a change of the owner's. Of a row `at` is history: where the pinned key was
  seen; `astray`: a call or a change that had read another row wrote or kept the pin, and nobody
  has moved the machine or set a pin since; `raced`: so did its last change.
- **`Projects`**, **`ProjectGroups`**, **`ThreadRemoval`**, **`ThreadShare`** - rows and
  requests; `cleanups` and `lost` of `ThreadRemoval` are history.

How they fit: `WorktreeTeardown` composes `ThreadRunner` with the delete handler;
`ThreadTurns`, `RunEvents` and `RunAttention` each refine one thing the runner leaves
abstract (what a task writes, what an emit delivers, what a prompt waits for) and are coarse
about the rest. `CodexTurn`, `AcpTurn` and `SatelliteRun` are what the body of a run does.
Definitions named "Mutant of" are single faults used to confirm that the properties can
fail; no specification uses them.

## Runs

| Run | Instance | What it shows |
|---|---|---|
| `ThreadRunner_runs` | 2 threads, 2 runs, panics | type, one Running run per thread, stop wins, failures carry errors, an ended stream means a settled run, displaced runs are silent, refinement of `RunRegistry`; stopped tasks end, finished records leave, shutdown ends |
| `WorktreeTeardown_delete` | 1 thread, 2 runs, panics | no watched run in a removed worktree; deletions end, or were dropped and leave nobody in the worktree |
| `ThreadTurns_turns` | 2 requests of any kind, 1 stop, 1 crash | turns ordered, tails attended, one ending per stopped run, Completed has its reply; a trailing user message does not stay when nothing runs, unless its handler was dropped |
| `RunEvents_watch` | channel of 1, 1 part and 2 prompts but 2 of the three, 1 broken connection | the client shows the run and its prompt, and settles |
| `RunAttention_prompts` | 2 prompts, 1 client, feed of 2 | answers are obeyed and possible, the sidebar is current, each prompt is pushed, nothing stays pending |
| `Agents_turns` | Codex: channel of 1, 2 reports; 2 terminals, 1 socket; satellite: 2 asks, 1 part, 1 lost call | a stored session can be resumed, asks are answered, no process is left, nobody waits in vain |
| `Services_work` | see below | files agree, turns stay apart, pairing holds, the executable is verified, failures clean up |
| `Services_views` | see below | discards and serve act on what they saw, refs hit what was shown, caches follow, usage is counted once, `Limiter` is implemented |
| `Records_rows` | see below | the local account is an owner, a factor that is on was confirmed, sessions fit their provider, the user's title stays, the named command runs, probes are shared, groups are there, threads are cleaned up after once, output is unread until shown, new projects come last, links stay; runs get the servers that were set and no mode beyond what was allowed, other machines what was meant for them |
| `ThreadTurns_anchor` | 2 sends | *violated*: a rolled-back send leaves a turn without its user message |
| `Worktrees_adopted` | 2 threads, 2 sends, 2 worktrees | *violated*: a run adopts another thread's worktree |
| `CodexTurn_close` | channel of 1, 3 reports | *violated*: the reader of a dead child and its consumer wait for each other |

`Services_work` and `Services_views` take, for each of their parts: a tab, another client and 2
calls on a file with 2 writes (`FileEdits`); 2 turns with 1 update (`AcpTurn`); 2 pairings, 2
addresses, 1 failed code and 2 boots (`SatellitePairing`); 2 requests, 3 applications
(`SelfUpdate`); 2 threads, 2 sends, 2 worktrees (`Worktrees`); 3 clones of 2 users (`Clones`); 3
installations of 2 bundles from 2 tabs (`Bundles`); 2 requests on 2 paths with 2 steps of an
agent (`GitPanel`); 2 callers, 3 requests, 2 changes (`GitCache`); 2 requests, 2 ports, 1 step
of others (`TailscaleServe`); 3 turns, 1 token (`UsageLedger`); 2 elements, 2 epochs
(`BrowserSession`); 2 keys, costs 1 and 2, a capacity of 3, room for 1 key (`RateLimit`).

`Records_rows` takes 2 boots, 2 managers and 3 requests (`AccountSetup`); 2 requests of 4 and 2
secrets (`SignIn`); 2 requests on 2 providers with 1 custom command (`ProviderChoice`); 3
callers, 3 locks (`ProviderProbe`); 2 sends, 1 update and 1 reset (`ThreadRow`); 3 messages
and 3 looks of 2 readers (`ThreadReaders`); 2 requests for 3 projects of 2 names, each change
once (`Projects`); 3 projects, 2 groups, 2 requests (`ProjectGroups`); 3 threads of 2 projects
and 2 requests (`ThreadRemoval`); 2 requests and 4 shares (`ThreadShare`); 1 run and 2 changes of
a list of at most 2 of 3 servers (`McpServers`); 2 turns in a row of each of the 5 agents
(`AgentSetup`); 1 call and 2 changes on 2 machines, a screen of 2 by 2 (`Machines`).

Bounds, all named as constants: the numbers of threads, runs, requests, callers, keys and so
on are the sizes of sets; names beginning with `Max` are counters; a run is rate limited at
most once (`nudged`; eight times in the code). Why they are enough:

- A thread is independent of the others except for the map lock, hence two threads, where
  one stop holds the lock the other needs, and two runs, which may both be in one thread: one
  that drains and the one that displaced it. The theorems hold for any number.
- Two requests and one stop suffice for every pair of writers of a thread, and each stopped
  run takes a watchdog of its own. A channel of one event lags as soon as two events wait. A
  reply that is late needs two prompts, since it is the second that it wipes.
- Every handler of the services keeps its state in its own request and meets the others in
  the shared state only, so that two of them show any race of two; clones, bundles and usage
  take three, since there a third one notices what two left.
- In `RateLimit`, one entry against two keys makes a full table; four units of time contain
  two sweeps and an idle bucket that has not filled. In `GitCache`, two changes are what an
  entry needs to be older than a change and younger than another.

Larger instances that were checked besides: the safety of `WorktreeTeardown` with three runs
(2.8 million states), and, before the answers of the client, the misread HEAD and the blank
snapshots were modelled, of `RunEvents` with two parts and a channel of one or two events (3.2
and 2.9 million), of `GitPanel` with three steps of the agent (0.4 million), of `UsageLedger`
with three turns and two tokens (0.6 million).

`CHECK_DEADLOCK FALSE` is set everywhere because the systems may stop: all runs of the
instance have been used and ended, the process has exited, or the client has settled.

### What the violated runs show

1. **A turn can lose its anchor** (`TurnHasAnchor`). A send stores its message before it
   asks for a run. The active run stores its reply; the reply joins the new turn; the send
   is refused and takes its message back.
2. **A worktree is adopted from another thread** (`CleanupSparesOthers`). What appeared during
   a run is taken for its agent's; deleting either thread removes it under the other.
3. **Reader and consumer of a dead app server wait for each other** (`DeathEndsTurn`). The
   reader tells the consumer under the lock that the consumer takes for each request; with
   a full channel neither goes on until a stop aborts the turn.

### Further statements of the source that the code does not keep

They are stated in the modules, beside the line they quote, and no run checks them; where it
says "without", a property that is checked exempts the case by the name given.

| Statement | Module | What happens |
|---|---|---|
| `OutcomeIsFinal` | `ThreadRunner` | `stop` reads Running and sets the flag later; a run that completes in between is relabelled and announced twice |
| `NobodyInRemovedWorktree` | `WorktreeTeardown` | `wait_finished` does not know a draining run that was displaced before it looked |
| `UserTailIsAttended` without `LeftTail` | `ThreadTurns` | a send whose client goes away between the message and the run, or before the rollback, leaves the thread working until the next message, stop or boot |
| `RunningKeepsPrompt`, `MarkerSparesLiveRun` | `ThreadTurns` | a stopped edit cuts a newer run's prompt; the watchdog's look is stale when it writes |
| `NoPromptLost` | `RunEvents` | a snapshot reads the prompt first and the number last; a prompt raised in between is filtered out. And the client clears what it shows when its answer returns, a newer prompt included |
| `TerminalEventIsLast` | `RunAttention` | attention is read and sent in two steps: a Running event may follow the terminal one |
| `NoOrphanCallback` | `SatelliteRun` | a callback may be registered after the guard's cleanup |
| `ExitFollowsOutput` | `Terminals` | a socket may hear of the exit before the last output |
| `FlagMeansRestart` | `SelfUpdate` | a request dropped after the swap keeps the flag and restarts nothing |
| `GivenNameStays` | `SatellitePairing` | a pairing or a probe may overwrite the owner's name |
| `InstalledIsKept` | `Bundles` | a save that waited for the lock takes off a bundle its tab has not shown |
| `StoredServerHasBundle` without `loose` | `Bundles` | a dir is to stay "if any server's command, args, or env still point into it" (`mcpb.rs:862`), but `prune_bundles` looks at the beginning of values only: `--p=${__dirname}` loses its files |
| `StagedDiscardSparesHead` | `GitPanel` | a `rev-parse` that fails or is late is read as an unborn branch: a staged discard then removes files that HEAD has |
| `DiscardIsWhole`, `StageAllSkipsRepos` | `GitPanel` | the second path may fail after the first is done; a status that fails, or a repository in the place of a tracked file, is staged as a gitlink |
| `ForcedListIsCurrent` | `GitCache` | a forced list drops the kept one and then takes what another call has stored |
| `ShutdownSparesForeign`, `NothingStacks` | `TailscaleServe` | the fallback of the shutdown removes a foreign port; two enables that overlap leave two mappings |
| `LedgerIsBounded` | `UsageLedger` | a stopped turn that records after its successor lowers the counter, and the difference is counted again; so is all that was used before a snapshot that has a cost and no counters |
| `RefsAreNeverStale` | `BrowserSession` | a snapshot that times out renumbers the page and moves no epoch |
| `ClonedRepoStays` | `Clones` | a clone whose git fails removes the target, which another user's request may have just filled and answered with |
| `UntouchedTabIsCurrent` | `FileEdits` | the answer of a read outlives its tab: a tab that is closed while it loads and opened again takes the older of two answers |
| `TurnsStageApart` | `AcpTurn` | the last turn to leave removes the shared directory between another's probe and its own subdirectory |
| `FirstUserIsOwner` | `AccountSetup` | the first account is made and promoted in two statements; no later boot repairs a crash in between |
| `PromotedIsStaged` | `SignIn` | a verification that began before the factor was turned off, or staged anew, turns it on with the secret it was given |
| `ResetIsWhole` | `SignIn` | the statements after the one that sets the password may fail as well |
| `SwitchKeepsCommands`, `ExplicitEntriesWin` | `ProviderChoice` | a change of provider writes the legacy column over the map's entry of the outgoing one, be it older or not |
| `NormalTurnAsks` | `AgentSetup` | a turn whose request is refused, or comes to no option, goes on in the mode an earlier turn was allowed; an agent without the mode gets its first choice, which may ask nothing |
| `ResetStartsFresh` | `ThreadRow` | a stopped run is not active and stores its session when it has drained; the next send resumes it |
| `RefusedEditWritesNothing` | `ThreadRow` | the group is looked up after the title was stored |
| `RefusalLeavesNoFolder` | `Projects` | the name is taken between the first look and the second, with the folder made in between |

Seen while modelling and not stated as properties: an early database error in `clone_remote`
leaves the node's copy, despite the comment at `api/clones.rs:151`; `clone_repo` without a git
binary leaves its row (`git/clone.rs:168`); a task that panics on its own leaves its run Running
for ever; `create_branch` whose switch fails, or a git call killed at its time-out, leaves the
caches as they were, and their keys are per path, so that a linked worktree's are not emptied;
`git checkout -- p` removes a repository that has taken the place of a tracked file; an ACP
agent whose model option has no choices is left in whatever permission mode it was in, since
`apply_session_config` returns early, and Gemini keeps the earlier mode when it does not offer
the requested one; a call that has read a machine before the owner moved it pins the key of the
old endpoint for the new one (`astray` of `Machines`); a VNC input that times out may leave keys
down.

## Fairness and time

Weak fairness is assumed only of what the runtime does by itself: a spawned task is polled
between its statements, a timer fires, an abort takes effect at the next await, a request
handler that has begun goes on or is dropped with the connection of its client (tokio drives
futures that are ready, hyper drops those nobody waits for). A handler of `stop` awaits nothing
but the lookup of the thread and locks that are held for instants, and is not dropped between
its effects. Never of agents (they may work for ever, and `BodyCompletes`, `BodyFails`,
`ProviderReturns` and `WritesPart` are unfair), nor of users, crashes, boots, shells or
broken connections. `WF` of `TaskAborted` is stated apart from the other steps of a task
because an aborted task may be inside the agent's work, where nothing else is fair. Where a
conjunction of actions is fair, it is one sequential task that has one of them enabled.

- `RunAttention`: the callback of a stopped run is dropped, by its provider or ten seconds
  later by the abort; an answer that has begun is sent. Agents, users and time-outs owe
  nothing.
- `CodexTurn`: the timer of a request fires, a stop aborts in the end; the child and the user
  owe nothing (a prompt that is open is ended by its own time-out).
- `Terminals`: the sweep runs every minute, a kill that has taken its session goes on.
- `SatelliteRun`: requests that were sent arrive or fail, a satellite notices a broken
  connection when its keep-alive next writes, a stop aborts in the end.
- `Services_*` and `Records_*` check safety only and assume nothing.

The models have no clock, except `RateLimit`. What they take from the durations in the code:

- 10 s of grace come before the 15 s deadline of `wait_finished`: when that deadline passes,
  watched runs *that were stopped* have ended (`WaitExpires`, `WatchdogExpires`); others may
  not have.
- 120 s of retention are longer than any of this; between two statements of `stop` no
  removal fires (`MapFree` on the removals; in `stop_all`, which does not hold the lock, by
  this argument).
- Aborts come in the order of the stops (`Aborted` of `ThreadTurns`).
- The 2 s `stop_all` gives aborted tasks are enough for them to end (`Exit`).
- An idle bucket lives longer than it takes to fill (`RateConstants`: an hour against 500
  tokens at two a second).
- In `SelfUpdate`, nothing outside the server writes a staged file between its check and its
  rename.

## What is proved

`ThreadRunnerProofs` proves, for any sets `Thread` and `Run` and either value of
`TaskMayPanic`, from `RunnerConstants` alone (the two sentinels are not members):

- `TypeCorrect`, `OneRunningRun`, and `OutcomesAreTrue` from `StopWins`, `FailureHasError` and
  `EndOfStreamIsSettled`: the three invariants of `ThreadRunner_runs`;
- `DisplacedRunsAreSilent`: the action property on the feed;
- `RunnerImplementsRegistry`: every behaviour of the runner is one of `RunRegistry`.

None of these is inductive alone. The inductive invariant `IInv` adds: `BornInv` (a run that
has not been started is idle, not cancelled, not in the map), `MapInv` (a recorded run
belongs to its thread), `StopInv` (a stop in progress is of the recorded run, and what its
program counter says of flag and status holds), `CancelInv` (a cancelled run is Stopped,
unless its own stop is just about to publish), `TaskInv` (what the wrapper's program counter
says of status and stream), `NewsInv` (the last event of a thread is about its recorded run
whenever there is one, and carries its status). The key is `RunningIsCurrent` together with
`TaskInv`: a task that may yet write a status belongs to a run that is Running, that has
the very outcome it would write, or that is cancelled, so that `set_status` ignores it. A
displaced run is not Running, so it cannot speak in the feed. `StopInv` is what carries this
over the window between the read of Running and the flag. The proof has a lemma per part and
a step per action; the refinement adds the mapping of each action to `Begin`, `End`,
`Relabel` or a stutter.

Its second part is about `WorktreeTeardown`, for any threads and runs: `WorktreeIsLeft`
(`WorktreeOutlivesWatchedRuns`) and `DeletionsOnlyStop`, that the deletions add nothing to the
runner but stops, so that all its theorems hold under them. The invariant is `IInv` of the
runner with `LingerInv`: a run that still works in the worktree of a deleted thread is
cancelled once the stop is through, is watched or unseen while the wait looks and checks, and
is unseen when the wait is over. The runner keeps it because a run can only begin in a thread
whose row is there, and because the wait never ends while a watched run has not (`WaitExpires`).

`ThreadTurnsProofs` proves, for any sets of requests and stops (`TurnsConstants`):
`TurnsStayOrdered`, `StoppedRunEndsOnce`, `UserTailStaysAttended` and the action property
`CompletedAlwaysHasReply`. The first two follow from who has stored what by which point of its
handler (`OwnInv`, `EndingInv`, `NumbersInv`). The third is the hard one, since it speaks of the
last row, which its writer may take back. The invariant calls such rows `Shaky` (the prompt of a
send that has not got its run, or was dropped; the reply of a cancelled run before it is taken
back) and speaks of the others, `Kept`: a user message at the end of those is `Minded`, by a run
that works on it and is not cancelled, or by a stop whose watchdog has not ended (`TailInv`). It
needs more than that:

- `HolderIsWatched`: a cancelled run in the map has a stop waiting for its task; otherwise
  nobody would close the turn after the abort.
- `CloseInv`: a run that is about to complete has an answer in `Kept` with no user message
  after it, for what it answered was the tail when it began, and who else writes is refused.
- `PlaceInv` and `DrainInv`: while a displaced run still drains, the run in the map is not
  aborted before it has closed its own turn. Without the order of aborts, a watchdog could
  take a reply for the end of the turn that the displaced run is about to take back.

The set of stopped runs is counted (`PlaceInv`); the number of requests need not be finite,
that of stopped ones is. That a table with rows has a last one is well-foundedness of Nat
(`MaxOfBounded`), not induction.

`RunEventsProofs` proves, for any capacity of the channel and any number of parts, prompts and
broken connections: `SettledIsAlwaysOver` (`SettledIsOver`) and `ClientAlwaysShowsRun`
(`ClientShowsRun`). The invariant is `WatchInv`:

- `OverInv`: an event that ends the run is issued, and the channel closed, only when the run is
  not Running any more. `SettledIsOver` follows, since a client settles on such an event or on a
  status it has asked for.
- `PipeInv`: while the run is Running nobody but its task emits, one event at a time, so that
  numbers and places in the channel agree and the part of an event is the next one.
- `AskInv`: a run that waits for the user has the last event that is not a stop (`Asked`), or
  is about to number it; no event asks a later prompt.
- `SnapInv` and `ViewInv`: whoever has seen the events up to `n` has the parts up to `n`, reads
  on at `n + 1` or before, and the event that asks is among those seen or still to come
  (`ToCome`), or the reply to an answer has wiped it. It holds of a snapshot before it is sent
  as well as of the view. A step of the run leaves this alone whatever `n` is (`Watched`), and a
  lagging receiver is covered because the snapshot that is sent is at least as new as what was
  overwritten.
- `ReplyInv`: an answer that the server has taken was to a prompt that is past, or to the one
  that the run still waits on, and then the run has it. So a reply that finds a later prompt in
  view wipes that one.

The theorem needs the exceptions for torn and wiped views: `NoPromptLost`, without them, is
what the code does not keep.

`RunAttentionProofs` proves, for any clients, any number of prompts and any capacity of the
feed's channel: `PromptsAreAlwaysAnswered`, `SidebarIsAlwaysCurrent` and
`EachPromptIsPushedOnce`. The invariant comes in layers. `AttentionInv` is about the run: only
the last prompt can be open (`PromptInv`); an entry of the map is with one client at most, and
is there, answered, or in somebody's hands while the task waits (`EntryInv`); the fields say
what the task waits for (`FieldInv`). `FeedInv` says what the last event tells: the run as it
is, unless a publisher is between its read and its send, an event of attention has overtaken
the terminal one, or a stop has ended the pause for a rate limit without telling. `SideInv` is
the same of a sidebar, which has the last event or a snapshot that is newer. `PushInv` counts:
while nothing has ended the run, each event that asks has a calm one before it, there are as
many as prompts told, and the dispatcher has pushed for those it has read.

`AgentsProofs` proves of `Agents`, for any number of reports, asks and lost calls and any
capacity of the channel:

- `StoredThreadStaysLive` (`StoredThreadIsLive`). The id that `run_prompt` stores in the end is
  decided by lines that it has not taken yet, so the invariant speaks of those in the channel
  and in the pipe together (`Stream`): taking them leads to the thread the child has announced,
  and taking them up to the completion does too (`LeadsTo`, `Follows`). `LeadsTo` looks at the
  last line that tells a thread and needs no recursion. Replies leave the pipe out of the
  middle of that stream (`FollowsWithout`), and a completion of another turn on the same thread
  tells the same id (`FollowsWith`).
- `AsksAreAlwaysAnswered` (`AsksAreAnswered`), from `AsksInv`: an ask that is answered has no
  entry, those to come have neither, and the one the agent waits for has one.

`RecordsProofs` proves of `Records`, for any accounts, threads, projects, groups, servers,
machines, requests and bounds, all that its run checks: `RecordsAreTyped` (`RecordsTypeOK`),
`RowsAlwaysAgree` (`RowsAgree`, eight components), `NothingIsEverMissed` (`NothingIsMissed`,
output is unread until shown), `RunsAlwaysAsConfigured` (`RunsAsConfigured`),
`OtherMachinesStaySafe` (`OtherMachinesAreSafe`) and `OthersAreAlwaysRespected` (the action
property: new projects come last, links stay). `RecordsInv` is the conjunction of an invariant
per component, and a step of `Records` is a step or a stutter of each. What had to be added:

- `AccountInv`, `ManagedArePlain`: only dev mode skips the bootstrap of the first account, and
  whoever manages accounts leaves the local one as it is.
- `VisitInv`: a verification under way goes by a secret whose code was shown, however old the
  row its handler has read.
- `FreshFits`: a session that a run has made is of the provider the run was given, so that
  storing it with that provider keeps the row consistent.
- `PlacesAreDense`, `PlacesAreBehind`, `FoldersAreNamed`: a position is below the last id, and
  a creation that has read its position has one behind those of the projects there were.
- `RowsAreHeldToClean`: a thread whose row has gone is in the hands of one request.
- `NewOutputIsUnread` and `MarkedIsShown` of the readers: a request marks what it shows, or less.
- `ShareInv`: links in the making are counted with those made, which bounds their numbers.
- `McpInv`: what was off when a send came is not on in the list until its run has read it, nor
  is it the browser of a user who has that on; the list of a run has no name twice even if it
  was invalid when it was stored, and none of those servers. Of the servers that an installation
  has stored it says that no argument is the placeholder alone. This is not induction over data:
  what a concatenation holds is shown by the least place at which it would fail
  (`FlattenStays`), and that substituting an unset value leaves a text as long as it was, by
  `FlattenOfSingles`.
- `SetupInv`: from the step on at which the mode of a turn is decided (`Settled`, which is
  another one for each agent) a session that asks nobody was asked for, or the turn lacks its
  mode; what a session is left with was asked for by some turn or was an agent's first choice
  (`SavedFits`), and agents without such an option never have it.
- `MachineInv`: a change under way has made its patch for the row that it has read (`PatchFits`), so
  if the row is still that one the pin stays with its endpoint, and if it is not the row goes
  `astray`; a call holds no key before it has
  sent anything; and the events of an input that are sent to their end release what they press
  (`WholeInput`, kept by one sequence after another).

`ServicesProofs` proves of `Services`, for any windows, turns, callers, addresses and bounds,
the five invariants of `Services_work`, `NothingIsCountedTwice`, `CachesFollowThePanel`, the
action property `ActsOnWhatItSaw`, the refinement `ImplementsLimiter` and the types:
`ServicesAreTyped`, `FilesAlwaysAgree`, `TurnsAlwaysStayApart`, `PairingAlwaysHolds`,
`ExeIsAlwaysVerified`, `FailuresAlwaysCleanUp`, `TokensAreCountedOnce`, `CachesAlwaysFollow`,
`ActsAreOnWhatWasSeen` and `LimiterStaysImplemented`. The invariant has a part per component:

- `FileInv`: one save at a time is past its check under the lock of the path; the first tab
  of a window has one request in flight at most, which is what the tab waits for, and a tab
  that is too old has a read to come (`OneCall`, `TabCatchesUp`).
- `AcpInv`: the answer of a load is the last message of the replay, and while a turn is between
  its requests nothing is on the way to it (`ReplayIsFirst`); what a turn has staged is where
  its record says (`StagesOwn`).
- `TokensInv`: the code of a boot is with one request at most, which alone may still get a token
  in it, and a token that has left the satellite is in its file or `forgotten`; the file has no
  token that the satellite does not know, but for forgotten ones.
- `StagingInv`: the flag lets in one application at a time, and what it has checked is what is
  staged until it renames it.
- `TreeInv`, `CloneInv`, `BundleInv`: one send makes the worktree of a thread, while its row
  names none, and a deletion that goes on to its next step has done the one before or has
  forsaken the name (`OneCreates`, `NamesAreDrawn`); a partial clone is of a request whose git
  is at work or was killed, or that goes on to remove it or could not; a blocking task works for the
  request that holds the lock, unless a dropped one has put the bundles at risk (`WorkIsOwned`).
- `LedgerInv`: there is an order of the snapshots in which each covers what was used between two
  of them (`Booked`); the ledger holds no more than had been used at the newest one that was
  recorded, unless a late one has lowered the counter, and what blank snapshots made it forget:
  the counter that is stored is zero or the one the agent told (`stored \in {0, known}`). The
  order is stated with a function that says how much had been used at each snapshot, which the
  model does not keep.
- `PanelInv`: a discard has cleared the paths before the one it is at, and its looks at this
  one lead where they say, unless the agent has `touched` it; one that takes the branch for
  unborn is right, or has `misread` it.
- `PortsInv`: a port that a request is about to drop or take is not another's, unless it was
  `seen` to change. This must be known as soon as the request is to take the new port, since
  it goes on to drop the old ones.
- `RefsInv`: in the epoch of the stamp a ref is on the element it was told for, or on none,
  unless the page was renumbered without an answer.
- `CacheInv` (`CacheTypeCorrect`, `CachesFollow`): nobody has read, and no call has made, a
  later state than there is, and what a caller had found cleared when it read is no later than
  what it read. So an entry stored by a call that nothing overlapped is at least as recent as
  what is cleared, and whenever more is cleared, the caches are empty.
- `RateTypeCorrect`, `LimiterIsImplemented`, `RateBound`: eviction leaves every key's `Level`
  as it is, since an entry goes only when it has idled for `MaxIdle`, and is then full because
  `Capacity =< MaxIdle`, or when it has refilled. So the debt of `Limiter` is untouched by the
  sweeps, and a request that is turned away for a full table finds only keys in debt there.
  What a key was granted and what its bucket holds together are at most capacity and time.
- `ServicesBounds`, which `ServicesAreTyped` adds for the types: a write left to the blocking
  pool was a save under way before, and every save was sent as a request of its own, so those
  left and those under way together are no more than the requests (`FileBounds`); what the map
  of failed pairings is cut down to has room for one more, also when every address in it is
  locked out (`BoundedHasRoom`, `FailedFits`).

Assumptions beside the named ones of the modules: sentinels ("none", "free", "nobody") are
not members of the sets they stand beside, requests and stop requests are different, and a
page shows finitely many elements. No bound has to be small: each `Max` constant is any natural
number.

What failed on the way was worth as much. `UntouchedTabIsCurrent` was believed to hold, and
every run agreed, since none of them opened a tab twice; the attempt to prove it ended at a
read that outlives its tab, and TLC then finds it in nine states. `FirstTabIsCurrent` is what
remains true. `PortsInv` and `DrainInv` were not inductive in their first forms either; there
the properties stood, and TLC on larger instances agreed with the strengthened invariants. And
`FailedFits` could not be proved while the map was cut down in a CASE of which two arms may hold
at once: TLC takes the first, TLA+ leaves it open. Where the code's checks come in an order, the
models now say so with IF.

Only model-checked:

- liveness under fairness and ENABLED, which are outside the prover's reach. Every invariant
  and action property that a passing run checks is a theorem.

## What the models leave out

- Contents: messages, parts, events, files and commits are numbers, roles or versions;
  attachments, titles, pagination and the per-thread `seq` are not there.
- Failing writes to SQLite, except the delete of an edit and the steps of the services that
  handle them.
- In `RunEvents`: the removal of the record while a client recovers (404), the twenty polls
  of the tail, further clients except that one of them may have claimed the initial
  receiver, and the client's limit on streams that end without an event.
- In `GitPanel`: symbolic links, directories without a repository, ignored files; git is
  modelled from its answers. In `RateLimit`: fractions of tokens and the shrinking of the map.
  In `UsageLedger`: several counters of a snapshot, which are diffed alike, and currencies (a
  turn without a cost in the currency is a blank snapshot). In `BrowserSession`: what actions do
  beyond changing the page.
- Not modelled at all, with their reasons in `PROJECT.json`: context references and skills
  (request-scoped reads), parsing of git's, agents' and files' formats, forge
  APIs, and the Flutter client outside the run stream, the editor and the server list. Of the
  56,000 lines of implementation the greater part is of this kind: views, parsing, formatting
  and the unit tests inside the source files, where there is no state to speak of.

## Plan

Written so far, in this order: `ThreadRunner` and `RunRegistry` with their proofs,
`WorktreeTeardown`, `ThreadTurns`, `RunEvents`, `RunAttention`, `SatelliteRun`, `CodexTurn`,
`Terminals`, `SatellitePairing`, `SelfUpdate`, `FileEdits`, `AcpTurn`, `Clones`, `Worktrees`,
`Bundles`, `RateLimit`, `Limiter`, `BrowserSession`, `GitPanel`, `GitCache`, `TailscaleServe`,
`UsageLedger`, the modules of `Records`; then the proofs of `WorktreeTeardown`, `Records`,
`Services`, `ThreadTurns`, `RunAttention`, `Agents` and `RunEvents`. Next, most important first:

1. Abstract specifications of more components, as `RunRegistry` and `Limiter` are, with their
   refinements.
2. `WorktreeTeardown` composed with `Worktrees`, so that what the cleanup removes and whom
   the deletion has waited for meet.
3. `ThreadRow` over `CodexTurn` and `AcpTurn`: the session of a thread over several turns.
4. `SatelliteRun` as an implementation of the provider that `ThreadTurns` assumes.
5. The attempts and delays of the rate-limit retry.

## Running

`tlc -config <run>.cfg <module>` for each row of the table of runs (the `Services` and
`Records` runs take a minute or two), and `tlapm <module>.tla` for the proofs:
`ThreadRunnerProofs` and `RunEventsProofs` in about a minute each, `ThreadTurnsProofs`,
`RunAttentionProofs` and `AgentsProofs` in a few, `RecordsProofs` and `ServicesProofs` in about
ten each.
