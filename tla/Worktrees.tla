----------------------------- MODULE Worktrees -----------------------------
(***************************************************************************)
(* Where the worktrees of threads come from and who takes them away:       *)
(* ensure_thread_worktree, sync_agent_created_worktree and                 *)
(* cleanup_thread_worktree of api/threads/worktree.rs over create, remove  *)
(* and prune of git/service/worktree.rs. The threads share one repository. *)
(* A thread keeps the mode it was made with, nobody edits worktrees or a   *)
(* thread's git fields by hand, and of a thread's runs the newest counts.  *)
(* WorktreeTeardown has the wait between a thread's deletion and its       *)
(* cleanup in detail.                                                      *)
(***************************************************************************)
EXTENDS FiniteSets

CONSTANTS
  Owner,      \* threads
  Sender,     \* requests to send; each may be repeated
  Worktree    \* names: each is also a branch, and is drawn once

ASSUME WorktreeConstants == Owner # {} /\ "none" \notin Worktree /\ "free" \notin Sender

VARIABLES
  row,       \* row[t]: the thread row (live, its mode, its worktree)
  tree,      \* tree[w]: what git and the file system have under that name
  branches,  \* generated branches that exist
  sender,    \* sender[s]: where a send is, for which thread, with which name
  creating,  \* creating[t]: the send that holds t's creation lock, or "free"
  agentRun,  \* agentRun[t]: t's run, and the worktrees it saw before it began
  cleanup,   \* cleanup[t]: where the deletion of t is; the name its row held
  forsaken   \* history: names whose creation or removal failed half-way

worktreeVars == <<row, tree, branches, sender, creating, agentRun, cleanup, forsaken>>

None == "none"
Resting == [at |-> "idle", of |-> CHOOSE t \in Owner : TRUE, name |-> None]
CreateAt == {"adds", "stores", "undoes"}
CleanupAt == {"waits", "removes", "sweeps", "prunes"}

WorktreeTypeOK ==
  /\ row \in [Owner -> [live : BOOLEAN, mode : {"local", "worktree"}, path : Worktree \cup {None}]]
  /\ tree \in [Worktree -> {"unused", "registered", "leftover", "gone"}]
  /\ branches \subseteq Worktree
  /\ sender \in [Sender -> [at : {"idle", "locks"} \cup CreateAt, of : Owner,
                            name : Worktree \cup {None}]]
  /\ creating \in [Owner -> Sender \cup {"free"}]
  /\ agentRun \in [Owner -> [runs : BOOLEAN, synced : BOOLEAN, before : SUBSET Worktree]]
  /\ cleanup \in [Owner -> [at : {"none", "done"} \cup CleanupAt, name : Worktree \cup {None}]]
  /\ forsaken \subseteq Worktree

WorktreeInit ==
  /\ \E mode \in [Owner -> {"local", "worktree"}] :
       row = [t \in Owner |-> [live |-> TRUE, mode |-> mode[t], path |-> None]]
  /\ tree = [w \in Worktree |-> "unused"] /\ branches = {}
  /\ sender = [s \in Sender |-> Resting]
  /\ creating = [t \in Owner |-> "free"]
  /\ agentRun = [t \in Owner |-> [runs |-> FALSE, synced |-> FALSE, before |-> {}]]
  /\ cleanup = [t \in Owner |-> [at |-> "none", name |-> None]]
  /\ forsaken = {}

gitVars == <<tree, branches>>
Registered == {w \in Worktree : tree[w] = "registered"}
Moves(s, where) == sender' = [sender EXCEPT ![s].at = where]
Rests(s) == sender' = [sender EXCEPT ![s] = Resting]
Releases(t) == creating' = [creating EXCEPT ![t] = "free"]

\* runs.rs: snapshot_worktree_paths, then the agent. A thread that has its own
\* worktree by then (its copy of the row) will not look for another.
Starts(t) ==
  agentRun' = [agentRun EXCEPT ![t] =
    [runs |-> TRUE, synced |-> row[t].path # None, before |-> Registered]]

-----------------------------------------------------------------------------
(* ensure_thread_worktree *)

\* The send reads the row. A local thread, or one with a worktree, runs at once.
SendReads(s, t) ==
  /\ sender[s].at = "idle" /\ row[t].live
  /\ IF row[t].mode = "local" \/ row[t].path # None
     THEN Starts(t) /\ UNCHANGED sender
     ELSE sender' = [sender EXCEPT ![s] = [at |-> "locks", of |-> t, name |-> None]]
                   /\ UNCHANGED agentRun
  /\ UNCHANGED <<row, gitVars, creating, cleanup, forsaken>>

\* Mutant of TakeCreationLock: the row is not read again under the lock.
TakeCreationLockOnly(s) ==
  LET t == sender[s].of IN
  /\ sender[s].at = "locks" /\ creating[t] = "free"
  /\ creating' = [creating EXCEPT ![t] = s] /\ Moves(s, "adds") /\ UNCHANGED agentRun
  /\ UNCHANGED <<row, gitVars, cleanup, forsaken>>

\* The lock of the thread, then the row again: another send may have made it.
\* A row that is gone is no reason to stop.
TakeCreationLock(s) ==
  LET t == sender[s].of IN
  /\ sender[s].at = "locks" /\ creating[t] = "free"
  /\ IF row[t].live /\ row[t].path # None
     THEN Rests(s) /\ Starts(t) /\ UNCHANGED creating
     ELSE creating' = [creating EXCEPT ![t] = s] /\ Moves(s, "adds") /\ UNCHANGED agentRun
  /\ UNCHANGED <<row, gitVars, cleanup, forsaken>>

\* git worktree add -b. A failure that shows late (the process is killed, or
\* the new worktree is not found in the list, the client goes away) has made
\* the branch, with or without the worktree, and nothing undoes it.
AddWorktree(s) ==
  /\ sender[s].at = "adds"
  /\ \E w \in Worktree :
       /\ tree[w] = "unused"
       /\ branches' = branches \cup {w}
       /\ \/ /\ tree' = [tree EXCEPT ![w] = "registered"]
             /\ sender' = [sender EXCEPT ![s].at = "stores", ![s].name = w]
             /\ UNCHANGED <<creating, forsaken>>
          \/ /\ \E left \in {"registered", "gone"} : tree' = [tree EXCEPT ![w] = left]
             /\ Rests(s) /\ Releases(sender[s].of) /\ forsaken' = forsaken \cup {w}
  /\ UNCHANGED <<row, agentRun, cleanup>>

\* update_thread_git: zero rows, or an error, and the worktree is undone.
StoreWorktree(s) ==
  LET t == sender[s].of IN
  /\ sender[s].at = "stores"
  /\ \/ /\ row[t].live
        /\ row' = [row EXCEPT ![t].path = sender[s].name]
        /\ Rests(s) /\ Releases(t)
        /\ agentRun' = [agentRun EXCEPT ![t] =
             [runs |-> TRUE, synced |-> TRUE, before |-> Registered]]
     \/ Moves(s, "undoes") /\ UNCHANGED <<row, creating, agentRun>>
  /\ UNCHANGED <<gitVars, cleanup, forsaken>>

\* Removal of w and its branch, as far as git does it.
Removed(w) ==
  \/ tree' = [tree EXCEPT ![w] = "gone"] /\ branches' = branches \ {w} /\ UNCHANGED forsaken
  \/ forsaken' = forsaken \cup {w} /\ UNCHANGED gitVars

UndoWorktree(s) ==
  /\ sender[s].at = "undoes"
  /\ Removed(sender[s].name)
  /\ Rests(s) /\ Releases(sender[s].of)
  /\ UNCHANGED <<row, agentRun, cleanup>>

\* The client goes away: the future and its lock are dropped at an await.
SendIsDropped(s) ==
  LET t == sender[s].of IN
  /\ sender[s].at # "idle"
  /\ Rests(s)
  /\ creating' = IF creating[t] = s THEN [creating EXCEPT ![t] = "free"] ELSE creating
  /\ forsaken' = forsaken \cup ({sender[s].name} \ {None})
  /\ UNCHANGED <<row, gitVars, agentRun, cleanup>>

-----------------------------------------------------------------------------
(* sync_agent_created_worktree, when the run ends *)

\* One that appeared since the snapshot: the newest, by a heuristic. The copy
\* of the row it decides by is the one the run began with.
RunEnds(t) ==
  /\ agentRun[t].runs
  /\ agentRun' = [agentRun EXCEPT ![t].runs = FALSE]
  /\ LET new == Registered \ agentRun[t].before IN
     IF agentRun[t].synced \/ new = {} \/ ~row[t].live
     THEN UNCHANGED row
     ELSE \E w \in new : row' = [row EXCEPT ![t].path = w, ![t].mode = "worktree"]
  /\ UNCHANGED <<gitVars, sender, creating, cleanup, forsaken>>

-----------------------------------------------------------------------------
(* delete and cleanup_thread_worktree *)

\* The row goes first, and is what the cleanup goes by.
DeleteRowFirst(t) ==
  /\ row[t].live
  /\ row' = [row EXCEPT ![t].live = FALSE]
  /\ cleanup' = [cleanup EXCEPT ![t] = [at |-> "waits", name |-> row[t].path]]
  /\ UNCHANGED <<gitVars, sender, creating, agentRun, forsaken>>

\* wait_finished; a row without a generated branch needs nothing more.
CleanupBegins(t) ==
  /\ cleanup[t].at = "waits" /\ ~agentRun[t].runs
  /\ cleanup' = [cleanup EXCEPT ![t].at = IF cleanup[t].name = None THEN "done" ELSE "removes"]
  /\ UNCHANGED <<row, gitVars, sender, creating, agentRun, forsaken>>

\* The worktrees checked out on the branch. A removal that fails leaves the
\* worktree registered, or its directory alone.
CleanupRemoves(t) ==
  LET w == cleanup[t].name IN
  /\ cleanup[t].at = "removes"
  /\ \/ tree' = [tree EXCEPT ![w] = IF @ = "registered" THEN "gone" ELSE @] /\ UNCHANGED forsaken
     \/ tree' = [tree EXCEPT ![w] = IF @ = "registered" THEN "leftover" ELSE @] /\ UNCHANGED forsaken
     \/ forsaken' = forsaken \cup {w} /\ UNCHANGED tree
  /\ cleanup' = [cleanup EXCEPT ![t].at = "sweeps"]
  /\ UNCHANGED <<row, branches, sender, creating, agentRun>>

\* What lies at the path and is not registered by now; when the list cannot be
\* read again, nothing is swept.
CleanupSweeps(t) ==
  LET w == cleanup[t].name IN
  /\ cleanup[t].at = "sweeps"
  /\ \/ tree' = [tree EXCEPT ![w] = IF @ = "leftover" THEN "gone" ELSE @] /\ UNCHANGED forsaken
     \/ forsaken' = forsaken \cup {w} /\ UNCHANGED tree
  /\ cleanup' = [cleanup EXCEPT ![t].at = "prunes"]
  /\ UNCHANGED <<row, branches, sender, creating, agentRun>>

\* prune, then the branch, which goes unless it is checked out.
CleanupPrunes(t) ==
  LET w == cleanup[t].name IN
  /\ cleanup[t].at = "prunes"
  /\ branches' = IF tree[w] = "registered" THEN branches ELSE branches \ {w}
  /\ cleanup' = [cleanup EXCEPT ![t].at = "done"]
  /\ UNCHANGED <<row, tree, sender, creating, agentRun, forsaken>>

\* The client goes away and its future is dropped, or the repository or its
\* machine cannot be reached: what is left stays.
CleanupIsDropped(t) ==
  /\ cleanup[t].at \in CleanupAt
  /\ cleanup' = [cleanup EXCEPT ![t].at = "done"]
  /\ forsaken' = forsaken \cup ({cleanup[t].name} \ {None})
  /\ UNCHANGED <<row, gitVars, sender, creating, agentRun>>

SendStep(s) ==
  \/ \E t \in Owner : SendReads(s, t)
  \/ TakeCreationLock(s) \/ AddWorktree(s) \/ StoreWorktree(s) \/ UndoWorktree(s)
  \/ SendIsDropped(s)

DeleteStep(t) ==
  \/ DeleteRowFirst(t) \/ CleanupBegins(t) \/ CleanupRemoves(t)
  \/ CleanupSweeps(t) \/ CleanupPrunes(t) \/ CleanupIsDropped(t)

WorktreeNext == (\E s \in Sender : SendStep(s)) \/ (\E t \in Owner : RunEnds(t) \/ DeleteStep(t))

WorktreeSpec == WorktreeInit /\ [][WorktreeNext]_worktreeVars

-----------------------------------------------------------------------------
OnDisk(w) == tree[w] \in {"registered", "leftover"} \/ w \in branches

\* Somebody will take w away: the thread whose row names it, the deletion of
\* such a thread, or the send that has just made it.
Accounted(w) ==
  \/ \E t \in Owner : row[t].live /\ row[t].path = w
  \/ \E t \in Owner : cleanup[t].at \in CleanupAt /\ cleanup[t].name = w
  \/ \E s \in Sender : sender[s].at \in CreateAt /\ sender[s].name = w

\* Concurrent sends of a thread, its deletion at any step of a creation, and
\* runs that adopt what they find leak no worktree, directory or branch; only
\* a git failure or a dropped request may (worktree.rs, the rollbacks of
\* ensure_thread_worktree, and cleanup_thread_worktree).
NothingLeaks == \A w \in Worktree \ forsaken : OnDisk(w) => Accounted(w)

\* "A worktree checked out on the thread's temp branch is provably ours: remove
\* it wherever it is" (worktree.rs:536-537): a thread's cleanup never removes
\* the worktree of another. But a run takes any worktree that appeared since it
\* began for its agent's, also one just made for another thread's first send,
\* and then both rows name the same branch.
CleanupSparesOthers ==
  [][\A t, u \in Owner :
       CleanupRemoves(t) /\ row[u].live /\ row[u].path = cleanup[t].name => UNCHANGED tree
    ]_worktreeVars

=============================================================================
