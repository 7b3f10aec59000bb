---------------------------- MODULE ThreadRemoval ----------------------------
(***************************************************************************)
(* How threads come and go: api/threads/routes.rs (create, delete) and     *)
(* delete_one of api/projects.rs, each removing rows of its own accord and *)
(* cleaning up behind the rows it got back. What stopping a run and        *)
(* removing a worktree take is in WorktreeTeardown and Worktrees.          *)
(***************************************************************************)
EXTENDS Naturals

CONSTANTS
  ThreadId,   \* threads that are made, each at most once
  ProjectNo,  \* projects
  Remover     \* requests, each in one handler at a time

VARIABLES
  placed,   \* placed[t]: "new", "empty", "used" or "gone"
  home,     \* home[t]: the project of a thread
  projects, \* the projects there are
  remover,  \* remover[r]: where a request is, and the rows it has got back
  cleanups, \* cleanups[t]: how often a thread has been cleaned up after
  lost      \* threads whose rows a request had when it was dropped

removalVars == <<placed, home, projects, remover, cleanups, lost>>

NobodyRemoves == [at |-> "idle", kind |-> "none", subject |-> 0, rows |-> {}]

Rows == {t \in ThreadId : placed[t] \in {"empty", "used"}}

RemovalTypeOK ==
  /\ placed \in [ThreadId -> {"new", "empty", "used", "gone"}]
  /\ home \in [ThreadId -> ProjectNo \cup {0}]
  /\ projects \subseteq ProjectNo
  /\ remover \in [Remover -> [at : {"idle", "remove", "clean", "insert"},
                              kind : {"none", "create", "thread", "project"},
                              subject : ThreadId \cup ProjectNo \cup {0},
                              rows : SUBSET ThreadId]]
  /\ cleanups \in [ThreadId -> 0..2]
  /\ lost \subseteq ThreadId
  /\ \A t \in Rows : home[t] \in projects

RemovalInit ==
  /\ placed = [t \in ThreadId |-> "new"]
  /\ home = [t \in ThreadId |-> 0]
  /\ projects = ProjectNo
  /\ remover = [r \in Remover |-> NobodyRemoves]
  /\ cleanups = [t \in ThreadId |-> 0]
  /\ lost = {}

Handles(r, kind, at) == remover[r].kind = kind /\ remover[r].at = at

\* The handler goes on with the rows it has, and is done without any.
GoesWith(r, rows, then) ==
  remover' = [remover EXCEPT ![r] =
    IF rows # {} THEN [@ EXCEPT !.at = "clean", !.rows = rows]
    ELSE IF then = "idle" THEN NobodyRemoves ELSE [@ EXCEPT !.at = then, !.rows = {}]]

Enters(r, kind, subject) ==
  /\ remover[r].at = "idle"
  /\ remover' = [remover EXCEPT ![r] =
       [at |-> "remove", kind |-> kind, subject |-> subject, rows |-> {}]]
  /\ UNCHANGED <<placed, home, projects, cleanups, lost>>

\* create: the project was there when it looked.
AsksToCreateThread(r, p) == p \in projects /\ Enters(r, "create", p)
AsksToDeleteThread(r, t) == placed[t] # "new" /\ Enters(r, "thread", t)
\* delete_one looks the project up for its path and its node.
AsksToDeleteProject(r, p) == p \in projects /\ Enters(r, "project", p)

\* delete_empty_threads: all of the project without a message, from whatever
\* request they come.
RemovesEmpty(r) ==
  LET empty == {t \in Rows : placed[t] = "empty" /\ home[t] = remover[r].subject} IN
  /\ Handles(r, "create", "remove")
  /\ placed' = [t \in ThreadId |-> IF t \in empty THEN "gone" ELSE placed[t]]
  /\ GoesWith(r, empty, "insert")
  /\ UNCHANGED <<home, projects, cleanups, lost>>

\* Mutant of InsertsThread: no foreign key.
InsertsOrphan(r, t) ==
  /\ Handles(r, "create", "insert") /\ placed[t] = "new"
  /\ remover' = [remover EXCEPT ![r] = NobodyRemoves]
  /\ placed' = [placed EXCEPT ![t] = "empty"]
  /\ home' = [home EXCEPT ![t] = remover[r].subject]
  /\ UNCHANGED <<projects, cleanups, lost>>

\* create_thread: the foreign key of the project must hold.
InsertsThread(r, t) ==
  /\ Handles(r, "create", "insert") /\ placed[t] = "new"
  /\ remover' = [remover EXCEPT ![r] = NobodyRemoves]
  /\ IF remover[r].subject \in projects
     THEN /\ placed' = [placed EXCEPT ![t] = "empty"]
          /\ home' = [home EXCEPT ![t] = remover[r].subject]
     ELSE UNCHANGED <<placed, home>>
  /\ UNCHANGED <<projects, cleanups, lost>>

\* Its first message.
IsUsed(t) ==
  /\ placed[t] = "empty"
  /\ placed' = [placed EXCEPT ![t] = "used"]
  /\ UNCHANGED <<home, projects, remover, cleanups, lost>>

\* delete_thread: whoever gets the row back cleans up.
RemovesThread(r) ==
  LET row == {remover[r].subject} \cap Rows IN
  /\ Handles(r, "thread", "remove")
  /\ placed' = [t \in ThreadId |-> IF t \in row THEN "gone" ELSE placed[t]]
  /\ GoesWith(r, row, "idle")
  /\ UNCHANGED <<home, projects, cleanups, lost>>

\* delete_project: the threads in the same transaction.
RemovesProject(r) ==
  LET rows == {t \in Rows : home[t] = remover[r].subject} IN
  /\ Handles(r, "project", "remove")
  /\ projects' = projects \ {remover[r].subject}
  /\ placed' = [t \in ThreadId |-> IF t \in rows THEN "gone" ELSE placed[t]]
  /\ GoesWith(r, rows, "idle")
  /\ UNCHANGED <<home, cleanups, lost>>

\* cleanup_thread_worktree, one row after the other.
CleansUp(r) ==
  /\ remover[r].at = "clean"
  /\ \E t \in remover[r].rows :
       /\ cleanups' = [cleanups EXCEPT ![t] = @ + 1]
       /\ GoesWith(r, remover[r].rows \ {t},
                   IF remover[r].kind = "create" THEN "insert" ELSE "idle")
  /\ UNCHANGED <<placed, home, projects, lost>>

\* The connection closes, and the handler is dropped with the rows it has.
RequestGoes(r) ==
  /\ remover[r].at # "idle"
  /\ remover' = [remover EXCEPT ![r] = NobodyRemoves]
  /\ lost' = lost \cup remover[r].rows
  /\ UNCHANGED <<placed, home, projects, cleanups>>

RemovalNext ==
  \/ \E r \in Remover :
       \/ RemovesEmpty(r) \/ RemovesThread(r) \/ RemovesProject(r)
       \/ CleansUp(r) \/ RequestGoes(r)
       \/ \E t \in ThreadId : InsertsThread(r, t) \/ AsksToDeleteThread(r, t)
       \/ \E p \in ProjectNo : AsksToCreateThread(r, p) \/ AsksToDeleteProject(r, p)
  \/ \E t \in ThreadId : IsUsed(t)

RemovalSpec == RemovalInit /\ [][RemovalNext]_removalVars

-----------------------------------------------------------------------------

\* "The returned rows are exactly the ones that went away": whichever requests
\* remove it at once, one of them has the row of a thread that is gone until it
\* has cleaned up, once - unless that one is dropped.
EachIsCleanedOnce ==
  \A t \in ThreadId :
    LET holders == {r \in Remover : t \in remover[r].rows} IN
    /\ placed[t] = "gone" <=> holders # {} \/ cleanups[t] > 0 \/ t \in lost
    /\ \A r, o \in holders : r = o
    /\ cleanups[t] <= 1 /\ (cleanups[t] = 1 => holders = {})
=============================================================================
