------------------------------- MODULE Clones -------------------------------
(***************************************************************************)
(* Cloning one repository: clone_repo and run_git_clone of git/clone.rs on *)
(* the server, clone_remote of api/clones.rs with the handler of           *)
(* satellite/clone.rs on a node. The target directory follows from the     *)
(* address alone and lies under the owner's clone root, so every user's    *)
(* clone of the repository has the same one. Projects are not deleted.     *)
(***************************************************************************)
EXTENDS Naturals, FiniteSets

CONSTANTS
  Cloner,   \* requests; each asks once
  User      \* the accounts that ask

ASSUME CloneConstants == User # {} /\ Cloner # {}

VARIABLES
  machine,   \* where the clone goes: the server, or a paired node
  asker,     \* asker[c]: the user of request c
  cloner,    \* cloner[c]: where the request is
  projects,  \* requests whose project row exists
  target,    \* the target directory, and the request whose git filled it, or that has
             \* removed a part of it
  git        \* git[c]: the git process of c

cloneVars == <<machine, asker, cloner, projects, target, git>>

Cleaning == {"drops_row", "removes"}
CloneOver == {"created", "refused", "dropped", "left"}

CloneTypeOK ==
  /\ machine \in {"hub", "node"}
  /\ asker \in [Cloner -> User]
  /\ cloner \in [Cloner -> {"idle", "looks", "stores", "clones", "finishes", "records"}
                            \cup Cleaning \cup CloneOver]
  /\ projects \subseteq Cloner
  /\ target \in [is : {"absent", "partial", "whole"}, by : Cloner]
  /\ git \in [Cloner -> {"none", "runs", "done", "failed", "killed"}]

CloneInit ==
  /\ machine \in {"hub", "node"}
  /\ asker \in [Cloner -> User]
  /\ machine = "node" => Cardinality({asker[c] : c \in Cloner}) <= 1
  /\ cloner = [c \in Cloner |-> "idle"]
  /\ projects = {}
  /\ target = [is |-> "absent", by |-> CHOOSE c \in Cloner : TRUE]
  /\ git = [c \in Cloner |-> "none"]

Passes(c, where) == cloner' = [cloner EXCEPT ![c] = where]
HasRow(u) == \E c \in projects : asker[c] = u

\* Nothing is at the target yet. A node keeps no rows and goes on to git.
CloneLooks(c) ==
  /\ cloner[c] = "idle"
  /\ Passes(c, IF target.is # "absent" THEN "refused"
               ELSE IF machine = "node" THEN "clones" ELSE "looks")
  /\ UNCHANGED <<machine, asker, projects, target, git>>

CloneLooksForRow(c) ==
  /\ cloner[c] = "looks"
  /\ Passes(c, IF HasRow(asker[c]) THEN "refused" ELSE "stores")
  /\ UNCHANGED <<machine, asker, projects, target, git>>

\* create_project: a user has one row per path. The group and the parent
\* directory may still fail, and then the row goes; without a git binary the
\* request fails and the row stays.
StoreProject(c) ==
  /\ cloner[c] = "stores"
  /\ \/ /\ ~HasRow(asker[c]) /\ projects' = projects \cup {c}
        /\ \E next \in {"clones", "drops_row", "refused"} : Passes(c, next)
     \/ HasRow(asker[c]) /\ Passes(c, "refused") /\ UNCHANGED projects
  /\ UNCHANGED <<machine, asker, target, git>>

\* git clone dies when something is at the target.
GitStarts(c) ==
  /\ cloner[c] = "clones" /\ git[c] = "none"
  /\ \/ /\ target.is = "absent"
        /\ git' = [git EXCEPT ![c] = "runs"]
        /\ target' = [is |-> "partial", by |-> c]
     \/ git' = [git EXCEPT ![c] = "failed"] /\ UNCHANGED target
  /\ UNCHANGED <<machine, asker, cloner, projects>>

\* git completes its own directory; without it, or for a reason of its own,
\* it fails and takes what it made with it.
GitEnds(c) ==
  /\ git[c] = "runs"
  /\ \/ /\ target = [is |-> "partial", by |-> c]
        /\ target' = [target EXCEPT !.is = "whole"]
        /\ git' = [git EXCEPT ![c] = "done"]
     \/ /\ git' = [git EXCEPT ![c] = "failed"]
        /\ target' = IF target.by = c THEN [target EXCEPT !.is = "absent"] ELSE target
  /\ UNCHANGED <<machine, asker, cloner, projects>>

\* The five minutes are over: git is killed and cleans nothing up.
CloneTimesOut(c) ==
  /\ cloner[c] = "clones" /\ git[c] = "runs"
  /\ git' = [git EXCEPT ![c] = "killed"]
  /\ UNCHANGED <<machine, asker, cloner, projects, target>>

\* Mutant of CloneReturns: after a time-out only the row is dropped.
CloneReturnsEarly(c) ==
  /\ cloner[c] = "clones"
  /\ \/ git[c] = "done" /\ Passes(c, "finishes") /\ UNCHANGED projects
     \/ git[c] \in {"failed", "runs"} /\ Passes(c, "drops_row") /\ UNCHANGED projects
     \/ git[c] = "killed" /\ Passes(c, "refused") /\ projects' = projects \ {c}
  /\ UNCHANGED <<machine, asker, target, git>>

\* A line of stderr that is no UTF-8 ends the wait, and git runs on.
CloneReturns(c) ==
  /\ cloner[c] = "clones"
  /\ \/ git[c] = "done" /\ Passes(c, "finishes")
     \/ git[c] \in {"failed", "killed", "runs"} /\ Passes(c, "drops_row")
  /\ UNCHANGED <<machine, asker, projects, target, git>>

\* A failed clone goes on to the directory; a failure before it does not.
DropRow(c) ==
  /\ cloner[c] = "drops_row"
  /\ projects' = projects \ {c}
  /\ Passes(c, IF git[c] = "none" THEN "refused" ELSE "removes")
  /\ UNCHANGED <<machine, asker, target, git>>

\* remove_dir_all(target), whoever filled it; that it failed, maybe halfway, is
\* told to nobody, and the directory is left.
RemoveTarget(c) ==
  /\ cloner[c] = "removes"
  /\ \/ target' = [target EXCEPT !.is = "absent"] /\ Passes(c, "refused")
     \/ /\ target.is # "absent" /\ target' \in {target, [is |-> "partial", by |-> c]}
        /\ Passes(c, "left")
  /\ UNCHANGED <<machine, asker, projects, git>>

\* canonicalize: without the directory the request fails and the row stays.
\* The hub still has to record what a node cloned.
CloneFinishes(c) ==
  /\ cloner[c] = "finishes"
  /\ Passes(c, IF target.is = "absent" THEN "refused"
               ELSE IF machine = "node" THEN "records" ELSE "created")
  /\ UNCHANGED <<machine, asker, projects, target, git>>

\* clone_remote after the node's answer: with a row for the path already, or
\* when the row or its group cannot be stored, the node's copy is deleted
\* again; an error of the queries before that leaves it where it is.
HubRecords(c) ==
  /\ cloner[c] = "records"
  /\ \/ ~HasRow(asker[c]) /\ projects' = projects \cup {c} /\ Passes(c, "created")
     \/ \E next \in {"removes", "refused"} : Passes(c, next) /\ UNCHANGED projects
  /\ UNCHANGED <<machine, asker, target, git>>

\* The client goes away and the future is dropped; git runs on.
CloneIsDropped(c) ==
  /\ cloner[c] \notin {"idle"} \cup CloneOver
  /\ Passes(c, "dropped")
  /\ UNCHANGED <<machine, asker, projects, target, git>>

CloneStep(c) ==
  \/ CloneLooks(c) \/ CloneLooksForRow(c) \/ StoreProject(c) \/ GitStarts(c) \/ GitEnds(c)
  \/ CloneTimesOut(c) \/ CloneReturns(c) \/ DropRow(c) \/ RemoveTarget(c)
  \/ CloneFinishes(c) \/ HubRecords(c) \/ CloneIsDropped(c)

CloneNext == \E c \in Cloner : CloneStep(c)

CloneSpec == CloneInit /\ [][CloneNext]_cloneVars

-----------------------------------------------------------------------------
Created(c) == cloner[c] = "created"

\* A half-made directory is being worked on, is about to be removed by the
\* request that made it, or was left by a request whose client went away or
\* that has failed to remove it.
HalfCloneIsCleaned ==
  target.is = "partial" =>
    git[target.by] = "runs" \/ cloner[target.by] \in Cleaning \cup {"clones", "dropped", "left"}

\* "The function returns the canonical absolute path of the newly cloned
\* repository" (git/clone.rs:83-84): what a request answered with stays. The
\* code removes the target after a failed git even when the directory git
\* tripped over is the one another user's request has just made; and as the
\* row goes before the directory, a new request of the same user can lie in
\* between.
ClonedRepoStays == \A c \in Cloner : Created(c) => target.is = "whole"

=============================================================================
