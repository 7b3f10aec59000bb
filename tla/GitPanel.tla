------------------------------ MODULE GitPanel ------------------------------
(***************************************************************************)
(* The git panel's requests on a working tree (src/src/git/service/        *)
(* changes.rs): discard, stage, unstage and commit, each a series of git   *)
(* calls, while an agent or a shell works in the same tree. A path is a    *)
(* file or an embedded repository. Git itself is modelled from how it      *)
(* answers these calls; symbolic links and plain directories are left out. *)
(***************************************************************************)
EXTENDS Integers, FiniteSets, Sequences, Functions

CONSTANTS
  File,       \* paths of the working tree
  MaxEdits,   \* bound on the steps of the agent
  MaxGits     \* bound on the requests of the panel

ASSUME GitConstants == MaxEdits \in Nat /\ MaxGits \in Nat

NoFile == "none"
Blob == {"old", "new"}
Gitlink == "gitlink"     \* an index or HEAD entry that names a commit
Conflict == "conflict"   \* an unmerged path: no stage 0 in the index
Repo == "repo"           \* a directory with a .git and a commit

VARIABLES
  born,      \* whether HEAD names a commit
  head,      \* HEAD's tree
  index,     \* the index
  workTree,  \* the working tree
  req,       \* the request the panel has made
  hidden,    \* the embedded repositories that stage-all leaves out
  touched,   \* history: paths the agent changed since the request began
  edits,     \* steps of the agent so far
  gits       \* requests so far

panelVars == <<born, head, index, workTree, req, hidden, touched, edits, gits>>
repoVars == <<born, head, index, workTree>>
gitRest == <<hidden, touched, edits, gits>>

\* A request: what it does, its paths, the one it is at, whether it takes HEAD
\* to name a commit, and what it does next; history: misread, when it is wrong.
NoGit == [op |-> "none", paths |-> << >>, staged |-> FALSE, n |-> 0,
         born |-> FALSE, misread |-> FALSE, at |-> "idle"]

GitTypeOK ==
  /\ born \in BOOLEAN
  /\ head \in [File -> Blob \cup {NoFile, Gitlink}]
  /\ index \in [File -> Blob \cup {NoFile, Gitlink, Conflict}]
  /\ workTree \in [File -> Blob \cup {NoFile, Repo}]
  /\ req.op \in {"none", "discard", "stage", "all", "unstage", "reset", "commit", "commit_all"}
  /\ req.paths \in Seq(File)
  /\ hidden \subseteq File /\ touched \subseteq File
  /\ edits \in 0..MaxEdits /\ gits \in 0..MaxGits

GitInit ==
  /\ born \in BOOLEAN
  /\ head = [f \in File |-> IF born THEN "old" ELSE NoFile]
  /\ index = head
  /\ workTree = head
  /\ req = NoGit
  /\ hidden = {} /\ touched = {}
  /\ edits = 0 /\ gits = 0

-----------------------------------------------------------------------------
(* What git finds at a path. *)

InHead(f) == head[f] # NoFile
InIndex(f) == index[f] # NoFile

\* What git add would record of a path.
AsIndexed(f) == IF workTree[f] = Repo THEN Gitlink ELSE workTree[f]

\* No row among the unstaged changes. A repository that the index does not
\* know is hidden; one that it knows may also be absent.
Agrees(f) ==
  CASE index[f] = Conflict -> FALSE
    [] index[f] = Gitlink -> workTree[f] \in {Repo, NoFile}
    [] index[f] = NoFile -> workTree[f] \in {Repo, NoFile}
    [] OTHER -> workTree[f] = index[f]

Unstaged(f) == ~ Agrees(f)
Staged(f) == index[f] # Conflict /\ index[f] # head[f]

\* The working tree's side of a checkout: a directory gives way to a file,
\* whatever is in it, and a repository stays where a commit is recorded.
CheckedOut(f, entry) ==
  IF entry = Gitlink THEN IF workTree[f] = Repo THEN Repo ELSE NoFile ELSE entry

-----------------------------------------------------------------------------
(* The agent, or anyone with a shell. *)

\* Writes a file, removes it, or clones a repository there.
AgentChangesFile(f) ==
  /\ \E c \in Blob \cup {NoFile, Repo} :
       c # workTree[f] /\ workTree' = [workTree EXCEPT ![f] = c]
  /\ touched' = touched \cup {f}
  /\ UNCHANGED <<born, head, index>>

\* git add or git rm --cached on one path, or a merge that stops at it.
AgentStages(f) ==
  /\ \E c \in {AsIndexed(f), NoFile, Conflict} :
       c # index[f] /\ index' = [index EXCEPT ![f] = c]
  /\ touched' = touched \cup {f}
  /\ UNCHANGED <<born, head, workTree>>

AgentCommits ==
  /\ \A f \in File : index[f] # Conflict
  /\ index # head
  /\ head' = index /\ born' = TRUE
  /\ touched' = touched \cup {f \in File : Staged(f)}
  /\ UNCHANGED <<index, workTree>>

Agent ==
  /\ edits < MaxEdits /\ edits' = edits + 1
  /\ AgentCommits \/ \E f \in File : AgentChangesFile(f) \/ AgentStages(f)
  /\ UNCHANGED <<req, hidden, gits>>

-----------------------------------------------------------------------------
(* Requests: one at a time, the agent stands for a second client too. *)

\* Mutant of PanelStarts: a discard that never looks whether HEAD exists.
PanelStartsUnborn(op, paths, staged, at) ==
  /\ req.at = "idle" /\ gits < MaxGits
  /\ req' = [op |-> op, paths |-> paths, staged |-> staged, n |-> 1,
             born |-> FALSE, misread |-> FALSE, at |-> at]
  /\ touched' = {} /\ hidden' = {}
  /\ gits' = gits + 1
  /\ UNCHANGED <<repoVars, edits>>

\* repo_status, the checks of the paths, and for a discard rev-parse HEAD: one
\* that fails or does not answer in time is taken for a branch with no commit.
PanelStarts(op, paths, staged, at) ==
  /\ req.at = "idle" /\ gits < MaxGits
  /\ \E b \in {born, born /\ op # "discard"} :
       req' = [op |-> op, paths |-> paths, staged |-> staged, n |-> 1,
               born |-> b, misread |-> b # born, at |-> at]
  /\ touched' = {} /\ hidden' = {}
  /\ gits' = gits + 1
  /\ UNCHANGED <<repoVars, edits>>

GitGoes(at) == req' = [req EXCEPT !.at = at]

\* A call that reads finds something and changes nothing.
Finds(at) == GitGoes(at) /\ UNCHANGED <<repoVars, gitRest>>

GitFails == Finds("failed")

GitAnswered ==
  /\ req.at \in {"done", "failed"}
  /\ req' = NoGit
  /\ UNCHANGED <<repoVars, gitRest>>

-----------------------------------------------------------------------------
(* discard: path after path, what it does to one depends on what it finds. *)

DiscardAt(point) == req.op = "discard" /\ req.at = point
This == req.paths[req.n]

\* One path, or the two of a rename: the new one and where it came from.
Discard ==
  \E paths \in {<<f>> : f \in File} \cup {<<f, g>> : f, g \in File}, staged \in BOOLEAN :
    /\ Cardinality(Range(paths)) = Len(paths)
    /\ PanelStarts("discard", paths, staged, IF staged THEN "head" ELSE "index")

NextPath ==
  req' = IF req.n < Len(req.paths)
         THEN [req EXCEPT !.n = @ + 1, !.at = IF req.staged THEN "head" ELSE "index"]
         ELSE [req EXCEPT !.at = "done"]

\* A git call that is killed at its timeout may have done its work.
PathEnds == NextPath \/ GitGoes("failed")

\* in_index: which of the ways is taken from here.
LooksInIndex ==
  /\ DiscardAt("index")
  /\ \/ Finds(IF ~ InIndex(This) THEN "wipe" ELSE IF req.staged THEN "drop" ELSE "merged")
     \/ GitFails

\* is_unmerged
LooksForConflict ==
  /\ DiscardAt("merged")
  /\ Finds(IF index[This] = Conflict THEN "head" ELSE "checkout") \/ GitFails

\* in_head, which is not asked on a branch that had no commit at the start.
LooksInHead ==
  /\ DiscardAt("head")
  /\ \/ Finds(IF req.born /\ InHead(This) THEN "restore"
              ELSE IF req.staged THEN "index" ELSE "drop")
     \/ req.born /\ GitFails

\* git checkout HEAD -- path
RestoresHead ==
  /\ DiscardAt("restore")
  /\ \/ /\ InHead(This)
        /\ index' = [index EXCEPT ![This] = head[This]]
        /\ workTree' = [workTree EXCEPT ![This] = CheckedOut(This, head[This])]
        /\ PathEnds
     \/ GitGoes("failed") /\ UNCHANGED <<index, workTree>>
  /\ UNCHANGED <<born, head, gitRest>>

\* git checkout -- path, which takes no path that is unmerged or unknown.
RestoresIndex ==
  /\ DiscardAt("checkout")
  /\ \/ /\ index[This] \notin {NoFile, Conflict}
        /\ workTree' = [workTree EXCEPT ![This] = CheckedOut(This, index[This])]
        /\ PathEnds
     \/ GitGoes("failed") /\ UNCHANGED workTree
  /\ UNCHANGED <<born, head, index, gitRest>>

\* remove_index_and_worktree: a repository is left where it is.
LooksBeforeRemoval == DiscardAt("drop") /\ Finds(IF workTree[This] = Repo THEN "uncache" ELSE "rm")

\* git rm --cached: the repository stays.
DropsEntry ==
  /\ DiscardAt("uncache")
  /\ \/ /\ InIndex(This)
        /\ index' = [index EXCEPT ![This] = NoFile]
        /\ PathEnds
     \/ GitGoes("failed") /\ UNCHANGED index
  /\ UNCHANGED <<born, head, workTree, gitRest>>

\* git rm -rf, which refuses a file whose place a repository has taken, and a
\* recorded commit whose place anything but an empty directory has.
RemovesEntry ==
  /\ DiscardAt("rm")
  /\ \/ /\ InIndex(This)
        /\ workTree[This] # Repo
        /\ index[This] = Gitlink => workTree[This] = NoFile
        /\ index' = [index EXCEPT ![This] = NoFile]
        /\ workTree' = [workTree EXCEPT ![This] = NoFile]
        /\ GitGoes("wipe") \/ GitGoes("failed")
     \/ GitGoes("failed") /\ UNCHANGED <<index, workTree>>
  /\ UNCHANGED <<born, head, gitRest>>

\* Mutant of Wipes: a directory is removed with all it holds.
WipesAnything ==
  /\ DiscardAt("wipe")
  /\ workTree' = [workTree EXCEPT ![This] = NoFile]
  /\ NextPath
  /\ UNCHANGED <<born, head, index, gitRest>>

\* remove_worktree_path, which refuses an embedded repository.
Wipes ==
  /\ DiscardAt("wipe")
  /\ \/ workTree[This] # Repo /\ workTree' = [workTree EXCEPT ![This] = NoFile] /\ NextPath
     \/ GitGoes("failed") /\ UNCHANGED workTree
  /\ UNCHANGED <<born, head, index, gitRest>>

DiscardStep ==
  \/ LooksInIndex \/ LooksForConflict \/ LooksInHead \/ LooksBeforeRemoval
  \/ RestoresHead \/ RestoresIndex \/ DropsEntry \/ RemovesEntry \/ Wipes

-----------------------------------------------------------------------------
(* stage, unstage and commit. *)

\* stage or unstage some paths, stage everything, reset the index, or commit
\* what is staged or everything.
Recording ==
  \/ \E f \in File, op \in {"stage", "unstage"} : PanelStarts(op, <<f>>, FALSE, op)
  \/ PanelStarts("reset", << >>, FALSE, "unstage")
  \/ PanelStarts("all", << >>, FALSE, "hide")
  \/ PanelStarts("commit", << >>, FALSE, "commit")
  \/ PanelStarts("commit_all", << >>, FALSE, "hide")

\* embedded_repo_dirs_now: git status names a repository whose path the index
\* does not know. A status that fails hides none.
Hides ==
  /\ req.at = "hide"
  /\ hidden' \in {{f \in File : workTree[f] = Repo /\ ~ InIndex(f)}, {}}
  /\ GitGoes("add")
  /\ UNCHANGED <<repoVars, touched, edits, gits>>

\* Mutant of AddsAll: everything that git finds.
AddsEverything ==
  /\ req.at = "add"
  /\ index' = [f \in File |-> AsIndexed(f)]
  /\ GitGoes(IF req.op = "all" THEN "done" ELSE "commit")
  /\ UNCHANGED <<born, head, workTree, gitRest>>

\* git add -A but for the hidden ones.
AddsAll ==
  /\ req.at = "add"
  /\ \/ /\ index' = [f \in File |-> IF f \in hidden THEN index[f] ELSE AsIndexed(f)]
        /\ GitGoes(IF req.op = "all" THEN "done" ELSE "commit") \/ GitGoes("failed")
     \/ GitGoes("failed") /\ UNCHANGED index
  /\ UNCHANGED <<born, head, workTree, gitRest>>

\* git add -- path, of a path that the index or the working tree has.
AddsPath ==
  /\ req.at = "stage"
  /\ \/ /\ InIndex(This) \/ workTree[This] # NoFile
        /\ index' = [index EXCEPT ![This] = AsIndexed(This)]
        /\ GitGoes("done") \/ GitGoes("failed")
     \/ GitGoes("failed") /\ UNCHANGED index
  /\ UNCHANGED <<born, head, workTree, gitRest>>

\* git reset, of the whole index or of one path.
Resets ==
  /\ req.at = "unstage"
  /\ \/ /\ index' = IF req.op = "reset" THEN head ELSE [index EXCEPT ![This] = head[This]]
        /\ GitGoes("done") \/ GitGoes("failed")
     \/ GitGoes("failed") /\ UNCHANGED index
  /\ UNCHANGED <<born, head, workTree, gitRest>>

\* git commit, and rev-parse, which reads what came of it: when that fails the
\* commit stays.
Commits ==
  /\ req.at = "commit"
  /\ \/ /\ \A f \in File : index[f] # Conflict
        /\ index # head
        /\ head' = index /\ born' = TRUE
        /\ GitGoes("done") \/ GitGoes("failed")
     \/ GitGoes("failed") /\ UNCHANGED <<head, born>>
  /\ UNCHANGED <<index, workTree, gitRest>>

GitNext ==
  \/ Agent \/ GitAnswered
  \/ Discard \/ DiscardStep
  \/ Recording \/ Hides \/ AddsAll \/ AddsPath \/ Resets \/ Commits

GitSpec == GitInit /\ [][GitNext]_panelVars

-----------------------------------------------------------------------------

\* The paths a discard is through with.
Discarded == {req.paths[n] : n \in 1..(IF req.at = "done" THEN req.n ELSE req.n - 1)}

\* A row whose discard is through is gone, unless the agent was at the file
\* meanwhile: whichever of the ways through the conflicts, the renames, the
\* staged adds and the embedded repositories the discard found, and also if
\* it fails at a later path (changes.rs, discard). With HEAD misread the staged
\* row of a file that HEAD has becomes that of its deletion.
DiscardClearsTheRow ==
  req.op = "discard" =>
    \A f \in Discarded \ touched :
      /\ Agrees(f)
      /\ req.staged => ~ Staged(f) \/ (req.misread /\ InHead(f) /\ ~ InIndex(f))

\* "A staged entry is reset to HEAD", an unstaged one "is restored from the
\* index, which keeps staged content", and unmerged paths "resolve to HEAD":
\* whatever of the index a discard changes it sets to what HEAD has, unless it
\* misread HEAD, or the agent was at the file between two looks.
DiscardResetsToHead ==
  [][\A f \in File : index'[f] # index[f] /\ DiscardStep
       => \/ f \in touched
          \/ /\ req.staged \/ index[f] = Conflict
             /\ index'[f] = head[f] \/ req.misread]_panelVars

\* A discard wipes no embedded repository ("refused outright"), whatever was
\* staged where it stands - but git checkout removes one that has taken the
\* place of a file it restores.
DiscardSparesRepos ==
  [][\A f \in File : workTree[f] = Repo /\ workTree'[f] # Repo /\ DiscardStep
       => f \in touched \/ head[f] \in Blob \/ (~ req.staged /\ index[f] \in Blob)]_panelVars

\* Stage-all records a repository only where the index knows the path already
\* or the status named none.
StageAllLeavesReposOut ==
  [][\A f \in File : index[f] = NoFile /\ index'[f] = Gitlink /\ AddsAll
       => f \in touched \/ hidden = {}]_panelVars

\* The requests of the panel, together.
PanelKeepsItsWord ==
  DiscardResetsToHead /\ DiscardSparesRepos /\ StageAllLeavesReposOut

\* "A staged entry is reset to HEAD in both the index and the working tree":
\* but one whose rev-parse fails or is late drops files that HEAD has from both.
StagedDiscardSparesHead ==
  [][\A f \in File : index'[f] # index[f] /\ req.staged /\ DiscardStep
       => index'[f] = head[f] \/ f \in touched]_panelVars

\* "so a bad path cannot leave a half-applied discard behind": but one whose
\* second path holds an embedded repository, or fails, leaves the first done.
DiscardIsWhole == req.op = "discard" /\ req.at = "failed" => Discarded = {}

\* "except embedded repositories": but with the status failing, or in the
\* place of a tracked file, stage-all records them.
StageAllSkipsRepos ==
  [][\A f \in File : index'[f] = Gitlink /\ index[f] # Gitlink /\ AddsAll
       => f \in touched]_panelVars
=============================================================================
