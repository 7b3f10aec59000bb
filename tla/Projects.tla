------------------------------- MODULE Projects -------------------------------
(***************************************************************************)
(* The projects of one user in the sidebar: api/projects.rs (create,       *)
(* create_new, rename, reorder, delete_one) and the statements of          *)
(* db/projects.rs under them. A step is one statement or transaction, or   *)
(* one call of the file system.                                            *)
(***************************************************************************)
EXTENDS Integers, FiniteSets, Functions, FiniteSetsExt

CONSTANTS
  Name,         \* names of projects; create_new names the folder alike
  Creator,      \* requests that make a project
  MaxProjects,  \* bound on the projects that are ever made
  MaxRenames    \* bound on renames, reorders and deletions each

ASSUME ProjectConstants == MaxProjects \in Nat /\ MaxRenames \in Nat

VARIABLES
  project,   \* project[i]: the row of id i
  lastId,    \* ids are given out once (AUTOINCREMENT)
  folder,    \* the folders under the project root
  creator,   \* creator[c]: a request in its handler
  changes    \* number of renames, reorders and deletions

projectVars == <<project, lastId, folder, creator, changes>>

ProjectId == 1..MaxProjects

\* The path is the folder a project was registered with.
NoProject == [name |-> "none", path |-> "none", pos |-> -1]
Live == {i \in ProjectId : project[i] # NoProject}

\* older: the projects behind which it has to come.
NoCreator == [at |-> "idle", name |-> "none", path |-> "none", fresh |-> FALSE,
              made |-> FALSE, pos |-> -1, older |-> {}]

ProjectTypeOK ==
  /\ project \in [ProjectId -> [name : Name \cup {"none"}, path : Name \cup {"none"},
                                pos : -1..2 * MaxProjects]]
  /\ lastId \in 0..MaxProjects
  /\ folder \subseteq Name
  /\ creator \in [Creator -> [at : {"idle", "folder", "recheck", "position", "insert", "refused"},
                              name : Name \cup {"none"}, path : Name \cup {"none"},
                              fresh : BOOLEAN, made : BOOLEAN, pos : -1..2 * MaxProjects,
                              older : SUBSET ProjectId]]
  /\ changes \in [{"rename", "reorder", "delete"} -> 0..MaxRenames]
  /\ \A i, j \in Live : i # j => project[i].name # project[j].name
                                  /\ project[i].path # project[j].path

ProjectInit ==
  /\ project = [i \in ProjectId |-> NoProject]
  /\ lastId = 0
  /\ folder = {}
  /\ creator = [c \in Creator |-> NoCreator]
  /\ changes = [k \in {"rename", "reorder", "delete"} |-> 0]

Taken(name, path) == \E i \in Live : project[i].name = name \/ project[i].path = path

Counts(kind) ==
  /\ changes[kind] < MaxRenames
  /\ changes' = [changes EXCEPT ![kind] = @ + 1]

-----------------------------------------------------------------------------
(* Creation *)

CreatorGoes(c, r) ==
  /\ creator' = [creator EXCEPT ![c] = r]
  /\ UNCHANGED changes

\* create_new looks for duplicates before it makes a folder.
CreatesNew(c) ==
  /\ creator[c].at = "idle" /\ lastId < MaxProjects
  /\ \E n \in Name :
       CreatorGoes(c, [NoCreator EXCEPT !.name = n, !.path = n, !.fresh = TRUE,
                         !.at = IF Taken(n, n) THEN "refused" ELSE "folder"])
  /\ UNCHANGED <<project, lastId, folder>>

\* create ensures the folder it is given first.
Registers(c) ==
  /\ creator[c].at = "idle" /\ lastId < MaxProjects
  /\ \E n, p \in Name : CreatorGoes(c, [NoCreator EXCEPT !.name = n, !.path = p,
                                          !.at = "folder"])
  /\ UNCHANGED <<project, lastId, folder>>

MakesFolder(c) ==
  /\ creator[c].at = "folder"
  /\ folder' = folder \cup {creator[c].path}
  /\ CreatorGoes(c, [creator[c] EXCEPT !.at = "recheck", !.made = @ \/ creator[c].path \notin folder])
  /\ UNCHANGED <<project, lastId>>

\* insert_project: project_conflict
Rechecks(c) ==
  /\ creator[c].at = "recheck"
  /\ CreatorGoes(c, [creator[c] EXCEPT
       !.at = IF Taken(creator[c].name, creator[c].path) THEN "refused" ELSE "position"])
  /\ UNCHANGED <<project, lastId, folder>>

\* next_project_position: MAX(position) + 1
NextPosition == Max({project[i].pos : i \in Live} \cup {-1}) + 1

ReadsPosition(c) ==
  /\ creator[c].at = "position"
  /\ CreatorGoes(c, [creator[c] EXCEPT !.at = "insert", !.pos = NextPosition, !.older = Live])
  /\ UNCHANGED <<project, lastId, folder>>

\* create_project; a name or path that has been taken violates UNIQUE.
InsertsProject(c) ==
  LET r == creator[c] IN
  /\ r.at = "insert"
  /\ UNCHANGED folder
  /\ IF Taken(r.name, r.path) \/ lastId = MaxProjects
     THEN CreatorGoes(c, [r EXCEPT !.at = "refused"]) /\ UNCHANGED <<project, lastId>>
     ELSE /\ CreatorGoes(c, NoCreator)
          /\ lastId' = lastId + 1
          /\ project' = [project EXCEPT ![lastId + 1] =
               [name |-> r.name, path |-> r.path, pos |-> r.pos]]

\* The 409 has been sent, or the request is dropped.
CreatorLeaves(c) ==
  /\ creator[c].at # "idle"
  /\ CreatorGoes(c, NoCreator)
  /\ UNCHANGED <<project, lastId, folder>>

-----------------------------------------------------------------------------
(* Changes of a project *)

\* rename; UNIQUE stands behind its own look.
Renames(i) ==
  /\ i \in Live
  /\ Counts("rename")
  /\ \E n \in Name \ {project[j].name : j \in Live} :
       project' = [project EXCEPT ![i].name = n]
  /\ UNCHANGED <<lastId, folder, creator>>

\* update_project_positions: exactly the projects of the user, in one
\* transaction. Positions read before say nothing of the new order.
Reorders ==
  /\ Counts("reorder")
  /\ \E order \in [Live -> 0..(Cardinality(Live) - 1)] :
       /\ IsInjective(order)
       /\ project' = [i \in ProjectId |-> IF i \in Live THEN [project[i] EXCEPT !.pos = order[i]]
                                           ELSE project[i]]
  /\ creator' = [c \in Creator |-> [creator[c] EXCEPT !.older = {}]]
  /\ UNCHANGED <<lastId, folder>>

\* delete_project; the folder stays.
Deletes(i) ==
  /\ i \in Live
  /\ Counts("delete")
  /\ project' = [project EXCEPT ![i] = NoProject]
  /\ UNCHANGED <<lastId, folder, creator>>

ProjectNext ==
  \/ \E c \in Creator :
       \/ CreatesNew(c) \/ Registers(c) \/ MakesFolder(c) \/ Rechecks(c)
       \/ ReadsPosition(c) \/ InsertsProject(c) \/ CreatorLeaves(c)
  \/ \E i \in ProjectId : Renames(i) \/ Deletes(i)
  \/ Reorders

ProjectSpec == ProjectInit /\ [][ProjectNext]_projectVars

-----------------------------------------------------------------------------

\* A new project comes after those the user had when its place was chosen,
\* whatever has been deleted since, unless they have been reordered meanwhile.
\* (Of two that are made at once with one place, the id decides.)
NewProjectComesLast ==
  [][\A c \in Creator : creator[c].at = "insert" /\ lastId' = lastId + 1
                        /\ creator'[c] = NoCreator =>
       \A i \in creator[c].older \cap Live : project[i].pos < project'[lastId'].pos]_projectVars

\* "Reject duplicates before creating the folder so a 409 does not leave a
\* stray directory behind." Another request may take the name in between.
RefusalLeavesNoFolder ==
  \A c \in Creator : creator[c].at = "refused" /\ creator[c].fresh /\ creator[c].made =>
    \E i \in Live : project[i].path = creator[c].path
=============================================================================
