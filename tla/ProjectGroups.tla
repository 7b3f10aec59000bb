---------------------------- MODULE ProjectGroups ----------------------------
(***************************************************************************)
(* Groups of projects: api/project_groups.rs, set_group of api/projects.rs *)
(* and db/project_groups.rs. A request may move several projects, one      *)
(* statement at a time, while projects and groups are deleted.             *)
(***************************************************************************)
EXTENDS FiniteSetsExt

CONSTANTS
  Member,   \* ids of the projects
  Grouper,  \* requests that put projects into a group
  Group     \* ids of groups, in no use at first

ASSUME GroupConstants == "none" \notin Group

VARIABLES
  member,  \* member[i]: the group of a project, "none", or "deleted"
  group,   \* group[g]: whether the row is new, there or deleted
  grouper  \* grouper[m]: a request in its handler, and what it has to move

groupVars == <<member, group, grouper>>

NoGrouper == [at |-> "idle", group |-> "none", todo |-> {}]

Projects == {i \in Member : member[i] # "deleted"}

GroupTypeOK ==
  /\ member \in [Member -> Group \cup {"none", "deleted"}]
  /\ group \in [Group -> {"new", "there", "deleted"}]
  /\ grouper \in [Grouper -> [at : {"idle", "create", "check", "update"},
                              group : Group \cup {"none"}, todo : SUBSET Member]]

GroupInit ==
  /\ member = [i \in Member |-> "none"]
  /\ group = [g \in Group |-> "new"]
  /\ grouper = [m \in Grouper |-> NoGrouper]

\* foreign_keys(true): a reference to a row that is gone is refused, and
\* ON DELETE SET NULL is carried out.
ForeignKeys == TRUE

GrouperGoes(m, r) == grouper' = [grouper EXCEPT ![m] = r]

\* create: owned_project_ids, all of them or the request is refused.
AsksToCreateGroup(m) ==
  /\ grouper[m].at = "idle"
  /\ \E todo \in SUBSET Projects :
       GrouperGoes(m, [at |-> "create", group |-> "none", todo |-> todo])
  /\ UNCHANGED <<member, group>>

\* create_project_group
CreatesGroup(m, g) ==
  /\ grouper[m].at = "create" /\ group[g] = "new"
  /\ group' = [group EXCEPT ![g] = "there"]
  /\ GrouperGoes(m, IF grouper[m].todo = {} THEN NoGrouper
                    ELSE [grouper[m] EXCEPT !.at = "check", !.group = g])
  /\ UNCHANGED member

\* set_group: the project and the group are there when it looks.
AsksForGroup(m, i) ==
  /\ grouper[m].at = "idle" /\ i \in Projects
  /\ \/ \E g \in Group : group[g] = "there"
                          /\ GrouperGoes(m, [at |-> "check", group |-> g, todo |-> {i}])
     \/ GrouperGoes(m, [at |-> "update", group |-> "none", todo |-> {i}])
  /\ UNCHANGED <<member, group>>

\* set_project_group looks again. When the group is gone the request fails,
\* and the projects that are left stay where they are.
ChecksGroup(m) ==
  /\ grouper[m].at = "check"
  /\ GrouperGoes(m, IF group[grouper[m].group] = "there"
                    THEN [grouper[m] EXCEPT !.at = "update"] ELSE NoGrouper)
  /\ UNCHANGED <<member, group>>

\* The update of one project; ids are moved in their order.
SetsGroup(m) ==
  LET r == grouper[m]
      i == Min(r.todo)
      refused == ForeignKeys /\ r.group # "none" /\ group[r.group] # "there"
  IN
  /\ r.at = "update"
  /\ IF refused \/ i \notin Projects
     THEN UNCHANGED member /\ GrouperGoes(m, NoGrouper)
     ELSE /\ member' = [member EXCEPT ![i] = r.group]
          /\ GrouperGoes(m, IF r.todo = {i} THEN NoGrouper
                            ELSE [r EXCEPT !.at = "check", !.todo = @ \ {i}])
  /\ UNCHANGED group

\* delete_project_group: its projects are no longer in it.
DeletesGroup(g) ==
  /\ group[g] = "there"
  /\ group' = [group EXCEPT ![g] = "deleted"]
  /\ member' = IF ForeignKeys
               THEN [i \in Member |-> IF member[i] = g THEN "none" ELSE member[i]]
               ELSE member
  /\ UNCHANGED grouper

\* delete_project
ProjectGoes(i) ==
  /\ i \in Projects
  /\ member' = [member EXCEPT ![i] = "deleted"]
  /\ UNCHANGED <<group, grouper>>

GroupNext ==
  \/ \E m \in Grouper :
       \/ AsksToCreateGroup(m) \/ ChecksGroup(m) \/ SetsGroup(m)
       \/ \E g \in Group : CreatesGroup(m, g)
       \/ \E i \in Member : AsksForGroup(m, i)
  \/ \E g \in Group : DeletesGroup(g)
  \/ \E i \in Member : ProjectGoes(i)

GroupSpec == GroupInit /\ [][GroupNext]_groupVars

-----------------------------------------------------------------------------

\* A project is in a group that there is, also when the group goes between the
\* look at it and the update.
GroupedIsLive ==
  \A i \in Projects : member[i] # "none" => group[member[i]] = "there"
=============================================================================
