------------------------------ MODULE GitCache ------------------------------
(***************************************************************************)
(* The caches of GitService (src/src/git/service/mod.rs) for one path: the *)
(* detected repository and the list of its branches, filled by calls that  *)
(* read git for a while and emptied by the calls that change it. What git  *)
(* would say is a version, which every change raises. The list of          *)
(* worktrees is kept as the list of branches is. The time to live only     *)
(* bounds how long an entry that is wrong stays.                           *)
(***************************************************************************)
EXTENDS Integers, Sequences

CONSTANTS
  Caller,      \* requests that are under way together
  MaxVersion,  \* bound on the changes of the repository
  MaxAsked     \* bound on the requests

ASSUME CacheConstants == MaxVersion \in Nat /\ MaxAsked \in Nat

VARIABLES
  version,    \* what git would say now
  repoCache,  \* repo_cache: what is Cached, or Uncached
  listCache,  \* branch_cache: what is Cached, or Uncached
  caller,     \* the requests
  cleared,    \* history: the last change whose call has emptied the caches since
  asked       \* requests so far

cacheVars == <<version, repoCache, listCache, caller, cleared, asked>>

\* An entry, and whether the caches were emptied between its read and its store.
Cached == [v : 0..MaxVersion, overlaps : BOOLEAN]
Uncached == [v |-> -1, overlaps |-> FALSE]

CallStep == {"status", "drop", "get", "list", "store", "git", "clear", "refresh", "fetch",
             "keep"}

\* The steps of a request. "status" is repo_status; "refresh" and "fetch" are
\* the fetch after a checkout, whose failure is only logged.
CallSteps ==
  {<<"status", "drop", "get">>,                                   \* branches, worktrees
   <<"status", "git", "clear">>,                                  \* any one change
   <<"status", "git", "clear", "refresh", "fetch", "clear">>,     \* checkout
   <<"status", "git", "status", "git", "clear", "refresh", "fetch", "clear", "clear">>}
                                                                  \* create_branch with switch

\* A request: the steps left, whether it is forced, what it has read, the last
\* cleared change by then, and the last change it made.
CallRecord == [todo : Seq(CallStep), force : BOOLEAN,
               read : 0..MaxVersion, since : 0..MaxVersion, made : 0..MaxVersion]

Away == [todo |-> << >>, force |-> FALSE, read |-> 0, since |-> 0, made |-> 0]

CacheTypeOK ==
  /\ version \in 0..MaxVersion /\ cleared \in 0..MaxVersion /\ asked \in 0..MaxAsked
  /\ repoCache \in Cached \cup {Uncached} /\ listCache \in Cached \cup {Uncached}
  /\ caller \in [Caller -> CallRecord]

CacheInit ==
  /\ version = 0 /\ cleared = 0 /\ asked = 0
  /\ repoCache = Uncached /\ listCache = Uncached
  /\ caller = [c \in Caller |-> Away]

Does(c, step) == caller[c].todo # << >> /\ Head(caller[c].todo) = step

CallGoes(c, todo) ==
  caller' = [caller EXCEPT ![c] = IF todo = << >> THEN Away ELSE [@ EXCEPT !.todo = todo]]
Rest(c) == Tail(caller[c].todo)

\* What follows a fetch that failed with so many steps of its own to go: all
\* that create_branch has left.
AfterFetch(c, steps) == IF Len(caller[c].todo) > steps THEN <<"clear">> ELSE << >>

CallEnds(c) == caller' = [caller EXCEPT ![c] = Away]

ReadsGit(c, todo) ==
  caller' = [caller EXCEPT ![c].todo = todo, ![c].read = version, ![c].since = cleared]

AsRead(c) == [v |-> caller[c].read, overlaps |-> caller[c].since # cleared]

-----------------------------------------------------------------------------

\* A request arrives. pull, push, fetch and commit force the detection, the
\* operations on branches and worktrees do not, readers choose.
CallArrives(c) ==
  /\ caller[c] = Away /\ asked < MaxAsked /\ asked' = asked + 1
  /\ \E todo \in CallSteps, force \in BOOLEAN :
       /\ Len(todo) > 3 => ~ force
       /\ caller' = [caller EXCEPT ![c].todo = todo, ![c].force = force]
  /\ UNCHANGED <<version, repoCache, listCache, cleared>>

\* repo_status: a detection that is kept will do unless it is forced.
Detects(c) ==
  /\ Does(c, "status")
  /\ IF ~ caller[c].force /\ repoCache # Uncached
     THEN CallGoes(c, Rest(c))
     ELSE ReadsGit(c, <<"keep">> \o Rest(c)) \/ CallEnds(c)
  /\ UNCHANGED <<version, repoCache, listCache, cleared, asked>>

\* fetch detects again, by force.
DetectsAgain(c) ==
  /\ Does(c, "refresh")
  /\ ReadsGit(c, <<"keep">> \o Rest(c)) \/ CallGoes(c, AfterFetch(c, 3))
  /\ UNCHANGED <<version, repoCache, listCache, cleared, asked>>

\* What was detected is stored, and the lists are dropped.
KeepsStatus(c) ==
  /\ Does(c, "keep")
  /\ repoCache' = AsRead(c)
  /\ listCache' = Uncached
  /\ CallGoes(c, Rest(c))
  /\ UNCHANGED <<version, cleared, asked>>

\* A forced list drops the one that is kept,
DropsList(c) ==
  /\ Does(c, "drop")
  /\ listCache' = IF caller[c].force THEN Uncached ELSE listCache
  /\ CallGoes(c, Rest(c))
  /\ UNCHANGED <<version, repoCache, cleared, asked>>

\* and takes one that is there all the same.
GetsList(c) ==
  /\ Does(c, "get")
  /\ IF listCache # Uncached THEN CallEnds(c) ELSE CallGoes(c, <<"list">>)
  /\ UNCHANGED <<version, repoCache, listCache, cleared, asked>>

\* list_branches
Lists(c) ==
  /\ Does(c, "list")
  /\ ReadsGit(c, <<"store">>) \/ CallEnds(c)
  /\ UNCHANGED <<version, repoCache, listCache, cleared, asked>>

StoresList(c) ==
  /\ Does(c, "store")
  /\ listCache' = AsRead(c)
  /\ CallEnds(c)
  /\ UNCHANGED <<version, repoCache, cleared, asked>>

\* git changes the repository, or refuses, or is killed at the timeout before
\* or after it has; a call that fails leaves the caches alone.
Changes(c) ==
  /\ Does(c, "git")
  /\ \/ /\ version < MaxVersion /\ version' = version + 1
        /\ \/ caller' = [caller EXCEPT ![c].todo = Rest(c), ![c].made = version']
           \/ CallEnds(c)
     \/ CallEnds(c) /\ UNCHANGED version
  /\ UNCHANGED <<repoCache, listCache, cleared, asked>>

\* git fetch
Fetches(c) ==
  /\ Does(c, "fetch")
  /\ \/ /\ version < MaxVersion /\ version' = version + 1
        /\ caller' = [caller EXCEPT ![c].todo = Rest(c), ![c].made = version']
     \/ version' \in {version, version + 1} \cap 0..MaxVersion /\ CallGoes(c, AfterFetch(c, 2))
  /\ UNCHANGED <<repoCache, listCache, cleared, asked>>

Latest(a, b) == IF a > b THEN a ELSE b

\* Mutant of Clears: the lists are left, as repo_status drops them too.
ClearsStatus(c) ==
  /\ Does(c, "clear")
  /\ repoCache' = Uncached
  /\ cleared' = Latest(cleared, caller[c].made)
  /\ CallGoes(c, Rest(c))
  /\ UNCHANGED <<version, listCache, asked>>

\* invalidate
Clears(c) ==
  /\ Does(c, "clear")
  /\ repoCache' = Uncached /\ listCache' = Uncached
  /\ cleared' = Latest(cleared, caller[c].made)
  /\ CallGoes(c, Rest(c))
  /\ UNCHANGED <<version, asked>>

\* An agent or a shell changes the repository, and tells nobody.
AgentChanges ==
  /\ version < MaxVersion /\ version' = version + 1
  /\ UNCHANGED <<repoCache, listCache, caller, cleared, asked>>

CacheNext ==
  \/ AgentChanges
  \/ \E c \in Caller :
       \/ CallArrives(c) \/ Detects(c) \/ DetectsAgain(c) \/ KeepsStatus(c)
       \/ DropsList(c) \/ GetsList(c) \/ Lists(c) \/ StoresList(c)
       \/ Changes(c) \/ Fetches(c) \/ Clears(c)

CacheSpec == CacheInit /\ [][CacheNext]_cacheVars

-----------------------------------------------------------------------------

\* After a change through the panel has emptied the caches, none tells the
\* state before it: neither an entry that was stored while git worked, nor one
\* that another change's detection left. Only a read that was under way when
\* they were emptied may put an old state back, for as long as an entry lives.
CachesFollowThePanel ==
  \A e \in {repoCache, listCache} : e # Uncached /\ ~ e.overlaps => e.v >= cleared

\* "When force is true, re-list branches from git": but a forced list takes
\* what another call stored since it dropped the old one, however old.
ForcedListIsCurrent ==
  [][\A c \in Caller : GetsList(c) /\ caller[c].force /\ listCache # Uncached
       => listCache.v >= cleared]_cacheVars
=============================================================================
