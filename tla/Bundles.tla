------------------------------ MODULE Bundles ------------------------------
(***************************************************************************)
(* The owner's list of MCP servers and the files of those that came from a *)
(* bundle: set_mcp_servers and install_mcpb of api/settings.rs under       *)
(* MCP_SERVERS_LOCK, install_bundle and prune_bundles of mcpb.rs, and the  *)
(* client's McpStore. What touches the files runs on the blocking pool: it *)
(* goes on when the future of its request, and the guard in it, have been  *)
(* dropped. A server without a bundle is not modelled.                     *)
(***************************************************************************)
EXTENDS Naturals, FiniteSets

CONSTANTS
  Tab,          \* clients; each has one request at a time, and asks again when
                \* what the server does for the last one is over
  Bundle,       \* names; a server is stored under its bundle's
  MaxInstalls   \* bound on the requests to install

ASSUME BundleConstants == MaxInstalls \in Nat /\ "nobody" \notin Tab

VARIABLES
  servers,    \* users.mcp_servers
  loose,      \* those of them none of whose values is the directory of the
              \* bundle or begins with it, as in --p=${__dirname}
  files,      \* files[b]: the directory of b under the bundle root
  shownList,  \* shownList[c]: _mcpServers
  change,     \* change[c]: where the request of c is, and what it asks
  serverLock, \* MCP_SERVERS_LOCK: the tab whose request holds it, or Nobody
  work,       \* work[c]: the blocking task of c's last request
  installs,   \* requests to install so far
  upset       \* history: bundles a failed or dropped request was busy with, or
              \* a list has put back or has refer to its directory again

bundleVars == <<servers, loose, files, shownList, change, serverLock, work, installs, upset>>

Nobody == "nobody"
NoWork == [kind |-> "none", to |-> {}]
NoChange == [at |-> "none", kind |-> "save", to |-> {}]

\* A save sends the whole list; an installation sends one bundle.
BundleTypeOK ==
  /\ servers \subseteq Bundle /\ loose \subseteq servers
  /\ files \in [Bundle -> {"absent", "partial", "whole"}]
  /\ shownList \in [Tab -> SUBSET Bundle]
  /\ change \in [Tab -> [at : {"none", "locks", "stores", "extracts", "merges", "prunes"},
                         kind : {"save", "install"}, to : SUBSET Bundle]]
  /\ serverLock \in Tab \cup {Nobody}
  /\ work \in [Tab -> [kind : {"none", "clear", "unzip", "prune"}, to : SUBSET Bundle]]
  /\ installs \in 0 .. MaxInstalls
  /\ upset \subseteq Bundle

BundleInit ==
  /\ servers = {} /\ loose = {} /\ files = [b \in Bundle |-> "absent"]
  /\ shownList = [c \in Tab |-> {}]
  /\ change = [c \in Tab |-> NoChange]
  /\ serverLock = Nobody
  /\ work = [c \in Tab |-> NoWork]
  /\ installs = 0 /\ upset = {}

\* The bundles a request of c concerns, and its list after an installation.
Asked(c) == IF change[c].kind = "install" THEN change[c].to ELSE {}
Merged(c) == servers \cup change[c].to
GoesOnTo(c, where) == change' = [change EXCEPT ![c].at = where]
HandsOver(c, kind, to) == work' = [work EXCEPT ![c] = [kind |-> kind, to |-> to]]
Done(c) == work[c] = NoWork

-----------------------------------------------------------------------------
(* The client *)

LoadServers(c) ==
  /\ change[c].at = "none"
  /\ shownList' = [shownList EXCEPT ![c] = servers]
  /\ UNCHANGED <<servers, loose, files, change, serverLock, work, installs, upset>>

\* Edits, removals and the enabled switch send the list the tab shows.
SaveServers(c) ==
  /\ change[c].at = "none" /\ Done(c)
  /\ \E keep \in SUBSET shownList[c] :
       change' = [change EXCEPT ![c] = [at |-> "locks", kind |-> "save", to |-> keep]]
  /\ UNCHANGED <<servers, loose, files, shownList, serverLock, work, installs, upset>>

InstallBundle(c) ==
  /\ change[c].at = "none" /\ Done(c) /\ installs < MaxInstalls
  /\ installs' = installs + 1
  /\ \E b \in Bundle :
       change' = [change EXCEPT ![c] = [at |-> "locks", kind |-> "install", to |-> {b}]]
  /\ UNCHANGED <<servers, loose, files, shownList, serverLock, work, upset>>

-----------------------------------------------------------------------------
(* The handlers *)

FirstStep(c) == IF change[c].kind = "save" THEN "stores" ELSE "extracts"

\* Mutant of TakeServersLock: the writes of the list are not serialized.
TakeNoServersLock(c) ==
  /\ change[c].at = "locks"
  /\ GoesOnTo(c, FirstStep(c))
  /\ IF change[c].kind = "save" THEN UNCHANGED work ELSE HandsOver(c, "clear", change[c].to)
  /\ UNCHANGED <<servers, loose, files, shownList, serverLock, installs, upset>>

\* An installation goes on to install_bundle, on the blocking pool.
TakeServersLock(c) ==
  /\ change[c].at = "locks" /\ serverLock = Nobody
  /\ serverLock' = c
  /\ GoesOnTo(c, FirstStep(c))
  /\ IF change[c].kind = "save" THEN UNCHANGED work ELSE HandsOver(c, "clear", change[c].to)
  /\ UNCHANGED <<servers, loose, files, shownList, installs, upset>>

Replies(c, list) ==
  /\ change' = [change EXCEPT ![c] = NoChange]
  /\ serverLock' = IF serverLock = c THEN Nobody ELSE serverLock
  /\ shownList' = [shownList EXCEPT ![c] = list]

\* set_mcp_servers, then prune_bundles against the list just stored, which may
\* be older than the one it replaces, and whose values the owner may have edited.
StoreServers(c) ==
  /\ change[c].at = "stores"
  /\ \/ /\ servers' = change[c].to
        /\ upset' = upset \cup (change[c].to \ (servers \ loose))
        /\ loose' \in SUBSET change[c].to
        /\ GoesOnTo(c, "prunes") /\ HandsOver(c, "prune", change[c].to \ loose')
        /\ UNCHANGED <<serverLock, shownList>>
     \/ Replies(c, shownList[c]) /\ UNCHANGED <<servers, loose, work, upset>>
  /\ UNCHANGED <<files, installs>>

\* The blocking task has returned: with an error, install_bundle has removed
\* what it extracted, and an earlier installation is gone as well.
InstallReturns(c) ==
  /\ change[c].at = "extracts" /\ Done(c)
  /\ IF \A b \in change[c].to : files[b] = "whole"
     THEN GoesOnTo(c, "merges") /\ UNCHANGED <<serverLock, shownList, upset>>
     ELSE Replies(c, shownList[c]) /\ upset' = upset \cup Asked(c)
  /\ UNCHANGED <<servers, loose, files, work, installs>>

\* The merged list is stored; when it is invalid or the write fails, the files
\* are pruned against the list without the bundle, also if it was there before.
\* When the list cannot be read, the files stay without an entry.
MergeServers(c) ==
  /\ change[c].at = "merges"
  /\ \/ /\ servers' = Merged(c) /\ Replies(c, Merged(c))
        /\ loose' \in {loose \ change[c].to, loose \cup change[c].to}
        /\ UNCHANGED <<work, upset>>
     \/ /\ HandsOver(c, "prune", servers \ (loose \cup change[c].to)) /\ GoesOnTo(c, "prunes")
        /\ upset' = upset \cup Asked(c)
        /\ UNCHANGED <<servers, loose, serverLock, shownList>>
     \/ /\ Replies(c, shownList[c]) /\ upset' = upset \cup Asked(c)
        /\ UNCHANGED <<servers, loose, work>>
  /\ UNCHANGED <<files, installs>>

PruneReturns(c) ==
  /\ change[c].at = "prunes" /\ Done(c)
  /\ Replies(c, IF change[c].kind = "save" THEN change[c].to ELSE shownList[c])
  /\ UNCHANGED <<servers, loose, files, work, installs, upset>>

\* The connection breaks: the guard goes with the future, the task does not.
\* Until it has ended it may hit any bundle.
ChangeIsDropped(c) ==
  /\ change[c].at # "none"
  /\ Replies(c, shownList[c])
  /\ upset' = IF change[c].at = "locks" THEN upset
              ELSE IF Done(c) THEN upset \cup Asked(c) ELSE Bundle
  /\ UNCHANGED <<servers, loose, files, work, installs>>

-----------------------------------------------------------------------------
(* The blocking pool *)

\* install_bundle: the earlier directory goes, the archive is extracted or,
\* after an error, removed again.
BundleIsCleared(c) ==
  /\ work[c].kind = "clear"
  /\ files' = [b \in Bundle |-> IF b \in work[c].to THEN "partial" ELSE files[b]]
  /\ work' = [work EXCEPT ![c].kind = "unzip"]
  /\ UNCHANGED <<servers, loose, shownList, change, serverLock, installs, upset>>

BundleIsExtracted(c) ==
  /\ work[c].kind = "unzip"
  /\ \E left \in {"absent", "whole"} :
       files' = [b \in Bundle |-> IF b \notin work[c].to THEN files[b]
                                  ELSE IF files[b] = "absent" THEN "absent" ELSE left]
  /\ work' = [work EXCEPT ![c] = NoWork]
  /\ UNCHANGED <<servers, loose, shownList, change, serverLock, installs, upset>>

\* prune_bundles: the directories that no value of the list given to it is or
\* begins with go. One that is half extracted may have no manifest yet, and is
\* spared.
BundlesArePruned(c) ==
  /\ work[c].kind = "prune"
  /\ \E spared \in SUBSET {b \in Bundle : files[b] = "partial"} :
       files' = [b \in Bundle |-> IF b \in work[c].to \cup spared THEN files[b] ELSE "absent"]
  /\ work' = [work EXCEPT ![c] = NoWork]
  /\ UNCHANGED <<servers, loose, shownList, change, serverLock, installs, upset>>

BundleStep(c) ==
  \/ LoadServers(c) \/ SaveServers(c) \/ InstallBundle(c)
  \/ TakeServersLock(c) \/ StoreServers(c) \/ InstallReturns(c) \/ MergeServers(c)
  \/ PruneReturns(c) \/ ChangeIsDropped(c)
  \/ BundleIsCleared(c) \/ BundleIsExtracted(c) \/ BundlesArePruned(c)

BundleNext == \E c \in Tab : BundleStep(c)

BundleSpec == BundleInit /\ [][BundleNext]_bundleVars

-----------------------------------------------------------------------------
\* However saves and installations of several tabs interleave, a stored server
\* that refers to its directory by the beginning of a value has its files, except
\* while they are replaced, for the bundles of a request that failed or was
\* dropped, and for those a list has put back or has refer again
\* (settings.rs:45-48). One with the directory in the middle of an argument may
\* lose them to any save, though "a dir stays if any server's command, args, or
\* env still point into it" (mcpb.rs:862-863).
StoredServerHasBundle ==
  \A b \in servers \ (loose \cup upset) :
    files[b] = "whole" \/ \E c \in Tab : change[c].at = "extracts" /\ b \in change[c].to

\* "a concurrent set_mcp_servers prune could otherwise delete the in-flight
\* bundle or lose the update" (settings.rs:46-48): only a tab that has shown a
\* bundle takes it off the list. A save that was sent before the installation
\* and waits for the lock still does both.
InstalledIsKept ==
  [][\A c \in Tab, b \in Bundle :
       StoreServers(c) /\ b \in servers \ servers' => b \in shownList[c]]_bundleVars

=============================================================================
