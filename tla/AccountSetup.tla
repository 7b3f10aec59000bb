----------------------------- MODULE AccountSetup -----------------------------
(***************************************************************************)
(* The accounts of a server: bootstrap.rs creates the first ones at boot,  *)
(* api/accounts.rs the others. A step is one statement against the         *)
(* database; the server may go down between any two.                       *)
(***************************************************************************)
EXTENDS Naturals

CONSTANTS
  Username,    \* all names of accounts
  Configured,  \* BOOTSTRAP_USERNAME
  Local,       \* LOCAL_USERNAME
  Manager,     \* requests to the accounts API
  MaxSetups,   \* bound on boots
  MaxManaged   \* bound on requests

ASSUME AccountConstants ==
  /\ {Configured, Local} \subseteq Username /\ Configured # Local
  /\ MaxSetups \in Nat /\ MaxManaged \in Nat

VARIABLES
  account,   \* the table of users
  boot,      \* how the server was started, and how far it is
  managing,  \* managing[m]: a request in its handler
  setups,    \* number of boots
  managed    \* number of requests

accountVars == <<account, boot, managing, setups, managed>>

\* A password is "real", or the sentinel that no password matches.
Account == [hash : {"none", "real", "sentinel"}, owner : BOOLEAN, disabled : BOOLEAN]
NoAccount == [hash |-> "none", owner |-> FALSE, disabled |-> FALSE]

Exists(n) == account[n].hash # "none"

\* What a request has still to set.
Task(op, n, password, flag) == [at |-> op, name |-> n, password |-> password, flag |-> flag]
NotManaging == Task("idle", Local, FALSE, "keep")

AccountTypeOK ==
  /\ account \in [Username -> Account]
  /\ boot \in [mode : {"plain", "bundled", "dev"}, password : BOOLEAN,
               at : {"down", "count", "create", "crown", "find_local", "create_local",
                     "crown_local", "up"}]
  /\ managing \in [Manager -> [at : {"idle", "create", "update"}, name : Username,
                               password : BOOLEAN, flag : {"keep", "disable", "enable"}]]
  /\ setups \in 0..MaxSetups /\ managed \in 0..MaxManaged

AccountInit ==
  /\ account = [n \in Username |-> NoAccount]
  /\ boot = [mode |-> "plain", password |-> FALSE, at |-> "down"]
  /\ managing = [m \in Manager |-> NotManaging]
  /\ setups = 0 /\ managed = 0

-----------------------------------------------------------------------------
(* Boot *)

\* create_user with is_owner = FALSE; the name is UNIQUE.
Insert(n, hash) ==
  account' = [account EXCEPT ![n] = [hash |-> hash, owner |-> FALSE, disabled |-> FALSE]]

\* set_user_owner
Crown(n) == account' = [account EXCEPT ![n].owner = TRUE]

BootGoes(from, to) ==
  /\ boot.at = from
  /\ boot' = [boot EXCEPT !.at = to]
  /\ UNCHANGED <<managing, setups, managed>>

\* main: dev mode skips the bootstrap. The configuration may have a password
\* that is good enough or not.
Boots ==
  /\ boot.at = "down"
  /\ setups < MaxSetups
  /\ setups' = setups + 1
  /\ \E mode \in {"plain", "bundled", "dev"}, password \in BOOLEAN :
       boot' = [mode |-> mode, password |-> password,
                at |-> IF mode = "dev" THEN "find_local" ELSE "count"]
  /\ UNCHANGED <<account, managing, managed>>

AfterBootstrap == IF boot.mode = "bundled" THEN "find_local" ELSE "up"

CountsUsers ==
  /\ BootGoes("count", IF (\E n \in Username : Exists(n)) \/ ~ boot.password
                       THEN AfterBootstrap ELSE "create")
  /\ UNCHANGED account

CreatesFirst ==
  /\ BootGoes("create", "crown")
  /\ Insert(Configured, "real")

CrownsFirst ==
  /\ BootGoes("crown", AfterBootstrap)
  /\ Crown(Configured)

\* A row that bootstrap has made is an owner again; a regular user of that
\* name is left alone.
FindsLocal ==
  /\ BootGoes("find_local",
              CASE ~ Exists(Local) -> "create_local"
                [] Exists(Local) /\ account[Local].hash = "sentinel"
                                 /\ ~ account[Local].owner -> "crown_local"
                [] OTHER -> "up")
  /\ UNCHANGED account

CreatesLocal ==
  /\ BootGoes("create_local", "crown_local")
  /\ Insert(Local, "sentinel")

CrownsLocal ==
  /\ BootGoes("crown_local", "up")
  /\ Crown(Local)

GoesDown ==
  /\ boot.at # "down"
  /\ boot' = [boot EXCEPT !.at = "down"]
  /\ managing' = [m \in Manager |-> NotManaging]
  /\ UNCHANGED <<account, setups, managed>>

-----------------------------------------------------------------------------
(* The accounts API *)

\* An owner signs in with a password, or is the local account in a mode that
\* maps requests to it (which does not look at disabled).
OwnerIsHere ==
  \/ \E n \in Username :
       Exists(n) /\ account[n].owner /\ account[n].hash = "real" /\ ~ account[n].disabled
  \/ boot.mode # "plain" /\ Exists(Local) /\ account[Local].owner

Manages(m, task) ==
  /\ boot.at = "up" /\ OwnerIsHere
  /\ managing[m].at = "idle"
  /\ managed < MaxManaged
  /\ managed' = managed + 1
  /\ managing' = [managing EXCEPT ![m] = task]
  /\ UNCHANGED <<account, boot, setups>>

\* create: the name was free when it was looked up; then the password is hashed.
AsksToCreate(m, n) == ~ Exists(n) /\ Manages(m, Task("create", n, TRUE, "keep"))

\* A new password, another flag, or both.
Changes(n) == {Task("update", n, p, f) : p \in BOOLEAN, f \in {"keep", "disable", "enable"}}
              \ {Task("update", n, FALSE, "keep")}

\* update: the target was looked up and is no owner.
AsksToUpdate(m, n) ==
  /\ Exists(n) /\ ~ account[n].owner
  /\ \E task \in Changes(n) : Manages(m, task)

Goes(m, task) ==
  /\ managing' = [managing EXCEPT ![m] = task]
  /\ UNCHANGED <<boot, setups, managed>>

\* The insert fails if the name has been taken.
Creates(m) ==
  /\ managing[m].at = "create"
  /\ IF Exists(managing[m].name) THEN UNCHANGED account
                                 ELSE Insert(managing[m].name, "real")
  /\ Goes(m, NotManaging)

\* set_user_password comes first.
SetsPassword(m) ==
  /\ managing[m].at = "update" /\ managing[m].password
  /\ account' = [account EXCEPT ![managing[m].name].hash = "real"]
  /\ Goes(m, IF managing[m].flag = "keep" THEN NotManaging
             ELSE [managing[m] EXCEPT !.password = FALSE])

\* set_user_disabled
SetsDisabled(m) ==
  /\ managing[m].at = "update" /\ ~ managing[m].password
  /\ account' = [account EXCEPT ![managing[m].name].disabled = managing[m].flag = "disable"]
  /\ Goes(m, NotManaging)

AccountNext ==
  \/ Boots \/ CountsUsers \/ CreatesFirst \/ CrownsFirst
  \/ FindsLocal \/ CreatesLocal \/ CrownsLocal \/ GoesDown
  \/ \E m \in Manager, n \in Username :
       AsksToCreate(m, n) \/ AsksToUpdate(m, n)
  \/ \E m \in Manager : Creates(m) \/ SetsPassword(m) \/ SetsDisabled(m)

AccountSpec == AccountInit /\ [][AccountNext]_accountVars

-----------------------------------------------------------------------------

\* The bundled app and dev mode act as the local account: unless a user of
\* that name is in the way it is an owner, also after a boot that was cut off
\* between its creation and its promotion.
LocalIsOwner ==
  boot.at = "up" /\ boot.mode # "plain" =>
    account[Local].hash = "real" \/ account[Local].owner

\* Who manages the accounts is not disabled and keeps the flag, and an account
\* is never made anew by a second request for its name.
OwnersAreLeftAlone ==
  [][\A n \in Username : Exists(n) =>
       /\ account'[n].hash # "none"
       /\ account[n].owner => account'[n] = account[n]]_accountVars

\* "The first user created when the user table is empty is marked as owner so
\* they can manage accounts". Not so after a crash in between: no later boot
\* repairs it.
FirstUserIsOwner ==
  boot.at = "up" /\ Exists(Configured) => \E n \in Username : Exists(n) /\ account[n].owner
=============================================================================
