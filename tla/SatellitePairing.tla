-------------------------- MODULE SatellitePairing --------------------------
(***************************************************************************)
(* Pairing a hub with a satellite: load, persist, issue_token and pair of  *)
(* satellite/mod.rs, the hub's pair_node, list_nodes, probe_node and       *)
(* remove_node of api/federation.rs and the rows of                        *)
(* db/federation_nodes.rs. The satellite may restart at any step, and a    *)
(* request to it may be lost on either way.                                *)
(***************************************************************************)
EXTENDS Naturals, FiniteSets

CONSTANTS
  Pairer,       \* requests to pair, of one hub or several
  Address,      \* addresses they come from
  MaxFails,     \* PAIR_MAX_FAILS
  AttemptsCap,  \* PAIR_ATTEMPTS_CAP
  MaxBoots      \* bound on the boots of the satellite

ASSUME PairingConstants ==
  /\ MaxFails \in Nat \ {0} /\ AttemptsCap \in Nat \ {0} /\ MaxBoots \in Nat \ {0}
  /\ "none" \notin Pairer

VARIABLES
  boot,       \* boots so far
  code,       \* pairing_code of this boot: held by nobody, by a request, used
  tokens,     \* hashes of issued tokens in memory; a token is named by its request
  identity,   \* the identity file: the tokens in it
  attempts,   \* pair_attempts: failures and lockout per address
  pairing,    \* pairing[p]: where the request is, its address, code and boot
  issuedIn,   \* history: issuedIn[b], the requests that boot b issued a token to
  forgotten,  \* history: the tokens that no write or no boot got hold of
  node        \* the hub's row for the satellite

satVars == <<boot, code, tokens, identity, attempts, issuedIn, forgotten>>
pairVars == <<satVars, pairing, node>>

NoNode == [token |-> "none", name |-> "none", fresh |-> FALSE]
AtSatellite == {"checks", "verifies", "issues", "persists", "responds"}
Fresh == [fails |-> 0, locked |-> "no"]

PairTypeOK ==
  /\ boot \in 1 .. MaxBoots /\ code \in {"free", "used"}
  /\ tokens \subseteq Pairer /\ identity \subseteq Pairer /\ forgotten \subseteq Pairer
  /\ DOMAIN attempts \subseteq Address /\ Cardinality(DOMAIN attempts) <= AttemptsCap
  /\ \A a \in DOMAIN attempts : attempts[a] \in [fails : Nat, locked : {"no", "yes", "lapsed"}]
  /\ pairing \in [Pairer -> [at : {"idle", "stores", "over"} \cup AtSatellite,
                             from : Address, right : BOOLEAN, name : BOOLEAN]]
  /\ issuedIn \in [1 .. MaxBoots -> SUBSET Pairer]
  /\ node \in [token : Pairer \cup {"none"}, name : {"none", "own", "given"}, fresh : BOOLEAN]

PairInit ==
  /\ boot = 1 /\ code = "free" /\ tokens = {} /\ identity = {} /\ forgotten = {}
  /\ attempts = [a \in {} |-> Fresh]
  /\ pairing \in [Pairer -> [at : {"idle"}, from : Address, right : BOOLEAN, name : BOOLEAN]]
  /\ issuedIn = [b \in 1 .. MaxBoots |-> {}]
  /\ node = NoNode

At(p, where) == pairing[p].at = where
MovesTo(p, where) == pairing' = [pairing EXCEPT ![p].at = where]

(***************************************************************************)
(* pair at the satellite                                                   *)
(***************************************************************************)

\* The hub has seen that the target is a satellite and posts the code.
PairArrives(p) ==
  /\ At(p, "idle")
  /\ MovesTo(p, "checks")
  /\ UNCHANGED <<satVars, node>>

IsLocked(a) == a \in DOMAIN attempts /\ attempts[a].locked = "yes"

AttemptIsChecked(p) ==
  /\ At(p, "checks")
  /\ MovesTo(p, IF IsLocked(pairing[p].from) THEN "over" ELSE "verifies")
  /\ UNCHANGED <<satVars, node>>

\* A full map drops the addresses that are not locked out, and if that does
\* not help all of them.
Bounded ==
  LET held == {a \in DOMAIN attempts : IsLocked(a)}
  IN IF Cardinality(DOMAIN attempts) < AttemptsCap THEN attempts
     ELSE IF Cardinality(held) < AttemptsCap THEN [a \in held |-> attempts[a]]
     ELSE [a \in {} |-> Fresh]

\* Mutant of Failed: nothing bounds the map.
FailedUnbounded(a) ==
  LET before == IF a \in DOMAIN attempts THEN attempts[a] ELSE Fresh
  IN [b \in DOMAIN attempts \cup {a} |->
        IF b = a THEN [before EXCEPT !.fails = @ + 1] ELSE attempts[b]]

Failed(a) ==
  LET before == IF a \in DOMAIN Bounded /\ Bounded[a].locked # "lapsed" THEN Bounded[a] ELSE Fresh
      fails == before.fails + 1
      entry == [fails |-> fails, locked |-> IF fails >= MaxFails THEN "yes" ELSE before.locked]
  IN [b \in DOMAIN Bounded \cup {a} |-> IF b = a THEN entry ELSE Bounded[b]]

\* The write lock of the code is held from the comparison to the clearing.
CodeIsVerified(p) ==
  /\ At(p, "verifies")
  /\ IF pairing[p].right /\ code = "free"
     THEN code' = "used" /\ MovesTo(p, "issues") /\ UNCHANGED attempts
     ELSE attempts' = Failed(pairing[p].from) /\ MovesTo(p, "over") /\ UNCHANGED code
  /\ UNCHANGED <<boot, tokens, identity, issuedIn, forgotten, node>>

TokenIsIssued(p) ==
  /\ At(p, "issues")
  /\ tokens' = tokens \cup {p}
  /\ issuedIn' = [issuedIn EXCEPT ![boot] = @ \cup {p}]
  /\ MovesTo(p, "persists")
  /\ UNCHANGED <<boot, code, identity, attempts, forgotten, node>>

\* The file is written beside the old one and renamed over it.
IdentityIsPersisted(p) ==
  /\ At(p, "persists")
  /\ identity' = tokens
  /\ MovesTo(p, "responds")
  /\ UNCHANGED <<boot, code, tokens, attempts, issuedIn, forgotten, node>>

\* A write or a rename that fails is logged at most; the token is given out.
PersistFails(p) ==
  /\ At(p, "persists")
  /\ forgotten' = forgotten \cup {p}
  /\ MovesTo(p, "responds")
  /\ UNCHANGED <<boot, code, tokens, identity, attempts, issuedIn, node>>

LockLapses(a) ==
  /\ IsLocked(a)
  /\ attempts' = [attempts EXCEPT ![a].locked = "lapsed"]
  /\ UNCHANGED <<boot, code, tokens, identity, issuedIn, forgotten, pairing, node>>

\* The connection of the hub is gone: the handler is dropped where it waits.
PairIsDropped(p) ==
  /\ pairing[p].at \in AtSatellite
  /\ MovesTo(p, "over")
  /\ UNCHANGED <<satVars, node>>

\* What is in memory is lost and a new code is shown.
NewBoot ==
  /\ boot < MaxBoots
  /\ boot' = boot + 1
  /\ code' = "free"
  /\ attempts' = [a \in {} |-> Fresh]
  /\ pairing' = [p \in Pairer |-> IF pairing[p].at \in AtSatellite
                                  THEN [pairing[p] EXCEPT !.at = "over"] ELSE pairing[p]]
  /\ UNCHANGED <<issuedIn, node>>

\* Mutant of SatelliteRestarts: the identity is started anew at every boot.
ForgetsAtRestart == NewBoot /\ tokens' = {} /\ identity' = {} /\ UNCHANGED forgotten

\* The identity file is read.
SatelliteRestarts == NewBoot /\ tokens' = identity /\ UNCHANGED <<identity, forgotten>>

\* It cannot be read: the satellite has a new identity, which it writes over
\* the old one unless that fails as well.
SatelliteStartsFresh ==
  /\ NewBoot
  /\ tokens' = {}
  /\ identity' \in {{}, identity}
  /\ forgotten' = forgotten \cup identity

(***************************************************************************)
(* The hub                                                                 *)
(***************************************************************************)

PairIsAnswered(p) ==
  /\ At(p, "responds")
  /\ MovesTo(p, "stores")
  /\ UNCHANGED <<satVars, node>>

\* upsert_federation_node, with the name of the request or the satellite's.
NodeIsStored(p) ==
  /\ At(p, "stores")
  /\ node' = [token |-> p, name |-> IF pairing[p].name THEN "given" ELSE "own", fresh |-> TRUE]
  /\ MovesTo(p, "over")
  /\ UNCHANGED satVars

NodeGoesStale ==
  /\ node.fresh
  /\ node' = [node EXCEPT !.fresh = FALSE]
  /\ UNCHANGED <<satVars, pairing>>

\* list_nodes probes a node it has not seen for a while; touch_federation_node
\* writes what the probe said.
NodeIsProbed ==
  /\ node # NoNode /\ ~node.fresh
  /\ node' = [node EXCEPT !.name = "own", !.fresh = TRUE]
  /\ UNCHANGED <<satVars, pairing>>

NodeIsRemoved ==
  /\ node # NoNode
  /\ node' = NoNode
  /\ UNCHANGED <<satVars, pairing>>

(***************************************************************************)
(* Specification                                                           *)
(***************************************************************************)

PairNext ==
  \/ \E p \in Pairer :
       \/ PairArrives(p) \/ AttemptIsChecked(p) \/ CodeIsVerified(p) \/ TokenIsIssued(p)
       \/ IdentityIsPersisted(p) \/ PersistFails(p) \/ PairIsDropped(p) \/ PairIsAnswered(p)
       \/ NodeIsStored(p)
  \/ \E a \in Address : LockLapses(a)
  \/ SatelliteRestarts \/ SatelliteStartsFresh
  \/ NodeGoesStale \/ NodeIsProbed \/ NodeIsRemoved

PairSpec == PairInit /\ [][PairNext]_pairVars

(***************************************************************************)
(* Properties                                                              *)
(***************************************************************************)

\* One boot's code pairs one hub: of concurrent requests with the right code
\* at most one gets a token.
OnePairPerBoot == \A b \in 1 .. MaxBoots : Cardinality(issuedIn[b]) <= 1

\* A token is good in the boot that issued it, and a hub that was given one can
\* use it for good: neither a restart of the satellite at any step nor another
\* pairing takes it away. Only where the satellite could not write its identity
\* file, or could not read it at a boot, it is not: "Best-effort: the node still
\* works without it, restarts just lose pairings" (satellite/mod.rs:149).
PairingSurvives ==
  /\ issuedIn[boot] \subseteq tokens
  /\ \A p \in Pairer \ forgotten :
       (At(p, "stores") \/ node.token = p) => (p \in tokens /\ p \in identity)

\* "Optional display name override stored on the hub" (api/federation.rs:163):
\* the name the owner gave stays while the node is there.
GivenNameStays ==
  [][(node.name = "given" /\ node'.token = node.token) => node'.name = "given"]_pairVars

=============================================================================
