------------------------------- MODULE SignIn -------------------------------
(***************************************************************************)
(* One account with a password: login, logout, sessions, the second factor *)
(* and changes of the password (api/auth.rs, auth/middleware.rs,           *)
(* api/accounts.rs). The middleware hands each handler the row of the user *)
(* as it was when the request came; the handlers write later.              *)
(***************************************************************************)
EXTENDS Naturals, FiniteSets

CONSTANTS
  Visit,      \* requests
  MaxSecret,  \* bound on secrets and passwords, which are numbered
  MaxVisits   \* bound on requests that reach a handler

ASSUME SignInConstants == MaxSecret \in Nat \ {0} /\ MaxVisits \in Nat

VARIABLES
  user,       \* the row
  sessions,   \* the sessions of the user: id, and whether it has not expired
  visit,      \* visit[v]: where a request is, and what it goes by of the row it
              \* was given
  visits,     \* number of requests, also the id of the last session
  fresh,      \* the last secret that was generated
  confirmed,  \* history: the secrets for which a right code was given
  halves      \* history: requests that failed after they had changed something

signVars == <<user, sessions, visit, visits, fresh, confirmed, halves>>

\* A secret is a number, 0 if there is none; a code is known by its secret.
Row == [password : 1..MaxSecret, secret : 0..MaxSecret, on : BOOLEAN,
        pending : 0..MaxSecret, disabled : BOOLEAN]

Op == {"login", "setup", "verify", "totp_off", "change", "reset"}

Asked(op, secret, flag) == [op |-> op, pending |-> secret, flag |-> flag]
Away == Asked("none", 0, FALSE)

SignTypeOK ==
  /\ user \in Row
  /\ sessions \subseteq [id : 1..MaxVisits, alive : BOOLEAN]
  /\ visit \in [Visit -> [op : Op \cup {"none", "revoke", "disable"}, pending : 0..MaxSecret,
                          flag : BOOLEAN]]
  /\ visits \in 0..MaxVisits /\ fresh \in 0..MaxSecret
  /\ confirmed \subseteq 1..MaxSecret
  /\ halves \subseteq Visit

SignInit ==
  /\ user = [password |-> 1, secret |-> 0, on |-> FALSE, pending |-> 0, disabled |-> FALSE]
  /\ sessions = {} /\ visits = 0 /\ fresh = 0
  /\ visit = [v \in Visit |-> Away]
  /\ confirmed = {} /\ halves = {}

-----------------------------------------------------------------------------
(* Requests *)

Arrive(v, op, flag) ==
  /\ visit[v].op = "none"
  /\ visits < MaxVisits
  /\ visits' = visits + 1
  /\ visit' = [visit EXCEPT ![v] = Asked(op, user.pending, flag)]

Leave(v) == visit' = [visit EXCEPT ![v] = Away]

Is(v, op) == visit[v].op = op

\* login: the password, and the code if the factor is on, were right for the
\* row that was read.
LoginReads(v) ==
  /\ ~ user.disabled
  /\ Arrive(v, "login", FALSE)
  /\ UNCHANGED <<user, sessions, fresh, confirmed, halves>>

\* create_session
LoginEnds(v) ==
  /\ Is(v, "login")
  /\ sessions' = sessions \cup {[id |-> visits, alive |-> TRUE]}
  /\ Leave(v)
  /\ UNCHANGED <<user, visits, fresh, confirmed, halves>>

Logout(s) ==
  /\ s \in sessions
  /\ sessions' = sessions \ {s}
  /\ UNCHANGED <<user, visit, visits, fresh, confirmed, halves>>

\* require_auth: a live session of a user who is not disabled.
Admitted == ~ user.disabled /\ \E s \in sessions : s.alive

\* A disabled user's session is deleted when it is used.
SessionRevoked(s) ==
  /\ user.disabled
  /\ s \in sessions /\ s.alive
  /\ sessions' = sessions \ {s}
  /\ UNCHANGED <<user, visit, visits, fresh, confirmed, halves>>

Expires(s) ==
  /\ s \in sessions /\ s.alive
  /\ sessions' = (sessions \ {s}) \cup {[s EXCEPT !.alive = FALSE]}
  /\ UNCHANGED <<user, visit, visits, fresh, confirmed, halves>>

\* purge_expired_sessions, every hour.
Purges ==
  /\ \E s \in sessions : ~ s.alive
  /\ sessions' = {s \in sessions : s.alive}
  /\ UNCHANGED <<user, visit, visits, fresh, confirmed, halves>>

-----------------------------------------------------------------------------
(* The second factor *)

\* totp_setup, with a proof: the secret is generated,
SetupBegins(v) ==
  /\ Admitted
  /\ Arrive(v, "setup", FALSE)
  /\ UNCHANGED <<user, sessions, fresh, confirmed, halves>>

\* and staged; the factor that is on stays.
SetupStages(v) ==
  /\ Is(v, "setup")
  /\ fresh < MaxSecret
  /\ fresh' = fresh + 1
  /\ user' = [user EXCEPT !.pending = fresh + 1]
  /\ Leave(v)
  /\ UNCHANGED <<sessions, visits, confirmed, halves>>

\* totp_verify: the code was right for the pending secret of the row.
VerifyBegins(v) ==
  /\ Admitted
  /\ user.pending > 0
  /\ Arrive(v, "verify", FALSE)
  /\ confirmed' = confirmed \cup {user.pending}
  /\ UNCHANGED <<user, sessions, fresh, halves>>

\* set_totp
VerifyPromotes(v) ==
  /\ Is(v, "verify")
  /\ user' = [user EXCEPT !.secret = visit[v].pending, !.on = TRUE, !.pending = 0]
  /\ Leave(v)
  /\ UNCHANGED <<sessions, visits, fresh, confirmed, halves>>

\* totp_disable, with a proof.
DisableBegins(v) ==
  /\ Admitted
  /\ Arrive(v, "totp_off", FALSE)
  /\ UNCHANGED <<user, sessions, fresh, confirmed, halves>>

DisableClears(v) ==
  /\ Is(v, "totp_off")
  /\ user' = [user EXCEPT !.secret = 0, !.on = FALSE, !.pending = 0]
  /\ Leave(v)
  /\ UNCHANGED <<sessions, visits, fresh, confirmed, halves>>

-----------------------------------------------------------------------------
(* Passwords *)

\* change_password by the user, or update by the owner, who may change the
\* flag in the same request. Valid passwords only.
ChangeBegins(v) ==
  /\ Admitted
  /\ Arrive(v, "change", FALSE)
  /\ UNCHANGED <<user, sessions, fresh, confirmed, halves>>

ResetBegins(v) ==
  /\ \E flag \in BOOLEAN : Arrive(v, "reset", flag)
  /\ UNCHANGED <<user, sessions, fresh, confirmed, halves>>

\* set_user_password
PasswordIsSet(v) ==
  /\ visit[v].op \in {"change", "reset"}
  /\ \E p \in 1..MaxSecret : user' = [user EXCEPT !.password = p]
  /\ visit' = [visit EXCEPT ![v].op = "revoke"]
  /\ UNCHANGED <<sessions, visits, fresh, confirmed, halves>>

\* delete_user_sessions
SessionsAreRevoked(v) ==
  /\ Is(v, "revoke")
  /\ sessions' = {}
  /\ visit' = [visit EXCEPT ![v] = IF @.flag THEN Asked("disable", 0, TRUE) ELSE Away]
  /\ UNCHANGED <<user, visits, fresh, confirmed, halves>>

UserIsDisabled(v) ==
  /\ Is(v, "disable")
  /\ user' = [user EXCEPT !.disabled = TRUE]
  /\ Leave(v)
  /\ UNCHANGED <<sessions, visits, fresh, confirmed, halves>>

\* A statement fails and the request answers with an error.
StatementFails(v) ==
  /\ visit[v].op # "none"
  /\ halves' = IF visit[v].op \in {"revoke", "disable"} THEN halves \cup {v} ELSE halves
  /\ visit' = [visit EXCEPT ![v] = Away]
  /\ UNCHANGED <<user, sessions, visits, fresh, confirmed>>

SignNext ==
  \/ \E v \in Visit :
       \/ LoginReads(v) \/ LoginEnds(v)
       \/ SetupBegins(v) \/ SetupStages(v) \/ VerifyBegins(v) \/ VerifyPromotes(v)
       \/ DisableBegins(v) \/ DisableClears(v)
       \/ ChangeBegins(v) \/ ResetBegins(v) \/ PasswordIsSet(v) \/ SessionsAreRevoked(v)
       \/ UserIsDisabled(v) \/ StatementFails(v)
  \/ \E s \in sessions : Logout(s) \/ SessionRevoked(s) \/ Expires(s)
  \/ Purges

SignSpec == SignInit /\ [][SignNext]_signVars

-----------------------------------------------------------------------------

\* A factor that is on is one whose code the user has shown, however requests
\* to set it up, to verify it and to turn it off overlap; so a user who signs
\* in is never asked for a code nobody has.
FactorIsConfirmed == user.on => user.secret \in confirmed

\* A secret that becomes the factor is the one that is staged as it does. It may
\* not be: totp_verify promotes the secret of the row it was given, also after
\* the factor was turned off or staged anew.
PromotedIsStaged ==
  [][user'.secret \notin {user.secret, 0} => user'.secret = user.pending]_signVars

\* "A failure cannot leave a half-applied update behind" - but the password is
\* set when the deletion of the sessions or the change of the flag fails.
ResetIsWhole == halves = {}
=============================================================================
