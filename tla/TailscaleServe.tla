--------------------------- MODULE TailscaleServe ---------------------------
(***************************************************************************)
(* Publishing the server over Tailscale: the owner's requests              *)
(* (src/src/api/tailscale.rs, set_serve), the start and the shutdown of    *)
(* the server (main.rs), and the mappings that tailscaled keeps, which     *)
(* others on the host change as well. Every call of the tailscale command  *)
(* is a step and may fail.                                                 *)
(***************************************************************************)
EXTENDS Integers, FiniteSets, FiniteSetsExt

CONSTANTS
  Serving,    \* the requests that may be under way
  HttpsPort,  \* tailnet ports, numbers
  MaxSteps    \* bound on what others do to the mappings

ASSUME ServeConstants == HttpsPort \subseteq Nat /\ HttpsPort # {} /\ MaxSteps \in Nat

VARIABLES
  mapping,   \* mapping[p]: "free", "ours" or "foreign"
  setting,   \* server_settings: tailscale_serve and its port
  server,    \* "down", "up" or "closing"
  startup,   \* startup_serve, startup_serve_port, and what the task does next
  request,   \* the requests
  others,    \* steps of others so far
  seen       \* history: ports that others changed since a request or the start looked

serveVars == <<mapping, setting, server, startup, request, others, seen>>

\* A request: its step, whether it enables, its port, the ports it still has
\* to disable, whether any port was served when it looked, and whether no other
\* request or start was under way with it.
NoRequest == [at |-> "idle", on |-> FALSE, port |-> Min(HttpsPort), drop |-> {}, had |-> FALSE,
              alone |-> TRUE]

\* The start's task, and the shutdown that comes after it.
NoStart == [at |-> "over", on |-> FALSE, port |-> Min(HttpsPort), drop |-> {}]

ServeTypeOK ==
  /\ mapping \in [HttpsPort -> {"free", "ours", "foreign"}]
  /\ setting \in [on : BOOLEAN, port : HttpsPort]
  /\ server \in {"down", "up", "closing"}
  /\ startup \in [at : {"over", "look", "ensure", "ports", "disable"}, on : BOOLEAN,
                  port : HttpsPort, drop : SUBSET HttpsPort]
  /\ request \in [Serving ->
       [at : {"idle", "look", "ensure", "disable", "fallback", "set"},
        on : BOOLEAN, port : HttpsPort, drop : SUBSET HttpsPort, had : BOOLEAN,
        alone : BOOLEAN]]
  /\ others \in 0..MaxSteps
  /\ seen \subseteq HttpsPort

ServeInit ==
  /\ mapping = [p \in HttpsPort |-> "free"]
  /\ setting = [on |-> FALSE, port |-> Min(HttpsPort)]
  /\ server = "down" /\ startup = NoStart
  /\ request = [r \in Serving |-> NoRequest]
  /\ others = 0 /\ seen = {}

\* serve_https_ports
Ours == {p \in HttpsPort : mapping[p] = "ours"}
Foreign == {p \in HttpsPort : mapping[p] = "foreign"}

Busy(r) == request[r].at # "idle"
SomeoneBusy == startup.at # "over" \/ \E r \in Serving : Busy(r)

-----------------------------------------------------------------------------
(* The tailscale command. A call that times out may have had its effect.   *)

\* serve --bg --https=p target: whatever was there is replaced.
Ensured(p) == mapping' = [mapping EXCEPT ![p] = "ours"]

\* serve --https=p off: whatever was there is removed.
Disabled(p) == mapping' = [mapping EXCEPT ![p] = "free"]

\* Somebody else on the host takes a port, or gives one up.
OthersServe(p) ==
  /\ others < MaxSteps /\ others' = others + 1
  /\ \E m \in {"free", "foreign"} : m # mapping[p] /\ mapping' = [mapping EXCEPT ![p] = m]
  /\ seen' = IF SomeoneBusy THEN seen \cup {p} ELSE {}
  /\ UNCHANGED <<setting, server, startup, request>>

-----------------------------------------------------------------------------
(* set_serve *)

ServeSets(r, rec) == request' = [request EXCEPT ![r] = rec]
ServeGoes(r, at) == request' = [request EXCEPT ![r].at = at]
ServeEnds(r) == ServeSets(r, NoRequest)

\* A request with its port, or the stored one. Who else is under way is noted.
ServeAsked(r) ==
  /\ server = "up" /\ ~ Busy(r)
  /\ \E on \in BOOLEAN, p \in HttpsPort :
       request' = [q \in Serving |->
         IF q = r THEN [at |-> "look", on |-> on, port |-> p, drop |-> {}, had |-> FALSE,
                        alone |-> ~ SomeoneBusy]
         ELSE IF Busy(q) THEN [request[q] EXCEPT !.alone = FALSE]
         ELSE NoRequest]
  /\ seen' = IF SomeoneBusy THEN seen ELSE {}
  /\ UNCHANGED <<mapping, setting, server, startup, others>>

\* Mutant of Looks: a port in use is not refused.
LooksAway(r) ==
  /\ request[r].at = "look"
  /\ \/ request[r].on
        /\ ServeSets(r, [request[r] EXCEPT !.had = Ours # {}, !.drop = Ours \ {request[r].port},
              !.at = IF request[r].port \in Ours THEN "disable" ELSE "ensure"])
     \/ ~ request[r].on /\ ServeSets(r, [request[r] EXCEPT !.drop = Ours, !.at = "disable"])
     \/ ServeEnds(r)
  /\ UNCHANGED <<mapping, setting, server, startup, others, seen>>

\* The status, the mappings, and what follows from them. An enable needs both
\* and refuses a port that is another's; a disable without the mappings falls
\* back to the port it was given or that is stored.
Looks(r) ==
  /\ request[r].at = "look"
  /\ \/ /\ request[r].on /\ request[r].port \notin Foreign
        /\ ServeSets(r, [request[r] EXCEPT !.had = Ours # {}, !.drop = Ours \ {request[r].port},
              !.at = IF request[r].port \in Ours THEN "disable" ELSE "ensure"])
     \/ request[r].on /\ ServeEnds(r)
     \/ ~ request[r].on /\ ServeSets(r, [request[r] EXCEPT !.drop = Ours, !.at = "disable"])
     \/ ~ request[r].on /\ ServeGoes(r, "fallback")
  /\ UNCHANGED <<mapping, setting, server, startup, others, seen>>

\* The new mapping comes before the old ones go.
Ensures(r) ==
  /\ request[r].at = "ensure"
  /\ \/ Ensured(request[r].port) /\ (ServeGoes(r, "disable") \/ ServeEnds(r))
     \/ ServeEnds(r) /\ UNCHANGED mapping
  /\ UNCHANGED <<setting, server, startup, others, seen>>

\* Mutant of Disables: every one of ours, the new one too.
DisablesAll(r) ==
  /\ request[r].at = "disable"
  /\ IF request[r].drop = {} THEN ServeGoes(r, "set") /\ UNCHANGED mapping
     ELSE /\ mapping' = [p \in HttpsPort |-> IF p \in Ours THEN "free" ELSE mapping[p]]
          /\ ServeGoes(r, "set")
  /\ UNCHANGED <<setting, server, startup, others, seen>>

\* One after the other, in order.
Disables(r) ==
  /\ request[r].at = "disable"
  /\ IF request[r].drop = {} THEN ServeGoes(r, "set") /\ UNCHANGED mapping
     ELSE LET p == Min(request[r].drop) IN
          \/ Disabled(p) /\ (ServeSets(r, [request[r] EXCEPT !.drop = @ \ {p}]) \/ ServeEnds(r))
          \/ ServeEnds(r) /\ UNCHANGED mapping
  /\ UNCHANGED <<setting, server, startup, others, seen>>

FallsBack(r) ==
  /\ request[r].at = "fallback"
  /\ \/ Disabled(request[r].port) /\ (ServeGoes(r, "set") \/ ServeEnds(r))
     \/ ServeEnds(r) /\ UNCHANGED mapping
  /\ UNCHANGED <<setting, server, startup, others, seen>>

\* set_tailscale_serve: a disable keeps the port.
Stores(r) ==
  /\ request[r].at = "set"
  /\ \/ /\ setting' = [on |-> request[r].on,
                       port |-> IF request[r].on THEN request[r].port ELSE setting.port]
        /\ ServeEnds(r)
     \/ ServeEnds(r) /\ UNCHANGED setting
  /\ UNCHANGED <<mapping, server, startup, others, seen>>

-----------------------------------------------------------------------------
(* main *)

\* The setting is read, and the port is served by a task of its own.
Boots ==
  /\ server = "down"
  /\ server' = "up"
  /\ startup' = [at |-> IF setting.on THEN "look" ELSE "over",
                 on |-> setting.on, port |-> setting.port, drop |-> {}]
  /\ seen' = {}
  /\ UNCHANGED <<mapping, setting, request, others>>

\* A port that is another's is left alone, if the mappings can be read.
StartLooks ==
  /\ startup.at = "look"
  /\ \/ startup' = [startup EXCEPT !.at = IF startup.port \in Foreign THEN "over" ELSE "ensure"]
     \/ startup' = [startup EXCEPT !.at = "ensure"]
  /\ UNCHANGED <<mapping, setting, server, request, others, seen>>

StartEnsures ==
  /\ startup.at = "ensure"
  /\ Ensured(startup.port) \/ UNCHANGED mapping
  /\ startup' = [startup EXCEPT !.at = "over"]
  /\ UNCHANGED <<setting, server, request, others, seen>>

\* Requests are drained, the task is awaited, and what was enabled at the
\* start is disabled again.
Closes ==
  /\ server = "up" /\ ~ SomeoneBusy
  /\ server' = IF startup.on THEN "closing" ELSE "down"
  /\ startup' = IF startup.on THEN [startup EXCEPT !.at = "ports"] ELSE startup
  /\ seen' = {}
  /\ UNCHANGED <<mapping, setting, request, others>>

\* Whatever is ours, or the port of the start if the mappings are unreadable.
CloseLooks ==
  /\ startup.at = "ports"
  /\ \E drop \in {Ours, {startup.port}} :
       startup' = [startup EXCEPT !.at = "disable", !.drop = drop]
  /\ UNCHANGED <<mapping, setting, server, request, others, seen>>

CloseDisables ==
  /\ startup.at = "disable"
  /\ IF startup.drop = {} THEN server' = "down" /\ startup' = NoStart /\ UNCHANGED mapping
     ELSE LET p == Min(startup.drop) IN
          /\ Disabled(p) \/ UNCHANGED mapping
          /\ startup' = [startup EXCEPT !.drop = @ \ {p}]
          /\ UNCHANGED server
  /\ UNCHANGED <<setting, request, others, seen>>

\* A crash leaves the mappings to tailscaled.
Crashes ==
  /\ server # "down"
  /\ server' = "down" /\ startup' = NoStart
  /\ request' = [r \in Serving |-> NoRequest]
  /\ UNCHANGED <<mapping, setting, others, seen>>

ServeNext ==
  \/ \E p \in HttpsPort : OthersServe(p)
  \/ \E r \in Serving :
       ServeAsked(r) \/ Looks(r) \/ Ensures(r) \/ Disables(r) \/ FallsBack(r) \/ Stores(r)
  \/ Boots \/ StartLooks \/ StartEnsures \/ Closes \/ CloseLooks \/ CloseDisables \/ Crashes

ServeSpec == ServeInit /\ [][ServeNext]_serveVars

-----------------------------------------------------------------------------

\* A request that could read the mappings takes or removes no port of
\* another's, unless somebody changed that port since it looked ("enabling
\* would silently hijack it", "and nothing else").
ForeignIsSpared ==
  [][\A r \in Serving, p \in HttpsPort :
       mapping[p] = "foreign" /\ mapping'[p] # "foreign" /\ (Ensures(r) \/ Disables(r))
         => p \in seen]_serveVars

\* "so a failed enable cannot leave the server unexposed": wherever an enable
\* fails, the server stays served if it was - unless another request or
\* somebody on the host came between.
FailedEnableKeepsServing ==
  [][\A r \in Serving :
       Busy(r) /\ request[r].on /\ request[r].had /\ request'[r] # request[r]
         => Ours' # {} \/ ~ request[r].alone \/ seen # {} \/ server' = "down"]_serveVars

\* "a port change moves the listener instead of stacking": an enable that
\* comes to store its port has left that one mapping, unless another request
\* or somebody on the host came between.
EnableMoves ==
  [](\A r \in Serving :
       request[r].at = "set" /\ request[r].on /\ request[r].alone /\ seen = {}
         => Ours = {request[r].port})

\* What enabling and disabling promise, together.
ServeMovesSafely == ForeignIsSpared /\ FailedEnableKeepsServing /\ EnableMoves

\* "so a foreign mapping is never torn down by mistake" (main.rs): when the
\* mappings cannot be read, the shutdown removes the port of the start, also
\* if another's mapping on it was why the start left it alone.
ShutdownSparesForeign ==
  [][\A p \in HttpsPort : CloseDisables /\ mapping[p] = "foreign" => mapping'[p] = "foreign"
       \/ p \in seen]_serveVars

\* Two enables that overlap see each other's mappings too late: both stay.
NothingStacks == (\A r \in Serving : ~ Busy(r)) /\ startup.at = "over" => Cardinality(Ours) =< 1
=============================================================================
