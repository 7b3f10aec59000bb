------------------------------- MODULE Agents -------------------------------
(***************************************************************************)
(* Codex turns, terminals and remote turns share no state on the server.   *)
(* Each behaviour here is one of one of them, so that a single run checks  *)
(* all three.                                                              *)
(***************************************************************************)
EXTENDS CodexTurn, Terminals, SatelliteRun

VARIABLE part  \* the component that this behaviour is about

agentsVars == <<part, cxVars, termVars, vars>>

AgentsTypeOK ==
  part \in {"codex", "terminals", "satellite"} /\ CxTypeOK /\ TermTypeOK /\ TypeOK

AgentsInit ==
  /\ part \in {"codex", "terminals", "satellite"}
  /\ CxInit /\ TermInit /\ Init
  /\ part # "codex" => stored = "none"

AgentsNext ==
  /\ UNCHANGED part
  /\ IF part = "codex" THEN CxNext ELSE UNCHANGED cxVars
  /\ IF part = "terminals" THEN TermNext ELSE UNCHANGED termVars
  /\ IF part = "satellite" THEN Next ELSE UNCHANGED vars

\* As in CxFairSpec.
CodexFairness ==
  /\ WF_cxVars(part = "codex" /\ Transport) /\ WF_cxVars(part = "codex" /\ RequestTimesOut)
  /\ WF_cxVars(part = "codex" /\ UserAnswers) /\ WF_cxVars(part = "codex" /\ Teardown)
  /\ WF_cxVars(part = "codex" /\ Reading) /\ WF_cxVars(part = "codex" /\ PromptIsAborted)

\* Tasks are polled, the sweep runs every minute, a kill that has taken the
\* session goes on. Shells and clients owe nothing.
TerminalFairness ==
  /\ WF_termVars(part = "terminals" /\ Sweep)
  /\ \A s \in Session :
       /\ WF_termVars(part = "terminals" /\ SessionStep(s))
       /\ WF_termVars(part = "terminals" /\ KillActs(s))
  /\ \A c \in Socket : WF_termVars(part = "terminals" /\ SocketStep(c))

\* Tasks are polled, requests that were sent arrive or fail, a stop aborts in
\* the end, and a satellite notices a broken connection when it next writes
\* (its keep-alive does every 15 seconds). Agents and users owe nothing.
SatelliteFairness ==
  /\ WF_vars(part = "satellite" /\ Callback) /\ WF_vars(part = "satellite" /\ Cleanup)
  /\ WF_vars(part = "satellite" /\ DriveAborted) /\ WF_vars(part = "satellite" /\ HubActs)
  /\ WF_vars(part = "satellite" /\ (RunArrives \/ PostFails))
  /\ WF_vars(part = "satellite" /\ HubAborted)
  /\ WF_vars(part = "satellite" /\ (WatcherSees \/ WatcherCalls))

AgentsSpec ==
  /\ AgentsInit /\ [][AgentsNext]_agentsVars
  /\ CodexFairness /\ TerminalFairness /\ SatelliteFairness

-----------------------------------------------------------------------------
\* Who asks a user from a satellite is answered by that user or refused, and
\* can be answered for as long as it waits (satellite/runs.rs, send_options
\* and callback).
AsksAreAnswered == AllowedByUser /\ AskCanBeAnswered

\* Neither side of a remote turn waits for one that is gone: an agent without
\* a hub stops, a decision arrives, a hub without a satellite notices.
NobodyWaitsInVain == LostHubStopsAgent /\ DecisionReachesAgent /\ HubNotices

\* A terminal that has ended is over on both sides: for the map and its shell,
\* and for the sockets that are open on it (terminal/manager.rs, session.rs).
TerminalsEnd == RemovedShellIsDead /\ OpenSocketHearsExit

\* No process outlives what it was started for: the app server its turn, the
\* shell its terminal (codex/rpc.rs, terminal/).
NoProcessIsLeft == TurnLeavesNoChild /\ TerminalsEnd

=============================================================================
