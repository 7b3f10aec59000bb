------------------------------- MODULE AcpTurn -------------------------------
(***************************************************************************)
(* Turns of ACP agents in one working directory: run_prompt,               *)
(* attachment_blocks, ensure_writable_attachment_dir and StagedAttachments *)
(* of providers/acp/provider.rs, with the handlers of notifications and    *)
(* requests and their replaying flag. The agent and the protocol library,  *)
(* which hands on messages in the order of arrival, are external.          *)
(***************************************************************************)
EXTENDS Naturals, Sequences

CONSTANTS
  Turn,        \* turns, of different threads, in the same directory
  MaxUpdates   \* bound on what an agent says in a replay and in a turn

ASSUME AcpConstants == MaxUpdates \in Nat

VARIABLES
  acp,        \* acp[t]: where run_prompt is
  session,    \* session[t]: the stored session, and the one in use
  replaying,  \* replaying[t]: the flag
  agent,      \* agent[t]: the request the agent is at; it may be dead
  inbox,      \* inbox[t]: messages on the way, in order
  said,       \* said[t]: messages the agent has sent about its request
  shown,      \* shown[t]: what reached the parts or the user
  halt,       \* halt[t]: cancel_signal
  attachDir,  \* .devinorium-attachments is there, and what is in it
  staged      \* staged[t]: the directory of the turn: where, with its files or not

agentVars == <<agent, inbox, said>>
dirVars == <<attachDir, staged>>
acpVars == <<acp, session, replaying, agentVars, shown, halt, dirVars>>

Phase == {"connects", "loads", "opens", "stores", "configures"}
Staging == {"makes", "probes", "unprobes", "creates", "writes"}
TurnEnd == {"over", "refused"}
Origin == {"history", "turn"}
Message == [kind : {"update", "request"}, of : Origin] \cup [kind : {"ok", "error"}, of : {"reply"}]
Entry == [kind : {"probe", "dir"}, of : Turn]

AcpTypeOK ==
  /\ acp \in [Turn -> Phase \cup Staging \cup {"prompts", "asks", "drops", "sweeps"} \cup TurnEnd]
  /\ session \in [Turn -> [stored : {"none", "old", "new"}, live : {"none", "old", "new"}]]
  /\ replaying \in [Turn -> BOOLEAN] /\ halt \in [Turn -> BOOLEAN]
  /\ agent \in [Turn -> {"idle", "loads", "prompts", "dead"}]
  /\ inbox \in [Turn -> Seq(Message)] /\ said \in [Turn -> 0 .. MaxUpdates]
  /\ shown \in [Turn -> SUBSET (Origin \X {"update", "request"})]
  /\ attachDir.there \in BOOLEAN /\ attachDir.entries \subseteq Entry
  /\ staged \in [Turn -> [at : {"none", "inside", "fallback", "gone"}, files : BOOLEAN]]

AcpInit ==
  /\ acp = [t \in Turn |-> "connects"]
  /\ session \in [Turn -> [stored : {"none", "old"}, live : {"none"}]]
  /\ replaying = [t \in Turn |-> session[t].stored = "old"]
  /\ agent = [t \in Turn |-> "idle"] /\ inbox = [t \in Turn |-> <<>>] /\ said = [t \in Turn |-> 0]
  /\ shown = [t \in Turn |-> {}] /\ halt = [t \in Turn |-> FALSE]
  /\ attachDir = [there |-> FALSE, entries |-> {}]
  /\ staged = [t \in Turn |-> [at |-> "none", files |-> FALSE]]

GoesTo(t, where) == acp' = [acp EXCEPT ![t] = where]
SetsAgent(t, what) == agent' = [agent EXCEPT ![t] = what]
TurnOver(t) == acp[t] \in TurnEnd

\* Where a turn goes that ends, however: it drops what it has staged first.
Leaves(t) == GoesTo(t, IF staged[t].at \in {"inside", "fallback"} THEN "drops" ELSE "over")

(***************************************************************************)
(* The session                                                             *)
(***************************************************************************)

\* initialize: session/load needs a stored session and an agent that can.
AgentConnects(t) ==
  /\ acp[t] = "connects" /\ agent[t] # "dead"
  /\ \/ session[t].stored = "old" /\ GoesTo(t, "loads") /\ SetsAgent(t, "loads")
     \/ GoesTo(t, "opens") /\ UNCHANGED agent
  /\ UNCHANGED <<session, replaying, inbox, said, shown, halt, dirVars>>

SessionIsLoaded(t) ==
  /\ acp[t] = "loads" /\ inbox[t] # <<>> /\ Head(inbox[t]).of = "reply"
  /\ IF Head(inbox[t]).kind = "ok"
     THEN GoesTo(t, "stores") /\ session' = [session EXCEPT ![t].live = "old"]
     ELSE GoesTo(t, "opens") /\ UNCHANGED session
  /\ inbox' = [inbox EXCEPT ![t] = Tail(@)]
  /\ said' = [said EXCEPT ![t] = 0]
  /\ UNCHANGED <<replaying, agent, shown, halt, dirVars>>

SessionIsOpened(t) ==
  /\ acp[t] = "opens" /\ agent[t] # "dead"
  /\ GoesTo(t, "stores")
  /\ session' = [session EXCEPT ![t].live = "new"]
  /\ UNCHANGED <<replaying, agentVars, shown, halt, dirVars>>

\* session_callback, when the id differs from the stored one.
SessionIsStored(t) ==
  /\ acp[t] = "stores"
  /\ session' = [session EXCEPT ![t].stored = session[t].live]
  /\ GoesTo(t, "configures")
  /\ UNCHANGED <<replaying, agentVars, shown, halt, dirVars>>

\* apply_session_config may fail the turn, session/set_mode may not. A turn
\* without attachments stages nothing.
SessionIsConfigured(t) ==
  /\ acp[t] = "configures" /\ agent[t] # "dead"
  /\ \E next \in {"makes", "prompts", "over"} :
       /\ GoesTo(t, next)
       /\ IF next = "prompts"
          THEN replaying' = [replaying EXCEPT ![t] = FALSE] /\ SetsAgent(t, "prompts")
          ELSE UNCHANGED <<replaying, agent>>
  /\ UNCHANGED <<session, inbox, said, shown, halt, dirVars>>

(***************************************************************************)
(* Attachments                                                             *)
(***************************************************************************)

Adds(kind, t) == attachDir' = [attachDir EXCEPT !.entries = @ \cup {[kind |-> kind, of |-> t]}]
Removes(kind, t) == attachDir' = [attachDir EXCEPT !.entries = @ \ {[kind |-> kind, of |-> t]}]

MakeAttachDir(t) ==
  /\ acp[t] = "makes"
  /\ attachDir' = [attachDir EXCEPT !.there = TRUE]
  /\ GoesTo(t, "probes")
  /\ UNCHANGED <<session, replaying, agentVars, shown, halt, staged>>

\* Where the probe cannot be written the turn stages under the temporary
\* directory of the system.
WriteProbe(t) ==
  /\ acp[t] = "probes"
  /\ IF attachDir.there
     THEN Adds("probe", t) /\ GoesTo(t, "unprobes") /\ UNCHANGED staged
     ELSE /\ staged' = [staged EXCEPT ![t].at = "fallback"] /\ GoesTo(t, "writes")
          /\ UNCHANGED attachDir
  /\ UNCHANGED <<session, replaying, agentVars, shown, halt>>

RemoveProbe(t) ==
  /\ acp[t] = "unprobes"
  /\ Removes("probe", t)
  /\ GoesTo(t, "creates")
  /\ UNCHANGED <<session, replaying, agentVars, shown, halt, staged>>

\* create_dir does not create the parent: without it the turn is over.
CreateTurnDir(t) ==
  /\ acp[t] = "creates"
  /\ IF attachDir.there
     THEN /\ Adds("dir", t) /\ staged' = [staged EXCEPT ![t].at = "inside"]
          /\ GoesTo(t, "writes")
     ELSE GoesTo(t, "refused") /\ UNCHANGED dirVars
  /\ UNCHANGED <<session, replaying, agentVars, shown, halt>>

\* The files are written, the flag is cleared and the prompt is sent.
WriteAttachments(t) ==
  /\ acp[t] = "writes"
  /\ staged' = [staged EXCEPT ![t].files = TRUE]
  /\ GoesTo(t, "prompts")
  /\ replaying' = [replaying EXCEPT ![t] = FALSE]
  /\ agent' = IF agent[t] = "dead" THEN agent ELSE [agent EXCEPT ![t] = "prompts"]
  /\ UNCHANGED <<session, inbox, said, shown, halt, attachDir>>

\* Drop of StagedAttachments: the turn's directory, then the parent if it is
\* empty.
DropStaged(t) ==
  /\ acp[t] = "drops"
  /\ IF staged[t].at = "inside" THEN Removes("dir", t) ELSE UNCHANGED attachDir
  /\ staged' = [staged EXCEPT ![t] = [at |-> "gone", files |-> FALSE]]
  /\ GoesTo(t, IF staged[t].at = "inside" THEN "sweeps" ELSE "over")
  /\ UNCHANGED <<session, replaying, agentVars, shown, halt>>

SweepAttachDir(t) ==
  /\ acp[t] = "sweeps"
  /\ attachDir' = [attachDir EXCEPT !.there = @ /\ attachDir.entries # {}]
  /\ GoesTo(t, "over")
  /\ UNCHANGED <<session, replaying, agentVars, shown, halt, staged>>

(***************************************************************************)
(* The turn                                                                *)
(***************************************************************************)

\* on_receive_notification and on_receive_request: what comes while the flag
\* is up is dropped or answered with a cancellation.
\* Mutant of HandleMessage: nothing is left out.
HandleEverything(t) ==
  /\ ~TurnOver(t) /\ acp[t] \notin {"asks", "drops", "sweeps"}
  /\ inbox[t] # <<>> /\ Head(inbox[t]).of # "reply"
  /\ LET m == Head(inbox[t])
     IN /\ shown' = [shown EXCEPT ![t] = @ \cup {<<m.of, m.kind>>}]
        /\ IF m.kind = "request" /\ acp[t] = "prompts" THEN GoesTo(t, "asks") ELSE UNCHANGED acp
  /\ inbox' = [inbox EXCEPT ![t] = Tail(@)]
  /\ UNCHANGED <<session, replaying, agent, said, halt, dirVars>>

HandleMessage(t) ==
  /\ ~TurnOver(t) /\ acp[t] \notin {"asks", "drops", "sweeps"}
  /\ inbox[t] # <<>> /\ Head(inbox[t]).of # "reply"
  /\ LET m == Head(inbox[t])
     IN IF replaying[t]
        THEN UNCHANGED <<shown, acp>>
        ELSE /\ shown' = [shown EXCEPT ![t] = @ \cup {<<m.of, m.kind>>}]
             /\ IF m.kind = "request" THEN GoesTo(t, "asks") ELSE UNCHANGED acp
  /\ inbox' = [inbox EXCEPT ![t] = Tail(@)]
  /\ UNCHANGED <<session, replaying, agent, said, halt, dirVars>>

\* The user answers, or the prompt times out.
AskIsAnswered(t) ==
  /\ acp[t] = "asks"
  /\ GoesTo(t, "prompts")
  /\ UNCHANGED <<session, replaying, agentVars, shown, halt, dirVars>>

\* The answer of session/prompt, or its error.
PromptIsAnswered(t) ==
  /\ acp[t] = "prompts" /\ inbox[t] # <<>> /\ Head(inbox[t]).of = "reply"
  /\ inbox' = [inbox EXCEPT ![t] = Tail(@)]
  /\ Leaves(t)
  /\ UNCHANGED <<session, replaying, agent, said, shown, halt, dirVars>>

\* cancel_wait wins the select: what has been shown so far is the reply.
PromptIsCancelled(t) ==
  /\ acp[t] \in {"prompts", "asks"} /\ halt[t]
  /\ Leaves(t)
  /\ UNCHANGED <<session, replaying, agentVars, shown, halt, dirVars>>

RequestFails(t) ==
  /\ acp[t] \in Phase \cup {"prompts"} /\ agent[t] = "dead" /\ inbox[t] = <<>>
  /\ Leaves(t)
  /\ UNCHANGED <<session, replaying, agentVars, shown, halt, dirVars>>

TurnIsHalted(t) ==
  /\ ~TurnOver(t) /\ ~halt[t]
  /\ halt' = [halt EXCEPT ![t] = TRUE]
  /\ UNCHANGED <<acp, session, replaying, agentVars, shown, dirVars>>

\* The hard abort drops the future where it waits. What the blocking pool has
\* begun is done all the same: a probe or a directory that has no guard yet
\* stays behind.
TurnIsAborted(t) ==
  /\ halt[t] /\ ~TurnOver(t) /\ acp[t] \notin {"drops", "sweeps"}
  /\ Leaves(t)
  /\ \/ UNCHANGED attachDir
     \/ attachDir.there /\ acp[t] = "probes" /\ Adds("probe", t)
     \/ attachDir.there /\ acp[t] = "creates" /\ Adds("dir", t)
     \/ acp[t] = "unprobes" /\ Removes("probe", t)
  /\ UNCHANGED <<session, replaying, agentVars, shown, halt, staged>>

(***************************************************************************)
(* The agent                                                               *)
(***************************************************************************)

AgentSays(t, kind) ==
  /\ agent[t] \in {"loads", "prompts"} /\ said[t] < MaxUpdates
  /\ said' = [said EXCEPT ![t] = @ + 1]
  /\ inbox' = [inbox EXCEPT ![t] =
       Append(@, [kind |-> kind, of |-> IF agent[t] = "loads" THEN "history" ELSE "turn"])]
  /\ UNCHANGED <<acp, session, replaying, agent, shown, halt, dirVars>>

AgentAnswers(t, kind) ==
  /\ agent[t] \in {"loads", "prompts"}
  /\ inbox' = [inbox EXCEPT ![t] = Append(@, [kind |-> kind, of |-> "reply"])]
  /\ SetsAgent(t, "idle")
  /\ UNCHANGED <<acp, session, replaying, said, shown, halt, dirVars>>

AgentDies(t) ==
  /\ agent[t] # "dead" /\ ~TurnOver(t)
  /\ SetsAgent(t, "dead")
  /\ UNCHANGED <<acp, session, replaying, inbox, said, shown, halt, dirVars>>

(***************************************************************************)
(* Specification                                                           *)
(***************************************************************************)

AcpStep(t) ==
  \/ AgentConnects(t) \/ SessionIsLoaded(t) \/ SessionIsOpened(t) \/ SessionIsStored(t)
  \/ SessionIsConfigured(t)
  \/ MakeAttachDir(t) \/ WriteProbe(t) \/ RemoveProbe(t) \/ CreateTurnDir(t) \/ WriteAttachments(t)
  \/ DropStaged(t) \/ SweepAttachDir(t)
  \/ HandleMessage(t) \/ AskIsAnswered(t) \/ PromptIsAnswered(t) \/ PromptIsCancelled(t)
  \/ RequestFails(t) \/ TurnIsHalted(t) \/ TurnIsAborted(t)

AcpNext ==
  \E t \in Turn :
    \/ AcpStep(t) \/ AgentDies(t)
    \/ \E kind \in {"update", "request"} : AgentSays(t, kind)
    \/ \E kind \in {"ok", "error"} : AgentAnswers(t, kind)

AcpSpec == AcpInit /\ [][AcpNext]_acpVars

(***************************************************************************)
(* Properties                                                              *)
(***************************************************************************)

\* The history an agent replays when it loads a session, its requests with it,
\* reaches neither the reply nor the user, also when the load then fails and
\* the turn goes on with a new session.
HistoryStaysHistory == \A t \in Turn : \A s \in shown[t] : s[1] = "turn"

\* While the agent works on the prompt the files it was pointed to are there,
\* whatever turns beside it in the same directory clean up.
StagedFilesStay ==
  \A t \in Turn :
    (acp[t] \in {"prompts", "asks"} /\ staged[t].at # "none")
      => staged[t].files /\ (staged[t].at = "inside" => [kind |-> "dir", of |-> t] \in attachDir.entries)

\* Each turn has "a fresh subdirectory ... without touching files a concurrent
\* send in the same worktree staged" (providers/acp/provider.rs:629): cleaning
\* up one turn does not fail another.
TurnsStageApart == \A t \in Turn : acp[t] # "refused"

=============================================================================
