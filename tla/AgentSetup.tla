----------------------------- MODULE AgentSetup -----------------------------
(***************************************************************************)
(* What a turn asks of its agent before the prompt: the model, the effort, *)
(* the mode of the composer and the permission mode. The ACP agents        *)
(* (providers/acp/session_config.rs, spec.rs, provider.rs) keep a session  *)
(* whose options are set one request after the other; Codex gets all with  *)
(* turn/start, after a look at its catalogue of models, which is cached    *)
(* (providers/codex/models.rs, provider.rs). Each turn has a process of    *)
(* its own; an older turn of the thread may still be draining.             *)
(***************************************************************************)
EXTENDS Naturals, Sequences, SequencesExt

CONSTANTS
  Kind,       \* agents, of "devin", "opencode", "grok", "gemini" and "codex"
  Turning,    \* turns of one thread that may be under way at a time
  MaxTurning  \* bound on turns

ASSUME SetupConstants ==
  /\ Kind \subseteq {"devin", "opencode", "grok", "gemini", "codex"}
  /\ MaxTurning \in Nat

VARIABLES
  kind,     \* the agent of the thread
  saved,    \* the options the agent has stored with the session
  setup,    \* setup[t]: the turn t
  offer,    \* the models that the Codex binary has
  catalog,  \* MODEL_CACHE: "none", "failed", or the models it had
  turnings, \* turns so far
  allowed   \* history: a turn was to bypass the questions, or its agent could do no less

setupVars == <<kind, saved, setup, offer, catalog, turnings, allowed>>

FirstWish == [model |-> "", effort |-> "", mode |-> "code", permission |-> "normal"]

\* The options of the thread's row when a send reads them.
TurnWish == [model : {"", "m2"}, effort : {"high"}, mode : {"code", "plan"},
         permission : {"normal", "bypass"}]
          \cup {FirstWish}

AutoRun == {"dangerous", "yolo", "never"}  \* modes in which nobody is asked

\* The options of a session: what the agent goes by itself is "own".
Options == [model : {"own", "m1", "m2"}, effort : {"own", "high"},
            mode : {"own", "code", "default", "build", "plan"},
            permission : {"own", "normal", "on-request", "default", "plan"} \cup AutoRun]

Steps == <<"opened", "model", "effort", "mode", "permission", "session_mode", "runs">>
After(step) == Steps[1 + CHOOSE i \in 1 .. Len(Steps) - 1 : Steps[i] = step]

OwnOptions == [model |-> "own", effort |-> "own", mode |-> "own", permission |-> "own"]

\* A turn; history: why it may not have the permission mode of its wish, "request"
\* when none was made or it was refused, "first" when the agent has no such mode.
Idle == [at |-> "none", wish |-> FirstWish, has |-> OwnOptions, lack |-> "none"]

Catalogs == {"none", "failed", "m1", "m1_and_m2"}
ModelsOf(c) == CASE c = "m1" -> {"m1"} [] c = "m1_and_m2" -> {"m1", "m2"} [] OTHER -> {}

SetupTypeOK ==
  /\ kind \in Kind /\ saved \in Options
  /\ setup \in [Turning -> [at : {"none"} \cup ToSet(Steps), wish : TurnWish, has : Options,
                            lack : {"none", "request", "first"}]]
  /\ offer \in Catalogs \ {"none"} /\ catalog \in Catalogs
  /\ turnings \in 0 .. MaxTurning /\ allowed \in BOOLEAN

SetupInit ==
  /\ kind \in Kind
  /\ saved = OwnOptions
  /\ setup = [t \in Turning |-> Idle]
  /\ offer = "m1_and_m2" /\ catalog = "none"
  /\ turnings = 0 /\ allowed = FALSE

-----------------------------------------------------------------------------
(* spec.rs *)

\* session_mode_id
SessionModeId(k, w) ==
  CASE k = "devin" -> IF w.mode = "plan" THEN "plan" ELSE "default"
    [] k = "gemini" -> IF w.mode = "plan" THEN "plan"
                       ELSE IF w.permission = "bypass" THEN "yolo" ELSE "default"
    [] OTHER -> "none"

\* interaction_mode_option, permission_mode_option
HasModeOption(k) == k \in {"devin", "opencode"}
HasPermissionOption(k) == k = "devin"

FirstAmong(choices, set) ==
  choices[CHOOSE i \in DOMAIN choices : choices[i] \in set /\ \A j \in 1 .. i - 1 : choices[j] \notin set]

\* interaction_mode_value; a choice that does not fit gives way to the first.
ModeValue(k, w, choices) ==
  IF w.mode \in ToSet(choices) THEN w.mode
  ELSE IF k = "devin" /\ w.mode = "code" /\ ToSet(choices) \cap {"default", "build"} # {}
  THEN FirstAmong(choices, {"default", "build"})
  ELSE IF k = "opencode" /\ "build" \in ToSet(choices) THEN "build"
  ELSE choices[1]

\* The permission mode: the one of the thread or the agent's name for it, if it
\* is among the agent's choices, and else their first, whatever it is.
PermissionName(w) == IF w.permission = "bypass" THEN "dangerous" ELSE "normal"
PermissionValue(w, choices) ==
  IF PermissionName(w) \in ToSet(choices) THEN PermissionName(w) ELSE choices[1]
PermissionChoices ==
  {<<"normal", "dangerous">>, <<"normal">>, <<"plan", "dangerous">>, <<"dangerous", "plan">>}

\* The model: the one of the thread, the default of the server (m1), the first.
ModelValue(w, choices) ==
  IF w.model \in ToSet(choices) THEN w.model
  ELSE IF "m1" \in ToSet(choices) THEN "m1" ELSE choices[1]

-----------------------------------------------------------------------------
(* A turn *)

\* The send has read the row; the process has loaded the session, or opened a
\* new one.
TurnOpens(t) ==
  /\ setup[t].at = "none"
  /\ turnings < MaxTurning /\ turnings' = turnings + 1
  /\ \E has \in {saved, OwnOptions}, wish \in TurnWish :
       /\ setup' = [setup EXCEPT ![t] = [Idle EXCEPT !.at = "opened", !.wish = wish, !.has = has]]
       /\ allowed' = (allowed \/ wish.permission = "bypass")
  /\ UNCHANGED <<kind, saved, offer, catalog>>

\* The agent sets an option and stores it with the session.
Sets(t, option, value) ==
  /\ setup' = [setup EXCEPT ![t].at = After(@), ![t].has[option] = value]
  /\ saved' = setup'[t].has /\ UNCHANGED allowed

Skips(t) == setup' = [setup EXCEPT ![t].at = After(@)] /\ UNCHANGED <<saved, allowed>>

\* A request of the turn; when the agent refuses, the turn goes on.
AsksFor(t, option, value) == Sets(t, option, value) \/ Skips(t)

\* The turn goes on with the permission mode that the session was left with.
Lacks(t, step) ==
  /\ setup' = [setup EXCEPT ![t].at = step, ![t].lack = "request"]
  /\ UNCHANGED <<saved, allowed>>

\* apply_session_config returns before it has come to the other options.
LeavesOff(t) == Lacks(t, "permission")

StepAt(t, step) ==
  /\ kind # "codex" /\ setup[t].at = step
  /\ UNCHANGED <<kind, offer, catalog, turnings>>

\* An option is not advertised, or with choices, maybe none.
SetsModel(t) ==
  /\ StepAt(t, "opened")
  /\ \/ Skips(t)
     \/ LeavesOff(t)
     \/ \E choices \in {<<"m1">>, <<"m2">>, <<"m2", "m1">>} :
          AsksFor(t, "model", ModelValue(setup[t].wish, choices))

\* The effort, and likewise the cap of output tokens: only what is offered.
SetsEffort(t) ==
  /\ StepAt(t, "model")
  /\ \/ Skips(t)
     \/ setup[t].wish.effort = "high" /\ AsksFor(t, "effort", "high")

SetsInteraction(t) ==
  /\ StepAt(t, "effort")
  /\ \/ Skips(t)
     \/ /\ HasModeOption(kind)
        /\ \/ LeavesOff(t)
           \/ \E choices \in {<<"build", "plan">>, <<"default", "plan">>, <<"code">>} :
                AsksFor(t, "mode", ModeValue(kind, setup[t].wish, choices))

\* Mutant of SetsPermission: a turn in the normal mode leaves the option alone.
SetsBypassOnly(t) ==
  /\ StepAt(t, "mode")
  /\ IF HasPermissionOption(kind) /\ setup[t].wish.permission = "bypass"
     THEN \E choices \in {<<"normal", "dangerous">>, <<"normal">>} :
            AsksFor(t, "permission", PermissionValue(setup[t].wish, choices))
     ELSE Skips(t)

\* Of an agent without the mode the first choice is taken, also one in which
\* nobody is asked.
TakesFirst(t, choices) ==
  /\ setup' = [setup EXCEPT ![t].at = After(@), ![t].has["permission"] = choices[1],
                            ![t].lack = "first"]
  /\ saved' = setup'[t].has
  /\ allowed' = (allowed \/ choices[1] \in AutoRun)

SetsPermission(t) ==
  /\ StepAt(t, "mode")
  /\ IF HasPermissionOption(kind)
     THEN \/ Lacks(t, After("mode"))
          \/ \E choices \in PermissionChoices :
               IF PermissionName(setup[t].wish) \in ToSet(choices)
               THEN Sets(t, "permission", PermissionValue(setup[t].wish, choices))
               ELSE TakesFirst(t, choices)
     ELSE Skips(t)

\* session/set_mode: for Devin the mode of the composer, for Gemini the
\* permission mode, if it is among the modes of the session.
SetsSessionMode(t) ==
  /\ StepAt(t, "permission")
  /\ LET id == SessionModeId(kind, setup[t].wish)
     IN CASE kind = "devin" -> AsksFor(t, "mode", id)
          [] kind = "gemini" -> Sets(t, "permission", id) \/ Lacks(t, After("permission"))
          [] OTHER -> Skips(t)

PromptIsSent(t) == StepAt(t, "session_mode") /\ Skips(t)

-----------------------------------------------------------------------------
(* Codex *)

\* The binary is upgraded, breaks, or is repaired.
OfferChanges ==
  /\ kind = "codex"
  /\ offer' \in {"failed", "m1", "m1_and_m2"} \ {offer}
  /\ UNCHANGED <<kind, saved, setup, catalog, turnings, allowed>>

\* The TTL of an entry is over.
CatalogExpires ==
  /\ catalog # "none" /\ catalog' = "none"
  /\ UNCHANGED <<kind, saved, setup, offer, turnings, allowed>>

\* known_models: from the cache, or from model/list. Of two turns that miss,
\* both fetch; the later insertion stays.
KnownModels == IF catalog = "none" THEN offer ELSE catalog

\* resolve_model; the default of the server is m1.
ResolveModel(w, known) ==
  LET requested == IF w.model = "" THEN "m1" ELSE w.model
  IN IF known = "failed" \/ requested \in ModelsOf(known) THEN requested ELSE "own"

\* resolve_reasoning: m1 has no high effort, m2 has.
ResolveReasoning(w, known, model) ==
  IF w.effort # "" /\ (known = "failed" \/ model \notin ModelsOf(known) \/ model = "m2")
  THEN w.effort ELSE "own"

\* thread_config
ThreadConfig(w) == IF w.permission = "bypass" THEN "never" ELSE "on-request"

AtCodex(t, step) ==
  /\ kind = "codex" /\ setup[t].at = step
  /\ UNCHANGED <<kind, offer, turnings, allowed>>

ResolvesModel(t) ==
  /\ AtCodex(t, "opened")
  /\ catalog' = KnownModels
  /\ setup' = [setup EXCEPT ![t].at = "model",
                            ![t].has.model = ResolveModel(setup[t].wish, KnownModels)]
  /\ UNCHANGED saved

ResolvesReasoning(t) ==
  /\ AtCodex(t, "model")
  /\ catalog' = KnownModels
  /\ setup' = [setup EXCEPT ![t].at = "session_mode",
                 ![t].has.effort = ResolveReasoning(setup[t].wish, KnownModels, setup[t].has.model)]
  /\ UNCHANGED saved

\* turn/start; what it does not name stays as the session has it.
TurnStarts(t) ==
  /\ AtCodex(t, "session_mode")
  /\ setup' = [setup EXCEPT ![t].at = "runs", ![t].has.permission = ThreadConfig(setup[t].wish)]
  /\ saved' = setup'[t].has
  /\ UNCHANGED catalog

\* The turn is over, or aborted at any step.
TurnIsOver(t) ==
  /\ setup[t].at # "none"
  /\ setup' = [setup EXCEPT ![t] = Idle]
  /\ UNCHANGED <<kind, saved, offer, catalog, turnings, allowed>>

SetupNext ==
  \/ OfferChanges \/ CatalogExpires
  \/ \E t \in Turning :
       \/ TurnOpens(t) \/ TurnIsOver(t)
       \/ SetsModel(t) \/ SetsEffort(t) \/ SetsInteraction(t) \/ SetsPermission(t)
       \/ SetsSessionMode(t) \/ PromptIsSent(t)
       \/ ResolvesModel(t) \/ ResolvesReasoning(t) \/ TurnStarts(t)

SetupSpec == SetupInit /\ [][SetupNext]_setupVars

-----------------------------------------------------------------------------
\* A turn runs in a mode in which nobody is asked only if the thread asked for
\* it when the turn was sent, whatever the session was left with by the turns
\* before it and by those that broke off between two requests, or if the agent
\* has no mode for what was asked and this is its first. A turn whose request
\* was refused or could not be made has at most what some turn was allowed.
AutoRunIsAsked ==
  \A t \in Turning :
    setup[t].at = "runs" /\ setup[t].has.permission \in AutoRun =>
      \/ setup[t].wish.permission = "bypass"
      \/ setup[t].lack = "first"
      \/ setup[t].lack = "request" /\ allowed

\* A thread that is not to bypass the questions is asked them: but the turn goes
\* on after a refused request, with the mode that an earlier turn was allowed,
\* and the first choice of an agent may be to ask nothing.
NormalTurnAsks ==
  \A t \in Turning :
    setup[t].at = "runs" /\ setup[t].has.permission \in AutoRun =>
      setup[t].wish.permission = "bypass"

=============================================================================
