------------------------------ MODULE ThreadRow ------------------------------
(***************************************************************************)
(* The row of one thread, as api/threads/routes.rs (rename), context.rs    *)
(* (reset_context) and the runs of send.rs write it through db/threads.rs: *)
(* its provider, the session of that provider, its title and its group.    *)
(* A step is one statement or transaction of the database.                 *)
(***************************************************************************)
EXTENDS Naturals

CONSTANTS
  Agent,       \* providers
  Send,        \* sends; each starts at most one run
  Editor,      \* requests that update the thread
  MaxResets,   \* bound on resets of the context
  MaxEdits     \* bound on updates

ASSUME ThreadRowConstants ==
  /\ "none" \notin Agent /\ "keep" \notin Agent
  /\ MaxResets \in Nat /\ MaxEdits \in Nat

VARIABLES
  thread,    \* the row
  sends,     \* sends[s]: the copy of the row a send works with, and its run
  edit,      \* edit[e]: an update in its handler
  resetter,  \* where a reset of the context is
  resets,    \* number of resets so far
  edits      \* number of updates so far

threadRowVars == <<thread, sends, edit, resetter, resets, edits>>

\* A session is known by who made it and by the number of resets before.
Session == [of : Agent \cup {"none"}, born : 0..MaxResets]
NoSession == [of |-> "none", born |-> 0]

\* What an update asks for; a group may be one that does not exist.
EditWish == [title : BOOLEAN, group : {"keep", "known", "unknown"}, provider : Agent \cup {"keep"}]

NoSend == [at |-> "idle", provider |-> "none", session |-> NoSession, fresh |-> FALSE,
           stopped |-> FALSE]
NoEdit(w) == [at |-> "idle", wish |-> w, wrote |-> FALSE]
NoEditWish == [title |-> FALSE, group |-> "keep", provider |-> "keep"]

ThreadRowTypeOK ==
  /\ thread \in [provider : Agent, session : Session, named : BOOLEAN,
                 title : {"new", "prompt", "agent", "user"}, group : BOOLEAN]
  /\ sends \in [Send -> [at : {"idle", "accepted", "begun", "titled", "working", "over"},
                         provider : Agent \cup {"none"}, session : Session,
                         fresh : BOOLEAN, stopped : BOOLEAN]]
  /\ edit \in [Editor -> [at : {"idle", "title", "group", "settings", "refused"},
                          wish : EditWish, wrote : BOOLEAN]]
  /\ resetter \in {"idle", "writes"}
  /\ resets \in 0..MaxResets /\ edits \in 0..MaxEdits
  /\ thread.title # "new" => thread.named

\* create: a title of the user's own counts as set.
ThreadRowInit ==
  /\ \E a \in Agent, own \in BOOLEAN :
       thread = [provider |-> a, session |-> NoSession, named |-> own,
                 title |-> IF own THEN "user" ELSE "new", group |-> FALSE]
  /\ sends = [s \in Send |-> NoSend]
  /\ edit = [e \in Editor |-> NoEdit(NoEditWish)]
  /\ resetter = "idle" /\ resets = 0 /\ edits = 0

-----------------------------------------------------------------------------
(* Sends and their runs *)

RunIsActive(s) == sends[s].at \in {"begun", "titled", "working"} /\ ~ sends[s].stopped

SendGoes(s, to) ==
  /\ sends' = [sends EXCEPT ![s].at = to]
  /\ UNCHANGED <<edit, resetter, resets, edits>>

\* send_stream reads the row once; its run works with that copy.
SendReads(s) ==
  /\ sends[s].at = "idle"
  /\ sends' = [sends EXCEPT ![s] = [at |-> "accepted", provider |-> thread.provider,
                                    session |-> thread.session, fresh |-> FALSE,
                                    stopped |-> FALSE]]
  /\ UNCHANGED <<thread, edit, resetter, resets, edits>>

\* The runner takes the run unless another one is Running.
SendStarts(s) ==
  /\ sends[s].at = "accepted"
  /\ SendGoes(s, IF \E o \in Send : RunIsActive(o) THEN "over" ELSE "begun")
  /\ UNCHANGED thread

\* Mutant of PromptNames: the first prompt names the thread whatever it is called.
PromptNamesAnyway(s) ==
  /\ sends[s].at = "begun"
  /\ SendGoes(s, "titled")
  /\ thread' = [thread EXCEPT !.title = "prompt", !.named = TRUE]

\* update_title_from_send
PromptNames(s) ==
  /\ sends[s].at = "begun"
  /\ SendGoes(s, "titled")
  /\ thread' = IF thread.named THEN thread
               ELSE [thread EXCEPT !.title = "prompt", !.named = TRUE]

\* The agent resumes the session it was given, or makes one.
AgentOpens(s) ==
  /\ sends[s].at = "titled"
  /\ \/ /\ sends[s].session # NoSession
        /\ sends' = [sends EXCEPT ![s].at = "working"]
     \/ sends' = [sends EXCEPT ![s].at = "working", ![s].fresh = TRUE,
                    ![s].session = [of |-> sends[s].provider, born |-> resets]]
  /\ UNCHANGED <<thread, edit, resetter, resets, edits>>

\* update_thread_session; a title of the agent counts if there is none yet.
StoreSession(s, titled) ==
  thread' = IF thread.provider # sends[s].provider THEN thread
            ELSE [thread EXCEPT
                    !.session = sends[s].session,
                    !.title = IF titled /\ ~ thread.named THEN "agent" ELSE @,
                    !.named = @ \/ titled]

\* The session callback of the provider.
SessionIsTold(s) ==
  /\ sends[s].at = "working" /\ sends[s].fresh
  /\ StoreSession(s, FALSE)
  /\ UNCHANGED <<sends, edit, resetter, resets, edits>>

RunIsStopped(s) ==
  /\ RunIsActive(s)
  /\ sends' = [sends EXCEPT ![s].stopped = TRUE]
  /\ UNCHANGED <<thread, edit, resetter, resets, edits>>

\* The end of a run, stopped or not, stores a session that is new; a run may
\* also fail, or be aborted.
RunEnds(s) ==
  /\ sends[s].at \in {"begun", "titled", "working"}
  /\ SendGoes(s, "over")
  /\ \/ UNCHANGED thread
     \/ sends[s].at = "working" /\ sends[s].fresh /\ \E titled \in BOOLEAN : StoreSession(s, titled)

-----------------------------------------------------------------------------
(* PATCH /api/threads/:id *)

\* The thread is read; a provider other than its own needs it to have no session.
EditBegins(e) ==
  /\ edit[e].at = "idle"
  /\ edits < MaxEdits
  /\ edits' = edits + 1
  /\ \E w \in EditWish :
       /\ w.provider \in {"keep", thread.provider} \/ thread.session = NoSession
       /\ edit' = [edit EXCEPT ![e] =
            [at |-> "title", wrote |-> FALSE,
             wish |-> [w EXCEPT !.provider = IF @ = thread.provider THEN "keep" ELSE @]]]
  /\ UNCHANGED <<thread, sends, resetter, resets>>

EditGoes(e, to, wrote) ==
  /\ edit' = [edit EXCEPT ![e] = IF to = "idle" THEN NoEdit(NoEditWish)
                                 ELSE [@ EXCEPT !.at = to, !.wrote = @ \/ wrote]]
  /\ UNCHANGED <<sends, resetter, resets, edits>>

\* rename_thread
EditsTitle(e) ==
  /\ edit[e].at = "title"
  /\ thread' = IF edit[e].wish.title THEN [thread EXCEPT !.title = "user", !.named = TRUE]
               ELSE thread
  /\ EditGoes(e, "group", edit[e].wish.title)

\* move_thread_to_group looks the group up.
EditsGroup(e) ==
  /\ edit[e].at = "group"
  /\ thread' = [thread EXCEPT !.group = @ \/ edit[e].wish.group = "known"]
  /\ IF edit[e].wish.group = "unknown" THEN EditGoes(e, "refused", FALSE)
     ELSE EditGoes(e, "settings", edit[e].wish.group = "known")

\* Mutant of EditsSettings: the look at the session of the handler is enough.
EditsSettingsUnguarded(e) ==
  /\ edit[e].at = "settings"
  /\ thread' = IF edit[e].wish.provider = "keep" THEN thread
               ELSE [thread EXCEPT !.provider = edit[e].wish.provider]
  /\ EditGoes(e, "idle", FALSE)

\* update_thread_settings: the provider changes only while there is no session.
EditsSettings(e) ==
  LET a == edit[e].wish.provider IN
  /\ edit[e].at = "settings"
  /\ \/ a = "keep" /\ UNCHANGED thread /\ EditGoes(e, "idle", FALSE)
     \/ /\ a # "keep" /\ thread.session = NoSession
        /\ thread' = [thread EXCEPT !.provider = a]
        /\ EditGoes(e, "idle", FALSE)
     \/ /\ a # "keep" /\ thread.session # NoSession
        /\ UNCHANGED thread
        /\ EditGoes(e, "refused", FALSE)

\* The answer to a refused update has gone out.
EditIsRefused(e) ==
  /\ edit[e].at = "refused"
  /\ EditGoes(e, "idle", FALSE)
  /\ UNCHANGED thread

-----------------------------------------------------------------------------
(* POST /api/threads/:id/context/reset *)

\* The run of the map must not be Running.
ResetLooks ==
  /\ resetter = "idle" /\ resets < MaxResets
  /\ \A s \in Send : ~ RunIsActive(s)
  /\ resetter' = "writes"
  /\ UNCHANGED <<thread, sends, edit, resets, edits>>

\* reset_thread_context
ResetWrites ==
  /\ resetter = "writes"
  /\ resetter' = "idle"
  /\ resets' = resets + 1
  /\ thread' = [thread EXCEPT !.session = NoSession]
  /\ UNCHANGED <<sends, edit, edits>>

ThreadRowNext ==
  \/ \E s \in Send :
       \/ SendReads(s) \/ SendStarts(s) \/ PromptNames(s) \/ AgentOpens(s)
       \/ SessionIsTold(s) \/ RunIsStopped(s) \/ RunEnds(s)
  \/ \E e \in Editor :
       EditBegins(e) \/ EditsTitle(e) \/ EditsGroup(e) \/ EditsSettings(e) \/ EditIsRefused(e)
  \/ ResetLooks \/ ResetWrites

ThreadRowSpec == ThreadRowInit /\ [][ThreadRowNext]_threadRowVars

-----------------------------------------------------------------------------

\* "A session id only means something to the provider that created it": no
\* order of sends, resets and changes of the provider stores one for another.
SessionFitsProvider ==
  thread.session # NoSession => thread.session.of = thread.provider

\* A title that is set is only replaced by the user's own.
TitleIsTheUsers ==
  [][thread.named => thread'.title \in {thread.title, "user"}]_threadRowVars

\* "The next send starts a fresh session". Not so when a run that was
\* stopped, and no longer counts as active, stores its session after the reset.
ResetStartsFresh ==
  [][\A s \in Send : sends[s].at = "idle" /\ sends'[s].at = "accepted" =>
       thread.session = NoSession \/ thread.session.born = resets]_threadRowVars

\* "Validate all inputs before touching the database." The group is looked up
\* after the title has been written.
RefusedEditWritesNothing == \A e \in Editor : edit[e].at = "refused" => ~ edit[e].wrote
=============================================================================
