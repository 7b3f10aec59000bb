------------------------------ MODULE FileEdits ------------------------------
(***************************************************************************)
(* One file in the editor: the tabs of the Flutter client (openEditorFile, *)
(* saveEditorTab, reloadEditorTab, openAgentEditedFile of                  *)
(* state/app_state/editor_store.dart) over read_file, write_file, upload   *)
(* and delete of api/files.rs with their lock per path, or over the same   *)
(* handlers of satellite/files.rs, which take no lock. Contents are named  *)
(* by the write that put them on disk: 0 is what was there before.         *)
(***************************************************************************)
EXTENDS Naturals, FiniteSets

CONSTANTS
  Client,     \* windows of the editor
  Other,      \* a window of which only the saves are modelled
  Call,       \* requests in flight, of any window
  Locks,      \* TRUE: the server of api/files.rs; FALSE: a satellite
  MaxWrites,  \* bound on the writes to the file
  MaxOpens,   \* bound on the tabs a window opens on it
  MaxCalls    \* bound on the requests

ASSUME FileConstants ==
  /\ Locks \in BOOLEAN /\ MaxWrites \in Nat /\ MaxOpens \in Nat /\ MaxCalls \in Nat
  /\ Other \notin Client /\ "free" \notin Call

VARIABLES
  disk,      \* what the file holds, or Absent
  writes,    \* writes so far
  late,      \* writes of dropped handlers that the blocking pool still has to do
  lockedBy,  \* the call that holds file_write_lock of the path
  call,      \* call[k]: a request with its answer
  tab,       \* tab[c]: EditorTab of the path
  reload,    \* reload[c]: the path is in _pendingAgentReloads
  unread,    \* unread[c]: writes of the agent whose report has not arrived
  owed,      \* owed[c]: the last one that has, while the user has not typed in the tab
  opens,     \* opens[c]: tabs opened
  calls,     \* requests sent
  saved      \* history: the saves answered with success, as [expected, wrote]

fileVars == <<disk, writes, late, lockedBy, call, tab, reload, unread, owed, opens, calls, saved>>

Value == 0 .. MaxWrites
Absent == MaxWrites + 1    \* no file
Nothing == MaxWrites + 2   \* no content yet
Typed == MaxWrites + 3     \* a text that no content equals
Error == MaxWrites + 4     \* an answer without a content
Free == "free"
NoTab == [open |-> FALSE, content |-> Nothing, text |-> Nothing, dirty |-> FALSE,
          loading |-> FALSE, saving |-> FALSE, failed |-> FALSE]
Spare == [kind |-> "none", at |-> "none", by |-> Other, first |-> FALSE,
          expected |-> 0, wrote |-> 0, got |-> Nothing, same |-> TRUE]

FileTypeOK ==
  /\ disk \in Value \cup {Absent} /\ writes \in Value /\ late \in 0 .. MaxCalls
  /\ lockedBy \in Call \cup {Free}
  /\ call \in [Call -> [kind : {"none", "read", "save"}, by : Client \cup {Other}, first : BOOLEAN, same : BOOLEAN,
        at : {"none", "sent", "checks", "writes", "rereads", "answered"},
        expected : Value, wrote : Value, got : Value \cup {Nothing, Error}]]
  /\ tab \in [Client -> [open : BOOLEAN, content : Value \cup {Nothing},
        text : Value \cup {Nothing, Typed}, dirty : BOOLEAN, loading : BOOLEAN,
        saving : BOOLEAN, failed : BOOLEAN]]
  /\ reload \in [Client -> BOOLEAN]
  /\ unread \in [Client -> SUBSET Value]
  /\ owed \in [Client -> Value]
  /\ opens \in [Client -> 0 .. MaxOpens] /\ calls \in 0 .. MaxCalls
  /\ saved \subseteq [expected : Value, wrote : Value]

FileInit ==
  /\ disk = 0 /\ writes = 0 /\ late = 0 /\ lockedBy = Free
  /\ call = [k \in Call |-> Spare]
  /\ tab = [c \in Client |-> NoTab] /\ reload = [c \in Client |-> FALSE]
  /\ unread = [c \in Client |-> {}] 
  /\ owed = [c \in Client |-> 0]
  /\ opens = [c \in Client |-> 0] /\ calls = 0 /\ saved = {}

serverVars == <<disk, writes, late, lockedBy, saved>>
reportVars == <<unread, owed>>

(***************************************************************************)
(* The editor store. Each handler runs to its first await.                 *)
(***************************************************************************)

Sends(c, kind, first) ==
  /\ calls < MaxCalls /\ \E k \in Call : call[k] = Spare
  /\ calls' = calls + 1
  /\ call' = [call EXCEPT ![CHOOSE k \in Call : call[k] = Spare] = [Spare EXCEPT !.kind = kind, !.by = c, !.at = "sent", !.first = first,
                  !.expected = IF kind = "save" THEN tab[c].content ELSE 0]]

\* _openEditorFileImpl: a new tab, whose content is read.
Opens(c) ==
  /\ ~tab[c].open /\ opens[c] < MaxOpens
  /\ opens' = [opens EXCEPT ![c] = @ + 1]
  /\ tab' = [tab EXCEPT ![c] = [NoTab EXCEPT !.open = TRUE, !.loading = TRUE]]
  /\ Sends(c, "read", TRUE)

OpenTab(c) ==
  /\ Opens(c)
  /\ UNCHANGED <<serverVars, reportVars, reload>>

\* A click closes a clean preview tab also while it loads; a deletion in the
\* files panel closes any.
CloseTab(c) ==
  /\ tab[c].open
  /\ tab' = [tab EXCEPT ![c] = NoTab]
  /\ reload' = [reload EXCEPT ![c] = FALSE]
  /\ UNCHANGED <<serverVars, reportVars, call, opens, calls>>

TypeText(c) ==
  /\ tab[c].open /\ tab[c].content # Nothing
  /\ tab' = [tab EXCEPT ![c].text = Typed, ![c].dirty = TRUE]
  /\ call' = [k \in Call |-> IF call[k].by = c THEN [call[k] EXCEPT !.same = (call[k] = Spare)] ELSE call[k]]
  /\ owed' = [owed EXCEPT ![c] = 0]
  /\ UNCHANGED <<serverVars, unread, reload, opens, calls>>

\* The text goes back to the content: Discard, or undone by hand.
DiscardText(c) ==
  /\ tab[c].open /\ tab[c].dirty /\ tab[c].content # Nothing
  /\ tab' = [tab EXCEPT ![c].text = tab[c].content, ![c].dirty = FALSE]
  /\ call' = [k \in Call |-> IF call[k].by = c THEN [call[k] EXCEPT !.same = (call[k] = Spare)] ELSE call[k]]
  /\ owed' = [owed EXCEPT ![c] = 0]
  /\ UNCHANGED <<serverVars, unread, reload, opens, calls>>

Idle(c) == ~tab[c].loading /\ ~tab[c].saving

SaveTab(c) ==
  /\ tab[c].open /\ tab[c].dirty /\ tab[c].content # Nothing /\ Idle(c)
  /\ tab' = [tab EXCEPT ![c].saving = TRUE]
  /\ Sends(c, "save", FALSE)
  /\ UNCHANGED <<serverVars, reportVars, reload, opens>>

\* Another window saves what it typed over some content it was shown.
OtherSaves(value) ==
  /\ value <= writes
  /\ calls < MaxCalls /\ \E k \in Call : call[k] = Spare
  /\ calls' = calls + 1
  /\ call' = [call EXCEPT ![CHOOSE k \in Call : call[k] = Spare] =
                [Spare EXCEPT !.kind = "save", !.at = "sent", !.expected = value]]
  /\ UNCHANGED <<serverVars, reportVars, tab, reload, opens>>

Reloads(c) ==
  /\ tab' = [tab EXCEPT ![c].loading = TRUE]
  /\ Sends(c, "read", FALSE)
  /\ UNCHANGED opens

ReloadTab(c) ==
  /\ tab[c].open /\ Idle(c)
  /\ Reloads(c)
  /\ UNCHANGED <<serverVars, reportVars, reload>>

ShowsAgentEdit(c) ==
  CASE ~tab[c].open -> Opens(c) /\ UNCHANGED reload
    [] tab[c].open /\ tab[c].dirty -> UNCHANGED <<tab, call, opens, calls, reload>>
    [] tab[c].open /\ ~tab[c].dirty /\ ~Idle(c) ->
         reload' = [reload EXCEPT ![c] = TRUE] /\ UNCHANGED <<tab, call, opens, calls>>
    [] OTHER -> Reloads(c) /\ UNCHANGED reload

ReportArrives(c) ==
  /\ \E next \in unread[c] :
       /\ \A v \in unread[c] : next <= v
       /\ unread' = [unread EXCEPT ![c] = @ \ {next}]
       /\ owed' = [owed EXCEPT ![c] = IF tab[c].dirty THEN 0 ELSE next]
  /\ ShowsAgentEdit(c)
  /\ UNCHANGED serverVars

\* What a settled request makes of a tab that is still open, or open again.
Loaded(t, k) ==
  LET got == call[k].got
      text == IF t.dirty /\ ~call[k].first THEN t.text ELSE got
  IN IF got = Error
     THEN [t EXCEPT !.loading = FALSE, !.failed = TRUE]
     ELSE [t EXCEPT !.content = got, !.text = text, !.dirty = (text # got), !.loading = FALSE,
                    !.failed = FALSE]

Written(t, k) ==
  LET got == call[k].got
      text == IF t.text = Typed /\ call[k].same /\ got = call[k].wrote THEN got ELSE t.text
  IN [t EXCEPT !.content = got, !.text = text, !.dirty = (text # got), !.saving = FALSE,
               !.failed = FALSE]

Refused(t, k) ==
  [t EXCEPT !.saving = FALSE, !.failed = TRUE, !.content = IF call[k].got = Error THEN @ ELSE call[k].got]

Settled(t, k) ==
  CASE ~t.open -> t
    [] t.open /\ call[k].kind = "read" -> Loaded(t, k)
    [] t.open /\ call[k].kind = "save" /\ call[k].wrote > 0 /\ call[k].got # Error -> Written(t, k)
    [] OTHER -> Refused(t, k)

OtherIsAnswered(k) ==
  /\ call[k].by = Other /\ call[k].at = "answered"
  /\ call' = [call EXCEPT ![k] = Spare]
  /\ UNCHANGED <<serverVars, reportVars, tab, reload, opens, calls>>

\* The answer is applied and the reload that was put off is taken up, in one
\* turn of the event loop. Its request takes over the slot of the answered one.
AnswerArrives(k) ==
  LET c == call[k].by
      t == Settled(tab[c], k)
      due == reload[c] /\ ~t.dirty
      idle == ~t.loading /\ ~t.saving
  IN /\ call[k].by \in Client /\ call[k].at = "answered"
     /\ reload' = [reload EXCEPT ![c] = due /\ ~idle]
     /\ IF due /\ idle
        THEN /\ tab' = [tab EXCEPT ![c] = [t EXCEPT !.loading = TRUE]]
             /\ call' = [call EXCEPT ![k] = [Spare EXCEPT !.kind = "read", !.by = c, !.at = "sent"]]
        ELSE tab' = [tab EXCEPT ![c] = t] /\ call' = [call EXCEPT ![k] = Spare]
     /\ UNCHANGED <<serverVars, reportVars, opens, calls>>

(***************************************************************************)
(* The server                                                              *)
(***************************************************************************)

Advances(k, to) == call' = [call EXCEPT ![k].at = to]
Answers(k, got) == call' = [call EXCEPT ![k].at = "answered", ![k].got = got]
Unlock(k) == lockedBy' = IF lockedBy = k THEN Free ELSE lockedBy

ReadFile(k) ==
  /\ call[k].kind = "read" /\ call[k].at = "sent"
  /\ Answers(k, IF disk = Absent THEN Error ELSE disk)
  /\ UNCHANGED <<serverVars, reportVars, tab, reload, opens, calls>>

\* Mutant of TakeLock: every path has the lock of its own request.
TakeNoLock(k) ==
  /\ call[k].kind = "save" /\ call[k].at = "sent"
  /\ Advances(k, "checks")
  /\ UNCHANGED <<disk, writes, late, lockedBy, saved, reportVars, tab, reload, opens, calls>>

TakeLock(k) ==
  /\ call[k].kind = "save" /\ call[k].at = "sent"
  /\ Locks => lockedBy = Free
  /\ lockedBy' = IF Locks THEN k ELSE lockedBy
  /\ Advances(k, "checks")
  /\ UNCHANGED <<disk, writes, late, saved, reportVars, tab, reload, opens, calls>>

\* A file that is gone or that differs from what the client expected is a
\* conflict; only the second carries the content.
CheckExpected(k) ==
  /\ call[k].at = "checks"
  /\ IF disk = call[k].expected
     THEN Advances(k, "writes") /\ UNCHANGED lockedBy
     ELSE Answers(k, IF disk = Absent THEN Error ELSE disk) /\ Unlock(k)
  /\ UNCHANGED <<disk, writes, late, saved, reportVars, tab, reload, opens, calls>>

Puts == writes < MaxWrites /\ writes' = writes + 1 /\ disk' = writes + 1

WriteContent(k) ==
  /\ call[k].at = "writes"
  /\ Puts
  /\ call' = [call EXCEPT ![k].at = "rereads", ![k].wrote = writes + 1]
  /\ UNCHANGED <<late, lockedBy, saved, reportVars, tab, reload, opens, calls>>

\* The answer tells what is on disk by then.
RereadContent(k) ==
  /\ call[k].at = "rereads"
  /\ Answers(k, IF disk = Absent THEN Error ELSE disk)
  /\ Unlock(k)
  /\ saved' = IF disk = Absent THEN saved
              ELSE saved \cup {[expected |-> call[k].expected, wrote |-> call[k].wrote]}
  /\ UNCHANGED <<disk, writes, late, reportVars, tab, reload, opens, calls>>

\* The connection is gone: the client sees an error and the handler is dropped
\* with its lock. A write that the blocking pool has taken goes on, maybe later.
CallIsDropped(k) ==
  /\ call[k].at \in {"sent", "checks", "writes", "rereads"}
  /\ Unlock(k)
  /\ Answers(k, Error)
  /\ late' \in {late} \cup (IF call[k].at = "writes" THEN {late + 1} ELSE {})
  /\ UNCHANGED <<disk, writes, saved, reportVars, tab, reload, opens, calls>>

LateWrite ==
  /\ late > 0
  /\ late' = late - 1
  /\ Puts
  /\ UNCHANGED <<lockedBy, saved, reportVars, call, tab, reload, opens, calls>>

(***************************************************************************)
(* Other writers of the file, none of which takes the lock                 *)
(***************************************************************************)

AgentWrites ==
  /\ Puts
  /\ unread' = [c \in Client |-> unread[c] \cup {writes + 1}]
  /\ UNCHANGED <<late, lockedBy, saved, owed, call, tab, reload, opens, calls>>

UploadWrites ==
  /\ Puts
  /\ UNCHANGED <<late, lockedBy, saved, reportVars, call, tab, reload, opens, calls>>

DeleteFile ==
  /\ disk # Absent
  /\ disk' = Absent
  /\ UNCHANGED <<writes, late, lockedBy, saved, reportVars, call, tab, reload, opens, calls>>

(***************************************************************************)
(* Specification                                                           *)
(***************************************************************************)

FileNext ==
  \/ \E c \in Client :
       \/ OpenTab(c) \/ CloseTab(c) \/ TypeText(c) \/ DiscardText(c)
       \/ SaveTab(c) \/ ReloadTab(c) \/ ReportArrives(c)
  \/ \E k \in Call :
       \/ AnswerArrives(k) \/ OtherIsAnswered(k) \/ ReadFile(k) \/ TakeLock(k) \/ CheckExpected(k)
       \/ WriteContent(k) \/ RereadContent(k) \/ CallIsDropped(k)
  \/ \E value \in Value : OtherSaves(value)
  \/ LateWrite \/ AgentWrites \/ UploadWrites \/ DeleteFile

FileSpec == FileInit /\ [][FileNext]_fileVars

(***************************************************************************)
(* Properties                                                              *)
(***************************************************************************)

\* No update is lost among saves: of two that were told of success no two
\* replaced the same content, however requests interleave with the agent, an
\* upload, a deletion or a connection that breaks.
NoUpdateIsLost == \A s, t \in saved : s.expected = t.expected => s = t

Unasked(c) == \A k \in Call : call[k] # Spare => call[k].by # c

Shows(c, value) ==
  (tab[c].open /\ ~tab[c].dirty /\ ~tab[c].failed /\ tab[c].content # Nothing /\ Unasked(c))
    => tab[c].content >= value

\* A tab the user has not typed in since the agent's edit was reported ends up
\* with that edit or a later content, whatever was in flight at the report -
\* in a window that has not closed a tab on the file before.
FirstTabIsCurrent == \A c \in Client : opens[c] <= 1 => Shows(c, owed[c])

(***************************************************************************)
(* A statement of the source that the code does not keep                   *)
(***************************************************************************)

\* "Refresh clean tabs so they show what the agent just wrote instead of the
\* pre-edit contents. A busy tab queues the refresh for when its in-flight read
\* or write settles." (state/app_state/editor_store.dart:207) The answer of a
\* read outlives the tab it was sent for: a tab that is closed while it loads
\* and opened again takes the older of two answers. With MaxOpens = 2 this
\* fails in nine states.
UntouchedTabIsCurrent == \A c \in Client : Shows(c, owed[c])

=============================================================================
