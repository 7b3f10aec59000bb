---------------------------- MODULE ThreadReaders ----------------------------
(***************************************************************************)
(* Who looks at a thread: get_one and mark_viewed of api/threads/routes.rs *)
(* with the watermark of what has been viewed. Meanwhile messages are      *)
(* added, and deleted by rollbacks and edits. A step is one statement of   *)
(* db/threads.rs and db/messages.rs.                                       *)
(***************************************************************************)
EXTENDS Integers, FiniteSetsExt

CONSTANTS
  Viewer,       \* requests for the detail of the thread
  MaxMessages,  \* bound on messages
  MaxViews      \* bound on looks at the thread

ASSUME ReaderConstants == MaxMessages \in Nat /\ MaxViews \in Nat

VARIABLES
  outputs,   \* ids of the rows of assistants and errors
  prompts,   \* ids of the other rows
  lastMsg,   \* the highest id that was ever given out
  viewed,    \* viewed_message_id
  seen,      \* rows that were there when the thread was marked as viewed
  viewer,    \* viewer[v]: a request in its handler
  looks      \* number of looks

readerVars == <<outputs, prompts, lastMsg, viewed, seen, viewer, looks>>

MsgId == 1..MaxMessages
NoViewer == [at |-> "idle", marked |-> {}, unread |-> FALSE, shown |-> {}]

ReaderTypeOK ==
  /\ outputs \subseteq 1..lastMsg /\ prompts \subseteq (1..lastMsg) \ outputs
  /\ lastMsg \in 0..MaxMessages /\ viewed \in 0..lastMsg
  /\ seen \subseteq MsgId
  /\ viewer \in [Viewer -> [at : {"idle", "read", "list", "answer"}, marked : SUBSET MsgId,
                            unread : BOOLEAN, shown : SUBSET MsgId]]
  /\ looks \in 0..MaxViews

ReaderInit ==
  /\ outputs = {} /\ prompts = {} /\ lastMsg = 0 /\ viewed = 0 /\ seen = {}
  /\ viewer = [v \in Viewer |-> NoViewer]
  /\ looks = 0

MsgRows == outputs \cup prompts
Unread == \E m \in outputs : m > viewed

-----------------------------------------------------------------------------
(* Messages *)

\* AUTOINCREMENT
NextMsgId == lastMsg + 1

MessageComes ==
  /\ lastMsg < MaxMessages
  /\ lastMsg' = Max({lastMsg, NextMsgId})
  /\ \/ outputs' = outputs \cup {NextMsgId} /\ UNCHANGED prompts
     \/ prompts' = prompts \cup {NextMsgId} /\ UNCHANGED outputs
  /\ UNCHANGED <<viewed, seen, viewer, looks>>

\* An edit deletes a message and all after it, a rollback the last one.
MessagesGo ==
  /\ \E m \in MsgRows :
       /\ outputs' = outputs \ (m..lastMsg)
       /\ prompts' = prompts \ (m..lastMsg)
       /\ seen' = seen \ (m..lastMsg)
  /\ UNCHANGED <<lastMsg, viewed, viewer, looks>>

-----------------------------------------------------------------------------
(* Viewing *)

\* mark_thread_viewed
MarksViewed ==
  /\ viewed' = Max(MsgRows \cup {0})
  /\ seen' = MsgRows

\* mark_viewed
IsMarkedViewed ==
  /\ looks < MaxViews
  /\ looks' = looks + 1
  /\ MarksViewed
  /\ UNCHANGED <<outputs, prompts, lastMsg, viewer>>

ViewerGoes(v, r) ==
  /\ viewer' = [viewer EXCEPT ![v] = r]
  /\ UNCHANGED <<outputs, prompts, lastMsg>>

\* get_one marks the thread first.
OpensThread(v) ==
  /\ viewer[v].at = "idle" /\ looks < MaxViews
  /\ looks' = looks + 1
  /\ MarksViewed
  /\ ViewerGoes(v, [NoViewer EXCEPT !.at = "read", !.marked = MsgRows])

\* get_thread, with its unread flag
ReadsThread(v) ==
  /\ viewer[v].at = "read"
  /\ ViewerGoes(v, [viewer[v] EXCEPT !.at = "list", !.unread = Unread])
  /\ UNCHANGED <<viewed, seen, looks>>

\* Mutant of ListsMessages: the thread is marked once it has been read.
ListsAndMarks(v) ==
  /\ viewer[v].at = "list"
  /\ \/ ViewerGoes(v, [viewer[v] EXCEPT !.shown = MsgRows, !.marked = {}])
        /\ UNCHANGED <<viewed, seen, looks>>
     \/ MarksViewed /\ UNCHANGED looks
        /\ ViewerGoes(v, [viewer[v] EXCEPT !.at = "answer", !.marked = MsgRows])

\* The newest messages; all of them here.
ListsMessages(v) ==
  /\ viewer[v].at = "list"
  /\ ViewerGoes(v, [viewer[v] EXCEPT !.at = "answer", !.shown = MsgRows])
  /\ UNCHANGED <<viewed, seen, looks>>

AnswersView(v) ==
  /\ viewer[v].at = "answer"
  /\ ViewerGoes(v, NoViewer)
  /\ UNCHANGED <<viewed, seen, looks>>

ReaderNext ==
  \/ MessageComes \/ MessagesGo \/ IsMarkedViewed
  \/ \E v \in Viewer : OpensThread(v) \/ ReadsThread(v) \/ ListsMessages(v) \/ AnswersView(v)

ReaderSpec == ReaderInit /\ [][ReaderNext]_readerVars

-----------------------------------------------------------------------------

\* Exactly the output since the last look is unread, also after an edit has
\* deleted the rows that the watermark stands for.
NewOutputIsUnread == \A m \in outputs : m > viewed <=> m \notin seen

\* What a request for the detail has marked as viewed is in its answer, unless
\* it has been deleted since: the mark comes before the reading.
MarkedIsShown ==
  \A v \in Viewer : viewer[v].at = "answer" =>
    viewer[v].marked \cap MsgRows \subseteq viewer[v].shown
=============================================================================
