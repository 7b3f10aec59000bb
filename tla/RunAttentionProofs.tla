-------------------------- MODULE RunAttentionProofs --------------------------
(***************************************************************************)
(* Proofs about RunAttention, for any clients, any number of prompts and   *)
(* any capacity of the feed: answers are obeyed, a run that waits can be   *)
(* answered, the sidebar shows the run as it is, and each prompt gets one  *)
(* push.                                                                   *)
(***************************************************************************)
EXTENDS RunAttention, FiniteSetTheorems, SequenceTheorems, TLAPS

-----------------------------------------------------------------------------
(* The inductive invariant *)

Places == [at : {"idle", "holds", "ok", "gone"}, prompt : Nat, says : {"allow", "dismiss"}]
Pumps == [at : Nat, announced : SUBSET PromptKind, pushes : Nat, lagged : BOOLEAN]
Sidebars == [mode : {"off", "subscribed", "live"}, at : Nat, view : Event]
Fields == [permission : Nat, ask : Nat, rate_limit : BOOLEAN]

\* The types of the run's own state, of its prompts, and of the feed.
RunTypes ==
  /\ status \in {"Running"} \cup Terminal
  /\ cancelled \in BOOLEAN
  /\ stopper \in {"idle", "flags", "enters", "writes", "grace"}
  /\ task \in {"works", "enters", "raises", "waits", "limited", "done"}
  /\ publisher \in {"idle", "reads", "sends"}
  /\ deferred \in BOOLEAN
  /\ limits \in Nat
PromptTypes ==
  /\ kind \in Seq(PromptKind) /\ Len(kind) <= MaxWaits
  /\ field \in Fields
  /\ pending \subseteq Prompts /\ removals \subseteq Prompts
  /\ answer \in [1 .. MaxWaits -> {"open", "allow", "dismiss"}]
  /\ outcome \in [1 .. MaxWaits -> {"none", "allow", "cancel", "dropped"}]
  /\ responder \in [Client -> Places]
FeedTypes ==
  /\ feed \in Seq(Event) /\ feed # <<>>
  /\ pump \in Pumps
  /\ pump.at <= Len(feed)
  /\ sidebar \in Sidebars
  /\ sidebar.at <= Len(feed)

\* The task has a prompt that is not over.
Asking == task \in {"enters", "raises", "waits"}

\* Only the last prompt can be open, and a guard's task comes for those that
\* are over.
PromptInv ==
  /\ Asking => Current > 0
  /\ \A i \in Prompts : outcome[i] = "none" <=> Asking /\ i = Current
  /\ \A i \in removals : outcome[i] # "none"
  /\ task = "enters" => Current \notin pending /\ answer[Current] = "open"
  /\ \A i \in 1 .. MaxWaits : i > Current => answer[i] = "open" /\ outcome[i] = "none"

\* An entry is taken out by one client, who may answer.
EntryInv ==
  /\ \A c \in Client :
       responder[c].at # "idle" =>
         /\ responder[c].prompt \in Prompts \ pending
         /\ task = "enters" => responder[c].prompt # Current
  /\ \A c, d \in Client :
       responder[c].at # "idle" /\ responder[d].at # "idle" /\ c # d =>
         responder[c].prompt # responder[d].prompt
  /\ \A i \in Prompts : answer[i] # "open" =>
       /\ i \notin pending
       /\ \E c \in Client : responder[c] = [at |-> "ok", prompt |-> i, says |-> answer[i]]
  /\ \A c \in Client :
       responder[c].at = "ok" /\ responder[c].says = "allow" =>
         answer[responder[c].prompt] = "allow"
  /\ task \in {"raises", "waits"} =>
       \/ Current \in pending \/ answer[Current] # "open"
       \/ \E c \in Client : responder[c].at = "holds" /\ responder[c].prompt = Current

\* What the agent was told.
OutcomeInv ==
  \A i \in Prompts :
    /\ outcome[i] = "allow" => answer[i] = "allow"
    /\ answer[i] = "allow" => outcome[i] \in {"none", "allow", "dropped"}

\* The fields say what the task waits for.
FieldInv ==
  /\ \A k \in PromptKind :
       IF task = "waits" /\ kind[Current] = k THEN field[k] = Current ELSE field[k] = 0
  /\ field.rate_limit => task \in {"limited", "done"}

\* How far a stop is goes with the flag, the status and what is deferred.
StopInv ==
  /\ cancelled <=> stopper \in {"enters", "writes", "grace"}
  /\ stopper \in {"writes", "grace"} => status = "Stopped"
  /\ status = "Stopped" => stopper \in {"writes", "grace"}
  /\ deferred => status = "Stopped"
  /\ Asking => publisher = "idle" \/ task = "waits"
  /\ task # "done" /\ ~ cancelled => status = "Running"
  /\ stopper = "enters" => ~ field.rate_limit

\* Prompts, the run and its stop, apart from the feed and its readers.
AttentionInv ==
  /\ RunTypes /\ PromptTypes /\ FeedTypes
  /\ PromptInv /\ EntryInv /\ OutcomeInv /\ FieldInv /\ StopInv

\* The last event tells what there is, unless another is on its way, an event
\* of attention has overtaken the terminal one, or a stop has ended the pause
\* for a rate limit without telling.
FeedInv ==
  /\ status = "Running" /\ publisher = "idle" =>
       \/ Last(feed) = Truth
       \/ stopper = "enters" /\ Last(feed) = Happens("Running", "rate_limit")
  /\ status # "Running" /\ ~ StatusLocked =>
       Last(feed).status = "Running" \/ Last(feed) = Happens(status, NoFlag)

\* A sidebar that has read everything has the last event or a fresh snapshot.
SideInv ==
  sidebar.mode = "live" /\ sidebar.at = Len(feed) /\ ~ StatusLocked =>
    \/ sidebar.view = Last(feed)
    \/ sidebar.view = Truth
    \/ status = "Running" /\ publisher # "idle"
    \/ stopper = "enters" /\ sidebar.view = Happens("Running", "rate_limit")

\* The events among the first n of a feed that ask the user for something.
Prompting(f, n) == {j \in 1 .. n : f[j].attention \in PromptKind}

\* The prompts whose events have been sent.
Told ==
  IF task \in {"enters", "raises"} \/ (task = "waits" /\ publisher # "idle")
  THEN Current - 1 ELSE Current

\* While nothing has ended the run, each prompt has an event, with another
\* that tells of its end before the next, and the dispatcher has pushed for
\* those it has read.
PushInv ==
  status = "Running" /\ ~ cancelled =>
    /\ \A j \in 1 .. Len(feed) :
         /\ feed[j].status = "Running"
         /\ feed[j].attention \in PromptKind => j > 1 /\ feed[j - 1].attention \notin PromptKind
    /\ publisher # "idle" /\ task # "works" => Last(feed).attention \notin PromptKind
    /\ Cardinality(Prompting(feed, Len(feed))) = Told
    /\ ~ pump.lagged =>
         /\ pump.pushes = Cardinality(Prompting(feed, pump.at))
         /\ pump.announced = {feed[j].attention : j \in Prompting(feed, pump.at) \cap {pump.at}}


-----------------------------------------------------------------------------
(* Prompts, the run and its stop *)

\* The kinds of prompts are fields of the run.
LEMMA FieldIsSet ==
  ASSUME field \in Fields, NEW k \in PromptKind, NEW n \in Nat, NEW f, f = [field EXCEPT ![k] = n]
  PROVE  /\ f \in Fields
         /\ f[k] = n /\ \A j \in PromptKind \ {k} : f[j] = field[j]
         /\ f.rate_limit = field.rate_limit
<1>1. CASE k = "permission"
  BY <1>1 DEF Fields, PromptKind
<1>2. CASE k = "ask"
  BY <1>2 DEF Fields, PromptKind
<1> QED
  BY <1>1, <1>2 DEF PromptKind

\* The rate limit is a field beside those of the prompts.
LEMMA LimitIsSet ==
  ASSUME field \in Fields, NEW b \in BOOLEAN, NEW f, f = [field EXCEPT !.rate_limit = b]
  PROVE  /\ f \in Fields
         /\ \A j \in PromptKind : f[j] = field[j]
         /\ f.rate_limit = b
BY DEF Fields, PromptKind

\* The prompt a task is at is one of those there are.
LEMMA CurrentIsPrompt ==
  ASSUME AttentionInv
  PROVE  /\ Current \in Nat /\ Current <= MaxWaits /\ MaxWaits \in Nat
         /\ Prompts = 1 .. Current
         /\ Asking => Current \in Prompts /\ Current \in 1 .. MaxWaits /\ kind[Current] \in PromptKind
BY AttentionConstants DEF AttentionInv, PromptTypes, PromptInv, Current, Prompts

\* Every step keeps the types of the run itself.
LEMMA RunTypesStep == AttentionInv /\ [Next]_vars => RunTypes'
<1> SUFFICES ASSUME AttentionInv, [Next]_vars
             PROVE  RunTypes'
  OBVIOUS
<1>1. CASE PublishReads
  BY <1>1 DEF PublishReads, AttentionInv, RunTypes, Terminal, runVars, promptVars, publishing,
    readers
<1>2. CASE PublishSends
  BY <1>2 DEF PublishSends, AttentionInv, RunTypes, Terminal, runVars, promptVars, publishing,
    readers
<1>3. CASE PublishDeferred
  BY <1>3 DEF PublishDeferred, AttentionInv, RunTypes, Terminal, runVars, promptVars,
    publishing, readers
<1>4. CASE StopReads
  BY <1>4 DEF StopReads, AttentionInv, RunTypes, Terminal, publishing
<1>5. CASE StopFlags
  BY <1>5 DEF StopFlags, AttentionInv, RunTypes, Terminal, publishing
<1>6. CASE StopWrites
  BY <1>6 DEF StopWrites, AttentionInv, RunTypes, Terminal, publishing
<1>7. CASE StopPublishes
  BY <1>7 DEF StopPublishes, AttentionInv, RunTypes, Terminal, publishing
<1>8. CASE Registers
  BY <1>8 DEF Registers, AttentionInv, RunTypes, Terminal, publishing
<1>9. CASE Raises
  BY <1>9 DEF Raises, Publishes, AttentionInv, RunTypes, Terminal
<1>10. CASE Answered
  BY <1>10 DEF Answered, Returns, Publishes, AttentionInv, RunTypes, Terminal
<1>11. CASE CallbackDropped
  BY <1>11 DEF CallbackDropped, Publishes, AttentionInv, RunTypes, Terminal
<1>12. ASSUME NEW k \in PromptKind, Asks(k) PROVE RunTypes'
  BY <1>12 DEF Asks, AttentionInv, RunTypes, Terminal, publishing
<1>13. CASE TimesOut
  BY <1>13 DEF TimesOut, Returns, Publishes, AttentionInv, RunTypes, Terminal
<1>14. CASE LimitBegins
  BY <1>14 DEF LimitBegins, Publishes, AttentionInv, RunTypes, Terminal
<1>15. CASE LimitEnds
  BY <1>15 DEF LimitEnds, Publishes, AttentionInv, RunTypes, Terminal
<1>16. CASE TaskAborted
  BY <1>16 DEF TaskAborted, AttentionInv, RunTypes, Terminal, publishing
<1>17. ASSUME NEW s \in {"Completed", "Failed"}, Finishes(s) PROVE RunTypes'
  BY <1>17 DEF Finishes, AttentionInv, RunTypes, Terminal, publishing
<1>18. ASSUME NEW i \in Prompts, RemovesEntry(i) PROVE RunTypes'
  BY <1>18 DEF RemovesEntry, AttentionInv, RunTypes, Terminal, runVars, promptVars, publishing,
    readers
<1>19. ASSUME NEW c \in Client, NEW i \in Prompts, NEW a \in {"allow", "dismiss"}, TakesEntry(c, i, a)
       PROVE RunTypes'
  BY <1>19 DEF TakesEntry, AttentionInv, RunTypes, Terminal, runVars, promptVars, publishing,
    readers
<1>20. ASSUME NEW c \in Client, Sends(c) PROVE RunTypes'
  BY <1>20 DEF Sends, AttentionInv, RunTypes, Terminal, runVars, promptVars, publishing, readers
<1>21. CASE PumpReads
  BY <1>21 DEF PumpReads, AttentionInv, RunTypes, Terminal, runVars, promptVars, publishing,
    readers
<1>22. CASE SidebarSubscribes
  BY <1>22 DEF SidebarSubscribes, AttentionInv, RunTypes, Terminal, runVars, promptVars,
    publishing, readers
<1>23. CASE SidebarSnapshot
  BY <1>23 DEF SidebarSnapshot, AttentionInv, RunTypes, Terminal, runVars, promptVars,
    publishing, readers
<1>24. CASE SidebarReads
  BY <1>24 DEF SidebarReads, AttentionInv, RunTypes, Terminal, runVars, promptVars, publishing,
    readers
<1>25. CASE UNCHANGED vars
  BY <1>25 DEF vars, AttentionInv, RunTypes, Terminal, runVars, promptVars, publishing, readers
<1> QED
  BY <1>1, <1>2, <1>3, <1>4, <1>5, <1>6, <1>7, <1>8, <1>9, <1>10, <1>11, <1>12, <1>13, <1>14,
     <1>15, <1>16, <1>17, <1>18, <1>19, <1>20, <1>21, <1>22, <1>23, <1>24, <1>25
  DEF Next, Publish, Stop, Prompt


\* Every step keeps the types of prompts and answers.
LEMMA PromptTypesStep == AttentionInv /\ [Next]_vars => PromptTypes'
<1> SUFFICES ASSUME AttentionInv, [Next]_vars
             PROVE  PromptTypes'
  OBVIOUS
<1>a. PromptTypes /\ Current \in Nat /\ MaxWaits \in Nat /\ Prompts = 1 .. Current
  BY CurrentIsPrompt DEF AttentionInv
<1>b. Asking => Current \in Prompts /\ kind[Current] \in PromptKind
  BY CurrentIsPrompt
<1>c. \A c \in Client : responder[c] \in Places
  BY <1>a DEF PromptTypes
<1>d. limits \in Nat
  BY DEF AttentionInv, RunTypes
<1>1. CASE PublishReads \/ PublishSends \/ PublishDeferred \/ StopReads \/ StopWrites \/
           StopPublishes \/ TaskAborted \/ (\E s \in {"Completed", "Failed"} : Finishes(s)) \/
           PumpReads \/ SidebarSubscribes \/ SidebarSnapshot \/ SidebarReads \/ UNCHANGED vars
 BY <1>1, <1>a
  DEF PublishReads, PublishSends, PublishDeferred, StopReads, StopWrites, StopPublishes,
      TaskAborted, Finishes, PumpReads, SidebarSubscribes, SidebarSnapshot, SidebarReads,
      vars, runVars, promptVars, readers, PromptTypes, Prompts
<1>2. CASE StopFlags
  <2>1. field' = [field EXCEPT !.rate_limit = FALSE] \/ field' = field
    BY <1>2 DEF StopFlags
  <2>2. field' \in Fields
    BY <1>a, <2>1, LimitIsSet DEF PromptTypes
  <2> QED
    BY <1>2, <1>a, <2>2 DEF StopFlags, promptVars, PromptTypes, Prompts
<1>3. CASE Registers
  <2>1. Current \in Prompts
    BY <1>3, <1>b DEF Registers, Asking
  <2> QED
    BY <1>3, <1>a, <2>1 DEF Registers, PromptTypes, Prompts
<1>4. CASE Raises
  <2>1. Asking
    BY <1>4 DEF Raises, Asking
  <2>2. field' = [field EXCEPT ![kind[Current]] = Current]
    BY <1>4 DEF Raises, Publishes
  <2>3. field' \in Fields
    BY <1>a, <1>b, <2>1, <2>2, FieldIsSet DEF PromptTypes
  <2> QED
    BY <1>4, <1>a, <1>b, <2>1, <2>3 DEF Raises, Publishes, promptVars, PromptTypes, Prompts
<1>5. CASE Answered
  <2>1. Asking
    BY <1>5 DEF Answered, Asking
  <2>2. field' = [field EXCEPT ![kind[Current]] = 0]
    BY <1>5 DEF Answered, Returns, Publishes
  <2>3. field' \in Fields
    BY <1>a, <1>b, <2>1, <2>2, FieldIsSet DEF PromptTypes
  <2> QED
    BY <1>5, <1>a, <1>b, <2>1, <2>3 DEF Answered, Returns, Publishes, promptVars, PromptTypes,
      Prompts
<1>6. CASE CallbackDropped
  <2>1. Asking
    BY <1>6 DEF CallbackDropped, Asking
  <2>2. field' = [field EXCEPT ![kind[Current]] = 0] \/ field' = field
    BY <1>6 DEF CallbackDropped, Publishes
  <2>3. field' \in Fields
    BY <1>a, <1>b, <2>1, <2>2, FieldIsSet DEF PromptTypes
  <2> QED
    BY <1>6, <1>a, <1>b, <2>1, <2>3 DEF CallbackDropped, PromptTypes, Prompts
<1>7. ASSUME NEW k \in PromptKind, Asks(k) PROVE PromptTypes'
  <2>1. /\ kind' \in Seq(PromptKind) /\ Len(kind') = Len(kind) + 1
        /\ UNCHANGED <<field, pending, removals, answer, outcome, responder>>
    BY <1>7, <1>a, AppendProperties DEF Asks, PromptTypes
  <2>2. Len(kind') <= MaxWaits
    BY <1>7, <1>a, <2>1, <1>d DEF Asks, Current
  <2>3. Prompts \subseteq Prompts'
    BY <1>a, <2>1 DEF Prompts, Current
  <2> QED
    BY <1>a, <2>1, <2>2, <2>3 DEF PromptTypes
<1>8. CASE TimesOut
  <2>1. Asking
    BY <1>8 DEF TimesOut, Asking
  <2>2. field' = [field EXCEPT ![kind[Current]] = 0]
    BY <1>8 DEF TimesOut, Returns, Publishes
  <2>3. field' \in Fields
    BY <1>a, <1>b, <2>1, <2>2, FieldIsSet DEF PromptTypes
  <2> QED
    BY <1>8, <1>a, <1>b, <2>1, <2>3 DEF TimesOut, Returns, Publishes, promptVars, PromptTypes,
      Prompts
<1>9. CASE LimitBegins
  <2>1. field' = [field EXCEPT !.rate_limit = TRUE] \/ field' = field
    BY <1>9 DEF LimitBegins, Publishes
  <2>2. field' \in Fields
    BY <1>a, <2>1, LimitIsSet DEF PromptTypes
  <2> QED
    BY <1>9, <1>a, <2>2 DEF LimitBegins, Publishes, promptVars, PromptTypes, Prompts
<1>10. CASE LimitEnds
  <2>1. field' = [field EXCEPT !.rate_limit = FALSE] \/ field' = field
    BY <1>10 DEF LimitEnds, Publishes
  <2>2. field' \in Fields
    BY <1>a, <2>1, LimitIsSet DEF PromptTypes
  <2> QED
    BY <1>10, <1>a, <2>2 DEF LimitEnds, Publishes, promptVars, PromptTypes, Prompts
<1>11. ASSUME NEW i \in Prompts, RemovesEntry(i) PROVE PromptTypes'
  BY <1>11, <1>a, <1>b, <1>c DEF RemovesEntry, PromptTypes, Prompts, promptVars
<1>12. ASSUME NEW c \in Client, NEW i \in Prompts, NEW a \in {"allow", "dismiss"}, TakesEntry(c, i, a)
       PROVE PromptTypes'
  BY <1>12, <1>a, <1>b, <1>c DEF TakesEntry, PromptTypes, Prompts, Places, promptVars
<1>13. ASSUME NEW c \in Client, Sends(c) PROVE PromptTypes'
  BY <1>13, <1>a, <1>b, <1>c DEF Sends, PromptTypes, Prompts, Places, promptVars
<1> QED
  BY <1>1, <1>2, <1>3, <1>4, <1>5, <1>6, <1>7, <1>8, <1>9, <1>10, <1>11, <1>12, <1>13
  DEF Next, Publish, Stop, Prompt

\* An event that is sent is the last, and the others stay.
LEMMA FeedGrows ==
  ASSUME FeedTypes, NEW e \in Event, feed' = Append(feed, e)
  PROVE  /\ feed' \in Seq(Event) /\ Len(feed') = Len(feed) + 1
         /\ Len(feed) \in Nat \ {0}
         /\ \A i \in 1 .. Len(feed) : feed'[i] = feed[i]
         /\ feed'[Len(feed) + 1] = e
         /\ Last(feed') = e
<1>1. feed \in Seq(Event) /\ Len(feed) \in Nat \ {0}
  BY EmptySeq, LenProperties DEF FeedTypes
<1>2. /\ Append(feed, e) \in Seq(Event) /\ Len(Append(feed, e)) = Len(feed) + 1
      /\ \A i \in 1 .. Len(feed) : Append(feed, e)[i] = feed[i]
      /\ Append(feed, e)[Len(feed) + 1] = e
  BY <1>1, AppendProperties
<1> QED
  BY <1>1, <1>2 DEF Last

\* The feed keeps its types when it grows, whoever reads it.
LEMMA FeedTypesGrow ==
  ASSUME FeedTypes, NEW e \in Event, feed' = Append(feed, e), UNCHANGED <<pump, sidebar>>
  PROVE  FeedTypes'
<1>1. /\ feed' \in Seq(Event) /\ Len(feed') = Len(feed) + 1 /\ Len(feed) \in Nat
  BY FeedGrows
<1>2. feed' # <<>>
  BY <1>1
<1> QED
  BY <1>1, <1>2 DEF FeedTypes, Pumps, Sidebars

\* How the sidebar moves on.
LEMMA SidebarMoves ==
  ASSUME NEW b \in Sidebars, NEW a \in Nat, NEW e \in Event
  PROVE  /\ [b EXCEPT !.at = a, !.view = e] \in Sidebars
         /\ [b EXCEPT !.at = a, !.view = e].at = a
BY DEF Sidebars

\* What is told of a run is an event.
LEMMA TruthIsEvent ==
  ASSUME RunTypes
  PROVE  /\ Truth \in Event
         /\ Happens("Running", CurrentAttention) \in Event
         /\ Happens("Stopped", NoFlag) \in Event
         /\ \A s \in Terminal : Happens(s, NoFlag) \in Event
<1>1. CurrentAttention \in PromptKind \cup {"rate_limit", NoFlag}
  BY DEF CurrentAttention, PromptKind
<1> QED
  BY <1>1 DEF RunTypes, Truth, Happens, Event, Terminal

\* Every step keeps the types of the feed and its readers.
LEMMA FeedTypesStep == AttentionInv /\ [Next]_vars => FeedTypes'
<1> SUFFICES ASSUME AttentionInv, [Next]_vars
             PROVE  FeedTypes'
  OBVIOUS
<1>a. FeedTypes /\ RunTypes
  BY DEF AttentionInv
<1>b. /\ Truth \in Event /\ Happens("Running", CurrentAttention) \in Event
      /\ Happens("Stopped", NoFlag) \in Event /\ \A s \in Terminal : Happens(s, NoFlag) \in Event
  BY <1>a, TruthIsEvent
<1>1. CASE PublishReads \/ StopReads \/ StopFlags \/ StopWrites \/ Registers \/ Raises \/
           Answered \/ CallbackDropped \/ (\E k \in PromptKind : Asks(k)) \/ TimesOut \/
           LimitBegins \/ LimitEnds \/ TaskAborted \/ (\E i \in Prompts : RemovesEntry(i)) \/
           (\E c \in Client, i \in Prompts, a \in {"allow", "dismiss"} : TakesEntry(c, i, a)) \/
           (\E c \in Client : Sends(c)) \/ UNCHANGED vars
  BY <1>1, <1>a DEF PublishReads, StopReads, StopFlags, StopWrites, Registers, Raises,
    Publishes, Answered, Returns, CallbackDropped, Asks, TimesOut, LimitBegins, LimitEnds,
    TaskAborted, RemovesEntry, TakesEntry, Sends, vars, FeedTypes, readers, vars
<1>2. CASE PublishSends
  BY <1>2, <1>a, <1>b, FeedTypesGrow DEF PublishSends, readers
<1>3. CASE PublishDeferred
  <2>1. CASE feed' = feed
    BY <1>3, <1>a, <2>1 DEF PublishDeferred, readers, FeedTypes
  <2>2. CASE feed' = Append(feed, Happens("Running", CurrentAttention))
    BY <1>3, <1>a, <1>b, <2>2, FeedTypesGrow DEF PublishDeferred, readers
  <2> QED
    BY <1>3, <2>1, <2>2 DEF PublishDeferred
<1>4. ASSUME NEW s \in {"Completed", "Failed"}, Finishes(s) PROVE FeedTypes'
  <2>1. CASE feed' = feed
    BY <1>4, <1>a, <2>1 DEF Finishes, readers, FeedTypes
  <2>2. CASE feed' = Append(feed, Happens(s, NoFlag))
    <3>1. Happens(s, NoFlag) \in Event
      BY <1>b DEF Terminal
    <3> QED
      BY <1>4, <1>a, <2>2, <3>1, FeedTypesGrow DEF Finishes, readers
  <2> QED
    BY <1>4, <2>1, <2>2 DEF Finishes
<1>5. CASE StopPublishes
  BY <1>5, <1>a, <1>b, FeedTypesGrow DEF StopPublishes, readers
<1>6. CASE PumpReads
  <2> DEFINE next == Decide(pump.announced, feed[pump.at + 1])
  <2>1. /\ pump \in Pumps /\ Len(feed) \in Nat /\ UNCHANGED <<feed, sidebar>>
    BY <1>6, <1>a DEF PumpReads, FeedTypes
  <2>2. pump.at \in Nat /\ pump.at < Len(feed)
    BY <1>6, <2>1 DEF PumpReads, Pumps
  <2>3. next.announced \in SUBSET PromptKind
    BY <2>1 DEF Decide, Pumps
  <2>4. CASE Lags(pump.at)
    <3>1. Oldest \in Nat /\ Oldest < Len(feed)
      BY <2>1, <2>2, <2>4, AttentionConstants DEF Lags, Oldest
    <3>2. pump' = [pump EXCEPT !.at = Oldest, !.lagged = TRUE]
      BY <1>6, <2>4 DEF PumpReads
    <3>3. pump' \in Pumps /\ pump'.at = Oldest
      BY <2>1, <3>1, <3>2 DEF Pumps
    <3> QED
      BY <1>a, <2>1, <3>1, <3>3 DEF FeedTypes
  <2>5. CASE ~ Lags(pump.at)
    <3>1. PICK S \in SUBSET PromptKind, n \in Nat :
            pump' = [pump EXCEPT !.at = pump.at + 1, !.announced = S, !.pushes = n]
      <4>1. pump.pushes \in Nat /\ pump.pushes + 1 \in Nat
        BY <2>1 DEF Pumps
      <4> QED
        BY <1>6, <2>3, <2>5, <4>1 DEF PumpReads
    <3>2. pump' \in Pumps /\ pump'.at = pump.at + 1
      <4> DEFINE p == [pump EXCEPT !.at = pump.at + 1, !.announced = S, !.pushes = n]
      <4>1. pump.at + 1 \in Nat
        BY <2>2
      <4>2. p \in Pumps /\ p.at = pump.at + 1
        BY <2>1, <3>1, <4>1 DEF Pumps
      <4> QED
        BY <3>1, <4>2
    <3> QED
      BY <1>a, <2>1, <2>2, <3>2 DEF FeedTypes
  <2> QED
    BY <2>4, <2>5
<1>7. CASE SidebarSubscribes
  <2>1. /\ sidebar \in Sidebars /\ Len(feed) \in Nat /\ UNCHANGED <<feed, pump>>
        /\ sidebar' = [sidebar EXCEPT !.mode = "subscribed", !.at = Len(feed)]
    BY <1>7, <1>a DEF SidebarSubscribes, FeedTypes
  <2>2. sidebar' \in Sidebars /\ sidebar'.at = Len(feed)
    BY <2>1 DEF Sidebars
  <2> QED
    BY <1>a, <2>1, <2>2 DEF FeedTypes
<1>8. CASE SidebarSnapshot
  <2>1. /\ sidebar \in Sidebars /\ UNCHANGED <<feed, pump>>
        /\ sidebar' = [sidebar EXCEPT !.mode = "live", !.view = Truth]
    BY <1>8, <1>a DEF SidebarSnapshot, FeedTypes
  <2>2. sidebar' \in Sidebars /\ sidebar'.at = sidebar.at
    BY <1>b, <2>1 DEF Sidebars
  <2> QED
    BY <1>a, <2>1, <2>2 DEF FeedTypes
<1>9. CASE SidebarReads
  <2>1. /\ sidebar \in Sidebars /\ Len(feed) \in Nat /\ UNCHANGED <<feed, pump>>
        /\ sidebar.at < Len(feed)
    BY <1>9, <1>a DEF SidebarReads, FeedTypes
  <2>2. sidebar.at \in Nat
    BY <2>1 DEF Sidebars
  <2>3. Lags(sidebar.at) => Oldest \in Nat /\ Oldest < Len(feed)
    BY <2>1, <2>2, AttentionConstants DEF Lags, Oldest
  <2>4. PICK n \in 0 .. Len(feed), e \in Event : sidebar' = [sidebar EXCEPT !.at = n, !.view = e]
    <3>1. feed[sidebar.at + 1] \in Event
      BY <1>a, <2>1, <2>2 DEF FeedTypes
    <3>2. sidebar.at + 1 \in 0 .. Len(feed)
      BY <2>1, <2>2
    <3>3. CASE Lags(sidebar.at)
      <4>1. Oldest \in 0 .. Len(feed)
        BY <2>1, <2>3, <3>3
      <4> QED
        BY <1>9, <1>b, <3>3, <4>1 DEF SidebarReads
    <3>4. CASE ~ Lags(sidebar.at)
      BY <1>9, <3>1, <3>2, <3>4 DEF SidebarReads
    <3> QED
      BY <3>3, <3>4
  <2>5. sidebar' \in Sidebars /\ sidebar'.at = n
    <3>1. n \in Nat
      BY <2>1
    <3>2. /\ [sidebar EXCEPT !.at = n, !.view = e] \in Sidebars
          /\ [sidebar EXCEPT !.at = n, !.view = e].at = n
      BY <2>1, <3>1, SidebarMoves
    <3> QED
      BY <2>4, <3>2
  <2> QED
    BY <1>a, <2>1, <2>4, <2>5 DEF FeedTypes
<1> QED
  BY <1>1, <1>2, <1>3, <1>4, <1>5, <1>6, <1>7, <1>8, <1>9 DEF Next, Publish, Stop, Prompt

\* A prompt that is asked for is behind those there were.
LEMMA KindGrows ==
  ASSUME PromptTypes, NEW k \in PromptKind, kind' = Append(kind, k)
  PROVE  /\ Current \in Nat /\ Current' = Current + 1
         /\ Prompts = 1 .. Current /\ Prompts' = 1 .. (Current + 1)
         /\ kind'[Current + 1] = k /\ \A i \in Prompts : kind'[i] = kind[i]
<1>1. kind \in Seq(PromptKind) /\ Len(kind) \in Nat
  BY DEF PromptTypes
<1>2. /\ Len(Append(kind, k)) = Len(kind) + 1
      /\ \A i \in 1 .. Len(kind) : Append(kind, k)[i] = kind[i]
      /\ Append(kind, k)[Len(kind) + 1] = k
  BY <1>1, AppendProperties
<1> QED
  BY <1>1, <1>2 DEF Current, Prompts

\* Every step leaves one open prompt at most, which is the last.
LEMMA PromptInvStep == AttentionInv /\ [Next]_vars => PromptInv'
<1> SUFFICES ASSUME AttentionInv, [Next]_vars
             PROVE  PromptInv'
  OBVIOUS
<1>a. /\ PromptTypes /\ Current \in Nat /\ MaxWaits \in Nat /\ Current <= MaxWaits
      /\ Prompts = 1 .. Current
  BY CurrentIsPrompt DEF AttentionInv
<1>b. Asking => Current \in Prompts
  BY CurrentIsPrompt
<1>c. PromptInv /\ OutcomeInv /\ EntryInv
  BY DEF AttentionInv
<1>d. /\ answer \in [1 .. MaxWaits -> {"open", "allow", "dismiss"}]
      /\ outcome \in [1 .. MaxWaits -> {"none", "allow", "cancel", "dropped"}]
      /\ responder \in [Client -> Places]
  BY <1>a DEF PromptTypes
<1>e. limits \in Nat
  BY DEF AttentionInv, RunTypes
<1>1. CASE PublishReads \/ PublishSends \/ PublishDeferred \/ StopReads \/ StopFlags \/
           StopWrites \/ StopPublishes \/ PumpReads \/ SidebarSubscribes \/ SidebarSnapshot \/
           SidebarReads \/ UNCHANGED vars
  BY <1>1, <1>a, <1>b, <1>c, <1>d DEF PublishReads, PublishSends, PublishDeferred, StopReads,
    StopFlags, StopWrites, StopPublishes, PumpReads, SidebarSubscribes, SidebarSnapshot,
    SidebarReads, vars, PromptInv, Asking, Prompts, Current, promptVars, runVars, readers, vars
<1>2. CASE Registers
  BY <1>2, <1>a, <1>b, <1>c, <1>d DEF Registers, PromptInv, Asking, Prompts, Current
<1>3. CASE Raises
  BY <1>3, <1>a, <1>b, <1>c, <1>d DEF Raises, Publishes, PromptInv, Asking, Prompts, Current,
    promptVars, runVars, readers, vars
<1>4. CASE Answered
  BY <1>4, <1>a, <1>b, <1>c, <1>d
  DEF Answered, Returns, Publishes, PromptInv, Asking, Prompts, Current
<1>5. CASE CallbackDropped
  BY <1>5, <1>a, <1>b, <1>c, <1>d
  DEF CallbackDropped, Publishes, PromptInv, Asking, Prompts, Current
<1>6. ASSUME NEW k \in PromptKind, Asks(k) PROVE PromptInv'
  <2>1. /\ task = "works" /\ task' = "enters" /\ kind' = Append(kind, k)
        /\ UNCHANGED <<pending, removals, answer, outcome, responder>>
        /\ Current + 1 \in 1 .. MaxWaits
    BY <1>6, <1>a, <1>e DEF Asks, Current
  <2>2. /\ Current' = Current + 1 /\ Prompts = 1 .. Current /\ Prompts' = 1 .. (Current + 1)
        /\ \A i \in Prompts : kind'[i] = kind[i]
    BY <1>a, <2>1, KindGrows
  <2>3. ~ Asking /\ Asking'
    BY <2>1 DEF Asking
  <2>4. /\ \A i \in Prompts : outcome[i] # "none"
        /\ outcome[Current + 1] = "none" /\ answer[Current + 1] = "open"
    BY <1>a, <1>c, <2>1, <2>3 DEF PromptInv
  <2>5. \A i \in Prompts' : i \in Prompts \/ i = Current + 1
    BY <1>a, <2>2
  <2>6. \A i \in Prompts' : outcome'[i] = "none" <=> Asking' /\ i = Current'
    BY <1>a, <2>1, <2>2, <2>3, <2>4, <2>5
  <2>7. Current + 1 \notin pending /\ \A i \in removals : outcome[i] # "none"
    BY <1>a, <1>c, <2>2 DEF PromptTypes, PromptInv
  <2>8. \A i \in 1 .. MaxWaits : i > Current' => answer'[i] = "open" /\ outcome'[i] = "none"
    BY <1>a, <1>c, <2>1, <2>2 DEF PromptInv
  <2> QED
    BY <1>a, <2>1, <2>2, <2>4, <2>6, <2>7, <2>8 DEF PromptInv
<1>7. CASE TimesOut
  BY <1>7, <1>a, <1>b, <1>c, <1>d
  DEF TimesOut, Returns, Publishes, PromptInv, Asking, Prompts, Current
<1>8. CASE LimitBegins
  BY <1>8, <1>a, <1>b, <1>c, <1>d DEF LimitBegins, Publishes, PromptInv, Asking, Prompts,
    Current, promptVars, runVars, readers, vars
<1>9. CASE LimitEnds
  BY <1>9, <1>a, <1>b, <1>c, <1>d DEF LimitEnds, Publishes, PromptInv, Asking, Prompts, Current,
    promptVars, runVars, readers, vars
<1>10. CASE TaskAborted
  BY <1>10, <1>a, <1>b, <1>c, <1>d DEF TaskAborted, PromptInv, Asking, Prompts, Current,
    promptVars, runVars, readers, vars
<1>11. ASSUME NEW s \in {"Completed", "Failed"}, Finishes(s) PROVE PromptInv'
  BY <1>11, <1>a, <1>b, <1>c, <1>d DEF Finishes, PromptInv, Asking, Prompts, Current,
    promptVars, runVars, readers, vars
<1>12. ASSUME NEW i \in Prompts, RemovesEntry(i) PROVE PromptInv'
  BY <1>12, <1>a, <1>b, <1>c, <1>d
  DEF RemovesEntry, PromptInv, Asking, Prompts, Current, runVars
<1>13. ASSUME NEW c \in Client, NEW i \in Prompts, NEW a \in {"allow", "dismiss"}, TakesEntry(c, i, a)
       PROVE PromptInv'
  BY <1>13, <1>a, <1>b, <1>c, <1>d DEF TakesEntry, PromptInv, Asking, Prompts, Current, runVars
<1>14. ASSUME NEW c \in Client, Sends(c) PROVE PromptInv'
  <2>1. /\ UNCHANGED <<task, kind, outcome, removals, pending>>
        /\ responder[c].at = "holds"
        /\ \/ answer' = answer
           \/ /\ outcome[responder[c].prompt] = "none"
              /\ answer' = [answer EXCEPT ![responder[c].prompt] = responder[c].says]
    BY <1>14 DEF Sends, runVars
  <2>2. responder[c].prompt \in Prompts /\ (task = "enters" => responder[c].prompt # Current)
    BY <1>c, <2>1 DEF EntryInv
  <2> QED
    BY <1>a, <1>b, <1>c, <1>d, <2>1, <2>2 DEF PromptInv, Asking, Prompts, Current
<1> QED
  BY <1>1, <1>2, <1>3, <1>4, <1>5, <1>6, <1>7, <1>8, <1>9, <1>10, <1>11, <1>12, <1>13, <1>14
  DEF Next, Publish, Stop, Prompt

\* Every step keeps what the agent was told to what was answered.
LEMMA OutcomeInvStep == AttentionInv /\ [Next]_vars => OutcomeInv'
<1> SUFFICES ASSUME AttentionInv, [Next]_vars
             PROVE  OutcomeInv'
  OBVIOUS
<1>a. /\ PromptTypes /\ Current \in Nat /\ MaxWaits \in Nat /\ Current <= MaxWaits
      /\ Prompts = 1 .. Current
  BY CurrentIsPrompt DEF AttentionInv
<1>b. Asking => Current \in Prompts
  BY CurrentIsPrompt
<1>c. PromptInv /\ OutcomeInv /\ EntryInv
  BY DEF AttentionInv
<1>d. /\ answer \in [1 .. MaxWaits -> {"open", "allow", "dismiss"}]
      /\ outcome \in [1 .. MaxWaits -> {"none", "allow", "cancel", "dropped"}]
      /\ responder \in [Client -> Places]
  BY <1>a DEF PromptTypes
<1>e. limits \in Nat
  BY DEF AttentionInv, RunTypes
<1>1. CASE PublishReads \/ PublishSends \/ PublishDeferred \/ StopReads \/ StopFlags \/
           StopWrites \/ StopPublishes \/ PumpReads \/ SidebarSubscribes \/ SidebarSnapshot \/
           SidebarReads \/ UNCHANGED vars
  BY <1>1, <1>a, <1>b, <1>c, <1>d DEF PublishReads, PublishSends, PublishDeferred, StopReads,
    StopFlags, StopWrites, StopPublishes, PumpReads, SidebarSubscribes, SidebarSnapshot,
    SidebarReads, vars, OutcomeInv, PromptInv, Asking, Prompts, Current, promptVars, runVars,
    readers, vars
<1>2. CASE Registers
  BY <1>2, <1>a, <1>b, <1>c, <1>d DEF Registers, OutcomeInv, PromptInv, Asking, Prompts, Current
<1>3. CASE Raises
  BY <1>3, <1>a, <1>b, <1>c, <1>d DEF Raises, Publishes, OutcomeInv, PromptInv, Asking, Prompts,
    Current, promptVars, runVars, readers, vars
<1>4. CASE Answered
  BY <1>4, <1>a, <1>b, <1>c, <1>d
  DEF Answered, Returns, Publishes, OutcomeInv, PromptInv, Asking, Prompts, Current
<1>5. CASE CallbackDropped
  BY <1>5, <1>a, <1>b, <1>c, <1>d
  DEF CallbackDropped, Publishes, OutcomeInv, PromptInv, Asking, Prompts, Current
<1>6. ASSUME NEW k \in PromptKind, Asks(k) PROVE OutcomeInv'
  <2>1. /\ task = "works" /\ task' = "enters" /\ kind' = Append(kind, k)
        /\ UNCHANGED <<pending, removals, answer, outcome, responder>>
        /\ Current + 1 \in 1 .. MaxWaits
    BY <1>6, <1>a, <1>e DEF Asks, Current
  <2>2. /\ Current' = Current + 1 /\ Prompts = 1 .. Current /\ Prompts' = 1 .. (Current + 1)
        /\ \A i \in Prompts : kind'[i] = kind[i]
    BY <1>a, <2>1, KindGrows
  <2> QED
    BY <1>a, <1>c, <1>d, <2>1, <2>2 DEF OutcomeInv, PromptInv, Asking
<1>7. CASE TimesOut
  BY <1>7, <1>a, <1>b, <1>c, <1>d
  DEF TimesOut, Returns, Publishes, OutcomeInv, PromptInv, Asking, Prompts, Current
<1>8. CASE LimitBegins
  BY <1>8, <1>a, <1>b, <1>c, <1>d DEF LimitBegins, Publishes, OutcomeInv, PromptInv, Asking,
    Prompts, Current, promptVars, runVars, readers, vars
<1>9. CASE LimitEnds
  BY <1>9, <1>a, <1>b, <1>c, <1>d DEF LimitEnds, Publishes, OutcomeInv, PromptInv, Asking,
    Prompts, Current, promptVars, runVars, readers, vars
<1>10. CASE TaskAborted
  BY <1>10, <1>a, <1>b, <1>c, <1>d DEF TaskAborted, OutcomeInv, PromptInv, Asking, Prompts,
    Current, promptVars, runVars, readers, vars
<1>11. ASSUME NEW s \in {"Completed", "Failed"}, Finishes(s) PROVE OutcomeInv'
  BY <1>11, <1>a, <1>b, <1>c, <1>d DEF Finishes, OutcomeInv, PromptInv, Asking, Prompts,
    Current, promptVars, runVars, readers, vars
<1>12. ASSUME NEW i \in Prompts, RemovesEntry(i) PROVE OutcomeInv'
  BY <1>12, <1>a, <1>b, <1>c, <1>d
  DEF RemovesEntry, OutcomeInv, PromptInv, Asking, Prompts, Current
<1>13. ASSUME NEW c \in Client, NEW i \in Prompts, NEW a \in {"allow", "dismiss"}, TakesEntry(c, i, a)
       PROVE OutcomeInv'
  BY <1>13, <1>a, <1>b, <1>c, <1>d
  DEF TakesEntry, OutcomeInv, PromptInv, Asking, Prompts, Current
<1>14. ASSUME NEW c \in Client, Sends(c) PROVE OutcomeInv'
  BY <1>14, <1>a, <1>b, <1>c, <1>d DEF Sends, OutcomeInv, PromptInv, Asking, Prompts, Current
<1> QED
  BY <1>1, <1>2, <1>3, <1>4, <1>5, <1>6, <1>7, <1>8, <1>9, <1>10, <1>11, <1>12, <1>13, <1>14
  DEF Next, Publish, Stop, Prompt

\* Every step leaves an entry with one client.
LEMMA EntryInvStep == AttentionInv /\ [Next]_vars => EntryInv'
<1> SUFFICES ASSUME AttentionInv, [Next]_vars
             PROVE  EntryInv'
  OBVIOUS
<1>a. /\ PromptTypes /\ Current \in Nat /\ MaxWaits \in Nat /\ Current <= MaxWaits
      /\ Prompts = 1 .. Current
  BY CurrentIsPrompt DEF AttentionInv
<1>b. Asking => Current \in Prompts
  BY CurrentIsPrompt
<1>c. PromptInv /\ OutcomeInv /\ EntryInv
  BY DEF AttentionInv
<1>d. /\ answer \in [1 .. MaxWaits -> {"open", "allow", "dismiss"}]
      /\ outcome \in [1 .. MaxWaits -> {"none", "allow", "cancel", "dropped"}]
      /\ responder \in [Client -> Places]
  BY <1>a DEF PromptTypes
<1>e. limits \in Nat
  BY DEF AttentionInv, RunTypes
<1>1. CASE PublishReads \/ PublishSends \/ PublishDeferred \/ StopReads \/ StopFlags \/
           StopWrites \/ StopPublishes \/ PumpReads \/ SidebarSubscribes \/ SidebarSnapshot \/
           SidebarReads \/ UNCHANGED vars
  BY <1>1, <1>a, <1>b, <1>c, <1>d DEF PublishReads, PublishSends, PublishDeferred, StopReads,
    StopFlags, StopWrites, StopPublishes, PumpReads, SidebarSubscribes, SidebarSnapshot,
    SidebarReads, vars, EntryInv, PromptInv, Asking, Prompts, Current, Places, promptVars,
    runVars, readers, vars
<1>2. CASE Registers
  BY <1>2, <1>a, <1>b, <1>c, <1>d
  DEF Registers, EntryInv, PromptInv, Asking, Prompts, Current, Places
<1>3. CASE Raises
  BY <1>3, <1>a, <1>b, <1>c, <1>d DEF Raises, Publishes, EntryInv, PromptInv, Asking, Prompts,
    Current, Places, promptVars, runVars, readers, vars
<1>4. CASE Answered
  BY <1>4, <1>a, <1>b, <1>c, <1>d
  DEF Answered, Returns, Publishes, EntryInv, PromptInv, Asking, Prompts, Current, Places
<1>5. CASE CallbackDropped
  BY <1>5, <1>a, <1>b, <1>c, <1>d
  DEF CallbackDropped, Publishes, EntryInv, PromptInv, Asking, Prompts, Current, Places
<1>6. ASSUME NEW k \in PromptKind, Asks(k) PROVE EntryInv'
  <2>1. /\ task = "works" /\ task' = "enters" /\ kind' = Append(kind, k)
        /\ UNCHANGED <<pending, removals, answer, outcome, responder>>
        /\ Current + 1 \in 1 .. MaxWaits
    BY <1>6, <1>a, <1>e DEF Asks, Current
  <2>2. /\ Current' = Current + 1 /\ Prompts = 1 .. Current /\ Prompts' = 1 .. (Current + 1)
        /\ \A i \in Prompts : kind'[i] = kind[i]
    BY <1>a, <2>1, KindGrows
  <2> QED
    BY <1>a, <1>c, <1>d, <2>1, <2>2 DEF EntryInv, PromptInv, Asking, Places
<1>7. CASE TimesOut
  BY <1>7, <1>a, <1>b, <1>c, <1>d
  DEF TimesOut, Returns, Publishes, EntryInv, PromptInv, Asking, Prompts, Current, Places
<1>8. CASE LimitBegins
  BY <1>8, <1>a, <1>b, <1>c, <1>d DEF LimitBegins, Publishes, EntryInv, PromptInv, Asking,
    Prompts, Current, Places, promptVars, runVars, readers, vars
<1>9. CASE LimitEnds
  BY <1>9, <1>a, <1>b, <1>c, <1>d DEF LimitEnds, Publishes, EntryInv, PromptInv, Asking,
    Prompts, Current, Places, promptVars, runVars, readers, vars
<1>10. CASE TaskAborted
  BY <1>10, <1>a, <1>b, <1>c, <1>d DEF TaskAborted, EntryInv, PromptInv, Asking, Prompts,
    Current, Places, promptVars, runVars, readers, vars
<1>11. ASSUME NEW s \in {"Completed", "Failed"}, Finishes(s) PROVE EntryInv'
  BY <1>11, <1>a, <1>b, <1>c, <1>d DEF Finishes, EntryInv, PromptInv, Asking, Prompts, Current,
    Places, promptVars, runVars, readers, vars
<1>12. ASSUME NEW i \in Prompts, RemovesEntry(i) PROVE EntryInv'
  BY <1>12, <1>a, <1>b, <1>c, <1>d
  DEF RemovesEntry, EntryInv, PromptInv, Asking, Prompts, Current, Places, runVars
<1>13. ASSUME NEW c \in Client, NEW i \in Prompts, NEW a \in {"allow", "dismiss"}, TakesEntry(c, i, a)
       PROVE EntryInv'
  BY <1>13, <1>a, <1>b, <1>c, <1>d
  DEF TakesEntry, EntryInv, PromptInv, Asking, Prompts, Current, Places, runVars
<1>14. ASSUME NEW c \in Client, Sends(c) PROVE EntryInv'
  BY <1>14, <1>a, <1>b, <1>c, <1>d
  DEF Sends, EntryInv, PromptInv, Asking, Prompts, Current, Places, runVars
<1> QED
  BY <1>1, <1>2, <1>3, <1>4, <1>5, <1>6, <1>7, <1>8, <1>9, <1>10, <1>11, <1>12, <1>13, <1>14
  DEF Next, Publish, Stop, Prompt

\* Every step keeps the fields to what the task waits for.
LEMMA FieldInvStep == AttentionInv /\ [Next]_vars => FieldInv'
<1> SUFFICES ASSUME AttentionInv, [Next]_vars
             PROVE  FieldInv'
  OBVIOUS
<1>a. PromptTypes /\ field \in Fields /\ task \in {"works", "enters", "raises", "waits", "limited", "done"}
  BY DEF AttentionInv, PromptTypes, RunTypes
<1>b. Asking => Current \in Prompts /\ Current \in Nat /\ kind[Current] \in PromptKind
  BY CurrentIsPrompt
<1>c. FieldInv
  BY DEF AttentionInv
<1>1. CASE PublishReads \/ PublishSends \/ PublishDeferred \/ StopReads \/ StopWrites \/
           StopPublishes \/ (\E i \in Prompts : RemovesEntry(i)) \/
           (\E c \in Client, i \in Prompts, a \in {"allow", "dismiss"} : TakesEntry(c, i, a)) \/
           (\E c \in Client : Sends(c)) \/ PumpReads \/ SidebarSubscribes \/ SidebarSnapshot \/
           SidebarReads \/ UNCHANGED vars
  BY <1>1, <1>a, <1>b, <1>c DEF PublishReads, PublishSends, PublishDeferred, StopReads,
    StopWrites, StopPublishes, RemovesEntry, TakesEntry, Sends, PumpReads, SidebarSubscribes,
    SidebarSnapshot, SidebarReads, vars, FieldInv, Asking, Current, promptVars, runVars,
    readers, vars
<1>2. CASE StopFlags
  <2>1. \/ field' = [field EXCEPT !.rate_limit = FALSE]
        \/ field' = field /\ ~ field.rate_limit
    BY <1>2 DEF StopFlags
  <2>2. /\ \A j \in PromptKind : field'[j] = field[j]
        /\ field'.rate_limit = FALSE
    <3>1. CASE field' = [field EXCEPT !.rate_limit = FALSE]
      BY <1>a, <3>1, LimitIsSet
    <3>2. CASE field' = field /\ ~ field.rate_limit
      BY <1>a, <2>1, <3>2 DEF Fields
    <3> QED
      BY <2>1, <3>1, <3>2
  <2>3. UNCHANGED <<kind, Current>>
    BY <1>2 DEF StopFlags, promptVars, Current
  <2> QED
    BY <1>2, <1>a, <1>b, <1>c, <2>2, <2>3 DEF StopFlags, FieldInv
<1>3. CASE Registers
  BY <1>3, <1>a, <1>b, <1>c DEF Registers, FieldInv, Asking, Current
<1>4. CASE Raises
  <2>1. Asking
    BY <1>4 DEF Raises, Asking
  <2>2. field' = [field EXCEPT ![kind[Current]] = Current]
    BY <1>4 DEF Raises, Publishes
  <2>3. /\ field'[kind[Current]] = Current
        /\ \A j \in PromptKind \ {kind[Current]} : field'[j] = field[j]
        /\ field'.rate_limit = field.rate_limit
    BY <1>a, <1>b, <2>1, <2>2, FieldIsSet
  <2>4. UNCHANGED <<kind, Current>>
    BY <1>4 DEF Raises, Publishes, promptVars, Current
  <2> QED
    BY <1>4, <1>a, <1>b, <1>c, <2>1, <2>3, <2>4 DEF Raises, Publishes, FieldInv
<1>5. CASE Answered
  <2>1. Asking
    BY <1>5 DEF Answered, Asking
  <2>2. field' = [field EXCEPT ![kind[Current]] = 0]
    BY <1>5 DEF Answered, Returns, Publishes
  <2>3. /\ field'[kind[Current]] = 0
        /\ \A j \in PromptKind \ {kind[Current]} : field'[j] = field[j]
        /\ field'.rate_limit = field.rate_limit
    BY <1>a, <1>b, <2>1, <2>2, FieldIsSet
  <2>4. UNCHANGED <<kind, Current>>
    BY <1>5 DEF Answered, Returns, Publishes, promptVars, Current
  <2> QED
    BY <1>5, <1>a, <1>b, <1>c, <2>1, <2>3, <2>4 DEF Answered, Returns, Publishes, FieldInv
<1>6. CASE CallbackDropped
  <2>1. Asking /\ task' = "done" /\ UNCHANGED kind /\ task # "limited"
    BY <1>6 DEF CallbackDropped, Asking
  <2>2. CASE field' = field /\ field[kind[Current]] # Current
    BY <1>b, <1>c, <2>1, <2>2 DEF FieldInv
  <2>3. CASE field' = [field EXCEPT ![kind[Current]] = 0]
    <3>1. /\ field'[kind[Current]] = 0
          /\ \A j \in PromptKind \ {kind[Current]} : field'[j] = field[j]
          /\ field'.rate_limit = field.rate_limit
      BY <1>a, <1>b, <2>1, <2>3, FieldIsSet
    <3> QED
      BY <1>b, <1>c, <2>1, <3>1 DEF FieldInv
  <2> QED
    BY <1>6, <2>2, <2>3 DEF CallbackDropped, Publishes
<1>7. ASSUME NEW k \in PromptKind, Asks(k) PROVE FieldInv'
  BY <1>7, <1>a, <1>b, <1>c DEF Asks, FieldInv, Asking, Current
<1>8. CASE TimesOut
  <2>1. Asking
    BY <1>8 DEF TimesOut, Asking
  <2>2. field' = [field EXCEPT ![kind[Current]] = 0]
    BY <1>8 DEF TimesOut, Returns, Publishes
  <2>3. /\ field'[kind[Current]] = 0
        /\ \A j \in PromptKind \ {kind[Current]} : field'[j] = field[j]
        /\ field'.rate_limit = field.rate_limit
    BY <1>a, <1>b, <2>1, <2>2, FieldIsSet
  <2>4. UNCHANGED <<kind, Current>>
    BY <1>8 DEF TimesOut, Returns, Publishes, promptVars, Current
  <2> QED
    BY <1>8, <1>a, <1>b, <1>c, <2>1, <2>3, <2>4 DEF TimesOut, Returns, Publishes, FieldInv
<1>9. CASE LimitBegins
  <2>1. field' = [field EXCEPT !.rate_limit = TRUE]
    BY <1>9 DEF LimitBegins, Publishes
  <2>2. \A j \in PromptKind : field'[j] = field[j]
    BY <1>a, <2>1, LimitIsSet
  <2>3. UNCHANGED <<kind, Current>>
    BY <1>9 DEF LimitBegins, Publishes, promptVars, Current
  <2> QED
    BY <1>9, <1>a, <1>b, <1>c, <2>2, <2>3 DEF LimitBegins, Publishes, FieldInv
<1>10. CASE LimitEnds
  <2>1. \/ field' = [field EXCEPT !.rate_limit = FALSE]
        \/ field' = field /\ ~ field.rate_limit
    BY <1>10 DEF LimitEnds, Publishes
  <2>2. /\ \A j \in PromptKind : field'[j] = field[j]
        /\ field'.rate_limit = FALSE
    <3>1. CASE field' = [field EXCEPT !.rate_limit = FALSE]
      BY <1>a, <3>1, LimitIsSet
    <3>2. CASE field' = field /\ ~ field.rate_limit
      BY <1>a, <2>1, <3>2 DEF Fields
    <3> QED
      BY <2>1, <3>1, <3>2
  <2>3. UNCHANGED <<kind, Current>>
    BY <1>10 DEF LimitEnds, Publishes, promptVars, Current
  <2> QED
    BY <1>10, <1>a, <1>b, <1>c, <2>2, <2>3 DEF LimitEnds, Publishes, FieldInv
<1>11. CASE TaskAborted
  BY <1>11, <1>a, <1>b, <1>c DEF TaskAborted, FieldInv, Asking, Current
<1>12. ASSUME NEW s \in {"Completed", "Failed"}, Finishes(s) PROVE FieldInv'
  BY <1>12, <1>a, <1>b, <1>c DEF Finishes, FieldInv, Asking, Current
<1> QED
  BY <1>1, <1>2, <1>3, <1>4, <1>5, <1>6, <1>7, <1>8, <1>9, <1>10, <1>11, <1>12
  DEF Next, Publish, Stop, Prompt

\* Every step keeps a stop to what it has done.
LEMMA StopInvStep == AttentionInv /\ [Next]_vars => StopInv'
<1> SUFFICES ASSUME AttentionInv, [Next]_vars
             PROVE  StopInv'
  OBVIOUS
<1>a. RunTypes /\ StopInv /\ field \in Fields
  BY DEF AttentionInv, PromptTypes
<1>b. RunTypes /\ StopInv
  BY <1>a
<1>1. CASE PublishReads
  BY <1>1, <1>a DEF PublishReads, StopInv, RunTypes, Asking, StatusLocked, TaskIdle, Fields,
    promptVars, runVars, publishing, readers, vars
<1>2. CASE PublishSends
  BY <1>2, <1>a DEF PublishSends, StopInv, RunTypes, Asking, StatusLocked, TaskIdle, Fields,
    promptVars, runVars, publishing, readers, vars
<1>3. CASE PublishDeferred
  BY <1>3, <1>a DEF PublishDeferred, StopInv, RunTypes, Asking, StatusLocked, TaskIdle, Fields,
    promptVars, runVars, publishing, readers, vars
<1>4. CASE StopReads
  BY <1>4, <1>a
  DEF StopReads, StopInv, RunTypes, Asking, StatusLocked, TaskIdle, Fields, promptVars,
      publishing
<1>5. CASE StopFlags
  BY <1>5, <1>a
  DEF StopFlags, StopInv, RunTypes, Asking, StatusLocked, TaskIdle, Fields, promptVars,
      publishing
<1>6. CASE StopWrites
  BY <1>6, <1>a
  DEF StopWrites, StopInv, RunTypes, Asking, StatusLocked, TaskIdle, Fields, promptVars,
      publishing
<1>7. CASE StopPublishes
  BY <1>7, <1>a
  DEF StopPublishes, StopInv, RunTypes, Asking, StatusLocked, TaskIdle, Fields, promptVars,
      publishing
<1>8. CASE Registers
  BY <1>8, <1>a
  DEF Registers, StopInv, RunTypes, Asking, StatusLocked, TaskIdle, Fields, promptVars,
      publishing
<1>9. CASE Raises
  <2>1. Asking
    BY <1>9 DEF Raises, Asking
  <2>2. field' = [field EXCEPT ![kind[Current]] = Current] \/ field' = field
    BY <1>9 DEF Raises, Publishes
  <2>3. field'.rate_limit = field.rate_limit
    BY <1>a, <2>1, <2>2, CurrentIsPrompt, FieldIsSet
  <2> QED
    BY <1>9, <1>a, <2>3 DEF Raises, Publishes, StopInv, RunTypes, Asking, TaskIdle
<1>10. CASE Answered
  <2>1. Asking
    BY <1>10 DEF Answered, Asking
  <2>2. field' = [field EXCEPT ![kind[Current]] = 0] \/ field' = field
    BY <1>10 DEF Answered, Returns, Publishes
  <2>3. field'.rate_limit = field.rate_limit
    BY <1>a, <2>1, <2>2, CurrentIsPrompt, FieldIsSet
  <2> QED
    BY <1>10, <1>a, <2>3 DEF Answered, Returns, Publishes, StopInv, RunTypes, Asking, TaskIdle
<1>11. CASE CallbackDropped
  <2>1. Asking
    BY <1>11 DEF CallbackDropped, Asking
  <2>2. field' = [field EXCEPT ![kind[Current]] = 0] \/ field' = field
    BY <1>11 DEF CallbackDropped, Publishes
  <2>3. field'.rate_limit = field.rate_limit
    BY <1>a, <2>1, <2>2, CurrentIsPrompt, FieldIsSet
  <2> QED
    BY <1>11, <1>a, <2>3 DEF CallbackDropped, Publishes, StopInv, RunTypes, Asking, TaskIdle
<1>12. ASSUME NEW k \in PromptKind, Asks(k) PROVE StopInv'
  BY <1>12, <1>a
  DEF Asks, StopInv, RunTypes, Asking, StatusLocked, TaskIdle, Fields, promptVars, publishing
<1>13. CASE TimesOut
  <2>1. Asking
    BY <1>13 DEF TimesOut, Asking
  <2>2. field' = [field EXCEPT ![kind[Current]] = 0] \/ field' = field
    BY <1>13 DEF TimesOut, Returns, Publishes
  <2>3. field'.rate_limit = field.rate_limit
    BY <1>a, <2>1, <2>2, CurrentIsPrompt, FieldIsSet
  <2> QED
    BY <1>13, <1>a, <2>3 DEF TimesOut, Returns, Publishes, StopInv, RunTypes, Asking, TaskIdle
<1>14. CASE LimitBegins
  BY <1>14, <1>a
  DEF LimitBegins, Publishes, StopInv, RunTypes, Asking, StatusLocked, TaskIdle, Fields,
      promptVars
<1>15. CASE LimitEnds
  BY <1>15, <1>a
  DEF LimitEnds, Publishes, StopInv, RunTypes, Asking, StatusLocked, TaskIdle, Fields,
      promptVars
<1>16. CASE TaskAborted
  BY <1>16, <1>a
  DEF TaskAborted, StopInv, RunTypes, Asking, StatusLocked, TaskIdle, Fields, promptVars
<1>17. ASSUME NEW s \in {"Completed", "Failed"}, Finishes(s) PROVE StopInv'
  BY <1>17, <1>a
  DEF Finishes, StopInv, RunTypes, Asking, StatusLocked, TaskIdle, Fields, promptVars,
      publishing
<1>18. ASSUME NEW i \in Prompts, RemovesEntry(i) PROVE StopInv'
  BY <1>18, <1>a DEF RemovesEntry, StopInv, RunTypes, Asking, StatusLocked, TaskIdle, Fields,
    promptVars, runVars, publishing, readers, vars
<1>19. ASSUME NEW c \in Client, NEW i \in Prompts, NEW a \in {"allow", "dismiss"}, TakesEntry(c, i, a)
       PROVE StopInv'
  BY <1>19, <1>a DEF TakesEntry, StopInv, RunTypes, Asking, StatusLocked, TaskIdle, Fields,
    promptVars, runVars, publishing, readers, vars
<1>20. ASSUME NEW c \in Client, Sends(c) PROVE StopInv'
  BY <1>20, <1>a DEF Sends, StopInv, RunTypes, Asking, StatusLocked, TaskIdle, Fields,
    promptVars, runVars, publishing, readers, vars
<1>21. CASE PumpReads
  BY <1>21, <1>a DEF PumpReads, StopInv, RunTypes, Asking, StatusLocked, TaskIdle, Fields,
    promptVars, runVars, publishing, readers, vars
<1>22. CASE SidebarSubscribes
  BY <1>22, <1>a DEF SidebarSubscribes, StopInv, RunTypes, Asking, StatusLocked, TaskIdle,
    Fields, promptVars, runVars, publishing, readers, vars
<1>23. CASE SidebarSnapshot
  BY <1>23, <1>a DEF SidebarSnapshot, StopInv, RunTypes, Asking, StatusLocked, TaskIdle, Fields,
    promptVars, runVars, publishing, readers, vars
<1>24. CASE SidebarReads
  BY <1>24, <1>a DEF SidebarReads, StopInv, RunTypes, Asking, StatusLocked, TaskIdle, Fields,
    promptVars, runVars, publishing, readers, vars
<1>25. CASE UNCHANGED vars
  BY <1>25, <1>a DEF vars, StopInv, RunTypes, Asking, StatusLocked, TaskIdle, Fields,
    promptVars, runVars, publishing, readers, vars
<1> QED
  BY <1>1, <1>2, <1>3, <1>4, <1>5, <1>6, <1>7, <1>8, <1>9, <1>10, <1>11, <1>12, <1>13, <1>14,
     <1>15, <1>16, <1>17, <1>18, <1>19, <1>20, <1>21, <1>22, <1>23, <1>24, <1>25
  DEF Next, Publish, Stop, Prompt

\* Every step keeps the prompts, the run and its stop.
LEMMA AttentionInvStep == AttentionInv /\ [Next]_vars => AttentionInv'
  BY RunTypesStep, PromptTypesStep, FeedTypesStep, PromptInvStep, EntryInvStep, OutcomeInvStep,
     FieldInvStep, StopInvStep
  DEF AttentionInv

\* A run begins without a prompt.
LEMMA AttentionInvInit == Init => AttentionInv
<1> SUFFICES ASSUME Init PROVE AttentionInv
  OBVIOUS
<1>1. Len(kind) = 0 /\ Prompts = {} /\ kind \in Seq(PromptKind) /\ MaxWaits \in Nat
  BY AttentionConstants, EmptySeq DEF Init, Prompts
<1>2. RunTypes
  BY DEF Init, RunTypes
<1>3. PromptTypes
  BY <1>1 DEF Init, PromptTypes, Places, Fields
<1>4. FeedTypes
  <2>1. Happens("Running", NoFlag) \in Event
    BY DEF Happens, Event
  <2>2. feed \in Seq(Event) /\ Len(feed) = 1 /\ feed # <<>>
    BY <2>1 DEF Init
  <2> QED
    BY <2>1, <2>2 DEF Init, FeedTypes, Pumps, Sidebars
<1>5. PromptInv /\ EntryInv /\ OutcomeInv
  BY <1>1 DEF Init, PromptInv, EntryInv, OutcomeInv, Asking
<1>6. FieldInv /\ StopInv
  BY DEF Init, FieldInv, StopInv, Asking, PromptKind
<1> QED
  BY <1>2, <1>3, <1>4, <1>5, <1>6 DEF AttentionInv

\* What a run waits for is what its fields and its task say.
LEMMA PromptsCanBeAnswered == AttentionInv => PromptsAreAnswered
<1> SUFFICES ASSUME AttentionInv PROVE PromptsAreAnswered
  OBVIOUS
<1>1. /\ PromptTypes /\ Current \in Nat /\ MaxWaits \in Nat /\ Current <= MaxWaits
      /\ Prompts = 1 .. Current
  BY CurrentIsPrompt DEF AttentionInv
<1>2. PromptInv /\ EntryInv /\ OutcomeInv /\ FieldInv
  BY DEF AttentionInv
<1>3. AnswerIsObeyed
  <2> SUFFICES ASSUME NEW c \in Client, responder[c].at = "ok", NEW i, i = responder[c].prompt
               PROVE  /\ responder[c].says = "allow" => outcome[i] \in {"none", "allow", "dropped"}
                      /\ outcome[i] = "allow" => responder[c].says = "allow"
    BY DEF AnswerIsObeyed
  <2>1. i \in Prompts
    BY <1>2 DEF EntryInv
  <2>2. responder[c].says = "allow" => answer[i] = "allow"
    BY <1>2 DEF EntryInv
  <2>3. answer[i] # "open" => responder[c].says = answer[i]
    <3>1. SUFFICES ASSUME answer[i] # "open" PROVE responder[c].says = answer[i]
      OBVIOUS
    <3>2. PICK d \in Client : responder[d] = [at |-> "ok", prompt |-> i, says |-> answer[i]]
      BY <1>2, <2>1, <3>1 DEF EntryInv
    <3>3. responder[d].at = "ok" /\ responder[d].prompt = i /\ responder[d].says = answer[i]
      BY <3>2
    <3>4. c = d
      BY <1>2, <3>3 DEF EntryInv
    <3> QED
      BY <3>3, <3>4
  <2> QED
    BY <1>2, <2>1, <2>2, <2>3 DEF OutcomeInv
<1>4. WaitingIsAnswerable
  <2> SUFFICES ASSUME task = "waits" PROVE WaitingIsAnswerable
    BY DEF WaitingIsAnswerable
  <2>1. Current \in Prompts /\ kind[Current] \in PromptKind /\ Current > 0
    BY <1>1, CurrentIsPrompt DEF Asking
  <2>2. \A k \in PromptKind : field[k] # 0 <=> kind[Current] = k
    BY <1>2, <2>1 DEF FieldInv
  <2>3. CurrentAttention = kind[Current]
    BY <2>1, <2>2 DEF CurrentAttention, PromptKind
  <2> QED
    BY <1>2, <2>3 DEF EntryInv, WaitingIsAnswerable
<1> QED
  BY <1>3, <1>4 DEF PromptsAreAnswered

-----------------------------------------------------------------------------
(* The feed *)

\* The last event goes on to tell what there is.
LEMMA FeedInvStep == AttentionInv /\ FeedInv /\ [Next]_vars => FeedInv'
<1> SUFFICES ASSUME AttentionInv /\ FeedInv, [Next]_vars
             PROVE  FeedInv'
  OBVIOUS
<1>a. RunTypes /\ FeedTypes /\ StopInv /\ FeedInv
  BY DEF AttentionInv
<1>b. field \in Fields
  BY DEF AttentionInv, PromptTypes
<1>1. CASE StopReads \/ Registers \/ TaskAborted \/ (\E i \in Prompts : RemovesEntry(i)) \/
           (\E c \in Client, i \in Prompts, a \in {"allow", "dismiss"} : TakesEntry(c, i, a)) \/
           (\E c \in Client : Sends(c)) \/ (\E k \in PromptKind : Asks(k)) \/ PumpReads \/
           SidebarSubscribes \/ SidebarSnapshot \/ SidebarReads \/ UNCHANGED vars
  BY <1>1, <1>a DEF StopReads, Registers, TaskAborted, RemovesEntry, TakesEntry, Sends, Asks,
    PumpReads, SidebarSubscribes, SidebarSnapshot, SidebarReads, vars, FeedInv, RunTypes,
    StopInv, Truth, CurrentAttention, StatusLocked, TaskIdle, promptVars, runVars, publishing,
    readers, vars
<1>2. CASE PublishReads
  BY <1>2, <1>a DEF PublishReads, FeedInv, RunTypes, StopInv, Truth, CurrentAttention,
    StatusLocked, TaskIdle, promptVars, runVars, publishing, readers, vars
<1>3. CASE PublishSends
  <2>1. Last(feed') = Happens("Running", CurrentAttention)
    BY <1>3, <1>a, TruthIsEvent, FeedGrows DEF PublishSends
  <2>2. UNCHANGED <<status, CurrentAttention>>
    BY <1>3 DEF PublishSends, runVars, CurrentAttention
  <2> QED
    BY <2>1, <2>2 DEF FeedInv, Truth, Happens
<1>4. CASE PublishDeferred
  <2>1. UNCHANGED <<feed, status, stopper, publisher, field>>
    BY <1>4, <1>a DEF PublishDeferred, runVars, StopInv
  <2> QED
    BY <1>a, <2>1 DEF FeedInv, Truth, CurrentAttention, StatusLocked
<1>5. CASE StopFlags
  <2>1. /\ UNCHANGED <<feed, status, publisher>> /\ stopper = "flags" /\ stopper' = "enters"
        /\ field' = [field EXCEPT !.rate_limit = FALSE]
    BY <1>5 DEF StopFlags, publishing
  <2>2. /\ field'.permission = field.permission /\ field'.ask = field.ask
        /\ ~ field'.rate_limit
    BY <1>b, <2>1 DEF Fields
  <2>3. CurrentAttention' = CurrentAttention \/ CurrentAttention = "rate_limit"
    BY <2>2 DEF CurrentAttention
  <2> QED
    BY <1>a, <2>1, <2>3 DEF FeedInv, Truth, StatusLocked, Happens
<1>6. CASE StopWrites
  BY <1>6, <1>a
  DEF StopWrites, FeedInv, RunTypes, StopInv, Truth, CurrentAttention, StatusLocked, TaskIdle,
      promptVars
<1>7. CASE StopPublishes
  <2>1. Last(feed') = Happens("Stopped", NoFlag)
    BY <1>7, <1>a, TruthIsEvent, FeedGrows DEF StopPublishes
  <2>2. status' = "Stopped"
    BY <1>7, <1>a DEF StopPublishes, StopInv
  <2> QED
    BY <2>1, <2>2 DEF FeedInv
<1>8. CASE Raises
  BY <1>8, <1>a
  DEF Raises, Publishes, FeedInv, RunTypes, StopInv, Truth, CurrentAttention, StatusLocked,
      TaskIdle, promptVars
<1>9. CASE Answered
  BY <1>9, <1>a
  DEF Answered, Returns, Publishes, FeedInv, RunTypes, StopInv, Truth, CurrentAttention,
      StatusLocked, TaskIdle, promptVars
<1>10. CASE CallbackDropped
  BY <1>10, <1>a
  DEF CallbackDropped, Publishes, FeedInv, RunTypes, StopInv, Truth, CurrentAttention,
      StatusLocked, TaskIdle, promptVars
<1>11. CASE TimesOut
  BY <1>11, <1>a
  DEF TimesOut, Returns, Publishes, FeedInv, RunTypes, StopInv, Truth, CurrentAttention,
      StatusLocked, TaskIdle, promptVars
<1>12. CASE LimitBegins
  BY <1>12, <1>a
  DEF LimitBegins, Publishes, FeedInv, RunTypes, StopInv, Truth, CurrentAttention, StatusLocked,
      TaskIdle, promptVars
<1>13. CASE LimitEnds
  BY <1>13, <1>a
  DEF LimitEnds, Publishes, FeedInv, RunTypes, StopInv, Truth, CurrentAttention, StatusLocked,
      TaskIdle, promptVars
<1>14. ASSUME NEW s \in {"Completed", "Failed"}, Finishes(s) PROVE FeedInv'
  <2>1. CASE cancelled
    BY <1>14, <1>a, <2>1 DEF Finishes, publishing, FeedInv, Truth, CurrentAttention,
      StatusLocked
  <2>2. CASE ~ cancelled
    <3>1. s \in Terminal /\ s # "Running" /\ status' = s
      BY <1>14, <2>2 DEF Finishes, Terminal
    <3>2. Last(feed') = Happens(s, NoFlag)
      BY <1>14, <1>a, <2>2, <3>1, TruthIsEvent, FeedGrows DEF Finishes
    <3> QED
      BY <3>1, <3>2 DEF FeedInv
  <2> QED
    BY <2>1, <2>2
<1> QED
  BY <1>1, <1>2, <1>3, <1>4, <1>5, <1>6, <1>7, <1>8, <1>9, <1>10, <1>11, <1>12, <1>13, <1>14
  DEF Next, Publish, Stop, Prompt

\* Who has read everything has not, once an event is sent.
LEMMA SidebarFallsBehind ==
  ASSUME FeedTypes, NEW e \in Event, feed' = Append(feed, e), UNCHANGED sidebar
  PROVE  sidebar'.at # Len(feed')
<1>1. Len(feed') = Len(feed) + 1 /\ Len(feed) \in Nat
  BY FeedGrows
<1> QED
  BY <1>1 DEF FeedTypes, Sidebars

\* A sidebar goes on to have the last event or a fresh snapshot.
LEMMA SideInvStep == AttentionInv /\ SideInv /\ [Next]_vars => SideInv'
<1> SUFFICES ASSUME AttentionInv /\ SideInv, [Next]_vars
             PROVE  SideInv'
  OBVIOUS
<1>a. RunTypes /\ FeedTypes /\ StopInv /\ SideInv
  BY DEF AttentionInv
<1>b. field \in Fields
  BY DEF AttentionInv, PromptTypes
<1>1. CASE StopReads \/ Registers \/ TaskAborted \/ (\E i \in Prompts : RemovesEntry(i)) \/
           (\E c \in Client, i \in Prompts, a \in {"allow", "dismiss"} : TakesEntry(c, i, a)) \/
           (\E c \in Client : Sends(c)) \/ (\E k \in PromptKind : Asks(k)) \/ PumpReads \/
           UNCHANGED vars
  BY <1>1, <1>a DEF StopReads, Registers, TaskAborted, RemovesEntry, TakesEntry, Sends, Asks,
    PumpReads, vars, SideInv, RunTypes, StopInv, Truth, CurrentAttention, StatusLocked,
    TaskIdle, promptVars, runVars, publishing, readers, vars
<1>2. CASE PublishReads
  BY <1>2, <1>a DEF PublishReads, SideInv, RunTypes, StopInv, Truth, CurrentAttention,
    StatusLocked, TaskIdle, promptVars, runVars, publishing, readers, vars
<1>3. CASE PublishSends
  BY <1>3, <1>a, TruthIsEvent, SidebarFallsBehind DEF PublishSends, readers, SideInv
<1>4. CASE PublishDeferred
  <2>1. UNCHANGED <<feed, status, stopper, publisher, field, sidebar>>
    BY <1>4, <1>a DEF PublishDeferred, runVars, StopInv, readers
  <2> QED
    BY <1>a, <2>1 DEF SideInv, Truth, CurrentAttention, StatusLocked
<1>5. CASE StopFlags
  <2>1. /\ UNCHANGED <<feed, status, publisher, sidebar>>
        /\ stopper = "flags" /\ stopper' = "enters"
        /\ field' = [field EXCEPT !.rate_limit = FALSE]
    BY <1>5 DEF StopFlags, publishing, readers
  <2>2. /\ field'.permission = field.permission /\ field'.ask = field.ask
        /\ ~ field'.rate_limit
    BY <1>b, <2>1 DEF Fields
  <2>3. CurrentAttention' = CurrentAttention \/ CurrentAttention = "rate_limit"
    BY <2>2 DEF CurrentAttention
  <2> QED
    BY <1>a, <2>1, <2>3 DEF SideInv, Truth, StatusLocked, Happens
<1>6. CASE StopWrites
  BY <1>6, <1>a
  DEF StopWrites, SideInv, RunTypes, StopInv, Truth, CurrentAttention, StatusLocked, TaskIdle,
      promptVars
<1>7. CASE StopPublishes
  BY <1>7, <1>a, TruthIsEvent, SidebarFallsBehind DEF StopPublishes, readers, SideInv
<1>8. CASE Raises
  BY <1>8, <1>a
  DEF Raises, Publishes, SideInv, RunTypes, StopInv, Truth, CurrentAttention, StatusLocked,
      TaskIdle, promptVars, readers
<1>9. CASE Answered
  BY <1>9, <1>a
  DEF Answered, Returns, Publishes, SideInv, RunTypes, StopInv, Truth, CurrentAttention,
      StatusLocked, TaskIdle, promptVars, readers
<1>10. CASE CallbackDropped
  BY <1>10, <1>a
  DEF CallbackDropped, Publishes, SideInv, RunTypes, StopInv, Truth, CurrentAttention,
      StatusLocked, TaskIdle, promptVars, readers
<1>11. CASE TimesOut
  BY <1>11, <1>a
  DEF TimesOut, Returns, Publishes, SideInv, RunTypes, StopInv, Truth, CurrentAttention,
      StatusLocked, TaskIdle, promptVars, readers
<1>12. CASE LimitBegins
  BY <1>12, <1>a
  DEF LimitBegins, Publishes, SideInv, RunTypes, StopInv, Truth, CurrentAttention, StatusLocked,
      TaskIdle, promptVars
<1>13. CASE LimitEnds
  BY <1>13, <1>a
  DEF LimitEnds, Publishes, SideInv, RunTypes, StopInv, Truth, CurrentAttention, StatusLocked,
      TaskIdle, promptVars, readers
<1>14. ASSUME NEW s \in {"Completed", "Failed"}, Finishes(s) PROVE SideInv'
  <2>1. CASE cancelled
    BY <1>14, <1>a, <2>1
    DEF Finishes, publishing, readers, SideInv, Truth, CurrentAttention, StatusLocked
  <2>2. CASE ~ cancelled
    <3>1. s \in Terminal
      BY DEF Terminal
    <3> QED
      BY <1>14, <1>a, <2>2, <3>1, TruthIsEvent, SidebarFallsBehind
      DEF Finishes, readers, SideInv
  <2> QED
    BY <2>1, <2>2
<1>15. CASE SidebarSubscribes
  <2>1. sidebar'.mode = "subscribed"
    BY <1>15, <1>a DEF SidebarSubscribes, FeedTypes, Sidebars
  <2> QED
    BY <2>1 DEF SideInv
<1>16. CASE SidebarSnapshot
  <2>1. sidebar'.view = Truth
    BY <1>16, <1>a DEF SidebarSnapshot, FeedTypes, Sidebars
  <2> QED
    BY <1>16, <2>1 DEF SidebarSnapshot, runVars, SideInv, Truth, CurrentAttention
<1>17. CASE SidebarReads
  <2>1. /\ UNCHANGED <<feed, status, publisher, field, stopper>>
        /\ sidebar \in Sidebars /\ Len(feed) \in Nat /\ sidebar.at < Len(feed)
        /\ sidebar.at \in Nat
    BY <1>17, <1>a DEF SidebarReads, runVars, publishing, FeedTypes, Sidebars
  <2>2. CASE Lags(sidebar.at)
    <3>1. sidebar' = [sidebar EXCEPT !.at = Oldest, !.view = Truth]
      BY <1>17, <2>2 DEF SidebarReads
    <3>2. sidebar'.view = Truth
      BY <2>1, <3>1 DEF Sidebars
    <3> QED
      BY <2>1, <3>2 DEF SideInv, Truth, CurrentAttention
  <2>3. CASE ~ Lags(sidebar.at)
    <3>1. sidebar' = [sidebar EXCEPT !.at = @ + 1, !.view = feed[sidebar.at + 1]]
      BY <1>17, <2>3 DEF SidebarReads
    <3>2. sidebar'.at = sidebar.at + 1 /\ sidebar'.view = feed[sidebar.at + 1]
      BY <2>1, <3>1 DEF Sidebars
    <3>3. sidebar'.at = Len(feed) => sidebar'.view = Last(feed)
      BY <3>2 DEF Last
    <3> QED
      BY <2>1, <3>3 DEF SideInv
  <2> QED
    BY <2>2, <2>3
<1> QED
  BY <1>1, <1>2, <1>3, <1>4, <1>5, <1>6, <1>7, <1>8, <1>9, <1>10, <1>11, <1>12, <1>13, <1>14,
     <1>15, <1>16, <1>17
  DEF Next, Publish, Stop, Prompt

\* A sidebar that has read everything shows the run as it is.
LEMMA SidebarShows == AttentionInv /\ FeedInv /\ SideInv => SidebarIsCurrent
<1> SUFFICES ASSUME AttentionInv, FeedInv, SideInv,
                    sidebar.mode = "live", sidebar.at = Len(feed),
                    publisher = "idle", ~ StatusLocked,
                    ~ (status # "Running" /\ Last(feed).status = "Running")
             PROVE  \/ sidebar.view = Truth
                    \/ stopper = "enters" /\ sidebar.view = Happens("Running", "rate_limit")
  BY DEF SidebarIsCurrent
<1>1. CASE status = "Running"
  BY <1>1 DEF FeedInv, SideInv
<1>2. CASE status # "Running"
  BY <1>2 DEF FeedInv, SideInv, Truth
<1> QED
  BY <1>1, <1>2

-----------------------------------------------------------------------------
(* The dispatcher *)

\* Of one event more, one more may ask for something.
LEMMA NextPrompting ==
  ASSUME NEW f, NEW n \in Nat
  PROVE  /\ IsFiniteSet(Prompting(f, n)) /\ Cardinality(Prompting(f, n)) \in Nat
         /\ f[n + 1].attention \in PromptKind =>
              /\ Prompting(f, n + 1) = Prompting(f, n) \cup {n + 1}
              /\ Cardinality(Prompting(f, n + 1)) = Cardinality(Prompting(f, n)) + 1
         /\ f[n + 1].attention \notin PromptKind => Prompting(f, n + 1) = Prompting(f, n)
<1>1. IsFiniteSet(1 .. n)
  BY FS_Interval
<1>2. IsFiniteSet(Prompting(f, n))
  BY <1>1, FS_Subset DEF Prompting
<1>3. Cardinality(Prompting(f, n)) \in Nat
  BY <1>2, FS_CardinalityType
<1>4. \A j : j \in 1 .. (n + 1) <=> j \in 1 .. n \/ j = n + 1
  OBVIOUS
<1>5. CASE f[n + 1].attention \in PromptKind
  <2>1. Prompting(f, n + 1) = Prompting(f, n) \cup {n + 1}
    BY <1>4, <1>5 DEF Prompting
  <2>2. n + 1 \notin Prompting(f, n)
    BY DEF Prompting
  <2>3. Cardinality(Prompting(f, n) \cup {n + 1}) = Cardinality(Prompting(f, n)) + 1
    BY <1>2, <2>2, FS_AddElement
  <2> QED
    BY <1>2, <1>3, <1>5, <2>1, <2>3
<1>6. CASE f[n + 1].attention \notin PromptKind
  <2>1. Prompting(f, n + 1) = Prompting(f, n)
    BY <1>4, <1>6 DEF Prompting
  <2> QED
    BY <1>2, <1>3, <1>6, <2>1
<1> QED
  BY <1>5, <1>6

\* The events that were there are those that are.
LEMMA PromptingStays ==
  ASSUME FeedTypes, NEW e \in Event, feed' = Append(feed, e), NEW n \in 0 .. Len(feed)
  PROVE  Prompting(feed', n) = Prompting(feed, n)
<1>1. \A j \in 1 .. n : feed'[j] = feed[j]
  BY FeedGrows
<1> QED
  BY <1>1 DEF Prompting

\* A run that nothing has ended asks when its task waits and not else.
LEMMA AsksWhenWaiting ==
  ASSUME AttentionInv
  PROVE  CurrentAttention \in PromptKind <=> task = "waits"
<1>1. FieldInv /\ (Asking => Current \in Nat /\ Current > 0 /\ kind[Current] \in PromptKind)
  BY CurrentIsPrompt DEF AttentionInv, PromptInv
<1>2. CASE task = "waits"
  <2>1. field["permission"] # 0 \/ field["ask"] # 0
    BY <1>1, <1>2 DEF FieldInv, Asking, PromptKind
  <2> QED
    BY <1>2, <2>1 DEF CurrentAttention, PromptKind
<1>3. CASE task # "waits"
  <2>1. field["permission"] = 0 /\ field["ask"] = 0
    BY <1>1, <1>3 DEF FieldInv, PromptKind
  <2> QED
    BY <1>3, <2>1 DEF CurrentAttention, PromptKind, NoFlag
<1> QED
  BY <1>2, <1>3

\* A run that goes on was going on.
LEMMA LiveSoFar ==
  ASSUME AttentionInv, [Next]_vars, status' = "Running", ~ cancelled'
  PROVE  status = "Running" /\ ~ cancelled
<1>1. RunTypes /\ StopInv
  BY DEF AttentionInv
<1>2. CASE StopWrites \/ StopFlags
  BY <1>1, <1>2 DEF StopWrites, StopFlags, StopInv
<1>3. CASE \E s \in {"Completed", "Failed"} : Finishes(s)
  BY <1>1, <1>3 DEF Finishes
<1>4. CASE UNCHANGED <<status, cancelled>>
  BY <1>4
<1>5. UNCHANGED <<status, cancelled>> \/ StopWrites \/ StopFlags
        \/ \E s \in {"Completed", "Failed"} : Finishes(s)
  BY DEF Next, Publish, PublishReads, PublishSends, PublishDeferred, Stop, StopReads,
         StopPublishes, Prompt, Registers, Raises, Answered, Returns, CallbackDropped, Asks,
         TimesOut, LimitBegins, LimitEnds, TaskAborted, RemovesEntry, TakesEntry, Sends,
         PumpReads, SidebarSubscribes, SidebarSnapshot, SidebarReads, vars, runVars
<1> QED
  BY <1>2, <1>3, <1>4, <1>5

\* The dispatcher goes on to push once for each prompt.
LEMMA PushInvStep == AttentionInv /\ FeedInv /\ PushInv /\ [Next]_vars => PushInv'
<1> SUFFICES ASSUME AttentionInv /\ FeedInv /\ PushInv, [Next]_vars
             PROVE  PushInv'
  OBVIOUS
<1>0. RunTypes /\ FeedTypes /\ StopInv /\ FeedInv /\ PushInv
  BY DEF AttentionInv
<1> DEFINE Pushes ==
      /\ \A j \in 1 .. Len(feed) :
           /\ feed[j].status = "Running"
           /\ feed[j].attention \in PromptKind => j > 1 /\ feed[j - 1].attention \notin PromptKind
      /\ publisher # "idle" /\ task # "works" => Last(feed).attention \notin PromptKind
      /\ Cardinality(Prompting(feed, Len(feed))) = Told
      /\ ~ pump.lagged =>
           /\ pump.pushes = Cardinality(Prompting(feed, pump.at))
           /\ pump.announced = {feed[j].attention : j \in Prompting(feed, pump.at) \cap {pump.at}}
<1> SUFFICES ASSUME status' = "Running", ~ cancelled' PROVE Pushes'
  BY DEF PushInv
<1>d. status = "Running" /\ ~ cancelled
  BY LiveSoFar
<1>a. RunTypes /\ FeedTypes /\ StopInv
  BY <1>0
<1>b. PromptTypes /\ Current \in Nat
  BY CurrentIsPrompt DEF AttentionInv
<1>c. Pushes
  BY <1>0, <1>d DEF PushInv
<1>e. publisher = "idle" /\ task # "waits" => Last(feed).attention \notin PromptKind
  <2>1. publisher = "idle" => Last(feed) = Truth
    BY <1>0, <1>a, <1>d DEF FeedInv, StopInv
  <2>2. Truth.attention = CurrentAttention
    BY <1>d DEF Truth, Happens
  <2> QED
    BY <2>1, <2>2, AsksWhenWaiting
<1>1. CASE StopReads \/ (\E i \in Prompts : RemovesEntry(i)) \/
           (\E c \in Client, i \in Prompts, a \in {"allow", "dismiss"} : TakesEntry(c, i, a)) \/
           (\E c \in Client : Sends(c)) \/ SidebarSubscribes \/ SidebarSnapshot \/ SidebarReads \/
           UNCHANGED vars
  BY <1>1, <1>a, <1>c
  DEF StopReads, RemovesEntry, TakesEntry, Sends, SidebarSubscribes, SidebarSnapshot,
      SidebarReads, vars, runVars, promptVars, publishing, readers, Told, Current, Asking
<1>2. CASE PublishDeferred \/ StopFlags \/ StopWrites \/ StopPublishes \/ CallbackDropped \/
           TaskAborted \/ (\E s \in {"Completed", "Failed"} : Finishes(s))
  BY <1>2, <1>a, <1>d
  DEF PublishDeferred, StopFlags, StopWrites, StopPublishes, CallbackDropped, TaskAborted,
      Finishes, StopInv
<1>3. CASE PublishReads
  <2>1. /\ UNCHANGED <<feed, pump>> /\ Told' = Told
        /\ publisher' # "idle" /\ task' # "works" =>
             \/ task # "waits" /\ publisher = "idle"
             \/ publisher # "idle" /\ task # "works"
    BY <1>3, <1>a, <1>b, <1>d DEF PublishReads, runVars, promptVars, publishing, readers,
      TaskIdle, StatusLocked, Told, Current, Asking, StopInv, RunTypes
  <2> QED
    BY <1>c, <1>e, <2>1
<1>4. CASE Registers
  <2>1. /\ UNCHANGED <<feed, pump>> /\ Told' = Told
        /\ publisher' # "idle" /\ task' # "works" =>
             \/ task # "waits" /\ publisher = "idle"
             \/ publisher # "idle" /\ task # "works"
    BY <1>4, <1>a, <1>b, <1>d DEF Registers, runVars, promptVars, publishing, readers, TaskIdle,
      StatusLocked, Told, Current, Asking, StopInv, RunTypes
  <2> QED
    BY <1>c, <1>e, <2>1
<1>5. CASE Raises
  <2>1. /\ UNCHANGED <<feed, pump>> /\ Told' = Told
        /\ publisher' # "idle" /\ task' # "works" =>
             \/ task # "waits" /\ publisher = "idle"
             \/ publisher # "idle" /\ task # "works"
    BY <1>5, <1>a, <1>b, <1>d DEF Raises, Publishes, runVars, promptVars, publishing, readers,
      TaskIdle, StatusLocked, Told, Current, Asking, StopInv, RunTypes
  <2> QED
    BY <1>c, <1>e, <2>1
<1>6. CASE Answered
  <2>1. /\ UNCHANGED <<feed, pump>> /\ Told' = Told
        /\ publisher' # "idle" /\ task' # "works" =>
             \/ task # "waits" /\ publisher = "idle"
             \/ publisher # "idle" /\ task # "works"
    BY <1>6, <1>a, <1>b, <1>d DEF Answered, Returns, Publishes, runVars, promptVars, publishing,
      readers, TaskIdle, StatusLocked, Told, Current, Asking, StopInv, RunTypes
  <2> QED
    BY <1>c, <1>e, <2>1
<1>7. CASE TimesOut
  <2>1. /\ UNCHANGED <<feed, pump>> /\ Told' = Told
        /\ publisher' # "idle" /\ task' # "works" =>
             \/ task # "waits" /\ publisher = "idle"
             \/ publisher # "idle" /\ task # "works"
    BY <1>7, <1>a, <1>b, <1>d DEF TimesOut, Returns, Publishes, runVars, promptVars, publishing,
      readers, TaskIdle, StatusLocked, Told, Current, Asking, StopInv, RunTypes
  <2> QED
    BY <1>c, <1>e, <2>1
<1>8. CASE LimitBegins
  <2>1. /\ UNCHANGED <<feed, pump>> /\ Told' = Told
        /\ publisher' # "idle" /\ task' # "works" =>
             \/ task # "waits" /\ publisher = "idle"
             \/ publisher # "idle" /\ task # "works"
    BY <1>8, <1>a, <1>b, <1>d DEF LimitBegins, Publishes, runVars, promptVars, publishing,
      readers, TaskIdle, StatusLocked, Told, Current, Asking, StopInv, RunTypes
  <2> QED
    BY <1>c, <1>e, <2>1
<1>9. CASE LimitEnds
  <2>1. /\ UNCHANGED <<feed, pump>> /\ Told' = Told
        /\ publisher' # "idle" /\ task' # "works" =>
             \/ task # "waits" /\ publisher = "idle"
             \/ publisher # "idle" /\ task # "works"
    BY <1>9, <1>a, <1>b, <1>d DEF LimitEnds, Publishes, runVars, promptVars, publishing,
      readers, TaskIdle, StatusLocked, Told, Current, Asking, StopInv, RunTypes
  <2> QED
    BY <1>c, <1>e, <2>1
<1>10. ASSUME NEW k \in PromptKind, Asks(k) PROVE Pushes'
  <2>1. /\ UNCHANGED <<feed, pump>> /\ publisher' = "idle" /\ Told' = Told
    <3>1. Current' = Current + 1
      BY <1>10, <1>b, KindGrows DEF Asks
    <3> QED
      BY <1>10, <1>b, <3>1 DEF Asks, publishing, readers, TaskIdle, Told
  <2> QED
    BY <1>c, <1>e, <2>1
<1>11. CASE PublishSends
  <2> DEFINE e == Happens("Running", CurrentAttention)
               n == Len(feed)
  <2>1. /\ publisher = "sends" /\ publisher' = "idle" /\ feed' = Append(feed, e)
        /\ UNCHANGED <<task, kind, pump>>
    BY <1>11 DEF PublishSends, runVars, promptVars, readers
  <2>2. e \in Event /\ e.status = "Running" /\ e.attention = CurrentAttention
    BY <1>a, TruthIsEvent DEF Happens
  <2>3. /\ n \in Nat \ {0} /\ Len(feed') = n + 1 /\ feed'[n + 1] = e
        /\ \A j \in 1 .. n : feed'[j] = feed[j]
    BY <1>a, <2>1, <2>2, FeedGrows
  <2>4. /\ Prompting(feed', n) = Prompting(feed, n)
        /\ Prompting(feed', pump.at) = Prompting(feed, pump.at)
    BY <1>a, <2>1, <2>2, <2>3, PromptingStays DEF FeedTypes, Pumps
  <2>5. e.attention \in PromptKind <=> task = "waits"
    BY <2>2, AsksWhenWaiting
  <2>6. e.attention \in PromptKind => feed[n].attention \notin PromptKind
    BY <1>c, <2>1, <2>5 DEF Last
  <2> HIDE DEF e, n
  <2>7. \A j \in 1 .. (n + 1) :
          /\ feed'[j].status = "Running"
          /\ feed'[j].attention \in PromptKind => j > 1 /\ feed'[j - 1].attention \notin PromptKind
    <3>1. ASSUME NEW j \in 1 .. n
          PROVE  /\ feed'[j].status = "Running"
                 /\ feed'[j].attention \in PromptKind =>
                      j > 1 /\ feed'[j - 1].attention \notin PromptKind
      <4>1. /\ feed[j].status = "Running"
            /\ feed[j].attention \in PromptKind => j > 1 /\ feed[j - 1].attention \notin PromptKind
        BY <1>c, <3>1 DEF n
      <4>2. feed'[j] = feed[j] /\ (j > 1 => feed'[j - 1] = feed[j - 1])
        BY <2>3, <3>1
      <4> QED
        BY <4>1, <4>2
    <3>2. n >= 1 /\ feed'[n] = feed[n] /\ (n + 1) - 1 = n
      BY <2>3
    <3>3. /\ feed'[n + 1].status = "Running"
          /\ feed'[n + 1].attention \in PromptKind =>
               n + 1 > 1 /\ feed'[(n + 1) - 1].attention \notin PromptKind
      BY <2>2, <2>3, <2>6, <3>2
    <3>4. \A j \in 1 .. (n + 1) : j \in 1 .. n \/ j = n + 1
      BY <2>3
    <3> QED
      BY <3>1, <3>3, <3>4
  <2>8. Cardinality(Prompting(feed', n + 1)) = Told'
    <3>1. Cardinality(Prompting(feed, n)) = Told
      BY <1>c DEF n
    <3>2. UNCHANGED Current /\ Current \in Nat
      BY <1>b, <2>1 DEF Current
    <3>3. task \notin {"enters", "raises"}
      BY <1>a, <2>1 DEF StopInv, Asking
    <3>4. Told' = Current /\ Told = (IF task = "waits" THEN Current - 1 ELSE Current)
      BY <2>1, <3>2, <3>3 DEF Told
    <3>5. /\ task = "waits" => Cardinality(Prompting(feed', n + 1)) = Cardinality(Prompting(feed, n)) + 1
          /\ task # "waits" => Prompting(feed', n + 1) = Prompting(feed, n)
      BY <2>3, <2>4, <2>5, NextPrompting
    <3> QED
      BY <3>1, <3>2, <3>4, <3>5
  <2>9. ~ pump.lagged =>
          /\ pump.pushes = Cardinality(Prompting(feed', pump.at))
          /\ pump.announced = {feed'[j].attention : j \in Prompting(feed', pump.at) \cap {pump.at}}
    <3>1. \A j \in Prompting(feed, pump.at) : feed'[j] = feed[j]
      <4>1. pump.at \in Nat /\ pump.at <= n
        BY <1>a DEF FeedTypes, Pumps, n
      <4> QED
        BY <2>3, <4>1 DEF Prompting
    <3> QED
      BY <1>c, <2>4, <3>1
  <2> QED
    BY <2>1, <2>3, <2>7, <2>8, <2>9
<1>12. CASE PumpReads
  <2> DEFINE a == pump.at
               att == feed[a + 1].attention
  <2>1. /\ UNCHANGED <<feed, task, kind, publisher>> /\ pump \in Pumps /\ a < Len(feed)
        /\ Len(feed) \in Nat /\ a \in Nat /\ Told' = Told
    BY <1>12, <1>a
    DEF PumpReads, FeedTypes, Pumps, runVars, promptVars, publishing, Told, Current
  <2>2. CASE Lags(a)
    <3>1. pump'.lagged
      BY <1>12, <2>1, <2>2 DEF PumpReads, Pumps
    <3> QED
      BY <1>c, <2>1, <3>1
  <2>3. CASE ~ Lags(a) /\ ~ pump.lagged
    <3> DEFINE next == Decide(pump.announced, feed[a + 1])
    <3>1. /\ pump'.at = a + 1 /\ ~ pump'.lagged /\ pump'.announced = next.announced
          /\ pump'.pushes = IF next.push THEN pump.pushes + 1 ELSE pump.pushes
      BY <1>12, <2>1, <2>3 DEF PumpReads, Pumps
    <3>2. /\ feed[a + 1].status = "Running"
          /\ att \in PromptKind => a + 1 > 1 /\ feed[(a + 1) - 1].attention \notin PromptKind
      BY <1>c, <2>1
    <3>3. /\ pump.pushes = Cardinality(Prompting(feed, a))
          /\ pump.announced = {feed[j].attention : j \in Prompting(feed, a) \cap {a}}
      BY <1>c, <2>3
    <3>4. CASE att \in PromptKind
      <4>1. a \notin Prompting(feed, a)
        BY <2>1, <3>2, <3>4 DEF Prompting
      <4>2. pump.announced = {}
        BY <3>3, <4>1
      <4>3. next.push /\ next.announced = {att}
        BY <3>2, <3>4, <4>2 DEF Decide
      <4>4. /\ Prompting(feed, a + 1) = Prompting(feed, a) \cup {a + 1}
            /\ Cardinality(Prompting(feed, a + 1)) = Cardinality(Prompting(feed, a)) + 1
        BY <2>1, <3>4, NextPrompting
      <4>5. {feed[j].attention : j \in Prompting(feed, a + 1) \cap {a + 1}} = {att}
        BY <4>4
      <4>6. pump'.pushes = Cardinality(Prompting(feed, a + 1))
        BY <3>1, <3>3, <4>3, <4>4
      <4>7. pump'.announced = {feed[j].attention : j \in Prompting(feed, a + 1) \cap {a + 1}}
        BY <3>1, <4>3, <4>5
      <4> HIDE DEF next, att
      <4> QED
        BY <1>c, <2>1, <3>1, <4>6, <4>7
    <3>5. CASE att \notin PromptKind
      <4>1. ~ next.push /\ next.announced = {}
        BY <3>2, <3>5 DEF Decide
      <4>2. Prompting(feed, a + 1) = Prompting(feed, a)
        BY <2>1, <3>5, NextPrompting
      <4>3. {feed[j].attention : j \in Prompting(feed, a + 1) \cap {a + 1}} = {}
        BY <3>5 DEF Prompting
      <4> HIDE DEF next, att
      <4> QED
        BY <1>c, <2>1, <3>1, <3>3, <4>1, <4>2, <4>3
    <3> QED
      BY <3>4, <3>5
  <2>4. CASE ~ Lags(a) /\ pump.lagged
    <3>1. pump'.lagged
      BY <1>12, <2>1, <2>4 DEF PumpReads, Pumps
    <3> QED
      BY <1>c, <2>1, <3>1
  <2> QED
    BY <2>2, <2>3, <2>4
<1> QED
  BY <1>1, <1>2, <1>3, <1>4, <1>5, <1>6, <1>7, <1>8, <1>9, <1>10, <1>11, <1>12
  DEF Next, Publish, Stop, Prompt

\* As many as were told are as many as there are.
LEMMA PushesAreCounted == AttentionInv /\ PushInv => EachPromptIsPushed
<1> DEFINE Raised == {i \in Prompts : i < Current \/ task \notin {"enters", "raises"}}
<1> SUFFICES ASSUME AttentionInv, PushInv, pump.at = Len(feed), ~ pump.lagged,
                    publisher = "idle", status = "Running", ~ cancelled
             PROVE  pump.pushes = Cardinality(Raised)
  BY DEF EachPromptIsPushed
<1>1. /\ Current \in Nat /\ Prompts = 1 .. Current
      /\ task \in {"enters", "raises"} => Current > 0
  BY CurrentIsPrompt DEF AttentionInv, PromptInv, Asking
<1>2. pump.pushes = Told /\ Told \in Nat
  BY <1>1 DEF PushInv, Told
<1>3. Raised = 1 .. Told
  BY <1>1, <1>2 DEF Told
<1>4. Cardinality(1 .. Told) = Told
  <2>1. Cardinality(1 .. Told) = IF 1 > Told THEN 0 ELSE Told - 1 + 1
    BY <1>2, FS_Interval
  <2> QED
    BY <1>2, <2>1
<1> QED
  BY <1>2, <1>3, <1>4

-----------------------------------------------------------------------------
(* Theorems *)

\* The prompts, the feed and its readers beside one another.
FeedsInv == AttentionInv /\ FeedInv /\ SideInv /\ PushInv

\* Nothing has been asked or told at first, and nobody reads yet.
LEMMA FeedsInvInit == Init => FeedsInv
<1> SUFFICES ASSUME Init PROVE FeedsInv
  OBVIOUS
<1>1. /\ feed = <<Happens("Running", NoFlag)>> /\ Len(feed) = 1 /\ feed[1] = Happens("Running", NoFlag)
      /\ Last(feed) = feed[1]
  BY DEF Init, Last
<1>2. NoFlag \notin PromptKind /\ Happens("Running", NoFlag).attention = NoFlag
      /\ Happens("Running", NoFlag).status = "Running"
  BY DEF NoFlag, PromptKind, Happens
<1>3. Truth = Happens("Running", NoFlag)
  BY DEF Init, Truth, CurrentAttention
<1>4. FeedInv /\ SideInv
  BY <1>1, <1>3 DEF Init, FeedInv, SideInv
<1>5. PushInv
  <2>1. Prompting(feed, 1) = {} /\ Prompting(feed, 0) = {}
    BY <1>1, <1>2 DEF Prompting
  <2>2. Cardinality({}) = 0
    BY FS_EmptySet
  <2>3. Told = 0
    BY DEF Init, Told, Current
  <2>4. {feed[j].attention : j \in Prompting(feed, pump.at) \cap {pump.at}} = {}
    BY <2>1 DEF Init
  <2>5. \A j \in 1 .. Len(feed) : feed[j].status = "Running" /\ feed[j].attention \notin PromptKind
    <3>1. \A j \in 1 .. Len(feed) : j = 1
      BY <1>1
    <3> QED
      BY <1>1, <1>2, <3>1
  <2>6. pump.at = 0 /\ pump.pushes = 0 /\ pump.announced = {} /\ publisher = "idle"
    BY DEF Init
  <2>7. /\ Cardinality(Prompting(feed, Len(feed))) = Told
        /\ pump.pushes = Cardinality(Prompting(feed, pump.at))
    BY <1>1, <2>1, <2>2, <2>3, <2>6
  <2> QED
    BY <2>4, <2>5, <2>6, <2>7 DEF PushInv
<1> QED
  BY <1>4, <1>5, AttentionInvInit DEF FeedsInv

\* Every step keeps them.
LEMMA FeedsInvStep == FeedsInv /\ [Next]_vars => FeedsInv'
  BY AttentionInvStep, FeedInvStep, SideInvStep, PushInvStep DEF FeedsInv

\* FeedsInv holds of every reachable state.
LEMMA FeedsInvariance == Spec => []FeedsInv
  BY FeedsInvInit, FeedsInvStep, PTL DEF Spec

\* An answer that a client was told is OK is the one the agent gets, and while
\* the run waits somebody can answer it (permissions.rs), whatever clients,
\* time-outs, late removals and stops do meanwhile.
THEOREM PromptsAreAlwaysAnswered == Spec => []PromptsAreAnswered
<1>1. FeedsInv => PromptsAreAnswered
  BY PromptsCanBeAnswered DEF FeedsInv
<1> QED
  BY <1>1, FeedsInvariance, PTL

\* A sidebar that has read everything shows the run as it is (thread_runner.rs,
\* runs_events of runs.rs), however small the channel, unless an event of
\* attention has come after the terminal one.
THEOREM SidebarIsAlwaysCurrent == Spec => []SidebarIsCurrent
<1>1. FeedsInv => SidebarIsCurrent
  BY SidebarShows DEF FeedsInv
<1> QED
  BY <1>1, FeedsInvariance, PTL

\* A dispatcher that has lost nothing has sent one push for each prompt
\* (decide of push/dispatch.rs).
THEOREM EachPromptIsPushedOnce == Spec => []EachPromptIsPushed
<1>1. FeedsInv => EachPromptIsPushed
  BY PushesAreCounted DEF FeedsInv
<1> QED
  BY <1>1, FeedsInvariance, PTL

=============================================================================
