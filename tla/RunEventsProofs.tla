--------------------------- MODULE RunEventsProofs ---------------------------
(***************************************************************************)
(* Proofs about RunEvents, for any capacity of the channel and any number  *)
(* of parts, prompts and broken connections: what a watching client shows  *)
(* is what the run is at, and who gave up the stream did so at its end.    *)
(***************************************************************************)
EXTENDS RunEvents, FiniteSetTheorems, TLAPS

-----------------------------------------------------------------------------
(* The inductive invariant *)

\* The events that end a run, and those that do not.
LastEvent == {"done", "error", "stopped"}
Live == {"part", "prompt"}

Events == [event : Live \cup LastEvent, body : Nat]
Outs == [event : {"none"} \cup Live \cup LastEvent, body : Nat, seq : Nat]
Snaps == [for : {"none", "stream", "probe"}, at : {"parts", "prompt", "seq", "status"},
          parts : Nat, prompt : Nat, seq : Nat, torn : BOOLEAN]
Views == [phase : {"idle", "running"} \cup Terminal, parts : Seq(Nat), prompt : Nat,
          lastSeq : Nat, torn : BOOLEAN, wiped : BOOLEAN]
Replies == [prompt : Nat, at : {"none", "asked", "taken"}]

\* What is on the way to the channel has no number above n.
OutUpTo(x, n) == x \in Outs /\ x.seq <= n /\ (x.event = "none" => x = Nothing)
OutsUpTo(o, n) == o \in [Emitter -> Outs] /\ \A e \in Emitter : OutUpTo(o[e], n)

\* In o, what e emits is replaced.
Puts(o, p, e, x) == p = [o EXCEPT ![e] = x]

\* The types of the run, of its channel and of the client.
RunTypes ==
  /\ status \in {"running"} \cup Terminal
  /\ parts \in Nat /\ prompt \in Nat
  /\ task \in {"working", "asking", "finishing", "failing", "closing", "ended"}
  /\ stop \in {"idle", "closing", "ended"}
ChannelTypes ==
  /\ issued \in Seq(Events) /\ sent \in Seq(Nat)
  /\ \A i \in 1 .. Len(sent) : sent[i] \in 1 .. Len(issued)
  /\ closed \in BOOLEAN /\ initial \in BOOLEAN
  /\ OutsUpTo(out, Len(issued))
ClientTypes ==
  /\ snap \in Snaps /\ snap.seq <= Len(issued)
  /\ rx \in Nat /\ rx <= Len(sent) + 1
  /\ mode \in {"connecting", "stream", "probe", "tail", "settled"}
  /\ snap.for # "none" => mode = snap.for
  /\ snap.for = "none" => snap.at = "parts"
  /\ view \in Views /\ view.lastSeq <= Len(issued)
  /\ drops \in Nat
Types == RunTypes /\ ChannelTypes /\ ClientTypes

\* Who writes what, and that nothing is over while the run goes on.
OverInv ==
  /\ \A n \in 1 .. Len(issued) : issued[n].event \in LastEvent => status # "running"
  /\ \A e \in Emitter : out[e].event \in LastEvent => status # "running"
  /\ mode \in {"tail", "settled"} => status # "running"
  /\ mode = "settled" => view.phase # "running"
  /\ stop # "idle" => status = "stopped"
  /\ out["stop"].event \in {"none", "stopped"}
  /\ out["stop"].event = "stopped" => stop = "closing"
  /\ task \in {"closing", "ended"} \/ closed => status # "running"
  /\ status \in {"completed", "failed"} => task \in {"closing", "ended"}
  /\ task \in {"working", "finishing", "failing"} => out["task"].event \in {"none", "part"}
  /\ task = "asking" => out["task"].event \in {"none", "prompt"}
  /\ out["task"].event = "prompt" => task = "asking"
  /\ mode = "stream" /\ ~ closed => rx > 0

\* While the run goes on, its events are numbered and sent one by one, and the
\* i-th part is i.
PipeInv ==
  status = "running" =>
    /\ \A i \in 1 .. Len(sent) : sent[i] = i
    /\ IF out["task"].seq = 0
       THEN Len(sent) = Len(issued)
       ELSE out["task"].seq = Len(issued) /\ Len(issued) = Len(sent) + 1
    /\ \A n \in 1 .. Len(issued) : issued[n].event = "part" => issued[n].body = PartsIn(n)
    /\ IF out["task"].event = "part" /\ out["task"].seq = 0
       THEN out["task"].body = parts /\ parts = PartsIn(Len(issued)) + 1
       ELSE parts = PartsIn(Len(issued))

\* In f, the event q asks p, and nothing but a stop comes after it.
Asked(f, p, q) ==
  /\ q \in 1 .. Len(f) /\ f[q] = [event |-> "prompt", body |-> p]
  /\ \A m \in q + 1 .. Len(f) : f[m].event = "stopped"

\* A run that waits for the user has an event for it, or is about to.
AskInv ==
  /\ \A n \in 1 .. Len(issued) : issued[n].event = "prompt" => issued[n].body <= Raised
  /\ task = "asking" =>
       \/ out["task"] = [event |-> "prompt", body |-> prompt, seq |-> 0] /\ prompt = Raised + 1
       \/ /\ prompt = Raised
          /\ \E q \in 1 .. Len(issued) :
               /\ Asked(issued, prompt, q)
               /\ out["task"] \in {Nothing, [event |-> "prompt", body |-> prompt, seq |-> q]}

\* Who has seen the events of f up to n and reads the channel s from r on is
\* going to get the one that asks p: it is there, or o is about to be sent.
ToCome(f, p, s, r, o, n) ==
  \A q \in n + 1 .. Len(f) :
    Asked(f, p, q) => o["task"].seq = q \/ \E j \in r .. Len(s) : s[j] = q

\* A snapshot that is not torn has the parts and the prompt of its number.
SnapInv ==
  snap.at = "status" =>
    /\ ~ snap.torn =>
         /\ snap.parts = PartsIn(snap.seq)
         /\ task = "asking" =>
              \A q \in 1 .. snap.seq : Asked(issued, prompt, q) => snap.prompt = prompt
    /\ snap.for = "stream" =>
         /\ status = "running" => rx <= snap.seq + 1
         /\ task = "asking" /\ ~ closed => ToCome(issued, prompt, sent, rx, out, snap.seq)

\* So has a view, and its client goes on with the next event.
ViewInv ==
  /\ ViewIsRun
  /\ Listening =>
       /\ status = "running" => rx <= view.lastSeq + 1 /\ view.phase = "running"
       /\ task = "asking" /\ ~ closed => ToCome(issued, prompt, sent, rx, out, view.lastSeq)
       /\ task = "asking" /\ ~ taken /\ ~ view.torn /\ ~ view.wiped =>
            \A q \in 1 .. view.lastSeq : Asked(issued, prompt, q) => view.prompt = prompt

\* An answer that the server has taken was to a prompt that has been raised. If
\* the run still waits on that one, it has its answer.
ReplyInv ==
  /\ reply \in Replies /\ taken \in BOOLEAN
  /\ reply.at = "taken" =>
       \/ task = "ended"
       \/ reply.prompt <= Raised /\ (task = "asking" /\ reply.prompt = prompt => taken)
       \/ task = "asking" /\ reply.prompt = prompt /\ taken

\* The run, its channel and its client go on, and an answer is not waited for
\* any more once the callback goes on.
Watches == (Watching /\ taken' = (taken /\ task' = "asking")) \/ UNCHANGED <<watched, taken>>

WatchInv == Types /\ OverInv /\ PipeInv /\ AskInv /\ SnapInv /\ ViewInv /\ ReplyInv

-----------------------------------------------------------------------------
(* Counting, numbering and sending *)

\* The count of this kind goes on from n to n + 1 by what the event there is.
CountsOn(f, event, n) ==
  /\ CountIn(f, event, n) \in Nat
  /\ CountIn(f, event, n + 1) =
       IF f[n + 1].event = event THEN CountIn(f, event, n) + 1 ELSE CountIn(f, event, n)

\* Of one event more, one more may be of this kind.
LEMMA CountNext ==
  ASSUME NEW f, NEW event, NEW n \in Nat
  PROVE  CountsOn(f, event, n)
<1> DEFINE Few == {i \in 1 .. n : f[i].event = event}
           More == {i \in 1 .. n + 1 : f[i].event = event}
<1>1. IsFiniteSet(1 .. n)
  BY FS_Interval
<1>2. IsFiniteSet(Few)
  BY <1>1, FS_Subset
<1>3. Cardinality(Few) \in Nat
  BY <1>2, FS_CardinalityType
<1>4. \A j : j \in 1 .. (n + 1) <=> j \in 1 .. n \/ j = n + 1
  OBVIOUS
<1>5. CASE f[n + 1].event = event
  <2>1. More = Few \cup {n + 1} /\ n + 1 \notin Few
    BY <1>4, <1>5
  <2>2. Cardinality(Few \cup {n + 1}) = Cardinality(Few) + 1
    BY <1>2, <2>1, FS_AddElement
  <2> QED
    BY <1>3, <1>5, <2>1, <2>2 DEF CountIn, CountsOn
<1>6. CASE f[n + 1].event # event
  <2>1. More = Few
    BY <1>4, <1>6
  <2> QED
    BY <1>3, <1>6, <2>1 DEF CountIn, CountsOn
<1> QED
  BY <1>5, <1>6

\* There is none in nothing.
LEMMA CountNone == \A f, event : CountIn(f, event, 0) = 0
  BY FS_EmptySet DEF CountIn

\* The count is of the events alone.
LEMMA CountStays ==
  ASSUME NEW f, NEW g, NEW n, \A i \in 1 .. n : f[i] = g[i]
  PROVE  \A event : CountIn(f, event, n) = CountIn(g, event, n)
<1> SUFFICES ASSUME NEW event
             PROVE  {i \in 1 .. n : f[i].event = event} = {i \in 1 .. n : g[i].event = event}
  BY DEF CountIn
<1> QED
  OBVIOUS

\* Another event is on its way.
LEMMA OutsWith ==
  ASSUME NEW o, NEW m \in Nat, NEW n \in Nat, OutsUpTo(o, m), m <= n, NEW e \in Emitter,
         NEW x, OutUpTo(x, n), NEW p, Puts(o, p, e, x)
  PROVE  OutsUpTo(p, n) /\ p[e] = x /\ \A d \in Emitter : d # e => p[d] = o[d]
<1>1. o \in [Emitter -> Outs] /\ \A d \in Emitter : OutUpTo(o[d], m)
  BY DEF OutsUpTo
<1>2. p \in [Emitter -> Outs] /\ p[e] = x /\ \A d \in Emitter : d # e => p[d] = o[d]
  BY <1>1 DEF OutUpTo, Puts
<1>3. ASSUME NEW d \in Emitter
      PROVE  OutUpTo(o[d], n)
  BY <1>1 DEF OutUpTo, Outs
<1>4. ASSUME NEW d \in Emitter
      PROVE  OutUpTo(p[d], n)
  BY <1>2, <1>3
<1> QED
  BY <1>2, <1>4 DEF OutsUpTo

\* An event that is numbered is the last of those issued.
LEMMA NumberIs ==
  ASSUME ChannelTypes, NEW e \in Emitter, Number(e)
  PROVE  /\ out[e].event \in Live \cup LastEvent /\ out[e].seq = 0
         /\ Len(issued) \in Nat /\ issued' \in Seq(Events) /\ Len(issued') = Len(issued) + 1
         /\ \A n \in 1 .. Len(issued) : issued'[n] = issued[n]
         /\ issued'[Len(issued) + 1] = [event |-> out[e].event, body |-> out[e].body]
         /\ OutsUpTo(out', Len(issued) + 1)
         /\ out'[e] = [event |-> out[e].event, body |-> out[e].body, seq |-> Len(issued) + 1]
         /\ \A d \in Emitter : d # e => out'[d] = out[d]
         /\ \A event : \A n \in 0 .. Len(issued) : CountIn(issued', event, n) = CountIn(issued, event, n)
         /\ UNCHANGED <<status, parts, prompt, task, stop, sent, closed, initial, snap, rx, mode, view,
                        drops>>
<1> DEFINE ev == [event |-> out[e].event, body |-> out[e].body]
           x == [event |-> out[e].event, body |-> out[e].body, seq |-> Len(issued) + 1]
<1>1. out[e] \in Outs
  BY DEF ChannelTypes, OutsUpTo
<1>2. out[e].event \in Live \cup LastEvent /\ out[e].seq = 0
  BY <1>1 DEF Number, Outs
<1>3. ev \in Events
  BY <1>1, <1>2 DEF Outs, Events
<1>4. issued' = Append(issued, ev)
  BY DEF Number
<1> HIDE DEF ev
<1>5. /\ Len(issued) \in Nat /\ issued' \in Seq(Events) /\ Len(issued') = Len(issued) + 1
      /\ \A n \in 1 .. Len(issued) : issued'[n] = issued[n]
      /\ issued'[Len(issued) + 1] = ev
  BY <1>3, <1>4 DEF ChannelTypes
<1>6. Puts(out, out', e, x)
  <2>1. out' = [out EXCEPT ![e] = [out[e] EXCEPT !.seq = Len(issued) + 1]]
    BY <1>5 DEF Number
  <2>2. [out[e] EXCEPT !.seq = Len(issued) + 1] = x
    BY <1>1 DEF Outs
  <2> QED
    BY <2>1, <2>2 DEF Puts
<1>7. OutUpTo(x, Len(issued) + 1)
  BY <1>1, <1>2, <1>5 DEF Outs, OutUpTo, Live, LastEvent
<1>8. /\ OutsUpTo(out', Len(issued) + 1) /\ out'[e] = x
      /\ \A d \in Emitter : d # e => out'[d] = out[d]
  <2> HIDE DEF x
  <2>1. OutsUpTo(out, Len(issued)) /\ Len(issued) + 1 \in Nat /\ Len(issued) <= Len(issued) + 1
    BY <1>5 DEF ChannelTypes
  <2> QED
    BY <1>5, <1>6, <1>7, <2>1, OutsWith
<1>9. \A event : \A n \in 0 .. Len(issued) : CountIn(issued', event, n) = CountIn(issued, event, n)
  <2> SUFFICES ASSUME NEW event, NEW n \in 0 .. Len(issued)
               PROVE  CountIn(issued', event, n) = CountIn(issued, event, n)
    OBVIOUS
  <2>1. \A i \in 1 .. n : issued'[i] = issued[i]
    BY <1>5
  <2> QED
    BY <2>1, CountStays
<1> QED
  BY <1>2, <1>5, <1>8, <1>9 DEF Number, runVars, client

\* An event that is sent is the last in the channel, unless that is closed.
LEMMA SendIs ==
  ASSUME ChannelTypes, NEW e \in Emitter, SendEvent(e)
  PROVE  /\ out[e].seq \in 1 .. Len(issued)
         /\ OutsUpTo(out', Len(issued)) /\ out'[e] = Nothing
         /\ \A d \in Emitter : d # e => out'[d] = out[d]
         /\ sent' \in Seq(Nat) /\ Len(sent) \in Nat
         /\ closed => sent' = sent
         /\ ~ closed => Len(sent') = Len(sent) + 1 /\ sent'[Len(sent) + 1] = out[e].seq
         /\ Len(sent') \in {Len(sent), Len(sent) + 1}
         /\ \A i \in 1 .. Len(sent) : sent'[i] = sent[i]
         /\ UNCHANGED <<status, parts, prompt, task, stop, issued, closed, initial, snap, rx, mode, view,
                        drops>>
<1>1. out[e] \in Outs /\ out[e].seq <= Len(issued) /\ Len(issued) \in Nat
  BY DEF ChannelTypes, OutsUpTo, OutUpTo
<1>2. out[e].seq \in 1 .. Len(issued)
  BY <1>1 DEF SendEvent, Outs
<1>3. sent' = IF closed THEN sent ELSE Append(sent, out[e].seq)
  BY DEF SendEvent
<1>4. sent \in Seq(Nat) /\ out[e].seq \in Nat
  BY <1>2 DEF ChannelTypes
<1>5. /\ sent' \in Seq(Nat) /\ Len(sent) \in Nat
      /\ closed => sent' = sent
      /\ ~ closed => Len(sent') = Len(sent) + 1 /\ sent'[Len(sent) + 1] = out[e].seq
      /\ Len(sent') \in {Len(sent), Len(sent) + 1}
      /\ \A i \in 1 .. Len(sent) : sent'[i] = sent[i]
  BY <1>3, <1>4
<1>6. OutUpTo(Nothing, Len(issued))
  BY <1>1 DEF Nothing, Outs, OutUpTo
<1>7. /\ OutsUpTo(out', Len(issued)) /\ out'[e] = Nothing
      /\ \A d \in Emitter : d # e => out'[d] = out[d]
  <2>1. OutsUpTo(out, Len(issued)) /\ Puts(out, out', e, Nothing) /\ Len(issued) <= Len(issued)
    BY <1>1 DEF ChannelTypes, SendEvent, Puts
  <2> QED
    BY <1>1, <1>6, <2>1, OutsWith
<1> QED
  BY <1>2, <1>5, <1>7 DEF SendEvent, runVars, client

-----------------------------------------------------------------------------
(* Types *)

\* What a view becomes is a view of what was issued.
LEMMA ViewsAre ==
  ASSUME Types
  PROVE  /\ EmptyView \in Views /\ EmptyView.lastSeq = 0
         /\ \A phase \in Terminal : Finished(phase) \in Views /\ Finished(phase).lastSeq = 0
         /\ FromSnapshot \in Views /\ FromSnapshot.lastSeq = snap.seq
<1>1. EmptyView \in Views /\ EmptyView.lastSeq = 0
  BY DEF EmptyView, Views
<1>2. \A phase \in Terminal : Finished(phase) \in Views /\ Finished(phase).lastSeq = 0
  <2> SUFFICES ASSUME NEW phase \in Terminal
               PROVE  Finished(phase) \in Views /\ Finished(phase).lastSeq = 0
    OBVIOUS
  <2>1. Finished(phase) = [EmptyView EXCEPT !.phase = phase]
    BY DEF Finished
  <2> QED
    BY <1>1, <2>1 DEF Views
<1>3. snap \in Snaps /\ status \in {"running"} \cup Terminal
  BY DEF Types, RunTypes, ClientTypes
<1>4. [i \in 1 .. snap.parts |-> i] \in Seq(Nat)
  BY <1>3 DEF Snaps
<1> QED
  BY <1>1, <1>2, <1>3, <1>4 DEF FromSnapshot, Views, Snaps

\* A snapshot begins with nothing read.
LEMMA BeginIs ==
  /\ \A for \in {"none", "stream", "probe"} :
       /\ Begin(for) \in Snaps /\ Begin(for).for = for /\ Begin(for).at = "parts"
       /\ Begin(for).seq = 0 /\ ~ Begin(for).torn
  /\ NoSnap \in Snaps /\ NoSnap.for = "none" /\ NoSnap.at = "parts" /\ NoSnap.seq = 0
<1>1. /\ NoSnap \in Snaps /\ NoSnap.at = "parts" /\ NoSnap.seq = 0 /\ ~ NoSnap.torn
      /\ NoSnap.for = "none"
  BY DEF NoSnap, Snaps
<1>2. ASSUME NEW for \in {"none", "stream", "probe"}
      PROVE  /\ Begin(for) \in Snaps /\ Begin(for).for = for /\ Begin(for).at = "parts"
             /\ Begin(for).seq = 0 /\ ~ Begin(for).torn
  <2>1. Begin(for) = [NoSnap EXCEPT !.for = for]
    BY DEF Begin
  <2> QED
    BY <1>1, <2>1 DEF Snaps
<1> QED
  BY <1>1, <1>2

\* A state replaces the view.
LEMMA StateIs ==
  ASSUME Types
  PROVE  /\ ReduceState \in Views /\ ReduceState.lastSeq \in {0, snap.seq}
         /\ status \in {"running", "stopped"} => ReduceState = FromSnapshot
         /\ ReduceState.phase = status
<1>1. status \in {"running", "completed", "failed", "stopped"}
  BY DEF Types, RunTypes, Terminal
<1>2. CASE status \in {"completed", "failed"}
  BY <1>2, ViewsAre DEF ReduceState, Finished, Terminal
<1>3. CASE status \in {"running", "stopped"}
  BY <1>3, ViewsAre DEF ReduceState, FromSnapshot
<1> QED
  BY <1>1, <1>2, <1>3

\* What an event makes of the view.
LEMMA ReduceIs ==
  ASSUME Types, NEW n \in 1 .. Len(issued)
  PROVE  /\ Reduce(n) \in Views /\ Reduce(n).lastSeq <= Len(issued)
         /\ issued[n].event = "done" => Reduce(n).phase = "completed"
         /\ issued[n].event = "error" => Reduce(n).phase = "failed"
         /\ issued[n].event \in Live /\ n > view.lastSeq =>
              Reduce(n).phase = "running" /\ Reduce(n).lastSeq = n /\ Reduce(n).torn = view.torn
         /\ issued[n].event = "part" /\ n > view.lastSeq =>
              Reduce(n).parts = Append(view.parts, issued[n].body)
         /\ issued[n].event = "prompt" /\ n > view.lastSeq =>
              Reduce(n).parts = view.parts /\ Reduce(n).prompt = issued[n].body
         /\ issued[n].event \in Live /\ n <= view.lastSeq => Reduce(n) = view
<1> DEFINE ev == issued[n]
<1>1. /\ ev \in Events /\ n \in Nat /\ Len(issued) \in Nat /\ n <= Len(issued)
      /\ view \in Views /\ view.lastSeq <= Len(issued)
  BY DEF Types, ChannelTypes, ClientTypes
<1>2. ev.event \in Live \cup LastEvent /\ ev.body \in Nat /\ view.lastSeq \in Nat
  BY <1>1 DEF Events, Views
<1>3. CASE ev.event = "done"
  BY <1>1, <1>3, ViewsAre DEF Reduce, Finished, EmptyView, Terminal, Live
<1>4. CASE ev.event = "error"
  BY <1>1, <1>4, ViewsAre DEF Reduce, Finished, EmptyView, Terminal, Live
<1>5. CASE ev.event = "stopped"
  <2>1. Reduce(n) \in {view, [view EXCEPT !.phase = "stopped", !.prompt = 0]}
    BY <1>5 DEF Reduce
  <2>2. view \in Views /\ view.lastSeq <= Len(issued)
    BY <1>1
  <2>3. [view EXCEPT !.phase = "stopped", !.prompt = 0] \in Views
    BY <2>2 DEF Views, Terminal
  <2>4. [view EXCEPT !.phase = "stopped", !.prompt = 0].lastSeq = view.lastSeq
    BY <2>2 DEF Views
  <2> QED
    BY <1>5, <2>1, <2>2, <2>3, <2>4 DEF Live
<1>6. CASE ev.event = "part"
  <2>1. CASE n <= view.lastSeq
    <3>1. Reduce(n) = view
      BY <1>6, <2>1 DEF Reduce, Stale
    <3> QED
      BY <1>1, <1>2, <1>6, <2>1, <3>1
  <2>2. CASE ~ (n <= view.lastSeq)
    <3> DEFINE ps == Append(view.parts, ev.body)
    <3>1. Reduce(n) = [view EXCEPT !.phase = "running", !.parts = ps, !.lastSeq = n]
      BY <1>6, <2>2 DEF Reduce, Stale
    <3>2. ps \in Seq(Nat)
      BY <1>1, <1>2 DEF Views
    <3> HIDE DEF ps
    <3>3. /\ Reduce(n) \in Views /\ Reduce(n).phase = "running" /\ Reduce(n).lastSeq = n
          /\ Reduce(n).torn = view.torn /\ Reduce(n).parts = ps
      BY <1>1, <3>1, <3>2 DEF Views
    <3> QED
      BY <1>1, <1>2, <1>6, <2>2, <3>3 DEF ps
  <2> QED
    BY <2>1, <2>2
<1>7. CASE ev.event = "prompt"
  <2>1. CASE n <= view.lastSeq
    <3>1. Reduce(n) = view
      BY <1>7, <2>1 DEF Reduce, Stale
    <3> QED
      BY <1>1, <1>2, <1>7, <2>1, <3>1
  <2>2. CASE ~ (n <= view.lastSeq)
    <3>1. Reduce(n) = [view EXCEPT !.phase = "running", !.prompt = ev.body, !.lastSeq = n,
                                  !.wiped = FALSE]
      BY <1>7, <2>2 DEF Reduce, Stale
    <3>2. /\ Reduce(n) \in Views /\ Reduce(n).phase = "running" /\ Reduce(n).lastSeq = n
          /\ Reduce(n).torn = view.torn /\ Reduce(n).parts = view.parts
          /\ Reduce(n).prompt = ev.body
      BY <1>1, <1>2, <3>1 DEF Views
    <3> QED
      BY <1>1, <1>2, <1>7, <2>2, <3>2
  <2> QED
    BY <2>1, <2>2
<1> QED
  BY <1>2, <1>3, <1>4, <1>5, <1>6, <1>7 DEF Live, LastEvent

\* What is emitted waits for its number.
LEMMA EmitsIs ==
  ASSUME ChannelTypes, NEW e \in Emitter, NEW event, event \in Live \cup LastEvent, NEW body \in Nat,
         Emits(e, event, body)
  PROVE  /\ out[e] = Nothing /\ OutsUpTo(out', Len(issued))
         /\ out'[e] = [event |-> event, body |-> body, seq |-> 0]
         /\ \A d \in Emitter : d # e => out'[d] = out[d]
<1> DEFINE x == [event |-> event, body |-> body, seq |-> 0]
<1>1. out[e] = Nothing /\ Puts(out, out', e, x)
  BY DEF Emits, Puts
<1>2. Len(issued) \in Nat /\ OutsUpTo(out, Len(issued)) /\ Len(issued) <= Len(issued)
  BY DEF ChannelTypes
<1>3. OutUpTo(x, Len(issued))
  BY <1>2 DEF Outs, OutUpTo, Live, LastEvent
<1> HIDE DEF x
<1>4. OutsUpTo(out', Len(issued)) /\ out'[e] = x /\ \A d \in Emitter : d # e => out'[d] = out[d]
  BY <1>1, <1>2, <1>3, OutsWith
<1> QED
  BY <1>1, <1>4 DEF x

\* How many prompts there were is a number.
LEMMA RaisedIsNat == ChannelTypes => Raised \in Nat
<1> SUFFICES ASSUME ChannelTypes
             PROVE  Raised \in Nat
  OBVIOUS
<1>1. Len(issued) \in Nat
  BY DEF ChannelTypes
<1>2. CountsOn(issued, "prompt", Len(issued))
  BY <1>1, CountNext
<1> QED
  BY <1>2 DEF CountsOn, Raised

\* Every step keeps the types of the run.
LEMMA RunTypesStep == Types /\ Watches => RunTypes'
<1> SUFFICES ASSUME Types, Watches
             PROVE  RunTypes'
  OBVIOUS
<1>1. ASSUME NEW e \in Emitter, Number(e)
      PROVE  RunTypes'
  BY <1>1, NumberIs DEF Types, RunTypes
<1>2. ASSUME NEW e \in Emitter, SendEvent(e)
      PROVE  RunTypes'
  BY <1>2, SendIs DEF Types, RunTypes
<1>3. CASE Completes
  BY <1>3 DEF Completes, Types, RunTypes, Terminal
<1>4. CASE Fails
  BY <1>4 DEF Fails, Types, RunTypes, Terminal
<1>5. CASE TaskCloses
  BY <1>5 DEF TaskCloses, CloseChannel, Types, RunTypes
<1>6. CASE TaskAborted
  BY <1>6 DEF TaskAborted, Types, RunTypes
<1>7. CASE WritesPart
  BY <1>7 DEF WritesPart, Types, RunTypes
<1>8. CASE AsksUser
  BY <1>8, RaisedIsNat DEF AsksUser, Types, RunTypes
<1>9. CASE AgentReturns
  BY <1>9 DEF AgentReturns, Types, RunTypes
<1>10. CASE AgentFails
  BY <1>10 DEF AgentFails, Types, RunTypes
<1>11. CASE Answered
  BY <1>11 DEF Answered, Types, RunTypes
<1>12. CASE StopPublishes
  BY <1>12 DEF StopPublishes, Types, RunTypes, Terminal
<1>13. CASE StopCloses
  BY <1>13 DEF StopCloses, CloseChannel, Types, RunTypes
<1>14. CASE Subscribes
  BY <1>14 DEF Subscribes, runVars, Types, RunTypes
<1>15. CASE ReceivesState
  BY <1>15 DEF ReceivesState, runVars, Types, RunTypes
<1>16. CASE ReceivesEvent
  BY <1>16 DEF ReceivesEvent, runVars, Types, RunTypes
<1>17. CASE Lags
  BY <1>17 DEF Lags, runVars, Types, RunTypes
<1>18. CASE StreamEnds
  BY <1>18 DEF StreamEnds, runVars, Types, RunTypes
<1>19. CASE Probed
  BY <1>19 DEF Probed, runVars, Types, RunTypes
<1>20. CASE TailRefreshed
  BY <1>20 DEF TailRefreshed, runVars, Types, RunTypes
<1>21. CASE ReadsParts
  BY <1>21 DEF ReadsParts, runVars, Types, RunTypes
<1>22. CASE ReadsPrompt
  BY <1>22 DEF ReadsPrompt, runVars, Types, RunTypes
<1>23. CASE ReadsSeq
  BY <1>23 DEF ReadsSeq, runVars, Types, RunTypes
<1>24. CASE Breaks
  BY <1>24 DEF Breaks, runVars, Types, RunTypes
<1>25. CASE UNCHANGED <<watched, taken>>
  BY <1>25 DEF watched, runVars, Types, RunTypes
<1> QED
  BY <1>1, <1>2, <1>3, <1>4, <1>5, <1>6, <1>7, <1>8, <1>9, <1>10, <1>11, <1>12, <1>13, <1>14,
     <1>15, <1>16, <1>17, <1>18, <1>19, <1>20, <1>21, <1>22, <1>23, <1>24, <1>25
  DEF Watches, Watching, Agent, Task, Stop, Client, Emitter

\* Every step keeps the types of the channel.
LEMMA ChannelTypesStep == Types /\ Watches => ChannelTypes'
<1> SUFFICES ASSUME Types, Watches
             PROVE  ChannelTypes'
  OBVIOUS
<1>1. ASSUME NEW e \in Emitter, Number(e)
      PROVE  ChannelTypes'
  <2>1. /\ sent' = sent /\ closed' = closed /\ initial' = initial /\ issued' \in Seq(Events)
        /\ Len(issued') = Len(issued) + 1 /\ Len(issued) \in Nat /\ OutsUpTo(out', Len(issued'))
    BY <1>1, NumberIs DEF Types
  <2>2. \A i \in 1 .. Len(sent) : sent[i] \in 1 .. Len(issued')
    BY <2>1 DEF Types, ChannelTypes
  <2> QED
    BY <2>1, <2>2 DEF Types, ChannelTypes
<1>2. ASSUME NEW e \in Emitter, SendEvent(e)
      PROVE  ChannelTypes'
  <2>1. /\ sent' \in Seq(Nat) /\ OutsUpTo(out', Len(issued)) /\ Len(sent) \in Nat
        /\ UNCHANGED <<issued, closed, initial>>
        /\ \A i \in 1 .. Len(sent) : sent'[i] = sent[i]
        /\ Len(sent') = Len(sent) \/ (Len(sent') = Len(sent) + 1
                                     /\ sent'[Len(sent) + 1] \in 1 .. Len(issued))
    BY <1>2, SendIs DEF Types
  <2>2. \A i \in 1 .. Len(sent') : sent'[i] \in 1 .. Len(issued)
    BY <2>1 DEF Types, ChannelTypes
  <2> QED
    BY <2>1, <2>2 DEF Types, ChannelTypes
<1>3. CASE Completes
  <2>1. 0 \in Nat /\ Emits("task", "done", 0) /\ UNCHANGED <<issued, sent, closed, initial>>
    BY <1>3 DEF Completes, Types, RunTypes
  <2>2. OutsUpTo(out', Len(issued))
    BY <2>1, EmitsIs DEF Types, Emitter, LastEvent
  <2> QED
    BY <2>1, <2>2 DEF Types, ChannelTypes
<1>4. CASE Fails
  <2>1. 0 \in Nat /\ Emits("task", "error", 0) /\ UNCHANGED <<issued, sent, closed, initial>>
    BY <1>4 DEF Fails, Types, RunTypes
  <2>2. OutsUpTo(out', Len(issued))
    BY <2>1, EmitsIs DEF Types, Emitter, LastEvent
  <2> QED
    BY <2>1, <2>2 DEF Types, ChannelTypes
<1>5. CASE TaskCloses
  BY <1>5 DEF TaskCloses, CloseChannel, Types, ChannelTypes
<1>6. CASE TaskAborted
  <2>1. /\ "task" \in Emitter /\ OutUpTo(Nothing, Len(issued)) /\ Len(issued) \in Nat
        /\ Len(issued) <= Len(issued)
    BY DEF Emitter, Nothing, Outs, OutUpTo
  <2>2. OutsUpTo(out, Len(issued)) /\ Puts(out, out', "task", Nothing)
    BY <1>6 DEF Puts, TaskAborted, Types, ChannelTypes
  <2>3. OutsUpTo(out', Len(issued))
    BY <2>1, <2>2, OutsWith
  <2> QED
    BY <1>6, <2>3 DEF TaskAborted, Types, ChannelTypes
<1>7. CASE WritesPart
  <2>1. /\ parts' \in Nat /\ Emits("task", "part", parts')
        /\ UNCHANGED <<issued, sent, closed, initial>>
    BY <1>7 DEF WritesPart, Types, RunTypes
  <2>2. OutsUpTo(out', Len(issued))
    BY <2>1, EmitsIs DEF Types, Emitter, Live
  <2> QED
    BY <2>1, <2>2 DEF Types, ChannelTypes
<1>8. CASE AsksUser
  <2>1. /\ prompt' \in Nat /\ Emits("task", "prompt", prompt')
        /\ UNCHANGED <<issued, sent, closed, initial>>
    BY <1>8, RaisedIsNat DEF AsksUser, Types, RunTypes
  <2>2. OutsUpTo(out', Len(issued))
    BY <2>1, EmitsIs DEF Types, Emitter, Live
  <2> QED
    BY <2>1, <2>2 DEF Types, ChannelTypes
<1>9. CASE AgentReturns
  BY <1>9 DEF AgentReturns, channel, Types, ChannelTypes
<1>10. CASE AgentFails
  BY <1>10 DEF AgentFails, channel, Types, ChannelTypes
<1>11. CASE Answered
  BY <1>11 DEF Answered, channel, Types, ChannelTypes
<1>12. CASE StopPublishes
  <2>1. 0 \in Nat /\ Emits("stop", "stopped", 0) /\ UNCHANGED <<issued, sent, closed, initial>>
    BY <1>12 DEF StopPublishes, Types, RunTypes
  <2>2. OutsUpTo(out', Len(issued))
    BY <2>1, EmitsIs DEF Types, Emitter, LastEvent
  <2> QED
    BY <2>1, <2>2 DEF Types, ChannelTypes
<1>13. CASE StopCloses
  BY <1>13 DEF StopCloses, CloseChannel, Types, ChannelTypes
<1>14. CASE Subscribes
  BY <1>14 DEF Subscribes, channel, Types, ChannelTypes
<1>15. CASE ReceivesState
  BY <1>15 DEF ReceivesState, channel, Types, ChannelTypes
<1>16. CASE ReceivesEvent
  BY <1>16 DEF ReceivesEvent, channel, Types, ChannelTypes
<1>17. CASE Lags
  BY <1>17 DEF Lags, channel, Types, ChannelTypes
<1>18. CASE StreamEnds
  BY <1>18 DEF StreamEnds, channel, Types, ChannelTypes
<1>19. CASE Probed
  BY <1>19 DEF Probed, channel, Types, ChannelTypes
<1>20. CASE TailRefreshed
  BY <1>20 DEF TailRefreshed, channel, Types, ChannelTypes
<1>21. CASE ReadsParts
  BY <1>21 DEF ReadsParts, channel, Types, ChannelTypes
<1>22. CASE ReadsPrompt
  BY <1>22 DEF ReadsPrompt, channel, Types, ChannelTypes
<1>23. CASE ReadsSeq
  BY <1>23 DEF ReadsSeq, channel, Types, ChannelTypes
<1>24. CASE Breaks
  BY <1>24 DEF Breaks, channel, Types, ChannelTypes
<1>25. CASE UNCHANGED <<watched, taken>>
  BY <1>25 DEF watched, channel, Types, ChannelTypes
<1> QED
  BY <1>1, <1>2, <1>3, <1>4, <1>5, <1>6, <1>7, <1>8, <1>9, <1>10, <1>11, <1>12, <1>13, <1>14,
     <1>15, <1>16, <1>17, <1>18, <1>19, <1>20, <1>21, <1>22, <1>23, <1>24, <1>25
  DEF Watches, Watching, Agent, Task, Stop, Client, Emitter

\* Every step keeps the types of the client.
LEMMA ClientTypesStep == Types /\ Watches => ClientTypes'
<1> SUFFICES ASSUME Types, Watches
             PROVE  ClientTypes'
  OBVIOUS
<1>1. ASSUME NEW e \in Emitter, Number(e)
      PROVE  ClientTypes'
  <2>1. Len(issued) \in Nat /\ snap.seq \in Nat /\ view.lastSeq \in Nat
    BY DEF Types, ClientTypes, Snaps, Views
  <2>2. Len(issued') = Len(issued) + 1 /\ UNCHANGED <<sent, snap, rx, mode, view, drops>>
    BY <1>1, NumberIs DEF Types
  <2>3. snap.seq <= Len(issued') /\ view.lastSeq <= Len(issued')
    BY <2>1, <2>2 DEF Types, ClientTypes
  <2> QED
    BY <2>2, <2>3 DEF Types, ClientTypes
<1>2. ASSUME NEW e \in Emitter, SendEvent(e)
      PROVE  ClientTypes'
  BY <1>2, SendIs DEF Types, ClientTypes
<1>3. CASE Completes
  BY <1>3 DEF Completes, client, Types, ClientTypes
<1>4. CASE Fails
  BY <1>4 DEF Fails, client, Types, ClientTypes
<1>5. CASE TaskCloses
  BY <1>5 DEF TaskCloses, CloseChannel, client, Types, ClientTypes
<1>6. CASE TaskAborted
  BY <1>6 DEF TaskAborted, client, Types, ClientTypes
<1>7. CASE WritesPart
  BY <1>7 DEF WritesPart, client, Types, ClientTypes
<1>8. CASE AsksUser
  BY <1>8 DEF AsksUser, client, Types, ClientTypes
<1>9. CASE AgentReturns
  BY <1>9 DEF AgentReturns, channel, client, Types, ClientTypes
<1>10. CASE AgentFails
  BY <1>10 DEF AgentFails, channel, client, Types, ClientTypes
<1>11. CASE Answered
  BY <1>11 DEF Answered, channel, client, Types, ClientTypes
<1>12. CASE StopPublishes
  BY <1>12 DEF StopPublishes, client, Types, ClientTypes
<1>13. CASE StopCloses
  BY <1>13 DEF StopCloses, CloseChannel, client, Types, ClientTypes
<1>14. CASE Subscribes
  <2>1. /\ snap' \in Snaps /\ snap'.seq <= Len(issued)
        /\ (snap'.for # "none" => mode' = snap'.for)
        /\ (snap'.for = "none" => snap'.at = "parts")
    BY <1>14, BeginIs DEF Subscribes, Listening
  <2>2. rx' \in Nat /\ rx' <= Len(sent) + 1 /\ drops' \in Nat
    BY <1>14 DEF Subscribes, Types, ClientTypes
  <2>3. /\ mode' \in {"connecting", "stream", "probe", "tail", "settled"}
        /\ issued' = issued /\ sent' = sent
    BY <1>14 DEF Subscribes, channel
  <2>4. view' = view
    BY <1>14 DEF Subscribes
  <2> QED
    BY <2>1, <2>2, <2>3, <2>4 DEF Types, ClientTypes
<1>15. CASE ReceivesState
  <2>1. /\ snap' \in Snaps /\ snap'.seq <= Len(issued)
        /\ (snap'.for # "none" => mode' = snap'.for)
        /\ (snap'.for = "none" => snap'.at = "parts")
    BY <1>15, BeginIs DEF ReceivesState, Types, ChannelTypes
  <2>2. rx' \in Nat /\ rx' <= Len(sent) + 1 /\ drops' \in Nat
    BY <1>15 DEF ReceivesState, Types, ClientTypes
  <2>3. /\ mode' \in {"connecting", "stream", "probe", "tail", "settled"}
        /\ issued' = issued /\ sent' = sent
    BY <1>15 DEF ReceivesState, channel, Types, ClientTypes
  <2>4. view' \in Views /\ view'.lastSeq <= Len(issued)
    BY <1>15, StateIs DEF ReceivesState, Types, ClientTypes
  <2> QED
    BY <2>1, <2>2, <2>3, <2>4 DEF ClientTypes
<1>16. CASE ReceivesEvent
  <2>1. Len(sent) \in Nat /\ rx \in 1 .. Len(sent) /\ sent[rx] \in 1 .. Len(issued)
    BY <1>16 DEF ReceivesEvent, Waiting, Types, ChannelTypes, ClientTypes
  <2>2. view' \in Views /\ view'.lastSeq <= Len(issued)
    BY <1>16, <2>1, ReduceIs DEF ReceivesEvent
  <2>3. mode' \in {"settled", "tail", mode} /\ rx' \in {0, rx + 1}
    BY <1>16 DEF ReceivesEvent
  <2> QED
    BY <1>16, <2>1, <2>2, <2>3 DEF ReceivesEvent, Listening, Types, ClientTypes, channel
<1>17. CASE Lags
  <2>1. /\ snap' \in Snaps /\ snap'.seq <= Len(issued)
        /\ (snap'.for # "none" => mode' = snap'.for)
        /\ (snap'.for = "none" => snap'.at = "parts")
    BY <1>17, BeginIs DEF Lags, Listening
  <2>2. rx' \in Nat /\ rx' <= Len(sent) + 1 /\ drops' \in Nat
    BY <1>17, EventsConstants DEF Lags, Lagging, Types, ClientTypes
  <2>3. /\ mode' \in {"connecting", "stream", "probe", "tail", "settled"}
        /\ issued' = issued /\ sent' = sent
    BY <1>17 DEF Lags, channel, Types, ClientTypes
  <2>4. view' = view
    BY <1>17 DEF Lags
  <2> QED
    BY <2>1, <2>2, <2>3, <2>4 DEF Types, ClientTypes
<1>18. CASE StreamEnds
  <2>1. /\ snap' \in Snaps /\ snap'.seq <= Len(issued)
        /\ (snap'.for # "none" => mode' = snap'.for)
        /\ (snap'.for = "none" => snap'.at = "parts")
    BY <1>18, BeginIs DEF StreamEnds
  <2>2. rx' \in Nat /\ rx' <= Len(sent) + 1 /\ drops' \in Nat
    BY <1>18 DEF StreamEnds, Types, ClientTypes
  <2>3. /\ mode' \in {"connecting", "stream", "probe", "tail", "settled"}
        /\ issued' = issued /\ sent' = sent
    BY <1>18 DEF StreamEnds, channel
  <2>4. view' = view
    BY <1>18 DEF StreamEnds
  <2> QED
    BY <2>1, <2>2, <2>3, <2>4 DEF Types, ClientTypes
<1>19. CASE Probed
  <2>1. /\ snap' \in Snaps /\ snap'.seq <= Len(issued)
        /\ (snap'.for # "none" => mode' = snap'.for)
        /\ (snap'.for = "none" => snap'.at = "parts")
    BY <1>19, BeginIs DEF Probed, Types, ChannelTypes
  <2>2. rx' \in Nat /\ rx' <= Len(sent) + 1 /\ drops' \in Nat
    BY <1>19 DEF Probed, Types, ClientTypes
  <2>3. /\ mode' \in {"connecting", "stream", "probe", "tail", "settled"}
        /\ issued' = issued /\ sent' = sent
    BY <1>19 DEF Probed, channel
  <2>4. view' \in Views /\ view'.lastSeq <= Len(issued)
    BY <1>19, StateIs DEF Probed, Types, ClientTypes
  <2> QED
    BY <2>1, <2>2, <2>3, <2>4 DEF ClientTypes
<1>20. CASE TailRefreshed
  <2>1. view' \in Views /\ view'.lastSeq <= Len(issued) /\ mode' = "settled"
    BY <1>20, ViewsAre DEF TailRefreshed, Types, ChannelTypes
  <2>2. issued' = issued /\ sent' = sent /\ UNCHANGED <<snap, rx, drops>> /\ snap.for = "none"
    BY <1>20 DEF TailRefreshed, channel, Types, ClientTypes, Snaps
  <2> QED
    BY <2>1, <2>2 DEF Types, ClientTypes
<1>21. CASE ReadsParts
  <2>1. /\ snap \in Snaps /\ snap.for # "none" /\ Len(issued) \in Nat /\ parts \in Nat
        /\ prompt \in Nat
    BY <1>21 DEF ReadsParts, Types, RunTypes, ClientTypes
  <2>2. snap' \in Snaps /\ snap'.seq <= Len(issued) /\ snap'.for = snap.for
    BY <1>21, <2>1 DEF ReadsParts, Snaps, Types, ClientTypes
  <2> QED
    BY <1>21, <2>1, <2>2 DEF ReadsParts, channel, Types, ClientTypes
<1>22. CASE ReadsPrompt
  <2>1. /\ snap \in Snaps /\ snap.for # "none" /\ Len(issued) \in Nat /\ parts \in Nat
        /\ prompt \in Nat
    BY <1>22 DEF ReadsPrompt, Types, RunTypes, ClientTypes
  <2>2. snap' \in Snaps /\ snap'.seq <= Len(issued) /\ snap'.for = snap.for
    BY <1>22, <2>1 DEF ReadsPrompt, Snaps, Types, ClientTypes
  <2> QED
    BY <1>22, <2>1, <2>2 DEF ReadsPrompt, channel, Types, ClientTypes
<1>23. CASE ReadsSeq
  <2> DEFINE torn == \/ snap.parts # PartsIn(Len(issued))
                     \/ snap.prompt # prompt /\ prompt = Raised
  <2>1. snap \in Snaps /\ snap.for # "none" /\ Len(issued) \in Nat /\ Len(issued) <= Len(issued)
    BY <1>23 DEF ReadsSeq, Types, ClientTypes
  <2>2. /\ torn \in BOOLEAN
        /\ snap' = [snap EXCEPT !.at = "status", !.seq = Len(issued), !.torn = torn]
    BY <1>23 DEF ReadsSeq
  <2> HIDE DEF torn
  <2>3. PICK t \in BOOLEAN :
          snap' = [snap EXCEPT !.at = "status", !.seq = Len(issued), !.torn = t]
    BY <2>2
  <2>4. \/ snap' = [snap EXCEPT !.at = "status", !.seq = Len(issued), !.torn = TRUE]
        \/ snap' = [snap EXCEPT !.at = "status", !.seq = Len(issued), !.torn = FALSE]
    BY <2>3
  <2>5. snap' \in Snaps /\ snap'.seq <= Len(issued) /\ snap'.for = snap.for
    BY <2>1, <2>4 DEF Snaps
  <2> QED
    BY <1>23, <2>1, <2>5 DEF ReadsSeq, channel, Types, ClientTypes
<1>24. CASE Breaks
  <2>1. /\ snap' \in Snaps /\ snap'.seq <= Len(issued)
        /\ (snap'.for # "none" => mode' = snap'.for)
        /\ (snap'.for = "none" => snap'.at = "parts")
    BY <1>24, BeginIs DEF Breaks, Listening
  <2>2. rx' \in Nat /\ rx' <= Len(sent) + 1 /\ drops' \in Nat
    BY <1>24 DEF Breaks, Types, ClientTypes
  <2>3. /\ mode' \in {"connecting", "stream", "probe", "tail", "settled"}
        /\ issued' = issued /\ sent' = sent
    BY <1>24 DEF Breaks, channel
  <2>4. view' = view
    BY <1>24 DEF Breaks
  <2> QED
    BY <2>1, <2>2, <2>3, <2>4 DEF Types, ClientTypes
<1>25. CASE UNCHANGED <<watched, taken>>
  BY <1>25 DEF watched, channel, client, Types, ClientTypes
<1> QED
  BY <1>1, <1>2, <1>3, <1>4, <1>5, <1>6, <1>7, <1>8, <1>9, <1>10, <1>11, <1>12, <1>13, <1>14,
     <1>15, <1>16, <1>17, <1>18, <1>19, <1>20, <1>21, <1>22, <1>23, <1>24, <1>25
  DEF Watches, Watching, Agent, Task, Stop, Client, Emitter

\* Every step keeps the types.
LEMMA TypesStep == Types /\ Watches => Types'
  BY RunTypesStep, ChannelTypesStep, ClientTypesStep DEF Types

-----------------------------------------------------------------------------
(* Nothing is over while the run goes on *)

\* There are two emitters.
LEMMA Emitters == "task" \in Emitter /\ "stop" \in Emitter /\ \A e \in Emitter : e \in {"task", "stop"}
  BY DEF Emitter

\* Every step keeps what is said of the end of a run.
LEMMA OverStep == Types /\ OverInv /\ Watches => OverInv'
<1> SUFFICES ASSUME Types, OverInv, Watches
             PROVE  OverInv'
  OBVIOUS
<1>1. ASSUME NEW e \in Emitter, Number(e)
      PROVE  OverInv'
  <2>1. /\ Len(issued) \in Nat /\ Len(issued') = Len(issued) + 1
        /\ \A n \in 1 .. Len(issued) : issued'[n] = issued[n]
        /\ issued'[Len(issued) + 1] = [event |-> out[e].event, body |-> out[e].body]
        /\ UNCHANGED <<status, task, stop, closed, mode, view, rx>>
        /\ out'[e] = [event |-> out[e].event, body |-> out[e].body, seq |-> Len(issued) + 1]
        /\ \A d \in Emitter : d # e => out'[d] = out[d]
    BY <1>1, NumberIs DEF Types
  <2>2. \A d \in Emitter : out'[d].event = out[d].event
    BY <2>1
  <2>3. \A n \in 1 .. Len(issued') : issued'[n].event \in LastEvent => status # "running"
    <3> SUFFICES ASSUME NEW n \in 1 .. Len(issued'), issued'[n].event \in LastEvent
                 PROVE  status # "running"
      OBVIOUS
    <3>1. n \in 1 .. Len(issued) \/ n = Len(issued) + 1
      BY <2>1
    <3> QED
      BY <2>1, <3>1 DEF OverInv
  <2> QED
    BY <2>1, <2>2, <2>3, Emitters DEF OverInv
<1>2. ASSUME NEW e \in Emitter, SendEvent(e)
      PROVE  OverInv'
  <2>1. UNCHANGED <<issued, status, task, stop, closed, mode, view, rx>>
    BY <1>2, SendIs DEF Types
  <2>2. \A d \in Emitter : out'[d] \in {out[d], Nothing}
    BY <1>2, SendIs DEF Types
  <2> QED
    BY <2>1, <2>2, Emitters DEF OverInv, Nothing, LastEvent
<1>3. CASE Completes
  <2>1. 0 \in Nat /\ Emits("task", "done", 0) /\ UNCHANGED <<issued, closed, mode, view, rx>>
    BY <1>3 DEF Completes, client
  <2>2. out["task"] = Nothing /\ out'["task"].event = "done" /\ out'["stop"] = out["stop"]
    <3>1. "task" \in Emitter /\ "done" \in Live \cup LastEvent /\ ChannelTypes
      BY DEF Emitter, LastEvent, Types
    <3>2. /\ out["task"] = Nothing /\ out'["task"] = [event |-> "done", body |-> 0, seq |-> 0]
          /\ \A d \in Emitter : d # "task" => out'[d] = out[d]
      BY <2>1, <3>1, EmitsIs
    <3> QED
      BY <3>2, Emitters
  <2> QED
    BY <1>3, <2>1, <2>2, Emitters DEF Completes, OverInv
<1>4. CASE Fails
  <2>1. 0 \in Nat /\ Emits("task", "error", 0) /\ UNCHANGED <<issued, closed, mode, view, rx>>
    BY <1>4 DEF Fails, client
  <2>2. out["task"] = Nothing /\ out'["task"].event = "error" /\ out'["stop"] = out["stop"]
    <3>1. "task" \in Emitter /\ "error" \in Live \cup LastEvent /\ ChannelTypes
      BY DEF Emitter, LastEvent, Types
    <3>2. /\ out["task"] = Nothing /\ out'["task"] = [event |-> "error", body |-> 0, seq |-> 0]
          /\ \A d \in Emitter : d # "task" => out'[d] = out[d]
      BY <2>1, <3>1, EmitsIs
    <3> QED
      BY <3>2, Emitters
  <2> QED
    BY <1>4, <2>1, <2>2, Emitters DEF Fails, OverInv
<1>5. CASE TaskCloses
  <2>1. UNCHANGED <<status, issued, out, mode, view, rx>> /\ closed' = TRUE
    BY <1>5 DEF TaskCloses, CloseChannel, client
  <2>2. /\ task \in {"closing", "ended"} /\ task' = "ended" /\ stop' = stop
        /\ status # "running" /\ out["task"] = Nothing
    BY <1>5 DEF TaskCloses, CloseChannel, OverInv
  <2> QED
    BY <2>1, <2>2 DEF OverInv, Nothing, LastEvent
<1>6. CASE TaskAborted
  <2>1. out'["task"] = Nothing /\ out'["stop"] = out["stop"]
    BY <1>6, Emitters DEF TaskAborted, Types, ChannelTypes, OutsUpTo
  <2> QED
    BY <1>6, <2>1, Emitters DEF TaskAborted, OverInv, Nothing, client
<1>7. CASE WritesPart
  <2>1. /\ parts' \in Nat /\ Emits("task", "part", parts')
        /\ UNCHANGED <<issued, closed, mode, view, rx>>
    BY <1>7 DEF WritesPart, client, Types, RunTypes
  <2>2. out["task"] = Nothing /\ out'["task"].event = "part" /\ out'["stop"] = out["stop"]
    <3>1. "task" \in Emitter /\ "part" \in Live \cup LastEvent /\ ChannelTypes
      BY DEF Emitter, Live, Types
    <3>2. /\ out["task"] = Nothing
          /\ out'["task"] = [event |-> "part", body |-> parts', seq |-> 0]
          /\ \A d \in Emitter : d # "task" => out'[d] = out[d]
      BY <2>1, <3>1, EmitsIs
    <3> QED
      BY <3>2, Emitters
  <2> QED
    BY <1>7, <2>1, <2>2, Emitters DEF WritesPart, OverInv, LastEvent
<1>8. CASE AsksUser
  <2>1. /\ prompt' \in Nat /\ Emits("task", "prompt", prompt')
        /\ UNCHANGED <<issued, closed, mode, view, rx>>
    BY <1>8, RaisedIsNat DEF AsksUser, client, Types
  <2>2. out["task"] = Nothing /\ out'["task"].event = "prompt" /\ out'["stop"] = out["stop"]
    <3>1. "task" \in Emitter /\ "prompt" \in Live \cup LastEvent /\ ChannelTypes
      BY DEF Emitter, Live, Types
    <3>2. /\ out["task"] = Nothing
          /\ out'["task"] = [event |-> "prompt", body |-> prompt', seq |-> 0]
          /\ \A d \in Emitter : d # "task" => out'[d] = out[d]
      BY <2>1, <3>1, EmitsIs
    <3> QED
      BY <3>2, Emitters
  <2> QED
    BY <1>8, <2>1, <2>2, Emitters DEF AsksUser, OverInv, LastEvent
<1>9. CASE AgentReturns
  BY <1>9 DEF AgentReturns, channel, client, OverInv
<1>10. CASE AgentFails
  BY <1>10 DEF AgentFails, channel, client, OverInv
<1>11. CASE Answered
  <2>1. UNCHANGED <<status, stop, issued, out, closed, mode, view, rx>>
    BY <1>11 DEF Answered, channel, client
  <2>2. task = "asking" /\ task' = "working" /\ out["task"] = Nothing
    BY <1>11 DEF Answered
  <2> QED
    BY <2>1, <2>2 DEF OverInv, Nothing
<1>12. CASE StopPublishes
  <2>1. 0 \in Nat /\ Emits("stop", "stopped", 0) /\ UNCHANGED <<issued, closed, mode, view, rx>>
    BY <1>12 DEF StopPublishes, client
  <2>2. out["stop"] = Nothing /\ out'["stop"].event = "stopped" /\ out'["task"] = out["task"]
    <3>1. "stop" \in Emitter /\ "stopped" \in Live \cup LastEvent /\ ChannelTypes
      BY DEF Emitter, LastEvent, Types
    <3>2. /\ out["stop"] = Nothing
          /\ out'["stop"] = [event |-> "stopped", body |-> 0, seq |-> 0]
          /\ \A d \in Emitter : d # "stop" => out'[d] = out[d]
      BY <2>1, <3>1, EmitsIs
    <3> QED
      BY <3>2, Emitters
  <2> QED
    BY <1>12, <2>1, <2>2, Emitters DEF StopPublishes, OverInv
<1>13. CASE StopCloses
  <2>1. UNCHANGED <<status, issued, out, mode, view, rx>> /\ closed' = TRUE
    BY <1>13 DEF StopCloses, CloseChannel, client
  <2>2. /\ stop = "closing" /\ task' = task /\ stop' = "ended" /\ status = "stopped"
        /\ out["stop"] = Nothing
    BY <1>13 DEF StopCloses, CloseChannel, OverInv
  <2> QED
    BY <2>1, <2>2 DEF OverInv, Nothing, LastEvent
<1>14. CASE Subscribes
  <2>1. mode' = "stream" /\ (~ closed => rx' > 0)
    BY <1>14 DEF Subscribes, Types, ChannelTypes
  <2> QED
    BY <1>14, <2>1 DEF Subscribes, OverInv, runVars, channel
<1>15. CASE ReceivesState
  BY <1>15, StateIs DEF ReceivesState, OverInv, runVars, channel
<1>16. CASE ReceivesEvent
  <2>1. Len(sent) \in Nat /\ rx \in 1 .. Len(sent) /\ sent[rx] \in 1 .. Len(issued)
    BY <1>16 DEF ReceivesEvent, Waiting, Types, ChannelTypes, ClientTypes
  <2>2. issued[sent[rx]].event \in Live \cup LastEvent
    <3>1. issued[sent[rx]] \in Events
      BY <2>1 DEF Types, ChannelTypes
    <3> QED
      BY <3>1 DEF Events
  <2>3. CASE issued[sent[rx]].event \in LastEvent
    <3>1. status # "running"
      BY <2>1, <2>3 DEF OverInv
    <3>2. mode' \in {"settled", "tail"} /\ (mode' = "settled" => view'.phase # "running")
      BY <1>16, <2>1, <2>3, ReduceIs DEF ReceivesEvent, LastEvent
    <3> QED
      BY <1>16, <3>1, <3>2 DEF ReceivesEvent, OverInv, runVars, channel
  <2>4. CASE issued[sent[rx]].event \in Live
    <3>1. mode' = mode /\ rx' = rx + 1 /\ mode = "stream"
      BY <1>16, <2>4 DEF ReceivesEvent, Live, Listening
    <3> QED
      BY <1>16, <2>1, <3>1 DEF ReceivesEvent, OverInv, runVars, channel
  <2> QED
    BY <2>2, <2>3, <2>4
<1>17. CASE Lags
  <2>1. rx' > 0 /\ mode = "stream"
    BY <1>17, EventsConstants DEF Lags, Lagging, Listening, Types, ClientTypes
  <2> QED
    BY <1>17, <2>1 DEF Lags, OverInv, runVars, channel
<1>18. CASE StreamEnds
  BY <1>18 DEF StreamEnds, runVars, channel, OverInv
<1>19. CASE Probed
  BY <1>19, StateIs DEF Probed, OverInv, runVars, channel
<1>20. CASE TailRefreshed
  BY <1>20 DEF TailRefreshed, OverInv, runVars, channel, EmptyView
<1>21. CASE ReadsParts
  BY <1>21 DEF ReadsParts, runVars, channel, OverInv
<1>22. CASE ReadsPrompt
  BY <1>22 DEF ReadsPrompt, runVars, channel, OverInv
<1>23. CASE ReadsSeq
  BY <1>23 DEF ReadsSeq, runVars, channel, OverInv
<1>24. CASE Breaks
  BY <1>24 DEF Breaks, runVars, channel, OverInv
<1>25. CASE UNCHANGED <<watched, taken>>
  BY <1>25 DEF watched, runVars, channel, client, OverInv
<1> QED
  BY <1>1, <1>2, <1>3, <1>4, <1>5, <1>6, <1>7, <1>8, <1>9, <1>10, <1>11, <1>12, <1>13, <1>14,
     <1>15, <1>16, <1>17, <1>18, <1>19, <1>20, <1>21, <1>22, <1>23, <1>24, <1>25
  DEF Watches, Watching, Agent, Task, Stop, Client, Emitter

-----------------------------------------------------------------------------
(* The pipe *)

\* Every step keeps the events of a running run in a row.
LEMMA PipeStep == Types /\ OverInv /\ PipeInv /\ Watches => PipeInv'
<1> SUFFICES ASSUME Types, OverInv, PipeInv, Watches
             PROVE  PipeInv'
  OBVIOUS
<1>1. ASSUME NEW e \in Emitter, Number(e)
      PROVE  PipeInv'
  <2> SUFFICES ASSUME status' = "running"
               PROVE  PipeInv'
    BY DEF PipeInv
  <2>1. /\ Len(issued) \in Nat /\ Len(issued') = Len(issued) + 1
        /\ \A n \in 1 .. Len(issued) : issued'[n] = issued[n]
        /\ issued'[Len(issued) + 1] = [event |-> out[e].event, body |-> out[e].body]
        /\ UNCHANGED <<status, sent, parts>> /\ out[e].event \in Live \cup LastEvent
        /\ out[e].seq = 0
        /\ out'[e] = [event |-> out[e].event, body |-> out[e].body, seq |-> Len(issued) + 1]
    BY <1>1, NumberIs DEF Types
  <2>2. \A n \in 0 .. Len(issued) : CountIn(issued', "part", n) = CountIn(issued, "part", n)
    BY <1>1, NumberIs DEF Types
  <2>3. e = "task"
    BY <2>1, Emitters DEF OverInv, Live, LastEvent
  <2>4. out["task"].event \in Live /\ status = "running"
    BY <2>1, <2>3, Emitters DEF OverInv
  <2>5. CountIn(issued, "part", Len(issued)) \in Nat
    <3>1. Len(issued) \in Nat
      BY <2>1
    <3>2. CountsOn(issued, "part", Len(issued))
      BY <3>1, CountNext
    <3> QED
      BY <3>2 DEF CountsOn
  <2>6. CountIn(issued', "part", Len(issued) + 1) =
          IF out["task"].event = "part" THEN CountIn(issued, "part", Len(issued)) + 1
                                        ELSE CountIn(issued, "part", Len(issued))
    <3>1. Len(issued) \in Nat
      BY <2>1
    <3>2. CountsOn(issued', "part", Len(issued))
      BY <3>1, CountNext
    <3>3. CountIn(issued', "part", Len(issued)) = CountIn(issued, "part", Len(issued))
      BY <2>2, <3>1
    <3>4. issued'[Len(issued) + 1].event = out["task"].event
      BY <2>1, <2>3
    <3> QED
      BY <3>2, <3>3, <3>4 DEF CountsOn
  <2>7. Len(sent) = Len(issued) /\ \A i \in 1 .. Len(sent) : sent[i] = i
    BY <2>1, <2>3, <2>4 DEF PipeInv
  <2>8. parts = CountIn(issued', "part", Len(issued) + 1)
    BY <2>1, <2>3, <2>4, <2>5, <2>6 DEF PipeInv, PartsIn
  <2>9. out["task"].event = "part" => out["task"].body = CountIn(issued', "part", Len(issued) + 1)
    BY <2>1, <2>3, <2>4, <2>8 DEF PipeInv
  <2>10. ASSUME NEW n \in 1 .. Len(issued'), issued'[n].event = "part"
         PROVE  issued'[n].body = CountIn(issued', "part", n)
    <3>1. n \in 1 .. Len(issued) \/ n = Len(issued) + 1
      BY <2>1
    <3>2. CASE n \in 1 .. Len(issued)
      BY <2>1, <2>2, <2>4, <2>10, <3>2 DEF PipeInv, PartsIn
    <3> QED
      BY <2>1, <2>3, <2>9, <2>10, <3>1, <3>2
  <2>11. /\ out'["task"].seq = Len(issued') /\ Len(issued') = Len(sent') + 1
         /\ out'["task"].seq # 0
    BY <2>1, <2>3, <2>7
  <2> QED
    BY <2>1, <2>7, <2>8, <2>10, <2>11 DEF PipeInv, PartsIn
<1>2. ASSUME NEW e \in Emitter, SendEvent(e)
      PROVE  PipeInv'
  <2> SUFFICES ASSUME status' = "running"
               PROVE  PipeInv'
    BY DEF PipeInv
  <2>1. /\ out[e].seq \in 1 .. Len(issued) /\ out'[e] = Nothing
        /\ Len(sent) \in Nat /\ \A i \in 1 .. Len(sent) : sent'[i] = sent[i]
        /\ ~ closed => Len(sent') = Len(sent) + 1 /\ sent'[Len(sent) + 1] = out[e].seq
        /\ UNCHANGED <<status, issued, parts>>
    BY <1>2, SendIs DEF Types
  <2>2. out[e].event # "none"
    BY <2>1 DEF Types, ChannelTypes, OutsUpTo, OutUpTo, Nothing
  <2>3. e = "task" /\ ~ closed
    BY <2>1, <2>2, Emitters DEF OverInv, LastEvent
  <2>4. out["task"].seq = Len(issued) /\ Len(issued) = Len(sent) + 1 /\ out["task"].seq # 0
    BY <2>1, <2>3 DEF PipeInv
  <2>5. ASSUME NEW i \in 1 .. Len(sent')
        PROVE  sent'[i] = i
    <3>1. i \in 1 .. Len(sent) \/ i = Len(sent) + 1
      BY <2>1, <2>3
    <3> QED
      BY <2>1, <2>3, <2>4, <3>1 DEF PipeInv
  <2>6. out'["task"].seq = 0 /\ out'["task"].event # "part" /\ Len(sent') = Len(issued')
    BY <2>1, <2>3, <2>4 DEF Nothing
  <2>7. /\ \A n \in 1 .. Len(issued) : issued[n].event = "part" => issued[n].body = PartsIn(n)
        /\ parts = PartsIn(Len(issued))
    BY <2>1, <2>4 DEF PipeInv
  <2> QED
    BY <2>1, <2>5, <2>6, <2>7 DEF PipeInv, PartsIn
<1>3. CASE Completes
  <2>1. status' # "running"
    BY <1>3 DEF Completes
  <2> QED
    BY <2>1 DEF PipeInv
<1>4. CASE Fails
  <2>1. status' # "running"
    BY <1>4 DEF Fails
  <2> QED
    BY <2>1 DEF PipeInv
<1>5. CASE TaskCloses
  <2>1. UNCHANGED <<status, parts, issued, sent, out>>
    BY <1>5 DEF TaskCloses, CloseChannel
  <2> QED
    BY <2>1 DEF PipeInv, PartsIn
<1>6. CASE TaskAborted
  <2>1. status' # "running"
    BY <1>6 DEF TaskAborted, OverInv
  <2> QED
    BY <2>1 DEF PipeInv
<1>7. CASE WritesPart
  <2>1. /\ parts' \in Nat /\ Emits("task", "part", parts')
        /\ UNCHANGED <<status, issued, sent>> /\ parts' = parts + 1
    BY <1>7 DEF WritesPart, Types, RunTypes
  <2>2. out["task"] = Nothing /\ out'["task"] = [event |-> "part", body |-> parts', seq |-> 0]
    <3>1. "task" \in Emitter /\ "part" \in Live \cup LastEvent /\ ChannelTypes
      BY DEF Emitter, Live, Types
    <3> QED
      BY <2>1, <3>1, EmitsIs
  <2> QED
    BY <2>1, <2>2 DEF PipeInv, PartsIn, Nothing
<1>8. CASE AsksUser
  <2>1. /\ prompt' \in Nat /\ Emits("task", "prompt", prompt')
        /\ UNCHANGED <<status, issued, sent>> /\ parts' = parts
    BY <1>8, RaisedIsNat DEF AsksUser, Types, RunTypes
  <2>2. /\ out["task"] = Nothing
        /\ out'["task"] = [event |-> "prompt", body |-> prompt', seq |-> 0]
    <3>1. "task" \in Emitter /\ "prompt" \in Live \cup LastEvent /\ ChannelTypes
      BY DEF Emitter, Live, Types
    <3> QED
      BY <2>1, <3>1, EmitsIs
  <2> QED
    BY <2>1, <2>2 DEF PipeInv, PartsIn, Nothing
<1>9. CASE AgentReturns
  <2>1. UNCHANGED <<status, parts, issued, sent, out>>
    BY <1>9 DEF AgentReturns, channel
  <2> QED
    BY <2>1 DEF PipeInv, PartsIn
<1>10. CASE AgentFails
  <2>1. UNCHANGED <<status, parts, issued, sent, out>>
    BY <1>10 DEF AgentFails, channel
  <2> QED
    BY <2>1 DEF PipeInv, PartsIn
<1>11. CASE Answered
  <2>1. UNCHANGED <<status, parts, issued, sent, out>>
    BY <1>11 DEF Answered, channel
  <2> QED
    BY <2>1 DEF PipeInv, PartsIn
<1>12. CASE StopPublishes
  <2>1. status' # "running"
    BY <1>12 DEF StopPublishes
  <2> QED
    BY <2>1 DEF PipeInv
<1>13. CASE StopCloses
  <2>1. UNCHANGED <<status, parts, issued, sent, out>>
    BY <1>13 DEF StopCloses, CloseChannel
  <2> QED
    BY <2>1 DEF PipeInv, PartsIn
<1>14. CASE Subscribes
  <2>1. UNCHANGED <<status, parts, issued, sent, out>>
    BY <1>14 DEF Subscribes, channel, runVars
  <2> QED
    BY <2>1 DEF PipeInv, PartsIn
<1>15. CASE ReceivesState
  <2>1. UNCHANGED <<status, parts, issued, sent, out>>
    BY <1>15 DEF ReceivesState, channel, runVars
  <2> QED
    BY <2>1 DEF PipeInv, PartsIn
<1>16. CASE ReceivesEvent
  <2>1. UNCHANGED <<status, parts, issued, sent, out>>
    BY <1>16 DEF ReceivesEvent, channel, runVars
  <2> QED
    BY <2>1 DEF PipeInv, PartsIn
<1>17. CASE Lags
  <2>1. UNCHANGED <<status, parts, issued, sent, out>>
    BY <1>17 DEF Lags, channel, runVars
  <2> QED
    BY <2>1 DEF PipeInv, PartsIn
<1>18. CASE StreamEnds
  <2>1. UNCHANGED <<status, parts, issued, sent, out>>
    BY <1>18 DEF StreamEnds, channel, runVars
  <2> QED
    BY <2>1 DEF PipeInv, PartsIn
<1>19. CASE Probed
  <2>1. UNCHANGED <<status, parts, issued, sent, out>>
    BY <1>19 DEF Probed, channel, runVars
  <2> QED
    BY <2>1 DEF PipeInv, PartsIn
<1>20. CASE TailRefreshed
  <2>1. UNCHANGED <<status, parts, issued, sent, out>>
    BY <1>20 DEF TailRefreshed, channel, runVars
  <2> QED
    BY <2>1 DEF PipeInv, PartsIn
<1>21. CASE ReadsParts
  <2>1. UNCHANGED <<status, parts, issued, sent, out>>
    BY <1>21 DEF ReadsParts, channel, runVars
  <2> QED
    BY <2>1 DEF PipeInv, PartsIn
<1>22. CASE ReadsPrompt
  <2>1. UNCHANGED <<status, parts, issued, sent, out>>
    BY <1>22 DEF ReadsPrompt, channel, runVars
  <2> QED
    BY <2>1 DEF PipeInv, PartsIn
<1>23. CASE ReadsSeq
  <2>1. UNCHANGED <<status, parts, issued, sent, out>>
    BY <1>23 DEF ReadsSeq, channel, runVars
  <2> QED
    BY <2>1 DEF PipeInv, PartsIn
<1>24. CASE Breaks
  <2>1. UNCHANGED <<status, parts, issued, sent, out>>
    BY <1>24 DEF Breaks, channel, runVars
  <2> QED
    BY <2>1 DEF PipeInv, PartsIn
<1>25. CASE UNCHANGED <<watched, taken>>
  <2>1. UNCHANGED <<status, parts, issued, sent, out>>
    BY <1>25 DEF watched, channel, runVars
  <2> QED
    BY <2>1 DEF PipeInv, PartsIn
<1> QED
  BY <1>1, <1>2, <1>3, <1>4, <1>5, <1>6, <1>7, <1>8, <1>9, <1>10, <1>11, <1>12, <1>13, <1>14,
     <1>15, <1>16, <1>17, <1>18, <1>19, <1>20, <1>21, <1>22, <1>23, <1>24, <1>25
  DEF Watches, Watching, Agent, Task, Stop, Client, Emitter

-----------------------------------------------------------------------------
(* What the run asks *)

\* An event more asks nothing of what was asked before.
LEMMA AskedBefore ==
  ASSUME NEW f, NEW g, Len(f) \in Nat, Len(g) = Len(f) + 1, \A n \in 1 .. Len(f) : g[n] = f[n],
         NEW p, NEW q \in 1 .. Len(f)
  PROVE  Asked(g, p, q) <=> Asked(f, p, q) /\ g[Len(f) + 1].event = "stopped"
<1>1. \A m : m \in q + 1 .. Len(g) <=> m \in q + 1 .. Len(f) \/ m = Len(f) + 1
  OBVIOUS
<1>2. g[q] = f[q] /\ \A m \in q + 1 .. Len(f) : g[m] = f[m]
  OBVIOUS
<1> QED
  BY <1>1, <1>2 DEF Asked

\* Every step keeps what is said of the prompts.
LEMMA AskStep == Types /\ OverInv /\ AskInv /\ Watches => AskInv'
<1> SUFFICES ASSUME Types, OverInv, AskInv, Watches
             PROVE  AskInv'
  OBVIOUS
<1>1. ASSUME NEW e \in Emitter, Number(e)
      PROVE  AskInv'
  <2>1. /\ Len(issued) \in Nat /\ Len(issued') = Len(issued) + 1
        /\ \A n \in 1 .. Len(issued) : issued'[n] = issued[n]
        /\ issued'[Len(issued) + 1] = [event |-> out[e].event, body |-> out[e].body]
        /\ UNCHANGED <<task, prompt>> /\ out[e].event \in Live \cup LastEvent /\ out[e].seq = 0
        /\ out'[e] = [event |-> out[e].event, body |-> out[e].body, seq |-> Len(issued) + 1]
        /\ \A d \in Emitter : d # e => out'[d] = out[d]
    BY <1>1, NumberIs DEF Types
  <2>2. \A n \in 0 .. Len(issued) : CountIn(issued', "prompt", n) = CountIn(issued, "prompt", n)
    BY <1>1, NumberIs DEF Types
  <2>3. Raised \in Nat /\ Raised' = IF out[e].event = "prompt" THEN Raised + 1 ELSE Raised
    <3>1. Len(issued) \in Nat /\ Len(issued') = Len(issued) + 1
      BY <2>1
    <3>2. CountsOn(issued', "prompt", Len(issued))
      BY <3>1, CountNext
    <3>3. CountIn(issued', "prompt", Len(issued)) = CountIn(issued, "prompt", Len(issued))
      BY <2>2, <3>1
    <3>4. issued'[Len(issued) + 1].event = out[e].event
      BY <2>1
    <3>5. Raised \in Nat
      BY RaisedIsNat DEF Types
    <3> QED
      BY <3>1, <3>2, <3>3, <3>4, <3>5 DEF CountsOn, Raised
  <2>4. out[e].event = "prompt" => /\ e = "task" /\ task = "asking"
                                   /\ out[e].body = prompt /\ prompt = Raised + 1
    <3> SUFFICES ASSUME out[e].event = "prompt"
                 PROVE  /\ e = "task" /\ task = "asking"
                        /\ out[e].body = prompt /\ prompt = Raised + 1
      OBVIOUS
    <3>1. e = "task" /\ task = "asking"
      BY Emitters DEF OverInv
    <3> QED
      BY <2>1, <3>1 DEF AskInv, Nothing
  <2>5. \A n \in 1 .. Len(issued') : issued'[n].event = "prompt" => issued'[n].body <= Raised'
    <3> SUFFICES ASSUME NEW n \in 1 .. Len(issued'), issued'[n].event = "prompt"
                 PROVE  issued'[n].body <= Raised'
      OBVIOUS
    <3>1. CASE n \in 1 .. Len(issued)
      <4>1. issued[n].event = "prompt" /\ issued'[n].body = issued[n].body
        BY <2>1, <3>1
      <4>2. issued[n].body <= Raised /\ issued[n].body \in Nat
        <5>1. issued[n] \in Events
          BY <3>1 DEF Types, ChannelTypes
        <5> QED
          BY <3>1, <4>1, <5>1 DEF AskInv, Events
      <4> QED
        BY <2>3, <4>1, <4>2
    <3>2. CASE n = Len(issued) + 1
      BY <2>1, <2>3, <2>4, <3>2
    <3> QED
      BY <2>1, <3>1, <3>2
  <2>6. ASSUME task = "asking", e = "task"
        PROVE  prompt = Raised' /\ Asked(issued', prompt, Len(issued) + 1)
               /\ out'["task"] = [event |-> "prompt", body |-> prompt, seq |-> Len(issued) + 1]
    <3>1. out["task"].event = "prompt"
      BY <2>1, <2>6, Emitters DEF OverInv, Live, LastEvent
    <3> QED
      BY <2>1, <2>3, <2>4, <2>6, <3>1 DEF Asked
  <2>7. ASSUME task = "asking", e = "stop"
        PROVE  Raised' = Raised /\ out'["task"] = out["task"]
               /\ \A q \in 1 .. Len(issued) : Asked(issued, prompt, q) => Asked(issued', prompt, q)
    <3>1. out["stop"].event = "stopped"
      BY <2>1, <2>7, Emitters DEF OverInv, Live, LastEvent
    <3>2. issued'[Len(issued) + 1].event = "stopped"
      BY <2>1, <2>7, <3>1
    <3>3. \A q \in 1 .. Len(issued) : Asked(issued, prompt, q) => Asked(issued', prompt, q)
      BY <2>1, <3>2, AskedBefore
    <3> QED
      BY <2>1, <2>3, <2>7, <3>1, <3>3, Emitters
  <2>8. CASE task # "asking"
    BY <2>1, <2>5, <2>8 DEF AskInv
  <2>9. CASE task = "asking" /\ e = "task"
    <3>1. Len(issued) + 1 \in 1 .. Len(issued')
      BY <2>1
    <3> QED
      BY <2>1, <2>5, <2>6, <2>9, <3>1 DEF AskInv
  <2>10. CASE task = "asking" /\ e = "stop"
    <3>1. CASE out["task"] = [event |-> "prompt", body |-> prompt, seq |-> 0] /\ prompt = Raised + 1
      BY <2>1, <2>5, <2>7, <2>10, <3>1 DEF AskInv
    <3>2. CASE /\ prompt = Raised
               /\ \E q \in 1 .. Len(issued) :
                    /\ Asked(issued, prompt, q)
                    /\ out["task"] \in {Nothing, [event |-> "prompt", body |-> prompt, seq |-> q]}
      <4>1. PICK q \in 1 .. Len(issued) :
              /\ Asked(issued, prompt, q)
              /\ out["task"] \in {Nothing, [event |-> "prompt", body |-> prompt, seq |-> q]}
        BY <3>2
      <4>2. q \in 1 .. Len(issued') /\ Asked(issued', prompt, q)
        BY <2>1, <2>7, <2>10, <4>1
      <4> QED
        BY <2>1, <2>5, <2>7, <2>10, <3>2, <4>1, <4>2 DEF AskInv
    <3> QED
      BY <2>10, <3>1, <3>2 DEF AskInv
  <2> QED
    BY <2>8, <2>9, <2>10, Emitters
<1>2. ASSUME NEW e \in Emitter, SendEvent(e)
      PROVE  AskInv'
  <2>1. /\ out[e].seq \in 1 .. Len(issued) /\ out'[e] = Nothing
        /\ \A d \in Emitter : d # e => out'[d] = out[d]
        /\ UNCHANGED <<issued, task, prompt>>
    BY <1>2, SendIs DEF Types
  <2>2. out'["task"] = out["task"] \/ (out'["task"] = Nothing /\ out["task"].seq # 0)
    <3>1. CASE e = "task"
      BY <2>1, <3>1
    <3>2. CASE e = "stop"
      BY <2>1, <3>2, Emitters
    <3> QED
      BY <3>1, <3>2, Emitters
  <2> QED
    BY <2>1, <2>2 DEF AskInv, Raised
<1>3. CASE Completes
  <2>1. issued' = issued /\ task' # "asking"
    BY <1>3 DEF Completes
  <2> QED
    BY <2>1 DEF AskInv, Raised
<1>4. CASE Fails
  <2>1. issued' = issued /\ task' # "asking"
    BY <1>4 DEF Fails
  <2> QED
    BY <2>1 DEF AskInv, Raised
<1>5. CASE TaskCloses
  <2>1. issued' = issued /\ task' # "asking"
    BY <1>5 DEF TaskCloses, CloseChannel
  <2> QED
    BY <2>1 DEF AskInv, Raised
<1>6. CASE TaskAborted
  <2>1. issued' = issued /\ task' # "asking"
    BY <1>6 DEF TaskAborted
  <2> QED
    BY <2>1 DEF AskInv, Raised
<1>7. CASE WritesPart
  <2>1. issued' = issued /\ task' # "asking"
    BY <1>7 DEF WritesPart
  <2> QED
    BY <2>1 DEF AskInv, Raised
<1>8. CASE AsksUser
  <2>1. /\ prompt' \in Nat /\ Emits("task", "prompt", prompt') /\ prompt' = Raised + 1
        /\ issued' = issued
    BY <1>8, RaisedIsNat DEF AsksUser, Types
  <2>2. out'["task"] = [event |-> "prompt", body |-> prompt', seq |-> 0]
    <3>1. "task" \in Emitter /\ "prompt" \in Live \cup LastEvent /\ ChannelTypes
      BY DEF Emitter, Live, Types
    <3> QED
      BY <2>1, <3>1, EmitsIs
  <2> QED
    BY <2>1, <2>2 DEF AskInv, Raised
<1>9. CASE AgentReturns
  <2>1. issued' = issued /\ task' # "asking"
    BY <1>9 DEF AgentReturns, channel
  <2> QED
    BY <2>1 DEF AskInv, Raised
<1>10. CASE AgentFails
  <2>1. issued' = issued /\ task' # "asking"
    BY <1>10 DEF AgentFails, channel
  <2> QED
    BY <2>1 DEF AskInv, Raised
<1>11. CASE Answered
  <2>1. issued' = issued /\ task' # "asking"
    BY <1>11 DEF Answered, channel
  <2> QED
    BY <2>1 DEF AskInv, Raised
<1>12. CASE StopPublishes
  <2>1. Emits("stop", "stopped", 0) /\ UNCHANGED <<issued, task, prompt>>
    BY <1>12 DEF StopPublishes
  <2>2. out'["task"] = out["task"]
    <3>1. "stop" \in Emitter /\ "stopped" \in Live \cup LastEvent /\ ChannelTypes /\ 0 \in Nat
      BY DEF Emitter, LastEvent, Types
    <3>2. \A d \in Emitter : d # "stop" => out'[d] = out[d]
      BY <2>1, <3>1, EmitsIs
    <3> QED
      BY <3>2, Emitters
  <2> QED
    BY <2>1, <2>2 DEF AskInv, Raised
<1>13. CASE StopCloses
  <2>1. UNCHANGED <<task, prompt, issued, out>>
    BY <1>13 DEF StopCloses, CloseChannel
  <2> QED
    BY <2>1 DEF AskInv, Raised
<1>14. CASE Subscribes
  <2>1. UNCHANGED <<task, prompt, issued, out>>
    BY <1>14 DEF Subscribes, channel, runVars
  <2> QED
    BY <2>1 DEF AskInv, Raised
<1>15. CASE ReceivesState
  <2>1. UNCHANGED <<task, prompt, issued, out>>
    BY <1>15 DEF ReceivesState, channel, runVars
  <2> QED
    BY <2>1 DEF AskInv, Raised
<1>16. CASE ReceivesEvent
  <2>1. UNCHANGED <<task, prompt, issued, out>>
    BY <1>16 DEF ReceivesEvent, channel, runVars
  <2> QED
    BY <2>1 DEF AskInv, Raised
<1>17. CASE Lags
  <2>1. UNCHANGED <<task, prompt, issued, out>>
    BY <1>17 DEF Lags, channel, runVars
  <2> QED
    BY <2>1 DEF AskInv, Raised
<1>18. CASE StreamEnds
  <2>1. UNCHANGED <<task, prompt, issued, out>>
    BY <1>18 DEF StreamEnds, channel, runVars
  <2> QED
    BY <2>1 DEF AskInv, Raised
<1>19. CASE Probed
  <2>1. UNCHANGED <<task, prompt, issued, out>>
    BY <1>19 DEF Probed, channel, runVars
  <2> QED
    BY <2>1 DEF AskInv, Raised
<1>20. CASE TailRefreshed
  <2>1. UNCHANGED <<task, prompt, issued, out>>
    BY <1>20 DEF TailRefreshed, channel, runVars
  <2> QED
    BY <2>1 DEF AskInv, Raised
<1>21. CASE ReadsParts
  <2>1. UNCHANGED <<task, prompt, issued, out>>
    BY <1>21 DEF ReadsParts, channel, runVars
  <2> QED
    BY <2>1 DEF AskInv, Raised
<1>22. CASE ReadsPrompt
  <2>1. UNCHANGED <<task, prompt, issued, out>>
    BY <1>22 DEF ReadsPrompt, channel, runVars
  <2> QED
    BY <2>1 DEF AskInv, Raised
<1>23. CASE ReadsSeq
  <2>1. UNCHANGED <<task, prompt, issued, out>>
    BY <1>23 DEF ReadsSeq, channel, runVars
  <2> QED
    BY <2>1 DEF AskInv, Raised
<1>24. CASE Breaks
  <2>1. UNCHANGED <<task, prompt, issued, out>>
    BY <1>24 DEF Breaks, channel, runVars
  <2> QED
    BY <2>1 DEF AskInv, Raised
<1>25. CASE UNCHANGED <<watched, taken>>
  <2>1. UNCHANGED <<task, prompt, issued, out>>
    BY <1>25 DEF watched, channel, runVars
  <2> QED
    BY <2>1 DEF AskInv, Raised
<1> QED
  BY <1>1, <1>2, <1>3, <1>4, <1>5, <1>6, <1>7, <1>8, <1>9, <1>10, <1>11, <1>12, <1>13, <1>14,
     <1>15, <1>16, <1>17, <1>18, <1>19, <1>20, <1>21, <1>22, <1>23, <1>24, <1>25
  DEF Watches, Watching, Agent, Task, Stop, Client, Emitter

-----------------------------------------------------------------------------
(* What the run does is not lost on who has seen n events *)

\* What a step of the run leaves to those who watch it: what they have seen
\* stays what was asked and written, and what is to come still comes.
Watched ==
  /\ UNCHANGED <<snap, rx, mode, view>> /\ (status' = "running" => status = "running")
  /\ closed => closed'
  /\ \A n \in 0 .. Len(issued) :
       /\ CountIn(issued', "part", n) = CountIn(issued, "part", n)
       /\ task' = "asking" =>
            \A q \in 1 .. n :
              Asked(issued', prompt', q) =>
                task = "asking" /\ prompt' = prompt /\ Asked(issued, prompt, q)
       /\ mode = "stream" /\ task' = "asking" /\ ~ closed'
          /\ (task = "asking" => ToCome(issued, prompt, sent, rx, out, n)) =>
            ToCome(issued', prompt', sent', rx, out', n)

\* So it is with every step of the run.
LEMMA RunIsWatched ==
  ASSUME Types, OverInv, AskInv, Agent \/ Answered \/ Task \/ StopPublishes \/ Stop
  PROVE  Watched
<1>1. ASSUME NEW e \in Emitter, Number(e)
      PROVE  Watched
  <2>1. /\ Len(issued) \in Nat /\ Len(issued') = Len(issued) + 1
        /\ \A n \in 1 .. Len(issued) : issued'[n] = issued[n]
        /\ issued'[Len(issued) + 1] = [event |-> out[e].event, body |-> out[e].body]
        /\ UNCHANGED <<task, prompt>> /\ out[e].event \in Live \cup LastEvent /\ out[e].seq = 0
        /\ out'[e] = [event |-> out[e].event, body |-> out[e].body, seq |-> Len(issued) + 1]
        /\ \A d \in Emitter : d # e => out'[d] = out[d]
        /\ UNCHANGED <<status, closed, sent, snap, rx, mode, view>>
    BY <1>1, NumberIs DEF Types
  <2>2. \A n \in 0 .. Len(issued) : CountIn(issued', "part", n) = CountIn(issued, "part", n)
    BY <1>1, NumberIs DEF Types
  <2>3. \A q \in 1 .. Len(issued) : Asked(issued', prompt, q) => Asked(issued, prompt, q)
    BY <2>1, AskedBefore
  <2>4. ASSUME NEW n \in 0 .. Len(issued), task = "asking", ToCome(issued, prompt, sent, rx, out, n)
        PROVE  ToCome(issued', prompt, sent, rx, out', n)
    <3> SUFFICES ASSUME NEW q \in n + 1 .. Len(issued'), Asked(issued', prompt, q)
                 PROVE  out'["task"].seq = q \/ \E j \in rx .. Len(sent) : sent[j] = q
      BY DEF ToCome
    <3>1. CASE q = Len(issued) + 1
      <4>1. out[e].event = "prompt"
        BY <2>1, <3>1 DEF Asked
      <4>2. e = "task"
        BY <4>1, Emitters DEF OverInv
      <4> QED
        BY <2>1, <3>1, <4>2
    <3>2. CASE q \in n + 1 .. Len(issued)
      <4>1. q \in 1 .. Len(issued)
        BY <2>1, <3>2
      <4>2. out["task"].seq = q \/ \E j \in rx .. Len(sent) : sent[j] = q
        BY <2>3, <2>4, <3>2, <4>1 DEF ToCome
      <4>3. CASE e = "task"
        BY <2>1, <4>1, <4>2, <4>3
      <4>4. CASE e = "stop"
        BY <2>1, <4>2, <4>4, Emitters
      <4> QED
        BY <4>3, <4>4, Emitters
    <3> QED
      BY <2>1, <3>1, <3>2
  <2>5. \A n \in 0 .. Len(issued) : \A q \in 1 .. n : Asked(issued', prompt, q) => Asked(issued, prompt, q)
    BY <2>1, <2>3
  <2> QED
    BY <2>1, <2>2, <2>4, <2>5 DEF Watched
<1>2. ASSUME NEW e \in Emitter, SendEvent(e)
      PROVE  Watched
  <2>1. /\ out[e].seq \in 1 .. Len(issued) /\ out'[e] = Nothing
        /\ \A d \in Emitter : d # e => out'[d] = out[d]
        /\ Len(sent) \in Nat /\ \A i \in 1 .. Len(sent) : sent'[i] = sent[i]
        /\ ~ closed => Len(sent') = Len(sent) + 1 /\ sent'[Len(sent) + 1] = out[e].seq
        /\ UNCHANGED <<status, task, prompt, closed, issued, snap, rx, mode, view>>
    BY <1>2, SendIs DEF Types
  <2>2. rx \in Nat /\ rx <= Len(sent) + 1
    BY DEF Types, ClientTypes
  <2>3. ASSUME NEW n \in 0 .. Len(issued), ~ closed, mode = "stream",
               ToCome(issued, prompt, sent, rx, out, n)
        PROVE  ToCome(issued, prompt, sent', rx, out', n)
    <3> SUFFICES ASSUME NEW q \in n + 1 .. Len(issued), Asked(issued, prompt, q)
                 PROVE  out'["task"].seq = q \/ \E j \in rx .. Len(sent') : sent'[j] = q
      BY DEF ToCome
    <3>1. rx > 0
      BY <2>3 DEF OverInv
    <3>2. out["task"].seq = q \/ \E j \in rx .. Len(sent) : sent[j] = q
      BY <2>3 DEF ToCome
    <3>3. CASE \E j \in rx .. Len(sent) : sent[j] = q
      <4>1. PICK j \in rx .. Len(sent) : sent[j] = q
        BY <3>3
      <4>2. j \in rx .. Len(sent') /\ sent'[j] = q
        BY <2>1, <2>2, <2>3, <3>1, <4>1
      <4> QED
        BY <4>2
    <3>4. CASE out["task"].seq = q /\ e = "task"
      <4>1. Len(sent) + 1 \in rx .. Len(sent') /\ sent'[Len(sent) + 1] = q
        BY <2>1, <2>2, <2>3, <3>4
      <4> QED
        BY <4>1
    <3>5. CASE out["task"].seq = q /\ e = "stop"
      BY <2>1, <3>5, Emitters
    <3> QED
      BY <3>2, <3>3, <3>4, <3>5, Emitters
  <2> QED
    BY <2>1, <2>3 DEF Watched
<1>3. CASE Completes
  <2>1. /\ UNCHANGED <<issued, closed, snap, rx, mode, view>> /\ task' # "asking"
        /\ status' = "running" => status = "running"
    BY <1>3 DEF Completes, client
  <2> QED
    BY <2>1 DEF Watched
<1>4. CASE Fails
  <2>1. /\ UNCHANGED <<issued, closed, snap, rx, mode, view>> /\ task' # "asking"
        /\ status' = "running" => status = "running"
    BY <1>4 DEF Fails, client
  <2> QED
    BY <2>1 DEF Watched
<1>5. CASE TaskCloses
  <2>1. /\ UNCHANGED <<issued, snap, rx, mode, view>> /\ (closed => closed') /\ task' # "asking"
        /\ status' = "running" => status = "running"
    BY <1>5 DEF TaskCloses, CloseChannel, client
  <2> QED
    BY <2>1 DEF Watched
<1>6. CASE TaskAborted
  <2>1. /\ UNCHANGED <<issued, closed, snap, rx, mode, view>> /\ task' # "asking"
        /\ status' = "running" => status = "running"
    BY <1>6 DEF TaskAborted, client
  <2> QED
    BY <2>1 DEF Watched
<1>7. CASE WritesPart
  <2>1. /\ UNCHANGED <<issued, closed, snap, rx, mode, view>> /\ task' # "asking"
        /\ status' = "running" => status = "running"
    BY <1>7 DEF WritesPart, client
  <2> QED
    BY <2>1 DEF Watched
<1>8. CASE AsksUser
  <2>1. /\ prompt' = Raised + 1 /\ Raised \in Nat
        /\ UNCHANGED <<status, closed, issued, snap, rx, mode, view>>
    BY <1>8, RaisedIsNat DEF AsksUser, client, Types
  <2>2. \A q : ~ Asked(issued, prompt', q)
    <3> SUFFICES ASSUME NEW q, Asked(issued, prompt', q)
                 PROVE  FALSE
      OBVIOUS
    <3>1. q \in 1 .. Len(issued) /\ issued[q].event = "prompt" /\ issued[q].body = prompt'
      BY DEF Asked
    <3> QED
      BY <2>1, <3>1 DEF AskInv
  <2> QED
    BY <2>1, <2>2 DEF Watched, ToCome
<1>9. CASE AgentReturns
  <2>1. /\ UNCHANGED <<issued, closed, snap, rx, mode, view>> /\ task' # "asking"
        /\ status' = "running" => status = "running"
    BY <1>9 DEF AgentReturns, channel, client
  <2> QED
    BY <2>1 DEF Watched
<1>10. CASE AgentFails
  <2>1. /\ UNCHANGED <<issued, closed, snap, rx, mode, view>> /\ task' # "asking"
        /\ status' = "running" => status = "running"
    BY <1>10 DEF AgentFails, channel, client
  <2> QED
    BY <2>1 DEF Watched
<1>11. CASE Answered
  <2>1. /\ UNCHANGED <<issued, closed, snap, rx, mode, view>> /\ task' # "asking"
        /\ status' = "running" => status = "running"
    BY <1>11 DEF Answered, channel, client
  <2> QED
    BY <2>1 DEF Watched
<1>12. CASE StopPublishes
  <2>1. /\ Emits("stop", "stopped", 0) /\ status' = "stopped"
        /\ UNCHANGED <<issued, task, prompt, sent, closed, snap, rx, mode, view>>
    BY <1>12 DEF StopPublishes, client
  <2>2. out'["task"] = out["task"]
    <3>1. "stop" \in Emitter /\ "stopped" \in Live \cup LastEvent /\ ChannelTypes /\ 0 \in Nat
      BY DEF Emitter, LastEvent, Types
    <3>2. \A d \in Emitter : d # "stop" => out'[d] = out[d]
      BY <2>1, <3>1, EmitsIs
    <3> QED
      BY <3>2, Emitters
  <2> QED
    BY <2>1, <2>2 DEF Watched, ToCome
<1>13. CASE StopCloses
  <2>1. closed' = TRUE /\ UNCHANGED <<status, task, prompt, issued, snap, rx, mode, view>>
    BY <1>13 DEF StopCloses, CloseChannel, client
  <2> QED
    BY <2>1 DEF Watched
<1> QED
  BY <1>1, <1>2, <1>3, <1>4, <1>5, <1>6, <1>7, <1>8, <1>9, <1>10, <1>11, <1>12, <1>13
  DEF Agent, Task, Stop, Emitter

-----------------------------------------------------------------------------
(* What the snapshot has, and what the client shows *)

\* What has been seen is among what was issued.
LEMMA SeenIs ==
  ASSUME Types
  PROVE  /\ Len(issued) \in Nat /\ snap.seq \in 0 .. Len(issued) /\ view.lastSeq \in 0 .. Len(issued)
         /\ snap.at \in {"parts", "prompt", "seq", "status"} /\ snap.parts \in Nat
         /\ Len(sent) \in Nat /\ rx \in Nat
<1>1. snap \in Snaps /\ view \in Views /\ Len(issued) \in Nat /\ Len(sent) \in Nat /\ rx \in Nat
      /\ snap.seq <= Len(issued) /\ view.lastSeq <= Len(issued)
  BY DEF Types, ChannelTypes, ClientTypes
<1> QED
  BY <1>1 DEF Snaps, Views

\* A step of the run keeps what a snapshot has.
LEMMA SnapWatched ==
  ASSUME Types, SnapInv, Watched
  PROVE  SnapInv'
<1> SUFFICES ASSUME snap'.at = "status"
             PROVE  SnapInv'
  BY DEF SnapInv
<1>1. snap' = snap /\ rx' = rx /\ snap.at = "status" /\ snap.seq \in 0 .. Len(issued)
      /\ (snap.for = "stream" => mode = "stream")
  BY SeenIs DEF Watched, Types, ClientTypes
<1>2. ASSUME ~ snap.torn
      PROVE  /\ snap.parts = CountIn(issued', "part", snap.seq)
             /\ task' = "asking" =>
                  \A q \in 1 .. snap.seq : Asked(issued', prompt', q) => snap.prompt = prompt'
  BY <1>1, <1>2 DEF SnapInv, Watched, PartsIn
<1>3. ASSUME snap.for = "stream"
      PROVE  /\ status' = "running" => rx <= snap.seq + 1
             /\ task' = "asking" /\ ~ closed' =>
                  ToCome(issued', prompt', sent', rx, out', snap.seq)
  BY <1>1, <1>3 DEF SnapInv, Watched
<1> QED
  BY <1>1, <1>2, <1>3 DEF SnapInv, PartsIn

\* So it does with what the client shows.
LEMMA ViewWatched ==
  ASSUME Types, ViewInv, Watched, taken \in BOOLEAN, taken' = (taken /\ task' = "asking")
  PROVE  ViewInv'
<1>1. /\ UNCHANGED <<snap, rx, mode, view>> /\ view.lastSeq \in 0 .. Len(issued)
      /\ status' = "running" => status = "running"
  BY SeenIs DEF Watched
<1>2. ViewIsRun'
  BY <1>1 DEF ViewInv, ViewIsRun, Watched, PartsIn
<1>3. ASSUME Listening
      PROVE  /\ status' = "running" => rx <= view.lastSeq + 1 /\ view.phase = "running"
             /\ task' = "asking" /\ ~ closed' =>
                  ToCome(issued', prompt', sent', rx, out', view.lastSeq)
             /\ task' = "asking" /\ ~ taken' /\ ~ view.torn /\ ~ view.wiped =>
                  \A q \in 1 .. view.lastSeq : Asked(issued', prompt', q) => view.prompt = prompt'
  <2>1. mode = "stream"
    BY <1>3 DEF Listening
  <2>2. status' = "running" => rx <= view.lastSeq + 1 /\ view.phase = "running"
    BY <1>1, <1>3 DEF ViewInv
  <2>3. task' = "asking" /\ ~ closed' => ToCome(issued', prompt', sent', rx, out', view.lastSeq)
    BY <1>1, <1>3, <2>1 DEF ViewInv, Watched
  <2>4. task' = "asking" /\ ~ taken' /\ ~ view.torn /\ ~ view.wiped =>
          \A q \in 1 .. view.lastSeq : Asked(issued', prompt', q) => view.prompt = prompt'
    BY <1>1, <1>3 DEF ViewInv, Watched
  <2> QED
    BY <2>2, <2>3, <2>4
<1>4. Listening' = Listening
  BY <1>1 DEF Listening
<1> QED
  BY <1>1, <1>2, <1>3, <1>4 DEF ViewInv

\* Every step keeps what is said of the snapshots.
LEMMA SnapStep == Types /\ OverInv /\ PipeInv /\ AskInv /\ SnapInv /\ Watches => SnapInv'
<1> SUFFICES ASSUME Types, OverInv, PipeInv, AskInv, SnapInv, Watches
             PROVE  SnapInv'
  OBVIOUS
<1>1. CASE Agent \/ Answered \/ Task \/ StopPublishes \/ Stop
  BY <1>1, RunIsWatched, SnapWatched
<1>2. CASE Subscribes
  <2>1. snap'.at # "status"
    BY <1>2, BeginIs DEF Subscribes
  <2> QED
    BY <2>1 DEF SnapInv
<1>3. CASE ReceivesState
  <2>1. snap'.at # "status"
    BY <1>3, BeginIs DEF ReceivesState
  <2> QED
    BY <2>1 DEF SnapInv
<1>4. CASE ReceivesEvent
  <2>1. snap'.at # "status"
    BY <1>4 DEF ReceivesEvent, Listening, Types, ClientTypes
  <2> QED
    BY <2>1 DEF SnapInv
<1>5. CASE Lags
  <2>1. snap'.at # "status"
    BY <1>5, BeginIs DEF Lags
  <2> QED
    BY <2>1 DEF SnapInv
<1>6. CASE StreamEnds
  <2>1. snap'.at # "status"
    BY <1>6, BeginIs DEF StreamEnds
  <2> QED
    BY <2>1 DEF SnapInv
<1>7. CASE Probed
  <2>1. snap'.at # "status"
    BY <1>7, BeginIs DEF Probed
  <2> QED
    BY <2>1 DEF SnapInv
<1>8. CASE TailRefreshed
  <2>1. snap'.at # "status"
    BY <1>8 DEF TailRefreshed, Types, ClientTypes, Snaps
  <2> QED
    BY <2>1 DEF SnapInv
<1>9. CASE ReadsParts
  <2>1. snap'.at # "status"
    BY <1>9 DEF ReadsParts
  <2> QED
    BY <2>1 DEF SnapInv
<1>10. CASE ReadsPrompt
  <2>1. snap'.at # "status"
    BY <1>10 DEF ReadsPrompt
  <2> QED
    BY <2>1 DEF SnapInv
<1>11. CASE ReadsSeq
  <2>1. /\ snap'.at = "status" /\ snap'.for = snap.for /\ snap'.parts = snap.parts
        /\ snap'.prompt = snap.prompt /\ snap'.seq = Len(issued)
        /\ UNCHANGED <<status, task, prompt, closed, issued, sent, out, rx>>
    BY <1>11 DEF ReadsSeq, runVars, channel
  <2>2. ~ snap'.torn => /\ snap.parts = PartsIn(Len(issued))
                        /\ prompt = Raised => snap.prompt = prompt
    BY <1>11 DEF ReadsSeq
  <2>3. ASSUME task = "asking", NEW q, Asked(issued, prompt, q)
        PROVE  prompt = Raised
    <3>1. q \in 1 .. Len(issued) /\ issued[q].event = "prompt" /\ issued[q].body = prompt
      BY <2>3 DEF Asked
    <3>2. prompt <= Raised /\ prompt \in Nat /\ Raised \in Nat
      BY <3>1, RaisedIsNat DEF AskInv, Types, RunTypes
    <3> QED
      BY <2>3, <3>2 DEF AskInv
  <2>4. status = "running" => rx <= Len(issued) + 1
    <3>1. rx <= Len(sent) + 1
      BY DEF Types, ClientTypes
    <3>2. status = "running" => Len(sent) <= Len(issued)
      BY SeenIs DEF PipeInv
    <3> QED
      BY <3>1, <3>2, SeenIs
  <2>5. ToCome(issued, prompt, sent, rx, out, Len(issued))
    BY SeenIs DEF ToCome
  <2> QED
    BY <2>1, <2>2, <2>3, <2>4, <2>5 DEF SnapInv, PartsIn
<1>12. CASE Breaks
  <2>1. snap'.at # "status"
    BY <1>12, BeginIs DEF Breaks
  <2> QED
    BY <2>1 DEF SnapInv
<1>13. CASE UNCHANGED <<watched, taken>>
  BY <1>13 DEF watched, runVars, channel, client, SnapInv, PartsIn
<1> QED
  BY <1>1, <1>2, <1>3, <1>4, <1>5, <1>6, <1>7, <1>8, <1>9, <1>10, <1>11, <1>12, <1>13
  DEF Watches, Watching, Client

\* One part more continues the parts.
LEMMA OneMore ==
  ASSUME NEW k \in Nat
  PROVE  Append([i \in 1 .. k |-> i], k + 1) = [i \in 1 .. k + 1 |-> i]
  OBVIOUS

\* Who has read the next event as well still gets the one that asks.
LEMMA NextToCome ==
  ASSUME NEW f, NEW p, NEW s, NEW o, NEW r \in Nat, NEW m \in Nat, NEW n \in Nat, Len(f) \in Nat,
         Len(s) \in Nat, m <= n, r \in 1 .. Len(s), s[r] <= n, ToCome(f, p, s, r, o, m)
  PROVE  ToCome(f, p, s, r + 1, o, n)
<1> SUFFICES ASSUME NEW q \in n + 1 .. Len(f), Asked(f, p, q)
             PROVE  o["task"].seq = q \/ \E j \in r + 1 .. Len(s) : s[j] = q
  BY DEF ToCome
<1>1. q \in m + 1 .. Len(f)
  OBVIOUS
<1>2. o["task"].seq = q \/ \E j \in r .. Len(s) : s[j] = q
  BY <1>1 DEF ToCome
<1>3. ASSUME NEW j \in r .. Len(s), s[j] = q
      PROVE  j \in r + 1 .. Len(s)
  BY <1>3
<1> QED
  BY <1>2, <1>3

\* Every step keeps what is said of what the client shows.
LEMMA ViewStep ==
  Types /\ OverInv /\ PipeInv /\ AskInv /\ SnapInv /\ ViewInv /\ ReplyInv /\ Watches => ViewInv'
<1> SUFFICES ASSUME Types, OverInv, PipeInv, AskInv, SnapInv, ViewInv, ReplyInv, Watches
             PROVE  ViewInv'
  OBVIOUS
<1>1. CASE Agent \/ Answered \/ Task \/ StopPublishes \/ Stop
  <2>1. ASSUME UNCHANGED <<watched, taken>>
        PROVE  ViewInv'
    BY <2>1 DEF watched, runVars, channel, client, ViewInv, ViewIsRun, PartsIn, Listening
  <2>2. ASSUME taken' = (taken /\ task' = "asking")
        PROVE  ViewInv'
    BY <1>1, <2>2, RunIsWatched, ViewWatched DEF ReplyInv
  <2> QED
    BY <2>1, <2>2 DEF Watches
<1>2. CASE Subscribes
  <2>1. UNCHANGED <<status, issued, view>>
    BY <1>2 DEF Subscribes, runVars, channel
  <2>2. ~ Listening'
    BY <1>2, BeginIs DEF Subscribes, Listening
  <2> QED
    BY <2>1, <2>2 DEF ViewInv, ViewIsRun, PartsIn
<1>3. CASE ReceivesState
  <2>1. /\ UNCHANGED <<status, task, prompt, closed, issued, sent, out, rx>>
        /\ snap.at = "status" /\ view' = ReduceState
    BY <1>3 DEF ReceivesState, runVars, channel
  <2>2. ASSUME status \in {"running", "stopped"}
        PROVE  /\ view' = FromSnapshot /\ view'.phase = status /\ view'.lastSeq = snap.seq
               /\ view'.parts = [i \in 1 .. snap.parts |-> i] /\ view'.prompt = snap.prompt
               /\ view'.torn = snap.torn
    <3>1. view' = FromSnapshot /\ view'.phase = status
      BY <2>1, <2>2, StateIs
    <3>2. /\ FromSnapshot.lastSeq = snap.seq /\ FromSnapshot.prompt = snap.prompt
          /\ FromSnapshot.parts = [i \in 1 .. snap.parts |-> i] /\ FromSnapshot.torn = snap.torn
      BY DEF FromSnapshot
    <3> QED
      BY <3>1, <3>2
  <2>3. ViewIsRun'
    BY <2>1, <2>2 DEF ViewIsRun, SnapInv, PartsIn
  <2>4. snap.for = "stream"
    BY <1>3 DEF ReceivesState
  <2>5. status = "running" => rx <= view'.lastSeq + 1 /\ view'.phase = "running"
    BY <2>1, <2>2, <2>4 DEF SnapInv
  <2>6. task = "asking" => status \in {"running", "stopped"}
    BY DEF OverInv, Types, RunTypes, Terminal
  <2>7. task = "asking" /\ ~ closed => ToCome(issued, prompt, sent, rx, out, view'.lastSeq)
    BY <2>1, <2>2, <2>4, <2>6 DEF SnapInv
  <2>8. task = "asking" /\ ~ taken' /\ ~ view'.torn /\ ~ view'.wiped =>
          \A q \in 1 .. view'.lastSeq : Asked(issued, prompt, q) => view'.prompt = prompt
    BY <2>1, <2>2, <2>6 DEF SnapInv
  <2> QED
    BY <2>1, <2>3, <2>5, <2>7, <2>8 DEF ViewInv
<1>4. CASE ReceivesEvent
  <2> DEFINE n == sent[rx]
  <2>1. /\ UNCHANGED <<status, task, prompt, closed, issued, sent, out, snap>>
        /\ Listening /\ rx \in 1 .. Len(sent) /\ n \in 1 .. Len(issued) /\ view' = Reduce(n)
    BY <1>4 DEF ReceivesEvent, runVars, channel, Waiting, Types, ChannelTypes, ClientTypes
  <2>2. /\ issued[n].event \in Live \cup LastEvent /\ issued[n].body \in Nat
        /\ view.lastSeq \in Nat /\ Len(issued) \in Nat /\ Len(sent) \in Nat /\ view \in Views
    <3>1. issued[n] \in Events
      BY <2>1 DEF Types, ChannelTypes
    <3> QED
      BY <3>1, SeenIs DEF Events, Types, ClientTypes
  <2> HIDE DEF n
  <2>3. CASE issued[n].event \in LastEvent
    <3>1. status # "running"
      BY <2>1, <2>3 DEF OverInv
    <3>2. mode' # "stream"
      BY <1>4, <2>3 DEF ReceivesEvent, LastEvent, n
    <3> QED
      BY <2>1, <3>1, <3>2 DEF ViewInv, ViewIsRun, Listening
  <2>4. CASE issued[n].event \in Live
    <3>1. mode' = mode /\ rx' = rx + 1 /\ Listening' = Listening
      BY <1>4, <2>1, <2>4 DEF ReceivesEvent, Live, Listening, n
    <3>2. status = "running" => n = rx /\ rx <= view.lastSeq + 1 /\ view.phase = "running"
      BY <2>1 DEF PipeInv, ViewInv, n
    <3>3. CASE n <= view.lastSeq
      <4>1. view' = view
        BY <2>1, <2>4, <3>3, ReduceIs
      <4>2. ViewIsRun'
        BY <2>1, <4>1 DEF ViewInv, ViewIsRun, PartsIn
      <4>3. status = "running" => rx' <= view.lastSeq + 1 /\ view.phase = "running"
        BY <2>1, <2>2, <3>1, <3>2, <3>3
      <4>4. ToCome(issued, prompt, sent, rx, out, view.lastSeq) =>
              ToCome(issued, prompt, sent, rx', out, view.lastSeq)
        BY <2>1, <2>2, <3>1, <3>3, NextToCome DEF n
      <4>5. task = "asking" /\ ~ closed => ToCome(issued, prompt, sent, rx', out, view.lastSeq)
        BY <2>1, <4>4 DEF ViewInv
      <4>6. task = "asking" /\ ~ taken /\ ~ view.torn /\ ~ view.wiped =>
              \A q \in 1 .. view.lastSeq : Asked(issued, prompt, q) => view.prompt = prompt
        BY <2>1 DEF ViewInv
      <4>7. task = "asking" /\ ~ taken' => ~ taken
        BY <2>1 DEF Watches, ReplyInv
      <4> QED
        BY <2>1, <3>1, <4>1, <4>2, <4>3, <4>5, <4>6, <4>7 DEF ViewInv
    <3>4. CASE n > view.lastSeq
      <4>1. /\ view'.phase = "running" /\ view'.lastSeq = n /\ view'.torn = view.torn
            /\ issued[n].event = "part" => view'.parts = Append(view.parts, issued[n].body)
            /\ issued[n].event = "prompt" => view'.parts = view.parts /\ view'.prompt = issued[n].body
        BY <2>1, <2>4, <3>4, ReduceIs
      <4>2. ASSUME status = "running", ~ view.torn
            PROVE  view'.parts = [i \in 1 .. CountIn(issued, "part", n) |-> i]
        <5>1. n = view.lastSeq + 1
          BY <2>1, <2>2, <3>2, <3>4, <4>2
        <5>2. view.parts = [i \in 1 .. CountIn(issued, "part", view.lastSeq) |-> i]
          BY <3>2, <4>2 DEF ViewInv, ViewIsRun, PartsIn
        <5>3. /\ CountIn(issued, "part", view.lastSeq) \in Nat
              /\ CountIn(issued, "part", n) =
                   IF issued[n].event = "part" THEN CountIn(issued, "part", view.lastSeq) + 1
                                               ELSE CountIn(issued, "part", view.lastSeq)
          <6>1. view.lastSeq \in Nat
            BY <2>2
          <6>2. CountsOn(issued, "part", view.lastSeq)
            BY <6>1, CountNext
          <6> QED
            BY <5>1, <6>2 DEF CountsOn
        <5>4. issued[n].event = "part" => issued[n].body = CountIn(issued, "part", n)
          BY <2>1, <4>2 DEF PipeInv, PartsIn
        <5>5. CASE issued[n].event = "part"
          <6> DEFINE k == CountIn(issued, "part", view.lastSeq)
          <6>1. CountIn(issued, "part", n) = k + 1
            BY <5>3, <5>5
          <6>2. view'.parts = Append(view.parts, k + 1)
            BY <4>1, <5>4, <5>5, <6>1
          <6>3. k \in Nat
            BY <5>3
          <6>4. view.parts = [i \in 1 .. k |-> i]
            BY <5>2
          <6> HIDE DEF k
          <6>5. Append([i \in 1 .. k |-> i], k + 1) = [i \in 1 .. k + 1 |-> i]
            BY <6>3, OneMore
          <6> QED
            BY <6>1, <6>2, <6>4, <6>5
        <5>6. CASE issued[n].event = "prompt"
          BY <4>1, <5>2, <5>3, <5>6
        <5> QED
          BY <2>4, <5>5, <5>6 DEF Live
      <4>3. ViewIsRun'
        BY <2>1, <4>1, <4>2 DEF ViewIsRun, PartsIn
      <4>4. status = "running" => rx' <= n + 1
        BY <2>1, <3>1, <3>2
      <4>5. ToCome(issued, prompt, sent, rx, out, view.lastSeq) =>
              ToCome(issued, prompt, sent, rx', out, n)
        BY <2>1, <2>2, <3>1, <3>4, NextToCome DEF n
      <4>6. task = "asking" /\ ~ closed => ToCome(issued, prompt, sent, rx', out, n)
        BY <2>1, <4>5 DEF ViewInv
      <4>7. ASSUME NEW q \in 1 .. n, Asked(issued, prompt, q)
            PROVE  view'.prompt = prompt
        <5>1. q = n
          BY <2>1, <2>2, <2>4, <4>7 DEF Asked, Live
        <5> QED
          BY <4>1, <4>7, <5>1 DEF Asked
      <4> QED
        BY <2>1, <3>1, <4>1, <4>3, <4>4, <4>6, <4>7 DEF ViewInv
    <3> QED
      BY <2>1, <2>2, <3>3, <3>4
  <2> QED
    BY <2>2, <2>3, <2>4
<1>5. CASE Lags
  <2>1. UNCHANGED <<status, issued, view>>
    BY <1>5 DEF Lags, runVars, channel
  <2>2. ~ Listening'
    BY <1>5, BeginIs DEF Lags, Listening
  <2> QED
    BY <2>1, <2>2 DEF ViewInv, ViewIsRun, PartsIn
<1>6. CASE StreamEnds
  <2>1. UNCHANGED <<status, issued, view>>
    BY <1>6 DEF StreamEnds, runVars, channel
  <2>2. ~ Listening'
    BY <1>6 DEF StreamEnds, Listening
  <2> QED
    BY <2>1, <2>2 DEF ViewInv, ViewIsRun, PartsIn
<1>7. CASE Probed
  <2>1. /\ UNCHANGED <<status, task, prompt, closed, issued, sent, out, rx>>
        /\ snap.at = "status" /\ view' = ReduceState
    BY <1>7 DEF Probed, runVars, channel
  <2>2. ASSUME status \in {"running", "stopped"}
        PROVE  /\ view' = FromSnapshot /\ view'.phase = status /\ view'.lastSeq = snap.seq
               /\ view'.parts = [i \in 1 .. snap.parts |-> i] /\ view'.prompt = snap.prompt
               /\ view'.torn = snap.torn
    <3>1. view' = FromSnapshot /\ view'.phase = status
      BY <2>1, <2>2, StateIs
    <3>2. /\ FromSnapshot.lastSeq = snap.seq /\ FromSnapshot.prompt = snap.prompt
          /\ FromSnapshot.parts = [i \in 1 .. snap.parts |-> i] /\ FromSnapshot.torn = snap.torn
      BY DEF FromSnapshot
    <3> QED
      BY <3>1, <3>2
  <2>3. ViewIsRun'
    BY <2>1, <2>2 DEF ViewIsRun, SnapInv, PartsIn
  <2>4. ~ Listening'
    BY <1>7 DEF Probed, Listening
  <2> QED
    BY <2>3, <2>4 DEF ViewInv
<1>8. CASE TailRefreshed
  <2>1. status # "running" /\ status' = status
    BY <1>8 DEF TailRefreshed, OverInv, runVars
  <2>2. ~ Listening'
    BY <1>8 DEF TailRefreshed, Listening
  <2> QED
    BY <2>1, <2>2 DEF ViewInv, ViewIsRun
<1>9. CASE ReadsParts
  <2>1. UNCHANGED <<status, issued, view>>
    BY <1>9 DEF ReadsParts, runVars, channel
  <2>2. ~ Listening'
    BY <1>9 DEF ReadsParts, Listening
  <2> QED
    BY <2>1, <2>2 DEF ViewInv, ViewIsRun, PartsIn
<1>10. CASE ReadsPrompt
  <2>1. UNCHANGED <<status, issued, view>>
    BY <1>10 DEF ReadsPrompt, runVars, channel
  <2>2. ~ Listening'
    BY <1>10 DEF ReadsPrompt, Listening, Types, ClientTypes
  <2> QED
    BY <2>1, <2>2 DEF ViewInv, ViewIsRun, PartsIn
<1>11. CASE ReadsSeq
  <2>1. UNCHANGED <<status, issued, view>>
    BY <1>11 DEF ReadsSeq, runVars, channel
  <2>2. ~ Listening'
    BY <1>11 DEF ReadsSeq, Listening, Types, ClientTypes
  <2> QED
    BY <2>1, <2>2 DEF ViewInv, ViewIsRun, PartsIn
<1>12. CASE Breaks
  <2>1. UNCHANGED <<status, issued, view>>
    BY <1>12 DEF Breaks, runVars, channel
  <2>2. ~ Listening'
    BY <1>12 DEF Breaks, Listening
  <2> QED
    BY <2>1, <2>2 DEF ViewInv, ViewIsRun, PartsIn
<1>13. CASE UNCHANGED <<watched, taken>>
  <2>1. UNCHANGED <<status, task, prompt, closed, issued, sent, out, snap, rx, mode, view, taken>>
    BY <1>13 DEF watched, runVars, channel, client
  <2> QED
    BY <2>1 DEF ViewInv, ViewIsRun, PartsIn, Listening
<1> QED
  BY <1>1, <1>2, <1>3, <1>4, <1>5, <1>6, <1>7, <1>8, <1>9, <1>10, <1>11, <1>12, <1>13
  DEF Watches, Watching, Client

-----------------------------------------------------------------------------
(* Answers *)

\* A prompt that is raised is not raised back.
LEMMA RaisedStep == ChannelTypes /\ Watches => Raised \in Nat /\ Raised' \in Nat /\ Raised' >= Raised
<1> SUFFICES ASSUME ChannelTypes, Watches
             PROVE  Raised \in Nat /\ Raised' \in Nat /\ Raised' >= Raised
  OBVIOUS
<1>1. Raised \in Nat
  BY RaisedIsNat
<1>2. ASSUME NEW e \in Emitter, Number(e)
      PROVE  Raised' \in Nat /\ Raised' >= Raised
  <2>1. /\ Len(issued) \in Nat /\ Len(issued') = Len(issued) + 1
        /\ \A event : \A n \in 0 .. Len(issued) : CountIn(issued', event, n) = CountIn(issued, event, n)
    BY <1>2, NumberIs
  <2>2. CountsOn(issued', "prompt", Len(issued))
    BY <2>1, CountNext
  <2>3. Raised' = CountIn(issued', "prompt", Len(issued) + 1)
    BY <2>1 DEF Raised, CountIn
  <2>4. CountIn(issued', "prompt", Len(issued)) = Raised
    BY <2>1 DEF Raised
  <2>5. Raised' \in {Raised, Raised + 1}
    BY <2>2, <2>3, <2>4 DEF CountsOn
  <2> QED
    BY <1>1, <2>5
<1>3. ASSUME UNCHANGED issued
      PROVE  Raised' \in Nat /\ Raised' >= Raised
  <2>1. Raised' = Raised
    BY <1>3 DEF Raised
  <2> QED
    BY <1>1, <2>1
<1>4. \/ UNCHANGED issued
      \/ \E e \in Emitter : Number(e)
  BY DEF Watches, Watching, Agent, Task, Stop, Client, Emitter, watched, channel,
    WritesPart, AsksUser, AgentReturns, AgentFails, Answered, SendEvent, Completes, Fails,
    TaskCloses, TaskAborted, CloseChannel, StopPublishes, StopCloses, Subscribes, ReceivesState,
    ReceivesEvent, Lags, StreamEnds, Probed, TailRefreshed, ReadsParts, ReadsPrompt, ReadsSeq,
    Breaks
<1> QED
  BY <1>1, <1>2, <1>3, <1>4

\* Whether the run waits, and on what, is changed by its task alone.
LEMMA TaskIs ==
  ASSUME Watches
  PROVE  \/ UNCHANGED <<task, prompt>>
         \/ AsksUser
         \/ Answered
         \/ task' = "ended"
         \/ task \notin {"asking", "ended"} /\ task' \notin {"asking", "ended"}
  BY DEF Watches, Watching, Agent, Task, Stop, Client, watched, runVars,
    WritesPart, AgentReturns, AgentFails, Number, SendEvent, Completes, Fails,
    TaskCloses, TaskAborted, CloseChannel, StopPublishes, StopCloses, Subscribes, ReceivesState,
    ReceivesEvent, Lags, StreamEnds, Probed, TailRefreshed, ReadsParts, ReadsPrompt, ReadsSeq,
    Breaks

\* An answer that is on its way stays an answer to what was raised.
LEMMA ReplyStep ==
  ASSUME Types, AskInv, ReplyInv, Watches, UNCHANGED reply
  PROVE  ReplyInv'
<1>1. reply \in Replies /\ taken \in BOOLEAN /\ prompt \in Nat /\ reply.prompt \in Nat
  BY DEF ReplyInv, Replies, Types, RunTypes
<1>2. Raised \in Nat /\ Raised' \in Nat /\ Raised' >= Raised
  BY RaisedStep DEF Types
<1>3. taken' \in BOOLEAN
  BY <1>1 DEF Watches
<1>4. SUFFICES ASSUME reply.at = "taken"
               PROVE  \/ task' = "ended"
                      \/ /\ reply.prompt <= Raised'
                         /\ task' = "asking" /\ reply.prompt = prompt' => taken'
                      \/ task' = "asking" /\ reply.prompt = prompt' /\ taken'
  BY <1>1, <1>3 DEF ReplyInv
<1>5. \/ task = "ended"
      \/ reply.prompt <= Raised /\ (task = "asking" /\ reply.prompt = prompt => taken)
      \/ task = "asking" /\ reply.prompt = prompt /\ taken
  BY <1>4 DEF ReplyInv
<1>6. taken' = (taken /\ task' = "asking") \/ UNCHANGED <<task, taken>>
  BY DEF Watches, watched, runVars
<1>7. CASE UNCHANGED <<task, prompt>>
  BY <1>1, <1>2, <1>5, <1>6, <1>7
<1>8. CASE AsksUser
  <2>1. /\ task = "working" /\ prompt' = Raised + 1
        /\ UNCHANGED issued
    BY <1>8 DEF AsksUser
  <2>2. Raised' = Raised
    BY <2>1 DEF Raised
  <2> QED
    BY <1>1, <1>2, <1>5, <2>1, <2>2
<1>9. CASE Answered
  <2>1. task = "asking" /\ task' = "working" /\ out["task"] = Nothing
    BY <1>9 DEF Answered
  <2>2. prompt = Raised
    BY <2>1 DEF AskInv, Nothing
  <2> QED
    BY <1>1, <1>2, <1>5, <2>1, <2>2
<1>10. CASE task \notin {"asking", "ended"} /\ task' \notin {"asking", "ended"}
  BY <1>1, <1>2, <1>5, <1>10
<1> QED
  BY <1>7, <1>8, <1>9, <1>10, TaskIs

\* A step of the answers keeps the invariant: what it clears is the prompt that
\* was answered, or it is said to be wiped.
LEMMA AnswersStep ==
  ASSUME WatchInv, Answering
  PROVE  WatchInv'
<1>1. /\ Types /\ OverInv /\ PipeInv /\ AskInv /\ SnapInv /\ ViewInv /\ ReplyInv
      /\ view \in Views /\ view.lastSeq <= Len(issued)
  BY DEF WatchInv, Types, ClientTypes
<1>2. UNCHANGED <<runVars, channel, initial, snap, rx, mode, drops>>
  BY DEF Answering, ClientAnswers, ServerTakesAnswer, AnswerFails, ReplyArrives, watched, client
<1>3. CASE UNCHANGED view
  <2>1. /\ Types' /\ OverInv' /\ PipeInv' /\ AskInv' /\ SnapInv'
    BY <1>1, <1>2, <1>3 DEF Types, RunTypes, ChannelTypes, ClientTypes, OverInv, PipeInv, AskInv,
      SnapInv, runVars, channel, Raised, PartsIn
  <2>2. taken' \in BOOLEAN /\ (~ taken' => ~ taken)
    BY <1>1 DEF Answering, ClientAnswers, ServerTakesAnswer, AnswerFails, ReplyArrives, ReplyInv
  <2>3. ViewInv'
    BY <1>1, <1>2, <1>3, <2>2 DEF ViewInv, ViewIsRun, PartsIn, Listening, runVars, channel
  <2>4. ReplyInv'
    <3>1. /\ reply \in Replies /\ UNCHANGED <<task, prompt>> /\ Raised' = Raised
          /\ prompt \in Nat /\ view.prompt \in Nat
      BY <1>1, <1>2 DEF ReplyInv, runVars, channel, Raised, Types, RunTypes, Views
    <3>2. CASE ClientAnswers
      <4>1. reply' = [prompt |-> view.prompt, at |-> "asked"]
        BY <3>2 DEF ClientAnswers
      <4>2. reply' \in Replies /\ reply'.at = "asked"
        BY <3>1, <4>1 DEF Replies
      <4> QED
        BY <2>2, <4>2 DEF ReplyInv
    <3>3. CASE ServerTakesAnswer
      <4>1. /\ reply' = [reply EXCEPT !.at = "taken"] /\ taken' = TRUE
            /\ task = "asking" /\ reply.prompt = prompt
        BY <3>3 DEF ServerTakesAnswer
      <4>2. reply' \in Replies /\ reply'.prompt = reply.prompt
        BY <3>1, <4>1 DEF Replies
      <4> QED
        BY <2>2, <3>1, <4>1, <4>2 DEF ReplyInv
    <3>4. CASE AnswerFails \/ ReplyArrives
      <4>1. reply' = NoReply
        BY <3>4 DEF AnswerFails, ReplyArrives
      <4>2. reply' \in Replies /\ reply'.at = "none"
        BY <4>1 DEF NoReply, Replies
      <4> QED
        BY <2>2, <4>2 DEF ReplyInv
    <3> QED
      BY <3>2, <3>3, <3>4 DEF Answering
  <2> QED
    BY <2>1, <2>3, <2>4 DEF WatchInv
<1>4. CASE ReplyArrives
  <2>1. /\ reply.at = "taken" /\ reply' = NoReply /\ taken' = taken
        /\ view' = [view EXCEPT !.prompt = 0,
                                !.wiped = view.wiped \/ view.prompt \notin {0, reply.prompt}]
    BY <1>4 DEF ReplyArrives
  <2>2. view.wiped \in BOOLEAN
    BY <1>1 DEF Views
  <2> DEFINE w == view.wiped \/ view.prompt \notin {0, reply.prompt}
  <2>3. w \in BOOLEAN
    BY <2>2
  <2>4. view' = [view EXCEPT !.prompt = 0, !.wiped = w]
    BY <2>1
  <2>5. w <=> view.wiped \/ view.prompt \notin {0, reply.prompt}
    OBVIOUS
  <2> HIDE DEF w
  <2>6. /\ view' \in Views /\ view'.lastSeq = view.lastSeq /\ view'.phase = view.phase
        /\ view'.parts = view.parts /\ view'.torn = view.torn /\ view'.prompt = 0
        /\ view'.wiped = w
    BY <1>1, <2>3, <2>4 DEF Views
  <2>7. Types' /\ OverInv' /\ PipeInv' /\ AskInv' /\ SnapInv'
    BY <1>1, <1>2, <2>6 DEF Types, RunTypes, ChannelTypes, ClientTypes, OverInv, PipeInv, AskInv,
      SnapInv, runVars, channel, Raised, PartsIn
  <2>8. ViewIsRun'
    BY <1>1, <1>2, <2>6 DEF ViewInv, ViewIsRun, PartsIn, runVars, channel
  <2>9. ASSUME Listening, task = "asking", ~ taken, ~ view.torn, ~ w,
               NEW q \in 1 .. view.lastSeq, Asked(issued, prompt, q)
        PROVE  prompt = 0
    <3>1. ~ view.wiped /\ view.prompt \in {0, reply.prompt} /\ view.prompt = prompt
      BY <1>1, <2>5, <2>9 DEF ViewInv
    <3>2. reply.prompt = prompt => taken
      BY <1>1, <2>1, <2>9 DEF ReplyInv
    <3> QED
      BY <2>9, <3>1, <3>2
  <2>10. ViewInv'
    BY <1>1, <1>2, <2>1, <2>6, <2>8, <2>9 DEF ViewInv, Listening, runVars, channel
  <2>11. ReplyInv'
    <3>1. NoReply \in Replies /\ NoReply.at = "none"
      BY DEF NoReply, Replies
    <3> QED
      BY <1>1, <2>1, <3>1 DEF ReplyInv
  <2> QED
    BY <2>7, <2>10, <2>11 DEF WatchInv
<1>5. UNCHANGED view \/ ReplyArrives
  BY DEF Answering, ClientAnswers, ServerTakesAnswer, AnswerFails, watched, client
<1> QED
  BY <1>3, <1>4, <1>5

-----------------------------------------------------------------------------
(* The theorems *)

\* The invariant holds at first.
LEMMA WatchInit == Init => WatchInv
<1> SUFFICES ASSUME Init
             PROVE  WatchInv
  OBVIOUS
<1>1. /\ Len(issued) = 0 /\ Len(sent) = 0 /\ issued = <<>> /\ sent = <<>>
      /\ snap.at = "parts" /\ ~ Listening
  BY BeginIs DEF Init, Listening
<1>2. \A e \in Emitter : out[e] = Nothing
  BY DEF Init
<1>3. RunTypes
  BY DEF Init, RunTypes
<1>4. ChannelTypes
  <2>1. OutUpTo(Nothing, 0)
    BY DEF OutUpTo, Nothing, Outs
  <2>2. OutsUpTo(out, 0)
    BY <2>1 DEF Init, OutsUpTo, OutUpTo
  <2>3. /\ issued \in Seq(Events) /\ sent \in Seq(Nat)
        /\ \A i \in 1 .. Len(sent) : sent[i] \in 1 .. Len(issued)
    BY <1>1
  <2> QED
    BY <1>1, <2>2, <2>3 DEF Init, ChannelTypes
<1>5. ClientTypes
  <2>1. EmptyView \in Views /\ EmptyView.lastSeq = 0
    BY DEF EmptyView, Views
  <2> QED
    BY <1>1, <2>1, BeginIs DEF Init, ClientTypes
<1>6. OverInv
  BY <1>1, <1>2, Emitters DEF Init, OverInv, Nothing, LastEvent
<1>7. PipeInv
  BY <1>1, <1>2, Emitters, CountNone DEF Init, PipeInv, Nothing, PartsIn
<1>8. AskInv
  BY <1>1 DEF Init, AskInv
<1>9. SnapInv
  BY <1>1 DEF SnapInv
<1>10. ViewInv
  BY <1>1 DEF Init, ViewInv, ViewIsRun, EmptyView
<1>11. ReplyInv
  BY DEF Init, ReplyInv, NoReply, Replies
<1> QED
  BY <1>3, <1>4, <1>5, <1>6, <1>7, <1>8, <1>9, <1>10, <1>11 DEF WatchInv, Types

\* The invariant holds of every run and of whoever watches it.
THEOREM WatchIsInvariant == Spec => []WatchInv
<1>1. ASSUME WatchInv, [Next]_vars
      PROVE  WatchInv'
  <2>1. ASSUME Watches, UNCHANGED reply
        PROVE  WatchInv'
    BY <1>1, <2>1, TypesStep, OverStep, PipeStep, AskStep, SnapStep, ViewStep, ReplyStep DEF WatchInv
  <2>2. (Watches /\ UNCHANGED reply) \/ Answering
    BY <1>1 DEF Next, vars, answers, Waits, Watches
  <2> QED
    BY <1>1, <2>1, <2>2, AnswersStep
<1> QED
  BY <1>1, WatchInit, PTL DEF Spec

\* A client that has settled shows a run that is over, and it is: no broken
\* connection, and no end of a stream, is taken for the end of the run.
THEOREM SettledIsAlwaysOver == Spec => []SettledIsOver
<1>1. WatchInv => SettledIsOver
  BY DEF WatchInv, OverInv, SettledIsOver
<1> QED
  BY <1>1, WatchIsInvariant, PTL

\* A client that watches a running run shows all its output up to the number
\* it has seen, and the prompt the run waits on once it has caught up, however
\* late it came and whatever was overwritten or broken on the way, unless its
\* snapshot was torn or the reply to its own answer wiped the prompt.
THEOREM ClientAlwaysShowsRun == Spec => []ClientShowsRun
<1>1. ASSUME WatchInv
      PROVE  PromptIsShown
  <2> SUFFICES ASSUME CaughtUp, task = "asking", ~ taken, ~ view.torn, ~ view.wiped
               PROVE  view.prompt = prompt
    BY DEF PromptIsShown
  <2>1. Listening /\ ~ Waiting /\ out["task"] = Nothing /\ ~ closed
    BY DEF CaughtUp
  <2>2. PICK q \in 1 .. Len(issued) : Asked(issued, prompt, q)
    BY <1>1, <2>1 DEF WatchInv, AskInv, Nothing
  <2>3. view.lastSeq \in Nat /\ Len(issued) \in Nat /\ rx \in Nat /\ Len(sent) \in Nat
    BY <1>1, SeenIs DEF WatchInv
  <2>4. rx > Len(sent)
    BY <1>1, <2>1, <2>3 DEF WatchInv, OverInv, Listening, Waiting
  <2>5. CASE q <= view.lastSeq
    BY <1>1, <2>1, <2>2, <2>3, <2>5 DEF WatchInv, ViewInv
  <2>6. CASE q > view.lastSeq
    <3>1. /\ q \in view.lastSeq + 1 .. Len(issued)
          /\ ToCome(issued, prompt, sent, rx, out, view.lastSeq)
      BY <1>1, <2>1, <2>3, <2>6 DEF WatchInv, ViewInv
    <3>2. out["task"].seq = q \/ \E j \in rx .. Len(sent) : sent[j] = q
      BY <2>2, <3>1 DEF ToCome
    <3> QED
      BY <2>1, <2>3, <2>4, <3>2 DEF Nothing
  <2> QED
    BY <2>3, <2>5, <2>6
<1>2. WatchInv => ClientShowsRun
  BY <1>1 DEF ClientShowsRun, WatchInv, ViewInv
<1> QED
  BY <1>2, WatchIsInvariant, PTL

=============================================================================
