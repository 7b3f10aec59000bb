----------------------------- MODULE AgentsProofs -----------------------------
(***************************************************************************)
(* Proofs about CodexTurn and SatelliteRun, for any number of reports, any *)
(* capacity of the channel, any number of asks and of calls that are lost: *)
(* the thread that a Codex turn leaves stored is the one its child goes    *)
(* by, and who asks from a satellite is answered by the user or refused.   *)
(***************************************************************************)
EXTENDS Agents, SequenceTheorems, TLAPS

-----------------------------------------------------------------------------
(* The inductive invariant of a Codex turn *)

\* The lines of the child and the end of them; those for the consumer.
Ev == Line \cup [kind : {"closed"}]
Forwarded == {ev \in Ev : ~IsReply(ev)}

\* What the consumer has not taken yet, in its order.
Stream == events \o stdout

\* A line whose thread the consumer adopts, and the one that ends its turn.
Tells(ev) ==
  /\ ev.kind = "completed" \/ (ev.kind = "note" /\ ev.mine)
  /\ ev.thread # "none"
EndsTurn(ev) == ev.kind = "completed" /\ ev.mine

\* Who goes by id and takes the first n lines of s goes by x after that: the
\* last of them that tells a thread tells x.
LeadsTo(s, n, id, x) ==
  \A k \in 0 .. n :
    (\A m \in k + 1 .. n : ~Tells(s[m])) =>
      /\ k = 0 => id = x
      /\ k > 0 /\ Tells(s[k]) => s[k].thread = x

\* The reader forwards no reply.
TurnTypes == CxTypeOK /\ events \in Seq(Forwarded)

\* What run_prompt knows of the thread at each of its requests.
PhaseInv ==
  /\ prompt.req \in {"initialize", "resume", "start"} =>
       threadId = "none" /\ announced = "none" /\ "turn" \notin stdin
  /\ prompt.req \in {"turn", "unsubscribe"} => threadId # "none" /\ stored = threadId
  /\ prompt.req = "resume" => stored = "session"
  /\ prompt.at \in {"loop", "asks"} => prompt.req = "turn"
  /\ prompt.at = "done" => prompt.req = "unsubscribe"
  /\ completed => announced # "none"
  /\ reader = "closes" => stdout = <<>> /\ child = "dead"

\* A turn that is over has stored the thread that its child announced.
StoredInv == prompt.req = "unsubscribe" => completed /\ stored = announced

\* A turn that goes on will go by that thread when it has taken every line,
\* and when it has taken the completion.
Follows(s, id, thread, known, over) ==
  /\ LeadsTo(s, Len(s), id, thread)
  /\ \A n \in 1 .. Len(s) : EndsTurn(s[n]) => over /\ LeadsTo(s, n, id, thread)
  /\ known = "none" => \A n \in 1 .. Len(s) : Tells(s[n]) => s[n].thread = id
StreamInv ==
  ~PromptIsOver /\ prompt.req # "unsubscribe" =>
    Follows(Stream, threadId, TurnThread, announced, completed)

CodexInv == TurnTypes /\ PhaseInv /\ StoredInv /\ StreamInv

-----------------------------------------------------------------------------
(* The inductive invariant of a remote turn *)

\* An event that asks names its ask.
Told == {ev \in Event : ev.type = "ask" => ev.id > 0}

\* What is known of the asks of a run: an answered one has no entry, those to
\* come have neither, and the one the agent is at has one unless it is answered.
AsksInv ==
  /\ TypeOK
  /\ wire \in Seq(Told)
  /\ hub.at \in {"asks", "answers"} => hub.ask > 0
  /\ pending \subseteq 1 .. asks
  /\ drive \in {"inserts", "pushes", "sends", "awaits"} => asks > 0
  /\ \A i \in Asks : answer[i] # "open" => i \notin pending /\ i <= asks
  /\ \A i \in Asks : decided[i] = "allow" => answer[i] = "allow"
  /\ drive = "inserts" => asks \notin pending /\ answer[asks] = "open"
  /\ drive \in {"pushes", "sends", "awaits"} /\ answer[asks] = "open" => asks \in pending

-----------------------------------------------------------------------------
(* Streams *)

\* What leads to a thread still does when a line that tells none is taken out.
LEMMA LeadsWithout ==
  ASSUME NEW s, NEW t, Len(s) \in Nat, NEW p \in 1 .. Len(s), ~Tells(s[p]),
         Len(t) = Len(s) - 1,
         \A i \in 1 .. Len(t) : t[i] = s[IF i < p THEN i ELSE i + 1],
         NEW n \in 0 .. Len(t), NEW q, q = IF n < p THEN n ELSE n + 1,
         NEW id, NEW thread, LeadsTo(s, q, id, thread)
  PROVE  LeadsTo(t, n, id, thread)
<1> DEFINE f(i) == IF i < p THEN i ELSE i + 1
<1> SUFFICES ASSUME NEW k \in 0 .. n, \A m \in k + 1 .. n : ~Tells(t[m])
             PROVE  /\ k = 0 => id = thread
                    /\ k > 0 /\ Tells(t[k]) => t[k].thread = thread
  BY DEF LeadsTo
<1>1. f(k) \in 0 .. f(n) /\ (k = 0 => f(k) = 0) /\ (k > 0 => f(k) > 0 /\ t[k] = s[f(k)])
  OBVIOUS
<1>2. ASSUME NEW m \in f(k) + 1 .. f(n)
      PROVE  ~Tells(s[m])
  <2>1. CASE m < p
    <3>1. m \in k + 1 .. n /\ t[m] = s[m]
      BY <2>1
    <3> QED
      BY <3>1
  <2>2. CASE m > p
    <3>1. m - 1 \in k + 1 .. n /\ t[m - 1] = s[m]
      BY <2>2
    <3> QED
      BY <3>1
  <2> QED
    BY <2>1, <2>2
<1> QED
  BY <1>1, <1>2 DEF LeadsTo

\* So a line that tells nothing can be taken out.
LEMMA FollowsWithout ==
  ASSUME NEW s, NEW t, Len(s) \in Nat, NEW p \in 1 .. Len(s), ~Tells(s[p]), ~EndsTurn(s[p]),
         Len(t) = Len(s) - 1,
         \A i \in 1 .. Len(t) : t[i] = s[IF i < p THEN i ELSE i + 1],
         NEW id, NEW thread, NEW known, NEW over, Follows(s, id, thread, known, over)
  PROVE  Follows(t, id, thread, known, over)
<1>1. LeadsTo(t, Len(t), id, thread)
  <2>1. PICK q : q = (IF Len(t) < p THEN Len(t) ELSE Len(t) + 1) /\ LeadsTo(s, q, id, thread)
    <3>1. CASE Len(t) < p
      <4>1. p = Len(s)
        BY <3>1
      <4>2. LeadsTo(s, Len(s) - 1, id, thread)
        <5>1. ASSUME NEW k \in 0 .. Len(s) - 1, \A m \in k + 1 .. Len(s) - 1 : ~Tells(s[m])
              PROVE  \A m \in k + 1 .. Len(s) : ~Tells(s[m])
          BY <4>1, <5>1
        <5> QED
          BY <5>1 DEF Follows, LeadsTo
      <4> QED
        BY <3>1, <4>2
    <3>2. CASE ~(Len(t) < p)
      BY <3>2 DEF Follows
    <3> QED
      BY <3>1, <3>2
  <2> QED
    BY <2>1, LeadsWithout
<1>2. ASSUME NEW n \in 1 .. Len(t), EndsTurn(t[n])
      PROVE  over /\ LeadsTo(t, n, id, thread)
  <2>1. over /\ \E q : q = (IF n < p THEN n ELSE n + 1) /\ LeadsTo(s, q, id, thread)
    BY <1>2 DEF Follows
  <2>2. PICK q : q = (IF n < p THEN n ELSE n + 1) /\ LeadsTo(s, q, id, thread)
    BY <2>1
  <2>3. n \in 0 .. Len(t)
    OBVIOUS
  <2> QED
    BY <2>1, <2>2, <2>3, LeadsWithout
<1>3. ASSUME known = "none", NEW n \in 1 .. Len(t), Tells(t[n])
      PROVE  t[n].thread = id
  BY <1>3 DEF Follows
<1> QED
  BY <1>1, <1>2, <1>3 DEF Follows

\* The first line is taken and its thread adopted.
LEMMA FollowsAdopted ==
  ASSUME NEW s, NEW t, Len(s) \in Nat, Len(s) > 0, Tells(s[1]), Len(t) = Len(s) - 1,
         \A i \in 1 .. Len(t) : t[i] = s[i + 1],
         NEW id, NEW thread, NEW known, NEW over, Follows(s, id, thread, known, over)
  PROVE  /\ Follows(t, s[1].thread, thread, known, over)
         /\ known = "none" => s[1].thread = id
<1>1. ASSUME NEW n \in 0 .. Len(t), LeadsTo(s, n + 1, id, thread)
      PROVE  LeadsTo(t, n, s[1].thread, thread)
  <2> SUFFICES ASSUME NEW k \in 0 .. n, \A m \in k + 1 .. n : ~Tells(t[m])
               PROVE  /\ k = 0 => s[1].thread = thread
                      /\ k > 0 /\ Tells(t[k]) => t[k].thread = thread
    BY DEF LeadsTo
  <2>1. ASSUME NEW m \in k + 2 .. n + 1
        PROVE  ~Tells(s[m])
    <3>1. m - 1 \in k + 1 .. n /\ t[m - 1] = s[m]
      OBVIOUS
    <3> QED
      BY <3>1
  <2>2. k + 1 \in 0 .. n + 1 /\ k + 1 > 0 /\ (k > 0 => t[k] = s[k + 1])
    OBVIOUS
  <2>3. Tells(s[k + 1]) => s[k + 1].thread = thread
    <3>1. \A m \in (k + 1) + 1 .. n + 1 : ~Tells(s[m])
      <4>1. (k + 1) + 1 = k + 2
        OBVIOUS
      <4> QED
        BY <2>1, <4>1
    <3> DEFINE j == k + 1
    <3>2. j \in 0 .. n + 1 /\ j > 0
      BY <2>2
    <3>3. \A m \in j + 1 .. n + 1 : ~Tells(s[m])
      BY <3>1
    <3> HIDE DEF j
    <3>4. j > 0 /\ Tells(s[j]) => s[j].thread = thread
      BY <1>1, <3>2, <3>3 DEF LeadsTo
    <3> QED
      BY <3>2, <3>4 DEF j
  <2> QED
    BY <2>2, <2>3
<1>2. LeadsTo(t, Len(t), s[1].thread, thread)
  BY <1>1 DEF Follows
<1>3. ASSUME NEW n \in 1 .. Len(t), EndsTurn(t[n])
      PROVE  over /\ LeadsTo(t, n, s[1].thread, thread)
  BY <1>1, <1>3 DEF Follows
<1>4. ASSUME known = "none"
      PROVE  /\ s[1].thread = id
             /\ \A n \in 1 .. Len(t) : Tells(t[n]) => t[n].thread = id
  BY <1>4 DEF Follows
<1> QED
  BY <1>2, <1>3, <1>4 DEF Follows

\* The line ev is added to s.
Adds(s, t, ev) ==
  /\ Len(s) \in Nat /\ Len(t) = Len(s) + 1 /\ t[Len(t)] = ev
  /\ \A i \in 1 .. Len(s) : t[i] = s[i]

\* A line that tells nothing, or the thread that is known from then on.
Advances(ev, id, thread, known, over, next, nextKnown, nextOver) ==
  /\ IF Tells(ev) THEN ev.thread = next ELSE thread = next
  /\ EndsTurn(ev) => nextOver
  /\ over => nextOver /\ next = thread
  /\ nextKnown = "none" => known = "none" /\ next = id

\* Such a line can be added.
LEMMA FollowsWith ==
  ASSUME NEW s, NEW t, NEW ev, Adds(s, t, ev),
         NEW id, NEW thread, NEW known, NEW over, Follows(s, id, thread, known, over),
         NEW next, NEW nextKnown, NEW nextOver,
         Advances(ev, id, thread, known, over, next, nextKnown, nextOver)
  PROVE  Follows(t, id, next, nextKnown, nextOver)
<1> USE DEF Adds, Advances
<1>1. ASSUME NEW n \in 0 .. Len(s), NEW x, LeadsTo(s, n, id, x)
      PROVE  LeadsTo(t, n, id, x)
  <2> SUFFICES ASSUME NEW k \in 0 .. n, \A m \in k + 1 .. n : ~Tells(t[m])
               PROVE  /\ k = 0 => id = x
                      /\ k > 0 /\ Tells(t[k]) => t[k].thread = x
    BY DEF LeadsTo
  <2>1. \A m \in k + 1 .. n : ~Tells(s[m])
    OBVIOUS
  <2> QED
    BY <1>1, <2>1 DEF LeadsTo
<1>2. LeadsTo(t, Len(t), id, next)
  <2> SUFFICES ASSUME NEW k \in 0 .. Len(t), \A m \in k + 1 .. Len(t) : ~Tells(t[m])
               PROVE  /\ k = 0 => id = next
                      /\ k > 0 /\ Tells(t[k]) => t[k].thread = next
    BY DEF LeadsTo
  <2>1. CASE k = Len(t)
    BY <2>1
  <2>2. CASE k < Len(t)
    <3>1. k \in 0 .. Len(s) /\ Len(t) \in k + 1 .. Len(t)
      BY <2>2
    <3>2. ~Tells(ev) /\ thread = next /\ \A m \in k + 1 .. Len(s) : ~Tells(s[m])
      BY <3>1
    <3>3. (k = 0 => id = thread) /\ (k > 0 /\ Tells(s[k]) => s[k].thread = thread)
      BY <3>1, <3>2 DEF Follows, LeadsTo
    <3> QED
      BY <3>1, <3>2, <3>3
  <2> QED
    BY <2>1, <2>2
<1>3. ASSUME NEW n \in 1 .. Len(t), EndsTurn(t[n])
      PROVE  nextOver /\ LeadsTo(t, n, id, next)
  <2>1. CASE n = Len(t)
    BY <1>2, <1>3, <2>1
  <2>2. CASE n < Len(t)
    <3>1. n \in 1 .. Len(s) /\ t[n] = s[n]
      BY <2>2
    <3>2. over /\ LeadsTo(s, n, id, thread)
      BY <1>3, <3>1 DEF Follows
    <3> QED
      BY <1>1, <3>1, <3>2
  <2> QED
    BY <2>1, <2>2
<1>4. ASSUME nextKnown = "none", NEW n \in 1 .. Len(t), Tells(t[n])
      PROVE  t[n].thread = id
  <2>1. CASE n = Len(t)
    BY <1>4, <2>1
  <2>2. CASE n < Len(t)
    BY <1>4, <2>2 DEF Follows
  <2> QED
    BY <2>1, <2>2
<1> QED
  BY <1>2, <1>3, <1>4 DEF Follows

\* With the first line that ends a turn, the id in use is its thread.
LEMMA EndsWithThread ==
  ASSUME NEW s, Len(s) \in Nat, Len(s) > 0, EndsTurn(s[1]),
         NEW id, NEW thread, NEW known, NEW over, Follows(s, id, thread, known, over)
  PROVE  over /\ thread = IF Tells(s[1]) THEN s[1].thread ELSE id
<1>1. over /\ LeadsTo(s, 1, id, thread)
  BY DEF Follows
<1>2. \A m \in 1 + 1 .. 1 : ~Tells(s[m])
  OBVIOUS
<1>3. CASE Tells(s[1])
  BY <1>1, <1>2, <1>3 DEF LeadsTo
<1>4. CASE ~Tells(s[1])
  <2>1. \A m \in 0 + 1 .. 1 : ~Tells(s[m])
    BY <1>4
  <2> QED
    BY <1>1, <1>4, <2>1 DEF LeadsTo
<1> QED
  BY <1>3, <1>4

-----------------------------------------------------------------------------
(* The steps of a Codex turn *)

\* The stream is what the channel holds and then what the child has written.
LEMMA StreamIs ==
  ASSUME NEW e \in Seq(Ev), NEW o \in Seq(Ev)
  PROVE  /\ e \o o \in Seq(Ev)
         /\ Len(e \o o) = Len(e) + Len(o)
         /\ \A n \in 1 .. Len(e \o o) : (e \o o)[n] = IF n <= Len(e) THEN e[n] ELSE o[n - Len(e)]
  OBVIOUS

\* A line of the child is a line of the stream.
LEMMA LinesAreEvents == CxTypeOK => stdout \in Seq(Ev) /\ events \in Seq(Ev)
<1>1. Line \subseteq Ev
  BY DEF Ev
<1>2. Seq(Line) \subseteq Seq(Ev)
  BY <1>1
<1> QED
  BY <1>2 DEF CxTypeOK, Ev

\* What the consumer takes is the first line of the stream.
LEMMA StreamTaken ==
  ASSUME NEW e \in Seq(Ev), NEW o \in Seq(Ev), e # <<>>
  PROVE  /\ Len(e \o o) \in Nat /\ Len(e \o o) > 0 /\ (e \o o)[1] = Head(e)
         /\ Len(Tail(e) \o o) = Len(e \o o) - 1
         /\ \A i \in 1 .. Len(Tail(e) \o o) : (Tail(e) \o o)[i] = (e \o o)[i + 1]
<1>1. /\ Tail(e) \in Seq(Ev) /\ Len(Tail(e)) = Len(e) - 1
      /\ Len(e) \in Nat /\ Len(e) > 0 /\ Len(o) \in Nat
  OBVIOUS
<1>2. \A i \in 1 .. Len(Tail(e)) : Tail(e)[i] = e[i + 1]
  OBVIOUS
<1> QED
  BY <1>1, <1>2, StreamIs

\* What the child writes is the last line of the stream.
LEMMA StreamWritten ==
  ASSUME NEW e \in Seq(Ev), NEW o \in Seq(Ev), NEW ev \in Ev
  PROVE  Adds(e \o o, e \o Append(o, ev), ev)
<1>1. Append(o, ev) \in Seq(Ev) /\ Len(Append(o, ev)) = Len(o) + 1 /\ Append(o, ev)[Len(o) + 1] = ev
  OBVIOUS
<1>2. \A i \in 1 .. Len(o) : Append(o, ev)[i] = o[i]
  OBVIOUS
<1>3. Len(e) \in Nat /\ Len(o) \in Nat
  OBVIOUS
<1> QED
  BY <1>1, <1>2, <1>3, StreamIs DEF Adds

\* A reply that the reader takes is taken out of the stream.
LEMMA StreamReplied ==
  ASSUME NEW e \in Seq(Ev), NEW o \in Seq(Ev), o # <<>>
  PROVE  /\ Len(e \o o) \in Nat /\ Len(e) + 1 \in 1 .. Len(e \o o)
         /\ (e \o o)[Len(e) + 1] = Head(o)
         /\ Len(e \o Tail(o)) = Len(e \o o) - 1
         /\ \A i \in 1 .. Len(e \o Tail(o)) :
              (e \o Tail(o))[i] = (e \o o)[IF i < Len(e) + 1 THEN i ELSE i + 1]
<1>1. /\ Tail(o) \in Seq(Ev) /\ Len(Tail(o)) = Len(o) - 1
      /\ Len(o) \in Nat /\ Len(o) > 0 /\ Len(e) \in Nat
  OBVIOUS
<1>2. (\A i \in 1 .. Len(Tail(o)) : Tail(o)[i] = o[i + 1]) /\ Head(o) = o[1]
  OBVIOUS
<1> QED
  BY <1>1, <1>2, StreamIs

\* What the reader forwards stays where it is in the stream.
LEMMA StreamForwarded ==
  ASSUME NEW e \in Seq(Ev), NEW o \in Seq(Ev), o # <<>>
  PROVE  Append(e, Head(o)) \o Tail(o) = e \o o
  OBVIOUS

\* What the child writes is a line.
LEMMA LineIs ==
  /\ \A kind \in {"ok", "error"}, of \in Request : [kind |-> kind, of |-> of] \in Line
  /\ \A kind \in {"note", "completed"}, mine \in BOOLEAN, thread \in ThreadId :
       [kind |-> kind, mine |-> mine, thread |-> thread] \in Line
  /\ [kind |-> "request"] \in Line
  BY DEF Line

\* What the consumer makes of a line: the thread that it tells is in use and
\* stored, and its turn ends with the line that ends it.
LEMMA EventOutcome ==
  ASSUME TurnTypes, EventIsTaken
  PROVE  /\ events # <<>> /\ Head(events) \in Forwarded /\ Tail(events) \in Seq(Forwarded)
         /\ prompt.at = "loop" /\ events' = Tail(events)
         /\ IF Tells(Head(events))
            THEN /\ Head(events).thread \in ThreadId \ {"none"}
                 /\ threadId' = Head(events).thread
                 /\ stored' = IF threadId' = threadId THEN stored ELSE threadId'
            ELSE UNCHANGED <<threadId, stored>>
         /\ IF EndsTurn(Head(events))
            THEN prompt' = [at |-> "enters", req |-> "unsubscribe"]
            ELSE prompt' \in {[prompt EXCEPT !.at = x] : x \in {"loop", "asks", "failed"}}
<1> DEFINE ev == Head(events)
<1>1. /\ events # <<>> /\ ev \in Forwarded /\ Tail(events) \in Seq(Forwarded)
      /\ prompt.at = "loop" /\ events' = Tail(events)
  BY DEF EventIsTaken, TurnTypes
<1>2. ev.kind \in {"ok", "error", "note", "completed", "request", "closed"}
  BY <1>1 DEF Forwarded, Ev, Line
<1>3. prompt = [prompt EXCEPT !.at = "loop"]
  BY <1>1 DEF TurnTypes, CxTypeOK
<1>4. CASE ev.kind = "note"
  <2>1. ev.mine \in BOOLEAN /\ ev.thread \in ThreadId
    BY <1>1, <1>4 DEF Forwarded, Ev, Line
  <2>2. TakesNote(ev)
    BY <1>4 DEF EventIsTaken
  <2>3. ~EndsTurn(ev) /\ (Tells(ev) <=> ev.mine /\ ev.thread # "none")
    BY <1>4 DEF EndsTurn, Tells
  <2> QED
    BY <1>1, <1>3, <2>1, <2>2, <2>3 DEF TakesNote, Adopts, idVars
<1>5. CASE ev.kind = "completed"
  <2>1. ev.mine \in BOOLEAN /\ ev.thread \in ThreadId
    BY <1>1, <1>5 DEF Forwarded, Ev, Line
  <2>2. TakesCompletion(ev)
    BY <1>5 DEF EventIsTaken
  <2>3. (EndsTurn(ev) <=> ev.mine) /\ (Tells(ev) <=> ev.thread # "none")
    BY <1>5 DEF EndsTurn, Tells
  <2> QED
    BY <1>1, <1>3, <2>1, <2>2, <2>3 DEF TakesCompletion, Adopts, GoesOn, idVars
<1>6. CASE ev.kind = "request"
  BY <1>1, <1>6 DEF EventIsTaken, EndsTurn, Tells, idVars
<1>7. CASE ev.kind = "closed"
  BY <1>1, <1>7 DEF EventIsTaken, EndsTurn, Tells, idVars, Ends
<1>8. ev.kind \notin {"ok", "error"}
  BY <1>1 DEF Forwarded, IsReply
<1> QED
  BY <1>2, <1>4, <1>5, <1>6, <1>7, <1>8

\* What a request that succeeded leads to.
LEMMA SuccessOutcome ==
  ASSUME TurnTypes, Succeeds
  PROVE  \/ /\ prompt.req = "initialize"
            /\ prompt' = [at |-> "enters", req |-> IF stored = "session" THEN "resume" ELSE "start"]
            /\ UNCHANGED <<threadId, stored, poller>>
         \/ /\ prompt.req = "resume"
            /\ prompt' = [at |-> "enters", req |-> "turn"]
            /\ threadId' = "session" /\ UNCHANGED <<stored, poller>>
         \/ /\ prompt.req = "start"
            /\ prompt' = [at |-> "enters", req |-> "turn"]
            /\ threadId' = "provisional" /\ stored' = "provisional" /\ UNCHANGED poller
         \/ /\ prompt.req = "turn"
            /\ prompt' = [at |-> "loop", req |-> "turn"]
            /\ poller' = "polls" /\ UNCHANGED <<threadId, stored>>
         \/ /\ prompt.req = "unsubscribe"
            /\ prompt' = [at |-> "done", req |-> "unsubscribe"]
            /\ UNCHANGED <<threadId, stored, poller>>
<1>1. prompt.req \in {"initialize", "resume", "start", "turn", "unsubscribe"}
  BY DEF TurnTypes, CxTypeOK, Request
<1>2. CASE prompt.req = "initialize"
  BY <1>2 DEF Succeeds, GoesOn, idVars
<1>3. CASE prompt.req = "resume"
  BY <1>3 DEF Succeeds, GoesOn
<1>4. CASE prompt.req = "start"
  BY <1>4 DEF Succeeds, GoesOn
<1>5. CASE prompt.req = "turn"
  BY <1>5 DEF Succeeds, TurnTypes, CxTypeOK, idVars
<1>6. CASE prompt.req = "unsubscribe"
  BY <1>6 DEF Succeeds, Ends, TurnTypes, CxTypeOK, idVars
<1> QED
  BY <1>1, <1>2, <1>3, <1>4, <1>5, <1>6

\* Every step keeps the types of a turn.
LEMMA TurnTypesStep == TurnTypes /\ [CxNext]_cxVars => TurnTypes'
<1> SUFFICES ASSUME TurnTypes, [CxNext]_cxVars
             PROVE  TurnTypes'
  OBVIOUS
<1>1. CASE RequestEnters
  BY <1>1 DEF RequestEnters, TurnTypes, CxTypeOK, childVars, idVars, Request
<1>2. CASE RequestIsWritten
  BY <1>2 DEF RequestIsWritten, TurnTypes, CxTypeOK, childVars, idVars, Request
<1>3. CASE RequestTimesOut
  BY <1>3 DEF RequestTimesOut, TurnTypes, CxTypeOK, childVars, idVars, Request
<1>4. CASE RequestIsWithdrawn
  BY <1>4 DEF RequestIsWithdrawn, TurnTypes, CxTypeOK, childVars, idVars, Request, PromptOver,
    Fails, GoesOn, Ends
<1>5. CASE RequestIsAnswered
  <2>1. /\ prompt' \in [at : {"enters", "writes", "waits", "withdraws", "loop", "asks"} \cup PromptOver,
                        req : Request]
        /\ {threadId', stored'} \subseteq ThreadId /\ poller' \in {"none", "polls", "gone"}
    <3>1. CASE Succeeds
      BY <3>1, SuccessOutcome DEF TurnTypes, CxTypeOK, Request, ThreadId, PromptOver
    <3>2. CASE Fails
      BY <3>2 DEF Fails, GoesOn, Ends, TurnTypes, CxTypeOK, idVars, Request, PromptOver
    <3> QED
      BY <1>5, <3>1, <3>2 DEF RequestIsAnswered
  <2> QED
    BY <1>5, <2>1 DEF RequestIsAnswered, TurnTypes, CxTypeOK, childVars
<1>6. CASE EventIsTaken
  <2>1. /\ Tail(events) \in Seq(Line \cup [kind : {"closed"}])
        /\ Len(Tail(events)) <= EventCap /\ Tail(events) \in Seq(Forwarded)
    BY <1>6, EventOutcome, CodexConstants DEF TurnTypes, CxTypeOK
  <2>2. {threadId', stored'} \subseteq ThreadId
    BY <1>6, EventOutcome DEF TurnTypes, CxTypeOK
  <2>3. prompt' \in [at : {"enters", "writes", "waits", "withdraws", "loop", "asks"} \cup PromptOver,
                     req : Request]
    BY <1>6, EventOutcome DEF TurnTypes, CxTypeOK, Request, PromptOver
  <2>4. events' = Tail(events)
    BY <1>6, EventOutcome
  <2>5. UNCHANGED <<childVars, stdout, reader, inFlight, replies, stop, poller>>
    BY <1>6 DEF EventIsTaken
  <2> QED
    BY <2>1, <2>2, <2>3, <2>4, <2>5 DEF TurnTypes, CxTypeOK, childVars
<1>7. CASE UserAnswers
  BY <1>7 DEF UserAnswers, TurnTypes, CxTypeOK, childVars, idVars, Request
<1>8. CASE UserStops
  BY <1>8 DEF UserStops, TurnTypes, CxTypeOK, childVars, idVars
<1>9. CASE WatcherInterrupts
  BY <1>9 DEF WatcherInterrupts, TurnTypes, CxTypeOK, childVars, idVars
<1>10. CASE WatcherIsAborted
  BY <1>10 DEF WatcherIsAborted, TurnTypes, CxTypeOK, childVars, idVars
<1>11. CASE PromptIsAborted
  BY <1>11 DEF PromptIsAborted, TurnTypes, CxTypeOK, childVars, idVars, PromptOver, Ends
<1>12. CASE ServerIsDropped
  BY <1>12 DEF ServerIsDropped, TurnTypes, CxTypeOK, childVars, idVars
<1>13. CASE ReaderTakesReply
  BY <1>13 DEF ReaderTakesReply, TurnTypes, CxTypeOK, childVars, idVars, IsReply, Line
<1>14. CASE ReaderForwards
  <2>1. Head(stdout) \in Line /\ Tail(stdout) \in Seq(Line)
    BY <1>14 DEF ReaderForwards, TurnTypes, CxTypeOK
  <2>2. Head(stdout) \in Forwarded
    BY <1>14, <2>1 DEF ReaderForwards, Forwarded, Ev
  <2>3. /\ events' \in Seq(Line \cup [kind : {"closed"}]) /\ events' \in Seq(Forwarded)
        /\ Len(events') <= EventCap
    <3>1. CASE events' = events
      BY <3>1 DEF TurnTypes, CxTypeOK
    <3>2. CASE events' = Append(events, Head(stdout)) /\ Len(events) < EventCap
      BY <2>1, <2>2, <3>2, CodexConstants DEF TurnTypes, CxTypeOK
    <3> QED
      BY <1>14, <3>1, <3>2 DEF ReaderForwards
  <2> QED
    BY <1>14, <2>1, <2>3 DEF ReaderForwards, TurnTypes, CxTypeOK, childVars, idVars
<1>15. CASE ReaderFailsAll
  BY <1>15 DEF ReaderFailsAll, TurnTypes, CxTypeOK, childVars, idVars
<1>16. CASE ReaderSendsClosed
  <2>1. [kind |-> "closed"] \in Forwarded
    BY DEF Forwarded, Ev, IsReply
  <2> QED
    BY <1>16, <2>1, CodexConstants DEF ReaderSendsClosed, TurnTypes, CxTypeOK, childVars, idVars
<1>17. ASSUME NEW req \in Request, NEW kind \in {"ok", "error"}, ChildReplies(req, kind)
      PROVE  TurnTypes'
  <2>1. [kind |-> kind, of |-> req] \in Line
    BY <1>17, LineIs
  <2> QED
    BY <1>17, <2>1 DEF ChildReplies, ChildSays, TurnThread, TurnTypes, CxTypeOK, idVars
<1>18. ASSUME NEW kind \in {"note", "completed"}, NEW mine \in BOOLEAN, NEW id \in ThreadId,
               ChildReports(kind, mine, id)
      PROVE  TurnTypes'
  <2>1. [kind |-> kind, mine |-> mine, thread |-> id] \in Line
    BY <1>18, LineIs
  <2>2. stdout' \in Seq(Line)
    BY <1>18, <2>1 DEF ChildReports, ChildSays, TurnTypes, CxTypeOK
  <2>3. announced' \in ThreadId /\ reported' \in 0 .. MaxEvents /\ completed' \in BOOLEAN
    BY <1>18, CodexConstants DEF ChildReports, TurnThread, TurnTypes, CxTypeOK
  <2> QED
    BY <1>18, <2>2, <2>3 DEF ChildReports, TurnTypes, CxTypeOK, idVars
<1>19. CASE ChildAsks
  BY <1>19, LineIs, CodexConstants DEF ChildAsks, ChildSays, TurnTypes, CxTypeOK, idVars
<1>20. CASE ChildExits
  BY <1>20 DEF ChildExits, TurnTypes, CxTypeOK, childVars, idVars
<1>21. CASE UNCHANGED cxVars
  BY <1>21 DEF cxVars, TurnTypes, CxTypeOK, childVars, idVars
<1> QED
  BY <1>1, <1>2, <1>3, <1>4, <1>5, <1>6, <1>7, <1>8, <1>9, <1>10, <1>11, <1>12, <1>13, <1>14,
    <1>15, <1>16, <1>17, <1>18, <1>19, <1>20, <1>21 DEF CxNext, Transport, Reading, Teardown

\* Every step keeps the thread to what run_prompt has asked for.
LEMMA PhaseStep == TurnTypes /\ PhaseInv /\ [CxNext]_cxVars => PhaseInv'
<1> SUFFICES ASSUME TurnTypes, PhaseInv, [CxNext]_cxVars
             PROVE  PhaseInv'
  OBVIOUS
<1>1. CASE RequestEnters
  BY <1>1 DEF RequestEnters, PhaseInv, TurnTypes, CxTypeOK, childVars, idVars
<1>2. CASE RequestIsWritten
  BY <1>2 DEF RequestIsWritten, PhaseInv, TurnTypes, CxTypeOK, idVars, Request
<1>3. CASE RequestTimesOut
  BY <1>3 DEF RequestTimesOut, PhaseInv, TurnTypes, CxTypeOK, childVars, idVars
<1>4. CASE RequestIsWithdrawn
  BY <1>4 DEF RequestIsWithdrawn, PhaseInv, TurnTypes, CxTypeOK, childVars, idVars, Fails,
    GoesOn, Ends, Request
<1>5. CASE RequestIsAnswered
  <2>1. CASE Succeeds
    BY <1>5, <2>1, SuccessOutcome DEF RequestIsAnswered, PhaseInv, childVars
  <2>2. CASE Fails
    BY <1>5, <2>2 DEF RequestIsAnswered, Fails, GoesOn, Ends, PhaseInv, TurnTypes, CxTypeOK,
      Request, childVars,
      idVars
  <2> QED
    BY <1>5, <2>1, <2>2 DEF RequestIsAnswered
<1>6. CASE EventIsTaken
  <2>1. UNCHANGED <<childVars, stdout, reader>> /\ prompt.req = "turn" /\ stored = threadId
    BY <1>6 DEF EventIsTaken, PhaseInv
  <2>2. threadId' # "none" /\ stored' = threadId'
    BY <1>6, <2>1, EventOutcome DEF PhaseInv
  <2>3. prompt'.req \in {"turn", "unsubscribe"} /\ prompt'.at # "done"
        /\ (prompt'.at \in {"loop", "asks"} => prompt'.req = "turn")
    BY <1>6, <2>1, EventOutcome DEF TurnTypes, CxTypeOK
  <2> QED
    BY <2>1, <2>2, <2>3 DEF PhaseInv, childVars
<1>7. CASE UserAnswers
  BY <1>7 DEF UserAnswers, PhaseInv, TurnTypes, CxTypeOK, childVars, idVars
<1>8. CASE UserStops
  BY <1>8 DEF UserStops, PhaseInv, TurnTypes, CxTypeOK, childVars, idVars
<1>9. CASE WatcherInterrupts
  BY <1>9 DEF WatcherInterrupts, PhaseInv, TurnTypes, CxTypeOK, childVars, idVars
<1>10. CASE WatcherIsAborted
  BY <1>10 DEF WatcherIsAborted, PhaseInv, TurnTypes, CxTypeOK, childVars, idVars
<1>11. CASE PromptIsAborted
  BY <1>11 DEF PromptIsAborted, PhaseInv, TurnTypes, CxTypeOK, childVars, idVars, Ends
<1>12. CASE ServerIsDropped
  BY <1>12 DEF ServerIsDropped, PhaseInv, TurnTypes, CxTypeOK, idVars
<1>13. CASE ReaderTakesReply
  BY <1>13 DEF ReaderTakesReply, PhaseInv, TurnTypes, CxTypeOK, childVars, idVars
<1>14. CASE ReaderForwards
  BY <1>14 DEF ReaderForwards, PhaseInv, TurnTypes, CxTypeOK, childVars, idVars
<1>15. CASE ReaderFailsAll
  BY <1>15 DEF ReaderFailsAll, PhaseInv, TurnTypes, CxTypeOK, childVars, idVars
<1>16. CASE ReaderSendsClosed
  BY <1>16 DEF ReaderSendsClosed, PhaseInv, TurnTypes, CxTypeOK, childVars, idVars
<1>17. ASSUME NEW req \in Request, NEW kind \in {"ok", "error"}, ChildReplies(req, kind)
      PROVE  PhaseInv'
  BY <1>17 DEF ChildReplies, PhaseInv, TurnTypes, CxTypeOK, idVars, TurnThread, ChildSays,
    Request
<1>18. ASSUME NEW kind \in {"note", "completed"}, NEW mine \in BOOLEAN, NEW id \in ThreadId,
               ChildReports(kind, mine, id)
      PROVE  PhaseInv'
  BY <1>18 DEF ChildReports, PhaseInv, TurnTypes, CxTypeOK, idVars, TurnThread, TurnRuns,
    ChildSays, Request
<1>19. CASE ChildAsks
  BY <1>19 DEF ChildAsks, PhaseInv, TurnTypes, CxTypeOK, idVars, ChildSays
<1>20. CASE ChildExits
  BY <1>20 DEF ChildExits, PhaseInv, TurnTypes, CxTypeOK, idVars
<1>21. CASE UNCHANGED cxVars
  BY <1>21 DEF cxVars, PhaseInv, TurnTypes, CxTypeOK, childVars, idVars
<1> QED
  BY <1>1, <1>2, <1>3, <1>4, <1>5, <1>6, <1>7, <1>8, <1>9, <1>10, <1>11, <1>12, <1>13, <1>14,
    <1>15, <1>16, <1>17, <1>18, <1>19, <1>20, <1>21 DEF CxNext, Transport, Reading, Teardown

\* Every step keeps the thread of a turn that is over.
LEMMA StoredStep == CodexInv /\ [CxNext]_cxVars => StoredInv'
<1> SUFFICES ASSUME TurnTypes, PhaseInv, StoredInv, StreamInv, [CxNext]_cxVars
             PROVE  StoredInv'
  BY DEF CodexInv
<1>1. CASE RequestEnters
  BY <1>1 DEF RequestEnters, StoredInv, PhaseInv, TurnTypes, CxTypeOK, childVars, idVars
<1>2. CASE RequestIsWritten
  BY <1>2 DEF RequestIsWritten, StoredInv, PhaseInv, TurnTypes, CxTypeOK, idVars, Request
<1>3. CASE RequestTimesOut
  BY <1>3 DEF RequestTimesOut, StoredInv, PhaseInv, TurnTypes, CxTypeOK, childVars, idVars
<1>4. CASE RequestIsWithdrawn
  BY <1>4 DEF RequestIsWithdrawn, StoredInv, PhaseInv, TurnTypes, CxTypeOK, childVars, idVars,
    Fails, GoesOn, Ends, Request
<1>5. CASE RequestIsAnswered
  <2>1. CASE Succeeds
    BY <1>5, <2>1, SuccessOutcome DEF RequestIsAnswered, StoredInv, childVars
  <2>2. CASE Fails
    BY <1>5, <2>2 DEF RequestIsAnswered, Fails, GoesOn, Ends, StoredInv, TurnTypes, CxTypeOK,
      Request, childVars,
      idVars
  <2> QED
    BY <1>5, <2>1, <2>2 DEF RequestIsAnswered
<1>6. CASE EventIsTaken
  <2>1. /\ UNCHANGED childVars /\ prompt.req = "turn" /\ ~PromptIsOver
        /\ stored = threadId /\ threadId # "none"
    BY <1>6 DEF EventIsTaken, PhaseInv, PromptIsOver, PromptOver
  <2>2. CASE EndsTurn(Head(events))
    <3>1. /\ Len(Stream) \in Nat /\ Len(Stream) > 0 /\ Stream[1] = Head(events)
      BY <1>6, EventOutcome, LinesAreEvents, StreamTaken DEF TurnTypes, Stream
    <3>2. Follows(Stream, threadId, TurnThread, announced, completed)
      BY <2>1 DEF StreamInv
    <3>3. completed /\ TurnThread = IF Tells(Head(events)) THEN Head(events).thread ELSE threadId
      BY <2>2, <3>1, <3>2, EndsWithThread
    <3>4. announced = TurnThread
      BY <3>3 DEF PhaseInv, TurnThread
    <3> QED
      BY <1>6, <2>1, <3>3, <3>4, EventOutcome DEF StoredInv, childVars
  <2>3. CASE ~EndsTurn(Head(events))
    <3>1. prompt'.req = "turn"
      BY <1>6, <2>1, <2>3, EventOutcome DEF TurnTypes, CxTypeOK
    <3> QED
      BY <3>1 DEF StoredInv
  <2> QED
    BY <2>2, <2>3
<1>7. CASE UserAnswers
  BY <1>7 DEF UserAnswers, StoredInv, PhaseInv, TurnTypes, CxTypeOK, childVars, idVars
<1>8. CASE UserStops
  BY <1>8 DEF UserStops, StoredInv, PhaseInv, TurnTypes, CxTypeOK, childVars, idVars
<1>9. CASE WatcherInterrupts
  BY <1>9 DEF WatcherInterrupts, StoredInv, PhaseInv, TurnTypes, CxTypeOK, childVars, idVars
<1>10. CASE WatcherIsAborted
  BY <1>10 DEF WatcherIsAborted, StoredInv, PhaseInv, TurnTypes, CxTypeOK, childVars, idVars
<1>11. CASE PromptIsAborted
  BY <1>11 DEF PromptIsAborted, StoredInv, PhaseInv, TurnTypes, CxTypeOK, childVars, idVars,
    Ends
<1>12. CASE ServerIsDropped
  BY <1>12 DEF ServerIsDropped, StoredInv, PhaseInv, TurnTypes, CxTypeOK, idVars
<1>13. CASE ReaderTakesReply
  BY <1>13 DEF ReaderTakesReply, StoredInv, PhaseInv, TurnTypes, CxTypeOK, childVars, idVars
<1>14. CASE ReaderForwards
  BY <1>14 DEF ReaderForwards, StoredInv, PhaseInv, TurnTypes, CxTypeOK, childVars, idVars
<1>15. CASE ReaderFailsAll
  BY <1>15 DEF ReaderFailsAll, StoredInv, PhaseInv, TurnTypes, CxTypeOK, childVars, idVars
<1>16. CASE ReaderSendsClosed
  BY <1>16 DEF ReaderSendsClosed, StoredInv, PhaseInv, TurnTypes, CxTypeOK, childVars, idVars
<1>17. ASSUME NEW req \in Request, NEW kind \in {"ok", "error"}, ChildReplies(req, kind)
      PROVE  StoredInv'
  BY <1>17 DEF ChildReplies, StoredInv, PhaseInv, TurnTypes, CxTypeOK, idVars, TurnThread,
    ChildSays, Request
<1>18. ASSUME NEW kind \in {"note", "completed"}, NEW mine \in BOOLEAN, NEW id \in ThreadId,
               ChildReports(kind, mine, id)
      PROVE  StoredInv'
  BY <1>18 DEF ChildReports, StoredInv, PhaseInv, TurnTypes, CxTypeOK, idVars, TurnThread,
    TurnRuns, ChildSays, Request
<1>19. CASE ChildAsks
  BY <1>19 DEF ChildAsks, StoredInv, PhaseInv, TurnTypes, CxTypeOK, idVars, ChildSays
<1>20. CASE ChildExits
  BY <1>20 DEF ChildExits, StoredInv, PhaseInv, TurnTypes, CxTypeOK, idVars
<1>21. CASE UNCHANGED cxVars
  BY <1>21 DEF cxVars, StoredInv, PhaseInv, TurnTypes, CxTypeOK, childVars, idVars
<1> QED
  BY <1>1, <1>2, <1>3, <1>4, <1>5, <1>6, <1>7, <1>8, <1>9, <1>10, <1>11, <1>12, <1>13, <1>14,
    <1>15, <1>16, <1>17, <1>18, <1>19, <1>20, <1>21 DEF CxNext, Transport, Reading, Teardown

\* Every step leaves a stream that leads to the thread of the turn.
LEMMA StreamStep == CodexInv /\ [CxNext]_cxVars => StreamInv'
<1> SUFFICES ASSUME TurnTypes, PhaseInv, StoredInv, StreamInv, [CxNext]_cxVars
             PROVE  StreamInv'
  BY DEF CodexInv
<1>1. CASE RequestEnters
  BY <1>1 DEF RequestEnters, StreamInv, Stream, TurnThread, PromptIsOver, PromptOver, TurnTypes,
    CxTypeOK, childVars, idVars
<1>2. CASE RequestIsWritten
  BY <1>2 DEF RequestIsWritten, StreamInv, Stream, TurnThread, PromptIsOver, PromptOver,
    TurnTypes, CxTypeOK, idVars, Request
<1>3. CASE RequestIsWithdrawn
  BY <1>3 DEF RequestIsWithdrawn, StreamInv, Stream, TurnThread, PromptIsOver, PromptOver,
    TurnTypes, CxTypeOK, childVars, idVars, Fails, GoesOn, Ends, Request
<1>4. CASE RequestTimesOut
  BY <1>4 DEF RequestTimesOut, StreamInv, Stream, TurnThread, PromptIsOver, PromptOver,
    TurnTypes, CxTypeOK, childVars, idVars
<1>5. CASE UserAnswers
  BY <1>5 DEF UserAnswers, StreamInv, Stream, TurnThread, PromptIsOver, PromptOver, TurnTypes,
    CxTypeOK, childVars, idVars
<1>6. CASE UserStops
  BY <1>6 DEF UserStops, StreamInv, Stream, TurnThread, PromptIsOver, PromptOver, TurnTypes,
    CxTypeOK, childVars, idVars
<1>7. CASE WatcherInterrupts
  BY <1>7 DEF WatcherInterrupts, StreamInv, Stream, TurnThread, PromptIsOver, PromptOver,
    TurnTypes, CxTypeOK, childVars, idVars
<1>8. CASE WatcherIsAborted
  BY <1>8 DEF WatcherIsAborted, StreamInv, Stream, TurnThread, PromptIsOver, PromptOver,
    TurnTypes, CxTypeOK, childVars, idVars
<1>9. CASE PromptIsAborted
  BY <1>9 DEF PromptIsAborted, StreamInv, Stream, TurnThread, PromptIsOver, PromptOver,
    TurnTypes, CxTypeOK, childVars, idVars, Ends
<1>10. CASE ServerIsDropped
  BY <1>10 DEF ServerIsDropped, StreamInv, Stream, TurnThread, PromptIsOver, PromptOver,
    TurnTypes, CxTypeOK, idVars
<1>11. CASE ReaderFailsAll
  BY <1>11 DEF ReaderFailsAll, StreamInv, Stream, TurnThread, PromptIsOver, PromptOver,
    TurnTypes, CxTypeOK, childVars, idVars
<1>12. CASE ChildExits
  BY <1>12 DEF ChildExits, StreamInv, Stream, TurnThread, PromptIsOver, PromptOver, TurnTypes,
    CxTypeOK, idVars
<1>13. CASE UNCHANGED cxVars
  BY <1>13 DEF cxVars, StreamInv, Stream, TurnThread, PromptIsOver, PromptOver, TurnTypes,
    CxTypeOK, childVars, idVars
<1>14. CASE RequestIsAnswered
  <2> SUFFICES ASSUME ~PromptIsOver', prompt'.req # "unsubscribe"
               PROVE  Follows(Stream, threadId', TurnThread', announced, completed)
    BY <1>14 DEF RequestIsAnswered, StreamInv, Stream, childVars
  <2>1. ~PromptIsOver /\ prompt.req # "unsubscribe" /\ UNCHANGED announced
    BY <1>14 DEF RequestIsAnswered, Succeeds, Fails, GoesOn, Ends, PromptIsOver, PromptOver,
      TurnTypes, CxTypeOK,
      Request, childVars
  <2>2. Follows(Stream, threadId, TurnThread, announced, completed)
    BY <2>1 DEF StreamInv
  <2>3. CASE threadId' = threadId
    BY <2>1, <2>2, <2>3 DEF TurnThread
  <2>4. CASE threadId' # threadId
    <3>1. /\ threadId = "none" /\ announced = "none" /\ TurnThread = "none"
          /\ TurnThread' = threadId' /\ ~completed
      BY <1>14, <2>1, <2>4 DEF RequestIsAnswered, Succeeds, Fails, PhaseInv, TurnThread,
        TurnTypes, CxTypeOK, Request,
        idVars
    <3>2. \A n \in 1 .. Len(Stream) : ~Tells(Stream[n]) /\ ~EndsTurn(Stream[n])
      BY <2>2, <3>1 DEF Follows, Tells
    <3>3. LeadsTo(Stream, Len(Stream), threadId', threadId')
      <4>1. Len(Stream) \in Nat
        BY LinesAreEvents, StreamIs DEF TurnTypes, Stream
      <4> QED
        BY <3>2, <4>1 DEF LeadsTo
    <3> QED
      BY <3>1, <3>2, <3>3 DEF Follows
  <2> QED
    BY <2>3, <2>4
<1>15. CASE EventIsTaken
  <2> DEFINE t == Tail(events) \o stdout
  <2> SUFFICES ASSUME ~PromptIsOver', prompt'.req # "unsubscribe"
               PROVE  Follows(t, threadId', TurnThread', announced, completed)
    BY <1>15, EventOutcome DEF EventIsTaken, StreamInv, Stream, childVars
  <2>1. ~PromptIsOver /\ prompt.req = "turn" /\ UNCHANGED announced
    BY <1>15 DEF EventIsTaken, PhaseInv, PromptIsOver, PromptOver, childVars
  <2>2. Follows(Stream, threadId, TurnThread, announced, completed)
    BY <2>1 DEF StreamInv
  <2>3. /\ Len(Stream) \in Nat /\ Len(Stream) > 0 /\ Stream[1] = Head(events)
        /\ Len(t) = Len(Stream) - 1
        /\ \A i \in 1 .. Len(t) : t[i] = Stream[i + 1]
    BY <1>15, EventOutcome, LinesAreEvents, StreamTaken DEF TurnTypes, Stream
  <2> HIDE DEF t
  <2>4. CASE Tells(Head(events))
    <3>1. threadId' = Stream[1].thread
      BY <1>15, <2>3, <2>4, EventOutcome
    <3>2. /\ Follows(t, threadId', TurnThread, announced, completed)
          /\ announced = "none" => threadId' = threadId
      <4>1. Tells(Stream[1])
        BY <2>3, <2>4
      <4>2. /\ Follows(t, Stream[1].thread, TurnThread, announced, completed)
            /\ announced = "none" => Stream[1].thread = threadId
        BY <2>2, <2>3, <4>1, FollowsAdopted
      <4> QED
        BY <3>1, <4>2
    <3>3. TurnThread' = TurnThread
      BY <2>1, <3>2 DEF TurnThread
    <3> QED
      BY <3>2, <3>3
  <2>5. CASE ~Tells(Head(events))
    <3>1. threadId' = threadId /\ ~EndsTurn(Head(events))
      BY <1>15, <2>5, EventOutcome
    <3>2. 1 \in 1 .. Len(Stream) /\ \A i \in 1 .. Len(t) : t[i] = Stream[IF i < 1 THEN i ELSE i + 1]
      BY <2>3
    <3>3. TurnThread' = TurnThread
      BY <2>1, <3>1 DEF TurnThread
    <3>4. ~Tells(Stream[1]) /\ ~EndsTurn(Stream[1])
      BY <2>3, <2>5, <3>1
    <3>5. Len(Stream) \in Nat /\ Len(t) = Len(Stream) - 1
      BY <2>3
    <3>6. Follows(t, threadId, TurnThread, announced, completed)
      BY <2>2, <3>2, <3>4, <3>5, FollowsWithout
    <3> QED
      BY <3>1, <3>3, <3>6
  <2> QED
    BY <2>4, <2>5
<1>16. CASE ReaderTakesReply
  <2> DEFINE t == events \o Tail(stdout)
  <2> SUFFICES ASSUME ~PromptIsOver', prompt'.req # "unsubscribe"
               PROVE  Follows(t, threadId, TurnThread, announced, completed)
    BY <1>16 DEF ReaderTakesReply, StreamInv, Stream, TurnThread, childVars, idVars
  <2>1. Follows(Stream, threadId, TurnThread, announced, completed)
    BY <1>16 DEF ReaderTakesReply, StreamInv, PromptIsOver
  <2>2. /\ Len(Stream) \in Nat /\ Len(events) + 1 \in 1 .. Len(Stream)
        /\ Stream[Len(events) + 1] = Head(stdout)
        /\ Len(t) = Len(Stream) - 1
        /\ \A i \in 1 .. Len(t) : t[i] = Stream[IF i < Len(events) + 1 THEN i ELSE i + 1]
    BY <1>16, LinesAreEvents, StreamReplied DEF ReaderTakesReply, TurnTypes, Stream
  <2>3. ~Tells(Head(stdout)) /\ ~EndsTurn(Head(stdout))
    BY <1>16 DEF ReaderTakesReply, IsReply, Tells, EndsTurn
  <2> HIDE DEF t
  <2>4. PICK p \in 1 .. Len(Stream) : p = Len(events) + 1
    BY <2>2
  <2>5. ~Tells(Stream[p]) /\ ~EndsTurn(Stream[p])
    BY <2>2, <2>3, <2>4
  <2>6. /\ Len(Stream) \in Nat /\ Len(t) = Len(Stream) - 1
        /\ \A i \in 1 .. Len(t) : t[i] = Stream[IF i < p THEN i ELSE i + 1]
    BY <2>2, <2>4
  <2> QED
    BY <2>1, <2>5, <2>6, FollowsWithout
<1>17. CASE ReaderForwards
  <2> SUFFICES ASSUME ~PromptIsOver'
               PROVE  Stream' = Stream
    BY <1>17 DEF ReaderForwards, StreamInv, TurnThread, PromptIsOver, childVars, idVars
  <2>1. stdout # <<>> /\ events' = Append(events, Head(stdout)) /\ stdout' = Tail(stdout)
    BY <1>17 DEF ReaderForwards, PromptIsOver
  <2> QED
    BY <2>1, LinesAreEvents, StreamForwarded DEF TurnTypes, Stream
<1>18. ASSUME NEW req \in Request, NEW kind \in {"ok", "error"}, ChildReplies(req, kind)
      PROVE  StreamInv'
  <2> DEFINE ev == [kind |-> kind, of |-> req]
  <2> DEFINE t == events \o Append(stdout, ev)
  <2> SUFFICES ASSUME ~PromptIsOver', prompt'.req # "unsubscribe"
               PROVE  Follows(t, threadId, TurnThread', announced', completed')
    BY <1>18 DEF ChildReplies, ChildSays, StreamInv, Stream, TurnThread, idVars
  <2>1. Follows(Stream, threadId, TurnThread, announced, completed)
    BY <1>18 DEF ChildReplies, StreamInv, PromptIsOver
  <2>2. ev \in Ev
    BY <1>18, LineIs DEF Ev
  <2>3. /\ IF Tells(ev) THEN ev.thread = TurnThread' ELSE TurnThread' = TurnThread
        /\ EndsTurn(ev) => completed'
        /\ completed => completed' /\ TurnThread' = TurnThread
        /\ announced' = "none" => announced = "none" /\ TurnThread' = threadId
    BY <1>18 DEF ChildReplies, TurnThread, Tells, EndsTurn, idVars
  <2>6. Adds(Stream, t, ev)
    BY <2>2, LinesAreEvents, StreamWritten DEF TurnTypes, Stream
  <2>7. Advances(ev, threadId, TurnThread, announced, completed,
                 TurnThread', announced', completed')
    BY <2>3 DEF Advances
  <2> HIDE DEF t, ev
  <2> QED
    BY <2>1, <2>6, <2>7, FollowsWith
<1>19. CASE ChildAsks
  <2> DEFINE ev == [kind |-> "request"]
  <2> DEFINE t == events \o Append(stdout, ev)
  <2> SUFFICES ASSUME ~PromptIsOver', prompt'.req # "unsubscribe"
               PROVE  Follows(t, threadId, TurnThread', announced', completed')
    BY <1>19 DEF ChildAsks, ChildSays, StreamInv, Stream, TurnThread, idVars
  <2>1. Follows(Stream, threadId, TurnThread, announced, completed)
    BY <1>19 DEF ChildAsks, StreamInv, PromptIsOver
  <2>2. ev \in Ev
    BY <1>19, LineIs DEF Ev
  <2>3. /\ IF Tells(ev) THEN ev.thread = TurnThread' ELSE TurnThread' = TurnThread
        /\ EndsTurn(ev) => completed'
        /\ completed => completed' /\ TurnThread' = TurnThread
        /\ announced' = "none" => announced = "none" /\ TurnThread' = threadId
    BY <1>19 DEF ChildAsks, TurnThread, Tells, EndsTurn, idVars
  <2>6. Adds(Stream, t, ev)
    BY <2>2, LinesAreEvents, StreamWritten DEF TurnTypes, Stream
  <2>7. Advances(ev, threadId, TurnThread, announced, completed,
                 TurnThread', announced', completed')
    BY <2>3 DEF Advances
  <2> HIDE DEF t, ev
  <2> QED
    BY <2>1, <2>6, <2>7, FollowsWith
<1>20. ASSUME NEW kind \in {"note", "completed"}, NEW mine \in BOOLEAN, NEW id \in ThreadId,
               ChildReports(kind, mine, id)
      PROVE  StreamInv'
  <2> DEFINE ev == [kind |-> kind, mine |-> mine, thread |-> id]
  <2> DEFINE t == events \o Append(stdout, ev)
  <2> SUFFICES ASSUME ~PromptIsOver', prompt'.req # "unsubscribe"
               PROVE  Follows(t, threadId, TurnThread', announced', completed')
    BY <1>20 DEF ChildReports, ChildSays, StreamInv, Stream, TurnThread, idVars
  <2>1. Follows(Stream, threadId, TurnThread, announced, completed)
    BY <1>20 DEF ChildReports, StreamInv, PromptIsOver
  <2>2. ev \in Ev
    BY <1>20, LineIs DEF Ev
  <2>3. /\ IF Tells(ev) THEN ev.thread = TurnThread' ELSE TurnThread' = TurnThread
        /\ EndsTurn(ev) => completed'
        /\ completed => completed' /\ TurnThread' = TurnThread
        /\ announced' = "none" => announced = "none" /\ TurnThread' = threadId
    <3>1. CASE mine
      <4>1. /\ TurnThread # "none" /\ ~completed /\ completed' = (kind = "completed")
            /\ id \in {"none", TurnThread, "rollout"}
        BY <1>20, <3>1 DEF ChildReports, TurnRuns, TurnThread, PhaseInv, TurnTypes, CxTypeOK,
          Request
      <4>2. announced' = (IF id = "none" THEN TurnThread ELSE id) /\ TurnThread' = announced'
        BY <1>20, <3>1, <4>1 DEF ChildReports, TurnThread, idVars
      <4> QED
        BY <3>1, <4>1, <4>2 DEF Tells, EndsTurn
    <3>2. CASE ~mine
      <4>1. UNCHANGED <<announced, threadId, completed>> /\ TurnThread' = TurnThread
        BY <1>20, <3>2 DEF ChildReports, TurnThread, TurnTypes, CxTypeOK, idVars
      <4>2. kind = "completed" => id = TurnThread
        BY <1>20, <3>2 DEF ChildReports
      <4> QED
        BY <1>20, <3>2, <4>1, <4>2 DEF Tells, EndsTurn, TurnThread
    <3> QED
      BY <3>1, <3>2
  <2>6. Adds(Stream, t, ev)
    BY <2>2, LinesAreEvents, StreamWritten DEF TurnTypes, Stream
  <2>7. Advances(ev, threadId, TurnThread, announced, completed,
                 TurnThread', announced', completed')
    BY <2>3 DEF Advances
  <2> HIDE DEF t, ev
  <2> QED
    BY <2>1, <2>6, <2>7, FollowsWith
<1>21. CASE ReaderSendsClosed
  <2> DEFINE ev == [kind |-> "closed"]
  <2> DEFINE t == Append(events, ev) \o stdout
  <2> SUFFICES ASSUME ~PromptIsOver', prompt'.req # "unsubscribe"
               PROVE  Follows(t, threadId, TurnThread, announced, completed)
    BY <1>21 DEF ReaderSendsClosed, StreamInv, Stream, TurnThread, PromptIsOver, childVars,
      idVars
  <2>1. Follows(Stream, threadId, TurnThread, announced, completed)
    BY <1>21 DEF ReaderSendsClosed, StreamInv, PromptIsOver
  <2>2. ev \in Ev /\ ~Tells(ev) /\ ~EndsTurn(ev)
    BY DEF Ev, Tells, EndsTurn
  <2>3. Append(events, ev) \o stdout = events \o Append(stdout, ev)
    BY <1>21, <2>2, LinesAreEvents DEF ReaderSendsClosed, PhaseInv, TurnTypes
  <2>4. announced = "none" => TurnThread = threadId
    BY DEF TurnThread
  <2>6. Adds(Stream, t, ev)
    BY <2>2, <2>3, LinesAreEvents, StreamWritten DEF TurnTypes, Stream
  <2>7. Advances(ev, threadId, TurnThread, announced, completed, TurnThread, announced, completed)
    BY <2>2, <2>4 DEF Advances
  <2> HIDE DEF t, ev
  <2> QED
    BY <2>1, <2>6, <2>7, FollowsWith
<1> QED
  BY <1>1, <1>2, <1>3, <1>4, <1>5, <1>6, <1>7, <1>8, <1>9, <1>10, <1>11, <1>12, <1>13, <1>14,
    <1>15, <1>16, <1>17, <1>18, <1>19, <1>20, <1>21 DEF CxNext, Transport, Reading, Teardown

\* A turn begins without a thread.
LEMMA CodexInvInit == CxInit => CodexInv
<1> SUFFICES ASSUME CxInit
             PROVE  CodexInv
  OBVIOUS
<1>1. TurnTypes
  <2>1. prompt \in [at : {"enters", "writes", "waits", "withdraws", "loop", "asks"} \cup PromptOver,
                    req : Request]
    BY DEF CxInit, Request
  <2>2. {threadId, stored, announced} \subseteq ThreadId /\ reported \in 0 .. MaxEvents
    BY CodexConstants DEF CxInit, ThreadId
  <2>3. /\ events \in Seq(Forwarded) /\ events \in Seq(Line \cup [kind : {"closed"}])
        /\ Len(events) <= EventCap /\ stdout \in Seq(Line)
    BY CodexConstants DEF CxInit
  <2> QED
    BY <2>1, <2>2, <2>3 DEF TurnTypes, CxTypeOK, CxInit
<1>2. PhaseInv /\ StoredInv
  BY DEF CxInit, PhaseInv, StoredInv
<1>3. StreamInv
  BY DEF CxInit, StreamInv, Follows, LeadsTo, Stream, TurnThread
<1> QED
  BY <1>1, <1>2, <1>3 DEF CodexInv

\* Every step keeps the invariant.
LEMMA CodexInvStep == CodexInv /\ [CxNext]_cxVars => CodexInv'
  BY TurnTypesStep, PhaseStep, StoredStep, StreamStep DEF CodexInv

-----------------------------------------------------------------------------
(* The steps of a remote turn *)

\* What is sent is an event; one that asks names the ask.
LEMMA EmitIs ==
  ASSUME AsksInv, NEW type \in {"part", "ask", "done", "error"}, Emit(type),
         type = "ask" => asks > 0
  PROVE  wire' \in Seq(Event) /\ wire' \in Seq(Told)
<1> DEFINE ev == [type |-> type, id |-> asks]
<1>1. ev \in Event /\ ev \in Told
  BY DEF AsksInv, TypeOK, Event, Told
<1>2. wire \in Seq(Event) /\ wire \in Seq(Told)
  BY DEF AsksInv, TypeOK
<1>3. wire' \in {wire, Append(wire, ev)}
  BY DEF Emit
<1> HIDE DEF ev
<1> QED
  BY <1>1, <1>2, <1>3

\* Every step keeps the types of a remote turn.
LEMMA RemoteTypesStep == AsksInv /\ [Next]_vars => TypeOK'
<1> SUFFICES ASSUME AsksInv, TypeOK, [Next]_vars
             PROVE  TypeOK'
  BY DEF AsksInv
<1>1. CASE RunArrives
  BY <1>1, SatelliteConstants DEF RunArrives, askVars, TypeOK, HubOver
<1>2. CASE AgentWrites
  <2>1. wire' \in Seq(Event)
    BY <1>2, EmitIs DEF AgentWrites, AsksInv
  <2> QED
    BY <1>2, <2>1, SatelliteConstants DEF AgentWrites, hubVars, askVars, TypeOK
<1>3. CASE AgentAsks
  BY <1>3, SatelliteConstants DEF AgentAsks, hubVars, TypeOK
<1>4. CASE CallbackInserts
  BY <1>4 DEF CallbackInserts, hubVars, TypeOK, AsksInv, Asks
<1>5. CASE CallbackPushes
  BY <1>5 DEF CallbackPushes, hubVars, TypeOK, AsksInv, Asks
<1>6. CASE CallbackSends
  <2>1. wire' \in Seq(Event)
    BY <1>6, EmitIs DEF CallbackSends, AsksInv
  <2> QED
    BY <1>6, <2>1, SatelliteConstants DEF CallbackSends, hubVars, TypeOK
<1>7. CASE AgentResumes
  BY <1>7 DEF AgentResumes, hubVars, TypeOK, AsksInv, Asks
<1>8. CASE GuardDrops
  BY <1>8 DEF GuardDrops, hubVars, runVars, askVars, TypeOK
<1>9. CASE CleanupUnregisters
  <2>1. scancel' \in BOOLEAN /\ registered' \in BOOLEAN
    BY <1>9 DEF CleanupUnregisters, TypeOK
  <2>2. guard' = "takes" /\ UNCHANGED <<hubVars, conn, wire, drive, parts, askVars>>
    BY <1>9 DEF CleanupUnregisters
  <2> QED
    BY <2>1, <2>2 DEF hubVars, askVars, TypeOK
<1>10. CASE CleanupTakes
  BY <1>10 DEF CleanupTakes, hubVars, runVars, TypeOK
<1>11. CASE DriveAborted
  BY <1>11 DEF DriveAborted, hubVars, askVars, TypeOK
<1>12. ASSUME NEW result \in {"done", "error"}, DriveEnds(result)
      PROVE  TypeOK'
  <2>1. wire' \in Seq(Event)
    BY <1>12, EmitIs DEF DriveEnds, AsksInv
  <2> QED
    BY <1>12, <2>1, SatelliteConstants DEF DriveEnds, hubVars, askVars, TypeOK
<1>13. CASE PostFails
  BY <1>13, SatelliteConstants DEF PostFails, runVars, askVars, LosesCall, TypeOK, HubOver
<1>14. CASE HubReads
  <2>1. Head(wire) \in Event /\ Tail(wire) \in Seq(Event)
    BY <1>14 DEF HubReads, TypeOK
  <2>2. /\ After[Head(wire).type] \in {"reads", "asks", "done", "cancels"}
        /\ Head(wire).id \in 0 .. MaxAsks
    BY <2>1 DEF After, Event
  <2> QED
    BY <1>14, <2>1, <2>2 DEF HubReads, TypeOK, HubOver, runVars, askVars
<1>15. CASE HubLosesStream
  BY <1>15 DEF HubLosesStream, runVars, askVars, TypeOK
<1>16. CASE CallbackArrives
  BY <1>16 DEF CallbackArrives, runVars, TypeOK, AsksInv
<1>17. CASE CallbackFails
  <2>1. deaf' \subseteq Asks
    <3>1. hub.ask \in Asks /\ deaf \subseteq Asks
      <4>1. hub.at = "answers"
        BY <1>17 DEF CallbackFails
      <4>2. hub.ask \in 0 .. MaxAsks /\ deaf \subseteq Asks
        BY DEF TypeOK
      <4>3. hub.ask > 0
        BY <4>1 DEF AsksInv
      <4> QED
        BY <4>2, <4>3 DEF Asks
    <3> QED
      BY <1>17, <3>1 DEF CallbackFails
  <2>2. lost' \in 0 .. MaxLost
    BY <1>17, SatelliteConstants DEF CallbackFails, LosesCall, TypeOK
  <2>3. hub' \in [at : {"posts", "reads", "asks", "answers", "cancels"} \cup HubOver,
                      ask : 0 .. MaxAsks, says : {"allow", "cancel"}]
    BY <1>17 DEF CallbackFails, TypeOK
  <2>4. UNCHANGED <<flag, watcher, conn, wire, runVars, askVars, guard>>
    BY <1>17 DEF CallbackFails
  <2> QED
    BY <2>1, <2>2, <2>3, <2>4 DEF runVars, askVars, TypeOK
<1>18. CASE HubGivesUp
  BY <1>18, SatelliteConstants DEF HubGivesUp, askVars, LosesCall, TypeOK, HubOver
<1>19. CASE HubStops
  BY <1>19 DEF HubStops, runVars, askVars, TypeOK
<1>20. CASE HubAborted
  BY <1>20 DEF HubAborted, runVars, askVars, TypeOK, HubOver
<1>21. CASE WatcherSees
  BY <1>21 DEF WatcherSees, runVars, askVars, TypeOK
<1>22. CASE WatcherCalls
  BY <1>22, SatelliteConstants DEF WatcherCalls, askVars, LosesCall, TypeOK
<1>23. ASSUME NEW says \in {"allow", "cancel"}, UserDecides(says)
      PROVE  TypeOK'
  <2>1. hub' \in [at : {"posts", "reads", "asks", "answers", "cancels"} \cup HubOver,
                      ask : 0 .. MaxAsks, says : {"allow", "cancel"}]
    BY <1>23 DEF UserDecides, TypeOK
  <2>2. UNCHANGED <<flag, watcher, lost, deaf, conn, wire, runVars, askVars, guard>>
    BY <1>23 DEF UserDecides
  <2> QED
    BY <2>1, <2>2 DEF runVars, askVars, TypeOK
<1>24. CASE ConnectionBreaks
  BY <1>24 DEF ConnectionBreaks, hubVars, runVars, askVars, TypeOK
<1>25. CASE UNCHANGED vars
  BY <1>25 DEF vars, hubVars, runVars, askVars, TypeOK
<1> QED
  BY <1>1, <1>2, <1>3, <1>4, <1>5, <1>6, <1>7, <1>8, <1>9, <1>10, <1>11, <1>12, <1>13, <1>14,
    <1>15, <1>16, <1>17, <1>18, <1>19, <1>20, <1>21, <1>22, <1>23, <1>24, <1>25 DEF Next,
    Callback, Cleanup, HubActs

\* Every step keeps the entries of the asks to their answers.
LEMMA AsksInvStep == AsksInv /\ [Next]_vars => AsksInv'
<1> SUFFICES ASSUME AsksInv, [Next]_vars
             PROVE  AsksInv'
  OBVIOUS
<1>t. TypeOK'
  BY RemoteTypesStep
<1>1. CASE RunArrives
  BY <1>1, <1>t DEF RunArrives, askVars, AsksInv, TypeOK
<1>2. CASE AgentWrites
  <2>1. wire' \in Seq(Told)
    BY <1>2, EmitIs DEF AgentWrites, AsksInv
  <2> QED
    BY <1>2, <1>t, <2>1 DEF AgentWrites, hubVars, askVars, AsksInv
<1>3. CASE AgentAsks
  BY <1>3, <1>t DEF AgentAsks, hubVars, AsksInv, TypeOK, Asks
<1>4. CASE CallbackInserts
  BY <1>4, <1>t DEF CallbackInserts, hubVars, AsksInv, TypeOK, Asks
<1>5. CASE CallbackPushes
  BY <1>5, <1>t DEF CallbackPushes, hubVars, AsksInv, TypeOK, Asks
<1>6. CASE CallbackSends
  <2>1. wire' \in Seq(Told)
    BY <1>6, EmitIs DEF CallbackSends, AsksInv
  <2> QED
    BY <1>6, <1>t, <2>1 DEF CallbackSends, hubVars, AsksInv, TypeOK, Asks
<1>7. CASE AgentResumes
  BY <1>7, <1>t DEF AgentResumes, hubVars, AsksInv, TypeOK, Asks
<1>8. CASE GuardDrops
  BY <1>8, <1>t DEF GuardDrops, hubVars, runVars, askVars, AsksInv
<1>9. CASE CleanupUnregisters
  BY <1>9, <1>t DEF CleanupUnregisters, hubVars, askVars, AsksInv
<1>10. CASE CleanupTakes
  BY <1>10, <1>t DEF CleanupTakes, hubVars, runVars, AsksInv, TypeOK, Asks
<1>11. CASE DriveAborted
  BY <1>11, <1>t DEF DriveAborted, hubVars, askVars, AsksInv
<1>12. ASSUME NEW result \in {"done", "error"}, DriveEnds(result)
      PROVE  AsksInv'
  <2>1. wire' \in Seq(Told)
    BY <1>12, EmitIs DEF DriveEnds, AsksInv
  <2> QED
    BY <1>12, <1>t, <2>1 DEF DriveEnds, hubVars, askVars, AsksInv
<1>13. CASE PostFails
  BY <1>13, <1>t DEF PostFails, runVars, askVars, AsksInv, TypeOK, HubOver
<1>14. CASE HubReads
  <2>1. /\ Head(wire) \in Told /\ Tail(wire) \in Seq(Told)
        /\ hub' = [hub EXCEPT !.at = After[Head(wire).type], !.ask = Head(wire).id]
    BY <1>14, <1>t DEF HubReads, AsksInv
  <2>2. hub'.at \in {"asks", "answers"} => hub'.ask > 0
    BY <2>1 DEF AsksInv, TypeOK, After, Told, Event
  <2> QED
    BY <1>14, <1>t, <2>1, <2>2 DEF HubReads, AsksInv, runVars, askVars
<1>15. CASE HubLosesStream
  BY <1>15, <1>t DEF HubLosesStream, runVars, askVars, AsksInv, TypeOK
<1>16. CASE CallbackArrives
  BY <1>16, <1>t DEF CallbackArrives, runVars, AsksInv, TypeOK, Asks
<1>17. CASE CallbackFails
  BY <1>17, <1>t DEF CallbackFails, runVars, askVars, AsksInv, TypeOK, HubOver
<1>18. CASE HubGivesUp
  BY <1>18, <1>t DEF HubGivesUp, askVars, AsksInv, TypeOK
<1>19. CASE HubStops
  BY <1>19, <1>t DEF HubStops, runVars, askVars, AsksInv, HubOver
<1>20. CASE HubAborted
  BY <1>20, <1>t DEF HubAborted, runVars, askVars, AsksInv, TypeOK, HubOver
<1>21. CASE WatcherSees
  BY <1>21, <1>t DEF WatcherSees, runVars, askVars, AsksInv, HubOver
<1>22. CASE WatcherCalls
  BY <1>22, <1>t DEF WatcherCalls, askVars, AsksInv
<1>23. ASSUME NEW says \in {"allow", "cancel"}, UserDecides(says)
      PROVE  AsksInv'
  BY <1>23, <1>t DEF UserDecides, runVars, askVars, AsksInv, TypeOK
<1>24. CASE ConnectionBreaks
  BY <1>24, <1>t DEF ConnectionBreaks, hubVars, runVars, askVars, AsksInv
<1>25. CASE UNCHANGED vars
  BY <1>25, <1>t DEF vars, hubVars, runVars, askVars, AsksInv
<1> QED
  BY <1>1, <1>2, <1>3, <1>4, <1>5, <1>6, <1>7, <1>8, <1>9, <1>10, <1>11, <1>12, <1>13, <1>14,
    <1>15, <1>16, <1>17, <1>18, <1>19, <1>20, <1>21, <1>22, <1>23, <1>24, <1>25 DEF Next,
    Callback, Cleanup, HubActs

\* A remote turn begins without an ask.
LEMMA AsksInvInit == Init => AsksInv
<1> SUFFICES ASSUME Init
             PROVE  AsksInv
  OBVIOUS
<1>1. wire \in Seq(Event) /\ wire \in Seq(Told)
  BY DEF Init
<1>2. hub \in [at : {"posts", "reads", "asks", "answers", "cancels"} \cup HubOver,
              ask : 0 .. MaxAsks, says : {"allow", "cancel"}]
  BY SatelliteConstants DEF Init
<1>3. /\ parts \in 0 .. MaxParts /\ lost \in 0 .. MaxLost /\ asks \in 0 .. MaxAsks
      /\ answer \in [Asks -> {"open", "allow", "cancel"}]
      /\ decided \in [Asks -> {"none", "allow", "cancel"}]
  BY SatelliteConstants DEF Init
<1>4. TypeOK
  BY <1>1, <1>2, <1>3 DEF Init, TypeOK
<1> QED
  BY <1>1, <1>4 DEF Init, AsksInv

-----------------------------------------------------------------------------
(* The theorems *)

\* The three components leave each other alone: a behaviour of all of them is
\* one of the Codex turn and one of the remote turn.
LEMMA AgentsContain == AgentsSpec => CxSpec /\ Spec
<1>1. AgentsInit => CxInit /\ Init
  BY DEF AgentsInit
<1>2. [AgentsNext]_agentsVars => [CxNext]_cxVars /\ [Next]_vars
  BY DEF AgentsNext, agentsVars
<1> QED
  BY <1>1, <1>2, PTL DEF AgentsSpec, CxSpec, Spec

\* CodexInv holds of every reachable state.
LEMMA CodexInvariance == CxSpec => []CodexInv
  BY CodexInvInit, CodexInvStep, PTL DEF CxSpec

\* AsksInv holds of every reachable state.
LEMMA AsksInvariance == Spec => []AsksInv
  BY AsksInvInit, AsksInvStep, PTL DEF Spec

\* A Codex turn that completed leaves the thread that its child announced last
\* stored, through resume, its fallback and the change of id in mid-turn,
\* whatever reports of other turns came between (run_prompt of provider.rs).
THEOREM StoredThreadStaysLive == AgentsSpec => []StoredThreadIsLive
<1>1. CodexInv => StoredThreadIsLive
  BY DEF CodexInv, PhaseInv, StoredInv, StoredThreadIsLive
<1> QED
  BY <1>1, AgentsContain, CodexInvariance, PTL

\* Who asks a user from a satellite is told "allow" by that user only, and can
\* be answered for as long as it waits, whatever calls are lost and whichever
\* side gives up (send_options, callback and RunGuard of satellite/runs.rs).
THEOREM AsksAreAlwaysAnswered == AgentsSpec => []AsksAreAnswered
<1>1. AsksInv => AsksAreAnswered
  BY DEF AsksInv, AsksAreAnswered, AllowedByUser, AskCanBeAnswered, TypeOK
<1> QED
  BY <1>1, AgentsContain, AsksInvariance, PTL

=============================================================================
