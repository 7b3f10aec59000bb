---------------------------- MODULE ServicesProofs ----------------------------
(***************************************************************************)
(* Proofs about the parts of the server that share no state (Services),    *)
(* for any windows, turns, requests and bounds. Each component has its     *)
(* inductive invariant. The git caches and the limiter have theorems of    *)
(* their own; those at the end are about Services, each of whose           *)
(* behaviours is one of a component.                                       *)
(***************************************************************************)
EXTENDS Services, SequenceTheorems, FiniteSetTheorems, WellFoundedInduction, TLAPS

-----------------------------------------------------------------------------
(* Files *)

\* What a request and a tab may hold once n writes have been done.
CallsAt(n) ==
  [kind : {"none", "read", "save"}, by : Client \cup {Other}, first : BOOLEAN, same : BOOLEAN,
   at : {"none", "sent", "checks", "writes", "rereads", "answered"},
   expected : 0..n, wrote : 0..n, got : 0..n \cup {Nothing, Error}]
TabsAt(n) ==
  [open : BOOLEAN, content : 0..n \cup {Nothing}, text : 0..n \cup {Nothing, Typed},
   dirty : BOOLEAN, loading : BOOLEAN, saving : BOOLEAN, failed : BOOLEAN]

\* The types; contents are numbered by the writes that made them.
FileTypes ==
  /\ writes \in Value /\ disk \in {writes, Absent}
  /\ call \in [Call -> CallsAt(writes)] /\ tab \in [Client -> TabsAt(writes)]
  /\ reload \in [Client -> BOOLEAN] /\ opens \in [Client -> Nat]
  /\ saved \subseteq [expected : Value, wrote : Value]
  /\ unread \in [Client -> SUBSET (0..writes)] /\ owed \in [Client -> 0..writes]

\* Where a save holds the lock of the path.
Locked == {"checks", "writes", "rereads"}

\* A content is gone for good once something has been put in its place, and the
\* one save that holds the lock is the only one that may still replace it.
CallIsSound(k) ==
  /\ call[k].at \in Locked => call[k].kind = "save" /\ (Locks => lockedBy = k)
  /\ call[k].at = "answered" => call[k].got # Nothing
  /\ call[k].at \in {"writes", "rereads"} /\ Locks => \A s \in saved : s.expected # call[k].expected
  /\ call[k].at = "rereads" => call[k].expected < call[k].wrote
  /\ call[k].wrote > 0 => call[k].kind = "save" /\ call[k].at \in {"rereads", "answered"}
  /\ call[k].wrote > 0 /\ call[k].at = "answered" => call[k].got >= call[k].wrote

\* A save that was told of success made a later content than it replaced.
Replaced == \A s \in saved : s.expected < s.wrote /\ s.wrote <= writes

\* What the saves promise, and every request for it.
SavesAreSound ==
  /\ Replaced /\ (Locks => NoUpdateIsLost)
  /\ \A k \in Call : CallIsSound(k)

\* The first tab of a window has one request in flight at most.
First(c) == tab[c].open /\ opens[c] <= 1
\* Its request says what the tab waits for.
OneCall(c) ==
  /\ opens[c] = 0 => ~tab[c].open /\ \A k \in Call : call[k].by # c
  /\ First(c) =>
       /\ \A j, k \in Call : call[j].by = c /\ call[k].by = c => j = k
       /\ \A k \in Call : call[k].by = c =>
            \/ call[k].kind = "read" /\ tab[c].loading /\ ~tab[c].saving
            \/ call[k].kind = "save" /\ tab[c].saving /\ ~tab[c].loading
       /\ reload[c] \/ tab[c].loading \/ tab[c].saving => \E k \in Call : call[k].by = c

\* What a tab shows is too old only while a read is to come.
TabCatchesUp(c) ==
  /\ tab[c].text = Typed => tab[c].dirty
  /\ First(c) => \A k \in Call :
       call[k].by = c /\ call[k].wrote > 0 =>
         tab[c].text \notin call[k].wrote..MaxWrites /\ tab[c].content \notin call[k].wrote..MaxWrites
  /\ First(c) /\ owed[c] > 0 =>
       /\ tab[c].text # Typed
       /\ \A k \in Call : call[k].by = c /\ call[k].kind = "read" =>
            \/ call[k].at = "sent"
            \/ call[k].at = "answered" /\ call[k].got >= owed[c]
            \/ reload[c] /\ ~tab[c].dirty
       /\ ~tab[c].dirty /\ (\A k \in Call : call[k].by # c) =>
            tab[c].failed \/ tab[c].content >= owed[c]
       /\ ~tab[c].dirty /\ tab[c].saving => reload[c]

\* The files and every window.
FileInv ==
  /\ FileTypes /\ SavesAreSound
  /\ \A c \in Client : OneCall(c) /\ TabCatchesUp(c)

\* The marks that stand for no content are above every content.
LEMMA MarksAreApart ==
  /\ MaxWrites \in Nat /\ Absent = MaxWrites + 1 /\ Nothing = MaxWrites + 2
  /\ Typed = MaxWrites + 3 /\ Error = MaxWrites + 4
BY FileConstants DEF Absent, Nothing, Typed, Error

\* No tab is open and no request is under way at first.
LEMMA FileInvInit == FileInit => FileInv
<1> SUFFICES ASSUME FileInit PROVE FileInv
  OBVIOUS
<1>1. Spare \in CallsAt(0) /\ Spare.by = Other /\ Spare.at = "none" /\ Spare.wrote = 0
  BY MarksAreApart DEF Spare, CallsAt
<1>2. NoTab \in TabsAt(0) /\ NoTab.text = Nothing /\ ~NoTab.open
  BY MarksAreApart DEF NoTab, TabsAt
<1>3. FileTypes
  BY <1>1, <1>2, MarksAreApart DEF FileInit, FileTypes, Value
<1>4. SavesAreSound
  BY <1>1 DEF FileInit, SavesAreSound, Replaced, NoUpdateIsLost, CallIsSound, Locked
<1>5. \A k \in Call : call[k].by = Other /\ call[k].wrote = 0
  BY <1>1 DEF FileInit
<1>6. \A c \in Client : OneCall(c) /\ TabCatchesUp(c)
  BY <1>2, <1>5, FileConstants, MarksAreApart DEF FileInit, OneCall, TabCatchesUp, First
<1> QED
  BY <1>3, <1>4, <1>6 DEF FileInv

\* More writes only add to what may be held.
LEMMA MoreIsHeld ==
  ASSUME NEW n \in Nat, NEW m \in Nat, n <= m
  PROVE  CallsAt(n) \subseteq CallsAt(m) /\ TabsAt(n) \subseteq TabsAt(m)
<1>1. 0..n \subseteq 0..m
  OBVIOUS
<1> QED
  BY <1>1 DEF CallsAt, TabsAt

\* What an answer makes of a tab.
LEMMA SettledTab ==
  ASSUME NEW n \in Nat, n <= MaxWrites, NEW t \in TabsAt(n), NEW k \in Call, call[k] \in CallsAt(n),
         call[k].got # Nothing, NEW s, s = Settled(t, k)
  PROVE  /\ s \in TabsAt(n) /\ s.open = t.open
         /\ ~t.open => s = t
         /\ t.open /\ call[k].kind = "read" => ~s.loading /\ s.saving = t.saving
         /\ t.open /\ call[k].kind # "read" => ~s.saving /\ s.loading = t.loading
         /\ (t.text = Typed => t.dirty) => (s.text = Typed => s.dirty)
         /\ s.text = Typed => t.text = Typed
         /\ t.open /\ call[k].kind = "read" /\ call[k].got = Error => s.failed /\ s.dirty = t.dirty
         /\ t.open /\ call[k].kind = "read" /\ call[k].got # Error => s.content = call[k].got
         /\ t.open /\ call[k].kind = "read" /\ ~t.dirty => ~s.dirty
         /\ t.open /\ call[k].kind # "read" /\ t.text # Typed /\ t.dirty => 
              \/ s.dirty
              \/ call[k].wrote > 0 /\ call[k].got = t.text
<1>1. PICK q \in CallsAt(n) : q = call[k]
  OBVIOUS
<1>2. CASE ~t.open
  BY <1>2 DEF Settled, TabsAt
<1>3. CASE t.open /\ q.kind = "read"
  <2>1. s = Loaded(t, k)
    BY <1>1, <1>3 DEF Settled
  <2>2. CASE q.got = Error
    <3>1. s = [t EXCEPT !.loading = FALSE, !.failed = TRUE]
      BY <1>1, <2>1, <2>2 DEF Loaded
    <3> QED
      BY <1>1, <1>3, <2>2, <3>1 DEF TabsAt
  <2>3. CASE q.got # Error
    <3>1. PICK x : x = IF t.dirty /\ ~q.first THEN t.text ELSE q.got
      OBVIOUS
    <3>2. PICK d \in BOOLEAN : d = (x # q.got)
      OBVIOUS
    <3>3. q.got \in 0..n
      BY <1>1, <2>3 DEF CallsAt
    <3>4. x \in 0..n \cup {Nothing, Typed}
      BY <3>1, <3>3 DEF TabsAt
    <3>5. s = [t EXCEPT !.content = q.got, !.text = x, !.dirty = d, !.loading = FALSE, !.failed = FALSE]
      BY <1>1, <2>1, <2>3, <3>1, <3>2 DEF Loaded
    <3>6. /\ s \in TabsAt(n) /\ s.open = t.open /\ ~s.loading /\ s.saving = t.saving
          /\ s.text = x /\ s.dirty = d /\ s.content = q.got
      BY <3>3, <3>4, <3>5 DEF TabsAt
    <3>7. q.got # Typed
      BY <3>3, MarksAreApart
    <3> QED
      BY <1>1, <1>3, <2>3, <3>1, <3>2, <3>6, <3>7
  <2> QED
    BY <2>2, <2>3
<1>4. CASE t.open /\ q.kind # "read"
  <2>1. CASE s = Written(t, k) /\ q.wrote > 0 /\ q.got # Error
    <3>1. PICK x : x = IF t.text = Typed /\ q.same /\ q.got = q.wrote THEN q.got ELSE t.text
      OBVIOUS
    <3>2. PICK d \in BOOLEAN : d = (x # q.got)
      OBVIOUS
    <3>3. q.got \in 0..n
      BY <1>1, <2>1 DEF CallsAt
    <3>4. x \in 0..n \cup {Nothing, Typed}
      BY <3>1, <3>3 DEF TabsAt
    <3>5. s = [t EXCEPT !.content = q.got, !.text = x, !.dirty = d, !.saving = FALSE, !.failed = FALSE]
      BY <1>1, <2>1, <3>1, <3>2 DEF Written
    <3>6. /\ s \in TabsAt(n) /\ s.open = t.open /\ ~s.saving /\ s.loading = t.loading
          /\ s.text = x /\ s.dirty = d /\ s.content = q.got
      BY <3>3, <3>4, <3>5 DEF TabsAt
    <3>7. q.got # Typed
      BY <3>3, MarksAreApart
    <3> QED
      BY <1>1, <1>4, <2>1, <3>1, <3>2, <3>6, <3>7
  <2>2. CASE s = Refused(t, k)
    <3>1. PICK x : x = IF q.got = Error THEN t.content ELSE q.got
      OBVIOUS
    <3>2. x \in 0..n \cup {Nothing}
      BY <3>1, <1>1 DEF CallsAt, TabsAt
    <3>3. s = [t EXCEPT !.saving = FALSE, !.failed = TRUE, !.content = x]
      BY <1>1, <2>2, <3>1 DEF Refused
    <3>4. /\ s \in TabsAt(n) /\ s.open = t.open /\ ~s.saving /\ s.loading = t.loading
          /\ s.text = t.text /\ s.dirty = t.dirty
      BY <3>2, <3>3 DEF TabsAt
    <3> QED
      BY <1>1, <1>4, <3>4
  <2> QED
    BY <1>1, <1>4, <2>1, <2>2 DEF Settled
<1> QED
  BY <1>1, <1>2, <1>3, <1>4

\* What the server promises about saves depends on what it holds.
LEMMA FileInvStep == FileInv /\ [FileNext]_fileVars => FileInv'
<1> SUFFICES ASSUME FileInv, [FileNext]_fileVars PROVE FileInv'
  OBVIOUS
<1>a. /\ writes \in Value /\ disk \in {writes, Absent}
      /\ call \in [Call -> CallsAt(writes)] /\ tab \in [Client -> TabsAt(writes)]
      /\ reload \in [Client -> BOOLEAN] /\ opens \in [Client -> Nat]
      /\ saved \subseteq [expected : Value, wrote : Value]
      /\ unread \in [Client -> SUBSET (0..writes)] /\ owed \in [Client -> 0..writes]
  BY DEF FileInv, FileTypes
<1>b. (\A c \in Client : OneCall(c)) /\ \A c \in Client : TabCatchesUp(c)
  BY DEF FileInv
<1>c. SavesAreSound
  BY DEF FileInv
<1>d. writes \in Nat /\ writes <= MaxWrites /\ MaxWrites \in Nat
  BY <1>a, MarksAreApart DEF Value
<1>e. /\ Spare \in CallsAt(writes) /\ Spare.by = Other /\ Spare.at = "none" /\ Spare.wrote = 0
      /\ Other \notin Client
  BY <1>d, MarksAreApart, FileConstants DEF Spare, CallsAt
<1>f. /\ NoTab \in TabsAt(writes) /\ NoTab.text = Nothing /\ ~NoTab.open /\ ~NoTab.dirty
      /\ [NoTab EXCEPT !.open = TRUE, !.loading = TRUE] \in TabsAt(writes)
  BY <1>d, MarksAreApart DEF NoTab, TabsAt
\* A step that does nothing to the saves of the server.
<1>s. ASSUME UNCHANGED serverVars, call' \in [Call -> CallsAt(writes)],
             \A k \in Call :
               \/ call'[k].at \in {"none", "sent"} /\ call'[k].wrote = 0
               \/ /\ call'[k].kind = call[k].kind /\ call'[k].at = call[k].at
                  /\ call'[k].expected = call[k].expected /\ call'[k].wrote = call[k].wrote
                  /\ call'[k].got = call[k].got
      PROVE  SavesAreSound'
  <2>1. Replaced' /\ (Locks => NoUpdateIsLost')
    BY <1>c, <1>s DEF SavesAreSound, Replaced, NoUpdateIsLost, serverVars
  <2>2. ASSUME NEW k \in Call PROVE CallIsSound(k)'
    <3>1. CASE call'[k].at \in {"none", "sent"} /\ call'[k].wrote = 0
      BY <3>1 DEF CallIsSound, Locked
    <3>2. CASE /\ call'[k].kind = call[k].kind /\ call'[k].at = call[k].at
               /\ call'[k].expected = call[k].expected /\ call'[k].wrote = call[k].wrote
               /\ call'[k].got = call[k].got
      BY <1>c, <1>s, <3>2 DEF CallIsSound, Locked, SavesAreSound, serverVars
    <3> QED
      BY <1>s, <3>1, <3>2
  <2> QED
    BY <2>1, <2>2 DEF SavesAreSound
\* A window that the step is not about.
<1>o. ASSUME NEW c \in Client, tab'[c] = tab[c], reload'[c] = reload[c], opens'[c] = opens[c],
             owed'[c] = owed[c],
             \A k \in Call : call[k].by = c \/ call'[k].by = c => call'[k] = call[k]
      PROVE  OneCall(c)' /\ TabCatchesUp(c)'
  BY <1>b, <1>o DEF OneCall, TabCatchesUp, First
\* A window that sends a request.
<1>q. ASSUME NEW c \in Client, NEW k \in Call, NEW r, call' = [call EXCEPT ![k] = r],
             r.by = c, r.at = "sent", r.wrote = 0, opens'[c] \in Nat \ {0},
             \/ r.kind = "read" /\ tab'[c].loading /\ ~tab'[c].saving
             \/ r.kind = "save" /\ tab'[c].saving /\ ~tab'[c].loading /\ tab'[c].dirty,
             opens'[c] <= 1 => \A j \in Call : j # k => call[j].by # c,
             tab'[c].text = Typed => tab'[c].dirty,
             opens'[c] <= 1 /\ owed'[c] > 0 => tab'[c].text # Typed
      PROVE  OneCall(c)' /\ TabCatchesUp(c)'
  <2>1. call'[k] = r /\ \A j \in Call : j # k => call'[j] = call[j]
    BY <1>a, <1>q
  <2>2. opens'[c] <= 1 => \A j \in Call : call'[j].by = c => j = k
    BY <1>q, <2>1
  <2> QED
    BY <1>q, <2>1, <2>2 DEF OneCall, TabCatchesUp, First
\* What Sends puts on the way.
<1>S. ASSUME NEW c \in Client, NEW kind \in {"read", "save"}, NEW first \in BOOLEAN,
             Sends(c, kind, first), kind = "save" => tab[c].content # Nothing
      PROVE  \E k \in Call, r \in CallsAt(writes) :
               /\ call[k] = Spare /\ call' = [call EXCEPT ![k] = r]
               /\ r.kind = kind /\ r.by = c /\ r.at = "sent" /\ r.wrote = 0
  <2>1. PICK k \in Call : k = CHOOSE j \in Call : call[j] = Spare
    BY <1>S DEF Sends
  <2>2. call[k] = Spare
    BY <1>S, <2>1 DEF Sends
  <2>3. PICK e : e = IF kind = "save" THEN tab[c].content ELSE 0
    OBVIOUS
  <2>4. e \in 0..writes
    BY <1>a, <1>d, <1>S, <2>3 DEF TabsAt
  <2>5. PICK r : r = [Spare EXCEPT !.kind = kind, !.by = c, !.at = "sent",
                            !.first = first, !.expected = e]
    OBVIOUS
  <2>6. r \in CallsAt(writes) /\ r.kind = kind /\ r.by = c /\ r.at = "sent" /\ r.wrote = 0
    BY <1>e, <2>4, <2>5 DEF CallsAt
  <2>7. call' = [call EXCEPT ![k] = r]
    BY <1>S, <2>1, <2>3, <2>5 DEF Sends
  <2> QED
    BY <2>2, <2>6, <2>7
\* A window sends a request over a tab that it has or has just opened.
<1>W. ASSUME NEW c \in Client, NEW t \in TabsAt(writes), NEW n \in Nat \ {0},
             NEW kind \in {"read", "save"}, NEW first \in BOOLEAN, Sends(c, kind, first),
             kind = "save" => tab[c].content # Nothing,
             tab' = [tab EXCEPT ![c] = t], opens' = [opens EXCEPT ![c] = n],
             UNCHANGED serverVars, reload' \in [Client -> BOOLEAN],
             \A d \in Client \ {c} : reload'[d] = reload[d] /\ owed'[d] = owed[d],
             unread' \in [Client -> SUBSET (0..writes)], owed' \in [Client -> 0..writes],
             \/ kind = "read" /\ t.loading /\ ~t.saving
             \/ kind = "save" /\ t.saving /\ ~t.loading /\ t.dirty,
             n <= 1 => \A j \in Call : call[j].by # c,
             t.text = Typed => t.dirty,
             n <= 1 /\ owed'[c] > 0 => t.text # Typed
      PROVE  FileInv'
  <2>1. PICK k \in Call, r \in CallsAt(writes) :
          /\ call[k] = Spare /\ call' = [call EXCEPT ![k] = r]
          /\ r.kind = kind /\ r.by = c /\ r.at = "sent" /\ r.wrote = 0
    BY <1>S, <1>W
  <2>2. /\ call' \in [Call -> CallsAt(writes)] /\ call'[k] = r
        /\ \A j \in Call : j # k => call'[j] = call[j]
    BY <1>a, <2>1
  <2>3. /\ tab' \in [Client -> TabsAt(writes)] /\ tab'[c] = t /\ opens' \in [Client -> Nat]
        /\ opens'[c] = n /\ \A d \in Client : d # c => tab'[d] = tab[d] /\ opens'[d] = opens[d]
    BY <1>a, <1>W
  <2>4. FileTypes'
    BY <1>a, <1>W, <2>2, <2>3 DEF FileTypes, serverVars
  <2>5. SavesAreSound'
    BY <1>s, <1>W, <2>1, <2>2
  <2>6. OneCall(c)' /\ TabCatchesUp(c)'
    BY <1>q, <1>W, <2>1, <2>3
  <2>7. ASSUME NEW d \in Client, d # c PROVE OneCall(d)' /\ TabCatchesUp(d)'
    BY <1>o, <1>W, <1>e, <2>1, <2>2, <2>3, <2>7
  <2> QED
    BY <2>4, <2>5, <2>6, <2>7 DEF FileInv
<1>O. ASSUME NEW c \in Client, Opens(c), UNCHANGED <<serverVars, reload>>,
             \A d \in Client \ {c} : owed'[d] = owed[d],
             unread' \in [Client -> SUBSET (0..writes)], owed' \in [Client -> 0..writes]
      PROVE  FileInv'
  <2>1. PICK t : t = [NoTab EXCEPT !.open = TRUE, !.loading = TRUE]
    OBVIOUS
  <2>2. t \in TabsAt(writes) /\ t.loading /\ ~t.saving /\ t.text # Typed
    BY <1>f, <2>1, MarksAreApart DEF NoTab
  <2>3. PICK n \in Nat \ {0} : n = opens[c] + 1
    BY <1>a
  <2>4. n <= 1 => \A j \in Call : call[j].by # c
    BY <1>a, <1>b, <2>3 DEF OneCall
  <2>5. /\ tab' = [tab EXCEPT ![c] = t] /\ opens' = [opens EXCEPT ![c] = n]
        /\ Sends(c, "read", TRUE)
    BY <1>O, <2>1, <2>3 DEF Opens
  <2> QED
    BY <1>a, <1>W, <1>O, <2>2, <2>4, <2>5
<1>1. ASSUME NEW c \in Client, OpenTab(c) PROVE FileInv'
  BY <1>1, <1>a, <1>O DEF OpenTab, reportVars
<1>R. ASSUME NEW c \in Client, Reloads(c), tab[c].open, Idle(c), UNCHANGED <<serverVars, reload>>,
             \A d \in Client \ {c} : owed'[d] = owed[d],
             owed'[c] > 0 => ~tab[c].dirty \/ owed'[c] = owed[c],
             unread' \in [Client -> SUBSET (0..writes)], owed' \in [Client -> 0..writes]
      PROVE  FileInv'
  <2>1. PICK q \in TabsAt(writes) : q = tab[c]
    BY <1>a
  <2>2. PICK t : t = [q EXCEPT !.loading = TRUE]
    OBVIOUS
  <2>3. /\ t \in TabsAt(writes) /\ t.loading /\ t.saving = q.saving /\ t.text = q.text
        /\ t.dirty = q.dirty
    BY <2>2 DEF TabsAt
  <2>4. PICK n \in Nat : n = opens[c]
    BY <1>a
  <2>5. n # 0
    BY <1>b, <1>R, <2>4 DEF OneCall
  <2>6. n <= 1 => \A j \in Call : call[j].by # c
    BY <1>b, <1>R, <2>4 DEF OneCall, First, Idle
  <2>7. tab' = [tab EXCEPT ![c] = t] /\ opens' = [opens EXCEPT ![c] = n]
    BY <1>a, <1>R, <2>1, <2>2, <2>4 DEF Reloads
  <2>8. (t.text = Typed => t.dirty) /\ (n <= 1 /\ owed'[c] > 0 => t.text # Typed)
    BY <1>b, <1>R, <2>1, <2>3, <2>4 DEF TabCatchesUp, First
  <2>9. Sends(c, "read", FALSE) /\ ~t.saving
    BY <1>R, <2>1, <2>3 DEF Reloads, Idle
  <2> QED
    BY <1>a, <1>W, <1>R, <2>3, <2>5, <2>6, <2>7, <2>8, <2>9
<1>2. ASSUME NEW c \in Client, ReloadTab(c) PROVE FileInv'
  BY <1>2, <1>a, <1>R DEF ReloadTab, reportVars
<1>3. ASSUME NEW c \in Client, SaveTab(c) PROVE FileInv'
  <2>1. PICK q \in TabsAt(writes) : q = tab[c]
    BY <1>a
  <2>2. PICK t : t = [q EXCEPT !.saving = TRUE]
    OBVIOUS
  <2>3. /\ t \in TabsAt(writes) /\ t.saving /\ t.loading = q.loading /\ t.text = q.text
        /\ t.dirty = q.dirty
    BY <2>2 DEF TabsAt
  <2>4. PICK n \in Nat : n = opens[c]
    BY <1>a
  <2>5. n # 0
    BY <1>b, <1>3, <2>4 DEF OneCall, SaveTab
  <2>6. n <= 1 => \A j \in Call : call[j].by # c
    BY <1>b, <1>3, <2>4 DEF OneCall, First, Idle, SaveTab
  <2>7. tab' = [tab EXCEPT ![c] = t] /\ opens' = [opens EXCEPT ![c] = n]
    BY <1>a, <1>3, <2>1, <2>2, <2>4 DEF SaveTab
  <2>8. (t.text = Typed => t.dirty) /\ (n <= 1 /\ owed[c] > 0 => t.text # Typed)
    BY <1>b, <1>3, <2>1, <2>3, <2>4 DEF TabCatchesUp, First, SaveTab
  <2>9. Sends(c, "save", FALSE) /\ ~t.loading /\ t.dirty /\ tab[c].content # Nothing
        /\ UNCHANGED <<serverVars, reportVars, reload>>
    BY <1>3, <2>1, <2>3 DEF SaveTab, Idle
  <2> QED
    BY <1>a, <1>W, <2>3, <2>5, <2>6, <2>7, <2>8, <2>9 DEF reportVars
\* A window whose requests stay on the way.
<1>u. ASSUME NEW c \in Client, NEW t \in TabsAt(writes), tab' = [tab EXCEPT ![c] = t],
             UNCHANGED <<serverVars, opens>>,
             reload' \in [Client -> BOOLEAN],
             \A d \in Client \ {c} : reload'[d] = reload[d] /\ owed'[d] = owed[d],
             unread' \in [Client -> SUBSET (0..writes)], owed' \in [Client -> 0..writes],
             call' \in [Call -> CallsAt(writes)],
             \A k \in Call :
               /\ call'[k].kind = call[k].kind /\ call'[k].by = call[k].by /\ call'[k].at = call[k].at
               /\ call'[k].expected = call[k].expected /\ call'[k].wrote = call[k].wrote
               /\ call'[k].got = call[k].got
               /\ call[k].by # c => call'[k] = call[k],
             t.text = Typed => t.dirty,
             ~t.open \/ /\ tab[c].open /\ t.loading = tab[c].loading /\ t.saving = tab[c].saving
                        /\ reload'[c] => reload[c] \/ t.loading \/ t.saving
                        /\ t.content = tab[c].content /\ t.text \in {tab[c].text, tab[c].content, Typed}
                        /\ \/ owed'[c] = 0
                           \/ /\ reload'[c] /\ ~t.dirty /\ ~Idle(c)
      PROVE  FileInv'
  <2>1. /\ tab' \in [Client -> TabsAt(writes)] /\ tab'[c] = t
        /\ \A d \in Client : d # c => tab'[d] = tab[d]
    BY <1>a, <1>u
  <2>2. FileTypes'
    BY <1>a, <1>u, <2>1 DEF FileTypes, serverVars
  <2>3. SavesAreSound'
    BY <1>s, <1>u
  <2>4. ASSUME NEW d \in Client, d # c PROVE OneCall(d)' /\ TabCatchesUp(d)'
    <3>1. \A k \in Call : call[k].by = d \/ call'[k].by = d => call'[k] = call[k]
      BY <1>u, <2>4
    <3> QED
      BY <1>o, <1>u, <2>1, <2>4, <3>1
  <2>5. OneCall(c)'
    <3>1. CASE ~t.open
      BY <1>b, <1>u, <2>1, <3>1 DEF OneCall, First
    <3>2. CASE t.open
      BY <1>b, <1>u, <2>1, <3>2 DEF OneCall, First
    <3> QED
      BY <3>1, <3>2
  <2>6. TabCatchesUp(c)'
    <3>1. CASE ~t.open
      BY <1>u, <2>1, <3>1 DEF TabCatchesUp, First
    <3>2. CASE t.open
      <4>1. \A k \in Call : call'[k].wrote \in 0..writes
        BY <1>u, <1>d DEF CallsAt
      <4>2. First(c)' => First(c)
        BY <1>u, <2>1, <3>2 DEF First
      <4>3. First(c)' => \A k \in Call :
              call'[k].by = c /\ call'[k].wrote > 0 =>
                t.text \notin call'[k].wrote..MaxWrites /\ t.content \notin call'[k].wrote..MaxWrites
        BY <1>b, <1>d, <1>u, <3>2, <4>1, <4>2, MarksAreApart DEF TabCatchesUp
      <4>4. First(c)' /\ owed'[c] > 0 =>
              /\ t.text # Typed /\ reload'[c] /\ ~t.dirty
              /\ \E k \in Call : call'[k].by = c
        BY <1>a, <1>b, <1>u, <3>2, <4>2 DEF OneCall, Idle
      <4> QED
        BY <1>u, <2>1, <4>3, <4>4 DEF TabCatchesUp
    <3> QED
      BY <3>1, <3>2
  <2> QED
    BY <2>2, <2>3, <2>4, <2>5, <2>6 DEF FileInv
<1>4. ASSUME NEW c \in Client, CloseTab(c) PROVE FileInv'
  <2>1. /\ tab' = [tab EXCEPT ![c] = NoTab] /\ reload' = [reload EXCEPT ![c] = FALSE]
        /\ UNCHANGED <<serverVars, reportVars, call, opens, calls>>
    BY <1>4 DEF CloseTab
  <2>2. reload' \in [Client -> BOOLEAN] /\ \A d \in Client \ {c} : reload'[d] = reload[d]
    BY <1>a, <2>1
  <2>3. NoTab.text # Typed
    BY <1>f, MarksAreApart
  <2> QED
    BY <1>a, <1>f, <1>u, <2>1, <2>2, <2>3 DEF reportVars
\* Typing marks the requests on the way.
<1>t. ASSUME NEW c \in Client, 
             call' = [k \in Call |-> IF call[k].by = c THEN [call[k] EXCEPT !.same = (call[k] = Spare)]
                                     ELSE call[k]]
      PROVE  /\ call' \in [Call -> CallsAt(writes)]
             /\ \A k \in Call :
               /\ call'[k].kind = call[k].kind /\ call'[k].by = call[k].by /\ call'[k].at = call[k].at
               /\ call'[k].expected = call[k].expected /\ call'[k].wrote = call[k].wrote
               /\ call'[k].got = call[k].got
               /\ call[k].by # c => call'[k] = call[k]
  <2>1. ASSUME NEW k \in Call
        PROVE  /\ call'[k] \in CallsAt(writes)
               /\ call'[k].kind = call[k].kind /\ call'[k].by = call[k].by /\ call'[k].at = call[k].at
               /\ call'[k].expected = call[k].expected /\ call'[k].wrote = call[k].wrote
               /\ call'[k].got = call[k].got
               /\ call[k].by # c => call'[k] = call[k]
    <3>1. PICK q \in CallsAt(writes) : q = call[k]
      BY <1>a
    <3>2. PICK f \in BOOLEAN : f = (call[k] = Spare)
      OBVIOUS
    <3>3. call'[k] = IF q.by = c THEN [q EXCEPT !.same = f] ELSE q
      BY <1>t, <3>1, <3>2
    <3> QED
      BY <3>1, <3>3 DEF CallsAt
  <2> QED
    BY <1>t, <2>1
<1>5. ASSUME NEW c \in Client, TypeText(c) \/ DiscardText(c) PROVE FileInv'
  <2>1. PICK q \in TabsAt(writes) : q = tab[c]
    BY <1>a
  <2>2. /\ q.open /\ q.content # Nothing /\ owed' = [owed EXCEPT ![c] = 0]
        /\ call' = [k \in Call |-> IF call[k].by = c THEN [call[k] EXCEPT !.same = (call[k] = Spare)]
                                   ELSE call[k]]
        /\ UNCHANGED <<serverVars, unread, reload, opens, calls>>
    BY <1>5, <2>1 DEF TypeText, DiscardText
  <2>3. PICK x \in {Typed, q.content}, f \in BOOLEAN :
          f = (x = Typed) /\ tab' = [tab EXCEPT ![c] = [q EXCEPT !.text = x, !.dirty = f]]
    <3>1. q.content # Typed
      BY <1>d, <2>1, MarksAreApart DEF TabsAt
    <3>2. CASE TypeText(c)
      BY <1>a, <2>1, <3>2 DEF TypeText
    <3>3. CASE DiscardText(c)
      BY <1>a, <2>1, <3>1, <3>3 DEF DiscardText
    <3> QED
      BY <1>5, <3>2, <3>3
  <2>4. PICK t : t = [q EXCEPT !.text = x, !.dirty = f]
    OBVIOUS
  <2>5. /\ t \in TabsAt(writes) /\ t.text = x /\ t.dirty = f /\ t.content = q.content
        /\ t.loading = q.loading /\ t.saving = q.saving
    BY <2>2, <2>4 DEF TabsAt
  <2>6. /\ owed' \in [Client -> 0..writes] /\ owed'[c] = 0
        /\ \A d \in Client \ {c} : owed'[d] = owed[d]
    BY <1>a, <1>d, <2>2
  <2>7. tab' = [tab EXCEPT ![c] = t]
    BY <2>3, <2>4
  <2>8. /\ call' \in [Call -> CallsAt(writes)]
        /\ \A k \in Call :
             /\ call'[k].kind = call[k].kind /\ call'[k].by = call[k].by /\ call'[k].at = call[k].at
             /\ call'[k].expected = call[k].expected /\ call'[k].wrote = call[k].wrote
             /\ call'[k].got = call[k].got
             /\ call[k].by # c => call'[k] = call[k]
    BY <1>t, <2>2
  <2>9. /\ t.text = Typed => t.dirty
        /\ tab[c].open /\ t.loading = tab[c].loading /\ t.saving = tab[c].saving
        /\ t.content = tab[c].content /\ t.text \in {tab[c].text, tab[c].content, Typed}
    BY <2>1, <2>2, <2>3, <2>5
  <2>10. UNCHANGED <<serverVars, opens, reload, unread>>
    BY <2>2
  <2> QED
    BY <1>a, <1>u, <2>5, <2>6, <2>7, <2>8, <2>9, <2>10
<1>6. ASSUME NEW c \in Client, ReportArrives(c) PROVE FileInv'
  <2>1. PICK next \in unread[c] :
          /\ unread' = [unread EXCEPT ![c] = @ \ {next}]
          /\ owed' = [owed EXCEPT ![c] = IF tab[c].dirty THEN 0 ELSE next]
    BY <1>6 DEF ReportArrives
  <2>2. PICK o : o = IF tab[c].dirty THEN 0 ELSE next
    OBVIOUS
  <2>3. /\ unread' = [unread EXCEPT ![c] = @ \ {next}] /\ owed' = [owed EXCEPT ![c] = o]
        /\ ShowsAgentEdit(c) /\ UNCHANGED serverVars
    BY <1>6, <2>1, <2>2 DEF ReportArrives
  <2>4. next \in 0..writes
    BY <1>a, <2>1
  <2>5. /\ unread' \in [Client -> SUBSET (0..writes)]
        /\ owed' \in [Client -> 0..writes] /\ owed'[c] = o
        /\ \A d \in Client \ {c} : owed'[d] = owed[d]
    BY <1>a, <1>d, <2>2, <2>3, <2>4
  <2>6. CASE ~tab[c].open /\ Opens(c) /\ UNCHANGED reload
    BY <1>O, <2>3, <2>5, <2>6
  <2>7. CASE tab[c].open /\ tab[c].dirty /\ UNCHANGED <<tab, call, opens, calls, reload>>
    <3>1. PICK t \in TabsAt(writes) : t = tab[c]
      BY <1>a
    <3>2. tab' = [tab EXCEPT ![c] = t]
      BY <1>a, <2>7, <3>1
    <3>3. owed'[c] = 0
      BY <2>2, <2>5, <2>7
    <3> QED
      BY <1>a, <1>b, <1>u, <2>3, <2>5, <2>7, <3>1, <3>2, <3>3
  <2>8. CASE /\ tab[c].open /\ ~tab[c].dirty /\ ~Idle(c) /\ reload' = [reload EXCEPT ![c] = TRUE]
             /\ UNCHANGED <<tab, call, opens, calls>>
    <3>1. PICK t \in TabsAt(writes) : t = tab[c]
      BY <1>a
    <3>2. tab' = [tab EXCEPT ![c] = t]
      BY <1>a, <2>8, <3>1
    <3>3. /\ reload' \in [Client -> BOOLEAN] /\ reload'[c]
          /\ \A d \in Client \ {c} : reload'[d] = reload[d]
      BY <1>a, <2>8
    <3>4. (t.text = Typed => t.dirty) /\ (t.loading \/ t.saving)
      BY <1>b, <2>8, <3>1 DEF TabCatchesUp, Idle
    <3> QED
      BY <1>a, <1>u, <2>3, <2>5, <2>8, <3>1, <3>2, <3>3, <3>4
  <2>9. CASE tab[c].open /\ ~tab[c].dirty /\ Idle(c) /\ Reloads(c) /\ UNCHANGED reload
    BY <1>R, <2>3, <2>5, <2>9
  <2>10. tab[c].open \in BOOLEAN /\ tab[c].dirty \in BOOLEAN /\ Idle(c) \in BOOLEAN
    BY <1>a DEF TabsAt, Idle
  <2> QED
    BY <2>3, <2>6, <2>7, <2>8, <2>9, <2>10 DEF ShowsAgentEdit
\* An answer is taken up: the tab is settled, and a reload that was put off begins.
<1>7. ASSUME NEW k \in Call, AnswerArrives(k) PROVE FileInv'
  <2>1. PICK c \in Client : c = call[k].by
    BY <1>7 DEF AnswerArrives
  <2>2. PICK q \in TabsAt(writes) : q = tab[c]
    BY <1>a
  <2>3. PICK m \in CallsAt(writes) : m = call[k]
    BY <1>a
  <2>4. PICK t : t = Settled(q, k)
    OBVIOUS
  <2>5. m.at = "answered" /\ m.by = c /\ m.got # Nothing /\ m.wrote \in 0..writes
        /\ (m.wrote > 0 => m.got >= m.wrote /\ m.kind = "save")
        /\ m.got \in 0..writes \cup {Error}
    BY <1>7, <1>c, <2>1, <2>3 DEF AnswerArrives, SavesAreSound, CallIsSound, CallsAt
  <2>6. /\ t \in TabsAt(writes) /\ t.open = q.open
        /\ ~q.open => t = q
        /\ q.open /\ m.kind = "read" => ~t.loading /\ t.saving = q.saving
        /\ q.open /\ m.kind # "read" => ~t.saving /\ t.loading = q.loading
        /\ (q.text = Typed => q.dirty) => (t.text = Typed => t.dirty)
        /\ t.text = Typed => q.text = Typed
        /\ q.open /\ m.kind = "read" /\ m.got = Error => t.failed /\ t.dirty = q.dirty
        /\ q.open /\ m.kind = "read" /\ m.got # Error => t.content = m.got
        /\ q.open /\ m.kind = "read" /\ ~q.dirty => ~t.dirty
        /\ q.open /\ m.kind # "read" /\ q.text # Typed /\ q.dirty =>
             t.dirty \/ (m.wrote > 0 /\ m.got = q.text)
    BY <1>d, <2>3, <2>4, <2>5, SettledTab
  <2> DEFINE due == reload[c] /\ ~t.dirty
             idle == ~t.loading /\ ~t.saving
  <2>7. /\ reload' = [reload EXCEPT ![c] = due /\ ~idle]
        /\ IF due /\ idle
           THEN /\ tab' = [tab EXCEPT ![c] = [t EXCEPT !.loading = TRUE]]
                /\ call' = [call EXCEPT ![k] = [Spare EXCEPT !.kind = "read", !.by = c, !.at = "sent"]]
           ELSE tab' = [tab EXCEPT ![c] = t] /\ call' = [call EXCEPT ![k] = Spare]
        /\ UNCHANGED <<serverVars, reportVars, opens, calls>>
    BY <1>7, <2>1, <2>2, <2>4 DEF AnswerArrives
  <2>8. PICK f \in BOOLEAN : f = (due /\ ~idle)
    OBVIOUS
  <2>9. /\ reload' \in [Client -> BOOLEAN] /\ reload'[c] = f
        /\ \A d \in Client \ {c} : reload'[d] = reload[d]
    BY <1>a, <2>7, <2>8
  <2>10. UNCHANGED <<opens, unread, owed, writes, disk, saved>> /\ UNCHANGED serverVars
    BY <2>7 DEF reportVars, serverVars
  <2>11. t.text = Typed => t.dirty
    BY <1>b, <2>2, <2>6 DEF TabCatchesUp
  \* The first tab has no other request.
  <2>12. First(c) =>
           /\ \A j \in Call : call[j].by = c => j = k
           /\ \/ m.kind = "read" /\ q.loading /\ ~q.saving
              \/ m.kind = "save" /\ q.saving /\ ~q.loading
           /\ ~t.loading /\ ~t.saving /\ ~f
    BY <1>b, <2>1, <2>2, <2>3, <2>6, <2>8 DEF OneCall, First
  <2>13. opens[c] # 0
    BY <1>b, <2>1 DEF OneCall
  <2>14. CASE due /\ idle
    <3>1. PICK r : r = [Spare EXCEPT !.kind = "read", !.by = c, !.at = "sent"]
      OBVIOUS
    <3>2. r \in CallsAt(writes) /\ r.kind = "read" /\ r.by = c /\ r.at = "sent" /\ r.wrote = 0
      BY <1>e, <3>1 DEF CallsAt
    <3>3. PICK u : u = [t EXCEPT !.loading = TRUE]
      OBVIOUS
    <3>4. /\ u \in TabsAt(writes) /\ u.loading /\ u.saving = t.saving /\ u.text = t.text
          /\ u.dirty = t.dirty /\ u.open = t.open
      BY <2>6, <3>3 DEF TabsAt
    <3>5. /\ call' = [call EXCEPT ![k] = r] /\ call' \in [Call -> CallsAt(writes)] /\ call'[k] = r
          /\ \A j \in Call : j # k => call'[j] = call[j]
      BY <1>a, <2>7, <2>14, <3>1, <3>2
    <3>6. /\ tab' \in [Client -> TabsAt(writes)] /\ tab'[c] = u
          /\ \A d \in Client : d # c => tab'[d] = tab[d]
      BY <1>a, <2>7, <2>14, <3>3, <3>4
    <3>7. FileTypes'
      BY <1>a, <2>9, <2>10, <3>5, <3>6 DEF FileTypes
    <3>8. SavesAreSound'
      BY <1>s, <2>10, <3>2, <3>5
    <3>9. CASE q.open
      <4>1. opens'[c] <= 1 => \A j \in Call : j # k => call[j].by # c
        BY <2>2, <2>10, <2>12, <3>9 DEF First
      <4>2. u.text # Typed /\ ~u.saving
        BY <2>11, <2>14, <3>4
      <4>3. OneCall(c)' /\ TabCatchesUp(c)'
        BY <1>a, <1>q, <2>10, <2>13, <3>2, <3>4, <3>5, <3>6, <4>1, <4>2
      <4>4. ASSUME NEW d \in Client, d # c PROVE OneCall(d)' /\ TabCatchesUp(d)'
        BY <1>o, <2>1, <2>9, <2>10, <3>2, <3>5, <3>6, <4>4
      <4> QED
        BY <3>7, <3>8, <4>3, <4>4 DEF FileInv
    <3>10. CASE ~q.open
      <4>1. ~tab'[c].open /\ opens'[c] # 0 /\ u.text # Typed
        BY <2>6, <2>10, <2>11, <2>13, <2>14, <3>4, <3>6, <3>10
      <4>2. OneCall(c)' /\ TabCatchesUp(c)'
        BY <3>6, <4>1 DEF OneCall, TabCatchesUp, First
      <4>3. ASSUME NEW d \in Client, d # c PROVE OneCall(d)' /\ TabCatchesUp(d)'
        BY <1>o, <2>1, <2>9, <2>10, <3>2, <3>5, <3>6, <4>3
      <4> QED
        BY <3>7, <3>8, <4>2, <4>3 DEF FileInv
    <3> QED
      BY <3>9, <3>10
  <2>15. CASE ~(due /\ idle)
    <3>1. /\ call' \in [Call -> CallsAt(writes)] /\ call'[k] = Spare
          /\ \A j \in Call : j # k => call'[j] = call[j]
      BY <1>a, <1>e, <2>7, <2>15
    <3>2. /\ tab' \in [Client -> TabsAt(writes)] /\ tab'[c] = t
          /\ \A d \in Client : d # c => tab'[d] = tab[d]
      BY <1>a, <2>6, <2>7, <2>15
    <3>3. FileTypes'
      BY <1>a, <2>9, <2>10, <3>1, <3>2 DEF FileTypes
    <3>4. SavesAreSound'
      BY <1>e, <1>s, <2>10, <3>1
    <3>5. ASSUME NEW d \in Client, d # c PROVE OneCall(d)' /\ TabCatchesUp(d)'
      BY <1>e, <1>o, <2>1, <2>9, <2>10, <3>1, <3>2, <3>5
    <3>6. First(c)' => First(c)
      BY <2>2, <2>6, <2>10, <3>2 DEF First
    <3>7. First(c)' => (\A j \in Call : call'[j].by # c) /\ ~t.loading /\ ~t.saving /\ ~reload'[c]
      BY <1>e, <2>9, <2>12, <3>1, <3>6
    <3>8. OneCall(c)'
      BY <2>10, <2>13, <3>2, <3>7 DEF OneCall
    <3>9. First(c)' /\ owed[c] > 0 => t.text # Typed /\ (~t.dirty => t.failed \/ t.content >= owed[c])
      <4>1. SUFFICES ASSUME First(c), owed[c] > 0, ~t.loading, ~t.saving
                     PROVE  t.text # Typed /\ (~t.dirty => t.failed \/ t.content >= owed[c])
        BY <3>6, <3>7
      <4>2. /\ q.text # Typed /\ q.open
            /\ m.kind = "read" => m.got >= owed[c] \/ (reload[c] /\ ~q.dirty)
            /\ ~q.dirty /\ q.saving => reload[c]
            /\ m.wrote > 0 => q.text \notin m.wrote..MaxWrites
        BY <1>b, <2>1, <2>2, <2>3, <2>5, <4>1 DEF TabCatchesUp, First
      <4>3. t.text # Typed
        BY <2>6, <4>2
      <4>4. reload[c] => t.dirty
        BY <2>15, <4>1
      <4>5. CASE m.kind = "read"
        <5>1. m.got >= owed[c]
          BY <2>6, <4>2, <4>4, <4>5
        <5> QED
          BY <2>6, <4>2, <4>3, <4>5, <5>1
      <4>6. CASE m.kind = "save" /\ q.saving
        <5>1. q.dirty => t.dirty
          <6>1. m.wrote > 0 => m.got # q.text
            BY <1>d, <2>2, <2>5, <4>2, MarksAreApart DEF TabsAt
          <6> QED
            BY <2>6, <4>2, <4>6, <6>1
        <5>2. ~q.dirty => t.dirty
          BY <4>2, <4>4, <4>6
        <5>3. q.dirty \in BOOLEAN /\ t.dirty \in BOOLEAN
          BY <2>6 DEF TabsAt
        <5> QED
          BY <4>3, <5>1, <5>2, <5>3
      <4> QED
        BY <2>12, <4>1, <4>5, <4>6
    <3>10. TabCatchesUp(c)'
      BY <2>10, <2>11, <3>2, <3>7, <3>9 DEF TabCatchesUp
    <3> QED
      BY <3>3, <3>4, <3>5, <3>8, <3>10 DEF FileInv
  <2> QED
    BY <2>14, <2>15
\* A request of the window of which only the saves are modelled.
<1>x. ASSUME NEW k \in Call, NEW r \in CallsAt(writes), call' = [call EXCEPT ![k] = r],
             call[k].by = Other, r.by = Other, r.at \in {"none", "sent"}, r.wrote = 0,
             UNCHANGED <<serverVars, reportVars, tab, reload, opens>>
      PROVE  FileInv'
  <2>1. /\ call' \in [Call -> CallsAt(writes)] /\ call'[k] = r
        /\ \A j \in Call : j # k => call'[j] = call[j]
    BY <1>a, <1>x
  <2>2. FileTypes'
    BY <1>a, <1>x, <2>1 DEF FileTypes, serverVars, reportVars
  <2>3. SavesAreSound'
    BY <1>s, <1>x, <2>1
  <2>4. ASSUME NEW d \in Client PROVE OneCall(d)' /\ TabCatchesUp(d)'
    BY <1>e, <1>o, <1>x, <2>1, <2>4 DEF reportVars
  <2> QED
    BY <2>2, <2>3, <2>4 DEF FileInv
<1>8. ASSUME NEW k \in Call, OtherIsAnswered(k) PROVE FileInv'
  BY <1>8, <1>e, <1>x DEF OtherIsAnswered
<1>9. ASSUME NEW value \in Value, OtherSaves(value) PROVE FileInv'
  <2>1. PICK k \in Call : k = CHOOSE j \in Call : call[j] = Spare
    BY <1>9 DEF OtherSaves
  <2>2. call[k] = Spare
    BY <1>9, <2>1 DEF OtherSaves
  <2>3. PICK r : r = [Spare EXCEPT !.kind = "save", !.at = "sent", !.expected = value]
    OBVIOUS
  <2>4. value \in 0..writes
    BY <1>9, <1>d DEF OtherSaves, Value
  <2>5. r \in CallsAt(writes) /\ r.by = Other /\ r.at = "sent" /\ r.wrote = 0
    BY <1>e, <2>3, <2>4 DEF CallsAt
  <2>6. call' = [call EXCEPT ![k] = r] /\ UNCHANGED <<serverVars, reportVars, tab, reload, opens>>
    BY <1>9, <2>1, <2>3 DEF OtherSaves
  <2> QED
    BY <1>e, <1>x, <2>2, <2>5, <2>6
\* What the windows hold follows when more is written, or a request goes on.
<1>g. ASSUME NEW n \in Nat, n >= writes, n <= MaxWrites, writes' = n,
             UNCHANGED <<tab, reload, opens, owed>>,
             call' \in [Call -> CallsAt(n)],
             \A k \in Call :
               \/ call'[k] = call[k]
               \/ /\ call'[k].by = call[k].by /\ call'[k].kind = call[k].kind
                  /\ call[k].kind = "read" => call'[k].at = "answered" /\ call'[k].got >= writes
                  /\ call'[k].wrote = call[k].wrote \/ call'[k].wrote = writes + 1
      PROVE  \A c \in Client : OneCall(c)' /\ TabCatchesUp(c)'
  <2> SUFFICES ASSUME NEW c \in Client PROVE OneCall(c)' /\ TabCatchesUp(c)'
    OBVIOUS
  <2>1. \A k \in Call : call'[k].by = call[k].by /\ call'[k].kind = call[k].kind
    BY <1>g
  <2>2. OneCall(c)'
    BY <1>b, <1>g, <2>1 DEF OneCall, First
  <2>3. ASSUME NEW k \in Call, First(c), call[k].by = c, call'[k].wrote > 0
        PROVE  /\ tab[c].text \notin call'[k].wrote..MaxWrites
               /\ tab[c].content \notin call'[k].wrote..MaxWrites
    <3>1. CASE call'[k].wrote = call[k].wrote
      BY <1>b, <2>3, <3>1 DEF TabCatchesUp
    <3>2. CASE call'[k].wrote = writes + 1
      <4>1. /\ tab[c].text \in 0..writes \cup {Nothing, Typed}
            /\ tab[c].content \in 0..writes \cup {Nothing}
        BY <1>a DEF TabsAt
      <4> QED
        BY <1>d, <3>2, <4>1, MarksAreApart
    <3> QED
      BY <1>g, <3>1, <3>2
  <2>4. ASSUME NEW k \in Call, First(c), owed[c] > 0, call[k].by = c, call[k].kind = "read"
        PROVE  \/ call'[k].at = "sent"
               \/ call'[k].at = "answered" /\ call'[k].got >= owed[c]
               \/ reload[c] /\ ~tab[c].dirty
    <3>1. CASE call'[k] = call[k]
      BY <1>b, <2>4, <3>1 DEF TabCatchesUp
    <3>2. CASE call'[k].at = "answered" /\ call'[k].got >= writes
      <4>1. PICK g \in 0..n \cup {Nothing, Error} : g = call'[k].got
        BY <1>g DEF CallsAt
      <4>2. owed[c] \in 0..writes /\ g \in Nat
        BY <1>a, <4>1, MarksAreApart
      <4> QED
        BY <1>d, <3>2, <4>1, <4>2
    <3> QED
      BY <1>g, <2>4, <3>1, <3>2
  <2>5. TabCatchesUp(c)'
    BY <1>b, <1>g, <2>1, <2>3, <2>4 DEF TabCatchesUp, First
  <2> QED
    BY <2>2, <2>5
\* The lock keeps the saves apart.
<1>L. ASSUME NEW k \in Call, call[k].at \in Locked, Locks
      PROVE  lockedBy = k /\ \A j \in Call : call[j].at \in Locked => j = k
  BY <1>c, <1>L DEF SavesAreSound, CallIsSound
\* A step of the server on one request.
<1>k. ASSUME NEW k \in Call, NEW r \in CallsAt(writes), call' = [call EXCEPT ![k] = r],
             UNCHANGED <<writes, reportVars, tab, reload, opens>>, disk' \in {writes, Absent},
             r.by = call[k].by, r.kind = call[k].kind, r.wrote = call[k].wrote,
             r.expected = call[k].expected,
             r.kind = "read" => r.at = "answered" /\ r.got >= writes,
             saved' \subseteq [expected : Value, wrote : Value], SavesAreSound'
      PROVE  FileInv'
  <2>1. /\ call' \in [Call -> CallsAt(writes)] /\ call'[k] = r
        /\ \A j \in Call : j # k => call'[j] = call[j]
    BY <1>a, <1>k
  <2>2. FileTypes'
    BY <1>a, <1>k, <2>1 DEF FileTypes, reportVars
  <2>3. \A c \in Client : OneCall(c)' /\ TabCatchesUp(c)'
    BY <1>d, <1>g, <1>k, <2>1 DEF reportVars
  <2> QED
    BY <1>k, <2>2, <2>3 DEF FileInv
\* What is on disk, as an answer tells it.
<1>D. /\ (IF disk = Absent THEN Error ELSE disk) \in 0..writes \cup {Error}
      /\ (IF disk = Absent THEN Error ELSE disk) >= writes
      /\ (IF disk = Absent THEN Error ELSE disk) # Nothing
  BY <1>a, <1>d, MarksAreApart
\* A request is answered, and its lock is free.
<1>A. ASSUME NEW k \in Call, NEW g \in 0..writes \cup {Error}, Answers(k, g), g # Nothing,
             g >= writes, Unlock(k) \/ UNCHANGED lockedBy,
             UNCHANGED <<disk, writes, saved, reportVars, tab, reload, opens>>
      PROVE  FileInv'
  <2>0. PICK q \in CallsAt(writes) : q = call[k]
    BY <1>a
  <2>1. PICK r : r = [q EXCEPT !.at = "answered", !.got = g]
    OBVIOUS
  <2>2. /\ r \in CallsAt(writes) /\ r.at = "answered" /\ r.got = g /\ r.by = call[k].by
        /\ r.kind = call[k].kind /\ r.wrote = call[k].wrote /\ r.expected = call[k].expected
    <3>1. g \in 0..writes \cup {Nothing, Error}
      BY <1>A
    <3> QED
      BY <2>0, <2>1, <3>1 DEF CallsAt
  <2>3. call' = [call EXCEPT ![k] = r]
    BY <1>a, <1>A, <2>0, <2>1 DEF Answers
  <2>4. call'[k] = r /\ \A j \in Call : j # k => call'[j] = call[j]
    BY <1>a, <2>2, <2>3
  <2>5. ASSUME NEW j \in Call PROVE CallIsSound(j)'
    <3>1. CASE j = k
      <4>1. r.wrote \in 0..writes /\ (r.wrote > 0 => r.kind = "save")
        BY <1>c, <2>2 DEF SavesAreSound, CallIsSound, CallsAt
      <4> QED
        BY <1>d, <1>A, <2>2, <2>4, <3>1, <4>1, MarksAreApart DEF CallIsSound, Locked
    <3>2. CASE j # k
      <4>1. Locks /\ call[j].at \in Locked => lockedBy' = j
        BY <1>A, <1>L, <3>2 DEF Unlock
      <4> QED
        BY <1>c, <1>A, <2>4, <3>2, <4>1 DEF SavesAreSound, CallIsSound
    <3> QED
      BY <3>1, <3>2
  <2>6. SavesAreSound'
    BY <1>c, <1>A, <2>5 DEF SavesAreSound, Replaced, NoUpdateIsLost
  <2> QED
    BY <1>a, <1>k, <1>A, <2>2, <2>3, <2>6
<1>10. ASSUME NEW k \in Call, ReadFile(k) PROVE FileInv'
  BY <1>10, <1>A, <1>D DEF ReadFile, serverVars
<1>11. ASSUME NEW k \in Call, CallIsDropped(k) PROVE FileInv'
  <2>1. Error >= writes /\ Error # Nothing
    BY <1>d, MarksAreApart
  <2> QED
    BY <1>11, <1>A, <2>1 DEF CallIsDropped
\* A request goes on under its lock.
<1>V. ASSUME NEW k \in Call, NEW a \in {"checks", "writes"}, Advances(k, a),
             UNCHANGED <<disk, writes, saved, reportVars, tab, reload, opens>>,
             call[k].kind = "save", call[k].wrote = 0,
             Locks => lockedBy' = k /\ (lockedBy = Free \/ lockedBy = k), ~Locks => UNCHANGED lockedBy,
             a = "writes" => call[k].expected = writes
      PROVE  FileInv'
  <2>0. PICK q \in CallsAt(writes) : q = call[k]
    BY <1>a
  <2>1. PICK r : r = [q EXCEPT !.at = a]
    OBVIOUS
  <2>2. /\ r \in CallsAt(writes) /\ r.at = a /\ r.got = q.got /\ r.by = q.by
        /\ r.kind = q.kind /\ r.wrote = q.wrote /\ r.expected = q.expected
    BY <2>1 DEF CallsAt
  <2>3. call' = [call EXCEPT ![k] = r]
    BY <1>a, <1>V, <2>0, <2>1 DEF Advances
  <2>4. call'[k] = r /\ \A j \in Call : j # k => call'[j] = call[j]
    BY <1>a, <2>2, <2>3
  <2>5. ASSUME NEW j \in Call PROVE CallIsSound(j)'
    <3>1. CASE j = k
      <4>1. \A s \in saved : s.expected < s.wrote /\ s.wrote <= writes
        BY <1>c DEF SavesAreSound, Replaced
      <4>2. \A s \in saved : s.expected \in Nat /\ s.wrote \in Nat
        BY <1>a, <1>d DEF Value
      <4>3. a = "writes" => \A s \in saved : s.expected # writes
        BY <1>d, <4>1, <4>2
      <4> QED
        BY <1>V, <2>0, <2>2, <2>4, <3>1, <4>3 DEF CallIsSound, Locked
    <3>2. CASE j # k
      <4>1. Locks => call[j].at \notin Locked
        BY <1>c, <1>V, <3>2, FileConstants DEF SavesAreSound, CallIsSound, Free
      <4> QED
        BY <1>c, <1>V, <2>4, <3>2, <4>1 DEF SavesAreSound, CallIsSound, Locked
    <3> QED
      BY <3>1, <3>2
  <2>6. SavesAreSound'
    BY <1>c, <1>V, <2>5 DEF SavesAreSound, Replaced, NoUpdateIsLost
  <2> QED
    BY <1>a, <1>k, <1>V, <2>0, <2>2, <2>3, <2>6
<1>12. ASSUME NEW k \in Call, TakeLock(k) PROVE FileInv'
  <2>1. call[k].wrote = 0
    <3>1. call[k].wrote \in 0..writes
      BY <1>a DEF CallsAt
    <3> QED
      BY <1>c, <1>d, <1>12, <3>1 DEF TakeLock, SavesAreSound, CallIsSound
  <2> QED
    BY <1>12, <1>V, <2>1, FileConstants DEF TakeLock
<1>13. ASSUME NEW k \in Call, CheckExpected(k) PROVE FileInv'
  <2>1. CASE disk = call[k].expected /\ Advances(k, "writes") /\ UNCHANGED lockedBy
    <3>1. call[k].expected \in 0..writes /\ call[k].wrote \in 0..writes
      BY <1>a DEF CallsAt
    <3>2. call[k].expected = writes
      BY <1>a, <1>d, <2>1, <3>1, MarksAreApart
    <3>3. /\ call[k].at \in Locked /\ call[k].kind = "save" /\ call[k].wrote = 0
      BY <1>c, <1>d, <1>13, <3>1 DEF CheckExpected, SavesAreSound, CallIsSound, Locked
    <3>4. Locks => lockedBy = k
      BY <1>L, <3>3
    <3> QED
      BY <1>13, <1>V, <2>1, <3>2, <3>3, <3>4 DEF CheckExpected
  <2>2. CASE Answers(k, IF disk = Absent THEN Error ELSE disk) /\ Unlock(k)
    BY <1>13, <1>A, <1>D, <2>2 DEF CheckExpected
  <2> QED
    BY <1>13, <2>1, <2>2 DEF CheckExpected
<1>p. Puts => /\ writes' = writes + 1 /\ writes' \in Value /\ writes' \in Nat /\ disk' = writes'
              /\ writes' <= MaxWrites
              /\ CallsAt(writes) \subseteq CallsAt(writes') /\ TabsAt(writes) \subseteq TabsAt(writes')
              /\ \A n \in 0..writes : n \in 0..writes'
              /\ \A n \in SUBSET (0..writes) : n \subseteq 0..writes'
  <2> SUFFICES ASSUME Puts
               PROVE  /\ writes' = writes + 1 /\ writes' \in Value /\ writes' \in Nat /\ disk' = writes'
                      /\ writes' <= MaxWrites
                      /\ CallsAt(writes) \subseteq CallsAt(writes')
                      /\ TabsAt(writes) \subseteq TabsAt(writes')
                      /\ \A n \in 0..writes : n \in 0..writes'
                      /\ \A n \in SUBSET (0..writes) : n \subseteq 0..writes'
    OBVIOUS
  <2>1. PICK n \in Nat : n = writes + 1 /\ n <= MaxWrites /\ writes' = n /\ disk' = n
    BY <1>d DEF Puts
  <2>2. CallsAt(writes) \subseteq CallsAt(n) /\ TabsAt(writes) \subseteq TabsAt(n)
    BY <1>d, <2>1, MoreIsHeld
  <2> QED
    BY <1>d, <2>1, <2>2 DEF Value
\* Something is written to the file.
<1>P. ASSUME Puts, UNCHANGED <<saved, tab, reload, opens, owed>>, SavesAreSound',
             unread' \in [Client -> SUBSET (0..writes')],
             call' \in [Call -> CallsAt(writes')],
             \A k \in Call :
               \/ call'[k] = call[k]
               \/ /\ call'[k].by = call[k].by /\ call'[k].kind = call[k].kind
                  /\ call[k].kind = "save" /\ call'[k].wrote = writes + 1
      PROVE  FileInv'
  <2>1. /\ tab' \in [Client -> TabsAt(writes')] /\ owed' \in [Client -> 0..writes']
    BY <1>a, <1>p, <1>P
  <2>2. FileTypes'
    BY <1>a, <1>p, <1>P, <2>1 DEF FileTypes
  <2>3. \A c \in Client : OneCall(c)' /\ TabCatchesUp(c)'
    BY <1>d, <1>g, <1>p, <1>P
  <2> QED
    BY <1>P, <2>2, <2>3 DEF FileInv
<1>14. ASSUME NEW k \in Call, WriteContent(k) PROVE FileInv'
  <2>0. PICK q \in CallsAt(writes) : q = call[k]
    BY <1>a
  <2>1. PICK r : r = [q EXCEPT !.at = "rereads", !.wrote = writes + 1]
    OBVIOUS
  <2>2. /\ Puts /\ q.at = "writes"
        /\ UNCHANGED <<late, lockedBy, saved, reportVars, tab, reload, opens>>
    BY <1>14, <2>0 DEF WriteContent
  <2>3. r \in CallsAt(writes')
    <3>1. PICK n \in Nat : n = writes + 1 /\ n = writes'
      BY <1>p, <2>2
    <3>2. q \in CallsAt(n) /\ n \in 0..n
      BY <1>p, <2>2, <3>1
    <3>3. r = [q EXCEPT !.at = "rereads", !.wrote = n]
      BY <2>1, <3>1
    <3> QED
      BY <3>1, <3>2, <3>3 DEF CallsAt
  <2>4. /\ r.at = "rereads" /\ r.by = q.by /\ r.kind = q.kind /\ r.wrote = writes + 1
        /\ r.expected = q.expected
    BY <2>1 DEF CallsAt
  <2>5. call' = [call EXCEPT ![k] = r]
    BY <1>a, <1>14, <2>0, <2>1 DEF WriteContent
  <2>6. /\ call' \in [Call -> CallsAt(writes')] /\ call'[k] = r
        /\ \A j \in Call : j # k => call'[j] = call[j]
    BY <1>a, <1>p, <2>2, <2>3, <2>5
  <2>7. /\ q.kind = "save" /\ q.expected \in 0..writes
        /\ Locks => \A s \in saved : s.expected # q.expected
        /\ (Locks => lockedBy = k)
    BY <1>c, <2>0, <2>2 DEF SavesAreSound, CallIsSound, Locked, CallsAt
  <2>8. ASSUME NEW j \in Call PROVE CallIsSound(j)'
    <3>1. CASE j = k
      BY <1>d, <2>2, <2>4, <2>6, <2>7, <3>1 DEF CallIsSound, Locked
    <3>2. CASE j # k
      BY <1>c, <2>2, <2>6, <3>2 DEF SavesAreSound, CallIsSound
    <3> QED
      BY <3>1, <3>2
  <2>9. Replaced'
    <3>1. \A s \in saved : s.expected < s.wrote /\ s.wrote <= writes /\ s.wrote \in Nat
      BY <1>a, <1>c, <1>d DEF SavesAreSound, Replaced, Value
    <3> QED
      BY <1>d, <1>p, <2>2, <3>1 DEF Replaced
  <2>10. SavesAreSound'
    BY <1>c, <2>2, <2>8, <2>9 DEF SavesAreSound, NoUpdateIsLost
  <2>11. unread' \in [Client -> SUBSET (0..writes')]
    BY <1>a, <1>p, <2>2 DEF reportVars
  <2> QED
    BY <1>P, <2>0, <2>2, <2>4, <2>6, <2>7, <2>10, <2>11 DEF reportVars
<1>15. ASSUME NEW k \in Call, RereadContent(k) PROVE FileInv'
  <2>0. PICK q \in CallsAt(writes) : q = call[k]
    BY <1>a
  <2>1. PICK g : g = IF disk = Absent THEN Error ELSE disk
    OBVIOUS
  <2>2. g \in 0..writes \cup {Error} /\ g >= writes /\ g # Nothing
    BY <1>D, <2>1
  <2>3. PICK r : r = [q EXCEPT !.at = "answered", !.got = g]
    OBVIOUS
  <2>4. /\ r \in CallsAt(writes) /\ r.at = "answered" /\ r.got = g /\ r.by = q.by
        /\ r.kind = q.kind /\ r.wrote = q.wrote /\ r.expected = q.expected
    <3>1. g \in 0..writes \cup {Nothing, Error}
      BY <2>2
    <3> QED
      BY <2>3, <3>1 DEF CallsAt
  <2>5. /\ call' = [call EXCEPT ![k] = r] /\ q.at = "rereads" /\ Unlock(k)
        /\ saved' = IF disk = Absent THEN saved
                    ELSE saved \cup {[expected |-> q.expected, wrote |-> q.wrote]}
        /\ UNCHANGED <<disk, writes, late, reportVars, tab, reload, opens, calls>>
    BY <1>a, <1>15, <2>0, <2>1, <2>3 DEF RereadContent, Answers
  <2>6. call'[k] = r /\ \A j \in Call : j # k => call'[j] = call[j]
    BY <1>a, <2>4, <2>5
  <2>7. /\ q.kind = "save" /\ q.expected < q.wrote /\ q.wrote \in 0..writes /\ q.expected \in 0..writes
        /\ q.at \in Locked
        /\ Locks => \A s \in saved : s.expected # q.expected
    BY <1>c, <2>0, <2>5 DEF SavesAreSound, CallIsSound, CallsAt, Locked
  <2>8. ASSUME NEW j \in Call PROVE CallIsSound(j)'
    <3>1. CASE j = k
      BY <1>d, <2>2, <2>4, <2>6, <2>7, <3>1, MarksAreApart DEF CallIsSound, Locked
    <3>2. CASE j # k
      <4>1. Locks => call[j].at \notin Locked
        BY <1>L, <2>0, <2>7, <3>2
      <4> QED
        BY <1>c, <2>5, <2>6, <3>2, <4>1 DEF SavesAreSound, CallIsSound, Locked, Unlock
    <3> QED
      BY <3>1, <3>2
  <2>9. PICK e : e = [expected |-> q.expected, wrote |-> q.wrote]
    OBVIOUS
  <2>10. /\ e \in [expected : Value, wrote : Value] /\ e.expected = q.expected /\ e.wrote = q.wrote
         /\ saved' \subseteq saved \cup {e}
    BY <1>d, <2>5, <2>7, <2>9 DEF Value
  <2>11. saved' \subseteq [expected : Value, wrote : Value]
    BY <1>a, <2>10
  <2>12. Replaced' /\ (Locks => NoUpdateIsLost')
    <3>1. Replaced'
      BY <1>c, <1>d, <2>5, <2>7, <2>10 DEF SavesAreSound, Replaced
    <3>2. Locks => NoUpdateIsLost'
      BY <1>c, <2>7, <2>10 DEF SavesAreSound, NoUpdateIsLost
    <3> QED
      BY <3>1, <3>2
  <2>13. SavesAreSound'
    BY <2>8, <2>12 DEF SavesAreSound
  <2> QED
    BY <1>a, <1>k, <2>0, <2>4, <2>5, <2>7, <2>11, <2>13
<1>16. ASSUME LateWrite \/ AgentWrites \/ UploadWrites PROVE FileInv'
  <2>1. Puts /\ UNCHANGED <<lockedBy, saved, owed, call, tab, reload, opens, calls>>
    BY <1>16 DEF LateWrite, AgentWrites, UploadWrites, reportVars
  <2>2. SavesAreSound'
    <3>1. \A s \in saved : s.expected < s.wrote /\ s.wrote <= writes /\ s.wrote \in Nat
      BY <1>a, <1>c, <1>d DEF SavesAreSound, Replaced, Value
    <3>2. Replaced'
      BY <1>d, <1>p, <2>1, <3>1 DEF Replaced
    <3> QED
      BY <1>c, <2>1, <3>2 DEF SavesAreSound, CallIsSound, NoUpdateIsLost
  <2>3. unread' \in [Client -> SUBSET (0..writes')]
    <3>1. CASE UNCHANGED unread
      BY <1>a, <1>p, <2>1, <3>1
    <3>2. CASE unread' = [c \in Client |-> unread[c] \cup {writes + 1}]
      <4>1. writes + 1 \in 0..writes'
        BY <1>p, <2>1
      <4> QED
        BY <1>a, <1>p, <2>1, <3>2, <4>1
    <3> QED
      BY <1>16, <3>1, <3>2 DEF LateWrite, AgentWrites, UploadWrites, reportVars
  <2>4. call' \in [Call -> CallsAt(writes')]
    BY <1>a, <1>p, <2>1
  <2> QED
    BY <1>P, <2>1, <2>2, <2>3, <2>4
<1>n. ASSUME disk' \in {writes, Absent},
             UNCHANGED <<writes, lockedBy, saved, unread, owed, call, tab, reload, opens>>
      PROVE  FileInv'
  BY <1>a, <1>b, <1>c, <1>n
  DEF FileInv, FileTypes, SavesAreSound, Replaced, NoUpdateIsLost, CallIsSound,
     OneCall, TabCatchesUp, First
<1>17. ASSUME DeleteFile PROVE FileInv'
  BY <1>17, <1>n DEF DeleteFile, reportVars
<1>18. ASSUME UNCHANGED fileVars PROVE FileInv'
  BY <1>18, <1>a, <1>n DEF fileVars
<1> QED
  BY <1>1, <1>2, <1>3, <1>4, <1>5, <1>6, <1>7, <1>8, <1>9, <1>10, <1>11, <1>12, <1>13, <1>14, <1>15,
     <1>16, <1>17, <1>18 DEF FileNext

\* Saves replace what they were made over, and the first tab catches up.
LEMMA FilesAreAgreed == FileInv => (Locks => NoUpdateIsLost) /\ FirstTabIsCurrent
<1> SUFFICES ASSUME FileInv PROVE (Locks => NoUpdateIsLost) /\ FirstTabIsCurrent
  OBVIOUS
<1>1. Locks => NoUpdateIsLost
  BY DEF FileInv, SavesAreSound
<1>2. ASSUME NEW c \in Client, opens[c] <= 1 PROVE Shows(c, owed[c])
  <2>1. SUFFICES ASSUME tab[c].open, ~tab[c].dirty, ~tab[c].failed, tab[c].content # Nothing,
                        Unasked(c)
                 PROVE  tab[c].content >= owed[c]
    BY DEF Shows
  <2>2. writes \in Nat /\ owed[c] \in 0..writes /\ tab[c].content \in 0..writes
    BY <2>1, MarksAreApart DEF FileInv, FileTypes, TabsAt, Value
  <2>3. \A k \in Call : call[k].by # c
    BY <2>1, FileConstants DEF Unasked, Spare
  <2>4. owed[c] > 0 => tab[c].content >= owed[c]
    BY <1>2, <2>1, <2>3 DEF FileInv, TabCatchesUp, First
  <2> QED
    BY <2>2, <2>4
<1> QED
  BY <1>1, <1>2 DEF FirstTabIsCurrent

-----------------------------------------------------------------------------
(* Turns over ACP *)

\* Where a turn has nothing on the way: no request of its is at the agent.
Quiet == {"connects", "opens", "stores", "configures"} \cup Staging

\* No message on the way to a turn is of this origin.
Unsaid(t, what) == \A i \in 1..Len(inbox[t]) : inbox[t][i].of # what

\* A replay is over when its answer has been read, which is its last message.
ReplayIsFirst(t) ==
  /\ acp[t] = "connects" /\ session[t].stored = "old" => replaying[t]
  /\ acp[t] \in Quiet => inbox[t] = <<>> /\ agent[t] \in {"idle", "dead"}
  /\ acp[t] = "loads" =>
       /\ replaying[t] /\ agent[t] \in {"loads", "idle", "dead"}
       /\ agent[t] = "loads" => Unsaid(t, "reply")
       /\ \A i \in 1..Len(inbox[t]) : inbox[t][i].of = "reply" => i = Len(inbox[t])
  /\ acp[t] \in {"prompts", "asks"} =>
       agent[t] \in {"prompts", "idle", "dead"} /\ Unsaid(t, "history")

\* What a turn has staged is where it says.
StagesOwn(t) ==
  /\ acp[t] \in {"connects", "loads", "opens", "stores", "configures",
                 "makes", "probes", "unprobes", "creates"} => staged[t].at = "none"
  /\ acp[t] = "writes" => staged[t].at \in {"inside", "fallback"}
  /\ acp[t] \in {"writes", "prompts", "asks"} /\ staged[t].at = "inside" =>
       [kind |-> "dir", of |-> t] \in attachDir.entries
  /\ acp[t] \in {"prompts", "asks"} /\ staged[t].at # "none" => staged[t].files

\* Where a turn may have staged files, and whether they are there.
Stagings == [at : {"none", "inside", "fallback", "gone"}, files : BOOLEAN]

\* The types, and what every turn keeps for itself.
AcpInv ==
  /\ acp \in [Turn -> Phase \cup Staging \cup {"prompts", "asks", "drops", "sweeps"} \cup TurnEnd]
  /\ session \in [Turn -> [stored : {"none", "old", "new"}, live : {"none", "old", "new"}]]
  /\ replaying \in [Turn -> BOOLEAN]
  /\ agent \in [Turn -> {"idle", "loads", "prompts", "dead"}]
  /\ inbox \in [Turn -> Seq(Message)]
  /\ shown \in [Turn -> SUBSET (Origin \X {"update", "request"})]
  /\ attachDir \in [there : BOOLEAN, entries : SUBSET Entry]
  /\ staged \in [Turn -> Stagings]
  /\ \A t \in Turn : ReplayIsFirst(t)
  /\ \A t \in Turn : StagesOwn(t)
  /\ HistoryStaysHistory

\* No turn has begun and no file is staged at first.
LEMMA AcpInvInit == AcpInit => AcpInv
<1> SUFFICES ASSUME AcpInit PROVE AcpInv
  OBVIOUS
<1> USE DEF AcpInit
<1>1. \A t \in Turn : /\ acp[t] = "connects" /\ inbox[t] = <<>> /\ agent[t] = "idle"
                      /\ staged[t].at = "none" /\ shown[t] = {}
                      /\ (session[t].stored = "old" => replaying[t])
  OBVIOUS
<1>2. \A t \in Turn : ReplayIsFirst(t) /\ StagesOwn(t)
  BY <1>1 DEF ReplayIsFirst, StagesOwn, Quiet
<1>3. inbox \in [Turn -> Seq(Message)]
  OBVIOUS
<1>4. attachDir \in [there : BOOLEAN, entries : SUBSET Entry] /\ staged \in [Turn -> Stagings]
  BY DEF Stagings
<1>5. /\ acp \in [Turn -> Phase \cup Staging \cup {"prompts", "asks", "drops", "sweeps"} \cup TurnEnd]
      /\ session \in [Turn -> [stored : {"none", "old", "new"}, live : {"none", "old", "new"}]]
      /\ replaying \in [Turn -> BOOLEAN]
      /\ agent \in [Turn -> {"idle", "loads", "prompts", "dead"}]
      /\ shown \in [Turn -> SUBSET (Origin \X {"update", "request"})]
  BY DEF Phase
<1>6. HistoryStaysHistory
  BY <1>1 DEF HistoryStaysHistory
<1> QED
  BY <1>2, <1>3, <1>4, <1>5, <1>6 DEF AcpInv

\* What is left when the first message has been read, and what is there when one
\* more has been sent.
LEMMA TailOfMessages ==
  ASSUME NEW q \in Seq(Message), q # <<>>
  PROVE  /\ Head(q) = q[1] /\ Head(q) \in Message /\ 1 \in 1..Len(q)
         /\ Tail(q) \in Seq(Message)
         /\ Len(q) = 1 => Tail(q) = <<>>
         /\ \A i \in 1..Len(Tail(q)) :
              i + 1 \in 1..Len(q) /\ Tail(q)[i] = q[i + 1] /\ (i + 1 = Len(q) => i = Len(Tail(q)))
<1>1. /\ Head(q) \in Message /\ Tail(q) \in Seq(Message) /\ Len(Tail(q)) = Len(q) - 1
      /\ \A i \in 1..Len(Tail(q)) : Tail(q)[i] = q[i + 1]
  BY HeadTailProperties
<1>2. Len(q) \in Nat \ {0}
  BY EmptySeq
<1>3. Head(q) = q[1] /\ 1 \in 1..Len(q)
  BY <1>2
<1>4. Len(q) = 1 => Tail(q) = <<>>
  <2>1. Tail(q) # <<>> => Len(Tail(q)) \in Nat \ {0}
    BY <1>1, EmptySeq
  <2> QED
    BY <1>1, <2>1
<1>5. ASSUME NEW i \in 1..Len(Tail(q))
      PROVE  /\ i + 1 \in 1..Len(q) /\ Tail(q)[i] = q[i + 1]
             /\ i + 1 = Len(q) => i = Len(Tail(q))
  <2>1. i \in Nat \ {0} /\ i <= Len(q) - 1
    BY <1>1, <1>2
  <2>2. Tail(q)[i] = q[i + 1]
    BY <1>1
  <2>3. i + 1 \in 1..Len(q) /\ (i + 1 = Len(q) => i = Len(Tail(q)))
    <3>1. PICK n \in Nat \ {0} : n = Len(q)
      BY <1>2
    <3>2. Len(Tail(q)) = n - 1
      BY <1>1, <3>1
    <3>3. i + 1 \in 1..n /\ (i + 1 = n => i = n - 1)
      BY <2>1, <3>1
    <3> QED
      BY <3>1, <3>2, <3>3
  <2> QED
    BY <2>2, <2>3
<1> QED
  BY <1>1, <1>3, <1>4, <1>5

\* A message that is sent comes last.
LEMMA OneMoreMessage ==
  ASSUME NEW q \in Seq(Message), NEW m \in Message
  PROVE  /\ Append(q, m) \in Seq(Message) /\ Len(Append(q, m)) = Len(q) + 1
         /\ \A i \in 1..Len(Append(q, m)) :
              \/ i \in 1..Len(q) /\ Append(q, m)[i] = q[i]
              \/ i = Len(Append(q, m)) /\ Append(q, m)[i] = m
<1>1. /\ Append(q, m) \in Seq(Message) /\ Len(Append(q, m)) = Len(q) + 1
      /\ \A i \in 1..Len(q) : Append(q, m)[i] = q[i]
      /\ Append(q, m)[Len(q) + 1] = m
  BY AppendProperties
<1>2. Len(q) \in Nat
  BY LenProperties
<1> QED
  BY <1>1, <1>2

\* What an agent replays is read while its turn is still loading, and the files
\* of a turn are removed by itself only.
LEMMA AcpInvStep == AcpInv /\ [AcpNext]_acpVars => AcpInv'
<1> SUFFICES ASSUME AcpInv, [AcpNext]_acpVars
             PROVE  AcpInv'
  OBVIOUS
<1> DEFINE Places == Phase \cup Staging \cup {"prompts", "asks", "drops", "sweeps"} \cup TurnEnd
           Sessions == [stored : {"none", "old", "new"}, live : {"none", "old", "new"}]
           Dirs == [there : BOOLEAN, entries : SUBSET Entry]
<1>a. /\ acp \in [Turn -> Places] /\ session \in [Turn -> Sessions]
      /\ replaying \in [Turn -> BOOLEAN]
      /\ agent \in [Turn -> {"idle", "loads", "prompts", "dead"}]
      /\ inbox \in [Turn -> Seq(Message)]
      /\ shown \in [Turn -> SUBSET (Origin \X {"update", "request"})]
      /\ attachDir \in Dirs /\ staged \in [Turn -> Stagings]
  BY DEF AcpInv
<1>b. (\A t \in Turn : ReplayIsFirst(t)) /\ (\A t \in Turn : StagesOwn(t)) /\ HistoryStaysHistory
  BY DEF AcpInv
<1>c. /\ acp' \in [Turn -> Places] /\ session' \in [Turn -> Sessions]
      /\ replaying' \in [Turn -> BOOLEAN]
      /\ agent' \in [Turn -> {"idle", "loads", "prompts", "dead"}]
      /\ inbox' \in [Turn -> Seq(Message)]
      /\ shown' \in [Turn -> SUBSET (Origin \X {"update", "request"})]
      /\ attachDir' \in Dirs /\ staged' \in [Turn -> Stagings]
      /\ \A t \in Turn : ReplayIsFirst(t)' /\ StagesOwn(t)'
      /\ HistoryStaysHistory'
      => AcpInv'
  BY DEF AcpInv
<1> HIDE DEF Places, Sessions, Dirs
\* A step of one turn leaves the state of the others alone, but for the
\* directory they share, where it keeps their own.
<1>o. ASSUME NEW t \in Turn,
             \A u \in Turn \ {t} :
               /\ acp'[u] = acp[u] /\ session'[u] = session[u] /\ replaying'[u] = replaying[u]
               /\ agent'[u] = agent[u] /\ inbox'[u] = inbox[u] /\ staged'[u] = staged[u],
             \A u \in Turn \ {t} :
               [kind |-> "dir", of |-> u] \in attachDir.entries =>
                 [kind |-> "dir", of |-> u] \in attachDir'.entries,
             ReplayIsFirst(t)', StagesOwn(t)'
      PROVE  \A u \in Turn : ReplayIsFirst(u)' /\ StagesOwn(u)'
  <2> SUFFICES ASSUME NEW u \in Turn \ {t} PROVE ReplayIsFirst(u)' /\ StagesOwn(u)'
    BY <1>o
  <2> QED
    BY <1>b, <1>o DEF ReplayIsFirst, StagesOwn, Unsaid
\* A turn moves, and nothing else changes.
<1>m. ASSUME NEW t \in Turn, NEW where \in Places, GoesTo(t, where),
             UNCHANGED <<inbox, shown, dirVars>>, session' \in [Turn -> Sessions],
             \A u \in Turn \ {t} : session'[u] = session[u] /\ replaying'[u] = replaying[u]
                                   /\ agent'[u] = agent[u],
             replaying' \in [Turn -> BOOLEAN],
             agent' \in [Turn -> {"idle", "loads", "prompts", "dead"}],
             \/ where \in {"over", "refused", "drops", "sweeps"}
             \/ ReplayIsFirst(t)' /\ StagesOwn(t)'
      PROVE  AcpInv'
  <2>1. /\ acp' \in [Turn -> Places] /\ acp'[t] = where
        /\ \A u \in Turn \ {t} : acp'[u] = acp[u]
    BY <1>a, <1>m DEF GoesTo
  <2>2. ReplayIsFirst(t)' /\ StagesOwn(t)'
    BY <1>m, <2>1 DEF ReplayIsFirst, StagesOwn, Quiet, Staging
  <2>3. \A u \in Turn : ReplayIsFirst(u)' /\ StagesOwn(u)'
    BY <1>m, <1>o, <2>1, <2>2 DEF dirVars
  <2> QED
    BY <1>a, <1>b, <1>c, <1>m, <2>1, <2>3 DEF dirVars, HistoryStaysHistory
<1>l. ASSUME NEW t \in Turn, Leaves(t),
             UNCHANGED <<session, replaying, agent, shown, dirVars>>,
             inbox' \in [Turn -> Seq(Message)], \A u \in Turn \ {t} : inbox'[u] = inbox[u]
      PROVE  AcpInv'
  <2>1. PICK where \in {"drops", "over"} : GoesTo(t, where)
    BY <1>l DEF Leaves
  <2>2. /\ acp' \in [Turn -> Places] /\ acp'[t] = where
        /\ \A u \in Turn \ {t} : acp'[u] = acp[u]
    BY <1>a, <2>1 DEF GoesTo, Places, TurnEnd
  <2>3. ReplayIsFirst(t)' /\ StagesOwn(t)'
    BY <2>2 DEF ReplayIsFirst, StagesOwn, Quiet, Staging
  <2>4. \A u \in Turn : ReplayIsFirst(u)' /\ StagesOwn(u)'
    BY <1>l, <1>o, <2>2, <2>3 DEF dirVars
  <2> QED
    BY <1>a, <1>b, <1>c, <1>l, <2>2, <2>4 DEF dirVars, HistoryStaysHistory
<1>1. ASSUME NEW t \in Turn, AgentConnects(t) PROVE AcpInv'
  <2>1. /\ acp[t] = "connects" /\ UNCHANGED <<session, replaying, inbox, said, shown, halt, dirVars>>
        /\ inbox[t] = <<>> /\ agent[t] \in {"idle", "dead"} /\ staged[t].at = "none"
        /\ (session[t].stored = "old" => replaying[t])
    BY <1>1, <1>b DEF AgentConnects, ReplayIsFirst, StagesOwn, Quiet
  <2>2. CASE session[t].stored = "old" /\ GoesTo(t, "loads") /\ SetsAgent(t, "loads")
    <3>1. acp'[t] = "loads" /\ "loads" \in Places /\ agent' = [agent EXCEPT ![t] = "loads"]
      BY <1>a, <2>2 DEF GoesTo, SetsAgent, Places, Phase
    <3>2. ReplayIsFirst(t)' /\ StagesOwn(t)'
      BY <1>a, <2>1, <2>2, <3>1 DEF ReplayIsFirst, StagesOwn, Quiet, Staging, Unsaid, dirVars
    <3> QED
      BY <1>a, <1>m, <2>1, <2>2, <3>1, <3>2
  <2>3. CASE GoesTo(t, "opens") /\ UNCHANGED agent
    <3>1. acp'[t] = "opens" /\ "opens" \in Places
      BY <1>a, <2>3 DEF GoesTo, Places, Phase
    <3>2. ReplayIsFirst(t)' /\ StagesOwn(t)'
      BY <1>a, <2>1, <2>3, <3>1 DEF ReplayIsFirst, StagesOwn, dirVars
    <3> QED
      BY <1>a, <1>m, <2>1, <2>3, <3>1, <3>2
  <2> QED
    BY <1>1, <2>2, <2>3 DEF AgentConnects
<1>2. ASSUME NEW t \in Turn, SessionIsLoaded(t) PROVE AcpInv'
  <2>1. /\ acp[t] = "loads" /\ inbox[t] # <<>> /\ Head(inbox[t]).of = "reply"
        /\ UNCHANGED <<replaying, agent, shown, halt, dirVars>>
        /\ inbox' = [inbox EXCEPT ![t] = Tail(@)]
    BY <1>2 DEF SessionIsLoaded
  <2>2. inbox[t] \in Seq(Message)
    BY <1>a
  <2>3. Len(inbox[t]) = 1
    <3>1. \A i \in 1..Len(inbox[t]) : inbox[t][i].of = "reply" => i = Len(inbox[t])
      BY <1>b, <2>1 DEF ReplayIsFirst
    <3>2. Head(inbox[t]) = inbox[t][1] /\ 1 \in 1..Len(inbox[t])
      BY <2>1, <2>2
    <3> QED
      BY <2>1, <3>1, <3>2
  <2>4. inbox' \in [Turn -> Seq(Message)] /\ inbox'[t] = <<>>
        /\ \A u \in Turn \ {t} : inbox'[u] = inbox[u]
    <3>1. Tail(inbox[t]) = <<>> /\ Tail(inbox[t]) \in Seq(Message)
      BY <2>1, <2>2, <2>3, TailOfMessages
    <3> QED
      BY <1>a, <2>1, <3>1
  <2>5. agent[t] \in {"idle", "dead"} /\ staged[t].at = "none"
    <3>1. agent[t] = "loads" => Unsaid(t, "reply")
      BY <1>b, <2>1 DEF ReplayIsFirst
    <3>2. Head(inbox[t]) = inbox[t][1] /\ 1 \in 1..Len(inbox[t])
      BY <2>1, <2>2
    <3>3. agent[t] # "loads"
      BY <2>1, <3>1, <3>2 DEF Unsaid
    <3> QED
      BY <1>b, <2>1, <3>3 DEF ReplayIsFirst, StagesOwn
  <2>6. /\ \/ GoesTo(t, "stores") /\ session' = [session EXCEPT ![t].live = "old"]
           \/ GoesTo(t, "opens") /\ UNCHANGED session
    BY <1>2 DEF SessionIsLoaded
  <2>7. session' \in [Turn -> Sessions] /\ \A u \in Turn \ {t} : session'[u] = session[u]
    <3>1. PICK q \in Sessions : q = session[t]
      BY <1>a
    <3>2. [q EXCEPT !.live = "old"] \in Sessions
      BY DEF Sessions
    <3> QED
      BY <1>a, <2>6, <3>1, <3>2
  <2>8. /\ acp' \in [Turn -> Places] /\ acp'[t] \in {"stores", "opens"}
        /\ \A u \in Turn \ {t} : acp'[u] = acp[u]
    BY <1>a, <2>6 DEF GoesTo, Places, Phase
  <2>9. ReplayIsFirst(t)' /\ StagesOwn(t)'
    BY <2>1, <2>4, <2>5, <2>8 DEF ReplayIsFirst, StagesOwn, dirVars
  <2>10. \A u \in Turn : ReplayIsFirst(u)' /\ StagesOwn(u)'
    BY <1>o, <2>1, <2>4, <2>7, <2>8, <2>9 DEF dirVars
  <2> QED
    BY <1>a, <1>b, <1>c, <2>1, <2>4, <2>7, <2>8, <2>10 DEF dirVars, HistoryStaysHistory
<1>3. ASSUME NEW t \in Turn, SessionIsOpened(t) PROVE AcpInv'
  <2>1. /\ acp[t] = "opens" /\ GoesTo(t, "stores") /\ session' = [session EXCEPT ![t].live = "new"]
        /\ UNCHANGED <<replaying, agentVars, shown, halt, dirVars>>
    BY <1>3 DEF SessionIsOpened
  <2>2. session' \in [Turn -> Sessions] /\ \A u \in Turn \ {t} : session'[u] = session[u]
    <3>1. PICK q \in Sessions : q = session[t]
      BY <1>a
    <3>2. [q EXCEPT !.live = "new"] \in Sessions
      BY DEF Sessions
    <3> QED
      BY <1>a, <2>1, <3>1, <3>2
  <2>3. acp'[t] = "stores" /\ "stores" \in Places
    BY <1>a, <2>1 DEF GoesTo, Places, Phase
  <2>4. ReplayIsFirst(t)' /\ StagesOwn(t)'
    BY <1>b, <2>1, <2>3 DEF ReplayIsFirst, StagesOwn, Quiet, dirVars, agentVars
  <2> QED
    BY <1>a, <1>m, <2>1, <2>2, <2>3, <2>4 DEF agentVars
<1>4. ASSUME NEW t \in Turn, SessionIsStored(t) PROVE AcpInv'
  <2>1. /\ acp[t] = "stores" /\ GoesTo(t, "configures")
        /\ session' = [session EXCEPT ![t].stored = session[t].live]
        /\ UNCHANGED <<replaying, agentVars, shown, halt, dirVars>>
    BY <1>4 DEF SessionIsStored
  <2>2. session' \in [Turn -> Sessions] /\ \A u \in Turn \ {t} : session'[u] = session[u]
    <3>1. PICK q \in Sessions : q = session[t]
      BY <1>a
    <3>2. [q EXCEPT !.stored = q.live] \in Sessions
      BY DEF Sessions
    <3> QED
      BY <1>a, <2>1, <3>1, <3>2
  <2>3. acp'[t] = "configures" /\ "configures" \in Places
    BY <1>a, <2>1 DEF GoesTo, Places, Phase
  <2>4. ReplayIsFirst(t)' /\ StagesOwn(t)'
    BY <1>b, <2>1, <2>3 DEF ReplayIsFirst, StagesOwn, Quiet, dirVars, agentVars
  <2> QED
    BY <1>a, <1>m, <2>1, <2>2, <2>3, <2>4 DEF agentVars
<1>5. ASSUME NEW t \in Turn, SessionIsConfigured(t) PROVE AcpInv'
  <2>1. /\ acp[t] = "configures" /\ UNCHANGED <<session, inbox, said, shown, halt, dirVars>>
        /\ inbox[t] = <<>> /\ agent[t] \in {"idle", "dead"} /\ staged[t].at = "none"
    BY <1>5, <1>b DEF SessionIsConfigured, ReplayIsFirst, StagesOwn, Quiet
  <2>2. PICK next \in {"makes", "prompts", "over"} :
          /\ GoesTo(t, next)
          /\ IF next = "prompts"
             THEN replaying' = [replaying EXCEPT ![t] = FALSE] /\ SetsAgent(t, "prompts")
             ELSE UNCHANGED <<replaying, agent>>
    BY <1>5 DEF SessionIsConfigured
  <2>3. acp'[t] = next /\ next \in Places
    BY <1>a, <2>2 DEF GoesTo, Places, Staging, TurnEnd
  <2>4. /\ replaying' \in [Turn -> BOOLEAN] /\ \A u \in Turn \ {t} : replaying'[u] = replaying[u]
        /\ agent' \in [Turn -> {"idle", "loads", "prompts", "dead"}]
        /\ \A u \in Turn \ {t} : agent'[u] = agent[u]
        /\ next = "prompts" => agent'[t] = "prompts"
        /\ next # "prompts" => agent'[t] = agent[t]
    BY <1>a, <2>2 DEF SetsAgent
  <2>5. ReplayIsFirst(t)' /\ StagesOwn(t)'
    BY <2>1, <2>3, <2>4 DEF ReplayIsFirst, StagesOwn, Quiet, Staging, Unsaid, dirVars
  <2> QED
    BY <1>a, <1>m, <2>1, <2>2, <2>3, <2>4, <2>5
<1>d. \A u \in Turn : /\ [kind |-> "dir", of |-> u] \in Entry /\ [kind |-> "probe", of |-> u] \in Entry
                      /\ \A v \in Turn : [kind |-> "dir", of |-> u] # [kind |-> "probe", of |-> v]
                      /\ \A v \in Turn \ {u} : [kind |-> "dir", of |-> u] # [kind |-> "dir", of |-> v]
  BY DEF Entry
<1>e. attachDir.entries \subseteq Entry /\ attachDir.there \in BOOLEAN
  BY <1>a DEF Dirs
\* What is put into the directory, and what is taken out.
<1>A. ASSUME NEW k \in {"probe", "dir"}, NEW t \in Turn
      PROVE  /\ Adds(k, t) => /\ attachDir' \in Dirs
                              /\ attachDir'.entries = attachDir.entries \cup {[kind |-> k, of |-> t]}
             /\ Removes(k, t) => /\ attachDir' \in Dirs
                                 /\ attachDir'.entries = attachDir.entries \ {[kind |-> k, of |-> t]}
  <2>1. PICK r \in Dirs : r = attachDir
    BY <1>a
  <2>2. [r EXCEPT !.entries = @ \cup {[kind |-> k, of |-> t]}] \in Dirs
        /\ [r EXCEPT !.entries = @ \cup {[kind |-> k, of |-> t]}].entries
             = r.entries \cup {[kind |-> k, of |-> t]}
    BY <1>d DEF Dirs, Entry
  <2>3. [r EXCEPT !.entries = @ \ {[kind |-> k, of |-> t]}] \in Dirs
        /\ [r EXCEPT !.entries = @ \ {[kind |-> k, of |-> t]}].entries
             = r.entries \ {[kind |-> k, of |-> t]}
    BY DEF Dirs
  <2> QED
    BY <2>1, <2>2, <2>3 DEF Adds, Removes
\* A step of the staging: the turn moves, its own entries change.
<1>g. ASSUME NEW t \in Turn, NEW where \in Places, GoesTo(t, where),
             UNCHANGED <<session, inbox, shown>>, attachDir' \in Dirs,
             \A u \in Turn \ {t} :
               [kind |-> "dir", of |-> u] \in attachDir.entries =>
                 [kind |-> "dir", of |-> u] \in attachDir'.entries,
             staged' \in [Turn -> Stagings], \A u \in Turn \ {t} : staged'[u] = staged[u],
             \A u \in Turn \ {t} : replaying'[u] = replaying[u] /\ agent'[u] = agent[u],
             replaying' \in [Turn -> BOOLEAN],
             agent' \in [Turn -> {"idle", "loads", "prompts", "dead"}],
             \/ where \in {"over", "refused", "drops", "sweeps"}
             \/ ReplayIsFirst(t)' /\ StagesOwn(t)'
      PROVE  AcpInv'
  <2>1. /\ acp' \in [Turn -> Places] /\ acp'[t] = where
        /\ \A u \in Turn \ {t} : acp'[u] = acp[u]
    BY <1>a, <1>g DEF GoesTo
  <2>2. ReplayIsFirst(t)' /\ StagesOwn(t)'
    BY <1>g, <2>1 DEF ReplayIsFirst, StagesOwn, Quiet, Staging
  <2>3. \A u \in Turn : ReplayIsFirst(u)' /\ StagesOwn(u)'
    BY <1>g, <1>o, <2>1, <2>2
  <2> QED
    BY <1>a, <1>b, <1>c, <1>g, <2>1, <2>3 DEF HistoryStaysHistory
<1>S. \A t \in Turn : acp[t] \in Staging =>
        inbox[t] = <<>> /\ agent[t] \in {"idle", "dead"}
        /\ (acp[t] # "writes" => staged[t].at = "none")
  BY <1>b DEF ReplayIsFirst, StagesOwn, Quiet, Staging
<1>6. ASSUME NEW t \in Turn, MakeAttachDir(t) PROVE AcpInv'
  <2>1. /\ acp[t] = "makes" /\ GoesTo(t, "probes") /\ acp[t] \in Staging
        /\ UNCHANGED <<session, replaying, agentVars, shown, halt, staged>>
        /\ attachDir' = [attachDir EXCEPT !.there = TRUE]
    BY <1>6 DEF MakeAttachDir, Staging
  <2>2. attachDir' \in Dirs /\ attachDir'.entries = attachDir.entries
    BY <1>a, <2>1 DEF Dirs
  <2>3. acp'[t] = "probes" /\ "probes" \in Places /\ "probes" \in Staging
    BY <1>a, <2>1 DEF GoesTo, Places, Staging
  <2>4. ReplayIsFirst(t)' /\ StagesOwn(t)'
    BY <1>S, <2>1, <2>3 DEF ReplayIsFirst, StagesOwn, agentVars
  <2> QED
    BY <1>a, <1>g, <2>1, <2>2, <2>3, <2>4 DEF agentVars
<1>7. ASSUME NEW t \in Turn, WriteProbe(t) PROVE AcpInv'
  <2>1. /\ acp[t] = "probes" /\ acp[t] \in Staging
        /\ UNCHANGED <<session, replaying, agentVars, shown, halt>>
    BY <1>7 DEF WriteProbe, Staging
  <2>2. CASE Adds("probe", t) /\ GoesTo(t, "unprobes") /\ UNCHANGED staged
    <3>1. /\ attachDir' \in Dirs
          /\ attachDir'.entries = attachDir.entries \cup {[kind |-> "probe", of |-> t]}
      BY <1>A, <2>2
    <3>2. acp'[t] = "unprobes" /\ "unprobes" \in Places /\ "unprobes" \in Staging
      BY <1>a, <2>2 DEF GoesTo, Places, Staging
    <3>3. ReplayIsFirst(t)' /\ StagesOwn(t)'
      BY <1>S, <2>1, <2>2, <3>2 DEF ReplayIsFirst, StagesOwn, agentVars
    <3> QED
      BY <1>a, <1>g, <2>1, <2>2, <3>1, <3>2, <3>3 DEF agentVars
  <2>3. CASE /\ staged' = [staged EXCEPT ![t].at = "fallback"] /\ GoesTo(t, "writes")
             /\ UNCHANGED attachDir
    <3>1. PICK q \in Stagings : q = staged[t]
      BY <1>a
    <3> DEFINE r == [q EXCEPT !.at = "fallback"]
    <3>2. r \in Stagings /\ r.at = "fallback"
      BY DEF Stagings
    <3>3. staged' = [staged EXCEPT ![t] = r]
      BY <1>a, <2>3, <3>1
    <3> HIDE DEF r
    <3>4. acp'[t] = "writes" /\ "writes" \in Places /\ "writes" \in Staging
      BY <1>a, <2>3 DEF GoesTo, Places, Staging
    <3>5. /\ staged' \in [Turn -> Stagings] /\ staged'[t] = r
          /\ \A u \in Turn \ {t} : staged'[u] = staged[u]
      BY <1>a, <3>2, <3>3
    <3>6. ReplayIsFirst(t)' /\ StagesOwn(t)'
      BY <1>S, <2>1, <2>3, <3>2, <3>4, <3>5 DEF ReplayIsFirst, StagesOwn, agentVars
    <3> QED
      BY <1>a, <1>g, <2>1, <2>3, <3>4, <3>5, <3>6 DEF agentVars
  <2> QED
    BY <1>7, <2>2, <2>3 DEF WriteProbe
<1>8. ASSUME NEW t \in Turn, RemoveProbe(t) PROVE AcpInv'
  <2>1. /\ acp[t] = "unprobes" /\ acp[t] \in Staging /\ Removes("probe", t) /\ GoesTo(t, "creates")
        /\ UNCHANGED <<session, replaying, agentVars, shown, halt, staged>>
    BY <1>8 DEF RemoveProbe, Staging
  <2>2. /\ attachDir' \in Dirs
        /\ attachDir'.entries = attachDir.entries \ {[kind |-> "probe", of |-> t]}
    BY <1>A, <2>1
  <2>3. acp'[t] = "creates" /\ "creates" \in Places /\ "creates" \in Staging
    BY <1>a, <2>1 DEF GoesTo, Places, Staging
  <2>4. ReplayIsFirst(t)' /\ StagesOwn(t)'
    BY <1>S, <2>1, <2>3 DEF ReplayIsFirst, StagesOwn, agentVars
  <2>5. \A u \in Turn \ {t} :
           [kind |-> "dir", of |-> u] \in attachDir.entries =>
             [kind |-> "dir", of |-> u] \in attachDir'.entries
    BY <1>d, <2>2
  <2> QED
    BY <1>a, <1>g, <2>1, <2>2, <2>3, <2>4, <2>5 DEF agentVars
<1>9. ASSUME NEW t \in Turn, CreateTurnDir(t) PROVE AcpInv'
  <2>1. /\ acp[t] = "creates" /\ acp[t] \in Staging
        /\ UNCHANGED <<session, replaying, agentVars, shown, halt>>
    BY <1>9 DEF CreateTurnDir, Staging
  <2>2. CASE /\ Adds("dir", t) /\ staged' = [staged EXCEPT ![t].at = "inside"]
             /\ GoesTo(t, "writes")
    <3>1. PICK q \in Stagings : q = staged[t]
      BY <1>a
    <3> DEFINE r == [q EXCEPT !.at = "inside"]
    <3>2. r \in Stagings /\ r.at = "inside"
      BY DEF Stagings
    <3>3. staged' = [staged EXCEPT ![t] = r]
      BY <1>a, <2>2, <3>1
    <3> HIDE DEF r
    <3>4. acp'[t] = "writes" /\ "writes" \in Places /\ "writes" \in Staging
      BY <1>a, <2>2 DEF GoesTo, Places, Staging
    <3>5. /\ staged' \in [Turn -> Stagings] /\ staged'[t] = r
          /\ \A u \in Turn \ {t} : staged'[u] = staged[u]
      BY <1>a, <3>2, <3>3
    <3>6. /\ attachDir' \in Dirs
          /\ attachDir'.entries = attachDir.entries \cup {[kind |-> "dir", of |-> t]}
      BY <1>A, <2>2
    <3>7. ReplayIsFirst(t)' /\ StagesOwn(t)'
      BY <1>S, <2>1, <3>2, <3>4, <3>5, <3>6 DEF ReplayIsFirst, StagesOwn, agentVars
    <3> QED
      BY <1>a, <1>g, <2>1, <2>2, <3>4, <3>5, <3>6, <3>7 DEF agentVars
  <2>3. CASE GoesTo(t, "refused") /\ UNCHANGED dirVars
    <3>1. "refused" \in Places
      BY DEF Places, TurnEnd
    <3> QED
      BY <1>a, <1>g, <2>1, <2>3, <3>1 DEF agentVars, dirVars
  <2> QED
    BY <1>9, <2>2, <2>3 DEF CreateTurnDir
<1>10. ASSUME NEW t \in Turn, WriteAttachments(t) PROVE AcpInv'
  <2>1. /\ acp[t] = "writes" /\ acp[t] \in Staging /\ GoesTo(t, "prompts")
        /\ staged' = [staged EXCEPT ![t].files = TRUE]
        /\ replaying' = [replaying EXCEPT ![t] = FALSE]
        /\ agent' = IF agent[t] = "dead" THEN agent ELSE [agent EXCEPT ![t] = "prompts"]
        /\ UNCHANGED <<session, inbox, said, shown, halt, attachDir>>
    BY <1>10 DEF WriteAttachments, Staging
  <2>2. PICK q \in Stagings : q = staged[t]
    BY <1>a
  <2> DEFINE r == [q EXCEPT !.files = TRUE]
  <2>3. r \in Stagings /\ r.at = q.at /\ r.files
    BY DEF Stagings
  <2>4. staged' = [staged EXCEPT ![t] = r]
    BY <1>a, <2>1, <2>2
  <2> HIDE DEF r
  <2>5. /\ staged' \in [Turn -> Stagings] /\ staged'[t] = r
        /\ \A u \in Turn \ {t} : staged'[u] = staged[u]
    BY <1>a, <2>3, <2>4
  <2>6. acp'[t] = "prompts" /\ "prompts" \in Places
    BY <1>a, <2>1 DEF GoesTo, Places
  <2>7. /\ replaying' \in [Turn -> BOOLEAN] /\ \A u \in Turn \ {t} : replaying'[u] = replaying[u]
        /\ agent' \in [Turn -> {"idle", "loads", "prompts", "dead"}]
        /\ \A u \in Turn \ {t} : agent'[u] = agent[u]
        /\ agent'[t] \in {"prompts", "dead"}
    BY <1>a, <2>1
  <2>8. staged[t].at = "inside" => [kind |-> "dir", of |-> t] \in attachDir.entries
    BY <1>b, <2>1 DEF StagesOwn
  <2>9. ReplayIsFirst(t)' /\ StagesOwn(t)'
    BY <1>S, <2>1, <2>2, <2>3, <2>5, <2>6, <2>7, <2>8
    DEF ReplayIsFirst, StagesOwn, Quiet, Staging, Unsaid
  <2> QED
    BY <1>a, <1>g, <2>1, <2>5, <2>6, <2>7, <2>9
<1>11. ASSUME NEW t \in Turn, DropStaged(t) PROVE AcpInv'
  <2>1. /\ acp[t] = "drops" /\ UNCHANGED <<session, replaying, agentVars, shown, halt>>
        /\ staged' = [staged EXCEPT ![t] = [at |-> "gone", files |-> FALSE]]
        /\ Removes("dir", t) \/ UNCHANGED attachDir
    BY <1>11 DEF DropStaged
  <2>2. PICK where \in {"sweeps", "over"} : GoesTo(t, where)
    BY <1>11 DEF DropStaged
  <2>3. where \in Places
    BY DEF Places, TurnEnd
  <2>4. staged' \in [Turn -> Stagings] /\ \A u \in Turn \ {t} : staged'[u] = staged[u]
    BY <1>a, <2>1 DEF Stagings
  <2>5. /\ attachDir' \in Dirs
        /\ \A u \in Turn \ {t} :
             [kind |-> "dir", of |-> u] \in attachDir.entries =>
               [kind |-> "dir", of |-> u] \in attachDir'.entries
    BY <1>a, <1>d, <1>A, <2>1
  <2> QED
    BY <1>a, <1>g, <2>1, <2>2, <2>3, <2>4, <2>5 DEF agentVars
<1>12. ASSUME NEW t \in Turn, SweepAttachDir(t) PROVE AcpInv'
  <2>1. /\ GoesTo(t, "over") /\ UNCHANGED <<session, replaying, agentVars, shown, halt, staged>>
        /\ attachDir' = [attachDir EXCEPT !.there = @ /\ attachDir.entries # {}]
    BY <1>12 DEF SweepAttachDir
  <2>2. "over" \in Places
    BY DEF Places, TurnEnd
  <2>3. attachDir' \in Dirs /\ attachDir'.entries = attachDir.entries
    <3>1. PICK f \in BOOLEAN : attachDir' = [attachDir EXCEPT !.there = f]
      BY <2>1
    <3> QED
      BY <1>a, <3>1 DEF Dirs
  <2> QED
    BY <1>a, <1>g, <2>1, <2>2, <2>3 DEF agentVars
\* A step that reads or sends messages, of a turn that may go on to ask.
<1>r. ASSUME NEW t \in Turn, NEW where \in Places, acp' = [acp EXCEPT ![t] = where],
             UNCHANGED <<session, replaying, dirVars>>,
             inbox' \in [Turn -> Seq(Message)], \A u \in Turn \ {t} : inbox'[u] = inbox[u],
             agent' \in [Turn -> {"idle", "loads", "prompts", "dead"}],
             \A u \in Turn \ {t} : agent'[u] = agent[u],
             shown' \in [Turn -> SUBSET (Origin \X {"update", "request"})], HistoryStaysHistory',
             ReplayIsFirst(t)',
             \/ where = acp[t]
             \/ where = "asks" /\ acp[t] = "prompts"
             \/ where = "prompts" /\ acp[t] = "asks"
      PROVE  AcpInv'
  <2>1. /\ acp' \in [Turn -> Places] /\ acp'[t] = where
        /\ \A u \in Turn \ {t} : acp'[u] = acp[u]
    BY <1>a, <1>r
  <2>2. StagesOwn(t)'
    BY <1>b, <1>r, <2>1 DEF StagesOwn, dirVars
  <2>3. \A u \in Turn : ReplayIsFirst(u)' /\ StagesOwn(u)'
    BY <1>r, <1>o, <2>1, <2>2 DEF dirVars
  <2> QED
    BY <1>a, <1>c, <1>r, <2>1, <2>3 DEF dirVars
<1>13. ASSUME NEW t \in Turn, HandleMessage(t) PROVE AcpInv'
  <2>1. /\ ~TurnOver(t) /\ acp[t] \notin {"asks", "drops", "sweeps"}
        /\ inbox[t] # <<>> /\ Head(inbox[t]).of # "reply"
        /\ inbox' = [inbox EXCEPT ![t] = Tail(@)]
        /\ UNCHANGED <<session, replaying, agent, said, halt, dirVars>>
    BY <1>13 DEF HandleMessage
  <2>2. acp[t] = "loads" \/ acp[t] = "prompts"
    <3>1. acp[t] \in Places /\ acp[t] \notin Quiet
      BY <1>a, <1>b, <2>1 DEF ReplayIsFirst
    <3> QED
      BY <2>1, <3>1 DEF Places, Quiet, Phase, Staging, TurnOver
  <2> DEFINE q == inbox[t]
  <2>3. q \in Seq(Message) /\ q # <<>>
    BY <1>a, <2>1
  <2>4. /\ Head(q) = q[1] /\ Head(q) \in Message /\ 1 \in 1..Len(q)
        /\ Tail(q) \in Seq(Message)
        /\ \A i \in 1..Len(Tail(q)) :
             i + 1 \in 1..Len(q) /\ Tail(q)[i] = q[i + 1] /\ (i + 1 = Len(q) => i = Len(Tail(q)))
    BY <2>3, TailOfMessages
  <2>5. /\ inbox' \in [Turn -> Seq(Message)] /\ inbox'[t] = Tail(q)
        /\ \A u \in Turn \ {t} : inbox'[u] = inbox[u]
    BY <1>a, <2>1, <2>4
  <2>6. CASE replaying[t] /\ UNCHANGED <<shown, acp>>
    <3>1. ReplayIsFirst(t)'
      <4>1. CASE acp[t] = "loads"
        <5>1. /\ replaying[t] /\ agent[t] \in {"loads", "idle", "dead"}
              /\ agent[t] = "loads" => \A i \in 1..Len(q) : q[i].of # "reply"
              /\ \A i \in 1..Len(q) : q[i].of = "reply" => i = Len(q)
          BY <1>b, <4>1 DEF ReplayIsFirst, Unsaid
        <5>2. agent[t] = "loads" => \A i \in 1..Len(Tail(q)) : Tail(q)[i].of # "reply"
          BY <2>4, <5>1
        <5>3. \A i \in 1..Len(Tail(q)) : Tail(q)[i].of = "reply" => i = Len(Tail(q))
          BY <2>4, <5>1
        <5> QED
          BY <2>1, <2>5, <2>6, <4>1, <5>1, <5>2, <5>3 DEF ReplayIsFirst, Unsaid, Quiet, Staging
      <4>2. CASE acp[t] = "prompts"
        <5>1. agent[t] \in {"prompts", "idle", "dead"} /\ \A i \in 1..Len(q) : q[i].of # "history"
          BY <1>b, <4>2 DEF ReplayIsFirst, Unsaid
        <5>2. \A i \in 1..Len(Tail(q)) : Tail(q)[i].of # "history"
          BY <2>4, <5>1
        <5> QED
          BY <2>1, <2>5, <2>6, <4>2, <5>1, <5>2 DEF ReplayIsFirst, Unsaid, Quiet, Staging
      <4> QED
        BY <2>2, <4>1, <4>2
    <3>2. acp' = [acp EXCEPT ![t] = acp[t]] /\ acp[t] \in Places
      BY <1>a, <2>6
    <3>3. HistoryStaysHistory'
      BY <1>b, <2>6 DEF HistoryStaysHistory
    <3> QED
      BY <1>a, <1>r, <2>1, <2>5, <2>6, <3>1, <3>2, <3>3
  <2>7. CASE /\ ~replaying[t] /\ shown' = [shown EXCEPT ![t] = @ \cup {<<Head(q).of, Head(q).kind>>}]
             /\ IF Head(q).kind = "request" THEN GoesTo(t, "asks") ELSE UNCHANGED acp
    <3>1. acp[t] = "prompts"
      BY <1>b, <2>2, <2>7 DEF ReplayIsFirst
    <3>2. agent[t] \in {"prompts", "idle", "dead"} /\ \A i \in 1..Len(q) : q[i].of # "history"
      BY <1>b, <3>1 DEF ReplayIsFirst, Unsaid
    <3>3. Head(q).of # "history" /\ Head(q).of # "reply"
      BY <2>1, <2>4, <3>2
    <3>4. Head(q).of = "turn" /\ Head(q).kind \in {"update", "request"}
      BY <2>4, <3>3 DEF Message, Origin
    <3>5. shown' \in [Turn -> SUBSET (Origin \X {"update", "request"})]
      <4>1. <<Head(q).of, Head(q).kind>> \in Origin \X {"update", "request"}
        BY <3>4 DEF Origin
      <4> HIDE DEF q
      <4> QED
        BY <1>a, <2>7, <4>1
    <3>6. HistoryStaysHistory'
      <4>1. /\ shown'[t] = shown[t] \cup {<<"turn", Head(q).kind>>}
            /\ \A u \in Turn \ {t} : shown'[u] = shown[u]
        BY <1>a, <2>7, <3>4
      <4> QED
        BY <1>b, <4>1 DEF HistoryStaysHistory
    <3>7. PICK where \in {"prompts", "asks"} : acp' = [acp EXCEPT ![t] = where]
      BY <1>a, <2>7, <3>1 DEF GoesTo
    <3>8. where \in Places /\ acp'[t] = where
      BY <1>a, <3>7 DEF Places
    <3>9. ReplayIsFirst(t)'
      <4>1. \A i \in 1..Len(Tail(q)) : Tail(q)[i].of # "history"
        BY <2>4, <3>2
      <4> QED
        BY <2>1, <2>5, <3>2, <3>7, <3>8, <4>1 DEF ReplayIsFirst, Unsaid, Quiet, Staging
    <3> QED
      BY <1>a, <1>r, <2>1, <2>5, <3>1, <3>5, <3>6, <3>7, <3>8, <3>9
  <2> QED
    BY <1>13, <2>6, <2>7 DEF HandleMessage
<1>14. ASSUME NEW t \in Turn, AskIsAnswered(t) PROVE AcpInv'
  <2>1. /\ acp[t] = "asks" /\ acp' = [acp EXCEPT ![t] = "prompts"] /\ "prompts" \in Places
        /\ UNCHANGED <<session, replaying, agentVars, shown, halt, dirVars>>
    BY <1>14 DEF AskIsAnswered, GoesTo, Places
  <2>2. acp'[t] = "prompts"
    BY <1>a, <2>1
  <2>3. ReplayIsFirst(t)'
    BY <1>b, <2>1, <2>2 DEF ReplayIsFirst, Unsaid, Quiet, Staging, agentVars
  <2>4. HistoryStaysHistory'
    BY <1>b, <2>1 DEF HistoryStaysHistory
  <2> QED
    BY <1>a, <1>r, <2>1, <2>3, <2>4 DEF agentVars
<1>15. ASSUME NEW t \in Turn, PromptIsAnswered(t) PROVE AcpInv'
  <2>1. /\ inbox[t] # <<>> /\ inbox' = [inbox EXCEPT ![t] = Tail(@)] /\ Leaves(t)
        /\ UNCHANGED <<session, replaying, agent, said, shown, halt, dirVars>>
    BY <1>15 DEF PromptIsAnswered
  <2>2. inbox' \in [Turn -> Seq(Message)] /\ \A u \in Turn \ {t} : inbox'[u] = inbox[u]
    <3>1. Tail(inbox[t]) \in Seq(Message)
      BY <1>a, <2>1, TailOfMessages
    <3> QED
      BY <1>a, <2>1, <3>1
  <2> QED
    BY <1>l, <2>1, <2>2
<1>16. ASSUME NEW t \in Turn, PromptIsCancelled(t) \/ RequestFails(t) PROVE AcpInv'
  <2>1. Leaves(t) /\ UNCHANGED <<session, replaying, agentVars, shown, dirVars>>
    BY <1>16 DEF PromptIsCancelled, RequestFails
  <2> QED
    BY <1>a, <1>l, <2>1 DEF agentVars
<1>n. ASSUME UNCHANGED <<acp, session, replaying, agentVars, shown, dirVars>> PROVE AcpInv'
  BY <1>n, <1>a, <1>b, <1>c
  DEF agentVars, dirVars, ReplayIsFirst, StagesOwn, Unsaid, HistoryStaysHistory
<1>17. ASSUME NEW t \in Turn, TurnIsHalted(t) PROVE AcpInv'
  BY <1>17, <1>n DEF TurnIsHalted
<1>18. ASSUME NEW t \in Turn, TurnIsAborted(t) PROVE AcpInv'
  <2>1. Leaves(t) /\ UNCHANGED <<session, replaying, agentVars, shown, halt, staged>>
    BY <1>18 DEF TurnIsAborted
  <2>2. PICK where \in {"drops", "over"} : GoesTo(t, where)
    BY <2>1 DEF Leaves
  <2>3. where \in Places
    BY DEF Places, TurnEnd
  <2>4. UNCHANGED attachDir \/ Adds("probe", t) \/ Adds("dir", t) \/ Removes("probe", t)
    BY <1>18 DEF TurnIsAborted
  <2>5. /\ attachDir' \in Dirs
        /\ \A u \in Turn \ {t} :
             [kind |-> "dir", of |-> u] \in attachDir.entries =>
               [kind |-> "dir", of |-> u] \in attachDir'.entries
    BY <1>a, <1>d, <1>A, <2>4
  <2> QED
    BY <1>a, <1>g, <2>1, <2>2, <2>3, <2>5 DEF agentVars
\* What an agent sends comes behind what it has sent.
<1>s. ASSUME NEW t \in Turn, NEW m \in Message, inbox' = [inbox EXCEPT ![t] = Append(@, m)],
             UNCHANGED <<acp, session, replaying, shown, dirVars>>,
             agent[t] \in {"loads", "prompts"},
             agent' \in [Turn -> {"idle", "loads", "prompts", "dead"}],
             \A u \in Turn \ {t} : agent'[u] = agent[u],
             \/ m.of = "reply" /\ agent'[t] = "idle"
             \/ m.of = "history" /\ agent[t] = "loads" /\ agent'[t] = agent[t]
             \/ m.of = "turn" /\ agent[t] = "prompts" /\ agent'[t] = agent[t]
      PROVE  AcpInv'
  <2> DEFINE q == inbox[t]
  <2>1. q \in Seq(Message)
    BY <1>a
  <2>2. /\ Append(q, m) \in Seq(Message) /\ Len(Append(q, m)) = Len(q) + 1
        /\ \A i \in 1..Len(Append(q, m)) :
             \/ i \in 1..Len(q) /\ Append(q, m)[i] = q[i]
             \/ i = Len(Append(q, m)) /\ Append(q, m)[i] = m
    BY <2>1, OneMoreMessage
  <2>3. /\ inbox' \in [Turn -> Seq(Message)] /\ inbox'[t] = Append(q, m)
        /\ \A u \in Turn \ {t} : inbox'[u] = inbox[u]
    BY <1>a, <1>s, <2>2
  <2>4. acp[t] \notin Quiet
    BY <1>b, <1>s DEF ReplayIsFirst
  <2>5. ReplayIsFirst(t)'
    <3>1. CASE acp[t] = "loads"
      <4>1. /\ replaying[t] /\ agent[t] = "loads"
            /\ \A i \in 1..Len(q) : q[i].of # "reply"
        BY <1>b, <1>s, <3>1 DEF ReplayIsFirst, Unsaid
      <4>2. \A i \in 1..Len(Append(q, m)) : Append(q, m)[i].of = "reply" => i = Len(Append(q, m))
        BY <2>2, <4>1
      <4>3. agent'[t] = "loads" => \A i \in 1..Len(Append(q, m)) : Append(q, m)[i].of # "reply"
        BY <1>s, <2>2, <4>1
      <4> QED
        BY <1>s, <2>3, <3>1, <4>1, <4>2, <4>3 DEF ReplayIsFirst, Unsaid, Quiet, Staging
    <3>2. CASE acp[t] \in {"prompts", "asks"}
      <4>1. agent[t] = "prompts" /\ \A i \in 1..Len(q) : q[i].of # "history"
        BY <1>b, <1>s, <3>2 DEF ReplayIsFirst, Unsaid
      <4>2. \A i \in 1..Len(Append(q, m)) : Append(q, m)[i].of # "history"
        BY <1>s, <2>2, <4>1
      <4> QED
        BY <1>s, <2>3, <3>2, <4>1, <4>2 DEF ReplayIsFirst, Unsaid, Quiet, Staging
    <3>3. CASE acp[t] \notin {"loads", "prompts", "asks"}
      BY <1>s, <2>4, <3>3 DEF ReplayIsFirst, Quiet
    <3> QED
      BY <3>1, <3>2, <3>3
  <2>6. acp' = [acp EXCEPT ![t] = acp[t]] /\ acp[t] \in Places
    BY <1>a, <1>s
  <2>7. HistoryStaysHistory' /\ shown' \in [Turn -> SUBSET (Origin \X {"update", "request"})]
    BY <1>a, <1>b, <1>s DEF HistoryStaysHistory
  <2> HIDE DEF q
  <2> QED
    BY <1>r, <1>s, <2>3, <2>5, <2>6, <2>7
<1>19. ASSUME NEW t \in Turn, NEW kind \in {"update", "request"}, AgentSays(t, kind) PROVE AcpInv'
  <2>1. PICK o \in Origin : o = IF agent[t] = "loads" THEN "history" ELSE "turn"
    BY DEF Origin
  <2>2. PICK m : m = [kind |-> kind, of |-> o]
    OBVIOUS
  <2>3. m \in Message /\ m.of = o
    BY <2>2 DEF Message
  <2>4. /\ agent[t] \in {"loads", "prompts"} /\ inbox' = [inbox EXCEPT ![t] = Append(@, m)]
        /\ UNCHANGED <<acp, session, replaying, agent, shown, halt, dirVars>>
    BY <1>19, <2>1, <2>2 DEF AgentSays
  <2> QED
    BY <1>a, <1>s, <2>1, <2>3, <2>4
<1>20. ASSUME NEW t \in Turn, NEW kind \in {"ok", "error"}, AgentAnswers(t, kind) PROVE AcpInv'
  <2>1. PICK m : m = [kind |-> kind, of |-> "reply"]
    OBVIOUS
  <2>2. m \in Message /\ m.of = "reply"
    BY <2>1 DEF Message
  <2>3. /\ agent[t] \in {"loads", "prompts"} /\ inbox' = [inbox EXCEPT ![t] = Append(@, m)]
        /\ agent' = [agent EXCEPT ![t] = "idle"]
        /\ UNCHANGED <<acp, session, replaying, said, shown, halt, dirVars>>
    BY <1>20, <2>1 DEF AgentAnswers, SetsAgent
  <2>4. /\ agent' \in [Turn -> {"idle", "loads", "prompts", "dead"}] /\ agent'[t] = "idle"
        /\ \A u \in Turn \ {t} : agent'[u] = agent[u]
    BY <1>a, <2>3
  <2> QED
    BY <1>s, <2>2, <2>3, <2>4
<1>21. ASSUME NEW t \in Turn, AgentDies(t) PROVE AcpInv'
  <2>1. /\ agent' = [agent EXCEPT ![t] = "dead"]
        /\ UNCHANGED <<acp, session, replaying, inbox, said, shown, halt, dirVars>>
    BY <1>21 DEF AgentDies, SetsAgent
  <2>2. /\ agent' \in [Turn -> {"idle", "loads", "prompts", "dead"}] /\ agent'[t] = "dead"
        /\ \A u \in Turn \ {t} : agent'[u] = agent[u]
    BY <1>a, <2>1
  <2>3. ReplayIsFirst(t)'
    BY <1>b, <2>1, <2>2 DEF ReplayIsFirst, Unsaid
  <2>4. acp' = [acp EXCEPT ![t] = acp[t]] /\ acp[t] \in Places
    BY <1>a, <2>1
  <2>5. HistoryStaysHistory'
    BY <1>b, <2>1 DEF HistoryStaysHistory
  <2> QED
    BY <1>a, <1>r, <2>1, <2>2, <2>3, <2>4, <2>5
<1>22. ASSUME UNCHANGED acpVars PROVE AcpInv'
  BY <1>22, <1>n DEF acpVars
<1>23. ASSUME NEW t \in Turn, AcpStep(t) PROVE AcpInv'
  BY <1>23, <1>1, <1>2, <1>3, <1>4, <1>5, <1>6, <1>7, <1>8, <1>9, <1>10, <1>11, <1>12, <1>13,
     <1>14, <1>15, <1>16, <1>17, <1>18 DEF AcpStep
<1> QED
  BY <1>19, <1>20, <1>21, <1>22, <1>23 DEF AcpNext

\* The files a prompt points to are there while the agent works on it.
LEMMA FilesStay == AcpInv => StagedFilesStay
BY DEF AcpInv, StagesOwn, StagedFilesStay

-----------------------------------------------------------------------------
(* Pairing *)

\* The code of a boot is with one request at most, which alone may still get a
\* token in it, and a token that has left the satellite is in its file, unless
\* that could not be written or read.
TokensInv ==
  /\ boot \in 1..MaxBoots /\ code \in {"free", "used"}
  /\ tokens \subseteq Pairer /\ identity \subseteq Pairer /\ forgotten \subseteq Pairer
  /\ identity \ forgotten \subseteq tokens /\ issuedIn[boot] \subseteq tokens
  /\ pairing \in [Pairer -> [at : {"idle", "stores", "over"} \cup AtSatellite,
                             from : Address, right : BOOLEAN, name : BOOLEAN]]
  /\ issuedIn \in [1..MaxBoots -> SUBSET Pairer]
  /\ node \in [token : Pairer \cup {"none"}, name : {"none", "own", "given"}, fresh : BOOLEAN]
  /\ \A b \in 1..MaxBoots : \A p, q \in issuedIn[b] : p = q
  /\ \A b \in 1..MaxBoots : b > boot => issuedIn[b] = {}
  /\ code = "free" => issuedIn[boot] = {}
  /\ \A p \in Pairer : At(p, "issues") =>
       /\ code = "used" /\ issuedIn[boot] = {}
       /\ \A q \in Pairer : At(q, "issues") => p = q
  /\ \A p \in Pairer : At(p, "persists") => p \in tokens
  /\ \A p \in Pairer : At(p, "responds") \/ At(p, "stores") => p \in identity \cup forgotten
  /\ node.token \in Pairer => node.token \in identity \cup forgotten

\* At the first boot nobody has a token.
LEMMA TokensInvInit == PairInit => TokensInv
  BY PairingConstants DEF PairInit, TokensInv, NoNode, At, AtSatellite

\* The requests to pair, with where each is.
Pairings == [Pairer -> [at : {"idle", "stores", "over"} \cup AtSatellite,
                        from : Address, right : BOOLEAN, name : BOOLEAN]]

\* A request that moves leaves the others where they are.
LEMMA MovesAre ==
  ASSUME pairing \in Pairings, NEW p \in Pairer,
         NEW where \in {"idle", "stores", "over"} \cup AtSatellite, MovesTo(p, where)
  PROVE  /\ pairing' \in Pairings
         /\ \A q \in Pairer : pairing'[q].at = IF q = p THEN where ELSE pairing[q].at
  BY DEF MovesTo, Pairings

\* The invariant in terms of where the requests are.
LEMMA TokensMean ==
  TokensInv <=>
    /\ boot \in 1..MaxBoots /\ code \in {"free", "used"}
    /\ tokens \subseteq Pairer /\ identity \subseteq Pairer /\ forgotten \subseteq Pairer
    /\ identity \ forgotten \subseteq tokens /\ issuedIn[boot] \subseteq tokens
    /\ pairing \in Pairings
    /\ issuedIn \in [1..MaxBoots -> SUBSET Pairer]
    /\ node \in [token : Pairer \cup {"none"}, name : {"none", "own", "given"}, fresh : BOOLEAN]
    /\ \A b \in 1..MaxBoots : \A p, q \in issuedIn[b] : p = q
    /\ \A b \in 1..MaxBoots : b > boot => issuedIn[b] = {}
    /\ code = "free" => issuedIn[boot] = {}
    /\ \A p \in Pairer : pairing[p].at = "issues" =>
         /\ code = "used" /\ issuedIn[boot] = {}
         /\ \A q \in Pairer : pairing[q].at = "issues" => p = q
    /\ \A p \in Pairer : pairing[p].at = "persists" => p \in tokens
    /\ \A p \in Pairer : pairing[p].at \in {"responds", "stores"} => p \in identity \cup forgotten
    /\ node.token \in Pairer => node.token \in identity \cup forgotten
  BY DEF TokensInv, At, Pairings

\* The code is with one request at most.
LEMMA CodeKeepsTokens ==
  ASSUME TokensInv, NEW p \in Pairer, CodeIsVerified(p)
  PROVE  TokensInv'
<1>1. pairing \in Pairings /\ \A q \in Pairer : pairing[q].at = "issues" => code = "used"
  BY TokensMean
<1>2. \/ code' = "used" /\ code = "free" /\ MovesTo(p, "issues")
      \/ UNCHANGED code /\ MovesTo(p, "over")
  BY DEF CodeIsVerified
<1>3. UNCHANGED <<boot, tokens, identity, issuedIn, forgotten, node>>
  BY DEF CodeIsVerified
<1>4. CASE code' = "used" /\ code = "free" /\ MovesTo(p, "issues")
  <2>1. /\ pairing' \in Pairings
        /\ \A q \in Pairer : pairing'[q].at = IF q = p THEN "issues" ELSE pairing[q].at
    BY <1>1, <1>4, MovesAre DEF AtSatellite
  <2> QED
    BY <1>1, <1>3, <1>4, <2>1, TokensMean DEF TokensInv, At, Pairings
<1>5. CASE UNCHANGED code /\ MovesTo(p, "over")
  <2>1. /\ pairing' \in Pairings
        /\ \A q \in Pairer : pairing'[q].at = IF q = p THEN "over" ELSE pairing[q].at
    BY <1>1, <1>5, MovesAre DEF AtSatellite
  <2> QED
    BY <1>3, <1>5, <2>1, TokensMean DEF TokensInv, At, Pairings
<1> QED
  BY <1>2, <1>4, <1>5

\* Who has the code gets the one token of the boot.
LEMMA IssueKeepsTokens ==
  ASSUME TokensInv, NEW p \in Pairer, TokenIsIssued(p)
  PROVE  TokensInv'
<1>1. /\ pairing \in Pairings /\ pairing[p].at = "issues" /\ MovesTo(p, "persists")
      /\ tokens' = tokens \cup {p} /\ issuedIn' = [issuedIn EXCEPT ![boot] = issuedIn[boot] \cup {p}]
      /\ UNCHANGED <<boot, code, identity, forgotten, node>>
  BY TokensMean DEF TokenIsIssued, At
<1>2. /\ issuedIn[boot] = {} /\ code = "used" /\ boot \in 1..MaxBoots
      /\ \A q \in Pairer : pairing[q].at = "issues" => p = q
      /\ issuedIn \in [1..MaxBoots -> SUBSET Pairer]
  BY <1>1, TokensMean
<1>3. /\ pairing' \in Pairings
      /\ \A q \in Pairer : pairing'[q].at = IF q = p THEN "persists" ELSE pairing[q].at
  BY <1>1, MovesAre DEF AtSatellite
<1>4. /\ issuedIn' \in [1..MaxBoots -> SUBSET Pairer] /\ issuedIn'[boot] = {p}
      /\ \A b \in 1..MaxBoots : b # boot => issuedIn'[b] = issuedIn[b]
  BY <1>1, <1>2
<1>5. \A q \in Pairer : pairing'[q].at # "issues"
  BY <1>2, <1>3
<1>6. \A b \in 1..MaxBoots : (\A q, r \in issuedIn'[b] : q = r) /\ (b > boot => issuedIn'[b] = {})
  BY <1>2, <1>4, TokensMean
<1>7. /\ \A q \in Pairer : pairing'[q].at = "persists" => q \in tokens'
      /\ \A q \in Pairer : pairing'[q].at \in {"responds", "stores"} => q \in identity \cup forgotten
      /\ tokens' \subseteq Pairer /\ identity \ forgotten \subseteq tokens' /\ {p} \subseteq tokens'
  BY <1>1, <1>3, TokensMean
<1> QED
  BY <1>1, <1>2, <1>3, <1>4, <1>5, <1>6, <1>7, TokensMean DEF TokensInv, At, Pairings

\* A boot keeps what the file has, or all of that is said to be forgotten.
LEMMA BootKeepsTokens ==
  ASSUME TokensInv, SatelliteRestarts \/ SatelliteStartsFresh
  PROVE  TokensInv'
<1>1. NewBoot
  BY DEF SatelliteRestarts, SatelliteStartsFresh
<1>2. pairing \in Pairings /\ boot \in 1..MaxBoots
  BY TokensMean
<1>3. /\ pairing' \in Pairings
      /\ \A p \in Pairer :
           pairing'[p].at = IF pairing[p].at \in AtSatellite THEN "over" ELSE pairing[p].at
  BY <1>1, <1>2 DEF NewBoot, Pairings
<1>4. boot' = boot + 1 /\ boot' \in 1..MaxBoots /\ code' = "free" /\ UNCHANGED <<issuedIn, node>>
  BY <1>1, <1>2, PairingConstants DEF NewBoot
<1>5. /\ tokens' \subseteq Pairer /\ identity' \subseteq Pairer /\ forgotten' \subseteq Pairer
      /\ identity' \ forgotten' \subseteq tokens'
      /\ identity \cup forgotten \subseteq identity' \cup forgotten'
  BY TokensMean DEF SatelliteRestarts, SatelliteStartsFresh
<1>6. issuedIn[boot'] = {} /\ \A b \in 1..MaxBoots : b > boot' => issuedIn[b] = {}
  BY <1>2, <1>4, TokensMean
<1>7. \A p \in Pairer : pairing'[p].at \notin {"issues", "persists", "responds"}
  BY <1>3 DEF AtSatellite
<1>8. \A p \in Pairer : pairing'[p].at = "stores" => p \in identity' \cup forgotten'
  <2> SUFFICES ASSUME NEW p \in Pairer, pairing'[p].at = "stores"
               PROVE  p \in identity \cup forgotten
    BY <1>5
  <2>1. pairing[p].at = "stores"
    BY <1>3
  <2> QED
    BY <2>1, TokensMean
<1>9. node.token \in Pairer => node.token \in identity' \cup forgotten'
  BY <1>5, TokensMean
<1> QED
  BY <1>3, <1>4, <1>5, <1>6, <1>7, <1>8, <1>9, TokensMean DEF TokensInv, At, Pairings

\* Whatever is lost and whenever the satellite restarts, a token is written to
\* the file before it leaves the satellite, and only for whom used the code.
LEMMA TokensInvStep == TokensInv /\ [PairNext]_pairVars => TokensInv'
<1> SUFFICES ASSUME TokensInv, [PairNext]_pairVars
             PROVE  TokensInv'
  OBVIOUS
<1> USE PairingConstants DEF TokensInv, At, MovesTo, AtSatellite, satVars
<1>1. ASSUME NEW p \in Pairer, PairArrives(p) PROVE TokensInv'
  BY <1>1 DEF PairArrives
<1>2. ASSUME NEW p \in Pairer, AttemptIsChecked(p) PROVE TokensInv'
  BY <1>2 DEF AttemptIsChecked
<1>3. ASSUME NEW p \in Pairer, CodeIsVerified(p) PROVE TokensInv'
  BY <1>3, CodeKeepsTokens
<1>4. ASSUME NEW p \in Pairer, TokenIsIssued(p) PROVE TokensInv'
  BY <1>4, IssueKeepsTokens
<1>5. ASSUME NEW p \in Pairer, IdentityIsPersisted(p) PROVE TokensInv'
  BY <1>5 DEF IdentityIsPersisted
<1>14. ASSUME NEW p \in Pairer, PersistFails(p) PROVE TokensInv'
  BY <1>14 DEF PersistFails
<1>6. ASSUME NEW p \in Pairer, PairIsDropped(p) PROVE TokensInv'
  BY <1>6 DEF PairIsDropped
<1>7. ASSUME NEW p \in Pairer, PairIsAnswered(p) PROVE TokensInv'
  BY <1>7 DEF PairIsAnswered
<1>8. ASSUME NEW p \in Pairer, NodeIsStored(p) PROVE TokensInv'
  BY <1>8 DEF NodeIsStored
<1>9. CASE \E a \in Address : LockLapses(a)
  BY <1>9 DEF LockLapses
<1>10. CASE SatelliteRestarts \/ SatelliteStartsFresh
  BY <1>10, BootKeepsTokens
<1>11. CASE NodeGoesStale \/ NodeIsProbed
  <2> DEFINE Node == [token : Pairer \cup {"none"}, name : {"none", "own", "given"}, fresh : BOOLEAN]
  <2>1. node' \in Node /\ node'.token = node.token
    <3>1. node \in Node
      OBVIOUS
    <3>2. [node EXCEPT !.fresh = FALSE] \in Node /\ [node EXCEPT !.fresh = FALSE].token = node.token
      BY <3>1
    <3>3. /\ [node EXCEPT !.name = "own", !.fresh = TRUE] \in Node
          /\ [node EXCEPT !.name = "own", !.fresh = TRUE].token = node.token
      BY <3>1
    <3> QED
      BY <1>11, <3>2, <3>3 DEF NodeGoesStale, NodeIsProbed
  <2> QED
    BY <1>11, <2>1 DEF NodeGoesStale, NodeIsProbed
<1>12. CASE NodeIsRemoved
  BY <1>12 DEF NodeIsRemoved, NoNode
<1>13. CASE UNCHANGED pairVars
  BY <1>13 DEF pairVars
<1> QED
  BY <1>1, <1>2, <1>3, <1>4, <1>5, <1>6, <1>7, <1>8, <1>9, <1>10, <1>11, <1>12, <1>13, <1>14
  DEF PairNext

\* What the run checks follows.
LEMMA TokensAreApart == TokensInv => OnePairPerBoot /\ PairingSurvives
<1> SUFFICES ASSUME TokensInv PROVE OnePairPerBoot /\ PairingSurvives
  OBVIOUS
<1>1. ASSUME NEW b \in 1..MaxBoots
      PROVE  Cardinality(issuedIn[b]) <= 1
  <2>1. CASE issuedIn[b] = {}
    BY <2>1, FS_EmptySet
  <2>2. ASSUME NEW p \in issuedIn[b] PROVE Cardinality(issuedIn[b]) <= 1
    <3>1. issuedIn[b] = {p}
      BY <2>2 DEF TokensInv
    <3>2. Cardinality(issuedIn[b]) = 1
      <4>1. Cardinality({p}) = 1
        BY FS_Singleton
      <4> QED
        BY <3>1, <4>1
    <3> QED
      BY <3>2
  <2> QED
    BY <2>1, <2>2
<1>2. PairingSurvives
  BY DEF TokensInv, PairingSurvives, At
<1> QED
  BY <1>1, <1>2 DEF OnePairPerBoot

-----------------------------------------------------------------------------
(* The updater *)

\* The flag lets in one request at a time, and what it has checked is what is
\* staged until it renames it.
StagingInv ==
  /\ applier \in [Applier -> {"idle", "enters"} \cup Guarded \cup Answered]
  /\ updating \in BOOLEAN
  /\ \A a \in Applier : applier[a] \in Guarded => updating
  /\ \A a, b \in Applier : applier[a] \in Guarded /\ applier[b] \in Guarded => a = b
  /\ \A a \in Applier : applier[a] = "renames" => stagedExe = "right"
  /\ ExeIsVerified

\* Nothing is staged at first.
LEMMA StagingInvInit == UpdInit => StagingInv
  BY DEF UpdInit, StagingInv, ExeIsVerified, Guarded

\* No step of a request, whether it fails or is dropped, touches what another
\* one has checked.
LEMMA StagingInvStep == StagingInv /\ [UpdNext]_updVars => StagingInv'
<1> SUFFICES ASSUME StagingInv, [UpdNext]_updVars
             PROVE  StagingInv'
  OBVIOUS
<1> USE DEF StagingInv, ExeIsVerified, Guarded, Answered, To, Fails, StagingFails, Runs
<1>f. ASSUME NEW a \in Applier, applier[a] \in Guarded, applier' = [applier EXCEPT ![a] = "idle"],
             updating' = FALSE, exe' = exe
      PROVE  StagingInv'
  BY <1>f
<1>1. ASSUME NEW a \in Applier, ApplyArrives(a) PROVE StagingInv'
  BY <1>1 DEF ApplyArrives
<1>2. ASSUME NEW a \in Applier, TakeFlag(a) PROVE StagingInv'
  BY <1>2 DEF TakeFlag
<1>3. ASSUME NEW a \in Applier, FindRelease(a) PROVE StagingInv'
  <2>1. CASE applier' = [applier EXCEPT ![a] = "downloads"] /\ UNCHANGED updating
    BY <1>3, <2>1 DEF FindRelease
  <2>2. CASE Fails(a)
    BY <1>3, <1>f, <2>2 DEF FindRelease
  <2> QED
    BY <1>3, <2>1, <2>2 DEF FindRelease
<1>4. ASSUME NEW a \in Applier, CreateStaged(a) PROVE StagingInv'
  BY <1>4 DEF CreateStaged
<1>5. ASSUME NEW a \in Applier, Download(a) PROVE StagingInv'
  <2>1. CASE applier' = [applier EXCEPT ![a] = "verifies"] /\ UNCHANGED updating
    BY <1>5, <2>1 DEF Download
  <2>2. CASE StagingFails(a)
    BY <1>5, <1>f, <2>2 DEF Download
  <2> QED
    BY <1>5, <2>1, <2>2 DEF Download
<1>6. ASSUME NEW a \in Applier, Verify(a) PROVE StagingInv'
  BY <1>6 DEF Verify
<1>7. ASSUME NEW a \in Applier, RenameStaged(a) PROVE StagingInv'
  <2>1. CASE /\ exe' = stagedExe /\ stagedExe' = "absent"
             /\ applier' = [applier EXCEPT ![a] = "syncs"] /\ UNCHANGED updating
    BY <1>7, <2>1 DEF RenameStaged
  <2>2. CASE Fails(a) /\ UNCHANGED exe
    BY <1>7, <1>f, <2>2 DEF RenameStaged
  <2> QED
    BY <1>7, <2>1, <2>2 DEF RenameStaged
<1>8. ASSUME NEW a \in Applier, ApplyReturns(a) PROVE StagingInv'
  BY <1>8 DEF ApplyReturns
<1>9. ASSUME NEW a \in Applier, Audited(a) PROVE StagingInv'
  BY <1>9 DEF Audited
<1>10. ASSUME NEW a \in Applier, ApplyIsDropped(a) PROVE StagingInv'
  BY <1>10 DEF ApplyIsDropped
<1>11. CASE Restart
  BY <1>11 DEF Restart
<1>12. CASE UNCHANGED updVars
  BY <1>12 DEF updVars
<1> QED
  BY <1>1, <1>2, <1>3, <1>4, <1>5, <1>6, <1>7, <1>8, <1>9, <1>10, <1>11, <1>12
  DEF UpdNext, UpdStep

-----------------------------------------------------------------------------
(* Worktrees *)

\* The types of rows, sends, runs and deletions.
ThreadRows == [live : BOOLEAN, mode : {"local", "worktree"}, path : Worktree \cup {None}]
SenderRows == [at : {"idle", "locks"} \cup CreateAt, of : Owner, name : Worktree \cup {None}]
AgentRuns == [runs : BOOLEAN, synced : BOOLEAN, before : SUBSET Worktree]
Deletions == [at : {"none", "done"} \cup CleanupAt, name : Worktree \cup {None}]

\* A local thread has no worktree, only for a local thread a run may look for
\* one, and only for others one is made.
ModesAreKept ==
  /\ \A t \in Owner : row[t].mode = "local" => row[t].path = None
  /\ \A t \in Owner : agentRun[t].runs /\ ~ agentRun[t].synced => row[t].mode = "local"
  /\ \A s \in Sender : sender[s].at # "idle" => row[sender[s].of].mode = "worktree"

\* One send makes the worktree of a thread, while its row names none.
OneCreates ==
  /\ \A s \in Sender : sender[s].at \in CreateAt => creating[sender[s].of] = s
  /\ \A t \in Owner : creating[t] # "free" =>
       sender[creating[t]].at \in CreateAt /\ sender[creating[t]].of = t
  /\ \A t \in Owner : creating[t] # "free" /\ row[t].live => row[t].path = None

\* Names that are in use are drawn, and a deletion that goes on to the next
\* step has done the one before, or has forsaken the name.
NamesAreDrawn ==
  /\ \A w \in branches : tree[w] # "unused"
  /\ \A t \in Owner : row[t].path # None => tree[row[t].path] # "unused"
  /\ \A s \in Sender : sender[s].at \in {"locks", "adds"} => sender[s].name = None
  /\ \A s \in Sender : sender[s].at \in {"stores", "undoes"} =>
       sender[s].name # None /\ tree[sender[s].name] # "unused"
  /\ \A t \in Owner :
       /\ row[t].live => cleanup[t].at = "none"
       /\ cleanup[t].name # None => tree[cleanup[t].name] # "unused"
       /\ cleanup[t].at \in {"removes", "sweeps", "prunes"} => cleanup[t].name # None
       /\ cleanup[t].at = "sweeps" =>
            cleanup[t].name \in forsaken \/ tree[cleanup[t].name] # "registered"
       /\ cleanup[t].at = "prunes" =>
            cleanup[t].name \in forsaken \/ tree[cleanup[t].name] = "gone"

\* The types of the rows, of git's state and of what is under way.
TreeTypes ==
  /\ row \in [Owner -> ThreadRows]
  /\ tree \in [Worktree -> {"unused", "registered", "leftover", "gone"}]
  /\ branches \subseteq Worktree
  /\ sender \in [Sender -> SenderRows]
  /\ creating \in [Owner -> Sender \cup {"free"}]
  /\ agentRun \in [Owner -> AgentRuns]
  /\ cleanup \in [Owner -> Deletions]
  /\ forsaken \subseteq Worktree

\* What makes NothingLeaks inductive.
TreeInv == TreeTypes /\ ModesAreKept /\ OneCreates /\ NamesAreDrawn /\ NothingLeaks

\* There are no worktrees at first.
LEMMA TreeInvInit == WorktreeInit => TreeInv
  BY WorktreeConstants
  DEF WorktreeInit, TreeInv, TreeTypes, ModesAreKept, OneCreates, NamesAreDrawn, NothingLeaks,
      Resting, None, ThreadRows, SenderRows, AgentRuns, Deletions, CreateAt, CleanupAt, OnDisk

\* No send, run or deletion breaks it, wherever the calls of git fail.
LEMMA TreeInvStep == TreeInv /\ [WorktreeNext]_worktreeVars => TreeInv'
<1> SUFFICES ASSUME TreeInv, [WorktreeNext]_worktreeVars
             PROVE  TreeInv'
  OBVIOUS
<1>a. TreeTypes /\ ModesAreKept /\ OneCreates /\ NamesAreDrawn /\ NothingLeaks
  BY DEF TreeInv
<1>n. /\ None \notin Worktree /\ "free" \notin Sender
      /\ Resting \in SenderRows /\ Resting.at = "idle"
  BY WorktreeConstants DEF None, Resting, SenderRows
<1>w. \A w \in Worktree : OnDisk(w) => tree[w] # "unused"
  BY <1>a DEF NamesAreDrawn, TreeTypes, OnDisk
\* A send moves on.
<1>s. ASSUME NEW s \in Sender, NEW r \in SenderRows, sender' = [sender EXCEPT ![s] = r]
      PROVE  sender' \in [Sender -> SenderRows]
  BY <1>a, <1>s DEF TreeTypes
\* Who goes on is no longer looked for where it was, the others are.
<1>k. ASSUME NEW v \in Worktree, Accounted(v), UNCHANGED <<row, cleanup>>, NEW s \in Sender,
             \A u \in Sender \ {s} : sender'[u] = sender[u],
             sender[s].name # v \/ sender[s].at \notin CreateAt
      PROVE  Accounted(v)'
  BY <1>k DEF Accounted
<1>1. ASSUME NEW s \in Sender, NEW t \in Owner, SendReads(s, t) PROVE TreeInv'
  <2>1. /\ sender[s].at = "idle" /\ row[t].live
        /\ UNCHANGED <<row, gitVars, creating, cleanup, forsaken>>
    BY <1>1 DEF SendReads
  <2>2. CASE (row[t].mode = "local" \/ row[t].path # None) /\ Starts(t) /\ UNCHANGED sender
    <3> DEFINE r == [runs |-> TRUE, synced |-> row[t].path # None, before |-> Registered]
    <3>1. r \in AgentRuns /\ r.runs /\ (r.synced <=> row[t].path # None)
      BY DEF AgentRuns, Registered
    <3>2. agentRun' = [agentRun EXCEPT ![t] = r]
      BY <2>2 DEF Starts
    <3> HIDE DEF r
    <3>3. TreeTypes'
      BY <1>a, <2>1, <2>2, <3>1, <3>2 DEF TreeTypes, gitVars
    <3>4. ModesAreKept'
      BY <1>a, <2>1, <2>2, <3>1, <3>2 DEF ModesAreKept, TreeTypes
    <3> QED
      BY <1>a, <2>1, <2>2, <3>3, <3>4
      DEF TreeInv, OneCreates, NamesAreDrawn, NothingLeaks, gitVars, OnDisk, Accounted
  <2>3. CASE /\ row[t].mode # "local"
             /\ sender' = [sender EXCEPT ![s] = [at |-> "locks", of |-> t, name |-> None]]
             /\ UNCHANGED agentRun
    <3> DEFINE r == [at |-> "locks", of |-> t, name |-> None]
    <3>1. r \in SenderRows /\ r.at = "locks" /\ r.of = t /\ r.at \notin CreateAt /\ r.name = None
      BY DEF SenderRows, CreateAt
    <3>2. sender' = [sender EXCEPT ![s] = r]
      BY <2>3
    <3> HIDE DEF r
    <3>3. TreeTypes'
      BY <1>a, <1>s, <2>1, <2>3, <3>1, <3>2 DEF TreeTypes, gitVars
    <3>4. ModesAreKept'
      BY <1>a, <2>1, <2>3, <3>1, <3>2 DEF ModesAreKept, TreeTypes, ThreadRows
    <3>5. OneCreates' /\ NamesAreDrawn'
      BY <1>a, <2>1, <2>3, <3>1, <3>2 DEF TreeTypes, OneCreates, NamesAreDrawn, gitVars,
        CreateAt
    <3>6. NothingLeaks'
      BY <1>a, <2>1, <2>3, <3>1, <3>2
      DEF TreeTypes, NothingLeaks, gitVars, OnDisk, Accounted, CreateAt
    <3> QED
      BY <3>3, <3>4, <3>5, <3>6 DEF TreeInv
  <2> QED
    BY <1>1, <2>2, <2>3 DEF SendReads
<1>2. ASSUME NEW s \in Sender, TakeCreationLock(s) PROVE TreeInv'
  <2> DEFINE t == sender[s].of
  <2>1. /\ sender[s].at = "locks" /\ creating[t] = "free" /\ t \in Owner
        /\ UNCHANGED <<row, gitVars, cleanup, forsaken>> /\ row[t].mode = "worktree"
    BY <1>2, <1>a DEF TakeCreationLock, TreeTypes, SenderRows, ModesAreKept
  <2>2. CASE row[t].live /\ row[t].path # None /\ Rests(s) /\ Starts(t) /\ UNCHANGED creating
    <3> DEFINE r == [runs |-> TRUE, synced |-> row[t].path # None, before |-> Registered]
    <3>1. r \in AgentRuns /\ r.runs /\ r.synced
      BY <2>2 DEF AgentRuns, Registered
    <3>2. agentRun' = [agentRun EXCEPT ![t] = r] /\ sender' = [sender EXCEPT ![s] = Resting]
      BY <2>2 DEF Starts, Rests
    <3> HIDE DEF r, t
    <3>3. TreeTypes'
      BY <1>a, <1>n, <1>s, <2>1, <2>2, <3>1, <3>2 DEF TreeTypes, gitVars
    <3>4. ModesAreKept' /\ OneCreates' /\ NamesAreDrawn'
      BY <1>a, <1>n, <2>1, <2>2, <3>1, <3>2
      DEF TreeTypes, ModesAreKept, OneCreates, NamesAreDrawn, gitVars, CreateAt
    <3>5. NothingLeaks'
      BY <1>a, <1>n, <2>1, <2>2, <3>2
      DEF TreeTypes, NothingLeaks, gitVars, OnDisk, Accounted, CreateAt
    <3> QED
      BY <3>3, <3>4, <3>5 DEF TreeInv
  <2>3. CASE /\ ~ (row[t].live /\ row[t].path # None)
             /\ creating' = [creating EXCEPT ![t] = s] /\ Moves(s, "adds") /\ UNCHANGED agentRun
    <3>1. PICK q \in SenderRows : q = sender[s]
      BY <1>a DEF TreeTypes
    <3> DEFINE r == [q EXCEPT !.at = "adds"]
    <3>2. r \in SenderRows /\ r.at = "adds" /\ r.of = t /\ r.name = q.name
      BY <3>1 DEF SenderRows, CreateAt
    <3>3. sender' = [sender EXCEPT ![s] = r]
      BY <2>3, <3>1, <1>a DEF Moves, TreeTypes
    <3> HIDE DEF r, t
    <3>4. TreeTypes'
      BY <1>a, <1>s, <2>1, <2>3, <3>2, <3>3 DEF TreeTypes, gitVars
    <3>5. \A u \in Sender : sender[u].at \in CreateAt => sender[u].of # t
      BY <1>a, <1>n, <2>1 DEF OneCreates
    <3>6. ModesAreKept' /\ NamesAreDrawn'
      <4>1. q.name = None
        BY <1>a, <2>1, <3>1 DEF NamesAreDrawn
      <4>2. ModesAreKept'
        BY <1>a, <2>1, <2>3, <3>2, <3>3 DEF TreeTypes, ModesAreKept
      <4>3. NamesAreDrawn'
        BY <1>a, <2>1, <2>3, <3>2, <3>3, <4>1 DEF TreeTypes, NamesAreDrawn, gitVars
      <4> QED
        BY <4>2, <4>3
    <3>7. OneCreates'
      BY <1>a, <1>n, <2>1, <2>3, <3>2, <3>3, <3>5 DEF TreeTypes, OneCreates, CreateAt
    <3>8. NothingLeaks'
      BY <1>a, <2>1, <2>3, <3>1, <3>2, <3>3
      DEF TreeTypes, NothingLeaks, gitVars, OnDisk, Accounted, CreateAt
    <3> QED
      BY <3>4, <3>6, <3>7, <3>8 DEF TreeInv
  <2> QED
    BY <1>2, <2>2, <2>3 DEF TakeCreationLock
<1>r. ASSUME NEW s \in Sender, Rests(s), Releases(sender[s].of), sender[s].at \in CreateAt,
             UNCHANGED <<row, agentRun, cleanup>>, TreeTypes', NamesAreDrawn', NothingLeaks'
      PROVE  TreeInv'
  <2>1. sender' = [sender EXCEPT ![s] = Resting] /\ sender[s].of \in Owner
        /\ creating' = [creating EXCEPT ![sender[s].of] = "free"]
    BY <1>a, <1>r DEF Rests, Releases, TreeTypes, SenderRows
  <2>2. ModesAreKept'
    BY <1>a, <1>n, <1>r, <2>1 DEF TreeTypes, ModesAreKept
  <2>3. OneCreates'
    BY <1>a, <1>n, <1>r, <2>1 DEF TreeTypes, OneCreates, CreateAt
  <2> QED
    BY <1>r, <2>2, <2>3 DEF TreeInv
<1>3. ASSUME NEW s \in Sender, AddWorktree(s) PROVE TreeInv'
  <2>1. PICK w \in Worktree :
          /\ tree[w] = "unused"
          /\ branches' = branches \cup {w}
          /\ \/ /\ tree' = [tree EXCEPT ![w] = "registered"]
                /\ sender' = [sender EXCEPT ![s].at = "stores", ![s].name = w]
                /\ UNCHANGED <<creating, forsaken>>
             \/ /\ \E left \in {"registered", "gone"} : tree' = [tree EXCEPT ![w] = left]
                /\ Rests(s) /\ Releases(sender[s].of) /\ forsaken' = forsaken \cup {w}
    BY <1>3 DEF AddWorktree
  <2>2. sender[s].at = "adds" /\ UNCHANGED <<row, agentRun, cleanup>> /\ "adds" \in CreateAt
    BY <1>3 DEF AddWorktree, CreateAt
  <2>3. CASE /\ tree' = [tree EXCEPT ![w] = "registered"]
             /\ sender' = [sender EXCEPT ![s].at = "stores", ![s].name = w]
             /\ UNCHANGED <<creating, forsaken>>
    <3>1. PICK q \in SenderRows : q = sender[s]
      BY <1>a DEF TreeTypes
    <3> DEFINE r == [q EXCEPT !.at = "stores", !.name = w]
    <3>2. r \in SenderRows /\ r.at = "stores" /\ r.of = q.of /\ r.name = w
      BY <3>1 DEF SenderRows, CreateAt
    <3>3. sender' = [sender EXCEPT ![s] = r]
      BY <2>3, <3>1, <1>a DEF TreeTypes
    <3> HIDE DEF r
    <3>4. TreeTypes'
      BY <1>a, <1>s, <2>1, <2>2, <2>3, <3>2, <3>3 DEF TreeTypes
    <3>5. ModesAreKept' /\ OneCreates'
      BY <1>a, <2>2, <2>3, <3>1, <3>2, <3>3 DEF TreeTypes, ModesAreKept, OneCreates, CreateAt
    <3>6. NamesAreDrawn'
      BY <1>a, <1>n, <2>1, <2>2, <2>3, <3>2, <3>3
      DEF TreeTypes, NamesAreDrawn, ThreadRows, SenderRows, Deletions
    <3>7. NothingLeaks'
      <4> SUFFICES ASSUME NEW v \in Worktree \ forsaken, OnDisk(v)'
                   PROVE  Accounted(v)'
        BY <2>3 DEF NothingLeaks
      <4>1. CASE v = w
        BY <2>2, <3>2, <3>3, <4>1, <1>a DEF Accounted, CreateAt, TreeTypes
      <4>2. CASE v # w
        <5>1. OnDisk(v)
          BY <1>a, <2>1, <2>3, <4>2 DEF OnDisk, TreeTypes
        <5>2. sender[s].name # v
          BY <1>a, <1>n, <2>2 DEF NamesAreDrawn
        <5>3. \A u \in Sender \ {s} : sender'[u] = sender[u]
          BY <1>a, <3>3 DEF TreeTypes
        <5>4. Accounted(v)
          BY <1>a, <5>1 DEF NothingLeaks
        <5> QED
          BY <1>k, <2>2, <5>2, <5>3, <5>4
      <4> QED
        BY <4>1, <4>2
    <3> QED
      BY <3>4, <3>5, <3>6, <3>7 DEF TreeInv
  <2>4. CASE /\ \E left \in {"registered", "gone"} : tree' = [tree EXCEPT ![w] = left]
             /\ Rests(s) /\ Releases(sender[s].of) /\ forsaken' = forsaken \cup {w}
    <3>1. TreeTypes'
      BY <1>a, <1>n, <1>s, <2>1, <2>2, <2>4 DEF TreeTypes, Rests, Releases, SenderRows
    <3>2. NamesAreDrawn'
      BY <1>a, <1>n, <2>1, <2>2, <2>4
      DEF TreeTypes, NamesAreDrawn, Rests, ThreadRows, SenderRows, Deletions
    <3>3. NothingLeaks'
      <4> SUFFICES ASSUME NEW v \in Worktree \ forsaken', OnDisk(v)'
                   PROVE  Accounted(v)'
        BY DEF NothingLeaks
      <4>1. v # w /\ v \notin forsaken
        BY <1>a, <2>1, <2>4
      <4>2. OnDisk(v)
        BY <1>a, <2>1, <2>4, <4>1 DEF OnDisk, TreeTypes
      <4>3. sender[s].name # v
        BY <1>a, <1>n, <2>2 DEF NamesAreDrawn
      <4>4. \A u \in Sender \ {s} : sender'[u] = sender[u]
        BY <1>a, <2>4 DEF TreeTypes, Rests
      <4>5. Accounted(v)
        BY <1>a, <4>1, <4>2 DEF NothingLeaks
      <4> QED
        BY <1>k, <2>2, <4>3, <4>4, <4>5
    <3> QED
      BY <1>r, <2>2, <2>4, <3>1, <3>2, <3>3
  <2> QED
    BY <2>1, <2>3, <2>4
<1>4. ASSUME NEW s \in Sender, StoreWorktree(s) PROVE TreeInv'
  <2> DEFINE t == sender[s].of
  <2>1. /\ sender[s].at = "stores" /\ UNCHANGED <<gitVars, cleanup, forsaken>> /\ t \in Owner
        /\ sender[s].at \in CreateAt /\ creating[t] = s /\ row[t].mode = "worktree"
        /\ sender[s].name \in Worktree
    BY <1>4, <1>a, <1>n
    DEF StoreWorktree, TreeTypes, SenderRows, CreateAt, OneCreates, ModesAreKept, NamesAreDrawn
  <2>2. CASE /\ row[t].live
             /\ row' = [row EXCEPT ![t].path = sender[s].name]
             /\ Rests(s) /\ Releases(t)
             /\ agentRun' = [agentRun EXCEPT ![t] =
                  [runs |-> TRUE, synced |-> TRUE, before |-> Registered]]
    <3>1. PICK q \in ThreadRows : q = row[t]
      BY <1>a, <2>1 DEF TreeTypes
    <3> DEFINE r == [q EXCEPT !.path = sender[s].name]
               a == [runs |-> TRUE, synced |-> TRUE, before |-> Registered]
    <3>2. /\ r \in ThreadRows /\ r.live = q.live /\ r.mode = q.mode /\ r.path = sender[s].name
          /\ a \in AgentRuns /\ a.synced
      BY <2>1, <3>1 DEF ThreadRows, AgentRuns, Registered
    <3>3. /\ row' = [row EXCEPT ![t] = r] /\ agentRun' = [agentRun EXCEPT ![t] = a]
          /\ sender' = [sender EXCEPT ![s] = Resting]
          /\ creating' = [creating EXCEPT ![t] = "free"]
      BY <1>a, <2>1, <2>2, <3>1 DEF TreeTypes, Rests, Releases
    <3>4. row[t].path = None
      BY <1>a, <1>n, <2>1, <2>2 DEF OneCreates
    <3>5. \A u \in Sender : sender[u].at \in CreateAt /\ sender[u].of = t => u = s
      BY <1>a, <2>1 DEF OneCreates
    <3> HIDE DEF r, a, t
    <3>6. TreeTypes'
      BY <1>a, <1>n, <1>s, <2>1, <3>2, <3>3 DEF TreeTypes, gitVars
    <3>7. ModesAreKept'
      BY <1>a, <1>n, <2>1, <3>1, <3>2, <3>3 DEF TreeTypes, ModesAreKept
    <3>8. OneCreates'
      BY <1>a, <1>n, <2>1, <3>2, <3>3, <3>5 DEF TreeTypes, OneCreates, CreateAt
    <3>9. NamesAreDrawn'
      BY <1>a, <1>n, <2>1, <3>1, <3>2, <3>3 DEF TreeTypes, NamesAreDrawn, gitVars
    <3>10. NothingLeaks'
      <4> SUFFICES ASSUME NEW v \in Worktree \ forsaken, OnDisk(v)
                   PROVE  Accounted(v)'
        BY <2>1 DEF NothingLeaks, OnDisk, gitVars
      <4>1. CASE v = sender[s].name
        BY <1>a, <2>1, <2>2, <3>1, <3>2, <3>3, <4>1 DEF Accounted, TreeTypes
      <4>2. CASE v # sender[s].name
        <5>1. Accounted(v)
          BY <1>a DEF NothingLeaks
        <5> QED
          BY <1>a, <1>n, <2>1, <3>2, <3>3, <3>4, <4>2, <5>1 DEF Accounted, TreeTypes
      <4> QED
        BY <4>1, <4>2
    <3> QED
      BY <3>6, <3>7, <3>8, <3>9, <3>10 DEF TreeInv
  <2>3. CASE Moves(s, "undoes") /\ UNCHANGED <<row, creating, agentRun>>
    <3>1. PICK q \in SenderRows : q = sender[s]
      BY <1>a DEF TreeTypes
    <3> DEFINE r == [q EXCEPT !.at = "undoes"]
    <3>2. r \in SenderRows /\ r.at = "undoes" /\ r.of = q.of /\ r.name = q.name
      BY <3>1 DEF SenderRows, CreateAt
    <3>3. sender' = [sender EXCEPT ![s] = r]
      BY <2>3, <3>1, <1>a DEF Moves, TreeTypes
    <3> HIDE DEF r, t
    <3>4. TreeTypes'
      BY <1>a, <1>s, <2>1, <2>3, <3>2, <3>3 DEF TreeTypes, gitVars
    <3>5. ModesAreKept' /\ OneCreates'
      <4>1. r.at \in CreateAt
        BY <3>2 DEF CreateAt
      <4>2. ModesAreKept'
        BY <1>a, <2>1, <2>3, <3>1, <3>2, <3>3 DEF TreeTypes, ModesAreKept
      <4>3. OneCreates'
        BY <1>a, <1>n, <2>1, <2>3, <3>1, <3>2, <3>3, <4>1 DEF TreeTypes, OneCreates
      <4> QED
        BY <4>2, <4>3
    <3>6. NamesAreDrawn'
      BY <1>a, <2>1, <2>3, <3>1, <3>2, <3>3 DEF TreeTypes, NamesAreDrawn, gitVars
    <3>7. NothingLeaks'
      BY <1>a, <2>1, <2>3, <3>1, <3>2, <3>3
      DEF TreeTypes, NothingLeaks, gitVars, OnDisk, Accounted, CreateAt
    <3> QED
      BY <3>4, <3>5, <3>6, <3>7 DEF TreeInv
  <2> QED
    BY <1>4, <2>1, <2>2, <2>3 DEF StoreWorktree
<1>5. ASSUME NEW s \in Sender, UndoWorktree(s) PROVE TreeInv'
  <2> DEFINE w == sender[s].name
  <2>1. /\ sender[s].at = "undoes" /\ sender[s].at \in CreateAt /\ w \in Worktree
        /\ Rests(s) /\ Releases(sender[s].of) /\ UNCHANGED <<row, agentRun, cleanup>>
        /\ Removed(w) /\ sender[s].of \in Owner
    BY <1>5, <1>a DEF UndoWorktree, CreateAt, NamesAreDrawn, TreeTypes, SenderRows
  <2> HIDE DEF w
  <2>2. /\ tree' = [tree EXCEPT ![w] = "gone"] \/ UNCHANGED tree
        /\ branches' \subseteq branches /\ forsaken \subseteq forsaken'
        /\ forsaken' \subseteq forsaken \cup {w}
    BY <2>1 DEF Removed, gitVars
  <2>3. TreeTypes'
    BY <1>a, <1>n, <1>s, <2>1, <2>2 DEF TreeTypes, Rests, Releases, SenderRows
  <2>4. \A v \in Worktree : tree'[v] = tree[v] \/ (v = w /\ tree'[v] = "gone")
    BY <1>a, <2>1, <2>2 DEF TreeTypes
  <2>5. NamesAreDrawn'
    <3>1. sender' = [sender EXCEPT ![s] = Resting]
      BY <2>1 DEF Rests
    <3> QED
      BY <1>a, <1>n, <2>1, <2>2, <2>4, <3>1
      DEF TreeTypes, NamesAreDrawn, ThreadRows, SenderRows, Deletions
  <2>6. NothingLeaks'
    <3> SUFFICES ASSUME NEW v \in Worktree \ forsaken', OnDisk(v)'
                 PROVE  Accounted(v)'
      BY DEF NothingLeaks
    <3>1. v # w /\ v \notin forsaken /\ OnDisk(v)
      BY <1>a, <2>1, <2>2 DEF Removed, OnDisk, TreeTypes, gitVars
    <3>2. \A u \in Sender \ {s} : sender'[u] = sender[u]
      BY <1>a, <2>1 DEF TreeTypes, Rests
    <3>3. Accounted(v)
      BY <1>a, <3>1 DEF NothingLeaks
    <3> QED
      BY <1>k, <2>1, <3>1, <3>2, <3>3 DEF w
  <2> QED
    BY <1>r, <2>1, <2>3, <2>5, <2>6
<1>6. ASSUME NEW s \in Sender, SendIsDropped(s) PROVE TreeInv'
  <2> DEFINE t == sender[s].of
  <2>1. /\ sender[s].at # "idle" /\ t \in Owner
        /\ sender' = [sender EXCEPT ![s] = Resting]
        /\ creating' = IF creating[t] = s THEN [creating EXCEPT ![t] = "free"] ELSE creating
        /\ forsaken' = forsaken \cup ({sender[s].name} \ {None})
        /\ UNCHANGED <<row, gitVars, agentRun, cleanup>>
    BY <1>6, <1>a DEF SendIsDropped, TreeTypes, SenderRows, Rests
  <2> HIDE DEF t
  <2>2. TreeTypes'
    BY <1>a, <1>n, <1>s, <2>1 DEF TreeTypes, SenderRows, gitVars
  <2>3. ModesAreKept'
    BY <1>a, <1>n, <2>1 DEF TreeTypes, ModesAreKept
  <2>4. OneCreates'
    <3>1. ASSUME NEW u \in Owner, creating[u] = s
          PROVE  u = t /\ creating[t] = s
      BY <1>a, <1>n, <2>1, <3>1 DEF OneCreates, t
    <3>2. \A u \in Owner : creating'[u] # "free" =>
            creating'[u] = creating[u] /\ creating[u] # s
      BY <1>a, <1>n, <2>1, <3>1 DEF TreeTypes
    <3>3. Resting.at \notin CreateAt
      BY <1>n DEF CreateAt
    <3>4. \A u \in Sender : sender'[u] = IF u = s THEN Resting ELSE sender[u]
      BY <1>a, <2>1 DEF TreeTypes
    <3>5. \A u \in Sender : sender'[u].at \in CreateAt => creating'[sender'[u].of] = u
      <4> SUFFICES ASSUME NEW u \in Sender, sender'[u].at \in CreateAt
                   PROVE  creating'[sender'[u].of] = u
        OBVIOUS
      <4>1. u # s /\ sender'[u] = sender[u] /\ creating[sender[u].of] = u /\ sender[u].of \in Owner
        BY <1>a, <3>3, <3>4 DEF OneCreates, TreeTypes, SenderRows
      <4> QED
        BY <1>a, <2>1, <4>1 DEF TreeTypes
    <3>6. \A u \in Owner : creating'[u] # "free" =>
            sender'[creating'[u]].at \in CreateAt /\ sender'[creating'[u]].of = u
      BY <1>a, <3>2, <3>4 DEF OneCreates, TreeTypes
    <3>7. \A u \in Owner : creating'[u] # "free" /\ row'[u].live => row'[u].path = None
      BY <1>a, <2>1, <3>2 DEF OneCreates
    <3> QED
      BY <3>5, <3>6, <3>7 DEF OneCreates
  <2>5. NamesAreDrawn'
    BY <1>a, <1>n, <2>1 DEF TreeTypes, NamesAreDrawn, gitVars
  <2>6. NothingLeaks'
    <3> SUFFICES ASSUME NEW v \in Worktree \ forsaken', OnDisk(v)'
                 PROVE  Accounted(v)'
      BY DEF NothingLeaks
    <3>1. sender[s].name # v /\ v \notin forsaken /\ OnDisk(v)
      BY <1>n, <2>1 DEF OnDisk, gitVars
    <3>2. \A u \in Sender \ {s} : sender'[u] = sender[u]
      BY <1>a, <2>1 DEF TreeTypes
    <3>3. Accounted(v)
      BY <1>a, <3>1 DEF NothingLeaks
    <3> QED
      BY <1>k, <2>1, <3>1, <3>2, <3>3
  <2> QED
    BY <2>2, <2>3, <2>4, <2>5, <2>6 DEF TreeInv
<1>7. ASSUME NEW t \in Owner, RunEnds(t) PROVE TreeInv'
  <2>1. agentRun[t].runs /\ UNCHANGED <<gitVars, sender, creating, cleanup, forsaken>>
    BY <1>7 DEF RunEnds
  <2>2. PICK q \in AgentRuns : q = agentRun[t]
    BY <1>a DEF TreeTypes
  <2> DEFINE a == [q EXCEPT !.runs = FALSE]
  <2>3. a \in AgentRuns /\ a.runs = FALSE
    BY DEF AgentRuns
  <2>4. agentRun' = [agentRun EXCEPT ![t] = a]
    BY <1>7, <1>a, <2>2 DEF RunEnds, TreeTypes
  <2> HIDE DEF a
  <2>5. CASE UNCHANGED row
    <3>1. TreeTypes'
      BY <1>a, <2>1, <2>3, <2>4, <2>5 DEF TreeTypes, gitVars
    <3>2. ModesAreKept'
      BY <1>a, <2>1, <2>3, <2>4, <2>5 DEF TreeTypes, ModesAreKept
    <3> QED
      BY <1>a, <2>1, <2>5, <3>1, <3>2
      DEF TreeInv, OneCreates, NamesAreDrawn, NothingLeaks, gitVars, OnDisk, Accounted
  <2>6. ASSUME NEW w \in Registered, ~ agentRun[t].synced,
               row' = [row EXCEPT ![t].path = w, ![t].mode = "worktree"]
        PROVE  TreeInv'
    <3>1. PICK o \in ThreadRows : o = row[t]
      BY <1>a DEF TreeTypes
    <3> DEFINE r == [o EXCEPT !.path = w, !.mode = "worktree"]
    <3>2. r \in ThreadRows /\ r.path = w /\ r.mode = "worktree" /\ r.live = o.live
      BY DEF ThreadRows, Registered
    <3>3. row' = [row EXCEPT ![t] = r]
      BY <1>a, <2>6, <3>1 DEF TreeTypes
    <3> HIDE DEF r
    <3>4. row[t].mode = "local" /\ row[t].path = None
      BY <1>a, <2>1, <2>6 DEF ModesAreKept
    <3>5. w \in Worktree /\ tree[w] = "registered"
      BY <2>6 DEF Registered
    <3>6. TreeTypes'
      BY <1>a, <2>1, <2>3, <2>4, <3>2, <3>3 DEF TreeTypes, gitVars
    <3>7. ModesAreKept'
      BY <1>a, <2>1, <2>3, <2>4, <3>2, <3>3 DEF TreeTypes, ModesAreKept, SenderRows
    <3>8. \A s \in Sender : sender[s].at # "idle" => sender[s].of # t
      BY <1>a, <3>4 DEF ModesAreKept
    <3>9. creating[t] = "free"
      BY <1>a, <3>8 DEF OneCreates, TreeTypes, CreateAt
    <3>10. OneCreates'
      BY <1>a, <2>1, <3>2, <3>3, <3>9 DEF TreeTypes, OneCreates
    <3>11. NamesAreDrawn'
      BY <1>a, <2>1, <3>1, <3>2, <3>3, <3>5 DEF TreeTypes, NamesAreDrawn, gitVars
    <3>12. NothingLeaks'
      BY <1>a, <1>n, <2>1, <3>2, <3>3, <3>4
      DEF TreeTypes, NothingLeaks, gitVars, OnDisk, Accounted
    <3> QED
      BY <3>6, <3>7, <3>10, <3>11, <3>12 DEF TreeInv
  <2> QED
    BY <1>7, <2>5, <2>6 DEF RunEnds
\* A deletion moves on.
<1>d. ASSUME NEW t \in Owner, NEW d \in Deletions, cleanup' = [cleanup EXCEPT ![t] = d],
             UNCHANGED <<row, sender, creating, agentRun>>,
             d.name = cleanup[t].name, cleanup[t].at # "none",
             tree' \in [Worktree -> {"unused", "registered", "leftover", "gone"}],
             branches' \subseteq branches, forsaken \subseteq forsaken', forsaken' \subseteq Worktree,
             \A w \in Worktree : tree[w] # "unused" => tree'[w] # "unused",
             \A w \in Worktree : tree[w] \in {"unused", "gone"} => tree'[w] = tree[w],
             \A w \in Worktree : tree[w] # "registered" => tree'[w] # "registered",
             \A w \in Worktree : w # cleanup[t].name => tree'[w] = tree[w],
             d.at \in {"removes", "sweeps", "prunes"} => d.name # None,
             d.at = "sweeps" => d.name \in forsaken' \/ tree'[d.name] # "registered",
             d.at = "prunes" => d.name \in forsaken' \/ tree'[d.name] = "gone",
             \/ d.at \in CleanupAt
             \/ d.name = None
             \/ d.name \in forsaken'
             \/ tree'[d.name] \notin {"registered", "leftover"} /\ d.name \notin branches'
      PROVE  TreeInv'
  <2>1. TreeTypes' /\ cleanup'[t] = d /\ \A u \in Owner \ {t} : cleanup'[u] = cleanup[u]
    BY <1>a, <1>d DEF TreeTypes
  <2>2. ModesAreKept' /\ OneCreates'
    BY <1>a, <1>d DEF ModesAreKept, OneCreates
  <2>3. NamesAreDrawn'
    <3>1. \A u \in Owner : row[u].path \in Worktree \cup {None}
      BY <1>a DEF TreeTypes, ThreadRows
    <3>2. \A u \in Sender : sender[u].name \in Worktree \cup {None}
      BY <1>a DEF TreeTypes, SenderRows
    <3>3. \A u \in Owner : cleanup[u].name \in Worktree \cup {None}
      BY <1>a DEF TreeTypes, Deletions
    <3>4. \A w \in branches' : tree'[w] # "unused"
      BY <1>a, <1>d DEF NamesAreDrawn, TreeTypes
    <3>5. \A u \in Owner : row'[u].path # None => tree'[row'[u].path] # "unused"
      BY <1>a, <1>d, <3>1 DEF NamesAreDrawn
    <3>6. \A s \in Sender : sender'[s].at \in {"stores", "undoes"} =>
            sender'[s].name # None /\ tree'[sender'[s].name] # "unused"
      BY <1>a, <1>d, <3>2 DEF NamesAreDrawn
    <3>7. ASSUME NEW u \in Owner \ {t}
          PROVE  /\ row'[u].live => cleanup'[u].at = "none"
                 /\ cleanup'[u].name # None => tree'[cleanup'[u].name] # "unused"
                 /\ cleanup'[u].at \in {"removes", "sweeps", "prunes"} => cleanup'[u].name # None
                 /\ cleanup'[u].at = "sweeps" =>
                      cleanup'[u].name \in forsaken' \/ tree'[cleanup'[u].name] # "registered"
                 /\ cleanup'[u].at = "prunes" =>
                      cleanup'[u].name \in forsaken' \/ tree'[cleanup'[u].name] = "gone"
      BY <1>a, <1>d, <2>1, <3>3 DEF NamesAreDrawn
    <3>8. d.name # None => tree'[d.name] # "unused"
      BY <1>a, <1>d, <3>3 DEF NamesAreDrawn
    <3>9. \A s \in Sender : sender'[s].at \in {"locks", "adds"} => sender'[s].name = None
      BY <1>a, <1>d DEF NamesAreDrawn
    <3>10. ~ row'[t].live
      BY <1>a, <1>d DEF NamesAreDrawn
    <3> QED
      BY <1>d, <2>1, <3>10, <3>4, <3>5, <3>6, <3>7, <3>8, <3>9 DEF NamesAreDrawn
  <2>4. NothingLeaks'
    <3> SUFFICES ASSUME NEW v \in Worktree \ forsaken', OnDisk(v)'
                 PROVE  Accounted(v)'
      BY DEF NothingLeaks
    <3>1. OnDisk(v) /\ v \notin forsaken
      BY <1>a, <1>d DEF OnDisk, TreeTypes
    <3>2. Accounted(v)
      BY <1>a, <3>1 DEF NothingLeaks
    <3>3. CASE d.name # v \/ d.at \in CleanupAt
      BY <1>d, <2>1, <3>2, <3>3 DEF Accounted
    <3>4. CASE d.name = v /\ d.at \notin CleanupAt
      BY <1>d, <1>n, <3>4 DEF OnDisk
    <3> QED
      BY <3>3, <3>4
  <2> QED
    BY <2>1, <2>2, <2>3, <2>4 DEF TreeInv
\* The same, where only the place of the deletion is told.
<1>e. ASSUME NEW t \in Owner, NEW at \in {"none", "done"} \cup CleanupAt
      PROVE  /\ [cleanup[t] EXCEPT !.at = at] \in Deletions
             /\ [cleanup[t] EXCEPT !.at = at].at = at
             /\ [cleanup[t] EXCEPT !.at = at].name = cleanup[t].name
             /\ [cleanup EXCEPT ![t].at = at] = [cleanup EXCEPT ![t] = [cleanup[t] EXCEPT !.at = at]]
  <2>1. PICK d \in Deletions : d = cleanup[t]
    BY <1>a DEF TreeTypes
  <2>2. /\ [d EXCEPT !.at = at] \in Deletions
        /\ [d EXCEPT !.at = at].at = at /\ [d EXCEPT !.at = at].name = d.name
    BY DEF Deletions
  <2> QED
    BY <1>a, <2>1, <2>2 DEF TreeTypes
<1>8. ASSUME NEW t \in Owner, DeleteRowFirst(t) PROVE TreeInv'
  <2>1. row[t].live /\ UNCHANGED <<gitVars, sender, creating, agentRun, forsaken>>
    BY <1>8 DEF DeleteRowFirst
  <2>2. PICK o \in ThreadRows : o = row[t]
    BY <1>a DEF TreeTypes
  <2> DEFINE r == [o EXCEPT !.live = FALSE]
             d == [at |-> "waits", name |-> o.path]
  <2>3. /\ r \in ThreadRows /\ r.live = FALSE /\ r.mode = o.mode /\ r.path = o.path
        /\ d \in Deletions /\ d.at = "waits" /\ d.name = o.path /\ d.at \in CleanupAt
    BY DEF ThreadRows, Deletions, CleanupAt
  <2>4. row' = [row EXCEPT ![t] = r] /\ cleanup' = [cleanup EXCEPT ![t] = d]
    BY <1>8, <1>a, <2>2 DEF DeleteRowFirst, TreeTypes
  <2> HIDE DEF r, d
  <2>5. TreeTypes'
    BY <1>a, <2>1, <2>3, <2>4 DEF TreeTypes, gitVars
  <2>6. ModesAreKept' /\ OneCreates'
    BY <1>a, <2>1, <2>2, <2>3, <2>4 DEF TreeTypes, ModesAreKept, OneCreates
  <2>7. NamesAreDrawn'
    BY <1>a, <2>1, <2>2, <2>3, <2>4 DEF TreeTypes, NamesAreDrawn, gitVars
  <2>8. NothingLeaks'
    <3> SUFFICES ASSUME NEW v \in Worktree \ forsaken, OnDisk(v)
                 PROVE  Accounted(v)'
      BY <2>1 DEF NothingLeaks, OnDisk, gitVars
    <3>1. Accounted(v)
      BY <1>a DEF NothingLeaks
    <3>2. CASE \E u \in Owner : row[u].live /\ row[u].path = v
      <4>1. PICK u \in Owner : row[u].live /\ row[u].path = v
        BY <3>2
      <4>2. CASE u = t
        BY <1>a, <2>2, <2>3, <2>4, <4>1, <4>2 DEF Accounted, TreeTypes
      <4>3. CASE u # t
        BY <1>a, <2>4, <4>1, <4>3 DEF Accounted, TreeTypes
      <4> QED
        BY <4>2, <4>3
    <3>3. CASE \E u \in Owner : cleanup[u].at \in CleanupAt /\ cleanup[u].name = v
      <4>1. PICK u \in Owner : cleanup[u].at \in CleanupAt /\ cleanup[u].name = v
        BY <3>3
      <4>2. u # t
        BY <1>a, <2>1, <4>1 DEF NamesAreDrawn, CleanupAt
      <4> QED
        BY <1>a, <2>4, <4>1, <4>2 DEF Accounted, TreeTypes
    <3>4. CASE \E s \in Sender : sender[s].at \in CreateAt /\ sender[s].name = v
      BY <2>1, <3>4 DEF Accounted
    <3> QED
      BY <3>1, <3>2, <3>3, <3>4 DEF Accounted
  <2> QED
    BY <2>5, <2>6, <2>7, <2>8 DEF TreeInv
<1>9. ASSUME NEW t \in Owner, CleanupBegins(t) PROVE TreeInv'
  <2> DEFINE at == IF cleanup[t].name = None THEN "done" ELSE "removes"
             d == [cleanup[t] EXCEPT !.at = at]
  <2>1. at \in {"none", "done"} \cup CleanupAt
    BY DEF CleanupAt
  <2>2. /\ d \in Deletions /\ d.at = at /\ d.name = cleanup[t].name
        /\ cleanup' = [cleanup EXCEPT ![t] = d]
    BY <1>9, <1>e, <2>1 DEF CleanupBegins
  <2>3. UNCHANGED <<row, tree, branches, sender, creating, agentRun, forsaken>>
    BY <1>9 DEF CleanupBegins, gitVars
  <2>4. (d.at = "removes" /\ d.name # None) \/ (d.at = "done" /\ d.name = None)
    BY <2>2
  <2>5. cleanup[t].at # "none"
    BY <1>9 DEF CleanupBegins
  <2> HIDE DEF d, at
  <2> QED
    BY <1>a, <1>d, <2>2, <2>3, <2>4, <2>5 DEF TreeTypes, CleanupAt
<1>10. ASSUME NEW t \in Owner, CleanupRemoves(t) PROVE TreeInv'
  <2> DEFINE w == cleanup[t].name
             d == [cleanup[t] EXCEPT !.at = "sweeps"]
  <2>1. /\ d \in Deletions /\ d.at = "sweeps" /\ d.name = w /\ cleanup' = [cleanup EXCEPT ![t] = d]
        /\ cleanup[t].at # "none"
    BY <1>10, <1>e DEF CleanupRemoves, CleanupAt
  <2>2. w \in Worktree /\ w # None
    BY <1>10, <1>a DEF CleanupRemoves, NamesAreDrawn, TreeTypes, Deletions
  <2>3. UNCHANGED <<row, branches, sender, creating, agentRun>>
    BY <1>10 DEF CleanupRemoves
  <2>4. \/ /\ \E left \in {"gone", "leftover"} :
                tree' = [tree EXCEPT ![w] = IF @ = "registered" THEN left ELSE @]
           /\ UNCHANGED forsaken
        \/ forsaken' = forsaken \cup {w} /\ UNCHANGED tree
    BY <1>10 DEF CleanupRemoves
  <2>5. "sweeps" \in CleanupAt
    BY DEF CleanupAt
  <2> HIDE DEF d, w
  <2>6. tree' \in [Worktree -> {"unused", "registered", "leftover", "gone"}]
    BY <1>a, <2>2, <2>4 DEF TreeTypes
  <2>7. /\ \A v \in Worktree : v # w => tree'[v] = tree[v]
        /\ tree[w] # "registered" => tree'[w] = tree[w]
        /\ tree'[w] # "unused" \/ tree'[w] = tree[w]
        /\ w \in forsaken' \/ tree'[w] # "registered"
    BY <1>a, <2>2, <2>4 DEF TreeTypes
  <2>8. forsaken \subseteq forsaken' /\ forsaken' \subseteq Worktree
    BY <1>a, <2>2, <2>4 DEF TreeTypes
  <2> QED
    BY <1>d, <2>1, <2>2, <2>3, <2>5, <2>6, <2>7, <2>8 DEF w
<1>11. ASSUME NEW t \in Owner, CleanupSweeps(t) PROVE TreeInv'
  <2> DEFINE w == cleanup[t].name
             d == [cleanup[t] EXCEPT !.at = "prunes"]
  <2>1. /\ d \in Deletions /\ d.at = "prunes" /\ d.name = w /\ cleanup' = [cleanup EXCEPT ![t] = d]
        /\ cleanup[t].at # "none"
    BY <1>11, <1>e DEF CleanupSweeps, CleanupAt
  <2>2. w \in Worktree /\ w # None /\ tree[w] # "unused" /\ (w \in forsaken \/ tree[w] # "registered")
    BY <1>11, <1>a DEF CleanupSweeps, NamesAreDrawn, TreeTypes, Deletions
  <2>3. UNCHANGED <<row, branches, sender, creating, agentRun>>
    BY <1>11 DEF CleanupSweeps
  <2>4. \/ /\ tree' = [tree EXCEPT ![w] = IF @ = "leftover" THEN "gone" ELSE @]
           /\ UNCHANGED forsaken
        \/ forsaken' = forsaken \cup {w} /\ UNCHANGED tree
    BY <1>11 DEF CleanupSweeps
  <2>5. "prunes" \in CleanupAt
    BY DEF CleanupAt
  <2> HIDE DEF d, w
  <2>6. tree' \in [Worktree -> {"unused", "registered", "leftover", "gone"}]
    BY <1>a, <2>2, <2>4 DEF TreeTypes
  <2>7. /\ \A v \in Worktree : v # w => tree'[v] = tree[v]
        /\ tree[w] \in {"unused", "registered", "gone"} => tree'[w] = tree[w]
        /\ tree[w] = "leftover" => tree'[w] \in {"leftover", "gone"}
        /\ w \in forsaken' \/ tree'[w] = "gone"
    BY <1>a, <2>2, <2>4 DEF TreeTypes
  <2>8. forsaken \subseteq forsaken' /\ forsaken' \subseteq Worktree
    BY <1>a, <2>2, <2>4 DEF TreeTypes
  <2>9. tree[w] \in {"unused", "registered", "leftover", "gone"}
    BY <1>a, <2>2 DEF TreeTypes
  <2> QED
    BY <1>d, <2>1, <2>2, <2>3, <2>5, <2>6, <2>7, <2>8, <2>9 DEF w
<1>12. ASSUME NEW t \in Owner, CleanupPrunes(t) PROVE TreeInv'
  <2> DEFINE w == cleanup[t].name
             d == [cleanup[t] EXCEPT !.at = "done"]
  <2>1. /\ d \in Deletions /\ d.at = "done" /\ d.name = w /\ cleanup' = [cleanup EXCEPT ![t] = d]
        /\ cleanup[t].at # "none"
    BY <1>12, <1>e DEF CleanupPrunes, CleanupAt
  <2>2. w \in Worktree /\ (w \in forsaken \/ tree[w] = "gone")
    BY <1>12, <1>a DEF CleanupPrunes, NamesAreDrawn, TreeTypes, Deletions
  <2>3. /\ branches' = IF tree[w] = "registered" THEN branches ELSE branches \ {w}
        /\ UNCHANGED <<row, tree, sender, creating, agentRun, forsaken>>
    BY <1>12 DEF CleanupPrunes
  <2> HIDE DEF d, w
  <2>4. w \in forsaken' \/ (tree'[w] \notin {"registered", "leftover"} /\ w \notin branches')
    BY <2>2, <2>3
  <2> QED
    BY <1>a, <1>d, <2>1, <2>2, <2>3, <2>4 DEF w, TreeTypes
<1>13. ASSUME NEW t \in Owner, CleanupIsDropped(t) PROVE TreeInv'
  <2> DEFINE d == [cleanup[t] EXCEPT !.at = "done"]
  <2>1. /\ d \in Deletions /\ d.at = "done" /\ d.name = cleanup[t].name
        /\ cleanup' = [cleanup EXCEPT ![t] = d] /\ cleanup[t].at # "none"
    BY <1>13, <1>e DEF CleanupIsDropped, CleanupAt
  <2>2. /\ forsaken' = forsaken \cup ({cleanup[t].name} \ {None})
        /\ UNCHANGED <<row, tree, branches, sender, creating, agentRun>>
    BY <1>13 DEF CleanupIsDropped, gitVars
  <2>3. cleanup[t].name \in Worktree \cup {None}
    BY <1>a DEF TreeTypes, Deletions
  <2> HIDE DEF d
  <2>4. forsaken' \subseteq Worktree /\ (d.name = None \/ d.name \in forsaken')
    BY <1>a, <2>1, <2>2, <2>3 DEF TreeTypes
  <2> QED
    BY <1>a, <1>d, <2>1, <2>2, <2>3, <2>4 DEF TreeTypes
<1>14. CASE UNCHANGED worktreeVars
  BY <1>14, <1>a
  DEF worktreeVars, TreeInv, TreeTypes, ModesAreKept, OneCreates, NamesAreDrawn, NothingLeaks,
      OnDisk, Accounted
<1> QED
  BY <1>1, <1>2, <1>3, <1>4, <1>5, <1>6, <1>7, <1>8, <1>9, <1>10, <1>11, <1>12, <1>13, <1>14
  DEF WorktreeNext, SendStep, DeleteStep

-----------------------------------------------------------------------------
(* Clones *)

\* The directory git has begun is that of a request whose git has not run
\* through: it is at work, was killed, or the request goes on to remove it;
\* or it is what a request could not remove.
CloneInv ==
  /\ cloner \in [Cloner -> {"idle", "looks", "stores", "clones", "finishes", "records"}
                             \cup Cleaning \cup CloneOver]
  /\ target \in [is : {"absent", "partial", "whole"}, by : Cloner]
  /\ git \in [Cloner -> {"none", "runs", "done", "failed", "killed"}]
  /\ \A c \in Cloner : git[c] # "none" => cloner[c] \notin {"idle", "looks", "stores"}
  /\ \A c \in Cloner : cloner[c] \in {"finishes", "records", "created"} => git[c] = "done"
  /\ target.is = "partial" =>
       \/ cloner[target.by] = "left"
       \/ /\ git[target.by] \in {"runs", "killed"}
          /\ cloner[target.by] \in Cleaning \cup {"clones", "dropped"}

\* There is no directory at first.
LEMMA CloneInvInit == CloneInit => CloneInv
  BY CloneConstants DEF CloneInit, CloneInv

\* A directory that is half made keeps whoever will remove it, whichever requests
\* for it overlap and wherever git fails or is killed.
LEMMA CloneInvStep == CloneInv /\ [CloneNext]_cloneVars => CloneInv'
<1> SUFFICES ASSUME CloneInv, [CloneNext]_cloneVars
             PROVE  CloneInv'
  OBVIOUS
<1> USE DEF CloneInv, Passes, Cleaning, CloneOver
<1>1. ASSUME NEW c \in Cloner, CloneLooks(c) PROVE CloneInv'
  BY <1>1 DEF CloneLooks
<1>2. ASSUME NEW c \in Cloner, CloneLooksForRow(c) PROVE CloneInv'
  BY <1>2 DEF CloneLooksForRow
<1>3. ASSUME NEW c \in Cloner, StoreProject(c) PROVE CloneInv'
  BY <1>3 DEF StoreProject
<1>4. ASSUME NEW c \in Cloner, GitStarts(c) PROVE CloneInv'
  BY <1>4 DEF GitStarts
<1>5. ASSUME NEW c \in Cloner, GitEnds(c) PROVE CloneInv'
  BY <1>5 DEF GitEnds
<1>6. ASSUME NEW c \in Cloner, CloneTimesOut(c) PROVE CloneInv'
  BY <1>6 DEF CloneTimesOut
<1>7. ASSUME NEW c \in Cloner, CloneReturns(c) PROVE CloneInv'
  BY <1>7 DEF CloneReturns
<1>8. ASSUME NEW c \in Cloner, DropRow(c) PROVE CloneInv'
  BY <1>8 DEF DropRow
<1>9. ASSUME NEW c \in Cloner, RemoveTarget(c) PROVE CloneInv'
  BY <1>9 DEF RemoveTarget
<1>10. ASSUME NEW c \in Cloner, CloneFinishes(c) PROVE CloneInv'
  BY <1>10 DEF CloneFinishes
<1>11. ASSUME NEW c \in Cloner, HubRecords(c) PROVE CloneInv'
  BY <1>11 DEF HubRecords
<1>12. ASSUME NEW c \in Cloner, CloneIsDropped(c) PROVE CloneInv'
  BY <1>12 DEF CloneIsDropped
<1>13. CASE UNCHANGED cloneVars
  BY <1>13 DEF cloneVars
<1> QED
  BY <1>1, <1>2, <1>3, <1>4, <1>5, <1>6, <1>7, <1>8, <1>9, <1>10, <1>11, <1>12, <1>13
  DEF CloneNext, CloneStep

-----------------------------------------------------------------------------
(* Bundles *)

\* Who has the lock is the only one that is past it.
LockIsHeld ==
  \A c \in Tab : change[c].at \in {"stores", "extracts", "merges", "prunes"} <=> serverLock = c

\* A task of the blocking pool works for the request that holds the lock, on
\* its bundles only, unless a dropped request has put all bundles at risk.
WorkIsOwned ==
  upset = Bundle \/
    \A c \in Tab :
      /\ work[c] # NoWork => change[c].at \in {"extracts", "prunes"}
      /\ work[c].kind \in {"clear", "unzip"} =>
           change[c].at = "extracts" /\ work[c].to = change[c].to
      /\ work[c].kind = "prune" => change[c].at = "prunes" /\ servers \ (loose \cup upset) \subseteq work[c].to
      /\ change[c].at = "merges" => \A b \in change[c].to : files[b] = "whole"

\* The types of requests and of tasks.
ServerChanges == [at : {"none", "locks", "stores", "extracts", "merges", "prunes"},
            kind : {"save", "install"}, to : SUBSET Bundle]
\* The types of what a blocking task still has to do.
Works == [kind : {"none", "clear", "unzip", "prune"}, to : SUBSET Bundle]

\* The list, the files, and what is under way for them.
BundleInv ==
  /\ servers \subseteq Bundle /\ loose \subseteq servers /\ upset \subseteq Bundle
  /\ files \in [Bundle -> {"absent", "partial", "whole"}]
  /\ shownList \in [Tab -> SUBSET Bundle]
  /\ change \in [Tab -> ServerChanges] /\ work \in [Tab -> Works]
  /\ serverLock \in Tab \cup {Nobody}
  /\ \A c \in Tab : change[c].at \in {"extracts", "merges"} => change[c].kind = "install"
  /\ LockIsHeld /\ WorkIsOwned /\ StoredServerHasBundle

\* There are no servers at first.
LEMMA BundleInvInit == BundleInit => BundleInv
  BY BundleConstants DEF BundleInit, Nobody, BundleInv, LockIsHeld, WorkIsOwned,
                         StoredServerHasBundle, NoWork, NoChange,
     ServerChanges, Works

\* However requests of several tabs overlap, fail or are dropped, what is stored
\* and not upset has its files.
LEMMA BundleInvStep == BundleInv /\ [BundleNext]_bundleVars => BundleInv'
<1> SUFFICES ASSUME BundleInv, [BundleNext]_bundleVars
             PROVE  BundleInv'
  OBVIOUS
<1>b. Nobody \notin Tab
  BY BundleConstants DEF Nobody
<1>a. /\ servers \subseteq Bundle /\ loose \subseteq servers /\ upset \subseteq Bundle
      /\ files \in [Bundle -> {"absent", "partial", "whole"}]
      /\ shownList \in [Tab -> SUBSET Bundle]
      /\ change \in [Tab -> ServerChanges] /\ work \in [Tab -> Works]
      /\ serverLock \in Tab \cup {Nobody}
      /\ \A c \in Tab : change[c].at \in {"extracts", "merges"} => change[c].kind = "install"
      /\ LockIsHeld /\ WorkIsOwned /\ StoredServerHasBundle
  BY DEF BundleInv
<1>n. NoChange \in ServerChanges /\ NoChange.at = "none" /\ NoWork \in Works /\ NoWork.kind = "none"
  BY DEF NoChange, ServerChanges, NoWork, Works
<1>1. ASSUME NEW c \in Tab, LoadServers(c) PROVE BundleInv'
  BY <1>1, <1>a DEF LoadServers, BundleInv, LockIsHeld, WorkIsOwned, StoredServerHasBundle
<1>r. ASSUME NEW c \in Tab, NEW r \in ServerChanges, change' = [change EXCEPT ![c] = r],
             r.at = "locks", work[c] = NoWork, change[c].at = "none",
             UNCHANGED <<servers, loose, files, shownList, serverLock, work, upset>>
      PROVE  BundleInv'
  <2>1. change' \in [Tab -> ServerChanges]
    BY <1>a, <1>r
  <2> QED
    BY <1>r, <1>a, <1>n, <2>1 DEF BundleInv, LockIsHeld, WorkIsOwned, StoredServerHasBundle
<1>2. ASSUME NEW c \in Tab, SaveServers(c) PROVE BundleInv'
  <2>1. PICK keep \in SUBSET shownList[c] :
          change' = [change EXCEPT ![c] = [at |-> "locks", kind |-> "save", to |-> keep]]
    BY <1>2 DEF SaveServers
  <2>2. [at |-> "locks", kind |-> "save", to |-> keep] \in ServerChanges
    BY <1>a DEF ServerChanges
  <2> QED
    BY <1>2, <1>r, <2>1, <2>2 DEF SaveServers, Done
<1>3. ASSUME NEW c \in Tab, InstallBundle(c) PROVE BundleInv'
  <2>1. PICK b \in Bundle :
          change' = [change EXCEPT ![c] = [at |-> "locks", kind |-> "install", to |-> {b}]]
    BY <1>3 DEF InstallBundle
  <2>2. [at |-> "locks", kind |-> "install", to |-> {b}] \in ServerChanges
    BY <1>a DEF ServerChanges
  <2> QED
    BY <1>3, <1>r, <2>1, <2>2 DEF InstallBundle, Done
<1>4. ASSUME NEW c \in Tab, TakeServersLock(c) PROVE BundleInv'
  <2>1. PICK r \in ServerChanges : r = change[c]
    BY <1>a
  <2>2. r.at = "locks" /\ r.kind \in {"save", "install"} /\ r.to \subseteq Bundle
    BY <1>4, <2>1 DEF TakeServersLock, ServerChanges
  <2>3. ASSUME NEW d \in Tab
        PROVE  change[d].at \in {"none", "locks"}
    <3>1. serverLock = Nobody
      BY <1>4 DEF TakeServersLock
    <3> QED
      BY <1>a, <1>b, <3>1 DEF LockIsHeld, ServerChanges
  <2> DEFINE s == [r EXCEPT !.at = FirstStep(c)]
             w == [kind |-> "clear", to |-> r.to]
  <2>4. /\ s \in ServerChanges /\ s.kind = r.kind /\ s.to = r.to
        /\ s.at = IF r.kind = "save" THEN "stores" ELSE "extracts"
    BY <2>1 DEF ServerChanges, FirstStep
  <2>5. w \in Works /\ w.kind = "clear" /\ w.to = r.to
    BY <2>2 DEF Works
  <2>6. change' = [change EXCEPT ![c] = s] /\ serverLock' = c
    BY <1>4, <2>1, <1>a DEF TakeServersLock, GoesOnTo
  <2>7. work' = IF r.kind = "save" THEN work ELSE [work EXCEPT ![c] = w]
    BY <1>4, <2>1 DEF TakeServersLock, HandsOver
  <2>8. UNCHANGED <<servers, loose, files, shownList, upset>>
    BY <1>4 DEF TakeServersLock
  <2> HIDE DEF s, w
  <2>9. change' \in [Tab -> ServerChanges] /\ work' \in [Tab -> Works]
    BY <1>a, <2>4, <2>5, <2>6, <2>7
  <2>10. LockIsHeld'
    BY <1>a, <1>b, <2>3, <2>4, <2>6, <2>2 DEF LockIsHeld
  <2>11. StoredServerHasBundle'
    BY <1>a, <2>3, <2>4, <2>6, <2>8 DEF StoredServerHasBundle
  <2>12. WorkIsOwned'
    BY <1>a, <1>n, <2>2, <2>3, <2>4, <2>5, <2>6, <2>7, <2>8 DEF WorkIsOwned
  <2> QED
    BY <1>a, <2>2, <2>4, <2>6, <2>8, <2>9, <2>10, <2>11, <2>12 DEF BundleInv
<1>p. ASSUME NEW c \in Tab, NEW list \in SUBSET Bundle, Replies(c, list),
             UNCHANGED <<files, work>>,
             servers' \subseteq Bundle, loose' \subseteq servers', upset \subseteq upset', upset' \subseteq Bundle,
             \A b \in servers' \ (loose' \cup upset') :
               files[b] = "whole" \/ \E d \in Tab \ {c} : change[d].at = "extracts"
                                                          /\ b \in change[d].to,
             \/ upset' = Bundle
             \/ /\ work[c] = NoWork
                /\ \A d \in Tab \ {c} : work[d].kind = "prune" =>
                     servers' \ (loose' \cup upset') \subseteq work[d].to
      PROVE  BundleInv'
  <2>1. change' = [change EXCEPT ![c] = NoChange] /\ shownList' \in [Tab -> SUBSET Bundle]
    BY <1>p, <1>a DEF Replies
  <2>2. change' \in [Tab -> ServerChanges]
    BY <1>a, <1>n, <2>1
  <2>3. LockIsHeld'
    BY <1>p, <1>a, <1>b, <1>n, <2>1 DEF LockIsHeld, Replies
  <2>4. StoredServerHasBundle'
    BY <1>p, <1>a, <2>1 DEF StoredServerHasBundle
  <2>5. WorkIsOwned'
    <3>1. CASE upset' = Bundle
      BY <3>1 DEF WorkIsOwned
    <3>2. CASE upset' # Bundle
      <4>1. upset # Bundle
        BY <1>p, <3>2
      <4> QED
        BY <1>p, <1>a, <1>n, <2>1, <3>2, <4>1 DEF WorkIsOwned
    <3> QED
      BY <3>1, <3>2
  <2>6. serverLock' \in Tab \cup {Nobody}
    BY <1>p, <1>a DEF Replies
  <2> QED
    BY <1>p, <1>a, <1>n, <2>1, <2>2, <2>3, <2>4, <2>5, <2>6 DEF BundleInv
<1>q. ASSUME NEW c \in Tab, change[c].at \in {"stores", "extracts", "merges", "prunes"},
             NEW d \in Tab \ {c}
      PROVE  change[d].at \in {"none", "locks"}
  <2>1. serverLock # d
    BY <1>a, <1>q DEF LockIsHeld
  <2> QED
    BY <1>a, <2>1 DEF LockIsHeld, ServerChanges
<1>h. ASSUME NEW c \in Tab, NEW to \in SUBSET Bundle,
             change[c].at \in {"stores", "merges"}, GoesOnTo(c, "prunes"),
             HandsOver(c, "prune", to), UNCHANGED <<files, serverLock, shownList>>,
             servers' \subseteq Bundle, loose' \subseteq servers', upset \subseteq upset', upset' \subseteq Bundle,
             servers' \ (loose' \cup upset') \subseteq servers \ (loose \cup upset), servers' \ (loose' \cup upset') \subseteq to
      PROVE  BundleInv'
  <2>1. PICK r \in ServerChanges : r = change[c]
    BY <1>a
  <2> DEFINE s == [r EXCEPT !.at = "prunes"]
             w == [kind |-> "prune", to |-> to]
  <2>2. s \in ServerChanges /\ s.at = "prunes" /\ w \in Works /\ w.kind = "prune" /\ w.to = to
    BY DEF ServerChanges, Works
  <2>3. change' = [change EXCEPT ![c] = s] /\ work' = [work EXCEPT ![c] = w]
    BY <1>a, <1>h, <2>1 DEF GoesOnTo, HandsOver
  <2> HIDE DEF s, w
  <2>4. change' \in [Tab -> ServerChanges] /\ work' \in [Tab -> Works]
    BY <1>a, <2>2, <2>3
  <2>5. LockIsHeld'
    BY <1>a, <1>h, <2>2, <2>3 DEF LockIsHeld
  <2>6. StoredServerHasBundle'
    BY <1>a, <1>h, <1>q, <2>2, <2>3 DEF StoredServerHasBundle
  <2>7. WorkIsOwned'
    <3>1. CASE upset' = Bundle
      BY <3>1 DEF WorkIsOwned
    <3>2. CASE upset' # Bundle
      <4>1. upset # Bundle
        BY <1>h, <3>2
      <4> QED
        BY <1>a, <1>h, <1>n, <1>q, <2>2, <2>3, <4>1 DEF WorkIsOwned
    <3> QED
      BY <3>1, <3>2
  <2> QED
    BY <1>a, <1>h, <2>2, <2>3, <2>4, <2>5, <2>6, <2>7 DEF BundleInv
<1>5. ASSUME NEW c \in Tab, StoreServers(c) PROVE BundleInv'
  <2>1. change[c].at = "stores" /\ UNCHANGED files /\ change[c].to \subseteq Bundle
    BY <1>5, <1>a DEF StoreServers, ServerChanges
  <2>2. CASE /\ servers' = change[c].to /\ upset' = upset \cup (change[c].to \ (servers \ loose))
             /\ loose' \in SUBSET change[c].to
             /\ GoesOnTo(c, "prunes") /\ HandsOver(c, "prune", change[c].to \ loose')
             /\ UNCHANGED <<serverLock, shownList>>
    <3>1. change[c].to \ loose' \in SUBSET Bundle
      BY <2>1
    <3>2. /\ servers' \subseteq Bundle /\ loose' \subseteq servers' /\ upset \subseteq upset'
          /\ upset' \subseteq Bundle
          /\ servers' \ (loose' \cup upset') \subseteq servers \ (loose \cup upset)
          /\ servers' \ (loose' \cup upset') \subseteq change[c].to \ loose'
      BY <1>a, <2>1, <2>2
    <3> QED
      BY <1>h, <2>1, <2>2, <3>1, <3>2
  <2>3. CASE Replies(c, shownList[c]) /\ UNCHANGED <<servers, loose, work, upset>>
    <3>1. upset = Bundle \/ work[c] = NoWork
      BY <1>a, <2>1 DEF WorkIsOwned
    <3>2. shownList[c] \in SUBSET Bundle
      BY <1>a
    <3> QED
      BY <1>a, <1>p, <2>1, <2>3, <3>1, <3>2 DEF StoredServerHasBundle, WorkIsOwned
  <2> QED
    BY <1>5, <2>2, <2>3 DEF StoreServers
<1>6. ASSUME NEW c \in Tab, InstallReturns(c) PROVE BundleInv'
  <2>1. /\ change[c].at = "extracts" /\ change[c].kind = "install" /\ work[c] = NoWork
        /\ UNCHANGED <<servers, loose, files, work>> /\ change[c].to \subseteq Bundle
    BY <1>6, <1>a DEF InstallReturns, Done, ServerChanges
  <2>2. CASE /\ \A b \in change[c].to : files[b] = "whole"
             /\ GoesOnTo(c, "merges") /\ UNCHANGED <<serverLock, shownList, upset>>
    <3>1. PICK r \in ServerChanges : r = change[c]
      BY <1>a
    <3> DEFINE s == [r EXCEPT !.at = "merges"]
    <3>2. s \in ServerChanges /\ s.at = "merges" /\ s.kind = r.kind /\ s.to = r.to
      BY DEF ServerChanges
    <3>3. change' = [change EXCEPT ![c] = s]
      BY <1>a, <2>2, <3>1 DEF GoesOnTo
    <3> HIDE DEF s
    <3>4. change' \in [Tab -> ServerChanges]
      BY <1>a, <3>2, <3>3
    <3>5. LockIsHeld' /\ StoredServerHasBundle'
      BY <1>a, <2>1, <2>2, <3>1, <3>2, <3>3 DEF LockIsHeld, StoredServerHasBundle
    <3>6. WorkIsOwned'
      BY <1>a, <1>n, <2>1, <2>2, <3>1, <3>2, <3>3 DEF WorkIsOwned
    <3> QED
      BY <1>a, <2>1, <2>2, <3>1, <3>2, <3>3, <3>4, <3>5, <3>6 DEF BundleInv
  <2>3. CASE Replies(c, shownList[c]) /\ upset' = upset \cup Asked(c)
    <3>1. Asked(c) = change[c].to
      BY <2>1 DEF Asked
    <3>2. \A d \in Tab \ {c} : change[d].at # "extracts" /\ change[d].at # "prunes"
      BY <1>q, <2>1
    <3>3. \A d \in Tab \ {c} : work[d].kind = "prune" => upset = Bundle
      BY <1>a, <3>2 DEF WorkIsOwned
    <3>4. \A b \in servers' \ (loose' \cup upset') : files[b] = "whole"
      BY <1>a, <2>1, <2>3, <3>1, <3>2 DEF StoredServerHasBundle
    <3>5. shownList[c] \in SUBSET Bundle /\ upset' \subseteq Bundle
      BY <1>a, <2>1, <2>3, <3>1
    <3>6. upset' = Bundle \/ \A d \in Tab \ {c} : work[d].kind # "prune"
      BY <3>3, <2>3, <3>5
    <3> QED
      BY <1>a, <1>p, <2>1, <2>3, <3>4, <3>5, <3>6
  <2> QED
    BY <1>6, <2>2, <2>3 DEF InstallReturns
<1>7. ASSUME NEW c \in Tab, MergeServers(c) PROVE BundleInv'
  <2>1. /\ change[c].at = "merges" /\ change[c].kind = "install" /\ UNCHANGED files
        /\ change[c].to \subseteq Bundle /\ Asked(c) = change[c].to
    BY <1>7, <1>a DEF MergeServers, ServerChanges, Asked
  <2>2. \A d \in Tab \ {c} : change[d].at # "extracts" /\ change[d].at # "prunes"
    BY <1>q, <2>1
  <2>3. upset = Bundle \/ /\ \A b \in change[c].to : files[b] = "whole"
                          /\ \A d \in Tab : work[d] = NoWork
    BY <1>a, <2>1, <2>2 DEF WorkIsOwned
  <2>4. \A b \in servers \ (loose \cup upset) : files[b] = "whole"
    BY <1>a, <2>1, <2>2 DEF StoredServerHasBundle
  <2>5. shownList[c] \in SUBSET Bundle /\ Merged(c) \in SUBSET Bundle
    BY <1>a, <2>1 DEF Merged
  <2>6. CASE /\ servers' = Merged(c) /\ Replies(c, Merged(c))
             /\ loose' \in {loose \ change[c].to, loose \cup change[c].to}
             /\ UNCHANGED <<work, upset>>
    <3>2. loose' \subseteq servers'
      BY <1>a, <2>6 DEF Merged
    <3>1. \A b \in servers' \ (loose' \cup upset') : files[b] = "whole"
      BY <1>a, <2>3, <2>4, <2>5, <2>6 DEF Merged
    <3> QED
      BY <1>a, <1>n, <1>p, <2>1, <2>3, <2>5, <2>6, <3>1, <3>2
  <2>7. CASE /\ HandsOver(c, "prune", servers \ (loose \cup change[c].to)) /\ GoesOnTo(c, "prunes")
             /\ upset' = upset \cup Asked(c)
             /\ UNCHANGED <<servers, loose, serverLock, shownList>>
    <3>1. servers \ (loose \cup change[c].to) \in SUBSET Bundle /\ upset' \subseteq Bundle
      BY <1>a, <2>1, <2>7
    <3> QED
      BY <1>a, <1>h, <2>1, <2>7, <3>1
  <2>8. CASE /\ Replies(c, shownList[c]) /\ upset' = upset \cup Asked(c)
             /\ UNCHANGED <<servers, loose, work>>
    <3>1. upset' \subseteq Bundle /\ (upset = Bundle => upset' = Bundle)
      BY <1>a, <2>1, <2>8
    <3> QED
      BY <1>a, <1>n, <1>p, <2>1, <2>3, <2>4, <2>5, <2>8, <3>1
  <2> QED
    BY <1>7, <2>6, <2>7, <2>8 DEF MergeServers
<1>8. ASSUME NEW c \in Tab, PruneReturns(c) PROVE BundleInv'
  <2>1. change[c].at = "prunes" /\ work[c] = NoWork /\ UNCHANGED <<servers, loose, files, work, upset>>
    BY <1>8 DEF PruneReturns, Done
  <2>2. change[c].to \in SUBSET Bundle /\ shownList[c] \in SUBSET Bundle
    BY <1>a DEF ServerChanges
  <2> DEFINE list == IF change[c].kind = "save" THEN change[c].to ELSE shownList[c]
  <2>3. list \in SUBSET Bundle /\ Replies(c, list)
    BY <1>8, <2>2 DEF PruneReturns
  <2> HIDE DEF list
  <2> QED
    BY <1>a, <1>p, <2>1, <2>3 DEF StoredServerHasBundle, WorkIsOwned
<1>9. ASSUME NEW c \in Tab, ChangeIsDropped(c) PROVE BundleInv'
  <2>1. change[c].at # "none" /\ Replies(c, shownList[c]) /\ UNCHANGED <<servers, loose, files, work>>
    BY <1>9 DEF ChangeIsDropped
  <2>2. shownList[c] \in SUBSET Bundle /\ change[c].to \in SUBSET Bundle
    BY <1>a DEF ServerChanges
  <2>3. CASE change[c].at = "locks"
    <3>1. upset' = upset /\ (upset = Bundle \/ work[c] = NoWork)
      BY <1>9, <1>a, <2>3 DEF ChangeIsDropped, WorkIsOwned
    <3> QED
      BY <1>a, <1>p, <2>1, <2>2, <2>3, <3>1 DEF StoredServerHasBundle, WorkIsOwned
  <2>4. CASE change[c].at # "locks" /\ work[c] = NoWork
    <3>1. upset' = upset \cup Asked(c)
      BY <1>9, <2>4 DEF ChangeIsDropped, Done
    <3>2. upset' \subseteq Bundle /\ (upset = Bundle => upset' = Bundle)
      BY <1>a, <2>2, <3>1 DEF Asked
    <3>3. change[c].at = "extracts" => Asked(c) = change[c].to
      BY <1>a DEF Asked
    <3>4. \A b \in servers' \ (loose' \cup upset') :
            files[b] = "whole" \/ \E d \in Tab \ {c} : change[d].at = "extracts"
                                                       /\ b \in change[d].to
      BY <1>a, <2>1, <3>1, <3>3 DEF StoredServerHasBundle
    <3>5. upset' = Bundle \/ \A d \in Tab \ {c} : work[d].kind = "prune" =>
                               servers' \ (loose' \cup upset') \subseteq work[d].to
      BY <1>a, <2>1, <3>1, <3>2 DEF WorkIsOwned
    <3> QED
      BY <1>a, <1>p, <2>1, <2>2, <2>4, <3>1, <3>2, <3>4, <3>5
  <2>5. CASE change[c].at # "locks" /\ work[c] # NoWork
    <3>1. upset' = Bundle
      BY <1>9, <2>5 DEF ChangeIsDropped, Done
    <3> QED
      BY <1>a, <1>p, <2>1, <2>2, <3>1
  <2> QED
    BY <2>3, <2>4, <2>5
<1>10. ASSUME NEW c \in Tab, BundleIsCleared(c) PROVE BundleInv'
  <2>1. /\ work[c].kind = "clear" /\ UNCHANGED <<servers, loose, shownList, change, serverLock, upset>>
        /\ files' = [b \in Bundle |-> IF b \in work[c].to THEN "partial" ELSE files[b]]
    BY <1>10 DEF BundleIsCleared
  <2>2. PICK w \in Works : w = work[c]
    BY <1>a
  <2> DEFINE v == [w EXCEPT !.kind = "unzip"]
  <2>3. v \in Works /\ v.kind = "unzip" /\ v.to = w.to
    BY DEF Works
  <2>4. work' = [work EXCEPT ![c] = v]
    BY <1>10, <1>a, <2>2 DEF BundleIsCleared
  <2> HIDE DEF v
  <2>5. work' \in [Tab -> Works] /\ files' \in [Bundle -> {"absent", "partial", "whole"}]
    BY <1>a, <2>1, <2>3, <2>4
  <2>6. StoredServerHasBundle'
    BY <1>a, <2>1, <2>2 DEF StoredServerHasBundle, WorkIsOwned
  <2>7. WorkIsOwned'
    <3>1. CASE upset = Bundle
      BY <2>1, <3>1 DEF WorkIsOwned
    <3>2. CASE upset # Bundle
      <4>1. change[c].at = "extracts"
        BY <1>a, <2>1, <3>2 DEF WorkIsOwned
      <4>2. \A d \in Tab \ {c} : change[d].at # "merges"
        BY <1>q, <4>1
      <4> QED
        BY <1>a, <1>n, <2>1, <2>2, <2>3, <2>4, <3>2, <4>1, <4>2 DEF WorkIsOwned
    <3> QED
      BY <3>1, <3>2
  <2> QED
    BY <1>a, <2>1, <2>5, <2>6, <2>7 DEF BundleInv, LockIsHeld
<1>11. ASSUME NEW c \in Tab, BundleIsExtracted(c) PROVE BundleInv'
  <2>1. /\ work[c].kind = "unzip" /\ UNCHANGED <<servers, loose, shownList, change, serverLock, upset>>
        /\ work' = [work EXCEPT ![c] = NoWork]
    BY <1>11 DEF BundleIsExtracted
  <2>2. PICK left \in {"absent", "whole"} :
          files' = [b \in Bundle |-> IF b \notin work[c].to THEN files[b]
                                     ELSE IF files[b] = "absent" THEN "absent" ELSE left]
    BY <1>11 DEF BundleIsExtracted
  <2>3. work' \in [Tab -> Works] /\ files' \in [Bundle -> {"absent", "partial", "whole"}]
    BY <1>a, <1>n, <2>1, <2>2
  <2>4. StoredServerHasBundle'
    BY <1>a, <2>1, <2>2 DEF StoredServerHasBundle, WorkIsOwned
  <2>5. WorkIsOwned'
    <3>1. CASE upset = Bundle
      BY <2>1, <3>1 DEF WorkIsOwned
    <3>2. CASE upset # Bundle
      <4>1. change[c].at = "extracts"
        BY <1>a, <2>1, <3>2 DEF WorkIsOwned
      <4>2. \A d \in Tab \ {c} : change[d].at # "merges"
        BY <1>q, <4>1
      <4> QED
        BY <1>a, <1>n, <2>1, <3>2, <4>1, <4>2 DEF WorkIsOwned
    <3> QED
      BY <3>1, <3>2
  <2> QED
    BY <1>a, <2>1, <2>3, <2>4, <2>5 DEF BundleInv, LockIsHeld
<1>12. ASSUME NEW c \in Tab, BundlesArePruned(c) PROVE BundleInv'
  <2>1. /\ work[c].kind = "prune" /\ UNCHANGED <<servers, loose, shownList, change, serverLock, upset>>
        /\ work' = [work EXCEPT ![c] = NoWork]
        /\ \A b \in work[c].to \cap Bundle : files'[b] = files[b]
        /\ files' \in [Bundle -> {"absent", "partial", "whole"}]
    BY <1>12, <1>a DEF BundlesArePruned
  <2>2. work' \in [Tab -> Works] /\ files' \in [Bundle -> {"absent", "partial", "whole"}]
    BY <1>a, <1>n, <2>1
  <2>3. StoredServerHasBundle'
    BY <1>a, <2>1 DEF StoredServerHasBundle, WorkIsOwned
  <2>4. WorkIsOwned'
    <3>1. CASE upset = Bundle
      BY <2>1, <3>1 DEF WorkIsOwned
    <3>2. CASE upset # Bundle
      <4>1. change[c].at = "prunes"
        BY <1>a, <2>1, <3>2 DEF WorkIsOwned
      <4>2. \A d \in Tab \ {c} : change[d].at # "merges"
        BY <1>q, <4>1
      <4> QED
        BY <1>a, <1>n, <2>1, <3>2, <4>1, <4>2 DEF WorkIsOwned
    <3> QED
      BY <3>1, <3>2
  <2> QED
    BY <1>a, <2>1, <2>2, <2>3, <2>4 DEF BundleInv, LockIsHeld
<1>13. CASE UNCHANGED bundleVars
  BY <1>13, <1>a DEF bundleVars, BundleInv, LockIsHeld, WorkIsOwned, StoredServerHasBundle
<1> QED
  BY <1>1, <1>2, <1>3, <1>4, <1>5, <1>6, <1>7, <1>8, <1>9, <1>10, <1>11, <1>12, <1>13
  DEF BundleNext, BundleStep

-----------------------------------------------------------------------------
(* Usage *)

\* What the counter went from a to b at, while the tokens used went from x to y,
\* is at least what record_turn_usage counts for it.
Covers(x, a, y, b) == x =< y /\ (b >= a => b - a =< y - x) /\ (b < a => b =< y - x)

\* The turns whose snapshot is not recorded yet.
Pending == {t \in Prompted : turn[t].at \in {"ended", "read"}}

\* The types of turns.
Turns == [at : {"off", "works", "ended", "read", "over"}, fresh : BOOLEAN,
          snap : Nat, blank : BOOLEAN, nth : Nat, prev : Nat \cup {NoRow}]

\* at[n] is what had been used when the n-th snapshot was taken; the counter of
\* the stored one is known, whether or not it told it.
Booked(at) ==
  /\ \A t \in Pending : turn[t].nth \in 1..taken /\ turn[t].nth # newest
  /\ \A t, u \in Pending : turn[t].nth = turn[u].nth => t = u
  /\ \A t \in Pending : Covers(at[turn[t].nth], turn[t].snap, used, counter)
  /\ \A t, u \in Pending : turn[t].nth < turn[u].nth =>
       Covers(at[turn[t].nth], turn[t].snap, at[turn[u].nth], turn[u].snap)
  /\ \A t \in Pending : turn[t].fresh => turn[t].snap =< at[turn[t].nth]
  /\ stored # NoRow =>
       /\ Covers(at[newest], known, used, counter)
       /\ \A t \in Pending : turn[t].nth > newest =>
            Covers(at[newest], known, at[turn[t].nth], turn[t].snap)
       /\ ~ recordedLate => ledger =< at[newest] + regained

\* One recorder at a time is between its reading and its writing.
LedgerInv ==
  /\ counter \in Nat /\ stored \in Nat \cup {NoRow} /\ ledger \in Nat
  /\ turn \in [Prompted -> Turns]
  /\ writer \in Prompted \cup {NoWriter}
  /\ newest \in Nat /\ taken \in Nat /\ used \in Nat /\ recordedLate \in BOOLEAN
  /\ known \in Nat /\ regained \in Nat
  /\ newest =< taken
  /\ \A t \in Prompted : turn[t].at = "read" => writer = t /\ turn[t].prev = stored
  /\ stored = NoRow => ledger = 0 /\ newest = 0
  /\ stored # NoRow => stored \in {0, known}
  /\ (\E t \in Prompted : turn[t].fresh) => counter =< used
  /\ \E at \in [Nat -> Nat] : Booked(at)

\* Nothing has been used, taken or booked at first.
LEMMA LedgerInvInit == UsageInit => LedgerInv
<1> SUFFICES ASSUME UsageInit PROVE LedgerInv
  OBVIOUS
<1> DEFINE r == [at |-> "off", fresh |-> FALSE, snap |-> 0, blank |-> FALSE, nth |-> 0,
                   prev |-> NoRow]
<1>1. r \in Turns /\ r.at = "off" /\ r.fresh = FALSE
  BY DEF Turns
<1>2. turn = [t \in Prompted |-> r]
  BY DEF UsageInit
<1> HIDE DEF r
<1>3. Pending = {}
  BY <1>1, <1>2 DEF Pending
<1>4. [n \in Nat |-> 0] \in [Nat -> Nat] /\ Booked([n \in Nat |-> 0])
  BY <1>3 DEF Booked, UsageInit
<1>5. \E at \in [Nat -> Nat] : Booked(at)
  BY <1>4
<1>6. turn \in [Prompted -> Turns] /\ \A t \in Prompted : turn[t].at = "off" /\ ~ turn[t].fresh
  BY <1>1, <1>2
<1>7. counter \in Nat
  BY UsageConstants DEF UsageInit
<1>8. /\ stored = NoRow /\ newest = 0 /\ ledger = 0 /\ writer = NoWriter /\ taken = 0
      /\ used = 0 /\ known = 0 /\ regained = 0 /\ recordedLate = FALSE
  BY DEF UsageInit
<1>9. stored \in Nat \cup {NoRow} /\ ledger \in Nat /\ newest \in Nat /\ taken \in Nat /\ used \in Nat
      /\ known \in Nat /\ regained \in Nat /\ newest =< taken /\ writer \in Prompted \cup {NoWriter}
  BY <1>8
<1>10. recordedLate \in BOOLEAN
  BY <1>8
<1>11. \A t \in Prompted : turn[t].at # "read" /\ ~ turn[t].fresh
  BY <1>6
<1> QED
  BY <1>5, <1>6, <1>7, <1>8, <1>9, <1>10, <1>11, Zenon DEF LedgerInv

\* What is covered stays so while the counter and the tokens used grow alike,
\* and after the agent has begun to count anew.
LEMMA CoversMore ==
  ASSUME NEW x \in Nat, NEW a \in Nat, NEW y \in Nat, NEW b \in Nat, NEW n \in Nat,
         Covers(x, a, y, b)
  PROVE  Covers(x, a, y + n, b + n) /\ Covers(x, a, y, 0)
  BY DEF Covers

\* A snapshot covers itself.
LEMMA CoversItself ==
  ASSUME NEW x \in Nat, NEW a \in Nat
  PROVE  Covers(x, a, x, a)
  BY DEF Covers

\* However turns and recorders overlap, and whatever they fail to record, a
\* snapshot that is recorded in its turn adds no more than was used.
LEMMA LedgerInvStep == LedgerInv /\ [UsageNext]_usageVars => LedgerInv'
<1> SUFFICES ASSUME LedgerInv, [UsageNext]_usageVars
             PROVE  LedgerInv'
  OBVIOUS
<1>a. /\ counter \in Nat /\ stored \in Nat \cup {NoRow} /\ ledger \in Nat
      /\ turn \in [Prompted -> Turns]
      /\ writer \in Prompted \cup {NoWriter}
      /\ newest \in Nat /\ taken \in Nat /\ used \in Nat /\ recordedLate \in BOOLEAN
      /\ newest =< taken /\ known \in Nat /\ regained \in Nat
  BY DEF LedgerInv
<1>b. /\ \A t \in Prompted : turn[t].at = "read" => writer = t /\ turn[t].prev = stored
      /\ stored = NoRow => ledger = 0 /\ newest = 0
      /\ stored # NoRow => stored \in {0, known}
      /\ (\E t \in Prompted : turn[t].fresh) => counter =< used
  BY DEF LedgerInv
<1>n. NoRow = -1 /\ NoWriter \notin Prompted
  BY UsageConstants DEF NoRow, NoWriter
<1>c. PICK at \in [Nat -> Nat] : Booked(at)
  BY DEF LedgerInv
<1>t. \A t \in Prompted : turn[t].snap \in Nat /\ turn[t].nth \in Nat /\ turn[t].fresh \in BOOLEAN
                     /\ turn[t].blank \in BOOLEAN
  BY <1>a DEF Turns
<1>p. \A t \in Pending : t \in Prompted
  BY DEF Pending
\* A turn goes on without a snapshot.
<1>m. ASSUME NEW t \in Prompted, NEW r \in Turns, turn' = [turn EXCEPT ![t] = r],
             r.at \in {"works", "over"}
      PROVE  Pending' = Pending \ {t} /\ \A u \in Pending' : turn'[u] = turn[u]
  BY <1>a, <1>m DEF Pending
<1>1. CASE Restarts
  <2>1. counter' = 0 /\ UNCHANGED <<stored, ledger, turn, writer, taken, used>>
      /\ UNCHANGED <<newest, known, regained, recordedLate>>
    BY <1>1 DEF Restarts, histVars
  <2>2. Pending' = Pending
    BY <2>1 DEF Pending
  <2>3. \A t \in Pending : Covers(at[turn[t].nth], turn[t].snap, used, 0)
    BY <1>a, <1>c, <1>t, <1>p, CoversMore DEF Booked
  <2>4. stored # NoRow => Covers(at[newest], known, used, 0)
    BY <1>a, <1>c, CoversMore DEF Booked
  <2>5. Booked(at)'
    BY <1>c, <2>1, <2>2, <2>3, <2>4 DEF Booked
  <2> QED
    BY <1>a, <1>b, <2>1, <2>5 DEF LedgerInv
<1>2. ASSUME NEW t \in Prompted, Begins(t) PROVE LedgerInv'
  <2>1. PICK q \in Turns : q = turn[t]
    BY <1>a
  <2>2. PICK f \in BOOLEAN : /\ f => counter = 0
                             /\ turn' = [turn EXCEPT ![t] = [q EXCEPT !.at = "works", !.fresh = f]]
    BY <1>2, <2>1 DEF Begins, TurnSets
  <2> DEFINE r == [q EXCEPT !.at = "works", !.fresh = f]
  <2>3. r \in Turns /\ r.at = "works" /\ (r.fresh <=> f)
    BY DEF Turns
  <2> HIDE DEF r
  <2>4. /\ q.at = "off"
        /\ UNCHANGED <<counter, stored, ledger, writer, taken, used>> /\ UNCHANGED <<newest, known, regained, recordedLate>>
        /\ turn' = [turn EXCEPT ![t] = r]
    BY <1>2, <2>1, <2>2 DEF Begins, r, histVars
  <2>5. Pending' = Pending /\ \A u \in Pending : turn'[u] = turn[u]
    BY <1>m, <2>1, <2>3, <2>4 DEF Pending
  <2>6. Booked(at)'
    BY <1>c, <2>4, <2>5 DEF Booked
  <2>7. turn' \in [Prompted -> Turns]
    BY <1>a, <2>3, <2>4
  <2>8. (\E u \in Prompted : turn'[u].fresh) => counter' =< used'
    BY <1>a, <1>b, <2>2, <2>3, <2>4
  <2>9. \A u \in Prompted : turn'[u].at = "read" => writer' = u /\ turn'[u].prev = stored'
    BY <1>a, <1>b, <2>3, <2>4
  <2> QED
    BY <1>a, <1>b, <2>4, <2>6, <2>7, <2>8, <2>9 DEF LedgerInv
<1>3. ASSUME NEW t \in Prompted, TurnEnds(t) PROVE LedgerInv'
  <2>1. PICK q \in Turns : q = turn[t]
    BY <1>a
  <2>2. PICK n \in 0..MaxTokens :
          /\ counter' = counter + n /\ used' = used + n
          /\ \/ /\ taken' = taken + 1
                /\ \E b \in BOOLEAN : turn' = [turn EXCEPT ![t] =
                     [q EXCEPT !.at = "ended", !.snap = counter', !.blank = b, !.nth = taken']]
             \/ turn' = [turn EXCEPT ![t] = [q EXCEPT !.at = "over"]] /\ UNCHANGED taken
    BY <1>3, <2>1 DEF TurnEnds, TurnSets
  <2>3. q.at = "works" /\ UNCHANGED <<stored, ledger, writer>> /\ UNCHANGED <<newest, known, regained, recordedLate>>
    BY <1>3, <2>1 DEF TurnEnds, histVars
  <2>9. n \in 0..MaxTokens /\ counter' = counter + n /\ used' = used + n
    BY <2>2, Zenon
  <2>4. n \in Nat /\ counter' \in Nat /\ used' \in Nat
    BY <1>a, <2>9, UsageConstants
  <2>5. \A u \in Pending : Covers(at[turn[u].nth], turn[u].snap, used', counter')
    BY <1>a, <1>c, <1>t, <1>p, <2>4, <2>9, CoversMore DEF Booked
  <2>6. stored # NoRow => Covers(at[newest], known, used', counter')
    BY <1>a, <1>c, <2>4, <2>9, CoversMore DEF Booked
  <2>7. CASE turn' = [turn EXCEPT ![t] = [q EXCEPT !.at = "over"]] /\ UNCHANGED taken
    <3> DEFINE r == [q EXCEPT !.at = "over"]
    <3>1. r \in Turns /\ r.at = "over" /\ r.fresh = q.fresh
      BY DEF Turns
    <3>2. turn' = [turn EXCEPT ![t] = r]
      BY <2>7
    <3> HIDE DEF r
    <3>3. Pending' = Pending /\ \A u \in Pending : turn'[u] = turn[u]
      BY <1>m, <2>1, <2>3, <3>1, <3>2 DEF Pending
    <3>4. Booked(at)'
      <4>1. /\ Pending' = Pending /\ taken' = taken /\ newest' = newest /\ stored' = stored
            /\ ledger' = ledger /\ recordedLate' = recordedLate /\ known' = known
            /\ regained' = regained
        BY <2>3, <2>7, <3>3
      <4>2. \A u \in Pending : Covers(at[turn'[u].nth], turn'[u].snap, used', counter')
        BY <2>5, <3>3
      <4>3. stored' # NoRow => Covers(at[newest'], known', used', counter')
        BY <2>6, <4>1
      <4> QED
        BY <1>c, <3>3, <4>1, <4>2, <4>3 DEF Booked
    <3>5. turn' \in [Prompted -> Turns]
      BY <1>a, <3>1, <3>2
    <3>6. \A u \in Prompted : turn'[u].fresh = turn[u].fresh
      BY <1>a, <2>1, <3>1, <3>2
    <3>7. (\E u \in Prompted : turn'[u].fresh) => counter' =< used'
      BY <1>a, <1>b, <2>4, <2>9, <3>6
    <3>8. \A u \in Prompted : turn'[u].at = "read" => writer' = u /\ turn'[u].prev = stored'
      BY <1>a, <1>b, <2>3, <3>1, <3>2
    <3> QED
      BY <1>a, <1>b, <2>3, <2>4, <2>7, <3>4, <3>5, <3>7, <3>8 DEF LedgerInv
  <2>8. CASE /\ taken' = taken + 1
             /\ \E b \in BOOLEAN : turn' = [turn EXCEPT ![t] =
                  [q EXCEPT !.at = "ended", !.snap = counter', !.blank = b, !.nth = taken']]
    <3>0. PICK b \in BOOLEAN : turn' = [turn EXCEPT ![t] =
                  [q EXCEPT !.at = "ended", !.snap = counter', !.blank = b, !.nth = taken']]
      BY <2>8
    <3> DEFINE r == [q EXCEPT !.at = "ended", !.snap = counter', !.blank = b, !.nth = taken']
    <3>1. taken' \in Nat
      BY <1>a, <2>8
    <3>2. /\ r \in Turns /\ r.at = "ended" /\ r.fresh = q.fresh /\ r.snap = counter'
          /\ r.nth = taken'
      BY <2>4, <3>1 DEF Turns
    <3>3. turn' = [turn EXCEPT ![t] = r]
      BY <3>0
    <3> HIDE DEF r
    <3>4. t \notin Pending /\ Pending' = Pending \cup {t} /\ \A u \in Pending : turn'[u] = turn[u]
      BY <1>a, <2>1, <2>3, <3>2, <3>3 DEF Pending
    <3>5. turn'[t] = r
      BY <1>a, <3>3
    <3>6. PICK at2 \in [Nat -> Nat] :
            at2[taken'] = used' /\ \A i \in Nat : i # taken' => at2[i] = at[i]
      <4>1. [at EXCEPT ![taken'] = used'] \in [Nat -> Nat]
        BY <2>4
      <4> QED
        BY <3>1, <4>1
    <3>7. \A u \in Pending : turn[u].nth \in 1..taken /\ turn[u].nth # newest /\ turn[u].nth # taken'
      BY <1>a, <1>c, <2>8 DEF Booked
    <3>8. newest # taken' /\ at2[newest] = at[newest] /\ newest =< taken'
      BY <1>a, <2>8, <3>1, <3>6
    <3>9. \A u \in Pending : at2[turn[u].nth] = at[turn[u].nth]
      BY <1>a, <1>t, <1>p, <3>6, <3>7
    <3>10. Covers(used', counter', used', counter')
      BY <2>4, CoversItself
    <3>11. (\E u \in Prompted : turn[u].fresh) => counter' =< used'
      BY <1>a, <1>b, <2>4, <2>9
    <3>12. Booked(at2)'
      <4>1. \A u \in Pending' : turn'[u].nth \in 1..taken' /\ turn'[u].nth # newest'
        BY <1>a, <2>3, <2>8, <3>1, <3>2, <3>4, <3>5, <3>7, <3>8
      <4>2. \A u, v \in Pending' : turn'[u].nth = turn'[v].nth => u = v
        BY <1>c, <3>2, <3>4, <3>5, <3>7 DEF Booked
      <4>3. \A u \in Pending' : Covers(at2[turn'[u].nth], turn'[u].snap, used', counter')
        BY <2>5, <3>2, <3>4, <3>5, <3>6, <3>9, <3>10
      <4>4. \A u, v \in Pending' : turn'[u].nth < turn'[v].nth =>
              Covers(at2[turn'[u].nth], turn'[u].snap, at2[turn'[v].nth], turn'[v].snap)
        <5> SUFFICES ASSUME NEW u \in Pending', NEW v \in Pending', turn'[u].nth < turn'[v].nth
                     PROVE  Covers(at2[turn'[u].nth], turn'[u].snap, at2[turn'[v].nth], turn'[v].snap)
          OBVIOUS
        <5>1. u \in Pending
          BY <1>a, <2>8, <3>1, <3>2, <3>4, <3>5, <3>7
        <5>2. CASE v \in Pending
          BY <1>c, <3>4, <3>9, <5>1, <5>2 DEF Booked
        <5>3. CASE v = t
          BY <2>5, <3>2, <3>4, <3>5, <3>6, <3>9, <5>1, <5>3
        <5> QED
          BY <3>4, <5>2, <5>3
      <4>5. \A u \in Pending' : turn'[u].fresh => turn'[u].snap =< at2[turn'[u].nth]
        BY <1>c, <2>1, <3>2, <3>4, <3>5, <3>6, <3>9, <3>11 DEF Booked
      <4>6. stored' # NoRow =>
              /\ Covers(at2[newest'], known', used', counter')
              /\ \A u \in Pending' : turn'[u].nth > newest' =>
                   Covers(at2[newest'], known', at2[turn'[u].nth], turn'[u].snap)
              /\ ~ recordedLate' => ledger' =< at2[newest'] + regained'
        BY <1>c, <2>3, <2>6, <3>2, <3>4, <3>5, <3>6, <3>8, <3>9 DEF Booked
      <4> QED
        BY <4>1, <4>2, <4>3, <4>4, <4>5, <4>6 DEF Booked
    <3>13. turn' \in [Prompted -> Turns]
      BY <1>a, <3>2, <3>3
    <3>14. \A u \in Prompted : turn'[u].fresh = turn[u].fresh
      BY <1>a, <2>1, <3>2, <3>3
    <3>15. \A u \in Prompted : turn'[u].at = "read" => writer' = u /\ turn'[u].prev = stored'
      BY <1>a, <1>b, <2>3, <3>2, <3>3
    <3> QED
      BY <1>a, <1>b, <2>3, <2>4, <3>1, <3>6, <3>8, <3>11, <3>12, <3>13, <3>14, <3>15 DEF
        LedgerInv
  <2> QED
    BY <2>2, <2>7, <2>8
<1>4. ASSUME NEW t \in Prompted, ReadsBaseline(t) PROVE LedgerInv'
  <2>1. PICK q \in Turns : q = turn[t]
    BY <1>a
  <2> DEFINE r == [q EXCEPT !.at = "read", !.prev = stored]
  <2>2. /\ r \in Turns /\ r.at = "read" /\ r.prev = stored /\ r.fresh = q.fresh
        /\ r.snap = q.snap /\ r.nth = q.nth
    BY <1>a DEF Turns
  <2>3. /\ q.at = "ended" /\ writer = NoWriter /\ writer' = t /\ turn' = [turn EXCEPT ![t] = r]
        /\ UNCHANGED <<counter, stored, ledger, taken, used>> /\ UNCHANGED <<newest, known, regained, recordedLate>>
    BY <1>4, <2>1 DEF ReadsBaseline, TurnSets, histVars
  <2> HIDE DEF r
  <2>4. Pending' = Pending /\ \A u \in Prompted : /\ turn'[u].nth = turn[u].nth
                                                  /\ turn'[u].snap = turn[u].snap
                                                  /\ turn'[u].fresh = turn[u].fresh
    BY <1>a, <2>1, <2>2, <2>3 DEF Pending
  <2>5. Booked(at)'
    BY <1>c, <1>p, <2>3, <2>4 DEF Booked
  <2>6. turn' \in [Prompted -> Turns]
    BY <1>a, <2>2, <2>3
  <2>7. \A u \in Prompted : turn'[u].at = "read" => writer' = u /\ turn'[u].prev = stored'
    BY <1>a, <1>b, <1>n, <2>2, <2>3
  <2> QED
    BY <1>a, <1>b, <2>3, <2>4, <2>5, <2>6, <2>7 DEF LedgerInv
<1>5. ASSUME NEW t \in Prompted, RecordsUsage(t) PROVE LedgerInv'
  <2>1. PICK q \in Turns : q = turn[t]
    BY <1>a
  <2> DEFINE r == [q EXCEPT !.at = "over"]
  <2>2. r \in Turns /\ r.at = "over" /\ r.fresh = q.fresh
    BY DEF Turns
  <2>3. /\ q.at = "read" /\ writer' = NoWriter /\ turn' = [turn EXCEPT ![t] = r]
        /\ UNCHANGED <<counter, taken, used>> /\ q.prev = stored /\ writer = t
    BY <1>5, <1>b, <2>1 DEF RecordsUsage, TurnSets
  <2> HIDE DEF r
  <2>4. Pending' = Pending \ {t} /\ (\A u \in Pending' : turn'[u] = turn[u]) /\ t \in Pending
    BY <1>m, <2>1, <2>2, <2>3 DEF Pending
  <2>5. turn' \in [Prompted -> Turns] /\ \A u \in Prompted : turn'[u].fresh = turn[u].fresh
    BY <1>a, <2>1, <2>2, <2>3
  <2>6. \A u \in Prompted : turn'[u].at # "read"
    BY <1>a, <1>b, <2>2, <2>3
  <2>7. CASE UNCHANGED <<stored, ledger, newest, known, regained, recordedLate>>
    <3>1. Booked(at)'
      BY <1>c, <2>3, <2>4, <2>7 DEF Booked
    <3> QED
      BY <1>a, <1>b, <2>3, <2>5, <2>6, <2>7, <3>1 DEF LedgerInv
  <2> DEFINE snapTold == IF q.blank THEN 0 ELSE q.snap
  <2>8. CASE /\ stored' = snapTold /\ ledger' = ledger + Counts(t)
             /\ newest' = q.nth /\ known' = q.snap
             /\ regained' = regained + IF stored # NoRow /\ snapTold >= known
                                        THEN known - stored ELSE 0
             /\ recordedLate' = (recordedLate \/ q.nth < newest)
    <3>1. q.snap \in Nat /\ q.nth \in 1..taken /\ q.nth # newest /\ q.nth \in Nat
      BY <1>c, <2>1, <2>4, <1>t, <1>p DEF Booked
    <3>0. snapTold \in Nat /\ snapTold \in {0, q.snap}
      BY <3>1
    <3>2. Counts(t) = IF stored = NoRow /\ ~ q.fresh THEN 0
                      ELSE IF stored # NoRow /\ snapTold >= stored THEN snapTold - stored ELSE snapTold
      BY <2>1, <2>3 DEF Counts, Delta, Told
    <3> HIDE DEF snapTold
    <3>3. Counts(t) \in Nat
      BY <1>a, <1>n, <3>0, <3>2
    <3>4. at[q.nth] \in Nat /\ at[newest] \in Nat
      BY <1>a, <3>1
    <3>5. stored # NoRow /\ q.nth > newest => Covers(at[newest], known, at[q.nth], q.snap)
      BY <1>c, <2>1, <2>4 DEF Booked
    <3>6. q.fresh => q.snap =< at[q.nth]
      BY <1>c, <2>1, <2>4 DEF Booked
    <3>10. regained' \in Nat /\ regained' >= regained
      BY <1>a, <1>b, <2>8, <3>0
    <3>7. ~ recordedLate' => ledger' =< at[q.nth] + regained'
      <4> SUFFICES ASSUME ~ recordedLate, ~ (q.nth < newest) PROVE ledger' =< at[q.nth] + regained'
        BY <2>8
      <4>1. CASE stored = NoRow
        <5>1. ledger = 0 /\ ledger' = Counts(t)
          BY <1>a, <1>b, <2>8, <3>3, <4>1
        <5>2. CASE q.fresh
          BY <1>a, <3>0, <3>1, <3>2, <3>4, <3>6, <3>10, <4>1, <5>1, <5>2
        <5>3. CASE ~ q.fresh
          BY <1>a, <3>2, <3>4, <3>10, <4>1, <5>1, <5>3
        <5> QED
          BY <5>2, <5>3
      <4>2. CASE stored # NoRow
        <5>1. ledger =< at[newest] + regained
          BY <1>c, <4>2 DEF Booked
        <5>2. q.nth > newest
          BY <1>a, <3>1
        <5>3. Counts(t) = IF snapTold >= stored THEN snapTold - stored ELSE snapTold
          BY <3>2, <4>2
        <5>4. Covers(at[newest], known, at[q.nth], q.snap) /\ stored \in {0, known}
          BY <1>a, <1>b, <3>5, <4>2, <5>2
        <5>5. /\ at[newest] =< at[q.nth]
              /\ q.snap >= known => q.snap - known =< at[q.nth] - at[newest]
              /\ q.snap < known => q.snap =< at[q.nth] - at[newest]
          BY <5>4 DEF Covers
        <5>6. regained' = regained + IF snapTold >= known THEN known - stored ELSE 0
          BY <2>8, <4>2
        <5>7. ledger' = ledger + Counts(t)
          BY <2>8
        <5>8. CASE snapTold = 0
          BY <1>a, <3>4, <3>10, <5>1, <5>3, <5>4, <5>5, <5>7, <5>8
        <5>9. CASE snapTold = q.snap /\ q.snap >= known
          BY <1>a, <3>1, <3>4, <5>1, <5>3, <5>4, <5>5, <5>6, <5>7, <5>9
        <5>10. CASE snapTold = q.snap /\ q.snap < known
          BY <1>a, <3>1, <3>4, <3>10, <5>1, <5>3, <5>4, <5>5, <5>7, <5>10
        <5> QED
          BY <1>a, <3>0, <3>1, <5>8, <5>9, <5>10
      <4> QED
        BY <4>1, <4>2
    <3>8. Booked(at)'
      <4>1. \A u \in Pending' : u \in Pending /\ u # t /\ turn'[u] = turn[u]
        BY <2>4
      <4>2. \A u \in Pending' : turn'[u].nth \in 1..taken' /\ turn'[u].nth # newest'
        BY <1>c, <2>1, <2>3, <2>4, <2>8, <4>1 DEF Booked
      <4>3. Covers(at[newest'], known', used', counter')
        BY <1>c, <2>1, <2>3, <2>4, <2>8 DEF Booked
      <4>4. \A u \in Pending' : turn'[u].nth > newest' =>
              Covers(at[newest'], known', at[turn'[u].nth], turn'[u].snap)
        BY <1>c, <1>t, <1>p, <2>1, <2>4, <2>8, <3>1, <4>1 DEF Booked
      <4> QED
        BY <1>c, <2>3, <2>8, <3>7, <4>1, <4>2, <4>3, <4>4 DEF Booked
    <3>9. /\ stored' \in Nat /\ stored' # NoRow /\ stored' \in {0, known'} /\ ledger' \in Nat
          /\ newest' \in Nat /\ known' \in Nat /\ newest' =< taken'
      BY <1>a, <1>n, <2>3, <2>8, <3>0, <3>1, <3>3
    <3>11. recordedLate' \in BOOLEAN
      BY <1>a, <2>8
    <3> QED
      BY <1>a, <1>b, <2>3, <2>5, <2>6, <3>8, <3>9, <3>10, <3>11 DEF LedgerInv
  <2> QED
    BY <1>5, <2>1, <2>7, <2>8 DEF RecordsUsage, Told, histVars
<1>6. CASE UNCHANGED usageVars
  <2>1. Pending' = Pending
    BY <1>6 DEF usageVars, histVars, Pending
  <2>2. Booked(at)'
    BY <1>c, <1>6, <2>1 DEF usageVars, histVars, Booked
  <2> QED
    BY <1>a, <1>b, <1>6, <2>2 DEF usageVars, histVars, LedgerInv
<1> QED
  BY <1>1, <1>2, <1>3, <1>4, <1>5, <1>6 DEF UsageNext

\* What is booked was used.
LEMMA NoTokenTwice == LedgerInv => NothingIsCountedTwice
<1> SUFFICES ASSUME LedgerInv, ~ recordedLate PROVE ledger =< used + regained
  BY DEF NothingIsCountedTwice
<1>1. PICK at \in [Nat -> Nat] : Booked(at)
  BY DEF LedgerInv
<1>2. CASE stored = NoRow
  BY <1>2 DEF LedgerInv
<1>3. CASE stored # NoRow
  <2>1. at[newest] \in Nat /\ ledger \in Nat /\ used \in Nat /\ regained \in Nat
    BY DEF LedgerInv
  <2>2. ledger =< at[newest] + regained /\ at[newest] =< used
    BY <1>1, <1>3 DEF Booked, Covers
  <2> QED
    BY <2>1, <2>2
<1> QED
  BY <1>2, <1>3

-----------------------------------------------------------------------------
(* The git panel *)

\* Where a discard may stand.
DiscardPoints ==
  {"head", "index", "merged", "restore", "checkout", "drop", "uncache", "rm", "wipe"}

\* The types of requests.
GitRequests ==
  [op : {"none", "discard", "stage", "all", "unstage", "reset", "commit", "commit_all"},
   paths : Seq(File), staged : BOOLEAN, n : Nat, born : BOOLEAN,
   misread : BOOLEAN,
   at : DiscardPoints \cup
          {"idle", "hide", "add", "stage", "unstage", "commit", "done", "failed"}]

\* The types of the three trees.
Trees ==
  /\ head \in [File -> Blob \cup {NoFile, Gitlink}]
  /\ index \in [File -> Blob \cup {NoFile, Gitlink, Conflict}]
  /\ workTree \in [File -> Blob \cup {NoFile, Repo}]

\* A path that a discard is through with.
RowIsGone(f) ==
  /\ Agrees(f)
  /\ req.staged => ~ Staged(f) \/ (req.misread /\ InHead(f) /\ ~ InIndex(f))

\* What a discard knows of the path it is at, unless the agent was there.
KnowsPath ==
  This \notin touched =>
    /\ (IF req.staged THEN req.at \in {"index", "drop", "uncache", "rm", "wipe"}
                      ELSE req.at \in {"drop", "uncache", "rm"})
         => head[This] = NoFile \/ req.misread
    /\ ~ req.staged /\ req.at \in {"head", "restore", "drop", "uncache", "rm"}
         => index[This] = Conflict
    /\ req.at = "uncache" => workTree[This] = Repo
    /\ req.at = "wipe" => index[This] = NoFile

\* A discard has cleared the paths before the one it is at, and its looks at
\* this one lead where they say.
DiscardInv ==
  /\ req.at \in DiscardPoints \cup {"done", "failed"}
  /\ req.n \in 1..Len(req.paths)
  /\ \A i, j \in 1..Len(req.paths) : req.paths[i] = req.paths[j] => i = j
  /\ req.at \in {"merged", "checkout"} => ~ req.staged
  /\ ~ req.born /\ ~ req.misread => \A f \in File \ touched : head[f] = NoFile
  /\ \A f \in Discarded \ touched : RowIsGone(f)
  /\ KnowsPath

\* A branch with no commit has no tree, and stage-all leaves out whatever its
\* status has named.
PanelInv ==
  /\ Trees /\ req \in GitRequests /\ born \in BOOLEAN
  /\ ~ born => \A f \in File : head[f] = NoFile
  /\ req.at = "add" /\ hidden # {} =>
       \A f \in File \ touched : workTree[f] = Repo /\ index[f] = NoFile => f \in hidden
  /\ req.op = "discard" => DiscardInv

\* Nothing is asked and the trees agree when the model starts.
LEMMA PanelInvInit == GitInit => PanelInv
<1> SUFFICES ASSUME GitInit
             PROVE  PanelInv
  OBVIOUS
<1>1. born \in BOOLEAN /\ head = [f \in File |-> IF born THEN "old" ELSE NoFile]
      /\ index = head /\ workTree = head /\ req = NoGit
  BY DEF GitInit
<1>2. Trees
  BY <1>1 DEF Trees, Blob
<1>3. req \in GitRequests /\ req.op = "none" /\ req.at = "idle"
  BY <1>1 DEF GitRequests, NoGit
<1>4. ~ born => \A f \in File : head[f] = NoFile
  BY <1>1
<1> QED
  BY <1>1, <1>2, <1>3, <1>4 DEF PanelInv

\* The next step of a request is all that changes of it.
LEMMA GitGoesOn ==
  ASSUME req \in GitRequests, NEW at, GitGoes(at),
         at \in DiscardPoints \cup {"add", "commit", "done", "failed"}
  PROVE  /\ req' \in GitRequests /\ req'.at = at /\ req'.op = req.op /\ req'.paths = req.paths
         /\ req'.staged = req.staged /\ req'.n = req.n /\ req'.born = req.born
         /\ req'.misread = req.misread
BY DEF GitGoes, GitRequests, DiscardPoints

\* Where the agent was not, nothing has changed.
LEMMA AgentTouches ==
  ASSUME PanelInv, Agent
  PROVE  /\ Trees' /\ born' \in BOOLEAN /\ UNCHANGED <<req, hidden>> /\ touched \subseteq touched'
         /\ ~ born' => ~ born /\ head' = head
         /\ \A f \in File \ touched' :
              head'[f] = head[f] /\ index'[f] = index[f] /\ workTree'[f] = workTree[f]
<1>a. /\ head \in [File -> Blob \cup {NoFile, Gitlink}]
      /\ index \in [File -> Blob \cup {NoFile, Gitlink, Conflict}]
      /\ workTree \in [File -> Blob \cup {NoFile, Repo}] /\ born \in BOOLEAN
  BY DEF PanelInv, Trees
<1>b. UNCHANGED <<req, hidden>>
  BY DEF Agent
<1>1. CASE AgentCommits
  <2>1. /\ \A f \in File : index[f] # Conflict
        /\ head' = index /\ born' = TRUE /\ UNCHANGED <<index, workTree>>
        /\ touched' = touched \cup {f \in File : Staged(f)}
    BY <1>1 DEF AgentCommits
  <2>2. Trees'
    BY <1>a, <2>1 DEF Trees
  <2>3. \A f \in File \ touched' : head'[f] = head[f]
    BY <2>1 DEF Staged
  <2> QED
    BY <1>b, <2>1, <2>2, <2>3
<1>2. ASSUME NEW g \in File, AgentChangesFile(g)
      PROVE  /\ Trees' /\ UNCHANGED <<born, head, index>> /\ touched' = touched \cup {g}
             /\ \A f \in File : f # g => workTree'[f] = workTree[f]
  BY <1>a, <1>2 DEF AgentChangesFile, Trees
<1>3. ASSUME NEW g \in File, AgentStages(g)
      PROVE  /\ Trees' /\ UNCHANGED <<born, head, workTree>> /\ touched' = touched \cup {g}
             /\ \A f \in File : f # g => index'[f] = index[f]
  <2>1. AsIndexed(g) \in Blob \cup {NoFile, Gitlink}
    BY <1>a DEF AsIndexed
  <2> QED
    BY <1>a, <1>3, <2>1 DEF AgentStages, Trees
<1> QED
  BY <1>a, <1>b, <1>1, <1>2, <1>3 DEF Agent

\* What the agent does leaves what is known of the paths it was not at.
LEMMA AgentKeepsPanel ==
  ASSUME PanelInv, Agent
  PROVE  PanelInv'
<1>1. /\ Trees' /\ born' \in BOOLEAN /\ UNCHANGED <<req, hidden>> /\ touched \subseteq touched'
      /\ ~ born' => ~ born /\ head' = head
      /\ \A f \in File \ touched' :
           head'[f] = head[f] /\ index'[f] = index[f] /\ workTree'[f] = workTree[f]
  BY AgentTouches
<1>2. req' \in GitRequests /\ (~ born' => \A f \in File : head'[f] = NoFile)
  BY <1>1 DEF PanelInv
<1>3. req'.at = "add" /\ hidden' # {} =>
        \A f \in File \ touched' : workTree'[f] = Repo /\ index'[f] = NoFile => f \in hidden'
  BY <1>1 DEF PanelInv
<1>4. ASSUME req.op = "discard"
      PROVE  DiscardInv'
  <2>1. DiscardInv
    BY <1>4 DEF PanelInv
  <2>2. req.paths \in Seq(File)
    BY DEF PanelInv, GitRequests
  <2>3. Discarded' = Discarded /\ This' = This /\ This \in File
    BY <1>1, <2>1, <2>2 DEF Discarded, This, DiscardInv
  <2>4. \A f \in Discarded : f \in File
    BY <2>1, <2>2 DEF Discarded, DiscardInv
  <2>5. \A f \in Discarded' \ touched' : RowIsGone(f)'
    BY <1>1, <2>1, <2>3, <2>4 DEF DiscardInv, RowIsGone, Agrees, Staged, InHead, InIndex
  <2>6. KnowsPath'
    BY <1>1, <2>1, <2>3 DEF DiscardInv, KnowsPath
  <2> QED
    BY <1>1, <2>1, <2>5, <2>6 DEF DiscardInv
<1> QED
  BY <1>1, <1>2, <1>3, <1>4 DEF PanelInv

\* A discard that stays at its path keeps what is known of the others.
LEMMA DiscardStays ==
  ASSUME PanelInv, req.op = "discard", req.at \in DiscardPoints, NEW f \in File, f = This,
         UNCHANGED <<born, head, touched>>, Trees',
         \A g \in File : g # f => index'[g] = index[g] /\ workTree'[g] = workTree[g],
         NEW at \in DiscardPoints \cup {"failed"}, GitGoes(at),
         at \in {"merged", "checkout"} => ~ req.staged,
         f \notin touched =>
           /\ (IF req.staged THEN at \in {"index", "drop", "uncache", "rm", "wipe"}
                             ELSE at \in {"drop", "uncache", "rm"})
                => head[f] = NoFile \/ req.misread
           /\ ~ req.staged /\ at \in {"head", "restore", "drop", "uncache", "rm"}
                => index'[f] = Conflict
           /\ at = "uncache" => workTree'[f] = Repo
           /\ at = "wipe" => index'[f] = NoFile
  PROVE  PanelInv'
<1>a. /\ req \in GitRequests /\ born \in BOOLEAN /\ DiscardInv
      /\ ~ born => \A g \in File : head[g] = NoFile
  BY DEF PanelInv
<1>b. /\ req' \in GitRequests /\ req'.at = at /\ req'.op = req.op /\ req'.paths = req.paths
      /\ req'.staged = req.staged /\ req'.n = req.n /\ req'.born = req.born
      /\ req'.misread = req.misread
  BY <1>a, GitGoesOn
<1>c. req.paths \in Seq(File) /\ req.n \in 1..Len(req.paths) /\ f = req.paths[req.n]
  BY <1>a DEF GitRequests, DiscardInv, This
<1>1. /\ Discarded' = Discarded /\ f \notin Discarded /\ Discarded \subseteq File
      /\ This' = f
  <2>1. req.at # "done" /\ at # "done"
    BY DEF DiscardPoints
  <2>2. Discarded = {req.paths[n] : n \in 1..(req.n - 1)} /\ Discarded' = Discarded
    BY <1>b, <2>1 DEF Discarded
  <2> QED
    BY <1>a, <1>b, <1>c, <2>2 DEF DiscardInv, This
<1>2. \A g \in Discarded' \ touched' : RowIsGone(g)'
  BY <1>a, <1>b, <1>1 DEF DiscardInv, RowIsGone, Agrees, Staged, InHead, InIndex
<1>3. KnowsPath'
  BY <1>b, <1>1 DEF KnowsPath
<1>4. DiscardInv'
  BY <1>a, <1>b, <1>2, <1>3 DEF DiscardInv
<1>5. at # "add"
  BY DEF DiscardPoints
<1> QED
  BY <1>a, <1>b, <1>4, <1>5 DEF PanelInv

\* A discard that is through with its path has cleared it.
LEMMA DiscardPasses ==
  ASSUME PanelInv, req.op = "discard", req.at \in DiscardPoints, NEW f \in File, f = This,
         UNCHANGED <<born, head, touched>>, Trees',
         \A g \in File : g # f => index'[g] = index[g] /\ workTree'[g] = workTree[g],
         NextPath,
         f \notin touched =>
           /\ Agrees(f)'
           /\ req.staged => ~ Staged(f)' \/ (req.misread /\ InHead(f)' /\ ~ InIndex(f)')
  PROVE  PanelInv'
<1>a. /\ req \in GitRequests /\ born \in BOOLEAN /\ DiscardInv
      /\ ~ born => \A g \in File : head[g] = NoFile
  BY DEF PanelInv
<1>c. /\ req.paths \in Seq(File) /\ req.n \in 1..Len(req.paths) /\ f = req.paths[req.n]
      /\ Len(req.paths) \in Nat
  BY <1>a DEF GitRequests, DiscardInv, This
<1>b. /\ req' \in GitRequests /\ req'.op = req.op /\ req'.paths = req.paths
      /\ req'.staged = req.staged /\ req'.born = req.born /\ req'.misread = req.misread
      /\ \/ /\ req.n < Len(req.paths) /\ req'.n = req.n + 1
            /\ req'.at = IF req.staged THEN "head" ELSE "index"
         \/ req'.at = "done" /\ req'.n = req.n
  <2>1. CASE req.n < Len(req.paths)
    <3>1. req' = [req EXCEPT !.n = @ + 1, !.at = IF req.staged THEN "head" ELSE "index"]
      BY <2>1 DEF NextPath
    <3>2. req.n + 1 \in Nat
      BY <1>c
    <3> QED
      BY <1>a, <2>1, <3>1, <3>2 DEF GitRequests, DiscardPoints
  <2>2. CASE ~ (req.n < Len(req.paths))
    BY <1>a, <1>c, <2>2 DEF NextPath, GitRequests, DiscardPoints
  <2> QED
    BY <2>1, <2>2
<1>d. req'.n \in 1..Len(req.paths)
  BY <1>b, <1>c
<1>1. \A g \in Discarded' : g = f \/ g \in Discarded
  <2>1. req.at # "done"
    BY DEF DiscardPoints
  <2>2. Discarded = {req.paths[n] : n \in 1..(req.n - 1)}
    BY <2>1 DEF Discarded
  <2>3. Discarded' = {req.paths[n] : n \in 1..req.n}
    <3>1. CASE req'.at = "done"
      BY <1>b, <3>1 DEF Discarded
    <3>2. CASE req'.at # "done"
      <4>1. req'.n - 1 = req.n
        BY <1>b, <1>c, <3>2
      <4> QED
        BY <1>b, <3>2, <4>1 DEF Discarded
    <3> QED
      BY <3>1, <3>2
  <2>4. \A n \in 1..req.n : n = req.n \/ n \in 1..(req.n - 1)
    BY <1>c
  <2> QED
    BY <1>c, <2>2, <2>3, <2>4
<1>2. Discarded \subseteq File
  BY <1>c DEF Discarded
<1>3. \A g \in Discarded' \ touched' : RowIsGone(g)'
  <2> SUFFICES ASSUME NEW g \in Discarded', g \notin touched
               PROVE  RowIsGone(g)'
    OBVIOUS
  <2>1. CASE g = f
    BY <1>b, <2>1 DEF RowIsGone
  <2>2. CASE g # f
    BY <1>a, <1>b, <1>1, <1>2, <2>2 DEF DiscardInv, RowIsGone, Agrees, Staged, InHead, InIndex
  <2> QED
    BY <2>1, <2>2
<1>4. KnowsPath'
  BY <1>b DEF KnowsPath
<1>5. DiscardInv'
  BY <1>a, <1>b, <1>d, <1>3, <1>4 DEF DiscardInv, DiscardPoints
<1> QED
  BY <1>a, <1>b, <1>5 DEF PanelInv

\* A discard keeps the invariant, resets only conflicts where it keeps what is
\* staged, and removes a repository only for a file that it restores.
LEMMA DiscardKeepsPanel ==
  ASSUME PanelInv, DiscardStep
  PROVE  /\ PanelInv'
         /\ \A g \in File : index'[g] # index[g]
              => \/ g \in touched
                 \/ /\ req.staged \/ index[g] = Conflict
                    /\ index'[g] = head[g] \/ req.misread
         /\ \A g \in File : workTree[g] = Repo /\ workTree'[g] # Repo
              => head[g] \in Blob \/ (~ req.staged /\ index[g] \in Blob)
<1>1. PICK f : f = This
  OBVIOUS
<1>2. req.op = "discard" /\ req.at \in DiscardPoints /\ UNCHANGED <<born, head, touched>>
  BY DEF DiscardStep, DiscardAt, LooksInIndex, LooksForConflict, LooksInHead,
    LooksBeforeRemoval,
         RestoresHead, RestoresIndex, DropsEntry, RemovesEntry, Wipes, DiscardPoints, Finds, GitFails,
         repoVars, gitRest
<1>a. /\ req \in GitRequests /\ DiscardInv /\ Trees
      /\ head \in [File -> Blob \cup {NoFile, Gitlink}]
      /\ index \in [File -> Blob \cup {NoFile, Gitlink, Conflict}]
      /\ workTree \in [File -> Blob \cup {NoFile, Repo}]
      /\ req.staged \in BOOLEAN
  BY <1>2 DEF PanelInv, Trees, GitRequests
<1>b. f \in File
  BY <1>1, <1>a DEF GitRequests, DiscardInv, This
<1>c. /\ req.at \in {"merged", "checkout"} => ~ req.staged
      /\ ~ req.born /\ f \notin touched => head[f] = NoFile \/ req.misread
      /\ f \notin touched =>
           /\ (IF req.staged THEN req.at \in {"index", "drop", "uncache", "rm", "wipe"}
                             ELSE req.at \in {"drop", "uncache", "rm"})
                => head[f] = NoFile \/ req.misread
           /\ ~ req.staged /\ req.at \in {"head", "restore", "drop", "uncache", "rm"}
                => index[f] = Conflict
           /\ req.at = "uncache" => workTree[f] = Repo
           /\ req.at = "wipe" => index[f] = NoFile
  BY <1>1, <1>a, <1>b DEF DiscardInv, KnowsPath
\* A look goes on to where what it found leads.
<1>l. ASSUME NEW at \in DiscardPoints, GitGoes(at), UNCHANGED <<index, workTree>>,
             at \in {"merged", "checkout"} => ~ req.staged,
             f \notin touched =>
               /\ (IF req.staged THEN at \in {"index", "drop", "uncache", "rm", "wipe"}
                                 ELSE at \in {"drop", "uncache", "rm"})
                    => head[f] = NoFile \/ req.misread
               /\ ~ req.staged /\ at \in {"head", "restore", "drop", "uncache", "rm"}
                    => index[f] = Conflict
               /\ at = "uncache" => workTree[f] = Repo
               /\ at = "wipe" => index[f] = NoFile
      PROVE  PanelInv'
  <2>1. Trees'
    BY <1>2, <1>a, <1>l DEF Trees
  <2> QED
    BY <1>1, <1>2, <1>b, <1>l, <2>1, DiscardStays
\* A call that fails may have done its work.
<1>f. ASSUME GitGoes("failed"), Trees',
             \A g \in File : g # f => index'[g] = index[g] /\ workTree'[g] = workTree[g]
      PROVE  PanelInv'
  <2>1. "failed" \in DiscardPoints \cup {"failed"}
    OBVIOUS
  <2>2. PICK at \in DiscardPoints \cup {"failed"} : at = "failed"
    BY <2>1
  <2> QED
    BY <1>1, <1>2, <1>b, <1>f, <2>2, DiscardStays
\* A path that is done with leads to the next.
<1>n. ASSUME NextPath, Trees',
             \A g \in File : g # f => index'[g] = index[g] /\ workTree'[g] = workTree[g],
             f \notin touched =>
           /\ Agrees(f)'
           /\ req.staged => ~ Staged(f)' \/ (req.misread /\ InHead(f)' /\ ~ InIndex(f)')
      PROVE  PanelInv'
  BY <1>1, <1>2, <1>b, <1>n, DiscardPasses
<1>3. CASE LooksInIndex \/ LooksForConflict \/ LooksInHead \/ LooksBeforeRemoval
  <2>1. UNCHANGED <<index, workTree>>
    BY <1>3 DEF LooksInIndex, LooksForConflict, LooksInHead, LooksBeforeRemoval, Finds,
      GitFails,
                repoVars
  <2>0. CASE GitGoes("failed")
    BY <1>2, <1>a, <1>f, <2>0, <2>1 DEF Trees
  <2>2. CASE LooksInIndex
    <3>1. /\ req.at = "index"
          /\ \/ GitGoes(IF index[f] = NoFile THEN "wipe" ELSE IF req.staged THEN "drop" ELSE "merged")
             \/ GitGoes("failed")
      BY <1>1, <2>2 DEF LooksInIndex, DiscardAt, Finds, GitFails, InIndex
    <3> QED
      BY <1>c, <1>l, <2>0, <2>1, <3>1 DEF DiscardPoints
  <2>3. CASE LooksForConflict
    <3>1. /\ req.at = "merged"
          /\ GitGoes(IF index[f] = Conflict THEN "head" ELSE "checkout") \/ GitGoes("failed")
      BY <1>1, <2>3 DEF LooksForConflict, DiscardAt, Finds, GitFails
    <3> QED
      BY <1>c, <1>l, <2>0, <2>1, <3>1 DEF DiscardPoints
  <2>4. CASE LooksInHead
    <3>1. /\ req.at = "head"
          /\ \/ GitGoes(IF req.born /\ head[f] # NoFile THEN "restore"
                        ELSE IF req.staged THEN "index" ELSE "drop")
             \/ GitGoes("failed")
      BY <1>1, <2>4 DEF LooksInHead, DiscardAt, Finds, GitFails, InHead
    <3> QED
      BY <1>c, <1>l, <2>0, <2>1, <3>1 DEF DiscardPoints
  <2>5. CASE LooksBeforeRemoval
    <3>1. req.at = "drop" /\ GitGoes(IF workTree[f] = Repo THEN "uncache" ELSE "rm")
      BY <1>1, <2>5 DEF LooksBeforeRemoval, DiscardAt, Finds
    <3> QED
      BY <1>c, <1>l, <2>1, <3>1 DEF DiscardPoints
  <2> QED
    BY <1>3, <2>1, <2>2, <2>3, <2>4, <2>5
<1>4. CASE RestoresHead
  <2>1. CASE GitGoes("failed") /\ UNCHANGED <<index, workTree>>
    BY <1>2, <1>a, <1>f, <2>1 DEF Trees
  <2>2. CASE /\ InHead(f) /\ index' = [index EXCEPT ![f] = head[f]]
             /\ workTree' = [workTree EXCEPT ![f] = CheckedOut(f, head[f])]
             /\ PathEnds
    <3>1. /\ index'[f] = head[f] /\ head[f] \in Blob \cup {Gitlink}
          /\ workTree'[f] = CheckedOut(f, head[f])
          /\ \A g \in File : g # f => index'[g] = index[g] /\ workTree'[g] = workTree[g]
      BY <1>a, <1>b, <2>2 DEF InHead
    <3>2. /\ head[f] = Gitlink => workTree'[f] \in {Repo, NoFile}
          /\ workTree[f] = Repo /\ head[f] = Gitlink => workTree'[f] = Repo
          /\ head[f] \in Blob => workTree'[f] = head[f]
          /\ workTree'[f] \in Blob \cup {NoFile, Repo}
      BY <1>a, <1>b, <3>1 DEF CheckedOut, Blob, Gitlink
    <3>3. Trees'
      BY <1>2, <1>a, <1>b, <2>2, <3>1, <3>2 DEF Trees
    <3>4. Agrees(f)' /\ ~ Staged(f)'
      BY <1>2, <3>1, <3>2 DEF Agrees, Staged, Blob, Gitlink, Conflict, NoFile
    <3>5. PanelInv'
      BY <1>f, <1>n, <2>2, <3>1, <3>3, <3>4 DEF PathEnds
    <3>6. req.at = "restore"
      BY <1>4 DEF RestoresHead, DiscardAt
    <3> QED
      BY <1>c, <3>1, <3>2, <3>5, <3>6
  <2> QED
    BY <1>1, <1>4, <2>1, <2>2 DEF RestoresHead
<1>5. CASE RestoresIndex
  <2>a. req.at = "checkout" /\ UNCHANGED index
    BY <1>5 DEF RestoresIndex, DiscardAt
  <2>1. CASE GitGoes("failed") /\ UNCHANGED workTree
    BY <1>2, <1>a, <1>f, <2>a, <2>1 DEF Trees
  <2>2. CASE /\ index[f] \notin {NoFile, Conflict}
             /\ workTree' = [workTree EXCEPT ![f] = CheckedOut(f, index[f])]
             /\ PathEnds
    <3>1. /\ index[f] \in Blob \cup {Gitlink} /\ workTree'[f] = CheckedOut(f, index[f])
          /\ \A g \in File : g # f => workTree'[g] = workTree[g]
      BY <1>a, <1>b, <2>2
    <3>2. /\ index[f] = Gitlink => workTree'[f] \in {Repo, NoFile}
          /\ workTree[f] = Repo /\ index[f] = Gitlink => workTree'[f] = Repo
          /\ index[f] \in Blob => workTree'[f] = index[f]
          /\ workTree'[f] \in Blob \cup {NoFile, Repo}
      BY <1>a, <1>b, <3>1 DEF CheckedOut, Blob, Gitlink
    <3>3. Trees'
      BY <1>2, <1>a, <1>b, <2>a, <2>2, <3>1, <3>2 DEF Trees
    <3>4. Agrees(f)' /\ ~ req.staged
      BY <1>c, <2>a, <2>2, <3>1, <3>2 DEF Agrees, Blob, Gitlink, Conflict, NoFile
    <3>5. PanelInv'
      BY <1>f, <1>n, <2>a, <2>2, <3>1, <3>3, <3>4 DEF PathEnds
    <3> QED
      BY <2>a, <3>1, <3>2, <3>4, <3>5
  <2> QED
    BY <1>1, <1>5, <2>1, <2>2 DEF RestoresIndex
<1>6. CASE DropsEntry
  <2>a. req.at = "uncache" /\ UNCHANGED workTree
    BY <1>6 DEF DropsEntry, DiscardAt
  <2>1. CASE GitGoes("failed") /\ UNCHANGED index
    BY <1>2, <1>a, <1>f, <2>a, <2>1 DEF Trees
  <2>2. CASE index' = [index EXCEPT ![f] = NoFile] /\ PathEnds
    <3>1. index'[f] = NoFile /\ \A g \in File : g # f => index'[g] = index[g]
      BY <1>a, <1>b, <2>2
    <3>2. Trees'
      BY <1>2, <1>a, <1>b, <2>a, <2>2 DEF Trees
    <3>3. f \notin touched =>
           /\ Agrees(f)'
           /\ req.staged => ~ Staged(f)' \/ (req.misread /\ InHead(f)' /\ ~ InIndex(f)')
      BY <1>2, <1>c, <2>a, <3>1 DEF Agrees, Staged, InHead, InIndex, Conflict, NoFile, Gitlink
    <3>4. PanelInv'
      BY <1>f, <1>n, <2>a, <2>2, <3>1, <3>2, <3>3 DEF PathEnds
    <3> QED
      BY <1>c, <2>a, <3>1, <3>4
  <2> QED
    BY <1>1, <1>6, <2>1, <2>2 DEF DropsEntry
<1>7. CASE RemovesEntry
  <2>a. req.at = "rm"
    BY <1>7 DEF RemovesEntry, DiscardAt
  <2>1. CASE GitGoes("failed") /\ UNCHANGED <<index, workTree>>
    BY <1>2, <1>a, <1>f, <2>1 DEF Trees
  <2>2. CASE /\ workTree[f] # Repo
             /\ index' = [index EXCEPT ![f] = NoFile]
             /\ workTree' = [workTree EXCEPT ![f] = NoFile]
             /\ GitGoes("wipe") \/ GitGoes("failed")
    <3>1. /\ index'[f] = NoFile
          /\ \A g \in File : g # f => index'[g] = index[g] /\ workTree'[g] = workTree[g]
      BY <1>a, <1>b, <2>2
    <3>2. Trees'
      BY <1>2, <1>a, <1>b, <2>2 DEF Trees
    <3>3. CASE GitGoes("wipe")
      <4>1. PICK at \in DiscardPoints : at = "wipe"
        BY DEF DiscardPoints
      <4>2. PanelInv'
        BY <1>1, <1>2, <1>b, <1>c, <2>a, <3>1, <3>2, <3>3, <4>1, DiscardStays
      <4> QED
        BY <1>c, <2>2, <2>a, <3>1, <4>2
    <3>4. CASE GitGoes("failed")
      BY <1>c, <1>f, <2>2, <2>a, <3>1, <3>2, <3>4
    <3> QED
      BY <2>2, <3>3, <3>4
  <2> QED
    BY <1>1, <1>7, <2>1, <2>2 DEF RemovesEntry
<1>8. CASE Wipes
  <2>a. req.at = "wipe" /\ UNCHANGED index
    BY <1>8 DEF Wipes, DiscardAt
  <2>1. CASE GitGoes("failed") /\ UNCHANGED workTree
    BY <1>2, <1>a, <1>f, <2>a, <2>1 DEF Trees
  <2>2. CASE /\ workTree[f] # Repo /\ workTree' = [workTree EXCEPT ![f] = NoFile]
             /\ NextPath
    <3>1. workTree'[f] = NoFile /\ \A g \in File : g # f => workTree'[g] = workTree[g]
      BY <1>a, <1>b, <2>2
    <3>2. Trees'
      BY <1>2, <1>a, <1>b, <2>a, <2>2 DEF Trees
    <3>3. f \notin touched =>
           /\ Agrees(f)'
           /\ req.staged => ~ Staged(f)' \/ (req.misread /\ InHead(f)' /\ ~ InIndex(f)')
      BY <1>2, <1>c, <2>a, <3>1 DEF Agrees, Staged, InHead, InIndex, Conflict, NoFile, Gitlink
    <3>4. PanelInv'
      BY <1>n, <2>a, <2>2, <3>1, <3>2, <3>3
    <3> QED
      BY <2>a, <2>2, <3>1, <3>4
  <2> QED
    BY <1>1, <1>8, <2>1, <2>2 DEF Wipes
<1> QED
  BY <1>3, <1>4, <1>5, <1>6, <1>7, <1>8 DEF DiscardStep

\* A request that starts knows no path yet, and whether HEAD names a commit.
LEMMA StartKeepsPanel ==
  ASSUME PanelInv, NEW op, NEW paths \in Seq(File), NEW side \in BOOLEAN, NEW at,
         op \in {"discard", "stage", "all", "unstage", "reset", "commit", "commit_all"},
         at \in {"head", "index", "hide", "stage", "unstage", "commit"},
         PanelStarts(op, paths, side, at),
         op = "discard" =>
           /\ at = IF side THEN "head" ELSE "index"
           /\ 1 \in 1..Len(paths)
           /\ \A i, j \in 1..Len(paths) : paths[i] = paths[j] => i = j
  PROVE  PanelInv'
<1>a. /\ Trees /\ born \in BOOLEAN /\ (~ born => \A f \in File : head[f] = NoFile)
  BY DEF PanelInv
<1>1. /\ UNCHANGED <<born, head, index, workTree>> /\ touched' = {}
      /\ \E b \in {born, FALSE} :
           req' = [op |-> op, paths |-> paths, staged |-> side, n |-> 1,
                   born |-> b, misread |-> b # born, at |-> at]
  BY <1>a DEF PanelStarts, repoVars
<1>0. PICK b \in BOOLEAN :
        req' = [op |-> op, paths |-> paths, staged |-> side, n |-> 1,
                born |-> b, misread |-> b # born, at |-> at]
  BY <1>a, <1>1
<1>2. /\ req'.op = op /\ req'.paths = paths /\ req'.staged = side /\ req'.n = 1
      /\ req'.born = b /\ (req'.misread <=> b # born) /\ req'.at = at
  BY <1>0
<1>3. req' \in GitRequests
  BY <1>0 DEF GitRequests, DiscardPoints
<1>4. Trees'
  BY <1>a, <1>1 DEF Trees
<1>5. ASSUME op = "discard"
      PROVE  DiscardInv'
  <2>1. Discarded' = {}
    BY <1>2, <1>5 DEF Discarded
  <2>2. KnowsPath'
    BY <1>2, <1>5 DEF KnowsPath
  <2> QED
    BY <1>a, <1>1, <1>2, <1>5, <2>1, <2>2 DEF DiscardInv, DiscardPoints
<1> QED
  BY <1>a, <1>1, <1>2, <1>3, <1>4, <1>5 DEF PanelInv

\* A discard is of one path or two.
LEMMA PathsOfDiscard ==
  Discard => \E f, g \in File : \E side \in BOOLEAN : \E paths \in {<<f>>, <<f, g>>} :
    /\ Cardinality(Range(paths)) = Len(paths)
    /\ PanelStarts("discard", paths, side, IF side THEN "head" ELSE "index")
BY DEF Discard

\* The two paths of a rename are not the same, so the discard starts with none
\* cleared.
LEMMA DiscardStarts == PanelInv /\ Discard => PanelInv'
<1> SUFFICES ASSUME PanelInv, Discard
             PROVE  PanelInv'
  OBVIOUS
<1>b. PICK f, g \in File : \E side \in BOOLEAN : \E paths \in {<<f>>, <<f, g>>} :
        /\ Cardinality(Range(paths)) = Len(paths)
        /\ PanelStarts("discard", paths, side, IF side THEN "head" ELSE "index")
  BY PathsOfDiscard
<1>c. PICK side \in BOOLEAN : \E paths \in {<<f>>, <<f, g>>} :
        /\ Cardinality(Range(paths)) = Len(paths)
        /\ PanelStarts("discard", paths, side, IF side THEN "head" ELSE "index")
  BY <1>b
<1>1. PICK paths \in {<<f>>, <<f, g>>} :
        /\ Cardinality(Range(paths)) = Len(paths)
        /\ PanelStarts("discard", paths, side, IF side THEN "head" ELSE "index")
  BY <1>c
<1>d. PICK at \in {"head", "index"} : at = IF side THEN "head" ELSE "index"
  OBVIOUS
<1>e. PanelStarts("discard", paths, side, at)
  BY <1>1, <1>d
<1>2. CASE paths = <<f>>
  <2>1. paths \in Seq(File) /\ Len(paths) = 1
    BY <1>2
  <2>2. \A i, j \in 1..Len(paths) : paths[i] = paths[j] => i = j
    BY <2>1
  <2>3. paths \in Seq(File) /\ 1 \in 1..Len(paths)
    BY <2>1
  <2> QED
    BY <1>d, <1>e, <2>2, <2>3, StartKeepsPanel
<1>3. CASE paths = <<f, g>>
  <2>1. /\ paths \in Seq(File) /\ Len(paths) = 2 /\ paths[1] = f /\ paths[2] = g
        /\ DOMAIN paths = 1..2
    BY <1>3
  <2>2. f # g
    <3>1. ASSUME f = g
          PROVE  FALSE
      <4>1. Range(paths) = {f}
        BY <2>1, <3>1 DEF Range
      <4>2. Cardinality(Range(paths)) = 1
        BY <4>1, FS_Singleton
      <4> QED
        BY <1>1, <2>1, <4>2
    <3> QED
      BY <3>1
  <2>3. \A i, j \in 1..Len(paths) : paths[i] = paths[j] => i = j
    BY <2>1, <2>2
  <2>4. paths \in Seq(File) /\ 1 \in 1..Len(paths)
    BY <2>1
  <2> QED
    BY <1>d, <1>e, <2>3, <2>4, StartKeepsPanel
<1> QED
  BY <1>1, <1>2, <1>3

\* So do the requests that are no discard.
LEMMA RecordingStarts == PanelInv /\ Recording => PanelInv'
<1> SUFFICES ASSUME PanelInv, Recording
             PROVE  PanelInv'
  OBVIOUS
<1>1. ASSUME NEW f \in File, NEW op \in {"stage", "unstage"}, PanelStarts(op, <<f>>, FALSE, op)
      PROVE  PanelInv'
  <2>1. <<f>> \in Seq(File)
    OBVIOUS
  <2> QED
    BY <1>1, <2>1, StartKeepsPanel
<1>2. << >> \in Seq(File)
  OBVIOUS
<1>3. ASSUME NEW op \in {"reset", "all", "commit", "commit_all"},
             NEW at \in {"unstage", "hide", "commit"}, PanelStarts(op, << >>, FALSE, at)
      PROVE  PanelInv'
  <2>1. /\ op # "discard" /\ op \in {"all", "reset", "commit", "commit_all"}
        /\ at \in {"hide", "unstage", "commit"}
    OBVIOUS
  <2>2. PICK none \in Seq(File), side \in BOOLEAN : none = << >> /\ side = FALSE
    BY <1>2
  <2>3. PanelStarts(op, none, side, at)
    BY <1>3, <2>2
  <2> QED
    BY <2>1, <2>3, StartKeepsPanel
<1> QED
  BY <1>1, <1>3 DEF Recording

\* What stages, unstages and commits is no discard, and stage-all leaves out the
\* repositories that its status named.
LEMMA RecordingKeepsPanel ==
  ASSUME PanelInv, Hides \/ AddsAll \/ AddsPath \/ Resets \/ Commits
  PROVE  /\ PanelInv'
         /\ \A f \in File : index[f] = NoFile /\ index'[f] = Gitlink /\ AddsAll
              => f \in touched \/ hidden = {}
<1>a. /\ req \in GitRequests /\ Trees /\ born \in BOOLEAN
      /\ head \in [File -> Blob \cup {NoFile, Gitlink}]
      /\ index \in [File -> Blob \cup {NoFile, Gitlink, Conflict}]
      /\ workTree \in [File -> Blob \cup {NoFile, Repo}]
      /\ ~ born => \A f \in File : head[f] = NoFile
  BY DEF PanelInv, Trees
<1>1. req.op # "discard" /\ req.at \in {"hide", "add", "stage", "unstage", "commit"}
  BY DEF PanelInv, DiscardInv, DiscardPoints, Hides, AddsAll, AddsPath, Resets, Commits
<1>2. \A f \in File : AsIndexed(f) \in Blob \cup {NoFile, Gitlink}
  BY <1>a DEF AsIndexed
\* A step that goes on keeps the invariant if it keeps the trees.
<1>g. ASSUME NEW at \in {"add", "commit", "done", "failed"}, GitGoes(at), Trees', born' \in BOOLEAN,
             ~ born' => ~ born /\ head' = head,
             at = "add" /\ hidden' # {} =>
               \A f \in File \ touched' :
                 workTree'[f] = Repo /\ index'[f] = NoFile => f \in hidden'
      PROVE  PanelInv'
  <2>1. req' \in GitRequests /\ req'.at = at /\ req'.op = req.op
    BY <1>a, <1>g, GitGoesOn
  <2> QED
    BY <1>a, <1>1, <1>g, <2>1 DEF PanelInv
<1>3. CASE Hides
  <2>1. /\ hidden' \in {{f \in File : workTree[f] = Repo /\ ~ InIndex(f)}, {}} /\ GitGoes("add")
        /\ UNCHANGED <<born, head, index, workTree>> /\ ~ AddsAll
    BY <1>3 DEF Hides, AddsAll, repoVars
  <2>2. Trees'
    BY <1>a, <2>1 DEF Trees
  <2>3. hidden' # {} => \A f \in File \ touched' :
          workTree'[f] = Repo /\ index'[f] = NoFile => f \in hidden'
    BY <2>1 DEF InIndex
  <2> QED
    BY <1>a, <1>g, <2>1, <2>2, <2>3
<1>4. CASE AddsAll
  <2>1. /\ req.at = "add" /\ UNCHANGED <<born, head, workTree>>
        /\ \E at \in {"commit", "done", "failed"} : GitGoes(at)
        /\ \/ index' = [f \in File |-> IF f \in hidden THEN index[f] ELSE AsIndexed(f)]
           \/ index' = index
    BY <1>4 DEF AddsAll
  <2>2. Trees'
    BY <1>a, <1>2, <2>1 DEF Trees
  <2>3. ASSUME NEW f \in File, index[f] = NoFile, index'[f] = Gitlink
        PROVE  f \in touched \/ hidden = {}
    <3>1. f \notin hidden /\ AsIndexed(f) = Gitlink
      BY <2>1, <2>3 DEF NoFile, Gitlink
    <3>2. workTree[f] = Repo
      BY <1>a, <3>1 DEF AsIndexed, Blob, NoFile, Gitlink, Repo
    <3> QED
      BY <2>1, <2>3, <3>1, <3>2 DEF PanelInv
  <2> QED
    BY <1>a, <1>g, <2>1, <2>2, <2>3
<1>5. CASE AddsPath
  <2>1. /\ UNCHANGED <<born, head, workTree>> /\ ~ AddsAll
        /\ \E at \in {"done", "failed"} : GitGoes(at)
        /\ index' = index \/ index' = [index EXCEPT ![This] = AsIndexed(This)]
    BY <1>5 DEF AddsPath, AddsAll
  <2>2. index' \in [File -> Blob \cup {NoFile, Gitlink, Conflict}]
    BY <1>a, <1>2, <2>1
  <2>3. Trees'
    BY <1>a, <2>1, <2>2 DEF Trees
  <2> QED
    BY <1>a, <1>g, <2>1, <2>3
<1>6. CASE Resets
  <2>1. /\ UNCHANGED <<born, head, workTree>> /\ ~ AddsAll
        /\ \E at \in {"done", "failed"} : GitGoes(at)
        /\ index' = index \/ index' = head \/ index' = [index EXCEPT ![This] = head[This]]
    BY <1>6 DEF Resets, AddsAll
  <2>2. index' \in [File -> Blob \cup {NoFile, Gitlink, Conflict}]
    BY <1>a, <2>1
  <2>3. Trees'
    BY <1>a, <2>1, <2>2 DEF Trees
  <2> QED
    BY <1>a, <1>g, <2>1, <2>3
<1>7. CASE Commits
  <2>1. /\ UNCHANGED <<index, workTree>> /\ ~ AddsAll
        /\ \E at \in {"done", "failed"} : GitGoes(at)
        /\ \/ head' = index /\ born' = TRUE /\ \A f \in File : index[f] # Conflict
           \/ UNCHANGED <<head, born>>
    BY <1>7 DEF Commits, AddsAll
  <2>2. head' \in [File -> Blob \cup {NoFile, Gitlink}]
    BY <1>a, <2>1
  <2>3. Trees'
    BY <1>a, <2>1, <2>2 DEF Trees
  <2>4. born' \in BOOLEAN /\ (~ born' => ~ born /\ head' = head)
    <3>1. CASE born' = TRUE
      BY <3>1, Zenon
    <3>2. CASE UNCHANGED <<head, born>>
      BY <1>a, <3>2, Zenon
    <3> QED
      BY <2>1, <3>1, <3>2
  <2>5. PICK at \in {"done", "failed"} : GitGoes(at)
    BY <2>1
  <2> QED
    BY <1>g, <2>1, <2>3, <2>4, <2>5
<1> QED
  BY <1>3, <1>4, <1>5, <1>6, <1>7

\* What the panel and the agent do keeps the invariant, and the panel keeps its
\* word.
LEMMA PanelInvStep ==
  ASSUME PanelInv, [GitNext]_panelVars
  PROVE  /\ PanelInv'
         /\ \A f \in File : index'[f] # index[f] /\ DiscardStep
              => \/ f \in touched
                 \/ /\ req.staged \/ index[f] = Conflict
                    /\ index'[f] = head[f] \/ req.misread
         /\ \A f \in File : workTree[f] = Repo /\ workTree'[f] # Repo /\ DiscardStep
              => f \in touched \/ head[f] \in Blob \/ (~ req.staged /\ index[f] \in Blob)
         /\ \A f \in File : index[f] = NoFile /\ index'[f] = Gitlink /\ AddsAll
              => f \in touched \/ hidden = {}
<1>1. PanelInv'
  <2>1. CASE GitAnswered
    <3>1. req' = NoGit /\ UNCHANGED <<born, head, index, workTree>>
      BY <2>1 DEF GitAnswered, repoVars
    <3>2. req' \in GitRequests /\ req'.op = "none" /\ req'.at = "idle"
      BY <3>1 DEF NoGit, GitRequests
    <3>3. Trees'
      BY <3>1 DEF Trees, PanelInv
    <3> QED
      BY <3>1, <3>2, <3>3 DEF PanelInv
  <2>2. CASE UNCHANGED panelVars
    BY <2>2 DEF panelVars, PanelInv, Trees, DiscardInv, Discarded, RowIsGone, Agrees, Staged,
      InHead, InIndex,
                KnowsPath, This
  <2> QED
    BY <2>1, <2>2, AgentKeepsPanel, DiscardStarts, DiscardKeepsPanel, RecordingStarts,
       RecordingKeepsPanel
    DEF GitNext
<1> QED
  BY <1>1, DiscardKeepsPanel, RecordingKeepsPanel

\* A row whose discard is through is gone.
LEMMA RowsAreCleared == PanelInv => DiscardClearsTheRow
BY DEF PanelInv, DiscardInv, RowIsGone, DiscardClearsTheRow

-----------------------------------------------------------------------------
(* The ports served *)

\* The types of requests.
ServeRequests ==
  [at : {"idle", "look", "ensure", "disable", "fallback", "set"},
   on : BOOLEAN, port : HttpsPort, drop : SUBSET HttpsPort, had : BOOLEAN, alone : BOOLEAN]

\* The types.
PortTypes ==
  /\ mapping \in [HttpsPort -> {"free", "ours", "foreign"}]
  /\ setting \in [on : BOOLEAN, port : HttpsPort]
  /\ startup \in [at : {"over", "look", "ensure", "ports", "disable"}, on : BOOLEAN,
                  port : HttpsPort, drop : SUBSET HttpsPort]
  /\ request \in [Serving -> ServeRequests]
  /\ seen \subseteq HttpsPort

\* Requests are served while the server is up, and its shutdown is the start's.
ServesWhenUp ==
  /\ server # "up" => \A r \in Serving : ~ Busy(r)
  /\ startup.at \in {"ports", "disable"} => server = "closing"

\* A request that is alone has the mappings for itself but for strangers.
Alone(r) == startup.at = "over" /\ \A q \in Serving : q # r => ~ Busy(q)

\* What a request has looked at is not another's, unless it was seen to change.
LookedAt(r) ==
  /\ request[r].at = "look" => ~ request[r].had
  /\ request[r].at = "fallback" => ~ request[r].on
  /\ request[r].at = "ensure" => request[r].port \notin Foreign \ seen
  /\ request[r].at \in {"ensure", "disable"} => request[r].drop \cap Foreign \subseteq seen

\* What is ours on the way from the old ports to the new one.
MovesFrom(r) ==
  /\ request[r].at = "ensure" =>
       /\ request[r].drop = Ours /\ request[r].port \notin Ours
       /\ request[r].had => Ours # {}
  /\ request[r].at = "disable" =>
       Ours = request[r].drop \cup {request[r].port} /\ request[r].port \notin request[r].drop
  /\ request[r].at = "set" => Ours = {request[r].port}

\* What every request relies on, from its looks to its end.
PortsInv ==
  /\ PortTypes /\ ServesWhenUp
  /\ \A r \in Serving :
       /\ LookedAt(r)
       /\ Busy(r) /\ request[r].alone => Alone(r)
       /\ request[r].alone /\ request[r].on /\ seen = {} => MovesFrom(r)

\* Min of a set of numbers is one of them.
LEMMA LeastPort ==
  ASSUME NEW S \in SUBSET HttpsPort, S # {}
  PROVE  Min(S) \in S
<1> DEFINE Below == OpToRel(<, Nat)
<1>1. S \subseteq Nat
  BY ServeConstants
<1>2. IsWellFoundedOn(Below, Nat)
  BY NatLessThanWellFounded
<1>3. \A g, h \in Nat : h < g => <<h, g>> \in Below
  BY DEF OpToRel
<1> HIDE DEF Below
<1>4. PICK g \in S : \A h \in S : ~ (<<h, g>> \in Below)
  BY <1>1, <1>2, WFMin
<1>5. ASSUME NEW h \in S
      PROVE  g =< h
  <2>1. g \in Nat /\ h \in Nat
    BY <1>1
  <2>2. ~ (h < g)
    BY <1>3, <1>4, <2>1
  <2> QED
    BY <2>1, <2>2
<1> QED
  BY <1>5 DEF Min

\* The row of no request is of its type.
LEMMA NoRequestIsIdle ==
  Min(HttpsPort) \in HttpsPort /\ NoRequest \in ServeRequests /\ NoRequest.at = "idle"
<1>1. Min(HttpsPort) \in HttpsPort
  BY LeastPort, ServeConstants
<1> QED
  BY <1>1 DEF NoRequest, ServeRequests

\* Nothing is served and nothing asked when the model starts.
LEMMA PortsInvInit == ServeInit => PortsInv
<1> SUFFICES ASSUME ServeInit
             PROVE  PortsInv
  OBVIOUS
<1>1. /\ mapping = [p \in HttpsPort |-> "free"] /\ server = "down" /\ seen = {}
      /\ setting = [on |-> FALSE, port |-> Min(HttpsPort)]
      /\ startup = [at |-> "over", on |-> FALSE, port |-> Min(HttpsPort), drop |-> {}]
      /\ request \in [Serving -> ServeRequests]
      /\ \A r \in Serving : request[r].at = "idle"
  BY NoRequestIsIdle DEF ServeInit, NoStart
<1>2. PortTypes
  BY <1>1, NoRequestIsIdle DEF PortTypes
<1>3. ServesWhenUp
  BY <1>1 DEF ServesWhenUp, Busy
<1> QED
  BY <1>1, <1>2, <1>3 DEF PortsInv, LookedAt, MovesFrom, Busy

\* What a call of the tailscale command does to the ports that are ours.
LEMMA PortsMoved ==
  ASSUME PortTypes, NEW p \in HttpsPort
  PROVE  /\ Ensured(p) => Ours' = Ours \cup {p} /\ Foreign' = Foreign \ {p}
         /\ Disabled(p) => Ours' = Ours \ {p} /\ Foreign' = Foreign \ {p}
         /\ Ensured(p) \/ Disabled(p) => mapping' \in [HttpsPort -> {"free", "ours", "foreign"}]
         /\ mapping' = mapping => Ours' = Ours /\ Foreign' = Foreign
<1>1. mapping \in [HttpsPort -> {"free", "ours", "foreign"}]
  BY DEF PortTypes
<1> QED
  BY <1>1 DEF Ensured, Disabled, Ours, Foreign

\* A step of one request keeps the invariant if it does for that request.
LEMMA OneRequest ==
  ASSUME PortsInv, NEW r \in Serving, Busy(r), NEW rec \in ServeRequests,
         request' = [request EXCEPT ![r] = rec], UNCHANGED <<server, startup, seen>>,
         setting' \in [on : BOOLEAN, port : HttpsPort],
         mapping' \in [HttpsPort -> {"free", "ours", "foreign"}], Foreign' \subseteq Foreign,
         rec.at = "idle" \/ (rec.alone = request[r].alone /\ LookedAt(r)'),
         rec.at # "idle" /\ rec.alone /\ rec.on /\ seen = {} => MovesFrom(r)'
  PROVE  PortsInv'
<1>a. /\ PortTypes /\ ServesWhenUp
      /\ \A q \in Serving :
           /\ LookedAt(q)
           /\ Busy(q) /\ request[q].alone => Alone(q)
  BY DEF PortsInv
<1>b. request'[r] = rec /\ \A q \in Serving : q # r => request'[q] = request[q]
  BY <1>a DEF PortTypes
<1>1. PortTypes'
  BY <1>a DEF PortTypes
<1>2. ServesWhenUp'
  BY <1>a, <1>b DEF ServesWhenUp, Busy
<1>3. \A q \in Serving : LookedAt(q)'
  BY <1>a, <1>b DEF LookedAt
<1>4. \A q \in Serving : Busy(q)' => Busy(q)
  BY <1>b DEF Busy
<1>5. \A q \in Serving : Busy(q)' /\ request'[q].alone => Alone(q)'
  <2> SUFFICES ASSUME NEW q \in Serving, Busy(q)', request'[q].alone
               PROVE  Alone(q)'
    OBVIOUS
  <2>1. Busy(q) /\ request[q].alone
    BY <1>b, <1>4 DEF Busy
  <2>2. Alone(q)
    BY <1>a, <2>1
  <2> QED
    BY <1>4, <2>2 DEF Alone
<1>6. ASSUME NEW q \in Serving, request'[q].alone, request'[q].on, seen' = {}
      PROVE  MovesFrom(q)'
  <2>1. CASE ~ Busy(q)'
    BY <2>1 DEF MovesFrom, Busy
  <2>2. CASE Busy(q)' /\ q = r
    BY <1>6, <1>b, <2>2 DEF Busy
  <2>3. CASE Busy(q)' /\ q # r
    BY <1>5, <1>6, <1>4, <1>b, <2>3 DEF Alone, Busy, PortsInv
  <2> QED
    BY <2>1, <2>2, <2>3
<1> QED
  BY <1>1, <1>2, <1>3, <1>5, <1>6 DEF PortsInv

\* While an enable that found a port served is alone, one is served.
LEMMA StillServed ==
  ASSUME PortsInv, NEW r \in Serving, Busy(r), request[r].on, request[r].had, request[r].alone,
         seen = {}
  PROVE  Ours # {}
<1>1. LookedAt(r) /\ MovesFrom(r)
  BY DEF PortsInv
<1>2. request[r].at \in {"idle", "look", "ensure", "disable", "fallback", "set"}
  BY DEF PortsInv, PortTypes, ServeRequests
<1> QED
  BY <1>1, <1>2 DEF LookedAt, MovesFrom, Busy

\* What a request does once it is under way.
RequestGoesOn(r) == Looks(r) \/ Ensures(r) \/ Disables(r) \/ FallsBack(r) \/ Stores(r)

\* A step of a request keeps the invariant, leaves a server served that was,
\* and takes no port of another's unless that has just come, but for the
\* disable that could not read the mappings.
LEMMA RequestsKeepPorts ==
  ASSUME PortsInv, NEW r \in Serving, RequestGoesOn(r)
  PROVE  /\ PortsInv' /\ Busy(r)
         /\ request[r].on /\ request[r].had /\ request[r].alone /\ seen = {} => Ours' # {}
         /\ \A p \in HttpsPort :
              mapping[p] = "foreign" /\ mapping'[p] # "foreign" /\ ~ FallsBack(r) => p \in seen
<1>a. /\ mapping \in [HttpsPort -> {"free", "ours", "foreign"}]
      /\ setting \in [on : BOOLEAN, port : HttpsPort]
      /\ request \in [Serving -> ServeRequests]
  BY DEF PortsInv, PortTypes
<1>o. PICK o \in ServeRequests : o = request[r]
  BY <1>a
<1>t. /\ o.at \in {"idle", "look", "ensure", "disable", "fallback", "set"}
      /\ o.on \in BOOLEAN /\ o.port \in HttpsPort /\ o.drop \in SUBSET HttpsPort
      /\ o.had \in BOOLEAN /\ o.alone \in BOOLEAN
  BY DEF ServeRequests
<1>l. /\ o.at = "look" => ~ o.had
      /\ o.at = "fallback" => ~ o.on
      /\ o.at = "ensure" => o.port \notin Foreign \ seen
      /\ o.at \in {"ensure", "disable"} => o.drop \cap Foreign \subseteq seen
  BY <1>o DEF PortsInv, LookedAt
<1>m. o.alone /\ o.on /\ seen = {} =>
        /\ o.at = "ensure" => o.drop = Ours /\ o.port \notin Ours /\ (o.had => Ours # {})
        /\ o.at = "disable" => Ours = o.drop \cup {o.port} /\ o.port \notin o.drop
        /\ o.at = "set" => Ours = {o.port}
  BY <1>o DEF PortsInv, MovesFrom
<1>s. Ours \subseteq HttpsPort /\ Foreign \subseteq HttpsPort
  BY DEF Ours, Foreign
<1>p. PortTypes
  BY DEF PortsInv
<1>n. NoRequest \in ServeRequests /\ NoRequest.at = "idle"
  BY NoRequestIsIdle
<1>u. UNCHANGED <<server, startup, seen>>
  BY DEF RequestGoesOn, Looks, Ensures, Disables, FallsBack, Stores
<1>b. Busy(r)
  BY DEF RequestGoesOn, Looks, Ensures, Disables, FallsBack, Stores, Busy
\* The request becomes one of these.
<1>e. ASSUME NEW rec \in ServeRequests, request' = [request EXCEPT ![r] = rec]
      PROVE  request'[r] = rec
  BY <1>a, <1>e
<1>q. ASSUME NEW rec \in ServeRequests, request' = [request EXCEPT ![r] = rec],
             setting' = setting, mapping' \in [HttpsPort -> {"free", "ours", "foreign"}],
             Foreign' \subseteq Foreign,
             rec.at = "idle" \/ (rec.alone = o.alone /\ LookedAt(r)'),
             rec.at # "idle" /\ rec.alone /\ rec.on /\ seen = {} => MovesFrom(r)'
      PROVE  PortsInv'
  BY <1>q, <1>a, <1>b, <1>o, <1>u, OneRequest
<1>f. ASSUME ServeEnds(r), setting' \in [on : BOOLEAN, port : HttpsPort],
             Foreign' \subseteq Foreign,
             mapping' \in [HttpsPort -> {"free", "ours", "foreign"}]
      PROVE  PortsInv'
  <2>1. PICK rec \in ServeRequests : rec = NoRequest
    BY <1>n
  <2>2. rec.at = "idle" /\ request' = [request EXCEPT ![r] = rec]
    BY <1>f, <1>n, <2>1 DEF ServeEnds, ServeSets
  <2> QED
    BY <1>f, <1>b, <1>u, <2>2, OneRequest
<1>1. CASE Looks(r)
  <2>1. /\ o.at = "look" /\ UNCHANGED <<mapping, setting>> /\ Ours' = Ours /\ Foreign' = Foreign
    BY <1>o, <1>1 DEF Looks, Ours, Foreign
  <2>2. CASE o.on /\ o.port \notin Foreign
             /\ ServeSets(r, [o EXCEPT !.had = Ours # {}, !.drop = Ours \ {o.port},
                                !.at = IF o.port \in Ours THEN "disable" ELSE "ensure"])
    <3>1. PICK rec : rec = [o EXCEPT !.had = Ours # {}, !.drop = Ours \ {o.port},
                              !.at = IF o.port \in Ours THEN "disable" ELSE "ensure"]
      OBVIOUS
    <3>2. /\ rec \in ServeRequests /\ rec.alone = o.alone /\ rec.on /\ rec.port = o.port
          /\ rec.had = (Ours # {}) /\ rec.drop = Ours \ {o.port}
          /\ rec.at = IF o.port \in Ours THEN "disable" ELSE "ensure"
      BY <1>t, <1>s, <2>2, <3>1 DEF ServeRequests
    <3>3. request' = [request EXCEPT ![r] = rec] /\ request'[r] = rec
      BY <1>e, <2>2, <3>1, <3>2 DEF ServeSets
    <3>4. Ours \cap Foreign = {}
      BY DEF Ours, Foreign
    <3>6. LookedAt(r)'
      BY <2>1, <2>2, <3>2, <3>3, <3>4 DEF LookedAt
    <3>7. MovesFrom(r)'
      <4>1. CASE o.port \in Ours
        BY <2>1, <3>2, <3>3, <4>1 DEF MovesFrom
      <4>2. CASE o.port \notin Ours
        <5>1. Ours \ {o.port} = Ours
          BY <4>2
        <5>2. request'[r].had => Ours # {}
          BY <3>2, <3>3
        <5> QED
          BY <2>1, <3>2, <3>3, <4>2, <5>1, <5>2 DEF MovesFrom
      <4> QED
        BY <4>1, <4>2
    <3>5. LookedAt(r)' /\ MovesFrom(r)'
      BY <3>6, <3>7
    <3> QED
      BY <1>a, <1>b, <1>l, <1>q, <1>o, <2>1, <3>2, <3>3, <3>5
  <2>3. CASE ServeEnds(r)
    BY <1>a, <1>b, <1>l, <1>o, <1>f, <2>1, <2>3
  <2>4. CASE ~ o.on /\ ServeSets(r, [o EXCEPT !.drop = Ours, !.at = "disable"])
    <3>1. PICK rec : rec = [o EXCEPT !.drop = Ours, !.at = "disable"]
      OBVIOUS
    <3>2. /\ rec \in ServeRequests /\ rec.alone = o.alone /\ ~ rec.on
          /\ rec.drop = Ours /\ rec.at = "disable"
      BY <1>t, <1>s, <2>4, <3>1 DEF ServeRequests
    <3>3. request' = [request EXCEPT ![r] = rec] /\ request'[r] = rec
      BY <1>e, <2>4, <3>1, <3>2 DEF ServeSets
    <3>4. Ours \cap Foreign = {}
      BY DEF Ours, Foreign
    <3>5. LookedAt(r)'
      BY <2>1, <3>2, <3>3, <3>4 DEF LookedAt
    <3> QED
      BY <1>a, <1>b, <1>l, <1>q, <1>o, <2>1, <2>4, <3>2, <3>3, <3>5
  <2>5. CASE ~ o.on /\ ServeGoes(r, "fallback")
    <3>1. PICK rec : rec = [o EXCEPT !.at = "fallback"]
      OBVIOUS
    <3>2. rec \in ServeRequests /\ rec.alone = o.alone /\ ~ rec.on /\ rec.at = "fallback"
      BY <1>t, <2>5, <3>1 DEF ServeRequests
    <3>3. request' = [request EXCEPT ![r] = rec] /\ request'[r] = rec
      BY <1>a, <1>o, <1>e, <2>5, <3>1, <3>2 DEF ServeGoes
    <3>5. LookedAt(r)'
      BY <3>2, <3>3 DEF LookedAt
    <3> QED
      BY <1>a, <1>b, <1>l, <1>q, <1>o, <2>1, <2>5, <3>2, <3>3, <3>5
  <2> QED
    BY <1>1, <1>o, <2>2, <2>3, <2>4, <2>5 DEF Looks
<1>2. CASE Ensures(r)
  <2>1. o.at = "ensure" /\ UNCHANGED setting
    BY <1>o, <1>2 DEF Ensures
  <2>2. /\ Ours' = Ours \cup {o.port} \/ (Ours' = Ours /\ ServeEnds(r))
        /\ Foreign' = Foreign \ {o.port} \/ Foreign' = Foreign
        /\ mapping' \in [HttpsPort -> {"free", "ours", "foreign"}]
        /\ \A p \in HttpsPort : mapping'[p] # mapping[p] => p = o.port
    <3>1. Ensured(o.port) \/ (mapping' = mapping /\ ServeEnds(r))
      BY <1>o, <1>2 DEF Ensures
    <3>2. \A p \in HttpsPort : mapping'[p] # mapping[p] => p = o.port
      BY <1>a, <3>1 DEF Ensured
    <3> QED
      BY <1>a, <1>t, <1>p, <3>1, <3>2, PortsMoved
  <2>3. \A p \in HttpsPort : mapping[p] = "foreign" /\ mapping'[p] # "foreign" => p \in seen
    BY <1>l, <2>1, <2>2 DEF Foreign
  <2>4. o.on /\ o.had /\ o.alone /\ seen = {} => Ours' # {}
    BY <1>m, <2>1, <2>2
  <2>5. CASE ServeGoes(r, "disable") /\ Ours' = Ours \cup {o.port}
    <3>1. PICK rec : rec = [o EXCEPT !.at = "disable"]
      OBVIOUS
    <3>2. /\ rec \in ServeRequests /\ rec.alone = o.alone /\ rec.on = o.on /\ rec.at = "disable"
          /\ rec.port = o.port /\ rec.drop = o.drop
      BY <1>t, <3>1 DEF ServeRequests
    <3>3. request' = [request EXCEPT ![r] = rec] /\ request'[r] = rec
      BY <1>a, <1>o, <1>e, <2>5, <3>1, <3>2 DEF ServeGoes
    <3>4. LookedAt(r)'
      BY <1>l, <2>1, <2>2, <1>u, <3>2, <3>3 DEF LookedAt
    <3>5. rec.alone /\ rec.on /\ seen = {} => MovesFrom(r)'
      BY <1>m, <2>1, <2>5, <3>2, <3>3 DEF MovesFrom
    <3>6. PortsInv'
      BY <1>q, <1>o, <2>1, <2>2, <3>2, <3>3, <3>4, <3>5
    <3> QED
      BY <1>b, <1>o, <2>3, <2>4, <3>6
  <2>6. CASE ServeEnds(r)
    <3>1. PortsInv'
      BY <1>a, <1>f, <2>1, <2>2, <2>6
    <3> QED
      BY <1>b, <1>o, <2>3, <2>4, <3>1
  <2> QED
    BY <1>2, <1>o, <1>p, <1>t, <2>2, <2>5, <2>6, PortsMoved DEF Ensures
<1>3. CASE Disables(r)
  <2>1. o.at = "disable" /\ UNCHANGED setting
    BY <1>o, <1>3 DEF Disables
  <2>2. CASE o.drop = {}
    <3>1. PICK rec : rec = [o EXCEPT !.at = "set"]
      OBVIOUS
    <3>2. /\ rec \in ServeRequests /\ rec.alone = o.alone /\ rec.on = o.on /\ rec.at = "set"
          /\ rec.port = o.port
      BY <1>t, <3>1 DEF ServeRequests
    <3>3. /\ request' = [request EXCEPT ![r] = rec] /\ request'[r] = rec
          /\ mapping' = mapping /\ Ours' = Ours /\ Foreign' = Foreign
      BY <1>a, <1>o, <1>e, <1>3, <2>2, <3>1, <3>2 DEF Disables, ServeGoes, Ours, Foreign
    <3>4. LookedAt(r)'
      BY <3>2, <3>3 DEF LookedAt
    <3>5. rec.alone /\ rec.on /\ seen = {} => MovesFrom(r)'
      BY <1>m, <2>1, <2>2, <3>2, <3>3 DEF MovesFrom
    <3>6. PortsInv'
      BY <1>a, <1>q, <1>o, <2>1, <3>2, <3>3, <3>4, <3>5
    <3> QED
      BY <1>b, <1>m, <1>o, <2>1, <3>3, <3>6
  <2>3. CASE o.drop # {}
    <3>1. PICK p \in HttpsPort : p \in o.drop /\ p = Min(o.drop)
      BY <1>t, <2>3, LeastPort
    <3>2. \/ Disabled(p) /\ (ServeSets(r, [o EXCEPT !.drop = @ \ {p}]) \/ ServeEnds(r))
          \/ ServeEnds(r) /\ UNCHANGED mapping
      BY <1>3, <1>o, <2>3, <3>1 DEF Disables
    <3>3. /\ \/ Disabled(p) /\ Ours' = Ours \ {p} /\ Foreign' = Foreign \ {p}
             \/ ServeEnds(r) /\ mapping' = mapping /\ Ours' = Ours /\ Foreign' = Foreign
          /\ mapping' \in [HttpsPort -> {"free", "ours", "foreign"}]
          /\ \A n \in HttpsPort : mapping'[n] # mapping[n] => n = p
      BY <1>a, <1>p, <3>2, PortsMoved DEF Disabled
    <3>4. \A n \in HttpsPort : mapping[n] = "foreign" /\ mapping'[n] # "foreign" => n \in seen
      BY <1>l, <2>1, <3>1, <3>3 DEF Foreign
    <3>5. o.on /\ o.had /\ o.alone /\ seen = {} => Ours' # {}
      BY <1>m, <2>1, <3>1, <3>3
    <3>6. CASE Disabled(p) /\ ServeSets(r, [o EXCEPT !.drop = @ \ {p}])
      <4>1. PICK rec : rec = [o EXCEPT !.drop = @ \ {p}]
        OBVIOUS
      <4>2. /\ rec \in ServeRequests /\ rec.alone = o.alone /\ rec.on = o.on
            /\ rec.at = "disable" /\ rec.port = o.port /\ rec.drop = o.drop \ {p}
        BY <1>t, <2>1, <4>1 DEF ServeRequests
      <4>3. request' = [request EXCEPT ![r] = rec] /\ request'[r] = rec
        BY <1>e, <3>6, <4>1, <4>2 DEF ServeSets
      <4>4. Ours' = Ours \ {p} /\ Foreign' = Foreign \ {p}
        BY <1>p, <3>6, PortsMoved
      <4>5. LookedAt(r)'
        BY <1>l, <1>u, <2>1, <4>2, <4>3, <4>4 DEF LookedAt
      <4>6. rec.alone /\ rec.on /\ seen = {} => MovesFrom(r)'
        BY <1>m, <2>1, <3>1, <4>2, <4>3, <4>4 DEF MovesFrom
      <4>7. PortsInv'
        BY <1>q, <1>o, <2>1, <3>3, <4>2, <4>3, <4>4, <4>5, <4>6
      <4> QED
        BY <1>b, <1>o, <3>4, <3>5, <4>7
    <3>7. CASE ServeEnds(r)
      <4>1. PortsInv'
        BY <1>a, <1>f, <2>1, <3>3, <3>7
      <4> QED
        BY <1>b, <1>o, <3>4, <3>5, <4>1
    <3> QED
      BY <3>2, <3>6, <3>7
  <2> QED
    BY <2>2, <2>3
<1>4. CASE FallsBack(r)
  <2>1. o.at = "fallback" /\ UNCHANGED setting /\ ~ o.on
    BY <1>l, <1>o, <1>4 DEF FallsBack
  <2>2. /\ Foreign' \subseteq Foreign
        /\ mapping' \in [HttpsPort -> {"free", "ours", "foreign"}]
    BY <1>a, <1>t, <1>o, <1>4, <1>p, PortsMoved DEF FallsBack
  <2>3. CASE ServeGoes(r, "set")
    <3>1. PICK rec : rec = [o EXCEPT !.at = "set"]
      OBVIOUS
    <3>2. rec \in ServeRequests /\ rec.alone = o.alone /\ ~ rec.on /\ rec.at = "set"
      BY <1>t, <2>1, <3>1 DEF ServeRequests
    <3>3. request' = [request EXCEPT ![r] = rec] /\ request'[r] = rec
      BY <1>a, <1>o, <1>e, <2>3, <3>1, <3>2 DEF ServeGoes
    <3>4. LookedAt(r)'
      BY <3>2, <3>3 DEF LookedAt
    <3>5. PortsInv'
      BY <1>q, <1>o, <2>1, <2>2, <3>2, <3>3, <3>4
    <3> QED
      BY <1>4, <1>b, <1>o, <2>1, <3>5
  <2>4. CASE ServeEnds(r)
    <3>1. PortsInv'
      BY <1>a, <1>f, <2>1, <2>2, <2>4
    <3> QED
      BY <1>4, <1>b, <1>o, <2>1, <3>1
  <2> QED
    BY <1>4, <2>3, <2>4 DEF FallsBack
<1>5. CASE Stores(r)
  <2>1. /\ o.at = "set" /\ mapping' = mapping /\ Ours' = Ours /\ Foreign' = Foreign
        /\ setting' \in [on : BOOLEAN, port : HttpsPort] /\ ServeEnds(r)
    BY <1>a, <1>o, <1>t, <1>5 DEF Stores, Ours, Foreign
  <2>2. PortsInv'
    BY <1>a, <1>f, <2>1
  <2> QED
    BY <1>b, <1>m, <1>o, <2>1, <2>2
<1> QED
  BY <1>1, <1>2, <1>3, <1>4, <1>5 DEF RequestGoesOn

\* Steps of others, of a new request and of the server itself keep the invariant.
LEMMA ServerKeepsPorts ==
  ASSUME PortsInv,
         \/ \E p \in HttpsPort : OthersServe(p)
         \/ \E r \in Serving : ServeAsked(r)
         \/ Boots \/ StartLooks \/ StartEnsures \/ Closes \/ CloseLooks \/ CloseDisables \/ Crashes
  PROVE  PortsInv'
<1>a. /\ mapping \in [HttpsPort -> {"free", "ours", "foreign"}]
      /\ setting \in [on : BOOLEAN, port : HttpsPort]
      /\ startup \in [at : {"over", "look", "ensure", "ports", "disable"}, on : BOOLEAN,
                      port : HttpsPort, drop : SUBSET HttpsPort]
      /\ request \in [Serving -> ServeRequests] /\ seen \subseteq HttpsPort
      /\ PortTypes /\ ServesWhenUp
  BY DEF PortsInv, PortTypes
<1>l. \A r \in Serving :
        /\ LookedAt(r)
        /\ Busy(r) /\ request[r].alone => Alone(r)
        /\ request[r].alone /\ request[r].on /\ seen = {} => MovesFrom(r)
  BY DEF PortsInv
<1>1. ASSUME NEW p \in HttpsPort, OthersServe(p)
      PROVE  PortsInv'
  <2>1. /\ UNCHANGED <<setting, server, startup, request>>
        /\ mapping' \in [HttpsPort -> {"free", "ours", "foreign"}]
        /\ Foreign' \subseteq Foreign \cup {p}
        /\ seen' = IF SomeoneBusy THEN seen \cup {p} ELSE {}
    BY <1>1, <1>a DEF OthersServe, Foreign
  <2>2. PortTypes' /\ ServesWhenUp'
    BY <1>a, <2>1 DEF PortTypes, ServesWhenUp, Busy
  <2>3. ASSUME NEW r \in Serving
        PROVE  /\ LookedAt(r)'
               /\ Busy(r)' /\ request'[r].alone => Alone(r)'
               /\ request'[r].alone /\ request'[r].on /\ seen' = {} => MovesFrom(r)'
    <3>1. CASE Busy(r)
      BY <1>l, <2>1, <3>1 DEF SomeoneBusy, LookedAt, Alone, Busy
    <3>2. CASE ~ Busy(r)
      BY <2>1, <3>2 DEF LookedAt, MovesFrom, Busy
    <3> QED
      BY <3>1, <3>2
  <2> QED
    BY <2>2, <2>3 DEF PortsInv
<1>2. ASSUME NEW r \in Serving, ServeAsked(r)
      PROVE  PortsInv'
  <2>1. PICK on \in BOOLEAN, p \in HttpsPort :
          request' = [q \in Serving |->
            IF q = r THEN [at |-> "look", on |-> on, port |-> p, drop |-> {}, had |-> FALSE,
                           alone |-> ~ SomeoneBusy]
            ELSE IF Busy(q) THEN [request[q] EXCEPT !.alone = FALSE]
            ELSE NoRequest]
    BY <1>2 DEF ServeAsked
  <2>2. /\ UNCHANGED <<mapping, setting, server, startup>> /\ server = "up" /\ ~ Busy(r)
        /\ seen' = IF SomeoneBusy THEN seen ELSE {}
        /\ Ours' = Ours /\ Foreign' = Foreign
    BY <1>2 DEF ServeAsked, Ours, Foreign
  <2>3. /\ request'[r].at = "look" /\ ~ request'[r].had
        /\ request'[r].alone = ~ SomeoneBusy
    BY <2>1
  <2>4. ASSUME NEW q \in Serving, q # r, Busy(q)
        PROVE  /\ request'[q] \in ServeRequests /\ ~ request'[q].alone
               /\ request'[q].at = request[q].at /\ request'[q].on = request[q].on
               /\ request'[q].port = request[q].port /\ request'[q].drop = request[q].drop
               /\ request'[q].had = request[q].had
    BY <1>a, <2>1, <2>4 DEF ServeRequests
  <2>5. ASSUME NEW q \in Serving, q # r, ~ Busy(q)
        PROVE  request'[q] \in ServeRequests /\ request'[q].at = "idle"
    BY <2>1, <2>5, NoRequestIsIdle
  <2>6. request'[r] \in ServeRequests
    BY <2>1 DEF ServeRequests, SomeoneBusy
  <2>7. PortTypes'
    <3>1. request' \in [Serving -> ServeRequests]
      BY <2>1, <2>4, <2>5, <2>6
    <3> QED
      BY <1>a, <2>2, <3>1 DEF PortTypes
  <2>8. ServesWhenUp'
    BY <1>a, <2>2 DEF ServesWhenUp, Busy
  <2>9. ASSUME NEW q \in Serving
        PROVE  /\ LookedAt(q)'
               /\ Busy(q)' /\ request'[q].alone => Alone(q)'
               /\ request'[q].alone /\ request'[q].on /\ seen' = {} => MovesFrom(q)'
    <3>1. CASE q = r
      <4>1. LookedAt(q)' /\ MovesFrom(q)'
        BY <2>3, <3>1 DEF LookedAt, MovesFrom
      <4>2. ~ SomeoneBusy => Alone(r)'
        BY <2>2, <2>5 DEF SomeoneBusy, Alone, Busy
      <4> QED
        BY <2>3, <3>1, <4>1, <4>2
    <3>2. CASE q # r /\ Busy(q)
      <4>1. SomeoneBusy /\ seen' = seen
        BY <2>2, <3>2 DEF SomeoneBusy
      <4> QED
        BY <1>l, <2>2, <2>4, <3>2, <4>1 DEF LookedAt
    <3>3. CASE q # r /\ ~ Busy(q)
      BY <2>5, <3>3 DEF LookedAt, MovesFrom, Busy
    <3> QED
      BY <3>1, <3>2, <3>3
  <2> QED
    BY <2>7, <2>8, <2>9 DEF PortsInv
\* The server's own steps: no request is under way that is alone.
<1>3. ASSUME UNCHANGED request, Foreign' \subseteq Foreign, PortTypes', ServesWhenUp',
             seen' = seen \/ \A r \in Serving : ~ Busy(r),
             \A r \in Serving : Busy(r) => ~ request[r].alone
      PROVE  PortsInv'
  <2>1. ASSUME NEW r \in Serving
        PROVE  /\ LookedAt(r)'
               /\ Busy(r)' /\ request'[r].alone => Alone(r)'
               /\ request'[r].alone /\ request'[r].on /\ seen' = {} => MovesFrom(r)'
    <3>1. CASE Busy(r)
      BY <1>3, <1>l, <3>1 DEF LookedAt, Busy
    <3>2. CASE ~ Busy(r)
      BY <1>3, <3>2 DEF LookedAt, MovesFrom, Busy
    <3> QED
      BY <3>1, <3>2
  <2> QED
    BY <1>3, <2>1 DEF PortsInv
<1>4. startup.at # "over" => \A r \in Serving : Busy(r) => ~ request[r].alone
  BY <1>l DEF Alone
<1>p. /\ startup.at \in {"over", "look", "ensure", "ports", "disable"} /\ startup.on \in BOOLEAN
      /\ startup.port \in HttpsPort /\ startup.drop \in SUBSET HttpsPort
      /\ setting.on \in BOOLEAN /\ setting.port \in HttpsPort
  BY <1>a
<1>5. CASE Boots
  <2>1. \A r \in Serving : ~ Busy(r)
    BY <1>5, <1>a DEF Boots, ServesWhenUp
  <2>2. /\ UNCHANGED <<mapping, setting, request>> /\ seen' = {} /\ server' = "up"
        /\ startup'.at \in {"look", "over"} /\ Foreign' = Foreign
        /\ startup' \in [at : {"over", "look", "ensure", "ports", "disable"}, on : BOOLEAN,
                         port : HttpsPort, drop : SUBSET HttpsPort]
    BY <1>5, <1>p DEF Boots, Foreign
  <2>3. PortTypes' /\ ServesWhenUp'
    BY <1>a, <2>2 DEF PortTypes, ServesWhenUp
  <2> QED
    BY <1>3, <2>1, <2>2, <2>3
<1>6. CASE StartLooks \/ StartEnsures
  <2>1. /\ UNCHANGED <<setting, request, seen, server>> /\ startup.at \in {"look", "ensure"}
        /\ \E at \in {"over", "ensure"} : startup' = [startup EXCEPT !.at = at]
        /\ mapping' = mapping \/ Ensured(startup.port)
    BY <1>6 DEF StartLooks, StartEnsures
  <2>2. /\ mapping' \in [HttpsPort -> {"free", "ours", "foreign"}] /\ Foreign' \subseteq Foreign
    BY <1>a, <1>p, <2>1, PortsMoved
  <2>3. /\ startup' \in [at : {"over", "look", "ensure", "ports", "disable"}, on : BOOLEAN,
                         port : HttpsPort, drop : SUBSET HttpsPort]
        /\ startup'.at \in {"over", "ensure"}
    BY <1>a, <2>1
  <2>4. PortTypes' /\ ServesWhenUp'
    BY <1>a, <2>1, <2>2, <2>3 DEF PortTypes, ServesWhenUp, Busy
  <2> QED
    BY <1>3, <1>4, <2>1, <2>2, <2>4
<1>7. CASE Closes
  <2>1. /\ UNCHANGED <<mapping, setting, request>> /\ seen' = {} /\ Foreign' = Foreign
        /\ startup.at = "over" /\ \A r \in Serving : ~ Busy(r)
        /\ \/ server' = "closing" /\ startup' = [startup EXCEPT !.at = "ports"]
           \/ server' = "down" /\ startup' = startup
    BY <1>7, <1>p DEF Closes, SomeoneBusy, Foreign
  <2>2. /\ startup' \in [at : {"over", "look", "ensure", "ports", "disable"}, on : BOOLEAN,
                         port : HttpsPort, drop : SUBSET HttpsPort]
        /\ startup'.at = "over" \/ server' = "closing"
    BY <1>a, <2>1
  <2>3. PortTypes' /\ ServesWhenUp'
    BY <1>a, <2>1, <2>2 DEF PortTypes, ServesWhenUp, Busy
  <2> QED
    BY <1>3, <2>1, <2>3
<1>8. CASE CloseLooks
  <2>1. /\ UNCHANGED <<mapping, setting, request, seen, server>> /\ Foreign' = Foreign
        /\ startup.at = "ports"
        /\ \E drop \in {Ours, {startup.port}} :
             startup' = [startup EXCEPT !.at = "disable", !.drop = drop]
    BY <1>8 DEF CloseLooks, Foreign
  <2>2. startup' \in [at : {"over", "look", "ensure", "ports", "disable"}, on : BOOLEAN,
                      port : HttpsPort, drop : SUBSET HttpsPort]
    <3>1. Ours \in SUBSET HttpsPort /\ {startup.port} \in SUBSET HttpsPort
      BY <1>p DEF Ours
    <3>2. PICK drop \in SUBSET HttpsPort : startup' = [startup EXCEPT !.at = "disable", !.drop = drop]
      BY <2>1, <3>1
    <3>3. startup \in [at : {"over", "look", "ensure", "ports", "disable"}, on : BOOLEAN,
                       port : HttpsPort, drop : SUBSET HttpsPort]
      BY <1>a
    <3> QED
      BY <3>2, <3>3
  <2>3. PortTypes' /\ ServesWhenUp'
    BY <1>a, <2>1, <2>2 DEF PortTypes, ServesWhenUp, Busy
  <2> QED
    BY <1>3, <1>4, <2>1, <2>3
<1>9. CASE CloseDisables
  <2>1. /\ UNCHANGED <<setting, request, seen>> /\ startup.at = "disable" /\ server = "closing"
        /\ \A r \in Serving : ~ Busy(r)
    BY <1>9, <1>a DEF CloseDisables, ServesWhenUp
  <2>2. CASE startup.drop = {}
    <3>1. server' = "down" /\ startup' = NoStart /\ mapping' = mapping /\ Foreign' = Foreign
      BY <1>9, <2>2 DEF CloseDisables, Foreign
    <3>2. /\ startup' \in [at : {"over", "look", "ensure", "ports", "disable"}, on : BOOLEAN,
                           port : HttpsPort, drop : SUBSET HttpsPort]
          /\ startup'.at = "over"
      BY <3>1, NoRequestIsIdle DEF NoStart
    <3>3. PortTypes' /\ ServesWhenUp'
      BY <1>a, <2>1, <3>1, <3>2 DEF PortTypes, ServesWhenUp, Busy
    <3> QED
      BY <1>3, <2>1, <3>1, <3>3
  <2>3. CASE startup.drop # {}
    <3>1. PICK p \in HttpsPort : p = Min(startup.drop)
      BY <1>p, <2>3, LeastPort
    <3>2. /\ Disabled(p) \/ UNCHANGED mapping
          /\ startup' = [startup EXCEPT !.drop = @ \ {p}] /\ UNCHANGED server
      BY <1>9, <2>3, <3>1 DEF CloseDisables
    <3>3. /\ startup' \in [at : {"over", "look", "ensure", "ports", "disable"}, on : BOOLEAN,
                           port : HttpsPort, drop : SUBSET HttpsPort]
      BY <1>a, <3>2
    <3>4. /\ mapping' \in [HttpsPort -> {"free", "ours", "foreign"}] /\ Foreign' \subseteq Foreign
      BY <1>a, <3>2, PortsMoved
    <3>5. PortTypes' /\ ServesWhenUp'
      BY <1>a, <2>1, <3>2, <3>3, <3>4 DEF PortTypes, ServesWhenUp, Busy
    <3> QED
      BY <1>3, <2>1, <3>4, <3>5
  <2> QED
    BY <2>2, <2>3
<1>10. CASE Crashes
  <2>1. /\ server' = "down" /\ startup' = NoStart
        /\ request' = [r \in Serving |-> NoRequest]
        /\ UNCHANGED <<mapping, setting, seen>>
    BY <1>10 DEF Crashes
  <2>2. /\ startup' \in [at : {"over", "look", "ensure", "ports", "disable"}, on : BOOLEAN,
                         port : HttpsPort, drop : SUBSET HttpsPort]
        /\ startup'.at = "over"
        /\ request' \in [Serving -> ServeRequests]
        /\ \A r \in Serving : request'[r].at = "idle"
    BY <2>1, NoRequestIsIdle DEF NoStart
  <2>3. PortTypes' /\ ServesWhenUp'
    BY <1>a, <2>1, <2>2 DEF PortTypes, ServesWhenUp, Busy
  <2> QED
    BY <2>2, <2>3 DEF PortsInv, LookedAt, MovesFrom, Busy
<1> QED
  BY <1>1, <1>2, <1>5, <1>6, <1>7, <1>8, <1>9, <1>10

\* What an enable or a disable does to others and to itself, and what follows
\* from it for the mappings.
LEMMA PortsInvStep ==
  ASSUME PortsInv, [ServeNext]_serveVars
  PROVE  /\ PortsInv'
         /\ \A r \in Serving, p \in HttpsPort :
              mapping[p] = "foreign" /\ mapping'[p] # "foreign" /\ (Ensures(r) \/ Disables(r))
                => p \in seen
         /\ \A r \in Serving :
              Busy(r) /\ request[r].on /\ request[r].had /\ request'[r] # request[r]
                => Ours' # {} \/ ~ request[r].alone \/ seen # {} \/ server' = "down"
<1>1. ASSUME NEW r \in Serving, NEW p \in HttpsPort, Ensures(r) \/ Disables(r),
             mapping[p] = "foreign", mapping'[p] # "foreign"
      PROVE  p \in seen
  <2>1. ~ FallsBack(r)
    BY <1>1 DEF Ensures, Disables, FallsBack
  <2> QED
    BY <1>1, <2>1, RequestsKeepPorts DEF RequestGoesOn
<1>2. ASSUME NEW q \in Serving, RequestGoesOn(q)
      PROVE  /\ PortsInv'
             /\ \A r \in Serving :
                  Busy(r) /\ request[r].on /\ request[r].had /\ request'[r] # request[r]
                    => Ours' # {} \/ ~ request[r].alone \/ seen # {} \/ server' = "down"
  <2>1. PortsInv' /\ Busy(q)
    BY <1>2, RequestsKeepPorts
  <2>2. ASSUME NEW r \in Serving, Busy(r), request[r].on, request[r].had, request[r].alone,
               seen = {}
        PROVE  Ours' # {}
    <3>1. q = r
      BY <2>1, <2>2 DEF PortsInv, Alone
    <3> QED
      BY <1>2, <2>2, <3>1, RequestsKeepPorts
  <2> QED
    BY <2>1, <2>2
<1>3. ASSUME NEW q \in Serving, ServeAsked(q)
      PROVE  /\ PortsInv'
             /\ \A r \in Serving :
                  Busy(r) /\ request[r].on /\ request[r].had /\ request'[r] # request[r]
                    => Ours' # {} \/ ~ request[r].alone \/ seen # {} \/ server' = "down"
  <2>1. PortsInv'
    BY <1>3, ServerKeepsPorts
  <2>2. Ours' = Ours
    BY <1>3 DEF ServeAsked, Ours
  <2> QED
    BY <2>1, <2>2, StillServed
<1>4. CASE \/ \E p \in HttpsPort : OthersServe(p)
           \/ Boots \/ StartLooks \/ StartEnsures \/ Closes \/ CloseLooks \/ CloseDisables
           \/ Crashes
  <2>1. PortsInv'
    BY <1>4, ServerKeepsPorts
  <2>2. UNCHANGED request \/ server' = "down"
    BY <1>4 DEF OthersServe, Boots, StartLooks, StartEnsures, Closes, CloseLooks, CloseDisables,
                Crashes
  <2> QED
    BY <1>1, <2>1, <2>2
<1>5. CASE UNCHANGED serveVars
  BY <1>5 DEF serveVars, PortsInv, PortTypes, ServesWhenUp, LookedAt, MovesFrom, Alone, Busy,
              Ours, Foreign
<1> QED
  BY <1>1, <1>2, <1>3, <1>4, <1>5 DEF ServeNext, RequestGoesOn

\* An enable that comes to store its port has left that one mapping.
LEMMA PortsHaveMoved ==
  PortsInv => \A r \in Serving :
    request[r].at = "set" /\ request[r].on /\ request[r].alone /\ seen = {}
      => Ours = {request[r].port}
BY DEF PortsInv, MovesFrom

-----------------------------------------------------------------------------
(* The browser *)

\* The stamp is of this epoch or of one before; in the epoch of the stamp a ref
\* is on the element it was told for, or on none, unless the page was
\* renumbered without an answer.
RefsInv ==
  /\ epoch \in Nat /\ stamp \in Int /\ stamp <= epoch
  /\ ~torn /\ stamp = epoch => \A n \in Ref : tags[n] \in {told[n], NoElement}

\* No snapshot was stamped before the first engine.
LEMMA RefsInvInit == BrowserInit => RefsInv
BY DEF BrowserInit, RefsInv, NoTags

\* Whatever the page does by itself, and wherever a call fails, a ref moves to
\* another element only with the epoch or with torn.
LEMMA RefsInvStep ==
  RefsInv /\ [BrowserNext]_browserVars =>
    /\ RefsInv'
    /\ acted' # acted /\ ~torn => acted'.hit \in {acted'.meant, NoElement}
<1> SUFFICES ASSUME RefsInv, [BrowserNext]_browserVars
             PROVE  /\ RefsInv'
                    /\ acted' # acted /\ ~torn => acted'.hit \in {acted'.meant, NoElement}
  OBVIOUS
<1>a. /\ epoch \in Nat /\ stamp \in Int /\ stamp <= epoch
      /\ ~torn /\ stamp = epoch => \A n \in Ref : tags[n] \in {told[n], NoElement}
  BY DEF RefsInv
\* What becomes of the refs when the page does.
<1>b. ASSUME NEW p, PageBecomes(p)
      PROVE  \A n \in Ref : tags'[n] \in {tags[n], NoElement}
  BY <1>b DEF PageBecomes, NoTags, KeptRefs
<1>1. CASE Launches
  BY <1>1 DEF Launches, RefsInv
<1>2. CASE Dies
  BY <1>a, <1>2 DEF Dies, RefsInv
<1>3. CASE Snapshot
  <2>1. CASE SnapshotIsTold
    BY <1>a, <2>1 DEF SnapshotIsTold, RefsInv
  <2>2. CASE SnapshotFails
    BY <1>a, <2>2 DEF SnapshotFails, RefsInv
  <2> QED
    BY <1>3, <2>1, <2>2 DEF Snapshot
<1>4. CASE Navigate
  <2>1. epoch' = epoch + 1 /\ UNCHANGED acted
    BY <1>4 DEF Navigate
  <2>2. \/ tags' = told' /\ stamp' = epoch + 1
        \/ stamp' = stamp
    BY <1>4 DEF Navigate, NavigateFails
  <2> QED
    BY <1>a, <2>1, <2>2 DEF RefsInv
<1>5. CASE ActBySelector \/ PageMoves
  <2>1. /\ epoch' \in {epoch, epoch + 1} /\ UNCHANGED <<stamp, told, torn, acted>>
        /\ \A n \in Ref : tags'[n] \in {tags[n], NoElement}
    BY <1>5, <1>b DEF ActBySelector, PageMoves
  <2> QED
    BY <1>a, <2>1 DEF RefsInv
<1>6. CASE LateScriptRuns
  BY <1>a, <1>6 DEF LateScriptRuns, RefsInv
<1>7. ASSUME NEW n \in Ref, NEW hovers \in BOOLEAN, ActOnRef(n, hovers)
      PROVE  /\ RefsInv'
             /\ acted' # acted /\ ~torn => acted'.hit \in {acted'.meant, NoElement}
  <2>1. /\ epoch' \in {epoch, epoch + 1} /\ UNCHANGED <<stamp, told, torn>>
        /\ \A m \in Ref : tags'[m] \in {tags[m], NoElement}
        /\ stamp = epoch /\ acted' = [meant |-> told[n], hit |-> tags[n]]
    BY <1>7, <1>b DEF ActOnRef, Admitted
  <2>2. acted'.meant = told[n] /\ acted'.hit = tags[n]
    BY <2>1
  <2> QED
    BY <1>a, <2>1, <2>2 DEF RefsInv
<1>8. CASE UNCHANGED browserVars
  BY <1>a, <1>8 DEF browserVars, RefsInv
<1> QED
  BY <1>1, <1>2, <1>3, <1>4, <1>5, <1>6, <1>7, <1>8 DEF BrowserNext

-----------------------------------------------------------------------------
(* The git caches *)

\* Nobody clears for a later state than there is.
VersionsInv ==
  /\ version \in 0..MaxVersion /\ cleared \in 0..MaxVersion /\ asked \in 0..MaxAsked
  /\ cleared =< version

\* A caller is not ahead of git, and read no less than was cleared then.
CallFits(r) ==
  /\ r \in CallRecord
  /\ r.made =< version /\ r.since =< r.read /\ r.since =< cleared

\* Every caller is where its request says.
CallersFit ==
  /\ caller \in [Caller -> CallRecord]
  /\ \A c \in Caller : CallFits(caller[c])

\* An entry that was not overtaken when it was stored is recent enough.
EntryFollows(e) ==
  e = Uncached \/ (e \in Cached /\ (~ e.overlaps => e.v >= cleared))

\* What is cleared, what callers have read, and both caches.
CacheInv == VersionsInv /\ CallersFit /\ EntryFollows(repoCache) /\ EntryFollows(listCache)

\* What AsRead stores follows the panel.
LEMMA AsReadFollows ==
  ASSUME CacheInv, NEW c \in Caller
  PROVE  EntryFollows(AsRead(c))
<1>1. CallFits(caller[c])
  BY DEF CacheInv, CallersFit
<1>2. AsRead(c).v = caller[c].read /\ AsRead(c).overlaps = (caller[c].since # cleared)
  BY DEF AsRead
<1>3. AsRead(c) \in Cached
  BY <1>1 DEF AsRead, Cached, CallFits, CallRecord
<1>4. ASSUME caller[c].since = cleared PROVE caller[c].read >= cleared
  BY <1>1, <1>4, CacheConstants DEF CallFits, CallRecord
<1> QED
  BY <1>2, <1>3, <1>4 DEF EntryFollows

\* The steps that are left are a sequence of steps.
LEMMA StepsToGo ==
  ASSUME CacheInv, NEW c \in Caller
  PROVE  /\ caller[c].todo \in Seq(CallStep)
         /\ caller[c].todo # << >> => Rest(c) \in Seq(CallStep)
         /\ \A steps : AfterFetch(c, steps) \in Seq(CallStep)
<1>1. caller[c].todo \in Seq(CallStep)
  BY DEF CacheInv, CallersFit, CallRecord
<1>2. caller[c].todo # << >> => Rest(c) \in Seq(CallStep)
  BY <1>1, HeadTailProperties DEF Rest
<1>3. << >> \in Seq(CallStep) /\ <<"clear">> \in Seq(CallStep)
  BY DEF CallStep
<1>4. ASSUME NEW steps PROVE AfterFetch(c, steps) \in Seq(CallStep)
  BY <1>3, Zenon DEF AfterFetch
<1> QED
  BY <1>1, <1>2, <1>4

\* A caller that goes on or leaves fits as before.
LEMMA MovesKeepFit ==
  ASSUME CacheInv, NEW c \in Caller, NEW todo \in Seq(CallStep),
         version' \in 0..MaxVersion, version =< version', UNCHANGED cleared,
         \/ CallGoes(c, todo) \/ CallEnds(c)
         \/ caller' = [caller EXCEPT ![c].todo = todo]
  PROVE  CallersFit'
<1> USE CacheConstants DEF CallRecord
<1>1. Away \in CallRecord /\ [caller[c] EXCEPT !.todo = todo] \in CallRecord
  <2>1. << >> \in Seq(CallStep)
    OBVIOUS
  <2>2. 0 \in 0..MaxVersion
    OBVIOUS
  <2>3. Away \in CallRecord
    BY <2>1, <2>2 DEF Away
  <2>4. caller[c] \in CallRecord
    BY DEF CacheInv, CallersFit
  <2> QED
    BY <2>3, <2>4
<1>2. PICK rec \in {Away, [caller[c] EXCEPT !.todo = todo]} :
        caller' = [caller EXCEPT ![c] = rec]
  BY DEF CallGoes, CallEnds, CacheInv, CallersFit
<1>3. CallFits(caller[c]) /\ cleared \in 0..MaxVersion /\ version \in 0..MaxVersion
  BY DEF CacheInv, CallersFit, VersionsInv
<1>4. rec \in CallRecord
  BY <1>1
<1>5. rec.made =< version' /\ rec.since =< rec.read /\ rec.since =< cleared
  <2>1. CASE rec = Away
    BY <1>3, <2>1 DEF Away
  <2>2. CASE rec = [caller[c] EXCEPT !.todo = todo]
    <3>1. rec.made = caller[c].made /\ rec.since = caller[c].since /\ rec.read = caller[c].read
      BY <1>3, <2>2 DEF CallFits
    <3> QED
      BY <1>3, <3>1 DEF CallFits
  <2> QED
    BY <2>1, <2>2
<1>6. ASSUME NEW d \in Caller PROVE CallFits(caller[d])'
  <2>1. CASE d = c
    BY <1>2, <1>4, <1>5, <2>1 DEF CallFits, CacheInv, CallersFit
  <2>2. CASE d # c
    <3>1. caller'[d] = caller[d] /\ CallFits(caller[d])
      BY <1>2, <2>2 DEF CacheInv, CallersFit
    <3> QED
      BY <1>3, <3>1 DEF CallFits
  <2> QED
    BY <2>1, <2>2
<1>7. caller' \in [Caller -> CallRecord]
  BY <1>2, <1>4 DEF CacheInv, CallersFit
<1> QED
  BY <1>6, <1>7 DEF CallersFit

\* A caller that reads has read what there is.
LEMMA ReadsKeepFit ==
  ASSUME CacheInv, NEW c \in Caller, NEW todo \in Seq(CallStep),
         ReadsGit(c, todo), UNCHANGED <<version, cleared>>
  PROVE  CallersFit'
<1> DEFINE rec == [caller[c] EXCEPT !.todo = todo, !.read = version, !.since = cleared]
<1> USE CacheConstants DEF CallRecord
<1>1. CallFits(caller[c]) /\ VersionsInv /\ caller \in [Caller -> CallRecord]
  BY DEF CacheInv, CallersFit
<1>2. caller' = [caller EXCEPT ![c] = rec]
  BY <1>1 DEF ReadsGit
<1>3. /\ rec \in CallRecord
      /\ rec.made = caller[c].made /\ rec.read = version /\ rec.since = cleared
  BY <1>1 DEF CallFits, VersionsInv
<1>4. rec.made =< version' /\ rec.since =< rec.read /\ rec.since =< cleared'
  BY <1>1, <1>3 DEF CallFits, VersionsInv
<1> HIDE DEF rec
<1>5. ASSUME NEW d \in Caller PROVE CallFits(caller[d])'
  <2>1. CASE d = c
    BY <1>1, <1>2, <1>3, <1>4, <2>1 DEF CallFits
  <2>2. CASE d # c
    BY <1>1, <1>2, <2>2 DEF CallFits, CacheInv, CallersFit
  <2> QED
    BY <2>1, <2>2
<1>6. caller' \in [Caller -> CallRecord]
  BY <1>1, <1>2, <1>3
<1> QED
  BY <1>5, <1>6 DEF CallersFit

\* Caches that are left alone or dropped follow as long as no more is cleared.
LEMMA CachesStay ==
  ASSUME CacheInv, UNCHANGED cleared,
         repoCache' \in {repoCache, Uncached}, listCache' \in {listCache, Uncached}
  PROVE  EntryFollows(repoCache)' /\ EntryFollows(listCache)'
BY DEF CacheInv, EntryFollows

LEMMA CacheInvInit == CacheInit => CacheInv
BY CacheConstants DEF CacheInit, CacheInv, VersionsInv, CallersFit, CallFits, EntryFollows,
   CallRecord, Away, Uncached

\* A request arrives with the steps of one of its kinds.
LEMMA ArrivalKeepsCache ==
  ASSUME CacheInv, NEW c \in Caller, CallArrives(c)
  PROVE  CacheInv'
<1>1. PICK todo \in CallSteps, force \in BOOLEAN :
        caller' = [caller EXCEPT ![c].todo = todo, ![c].force = force]
  BY DEF CallArrives
<1>2. todo \in Seq(CallStep)
  <2> USE DEF CallStep
  <2>1. <<"status", "drop", "get">> \in Seq(CallStep)
    OBVIOUS
  <2>2. <<"status", "git", "clear">> \in Seq(CallStep)
    OBVIOUS
  <2>3. <<"status", "git", "clear", "refresh", "fetch", "clear">> \in Seq(CallStep)
    OBVIOUS
  <2>4. <<"status", "git", "status", "git", "clear", "refresh", "fetch", "clear", "clear">>
          \in Seq(CallStep)
    OBVIOUS
  <2> QED
    BY <2>1, <2>2, <2>3, <2>4, Zenon DEF CallSteps
<1>3. caller' \in [Caller -> CallRecord]
  BY <1>1, <1>2 DEF CacheInv, CallersFit, CallRecord
<1>4. ASSUME NEW d \in Caller PROVE CallFits(caller[d])'
  <2>1. /\ caller'[d].made = caller[d].made /\ caller'[d].read = caller[d].read
        /\ caller'[d].since = caller[d].since
    BY <1>1 DEF CacheInv, CallersFit, CallRecord
  <2>2. CallFits(caller[d])
    BY DEF CacheInv, CallersFit
  <2> QED
    BY <1>3, <2>1, <2>2 DEF CallFits, CallArrives
<1>5. VersionsInv'
  BY CacheConstants DEF CallArrives, CacheInv, VersionsInv
<1>6. EntryFollows(repoCache)' /\ EntryFollows(listCache)'
  BY CachesStay DEF CallArrives
<1> QED
  BY <1>3, <1>4, <1>5, <1>6 DEF CacheInv, CallersFit

\* Detecting, keeping what was detected, and the lists of branches.
LEMMA ReadingKeepsCache ==
  ASSUME CacheInv, NEW c \in Caller,
         \/ Detects(c) \/ DetectsAgain(c) \/ KeepsStatus(c) \/ DropsList(c)
         \/ GetsList(c) \/ Lists(c) \/ StoresList(c)
  PROVE  CacheInv'
<1> DEFINE todos == {<< >>, <<"list">>, <<"store">>, <<"keep">>}
<1>1. UNCHANGED <<version, cleared, asked>> /\ VersionsInv /\ VersionsInv'
  BY DEF Detects, DetectsAgain, KeepsStatus, DropsList, GetsList, Lists, StoresList,
     CacheInv, VersionsInv
<1>2. todos \subseteq Seq(CallStep)
  BY DEF CallStep
<1>3. version' \in 0..MaxVersion /\ version =< version'
  BY <1>1, CacheConstants DEF VersionsInv
<1>4. ASSUME caller[c].todo # << >>
      PROVE  Rest(c) \in Seq(CallStep) /\ <<"keep">> \o Rest(c) \in Seq(CallStep)
  BY <1>2, <1>4, StepsToGo, ConcatProperties
<1>5. AfterFetch(c, 3) \in Seq(CallStep)
  BY StepsToGo
<1>6. CASE Detects(c)
  <2>1. CallersFit'
    BY <1>1, <1>2, <1>3, <1>4, <1>6, MovesKeepFit, ReadsKeepFit DEF Detects, Does
  <2> QED
    BY <1>1, <1>6, <2>1, CachesStay DEF Detects, CacheInv
<1>7. CASE DetectsAgain(c)
  <2>1. CallersFit'
    BY <1>1, <1>3, <1>4, <1>5, <1>7, MovesKeepFit, ReadsKeepFit DEF DetectsAgain, Does
  <2> QED
    BY <1>1, <1>7, <2>1, CachesStay DEF DetectsAgain, CacheInv
<1>8. CASE KeepsStatus(c)
  <2>1. CallersFit'
    BY <1>1, <1>3, <1>4, <1>8, MovesKeepFit DEF KeepsStatus, Does
  <2>2. EntryFollows(repoCache)' /\ EntryFollows(listCache)'
    BY <1>1, <1>8, AsReadFollows DEF KeepsStatus, EntryFollows
  <2> QED
    BY <1>1, <2>1, <2>2 DEF CacheInv
<1>9. CASE DropsList(c)
  <2>1. CallersFit'
    BY <1>1, <1>3, <1>4, <1>9, MovesKeepFit DEF DropsList, Does
  <2> QED
    BY <1>1, <1>9, <2>1, CachesStay DEF DropsList, CacheInv
<1>10. CASE GetsList(c)
  <2>1. CallersFit'
    BY <1>1, <1>2, <1>3, <1>10, MovesKeepFit DEF GetsList
  <2> QED
    BY <1>1, <1>10, <2>1, CachesStay DEF GetsList, CacheInv
<1>11. CASE Lists(c)
  <2>1. CallersFit'
    BY <1>1, <1>2, <1>3, <1>11, MovesKeepFit, ReadsKeepFit DEF Lists
  <2> QED
    BY <1>1, <1>11, <2>1, CachesStay DEF Lists, CacheInv
<1>12. CASE StoresList(c)
  <2>1. CallersFit'
    BY <1>1, <1>2, <1>3, <1>12, MovesKeepFit DEF StoresList
  <2>2. EntryFollows(repoCache)' /\ EntryFollows(listCache)'
    BY <1>1, <1>12, AsReadFollows DEF StoresList, EntryFollows, CacheInv
  <2> QED
    BY <1>1, <2>1, <2>2 DEF CacheInv
<1> QED
  BY <1>6, <1>7, <1>8, <1>9, <1>10, <1>11, <1>12

\* A caller that has changed the repository and goes on to what follows.
LEMMA ChangerFits ==
  ASSUME CacheInv, NEW c \in Caller, caller[c].todo # << >>,
         version' = version + 1, version' \in 0..MaxVersion, UNCHANGED cleared,
         caller' = [caller EXCEPT ![c].todo = Rest(c), ![c].made = version']
  PROVE  CallersFit'
<1>1. CallFits(caller[c]) /\ VersionsInv /\ caller \in [Caller -> CallRecord]
  BY DEF CacheInv, CallersFit
<1>2. Rest(c) \in Seq(CallStep)
  BY StepsToGo
<1>3. caller' \in [Caller -> CallRecord]
  BY <1>1, <1>2 DEF CallRecord
<1>4. ASSUME NEW d \in Caller PROVE CallFits(caller[d])'
  <2>1. /\ caller'[d].made = IF d = c THEN version' ELSE caller[d].made
        /\ caller'[d].read = caller[d].read /\ caller'[d].since = caller[d].since
    BY <1>1 DEF CallRecord
  <2>2. CallFits(caller[d]) /\ caller'[d] \in CallRecord
    BY <1>3 DEF CacheInv, CallersFit
  <2>3. caller'[d].made =< version'
    BY <1>1, <2>1, <2>2, CacheConstants DEF CallFits, CallRecord, VersionsInv
  <2> QED
    BY <2>1, <2>2, <2>3 DEF CallFits
<1> QED
  BY <1>3, <1>4 DEF CallersFit

\* A change of the panel or of an agent, and a fetch.
LEMMA ChangingKeepsCache ==
  ASSUME CacheInv,
         AgentChanges \/ \E c \in Caller : Changes(c) \/ Fetches(c)
  PROVE  CacheInv'
<1>1. UNCHANGED <<repoCache, listCache, cleared, asked>> /\ VersionsInv
  BY DEF AgentChanges, Changes, Fetches, CacheInv
<1>2. version' \in 0..MaxVersion /\ version' \in {version, version + 1}
  <2>1. CASE AgentChanges
    BY <1>1, <2>1, CacheConstants DEF AgentChanges, VersionsInv
  <2>2. ASSUME NEW c \in Caller, Changes(c)
        PROVE  version' = version \/ (version < MaxVersion /\ version' = version + 1)
    BY <2>2 DEF Changes
  <2>3. ASSUME NEW c \in Caller, Fetches(c)
        PROVE  \/ version' \in {version, version + 1} /\ version' \in 0..MaxVersion
               \/ version < MaxVersion /\ version' = version + 1
    BY <2>3 DEF Fetches
  <2> QED
    BY <1>1, <2>1, <2>2, <2>3, CacheConstants DEF VersionsInv
<1>3. VersionsInv' /\ version =< version'
  BY <1>1, <1>2, CacheConstants DEF VersionsInv
<1>4. EntryFollows(repoCache)' /\ EntryFollows(listCache)'
  BY <1>1, CachesStay
<1>5. CASE AgentChanges
  <2>1. ASSUME NEW c \in Caller PROVE CallFits(caller[c])'
    <3>1. CallFits(caller[c]) /\ UNCHANGED caller
      BY <1>5 DEF AgentChanges, CacheInv, CallersFit
    <3> QED
      BY <1>1, <1>2, <1>3, <3>1, CacheConstants DEF CallFits, CallRecord, VersionsInv
  <2> QED
    BY <1>3, <1>4, <1>5, <2>1 DEF AgentChanges, CacheInv, CallersFit
<1>6. ASSUME NEW c \in Caller, Changes(c) PROVE CallersFit'
  <2>1. << >> \in Seq(CallStep)
    OBVIOUS
  <2> QED
    BY <1>1, <1>2, <1>3, <1>6, <2>1, MovesKeepFit, ChangerFits DEF Changes, Does
<1>7. ASSUME NEW c \in Caller, Fetches(c) PROVE CallersFit'
  <2>1. CASE CallGoes(c, AfterFetch(c, 2))
    <3>1. AfterFetch(c, 2) \in Seq(CallStep)
      BY StepsToGo
    <3> QED
      BY <1>1, <1>2, <1>3, <2>1, <3>1, MovesKeepFit
  <2>2. CASE /\ version' = version + 1
             /\ caller' = [caller EXCEPT ![c].todo = Rest(c), ![c].made = version']
    BY <1>1, <1>2, <1>7, <2>2, ChangerFits DEF Fetches, Does
  <2> QED
    BY <1>7, <2>1, <2>2 DEF Fetches
<1> QED
  BY <1>1, <1>3, <1>4, <1>5, <1>6, <1>7 DEF CacheInv

\* Both caches are dropped, whatever was cleared.
LEMMA ClearingKeepsCache ==
  ASSUME CacheInv, NEW c \in Caller, Clears(c)
  PROVE  CacheInv'
<1>1. CallFits(caller[c]) /\ VersionsInv /\ CallersFit
  BY DEF CacheInv, CallersFit
<1>2. /\ cleared =< cleared' /\ cleared' =< version
      /\ cleared' \in 0..MaxVersion /\ UNCHANGED <<version, asked>>
  BY <1>1, CacheConstants DEF Clears, Latest, CallFits, CallRecord, VersionsInv
<1>3. PICK rec \in {Away, [caller[c] EXCEPT !.todo = Rest(c)]} :
        caller' = [caller EXCEPT ![c] = rec]
  BY <1>1 DEF Clears, CallGoes, CallersFit
<1>4. rec \in CallRecord /\ rec.made =< version /\ rec.since =< rec.read /\ rec.since =< cleared
  <2>1. CASE rec = Away
    BY <1>1, <2>1, CacheConstants DEF Away, CallRecord, VersionsInv
  <2>2. CASE rec = [caller[c] EXCEPT !.todo = Rest(c)]
    <3>1. Rest(c) \in Seq(CallStep)
      BY StepsToGo DEF Clears, Does
    <3> QED
      BY <1>1, <2>2, <3>1 DEF CallFits, CallRecord
  <2> QED
    BY <2>1, <2>2
<1>5. caller' \in [Caller -> CallRecord]
  BY <1>1, <1>3, <1>4 DEF CallersFit
<1>6. ASSUME NEW d \in Caller PROVE CallFits(caller[d])'
  <2>1. /\ caller'[d] \in CallRecord /\ caller'[d].made =< version
        /\ caller'[d].since =< caller'[d].read /\ caller'[d].since =< cleared
    BY <1>1, <1>3, <1>4, <1>5 DEF CallersFit, CallFits
  <2> QED
    BY <1>1, <1>2, <2>1, CacheConstants DEF CallFits, CallRecord, VersionsInv
<1>7. EntryFollows(repoCache)' /\ EntryFollows(listCache)'
  BY DEF Clears, EntryFollows
<1> QED
  BY <1>1, <1>2, <1>5, <1>6, <1>7 DEF CacheInv, CallersFit, VersionsInv

LEMMA CacheInvStep == CacheInv /\ [CacheNext]_cacheVars => CacheInv'
<1> SUFFICES ASSUME CacheInv, [CacheNext]_cacheVars
             PROVE  CacheInv'
  OBVIOUS
<1>1. CASE CacheNext
  BY <1>1, ArrivalKeepsCache, ReadingKeepsCache, ChangingKeepsCache, ClearingKeepsCache DEF
    CacheNext
<1>2. CASE UNCHANGED cacheVars
  BY <1>2 DEF cacheVars, CacheInv, VersionsInv, CallersFit, CallFits, EntryFollows
<1> QED
  BY <1>1, <1>2

\* Every variable keeps its type.
THEOREM CacheTypeCorrect == CacheSpec => []CacheTypeOK
<1>1. CacheInv => CacheTypeOK
  BY DEF CacheInv, VersionsInv, CallersFit, EntryFollows, CacheTypeOK
<1> QED
  BY <1>1, CacheInvInit, CacheInvStep, PTL DEF CacheSpec

\* Neither an entry stored while git worked nor one that another change's
\* detection left tells a state from before a change that was cleared.
THEOREM CachesFollow == CacheSpec => []CachesFollowThePanel
<1>1. CacheInv => CachesFollowThePanel
  BY DEF CacheInv, EntryFollows, CachesFollowThePanel
<1> QED
  BY <1>1, CacheInvInit, CacheInvStep, PTL DEF CacheSpec

-----------------------------------------------------------------------------
(* The rate limiter: tables, what a sweep keeps and what it changes *)

\* A table as TypeOK has it: buckets that were last touched in the past.
BucketTable(m) ==
  /\ m \in [Key -> Bucket \cup {NoBucket}]
  /\ \A k \in Key : m[k].last =< now

\* A sweep leaves a table a table, whatever it drops.
LEMMA EvictedIsTable ==
  ASSUME NEW m, BucketTable(m), now \in Nat
  PROVE  BucketTable(Evicted(m))
BY DEF BucketTable, Evicted, NoBucket

\* Nobody notices a sweep (evict_stale): every key has the tokens it had,
\* because what is dropped has refilled, by its tokens or by its age.
LEMMA EvictedKeepsLevels ==
  ASSUME NEW m, BucketTable(m), now \in Nat, NEW k \in Key
  PROVE  Level(k, Evicted(m)) = Level(k, m)
<1> USE RateConstants DEF BucketTable, Bucket, NoBucket, Level, Evicted
<1>1. CASE m[k] = NoBucket
  BY <1>1
<1>2. CASE m[k] # NoBucket /\ Worth(m[k])
  BY <1>2
<1>3. CASE m[k] # NoBucket /\ ~ Worth(m[k])
  <2>1. m[k].tokens \in 0..Capacity /\ m[k].last \in Nat /\ m[k].last =< now
    BY <1>3
  <2>2. m[k].tokens + (now - m[k].last) >= Capacity
    BY <1>3, <2>1 DEF Worth
  <2>3. Level(k, m) = Capacity
    BY <1>3, <2>1, <2>2
  <2> QED
    BY <1>3, <2>3
<1> QED
  BY <1>1, <1>2, <1>3

\* What a sweep keeps is not full.
LEMMA KeptIsOwed ==
  ASSUME NEW m, BucketTable(m), now \in Nat, NEW k \in Held(Evicted(m))
  PROVE  k \in Key /\ Level(k, Evicted(m)) < Capacity
<1> USE RateConstants DEF BucketTable, Bucket, NoBucket, Held, Evicted
<1>1. k \in Key /\ m[k] # NoBucket /\ Worth(m[k]) /\ Evicted(m)[k] = m[k]
  OBVIOUS
<1>2. m[k].tokens \in 0..Capacity /\ m[k].last \in Nat /\ m[k].last =< now
  BY <1>1
<1> QED
  BY <1>1, <1>2 DEF Worth, Level

\* The sweeps of a check, the timely one and the one for room, do both.
LEMMA ClearedKeepsLevels ==
  ASSUME RateTypeOK, NEW k \in Key
  PROVE  /\ BucketTable(Cleared(k))
         /\ \A j \in Key : Level(j, Cleared(k)) = Level(j, buckets)
<1>1. BucketTable(buckets) /\ now \in Nat
  BY DEF RateTypeOK, BucketTable
<1>2. BucketTable(Tidied) /\ \A j \in Key : Level(j, Tidied) = Level(j, buckets)
  BY <1>1, EvictedIsTable, EvictedKeepsLevels DEF Tidied
<1> QED
  BY <1>1, <1>2, EvictedIsTable, EvictedKeepsLevels DEF Cleared

\* A level is a number of tokens within the capacity.
LEMMA LevelType ==
  ASSUME NEW m, BucketTable(m), now \in Nat, NEW k \in Key
  PROVE  Level(k, m) \in 0..Capacity
<1> USE RateConstants DEF BucketTable, Bucket, NoBucket, Level
<1>1. CASE m[k] = NoBucket
  BY <1>1
<1>2. CASE m[k] # NoBucket
  <2>1. m[k].tokens \in 0..Capacity /\ m[k].last \in Nat /\ m[k].last =< now
    BY <1>2
  <2> QED
    BY <1>2, <2>1
<1> QED
  BY <1>1, <1>2

-----------------------------------------------------------------------------
(* The rate limiter: types *)

\* A check and the clock leave the limiter well-formed.
LEMMA RateTypeStep == RateTypeOK /\ [RateNext]_rateVars => RateTypeOK'
<1> SUFFICES ASSUME RateTypeOK, [RateNext]_rateVars
             PROVE  RateTypeOK'
  OBVIOUS
<1> USE RateConstants
<1>1. CASE Tick
  BY <1>1 DEF Tick, RateTypeOK, Bucket, NoBucket
<1>2. ASSUME NEW k \in Key, NEW c \in Cost, TurnsAway(k, c) \/ Allows(k, c) \/ Denies(k, c)
      PROVE  RateTypeOK'
  <2>1. BucketTable(Cleared(k)) /\ Level(k, Cleared(k)) \in 0..Capacity
    BY ClearedKeepsLevels, LevelType DEF RateTypeOK
  <2>2. c \in Nat /\ nextSweep' \in Nat /\ now' = now
    <3>1. SweepIsNoted(k) /\ now' = now
      BY <1>2 DEF TurnsAway, Allows, Denies
    <3> QED
      BY <3>1 DEF SweepIsNoted, RateTypeOK
  <2>3. CASE TurnsAway(k, c)
    BY <2>1, <2>2, <2>3 DEF TurnsAway, BucketTable, RateTypeOK
  <2>4. CASE Allows(k, c)
    <3> DEFINE b == [tokens |-> Level(k, Cleared(k)) - c, last |-> now]
    <3>1. b \in Bucket /\ b.last = now
      BY <2>1, <2>2, <2>4 DEF Allows, Bucket, RateTypeOK
    <3>2. buckets' = [Cleared(k) EXCEPT ![k] = b]
      BY <2>4 DEF Allows
    <3> HIDE DEF b
    <3>3. buckets' \in [Key -> Bucket \cup {NoBucket}]
      BY <2>1, <3>1, <3>2 DEF BucketTable
    <3>4. \A j \in Key : buckets'[j].last =< now'
      BY <2>1, <2>2, <3>1, <3>2 DEF BucketTable, RateTypeOK
    <3>5. granted' \in [Key -> Nat]
      BY <2>2, <2>4 DEF Allows, RateTypeOK
    <3> QED
      BY <2>2, <3>3, <3>4, <3>5 DEF RateTypeOK
  <2>5. CASE Denies(k, c)
    <3> DEFINE b == [tokens |-> Level(k, Cleared(k)), last |-> now]
    <3>1. b \in Bucket /\ b.last = now
      BY <2>1 DEF Bucket, RateTypeOK
    <3>2. buckets' = [Cleared(k) EXCEPT ![k] = b]
      BY <2>5 DEF Denies
    <3> HIDE DEF b
    <3>3. buckets' \in [Key -> Bucket \cup {NoBucket}]
      BY <2>1, <3>1, <3>2 DEF BucketTable
    <3>4. \A j \in Key : buckets'[j].last =< now'
      BY <2>1, <2>2, <3>1, <3>2 DEF BucketTable, RateTypeOK
    <3> QED
      BY <2>2, <2>5, <3>3, <3>4 DEF Denies, RateTypeOK
  <2> QED
    BY <1>2, <2>3, <2>4, <2>5
<1>3. CASE UNCHANGED rateVars
  BY <1>3 DEF rateVars, RateTypeOK
<1> QED
  BY <1>1, <1>2, <1>3 DEF RateNext

\* The limiter is well-formed: buckets hold at most the capacity and were
\* touched in the past.
THEOREM RateTypeCorrect == RateSpec => []RateTypeOK
<1>1. RateInit => RateTypeOK
  BY RateConstants DEF RateInit, RateTypeOK, NoBucket
<1> QED
  BY <1>1, RateTypeStep, PTL DEF RateSpec

-----------------------------------------------------------------------------
(* The rate limiter implements Limiter *)

\* What a check of one key does to the debts, given the bucket it leaves.
LEMMA CheckMovesOneDebt ==
  ASSUME RateTypeOK, NEW k \in Key, NEW n \in 0..Capacity, now' = now,
         buckets' = [Cleared(k) EXCEPT ![k] = [tokens |-> n, last |-> now]]
  PROVE  Debt' = [Debt EXCEPT ![k] = Capacity - n]
<1> DEFINE b == [tokens |-> n, last |-> now]
<1>1. now \in Nat /\ BucketTable(Cleared(k)) /\ Capacity \in Nat
  BY ClearedKeepsLevels, RateConstants DEF RateTypeOK
<1>2. \A j \in Key \ {k} : Level(j, buckets)' = Level(j, buckets)
  <2>1. \A j \in Key \ {k} : buckets'[j] = Cleared(k)[j]
    BY <1>1 DEF BucketTable
  <2>2. \A j \in Key \ {k} : Level(j, buckets)' = Level(j, Cleared(k))
    BY <2>1 DEF Level
  <2> QED
    BY <2>2, ClearedKeepsLevels
<1>3. Level(k, buckets)' = n
  <2>1. buckets'[k] = b
    BY <1>1 DEF BucketTable
  <2>2. b.tokens = n /\ b.last = now /\ b # NoBucket
    BY <1>1 DEF NoBucket
  <2> QED
    BY <1>1, <2>1, <2>2 DEF Level
<1> QED
  BY <1>2, <1>3 DEF Debt

LEMMA LimiterStep ==
  RateTypeOK /\ [RateNext]_rateVars => [Promise!LimiterNext]_<<Debt, answer>>
<1> SUFFICES ASSUME RateTypeOK, [RateNext]_rateVars
             PROVE  Promise!LimiterNext \/ UNCHANGED <<Debt, answer>>
  OBVIOUS
<1>1. now \in Nat /\ Capacity \in Nat /\ BucketTable(buckets)
  BY RateConstants DEF RateTypeOK, BucketTable
<1>2. \A k \in Key : Level(k, buckets) \in 0..Capacity
  BY <1>1, LevelType
<1>3. CASE Tick
  <2>1. now' = now + 1 /\ buckets' = buckets /\ answer' = answer
    BY <1>3 DEF Tick
  <2>2. ASSUME NEW k \in Key
        PROVE  Debt'[k] = IF Debt[k] > 0 THEN Debt[k] - 1 ELSE 0
    <3>1. CASE buckets[k] = NoBucket
      BY <1>1, <2>1, <3>1 DEF Debt, Level
    <3>2. CASE buckets[k] # NoBucket
      <4>1. buckets[k].tokens \in 0..Capacity /\ buckets[k].last \in Nat
        BY <1>1, <3>2 DEF BucketTable, Bucket
      <4> QED
        BY <1>1, <2>1, <3>2, <4>1 DEF Debt, Level
    <3> QED
      BY <3>1, <3>2
  <2>3. Promise!Forgive
    BY <2>1, <2>2 DEF Promise!Forgive, Debt
  <2> QED
    BY <2>3 DEF Promise!LimiterNext
<1>4. ASSUME NEW k \in Key, NEW c \in Cost, Allows(k, c)
      PROVE  Promise!LimiterNext
  <2> DEFINE n == Level(k, Cleared(k)) - c
  <2>1. c \in Nat /\ Level(k, Cleared(k)) = Capacity - Debt[k] /\ Debt[k] \in 0..Capacity
    BY <1>1, <1>2, ClearedKeepsLevels, RateConstants DEF Debt
  <2>2. n \in 0..Capacity /\ Debt[k] + c =< Capacity /\ Capacity - n = Debt[k] + c
    BY <1>1, <1>4, <2>1 DEF Allows
  <2>3. Debt' = [Debt EXCEPT ![k] = Capacity - n]
    BY <1>4, <2>2, CheckMovesOneDebt DEF Allows
  <2>4. answer' = Promise!Answer(k, c, TRUE)
    BY <1>4 DEF Allows, Answer, Promise!Answer
  <2>5. Promise!Grant(k, c)
    BY <2>2, <2>3, <2>4 DEF Promise!Grant
  <2> QED
    BY <1>4, <2>5 DEF Promise!LimiterNext
<1>5. ASSUME NEW k \in Key, NEW c \in Cost, Denies(k, c)
      PROVE  Promise!LimiterNext
  <2> DEFINE n == Level(k, Cleared(k))
  <2>1. c \in Nat /\ n = Capacity - Debt[k] /\ Debt[k] \in 0..Capacity
    BY <1>1, <1>2, ClearedKeepsLevels, RateConstants DEF Debt
  <2>2. n \in 0..Capacity /\ Debt[k] + c > Capacity /\ Capacity - n = Debt[k]
    BY <1>1, <1>5, <2>1 DEF Denies
  <2>3. Debt' = [Debt EXCEPT ![k] = Capacity - n]
    BY <1>5, <2>2, CheckMovesOneDebt DEF Denies
  <2>4. Debt' = Debt
    BY <2>2, <2>3 DEF Debt
  <2>5. answer' = Promise!Answer(k, c, FALSE)
    BY <1>5 DEF Denies, Answer, Promise!Answer
  <2>6. Promise!Refuse(k, c)
    BY <2>2, <2>4, <2>5 DEF Promise!Refuse
  <2> QED
    BY <1>5, <2>6 DEF Promise!LimiterNext
<1>6. ASSUME NEW k \in Key, NEW c \in Cost, TurnsAway(k, c)
      PROVE  Promise!LimiterNext
  <2> DEFINE Debtors == {j \in Key : Debt[j] > 0}
  <2>1. buckets' = Cleared(k) /\ now' = now
    BY <1>6 DEF TurnsAway
  <2>2. Debt' = Debt
    BY <2>1, ClearedKeepsLevels DEF Debt, Level
  <2>3. Cleared(k) = Evicted(Tidied) /\ Cardinality(Held(Cleared(k))) >= MaxEntries
    BY <1>6 DEF TurnsAway, Cleared, NoRoomFor
  <2>4. BucketTable(Tidied)
    BY <1>1, EvictedIsTable DEF Tidied
  <2>5. Held(Cleared(k)) \subseteq Debtors
    <3> SUFFICES ASSUME NEW j \in Held(Cleared(k))
                 PROVE  j \in Debtors
      OBVIOUS
    <3>1. j \in Key /\ Level(j, Cleared(k)) < Capacity
      BY <1>1, <2>3, <2>4, KeptIsOwed
    <3>2. Level(j, buckets) < Capacity
      BY <3>1, ClearedKeepsLevels
    <3> QED
      BY <1>1, <1>2, <3>1, <3>2 DEF Debt
  <2>6. Cardinality(Held(Cleared(k))) \in Nat /\ Cardinality(Debtors) \in Nat
        /\ Cardinality(Held(Cleared(k))) =< Cardinality(Debtors)
    <3>1. IsFiniteSet(Debtors)
      BY FS_Subset, RateConstants
    <3> HIDE DEF Debtors
    <3>2. IsFiniteSet(Held(Cleared(k)))
      BY <2>5, <3>1, FS_Subset
    <3> QED
      BY <2>5, <3>1, <3>2, FS_Subset, FS_CardinalityType
  <2>7. Cardinality(Debtors) >= MaxEntries
    BY <2>3, <2>6, RateConstants
  <2>8. answer' = Promise!Answer(k, c, FALSE)
    BY <1>6 DEF TurnsAway, Answer, Promise!Answer
  <2>9. Promise!Refuse(k, c)
    BY <2>2, <2>7, <2>8, Zenon DEF Promise!Refuse, Promise!Cardinality, Cardinality
  <2> QED
    BY <1>6, <2>9 DEF Promise!LimiterNext
<1>7. CASE UNCHANGED rateVars
  BY <1>7 DEF rateVars, Debt, Level
<1> QED
  BY <1>3, <1>4, <1>5, <1>6, <1>7 DEF RateNext

\* With its lazy refill, its two sweeps and its full table, the limiter behaves
\* as one that keeps every bucket for ever ("a fresh entry behaves
\* identically"): eviction forgives nobody.
THEOREM LimiterIsImplemented == RateSpec => ImplementsLimiter
<1>1. RateInit => Promise!LimiterInit
  BY RateConstants
  DEF RateInit, Promise!LimiterInit, Promise!NoAnswer, Debt, Level, NoBucket
<1> QED
  BY <1>1, LimiterStep, RateTypeCorrect, PTL
  DEF RateSpec, ImplementsLimiter, Promise!LimiterSpec

-----------------------------------------------------------------------------
(* What the rate limiter grants *)

\* What a key was granted is what it owes, and what time has forgiven.
GrantsAreOwed == \A k \in Key : granted[k] =< Debt[k] + now

LEMMA GrantsStep ==
  RateTypeOK /\ GrantsAreOwed /\ [RateNext]_rateVars => GrantsAreOwed'
<1> SUFFICES ASSUME RateTypeOK, GrantsAreOwed, [RateNext]_rateVars, NEW k \in Key
             PROVE  granted'[k] =< Debt'[k] + now'
  BY DEF GrantsAreOwed
<1>1. now \in Nat /\ Capacity \in Nat /\ granted \in [Key -> Nat]
  BY RateConstants DEF RateTypeOK
<1>2. Debt[k] \in 0..Capacity /\ granted[k] =< Debt[k] + now
  <2>1. Level(k, buckets) \in 0..Capacity
    BY LevelType DEF RateTypeOK, BucketTable
  <2> QED
    BY <1>1, <2>1 DEF Debt, GrantsAreOwed
<1>3. CASE Tick
  <2>1. now' = now + 1 /\ buckets' = buckets /\ granted' = granted
    BY <1>3 DEF Tick
  <2>2. Debt'[k] >= Debt[k] - 1 /\ Debt'[k] \in Int
    <3>1. CASE buckets[k] = NoBucket
      BY <1>1, <2>1, <3>1 DEF Debt, Level
    <3>2. CASE buckets[k] # NoBucket
      <4>1. buckets[k].tokens \in 0..Capacity /\ buckets[k].last \in Nat
        BY <3>2 DEF RateTypeOK, Bucket
      <4> QED
        BY <1>1, <2>1, <3>2, <4>1 DEF Debt, Level
    <3> QED
      BY <3>1, <3>2
  <2> QED
    BY <1>1, <1>2, <2>1, <2>2
<1>4. ASSUME NEW j \in Key, NEW c \in Cost, Allows(j, c)
      PROVE  granted'[k] =< Debt'[k] + now'
  <2> DEFINE n == Level(j, Cleared(j)) - c
  <2>1. now' = now /\ granted' = [granted EXCEPT ![j] = @ + c] /\ c \in Nat
    BY <1>4, RateConstants DEF Allows
  <2>2. Level(j, Cleared(j)) \in 0..Capacity /\ Debt[j] = Capacity - Level(j, Cleared(j))
    BY <1>1, ClearedKeepsLevels, LevelType DEF Debt
  <2>3. Debt' = [Debt EXCEPT ![j] = Capacity - n]
    <3>1. n \in 0..Capacity
      BY <1>1, <1>4, <2>1, <2>2 DEF Allows
    <3> QED
      BY <1>4, <2>1, <3>1, CheckMovesOneDebt DEF Allows
  <2>4. CASE k = j
    BY <1>1, <1>2, <2>1, <2>2, <2>3, <2>4 DEF Debt
  <2>5. CASE k # j
    BY <1>1, <1>2, <2>1, <2>3, <2>5 DEF Debt
  <2> QED
    BY <2>4, <2>5
<1>5. ASSUME NEW j \in Key, NEW c \in Cost, Denies(j, c) \/ TurnsAway(j, c)
      PROVE  granted'[k] =< Debt'[k] + now'
  <2>1. now' = now /\ granted' = granted
    BY <1>5 DEF Denies, TurnsAway
  <2>2. Debt'[k] = Debt[k]
    <3>1. CASE Denies(j, c)
      <4>1. Level(j, Cleared(j)) \in 0..Capacity /\ Debt[j] = Capacity - Level(j, Cleared(j))
        BY <1>1, ClearedKeepsLevels, LevelType DEF Debt
      <4>2. Debt' = [Debt EXCEPT ![j] = Capacity - Level(j, Cleared(j))]
        BY <3>1, <2>1, <4>1, CheckMovesOneDebt DEF Denies
      <4> QED
        BY <4>1, <4>2 DEF Debt
    <3>2. CASE TurnsAway(j, c)
      BY <2>1, <3>2, ClearedKeepsLevels DEF TurnsAway, Debt, Level
    <3> QED
      BY <1>5, <3>1, <3>2
  <2> QED
    BY <1>2, <2>1, <2>2
<1>6. CASE UNCHANGED rateVars
  BY <1>2, <1>6 DEF rateVars, Debt, Level
<1> QED
  BY <1>3, <1>4, <1>5, <1>6 DEF RateNext

\* Over any time from the start, a key is granted at most a full bucket and
\* what was refilled since (check), however its requests fall around the sweeps.
THEOREM RateBound == RateSpec => []RateIsBounded
<1>1. RateInit => GrantsAreOwed
  BY RateConstants DEF RateInit, GrantsAreOwed, Debt, Level, NoBucket
<1>2. RateTypeOK /\ GrantsAreOwed => RateIsBounded
  <2> SUFFICES ASSUME RateTypeOK, GrantsAreOwed, NEW k \in Key
               PROVE  granted[k] =< Capacity + now
    BY DEF RateIsBounded
  <2>1. Level(k, buckets) \in 0..Capacity /\ now \in Nat /\ granted[k] \in Nat
    BY LevelType DEF RateTypeOK, BucketTable
  <2> QED
    BY <2>1, RateConstants DEF GrantsAreOwed, Debt
<1> QED
  BY <1>1, <1>2, GrantsStep, RateTypeCorrect, PTL DEF RateSpec

-----------------------------------------------------------------------------
(* The services *)

\* The components keep their invariants beside one another.
ServicesInv ==
  /\ FileInv /\ AcpInv /\ TokensInv /\ StagingInv /\ TreeInv /\ CloneInv /\ BundleInv
  /\ PanelInv /\ PortsInv /\ LedgerInv /\ RefsInv

\* A step of the services is a step or a stutter of each component.
LEMMA StepsOfParts ==
  ASSUME [ServicesNext]_servicesVars
  PROVE  /\ [FileNext]_fileVars /\ [AcpNext]_acpVars /\ [PairNext]_pairVars /\ [UpdNext]_updVars
         /\ [WorktreeNext]_worktreeVars /\ [CloneNext]_cloneVars /\ [BundleNext]_bundleVars
         /\ [GitNext]_panelVars /\ [ServeNext]_serveVars /\ [UsageNext]_usageVars
         /\ [BrowserNext]_browserVars
<1>1. CASE ServicesNext
  BY <1>1 DEF ServicesNext
<1>2. CASE UNCHANGED servicesVars
  BY <1>2 DEF servicesVars
<1> QED
  BY <1>1, <1>2

\* What Services does to the git caches and to the limiter is what these do.
LEMMA ServicesContain == ServicesSpec => CacheSpec /\ RateSpec
<1>1. ServicesInit => CacheInit /\ RateInit
  BY DEF ServicesInit
<1>2. [ServicesNext]_servicesVars => [CacheNext]_cacheVars /\ [RateNext]_rateVars
  <2>1. CASE ServicesNext
    BY <2>1 DEF ServicesNext
  <2>2. CASE UNCHANGED servicesVars
    BY <2>2 DEF servicesVars
  <2> QED
    BY <2>1, <2>2
<1> QED
  BY <1>1, <1>2, PTL DEF ServicesSpec, CacheSpec, RateSpec

\* Every component starts with its invariant.
LEMMA ServicesInvInit == ServicesInit => ServicesInv
<1>1. ServicesInit =>
        /\ FileInit /\ AcpInit /\ PairInit /\ UpdInit /\ WorktreeInit /\ CloneInit /\ BundleInit
        /\ GitInit /\ ServeInit /\ UsageInit /\ BrowserInit
  BY DEF ServicesInit
<1> QED
  BY <1>1, FileInvInit, AcpInvInit, TokensInvInit, StagingInvInit, TreeInvInit, CloneInvInit,
     BundleInvInit, PanelInvInit, PortsInvInit, LedgerInvInit, RefsInvInit
  DEF ServicesInv

\* Every component keeps its invariant.
LEMMA ServicesInvStep == ServicesInv /\ [ServicesNext]_servicesVars => ServicesInv'
<1> SUFFICES ASSUME ServicesInv, [ServicesNext]_servicesVars
             PROVE  ServicesInv'
  OBVIOUS
<1>1. /\ FileInv /\ AcpInv /\ TokensInv /\ StagingInv /\ TreeInv /\ CloneInv /\ BundleInv
      /\ PanelInv /\ PortsInv /\ LedgerInv /\ RefsInv
  BY DEF ServicesInv
<1>2. FileInv' /\ AcpInv' /\ TokensInv' /\ StagingInv'
  BY <1>1, StepsOfParts, FileInvStep, AcpInvStep, TokensInvStep, StagingInvStep
<1>3. TreeInv' /\ CloneInv' /\ BundleInv' /\ LedgerInv'
  BY <1>1, StepsOfParts, TreeInvStep, CloneInvStep, BundleInvStep, LedgerInvStep
<1>4. PanelInv' /\ PortsInv' /\ RefsInv'
  BY <1>1, StepsOfParts, PanelInvStep, PortsInvStep, RefsInvStep
<1> QED
  BY <1>2, <1>3, <1>4 DEF ServicesInv

\* ServicesInv holds of every reachable state.
LEMMA ServicesInvariance == ServicesSpec => []ServicesInv
  BY ServicesInvInit, ServicesInvStep, PTL DEF ServicesSpec

\* Of two saves that were told of success no two replaced the same content
\* (api/files.rs, not a satellite, which takes no lock), and the first tab of a
\* window that nobody types in shows what the agent wrote (editor_store.dart).
THEOREM FilesAlwaysAgree == ServicesSpec => []FilesAgree
<1>1. ServicesInv => FilesAgree
  BY FilesAreAgreed DEF ServicesInv, FilesAgree
<1> QED
  BY <1>1, ServicesInvariance, PTL

\* The history a session replays reaches neither the reply nor the user, and the
\* files staged for a turn are there while its prompt runs
\* (providers/acp/provider.rs).
THEOREM TurnsAlwaysStayApart == ServicesSpec => []AcpTurnsStayApart
<1>1. ServicesInv => AcpTurnsStayApart
  BY FilesStay DEF ServicesInv, AcpInv, AcpTurnsStayApart
<1> QED
  BY <1>1, ServicesInvariance, PTL

\* One request at most gets a token in a boot, and a token that was given out is
\* good after any number of restarts, unless its write failed or a boot could
\* not read the state (satellite/mod.rs).
THEOREM PairingAlwaysHolds == ServicesSpec => []PairingHolds
<1>1. ServicesInv => PairingHolds
  BY TokensAreApart DEF ServicesInv, PairingHolds
<1> QED
  BY <1>1, ServicesInvariance, PTL

\* What is renamed over the executable is what the same request has checked
\* (update.rs).
THEOREM ExeIsAlwaysVerified == ServicesSpec => []ExeIsVerified
<1>1. ServicesInv => ExeIsVerified
  BY DEF ServicesInv, StagingInv
<1> QED
  BY <1>1, ServicesInvariance, PTL

\* What fails halfway cleans up (worktree.rs), unless the directory of a clone
\* could not be removed (api/clones.rs), and what is stored is there, but for
\* the bundles that StoredServerHasBundle exempts (mcpb.rs).
THEOREM FailuresAlwaysCleanUp == ServicesSpec => []FailuresCleanUp
<1>1. ServicesInv => FailuresCleanUp
  BY DEF ServicesInv, FailuresCleanUp, TreeInv, CloneInv, HalfCloneIsCleaned, BundleInv
<1> QED
  BY <1>1, ServicesInvariance, PTL

\* However turns and recorders overlap, the ledger adds up to no more tokens than
\* the agent has used while snapshots are recorded in their order (db/usage.rs),
\* and what the snapshots that have a cost and no counter had the server forget
\* (acp/provider.rs), which is counted again.
THEOREM TokensAreCountedOnce == ServicesSpec => []NothingIsCountedTwice
<1>1. ServicesInv => NothingIsCountedTwice
  BY NoTokenTwice DEF ServicesInv
<1> QED
  BY <1>1, ServicesInvariance, PTL

\* What the panel, the owner's requests to serve a port and the agent's use of a
\* page act on is what they looked at, and wholly, or nothing: a discard clears
\* its row, takes what it changes in the index back to HEAD, drops a file of HEAD
\* only where it misread HEAD as unborn, and spares the repositories, stage-all
\* leaves the repositories out, a change of the port takes no port of another's and leaves
\* the server served, and a ref hits the element it was told for
\* (git/service/changes.rs, api/tailscale.rs, browser/engine.rs).
THEOREM ActsAreOnWhatWasSeen == ServicesSpec => ActsOnWhatItSaw
<1>1. ServicesInv => DiscardClearsTheRow
  BY RowsAreCleared DEF ServicesInv
<1>2. ServicesInv /\ [ServicesNext]_servicesVars =>
        [\A f \in File : index'[f] # index[f] /\ DiscardStep
           => \/ f \in touched
              \/ /\ req.staged \/ index[f] = Conflict
                 /\ index'[f] = head[f] \/ req.misread]_panelVars
  BY StepsOfParts, PanelInvStep DEF ServicesInv
<1>3. ServicesInv /\ [ServicesNext]_servicesVars =>
        [\A f \in File : workTree[f] = Repo /\ workTree'[f] # Repo /\ DiscardStep
           => f \in touched \/ head[f] \in Blob \/ (~ req.staged /\ index[f] \in Blob)]_panelVars
  BY StepsOfParts, PanelInvStep DEF ServicesInv
<1>4. ServicesInv /\ [ServicesNext]_servicesVars =>
        [\A f \in File : index[f] = NoFile /\ index'[f] = Gitlink /\ AddsAll
           => f \in touched \/ hidden = {}]_panelVars
  BY StepsOfParts, PanelInvStep DEF ServicesInv
<1>5. ServicesInv /\ [ServicesNext]_servicesVars =>
        [\A r \in Serving, p \in HttpsPort :
           mapping[p] = "foreign" /\ mapping'[p] # "foreign" /\ (Ensures(r) \/ Disables(r))
             => p \in seen]_serveVars
  BY StepsOfParts, PortsInvStep DEF ServicesInv
<1>6. ServicesInv /\ [ServicesNext]_servicesVars =>
        [\A r \in Serving :
           Busy(r) /\ request[r].on /\ request[r].had /\ request'[r] # request[r]
             => Ours' # {} \/ ~ request[r].alone \/ seen # {} \/ server' = "down"]_serveVars
  BY StepsOfParts, PortsInvStep DEF ServicesInv
<1>7. ServicesInv => \A r \in Serving :
        request[r].at = "set" /\ request[r].on /\ request[r].alone /\ seen = {}
          => Ours = {request[r].port}
  BY PortsHaveMoved DEF ServicesInv
<1>8. ServicesInv /\ [ServicesNext]_servicesVars =>
        [acted' # acted /\ ~ torn => acted'.hit \in {acted'.meant, NoElement}]_browserVars
  BY StepsOfParts, RefsInvStep DEF ServicesInv
<1>9. ServicesSpec => []DiscardClearsTheRow
  BY <1>1, ServicesInvariance, PTL
<1>10. ServicesSpec => DiscardResetsToHead
  BY <1>2, ServicesInvariance, PTL DEF ServicesSpec, DiscardResetsToHead
<1>11. ServicesSpec => DiscardSparesRepos
  BY <1>3, ServicesInvariance, PTL DEF ServicesSpec, DiscardSparesRepos
<1>12. ServicesSpec => StageAllLeavesReposOut
  BY <1>4, ServicesInvariance, PTL DEF ServicesSpec, StageAllLeavesReposOut
<1>13. ServicesSpec => ForeignIsSpared
  BY <1>5, ServicesInvariance, PTL DEF ServicesSpec, ForeignIsSpared
<1>14. ServicesSpec => FailedEnableKeepsServing
  BY <1>6, ServicesInvariance, PTL DEF ServicesSpec, FailedEnableKeepsServing
<1>15. ServicesSpec => EnableMoves
  BY <1>7, ServicesInvariance, PTL DEF EnableMoves
<1>16. ServicesSpec => RefHitsWhatWasShown
  BY <1>8, ServicesInvariance, PTL DEF ServicesSpec, RefHitsWhatWasShown
<1> QED
  BY <1>9, <1>10, <1>11, <1>12, <1>13, <1>14, <1>15, <1>16
  DEF ActsOnWhatItSaw, PanelKeepsItsWord, ServeMovesSafely

\* An entry of a git cache is as recent as the last change of the panel's, or
\* its read overlapped it (git/service/mod.rs).
THEOREM CachesAlwaysFollow == ServicesSpec => []CachesFollowThePanel
  BY ServicesContain, CachesFollow

\* Whatever is evicted, the limiter does what one would that keeps every key's
\* debt (security/rate_limit.rs).
THEOREM LimiterStaysImplemented == ServicesSpec => ImplementsLimiter
  BY ServicesContain, LimiterIsImplemented

-----------------------------------------------------------------------------
(* The types of the services *)

\* The saves that are under way.
SavesUnderWay == {k \in Call : call[k].kind = "save" /\ call[k].at # "answered"}

\* Bounds of the files: what is left to the blocking pool and what is under way
\* are different requests.
FileBounds ==
  /\ lockedBy \in Call \cup {Free}
  /\ opens \in [Client -> 0..MaxOpens]
  /\ calls \in 0..MaxCalls /\ late \in Nat
  /\ IsFiniteSet(SavesUnderWay) /\ late + Cardinality(SavesUnderWay) <= calls

\* How a step may change the saves: it answers some, sends one, or leaves one to
\* the blocking pool.
SavesMove ==
  \/ /\ SavesUnderWay' \subseteq SavesUnderWay
     /\ late' \in {late, late - 1} /\ late' \in Nat /\ calls' = calls
  \/ /\ \E k \in Call : SavesUnderWay' \subseteq SavesUnderWay \cup {k}
     /\ late' = late /\ calls' = calls + 1 /\ calls < MaxCalls
  \/ /\ \E k \in SavesUnderWay : SavesUnderWay' \subseteq SavesUnderWay \ {k}
     /\ late' = late + 1 /\ calls' = calls

\* However it changes them, the bound stays.
LEMMA SavesStayCounted ==
  ASSUME FileBounds, SavesMove
  PROVE  /\ calls' \in 0..MaxCalls /\ late' \in Nat
         /\ IsFiniteSet(SavesUnderWay') /\ late' + Cardinality(SavesUnderWay') <= calls'
<1>1. /\ IsFiniteSet(SavesUnderWay) /\ Cardinality(SavesUnderWay) \in Nat
      /\ late \in Nat /\ calls \in Nat /\ calls <= MaxCalls /\ MaxCalls \in Nat
      /\ late + Cardinality(SavesUnderWay) <= calls
  BY FS_CardinalityType, FileConstants DEF FileBounds
<1>2. CASE /\ SavesUnderWay' \subseteq SavesUnderWay
           /\ late' \in {late, late - 1} /\ late' \in Nat /\ calls' = calls
  <2>1. /\ IsFiniteSet(SavesUnderWay') /\ Cardinality(SavesUnderWay') \in Nat
        /\ Cardinality(SavesUnderWay') <= Cardinality(SavesUnderWay)
    BY <1>1, <1>2, FS_Subset, FS_CardinalityType
  <2> QED
    BY <1>1, <1>2, <2>1
<1>3. ASSUME NEW k \in Call, SavesUnderWay' \subseteq SavesUnderWay \cup {k},
             late' = late, calls' = calls + 1, calls < MaxCalls
      PROVE  /\ calls' \in 0..MaxCalls /\ late' \in Nat
             /\ IsFiniteSet(SavesUnderWay') /\ late' + Cardinality(SavesUnderWay') <= calls'
  <2>1. /\ IsFiniteSet(SavesUnderWay \cup {k})
        /\ Cardinality(SavesUnderWay \cup {k}) <= Cardinality(SavesUnderWay) + 1
    <3>1. Cardinality(SavesUnderWay \cup {k}) \in
            {Cardinality(SavesUnderWay), Cardinality(SavesUnderWay) + 1}
      BY <1>1, FS_AddElement
    <3> QED
      BY <1>1, <3>1, FS_AddElement
  <2>2. /\ IsFiniteSet(SavesUnderWay') /\ Cardinality(SavesUnderWay') \in Nat
        /\ Cardinality(SavesUnderWay') <= Cardinality(SavesUnderWay \cup {k})
        /\ Cardinality(SavesUnderWay \cup {k}) \in Nat
    BY <1>3, <2>1, FS_Subset, FS_CardinalityType
  <2> QED
    BY <1>1, <1>3, <2>1, <2>2
<1>4. ASSUME NEW k \in SavesUnderWay, SavesUnderWay' \subseteq SavesUnderWay \ {k},
             late' = late + 1, calls' = calls
      PROVE  /\ calls' \in 0..MaxCalls /\ late' \in Nat
             /\ IsFiniteSet(SavesUnderWay') /\ late' + Cardinality(SavesUnderWay') <= calls'
  <2>1. /\ IsFiniteSet(SavesUnderWay \ {k})
        /\ Cardinality(SavesUnderWay \ {k}) = Cardinality(SavesUnderWay) - 1
    BY <1>1, FS_RemoveElement
  <2>2. /\ IsFiniteSet(SavesUnderWay') /\ Cardinality(SavesUnderWay') \in Nat
        /\ Cardinality(SavesUnderWay') <= Cardinality(SavesUnderWay \ {k})
    BY <1>4, <2>1, FS_Subset, FS_CardinalityType
  <2> QED
    BY <1>1, <1>4, <2>1, <2>2
<1> QED
  BY <1>2, <1>3, <1>4 DEF SavesMove

\* A request that is sent is one more.
LEMMA SendingMoves ==
  ASSUME FileTypes, NEW c \in Client, NEW kind \in {"read", "save"}, NEW first \in BOOLEAN,
         Sends(c, kind, first), late' = late
  PROVE  SavesMove
<1> DEFINE k == CHOOSE j \in Call : call[j] = Spare
<1>1. k \in Call
  BY DEF Sends
<1>2. \A j \in Call \ {k} : call'[j] = call[j]
  BY DEF Sends, FileTypes
<1>3. SavesUnderWay' \subseteq SavesUnderWay \cup {k}
  BY <1>2 DEF SavesUnderWay
<1> HIDE DEF k
<1> QED
  BY <1>1, <1>3 DEF SavesMove, Sends

\* Where no request changes but those that are answered, none is added.
LEMMA AnswersMove ==
  ASSUME \A k \in Call : call'[k].kind = "save" /\ call'[k].at # "answered"
                          => call[k].kind = "save" /\ call[k].at # "answered",
         late' = late, late \in Nat, calls' = calls
  PROVE  SavesMove
BY DEF SavesMove, SavesUnderWay

\* The first windows and requests.
LEMMA FileBoundsInit == FileInit => FileBounds
<1> SUFFICES ASSUME FileInit PROVE FileBounds
  OBVIOUS
<1>1. \A k \in Call : call[k].kind = "none"
  BY DEF FileInit, Spare
<1>2. SavesUnderWay = {}
  BY <1>1 DEF SavesUnderWay
<1>3. IsFiniteSet(SavesUnderWay) /\ Cardinality(SavesUnderWay) = 0
  BY <1>2, FS_EmptySet
<1> QED
  BY <1>3, FileConstants DEF FileInit, FileBounds

\* Every step keeps the bounds.
LEMMA FileBoundsStep ==
  ASSUME FileInv, FileBounds, [FileNext]_fileVars
  PROVE  FileBounds'
<1>1. FileTypes
  BY DEF FileInv
<1>2. /\ call \in [Call -> CallsAt(writes)] /\ late \in Nat /\ calls \in 0..MaxCalls
      /\ lockedBy \in Call \cup {Free} /\ opens \in [Client -> 0..MaxOpens]
  BY <1>1 DEF FileTypes, FileBounds
<1>3. MaxOpens \in Nat /\ MaxCalls \in Nat
  BY FileConstants
<1> DEFINE Kept == lockedBy' \in Call \cup {Free} /\ opens' \in [Client -> 0..MaxOpens]
<1>4. SavesMove /\ Kept => FileBounds'
  BY SavesStayCounted DEF FileBounds
<1>5. ASSUME NEW c \in Client, Opens(c), late' = late
       PROVE  SavesMove /\ opens' \in [Client -> 0..MaxOpens]
  <2>1. opens[c] + 1 \in 0..MaxOpens
    BY <1>2, <1>3, <1>5 DEF Opens
  <2>2. opens' \in [Client -> 0..MaxOpens]
    BY <1>2, <1>5, <2>1 DEF Opens
  <2>3. SavesMove
    BY <1>1, <1>5, SendingMoves DEF Opens
  <2> QED
    BY <2>2, <2>3
<1>6. ASSUME NEW c \in Client, OpenTab(c) PROVE SavesMove /\ Kept
  <2>1. Opens(c) /\ late' = late /\ lockedBy' = lockedBy
    BY <1>6 DEF OpenTab, serverVars
  <2> QED
    BY <1>2, <1>5, <2>1
<1>7. ASSUME NEW c \in Client, CloseTab(c) PROVE SavesMove /\ Kept
  BY <1>2, <1>7, AnswersMove DEF CloseTab, serverVars
<1>8. ASSUME NEW c \in Client, TypeText(c) \/ DiscardText(c) PROVE SavesMove /\ Kept
  <2>1. \A k \in Call : call'[k].kind = call[k].kind /\ call'[k].at = call[k].at
    BY <1>2, <1>8 DEF TypeText, DiscardText, CallsAt
  <2>2. late' = late /\ calls' = calls /\ lockedBy' = lockedBy /\ opens' = opens
    BY <1>8 DEF TypeText, DiscardText, serverVars
  <2> QED
    BY <1>2, <2>1, <2>2, AnswersMove
<1>9. ASSUME NEW c \in Client, SaveTab(c) PROVE SavesMove /\ Kept
  BY <1>2, <1>9, <1>1, SendingMoves DEF SaveTab, serverVars
<1>10. ASSUME NEW c \in Client, ReloadTab(c) PROVE SavesMove /\ Kept
  BY <1>2, <1>10, <1>1, SendingMoves DEF ReloadTab, Reloads, serverVars
<1>11. ASSUME NEW c \in Client, ReportArrives(c) PROVE SavesMove /\ Kept
  <2>1. late' = late /\ lockedBy' = lockedBy
    BY <1>11 DEF ReportArrives, serverVars
  <2>2. ShowsAgentEdit(c)
    BY <1>11 DEF ReportArrives
  <2>3. CASE Opens(c)
    BY <1>2, <1>5, <2>1, <2>3
  <2>4. CASE UNCHANGED <<call, opens, calls>>
    BY <1>2, <2>1, <2>4, AnswersMove
  <2>5. CASE Reloads(c)
    BY <1>2, <2>1, <2>5, <1>1, SendingMoves DEF Reloads
  <2> QED
    BY <2>2, <2>3, <2>4, <2>5 DEF ShowsAgentEdit
<1>12. ASSUME NEW value \in Value, OtherSaves(value) PROVE SavesMove /\ Kept
  <2> DEFINE k == CHOOSE j \in Call : call[j] = Spare
  <2>1. k \in Call
    BY <1>12 DEF OtherSaves
  <2>2. \A j \in Call \ {k} : call'[j] = call[j]
    BY <1>2, <1>12 DEF OtherSaves
  <2>3. SavesUnderWay' \subseteq SavesUnderWay \cup {k}
    BY <2>2 DEF SavesUnderWay
  <2> HIDE DEF k
  <2> QED
    BY <1>2, <1>12, <2>1, <2>3 DEF SavesMove, OtherSaves, serverVars
<1>13. ASSUME NEW k \in Call, AnswerArrives(k) \/ OtherIsAnswered(k) PROVE SavesMove /\ Kept
  <2>1. \A j \in Call : call'[j] = call[j] \/ call'[j].kind \in {"none", "read"}
    <3>1. \A j \in Call \ {k} : call'[j] = call[j]
      BY <1>2, <1>13 DEF AnswerArrives, OtherIsAnswered
    <3>2. \/ call' = [call EXCEPT ![k] = Spare]
          \/ call' = [call EXCEPT ![k] =
                         [Spare EXCEPT !.kind = "read", !.by = call[k].by, !.at = "sent"]]
      BY <1>13, Zenon DEF AnswerArrives, OtherIsAnswered
    <3>3. call'[k].kind \in {"none", "read"}
      <4>1. /\ Spare.kind = "none"
            /\ [Spare EXCEPT !.kind = "read", !.by = call[k].by, !.at = "sent"].kind = "read"
        BY DEF Spare
      <4> QED
        BY <1>2, <3>2, <4>1
    <3> QED
      BY <3>1, <3>3
  <2>2. late' = late /\ calls' = calls /\ lockedBy' = lockedBy /\ opens' = opens
    BY <1>13 DEF AnswerArrives, OtherIsAnswered, serverVars
  <2> QED
    BY <1>2, <2>1, <2>2, AnswersMove
<1>14. ASSUME NEW k \in Call,
              ReadFile(k) \/ TakeLock(k) \/ CheckExpected(k) \/ WriteContent(k) \/ RereadContent(k)
       PROVE  SavesMove /\ Kept
  <2>1. \A j \in Call : /\ call'[j].kind = call[j].kind
                        /\ call[j].at = "answered" => call'[j].at = "answered"
    BY <1>2, <1>14
    DEF ReadFile, TakeLock, CheckExpected, WriteContent, RereadContent, Advances, Answers, CallsAt
  <2>2. late' = late /\ calls' = calls /\ lockedBy' \in Call \cup {Free} /\ opens' = opens
    BY <1>2, <1>14
    DEF ReadFile, TakeLock, CheckExpected, WriteContent, RereadContent, Unlock, serverVars
  <2> QED
    BY <1>2, <2>1, <2>2, AnswersMove
<1>15. ASSUME NEW k \in Call, CallIsDropped(k) PROVE SavesMove /\ Kept
  <2>1. \A j \in Call : /\ call'[j].kind = call[j].kind
                        /\ j # k => call'[j].at = call[j].at
                        /\ j = k => call'[j].at = "answered"
    BY <1>2, <1>15 DEF CallIsDropped, Answers, CallsAt
  <2>2. calls' = calls /\ lockedBy' \in Call \cup {Free} /\ opens' = opens
    BY <1>2, <1>15 DEF CallIsDropped, Unlock
  <2>3. CASE late' = late
    BY <1>2, <2>1, <2>2, <2>3, AnswersMove
  <2>4. CASE late' # late
    <3>1. late' = late + 1 /\ call[k].at = "writes"
      BY <1>15, <2>4 DEF CallIsDropped
    <3>2. call[k].kind = "save"
      BY <3>1 DEF FileInv, SavesAreSound, CallIsSound, Locked
    <3>3. k \in SavesUnderWay /\ SavesUnderWay' \subseteq SavesUnderWay \ {k}
      BY <2>1, <3>1, <3>2 DEF SavesUnderWay
    <3> QED
      BY <1>2, <2>2, <3>1, <3>3 DEF SavesMove
  <2> QED
    BY <2>3, <2>4
<1>16. ASSUME LateWrite PROVE SavesMove /\ Kept
  <2>1. late' = late - 1 /\ late' \in Nat
    BY <1>2, <1>16 DEF LateWrite
  <2>2. UNCHANGED <<lockedBy, call, opens, calls>>
    BY <1>16 DEF LateWrite
  <2>3. SavesUnderWay' = SavesUnderWay
    BY <2>2 DEF SavesUnderWay
  <2> QED
    <3>1. SavesMove
      BY <1>2, <2>1, <2>2, <2>3 DEF SavesMove
    <3>2. Kept
      BY <1>2, <2>2
    <3> QED
      BY <3>1, <3>2
<1>17. ASSUME AgentWrites \/ UploadWrites \/ DeleteFile \/ UNCHANGED fileVars
       PROVE  SavesMove /\ Kept
  <2>1. UNCHANGED <<late, lockedBy, call, opens, calls>>
    BY <1>17 DEF AgentWrites, UploadWrites, DeleteFile, fileVars
  <2>2. \A k \in Call : call'[k].kind = call[k].kind /\ call'[k].at = call[k].at
    BY <2>1
  <2>3. SavesMove
    BY <1>2, <2>1, <2>2, AnswersMove
  <2>4. Kept
    BY <1>2, <2>1
  <2> QED
    BY <2>3, <2>4
<1> HIDE DEF Kept
<1> QED
  BY <1>4, <1>6, <1>7, <1>8, <1>9, <1>10, <1>11, <1>12, <1>13, <1>14, <1>15, <1>16, <1>17
  DEF FileNext

\* The types of the files and the windows.
LEMMA FilesAreTyped == FileInv /\ FileBounds => FileTypeOK
<1> SUFFICES ASSUME FileInv, FileBounds PROVE FileTypeOK
  OBVIOUS
<1>1. FileTypes /\ writes \in Nat /\ MaxWrites \in Nat /\ writes <= MaxWrites
  BY FileConstants DEF FileInv, FileTypes, Value
<1>2. 0..writes \subseteq Value
  BY <1>1 DEF Value
<1>3. CallsAt(writes) \subseteq
        [kind : {"none", "read", "save"}, by : Client \cup {Other}, first : BOOLEAN, same : BOOLEAN,
         at : {"none", "sent", "checks", "writes", "rereads", "answered"},
         expected : Value, wrote : Value, got : Value \cup {Nothing, Error}]
  BY <1>2 DEF CallsAt
<1>4. TabsAt(writes) \subseteq
        [open : BOOLEAN, content : Value \cup {Nothing}, text : Value \cup {Nothing, Typed},
         dirty : BOOLEAN, loading : BOOLEAN, saving : BOOLEAN, failed : BOOLEAN]
  BY <1>2 DEF TabsAt
<1>5. late \in 0..MaxCalls
  <2>1. Cardinality(SavesUnderWay) \in Nat /\ late \in Nat /\ calls \in 0..MaxCalls
    BY FS_CardinalityType DEF FileBounds
  <2> QED
    BY <2>1, FileConstants DEF FileBounds
<1>6. unread \in [Client -> SUBSET Value] /\ owed \in [Client -> Value]
  BY <1>1, <1>2 DEF FileTypes
<1>7. call \in [Call -> 
        [kind : {"none", "read", "save"}, by : Client \cup {Other}, first : BOOLEAN, same : BOOLEAN,
         at : {"none", "sent", "checks", "writes", "rereads", "answered"},
         expected : Value, wrote : Value, got : Value \cup {Nothing, Error}]]
  BY <1>1, <1>3, Zenon DEF FileTypes
<1>8. tab \in [Client ->
        [open : BOOLEAN, content : Value \cup {Nothing}, text : Value \cup {Nothing, Typed},
         dirty : BOOLEAN, loading : BOOLEAN, saving : BOOLEAN, failed : BOOLEAN]]
  BY <1>1, <1>4, Zenon DEF FileTypes
<1>9. disk \in Value \cup {Absent} /\ writes \in Value
  BY <1>1 DEF FileTypes
<1> QED
  BY <1>1, <1>5, <1>6, <1>7, <1>8, <1>9 DEF FileTypeOK, FileTypes, FileBounds

-----------------------------------------------------------------------------
\* What the bounds of a turn are: what its agent has said, and whether it halts.
AcpBounds == halt \in [Turn -> BOOLEAN] /\ said \in [Turn -> 0..MaxUpdates]

\* The agents have said nothing at first.
LEMMA AcpBoundsInit == AcpInit => AcpBounds
BY AcpConstants DEF AcpInit, AcpBounds

\* Every step keeps the bounds of the turns.
LEMMA AcpBoundsStep == ASSUME AcpBounds, [AcpNext]_acpVars PROVE AcpBounds'
<1> USE DEF AcpBounds
<1>1. ASSUME NEW t \in Turn,
             \/ AgentConnects(t) \/ SessionIsOpened(t) \/ SessionIsStored(t)
             \/ SessionIsConfigured(t)
             \/ AskIsAnswered(t) \/ PromptIsAnswered(t) \/ PromptIsCancelled(t)
             \/ RequestFails(t) \/ AgentDies(t) \/ HandleMessage(t)
      PROVE  UNCHANGED <<halt, said>>
  BY <1>1 DEF AgentConnects, SessionIsOpened, SessionIsStored, SessionIsConfigured,
    AskIsAnswered,
     PromptIsAnswered, PromptIsCancelled, RequestFails, AgentDies, HandleMessage, agentVars
<1>2. ASSUME NEW t \in Turn,
             \/ MakeAttachDir(t) \/ WriteProbe(t) \/ RemoveProbe(t) \/ CreateTurnDir(t)
             \/ WriteAttachments(t) \/ DropStaged(t) \/ SweepAttachDir(t) \/ TurnIsAborted(t)
      PROVE  UNCHANGED <<halt, said>>
  BY <1>2 DEF MakeAttachDir, WriteProbe, RemoveProbe, CreateTurnDir, WriteAttachments,
    DropStaged,
     SweepAttachDir, TurnIsAborted, agentVars
<1>3. ASSUME NEW t \in Turn, SessionIsLoaded(t) PROVE AcpBounds'
  BY <1>3, AcpConstants DEF SessionIsLoaded
<1>4. ASSUME NEW t \in Turn, TurnIsHalted(t) PROVE AcpBounds'
  BY <1>4 DEF TurnIsHalted, agentVars
<1>5. ASSUME NEW t \in Turn, NEW kind \in {"update", "request"}, AgentSays(t, kind)
      PROVE  AcpBounds'
  <2>1. said[t] + 1 \in 0..MaxUpdates
    BY <1>5, AcpConstants DEF AgentSays
  <2> QED
    BY <1>5, <2>1 DEF AgentSays
<1>6. ASSUME NEW t \in Turn, NEW kind \in {"ok", "error"}, AgentAnswers(t, kind)
      PROVE  AcpBounds'
  BY <1>6 DEF AgentAnswers
<1>7. CASE UNCHANGED acpVars
  BY <1>7 DEF acpVars, agentVars
<1> QED
  BY <1>1, <1>2, <1>3, <1>4, <1>5, <1>6, <1>7 DEF AcpNext, AcpStep

\* The types of the turns.
LEMMA TurnsAreTyped == AcpInv /\ AcpBounds => AcpTypeOK
BY DEF AcpInv, AcpBounds, AcpTypeOK, Stagings

-----------------------------------------------------------------------------
\* What is held of the addresses that failed: no more than the cap.
AttemptEntries == [fails : Nat, locked : {"no", "yes", "lapsed"}]
Fits(held) ==
  /\ DOMAIN held \subseteq Address /\ IsFiniteSet(DOMAIN held)
  /\ Cardinality(DOMAIN held) <= AttemptsCap
  /\ \A a \in DOMAIN held : held[a] \in AttemptEntries

\* What the map is cut down to leaves room for one more.
LEMMA BoundedHasRoom ==
  ASSUME Fits(attempts)
  PROVE  /\ DOMAIN Bounded \subseteq Address /\ IsFiniteSet(DOMAIN Bounded)
         /\ Cardinality(DOMAIN Bounded) \in Nat /\ Cardinality(DOMAIN Bounded) < AttemptsCap
         /\ \A a \in DOMAIN Bounded : Bounded[a] \in AttemptEntries
<1> DEFINE locked == {a \in DOMAIN attempts : IsLocked(a)}
<1>1. IsFiniteSet(DOMAIN attempts) /\ Cardinality(DOMAIN attempts) \in Nat
  BY FS_CardinalityType DEF Fits
<1>2. IsFiniteSet(locked) /\ Cardinality(locked) \in Nat
  BY <1>1, FS_Subset, FS_CardinalityType
<1>3. CASE Cardinality(DOMAIN attempts) < AttemptsCap
  <2>1. Bounded = attempts
    BY <1>3, Zenon DEF Bounded
  <2> QED
    BY <1>1, <1>3, <2>1 DEF Fits
<1>4. CASE ~ (Cardinality(DOMAIN attempts) < AttemptsCap) /\ Cardinality(locked) < AttemptsCap
  <2>1. Bounded = [a \in locked |-> attempts[a]]
    BY <1>4, Zenon DEF Bounded
  <2>2. DOMAIN Bounded = locked /\ locked \subseteq DOMAIN attempts
    BY <2>1
  <2>3. \A a \in DOMAIN Bounded : Bounded[a] = attempts[a]
    BY <2>1
  <2> HIDE DEF locked
  <2> QED
    BY <1>2, <1>4, <2>2, <2>3 DEF Fits
<1>5. CASE ~ (Cardinality(DOMAIN attempts) < AttemptsCap) /\ ~ (Cardinality(locked) < AttemptsCap)
  <2>1. Bounded = [a \in {} |-> Fresh]
    BY <1>5, Zenon DEF Bounded
  <2>2. DOMAIN Bounded = {}
    BY <2>1
  <2>3. IsFiniteSet(DOMAIN Bounded) /\ Cardinality(DOMAIN Bounded) = 0
    BY <2>2, FS_EmptySet
  <2> QED
    BY <2>2, <2>3, PairingConstants
<1> QED
  BY <1>3, <1>4, <1>5

\* A failure is entered within the cap.
LEMMA FailedFits == ASSUME Fits(attempts), NEW a \in Address PROVE Fits(Failed(a))
<1> DEFINE before == IF a \in DOMAIN Bounded /\ Bounded[a].locked # "lapsed" THEN Bounded[a] ELSE Fresh
           entry == [fails |-> before.fails + 1,
                     locked |-> IF before.fails + 1 >= MaxFails THEN "yes" ELSE before.locked]
<1>1. Fresh \in AttemptEntries
  BY DEF Fresh, AttemptEntries
<1>2. before \in AttemptEntries
  BY <1>1, BoundedHasRoom
<1>3. entry \in AttemptEntries
  <2> HIDE DEF before
  <2>1. before.fails \in Nat /\ before.locked \in {"no", "yes", "lapsed"}
    BY <1>2 DEF AttemptEntries
  <2>2. before.fails + 1 \in Nat
    BY <2>1
  <2> QED
    BY <2>1, <2>2 DEF AttemptEntries
<1>4. Failed(a) = [b \in DOMAIN Bounded \cup {a} |-> IF b = a THEN entry ELSE Bounded[b]]
  BY DEF Failed
<1> HIDE DEF entry
<1>5. DOMAIN Failed(a) = DOMAIN Bounded \cup {a}
  BY <1>4
<1>6. \A b \in DOMAIN Failed(a) : Failed(a)[b] \in AttemptEntries
  BY <1>3, <1>4, <1>5, BoundedHasRoom
<1>7. /\ IsFiniteSet(DOMAIN Bounded \cup {a})
      /\ Cardinality(DOMAIN Bounded \cup {a}) \in
           {Cardinality(DOMAIN Bounded), Cardinality(DOMAIN Bounded) + 1}
  BY BoundedHasRoom, FS_AddElement
<1>8. Cardinality(DOMAIN Failed(a)) <= AttemptsCap
  BY <1>5, <1>7, BoundedHasRoom, PairingConstants
<1> QED
  BY <1>5, <1>6, <1>7, <1>8, BoundedHasRoom DEF Fits

\* No address has failed at first.
LEMMA NothingFits == Fits([a \in {} |-> Fresh])
<1> DEFINE none == [a \in {} |-> Fresh]
<1>1. DOMAIN none = {}
  OBVIOUS
<1> HIDE DEF none
<1>2. IsFiniteSet(DOMAIN none) /\ Cardinality(DOMAIN none) = 0
  BY <1>1, FS_EmptySet
<1>3. Fits(none)
  BY <1>1, <1>2, PairingConstants DEF Fits
<1> QED
  BY <1>3 DEF none

\* Every step keeps the map of failures within its cap.
LEMMA FitsStep ==
  ASSUME TokensInv, Fits(attempts), [PairNext]_pairVars
  PROVE  Fits(attempts')
<1>1. ASSUME NEW p \in Pairer, CodeIsVerified(p) PROVE Fits(attempts')
  <2>1. pairing[p].from \in Address
    BY DEF TokensInv
  <2>2. attempts' = attempts \/ attempts' = Failed(pairing[p].from)
    BY <1>1 DEF CodeIsVerified
  <2> QED
    BY <2>1, <2>2, FailedFits
<1>2. ASSUME NEW a \in Address, LockLapses(a) PROVE Fits(attempts')
  <2>1. a \in DOMAIN attempts /\ attempts' = [attempts EXCEPT ![a].locked = "lapsed"]
    BY <1>2 DEF LockLapses, IsLocked
  <2>2. DOMAIN attempts' = DOMAIN attempts
    BY <2>1
  <2>3. ASSUME NEW b \in DOMAIN attempts PROVE attempts'[b] \in AttemptEntries
    <3>1. attempts[b] \in AttemptEntries
      BY DEF Fits
    <3>2. attempts'[b] = IF b = a THEN [attempts[b] EXCEPT !.locked = "lapsed"] ELSE attempts[b]
      BY <2>1
    <3> QED
      BY <3>1, <3>2 DEF AttemptEntries
  <2> QED
    BY <2>2, <2>3 DEF Fits
<1>3. CASE SatelliteRestarts \/ SatelliteStartsFresh
  <2>1. attempts' = [a \in {} |-> Fresh]
    BY <1>3 DEF SatelliteRestarts, SatelliteStartsFresh, NewBoot
  <2> QED
    BY <2>1, NothingFits
<1>4. ASSUME NEW p \in Pairer,
             \/ PairArrives(p) \/ AttemptIsChecked(p) \/ TokenIsIssued(p) \/ IdentityIsPersisted(p)
             \/ PersistFails(p) \/ PairIsDropped(p) \/ PairIsAnswered(p) \/ NodeIsStored(p)
      PROVE  attempts' = attempts
  BY <1>4 DEF PersistFails, PairArrives, AttemptIsChecked, TokenIsIssued, IdentityIsPersisted,
    PairIsDropped,
     PairIsAnswered, NodeIsStored, satVars
<1>5. CASE NodeGoesStale \/ NodeIsProbed \/ NodeIsRemoved \/ UNCHANGED pairVars
  BY <1>5 DEF NodeGoesStale, NodeIsProbed, NodeIsRemoved, pairVars, satVars
<1> QED
  BY <1>1, <1>2, <1>3, <1>4, <1>5 DEF PairNext

\* The types of a satellite and of the hub's row for it.
LEMMA PairingIsTyped == TokensInv /\ Fits(attempts) => PairTypeOK
<1> SUFFICES ASSUME TokensInv, Fits(attempts) PROVE PairTypeOK
  OBVIOUS
<1>1. identity \subseteq Pairer
  BY DEF TokensInv
<1> QED
  BY <1>1 DEF TokensInv, Fits, AttemptEntries, PairTypeOK

-----------------------------------------------------------------------------
\* What an update stages and where it ends.
UpdateBounds ==
  /\ stagedExe \in Content
  /\ release \in {"none", "newer", "no_asset", "no_sums"}
  /\ applies \in 0..MaxApplies /\ restart \in {"no", "scheduled", "done"}

\* Nothing is staged at first.
LEMMA UpdateBoundsInit == UpdInit => UpdateBounds
BY UpdateConstants DEF UpdInit, UpdateBounds, Content

\* Every step keeps what is staged.
LEMMA UpdateBoundsStep == ASSUME UpdateBounds, [UpdNext]_updVars PROVE UpdateBounds'
<1>1. ASSUME NEW a \in Applier, ApplyArrives(a) PROVE UpdateBounds'
  <2>1. applies + 1 \in 0..MaxApplies
    BY <1>1, UpdateConstants DEF ApplyArrives, UpdateBounds
  <2> QED
    BY <1>1, <2>1 DEF ApplyArrives, UpdateBounds
<1>2. ASSUME NEW a \in Applier,
             TakeFlag(a) \/ FindRelease(a) \/ ApplyReturns(a) \/ Audited(a) \/ ApplyIsDropped(a)
      PROVE  UpdateBounds'
  BY <1>2 DEF TakeFlag, FindRelease, ApplyReturns, Audited, ApplyIsDropped, UpdateBounds
<1>3. ASSUME NEW a \in Applier,
             CreateStaged(a) \/ Download(a) \/ Verify(a) \/ RenameStaged(a)
      PROVE  UpdateBounds'
  BY <1>3
  DEF CreateStaged, Download, Verify, RenameStaged, StagingFails, UpdateBounds, Content
<1>4. CASE Restart
  BY <1>4 DEF Restart, UpdateBounds
<1>5. CASE UNCHANGED updVars
  BY <1>5 DEF updVars, UpdateBounds
<1> QED
  BY <1>1, <1>2, <1>3, <1>4, <1>5 DEF UpdNext, UpdStep

\* The types of an update.
LEMMA UpdateIsTyped == StagingInv /\ UpdateBounds => UpdTypeOK
BY DEF StagingInv, ExeIsVerified, UpdateBounds, UpdTypeOK, Content

-----------------------------------------------------------------------------
\* Who asks for a clone, where, and whose project there is.
CloneBounds ==
  machine \in {"hub", "node"} /\ asker \in [Cloner -> User] /\ projects \subseteq Cloner

\* No project is there at first.
LEMMA CloneBoundsInit == CloneInit => CloneBounds
BY DEF CloneInit, CloneBounds

\* Every step keeps them.
LEMMA CloneBoundsStep == ASSUME CloneBounds, [CloneNext]_cloneVars PROVE CloneBounds'
<1>1. ASSUME NEW c \in Cloner, CloneStep(c) PROVE CloneBounds'
  BY <1>1 DEF CloneStep, CloneLooks, CloneLooksForRow, StoreProject, GitStarts, GitEnds,
     CloneTimesOut, CloneReturns, DropRow, RemoveTarget, CloneFinishes, HubRecords,
     CloneIsDropped, CloneBounds
<1>2. CASE UNCHANGED cloneVars
  BY <1>2 DEF cloneVars, CloneBounds
<1> QED
  BY <1>1, <1>2 DEF CloneNext

\* The types of the clones.
LEMMA ClonesAreTyped == CloneInv /\ CloneBounds => CloneTypeOK
BY DEF CloneInv, CloneBounds, CloneTypeOK

-----------------------------------------------------------------------------
\* Every step keeps the count of the installations.
LEMMA InstallsStep ==
  ASSUME installs \in 0..MaxInstalls, [BundleNext]_bundleVars
  PROVE  installs' \in 0..MaxInstalls
<1>1. ASSUME NEW c \in Tab, InstallBundle(c) PROVE installs' \in 0..MaxInstalls
  BY <1>1, BundleConstants DEF InstallBundle
<1>2. ASSUME NEW c \in Tab,
             \/ LoadServers(c) \/ SaveServers(c) \/ TakeServersLock(c) \/ StoreServers(c)
             \/ InstallReturns(c) \/ MergeServers(c) \/ PruneReturns(c) \/ ChangeIsDropped(c)
             \/ BundleIsCleared(c) \/ BundleIsExtracted(c) \/ BundlesArePruned(c)
      PROVE  installs' = installs
  BY <1>2 DEF LoadServers, SaveServers, TakeServersLock, StoreServers, InstallReturns,
     MergeServers, PruneReturns, ChangeIsDropped, BundleIsCleared, BundleIsExtracted,
     BundlesArePruned
<1>3. CASE UNCHANGED bundleVars
  BY <1>3 DEF bundleVars
<1> QED
  BY <1>1, <1>2, <1>3 DEF BundleNext, BundleStep

\* The types of the bundles.
LEMMA BundlesAreTyped == BundleInv /\ installs \in 0..MaxInstalls => BundleTypeOK
BY DEF BundleInv, BundleTypeOK, ServerChanges, Works

-----------------------------------------------------------------------------
\* What stage-all hides, what the agent touched, and how often either acted.
PanelBounds ==
  /\ hidden \subseteq File /\ touched \subseteq File
  /\ edits \in 0..MaxEdits /\ gits \in 0..MaxGits

\* Nothing has been touched at first.
LEMMA PanelBoundsInit == GitInit => PanelBounds
BY GitConstants DEF GitInit, PanelBounds

\* A request that starts is one more.
LEMMA StartingKeepsBounds ==
  ASSUME PanelBounds, NEW op, NEW paths, NEW side, NEW at, PanelStarts(op, paths, side, at)
  PROVE  PanelBounds'
BY GitConstants DEF PanelStarts, PanelBounds

\* Every step keeps the bounds.
LEMMA PanelBoundsStep == ASSUME PanelBounds, [GitNext]_panelVars PROVE PanelBounds'
<1>1. CASE Agent
  <2>1. touched' \subseteq File
    BY <1>1 DEF Agent, AgentCommits, AgentChangesFile, AgentStages, PanelBounds
  <2>2. edits' \in 0..MaxEdits
    BY <1>1, GitConstants DEF Agent, PanelBounds
  <2>3. UNCHANGED <<hidden, gits>>
    BY <1>1 DEF Agent
  <2> QED
    BY <2>1, <2>2, <2>3 DEF PanelBounds
<1>2. CASE GitAnswered \/ DiscardStep \/ AddsAll \/ AddsPath \/ Resets \/ Commits
  <2>1. UNCHANGED gitRest
    BY <1>2 DEF GitAnswered, DiscardStep, LooksInIndex, LooksForConflict, LooksInHead,
       LooksBeforeRemoval, RestoresHead, RestoresIndex, DropsEntry, RemovesEntry, Wipes, Finds, GitFails,
       AddsAll, AddsPath, Resets, Commits
  <2> QED
    BY <2>1 DEF gitRest, PanelBounds
<1>3. CASE Discard
  BY <1>3, StartingKeepsBounds DEF Discard
<1>4. CASE Recording
  BY <1>4, StartingKeepsBounds DEF Recording
<1>5. CASE Hides
  BY <1>5 DEF Hides, PanelBounds
<1>6. CASE UNCHANGED panelVars
  BY <1>6 DEF panelVars, PanelBounds
<1> QED
  BY <1>1, <1>2, <1>3, <1>4, <1>5, <1>6 DEF GitNext

\* The types of the git panel.
LEMMA PanelIsTyped == PanelInv /\ PanelBounds => GitTypeOK
BY DEF PanelInv, PanelBounds, Trees, GitRequests, GitTypeOK

-----------------------------------------------------------------------------
\* Where the server is, and how often others acted.
PortBounds == server \in {"down", "up", "closing"} /\ others \in 0..MaxSteps

\* The server is down at first.
LEMMA PortBoundsInit == ServeInit => PortBounds
BY ServeConstants DEF ServeInit, PortBounds

\* Every step keeps the bounds.
LEMMA PortBoundsStep == ASSUME PortBounds, [ServeNext]_serveVars PROVE PortBounds'
<1>1. ASSUME NEW p \in HttpsPort, OthersServe(p) PROVE PortBounds'
  BY <1>1, ServeConstants DEF OthersServe, PortBounds
<1>2. ASSUME NEW r \in Serving,
             ServeAsked(r) \/ Looks(r) \/ Ensures(r) \/ Disables(r) \/ FallsBack(r) \/ Stores(r)
      PROVE  PortBounds'
  BY <1>2 DEF ServeAsked, Looks, Ensures, Disables, FallsBack, Stores, PortBounds
<1>3. CASE Boots \/ StartLooks \/ StartEnsures \/ Closes \/ CloseLooks \/ CloseDisables \/ Crashes
  BY <1>3
  DEF Boots, StartLooks, StartEnsures, Closes, CloseLooks, CloseDisables, Crashes, PortBounds
<1>4. CASE UNCHANGED serveVars
  BY <1>4 DEF serveVars, PortBounds
<1> QED
  BY <1>1, <1>2, <1>3, <1>4 DEF ServeNext

\* The types of what is published.
LEMMA PortsAreTyped == PortsInv /\ PortBounds => ServeTypeOK
BY DEF PortsInv, PortTypes, PortBounds, ServeRequests, ServeTypeOK

-----------------------------------------------------------------------------
\* The types of the ledger.
LEMMA LedgerIsTyped == LedgerInv => UsageTypeOK
BY DEF LedgerInv, Turns, UsageTypeOK

\* The types of the worktrees.
LEMMA WorktreesAreTyped == TreeInv => WorktreeTypeOK
BY DEF TreeInv, TreeTypes, ThreadRows, SenderRows, AgentRuns, Deletions, WorktreeTypeOK

-----------------------------------------------------------------------------
\* What a ref may stand for.
Marks == [Ref -> Element \cup {NoElement}]

\* A numbering, and what is kept of one, say of every ref what it stands for.
LEMMA MarksAre ==
  /\ NoTags \in Marks
  /\ \A p \in Pages : Numbered(p) \in Marks
  /\ \A p : tags \in Marks => KeptRefs(p) \in Marks
<1>1. ASSUME NEW p \in Pages PROVE Numbered(p) \in Marks
  <2>1. PICK n \in 0..Cardinality(Element) : p \in [1..n -> Element]
    BY DEF Pages
  <2>2. \A i \in DOMAIN p : p[i] \in Element
    BY <2>1
  <2> QED
    BY <2>2 DEF Numbered, Marks
<1> QED
  BY <1>1 DEF NoTags, KeptRefs, Marks

\* A page without elements.
LEMMA EmptyPage == << >> \in Pages
<1>1. Cardinality(Element) \in Nat
  BY BrowserConstants, FS_CardinalityType
<1>2. << >> \in [1..0 -> Element] /\ 0 \in 0..Cardinality(Element)
  BY <1>1
<1>3. Range(<< >>) = {} /\ Len(<< >>) = 0
  BY DEF Range
<1>4. Cardinality(Range(<< >>)) = Len(<< >>)
  BY <1>3, FS_EmptySet
<1> QED
  BY <1>2, <1>4 DEF Pages

\* A page that changes is one, and its refs stand for what they may.
LEMMA PageBecomesOne ==
  ASSUME tags \in Marks, \E p \in Pages : PageBecomes(p)
  PROVE  page' \in Pages /\ tags' \in Marks
BY MarksAre DEF PageBecomes

\* The browser's session starts typed.
LEMMA BrowserTypesInit == BrowserInit => BrowserTypeOK
<1> SUFFICES ASSUME BrowserInit PROVE BrowserTypeOK
  OBVIOUS
<1>1. page \in Pages /\ tags \in Marks /\ told \in Marks
  BY EmptyPage, MarksAre DEF BrowserInit
<1>2. epoch \in 0..MaxEpoch /\ stamp \in -1..MaxEpoch
  BY BrowserConstants DEF BrowserInit
<1>3. acted \in [meant : Element \cup {NoElement}, hit : Element \cup {NoElement}]
  BY DEF BrowserInit
<1> QED
  BY <1>1, <1>2, <1>3 DEF BrowserInit, BrowserTypeOK, Marks

\* Every step keeps the types.
LEMMA BrowserTypesStep == ASSUME BrowserTypeOK, [BrowserNext]_browserVars PROVE BrowserTypeOK'
<1> DEFINE Acts == [meant : Element \cup {NoElement}, hit : Element \cup {NoElement}]
           Sound == /\ engine' \in {"none", "up", "dead"} /\ epoch' \in 0..MaxEpoch
                    /\ stamp' \in -1..MaxEpoch /\ page' \in Pages
                    /\ tags' \in Marks /\ told' \in Marks /\ acted' \in Acts
<1>1. /\ engine \in {"none", "up", "dead"} /\ epoch \in 0..MaxEpoch
      /\ stamp \in -1..MaxEpoch /\ page \in Pages
      /\ tags \in Marks /\ told \in Marks /\ acted \in Acts
  BY DEF BrowserTypeOK, Marks
<1>2. scriptLate' \in BOOLEAN /\ torn' \in BOOLEAN
  <2>1. scriptLate \in BOOLEAN /\ torn \in BOOLEAN
    BY DEF BrowserTypeOK
  <2> QED
    BY <2>1 DEF BrowserNext, browserVars, Launches, Dies, Snapshot, SnapshotIsTold,
      SnapshotFails,
       Navigate, NavigateFails, ActBySelector, PageMoves, LateScriptRuns, ActOnRef
<1> SUFFICES Sound
  BY <1>2 DEF BrowserTypeOK, Marks
<1>3. CASE Launches
  <2>1. epoch' \in 0..MaxEpoch /\ stamp' \in -1..MaxEpoch
    BY <1>3, BrowserConstants DEF Launches
  <2>2. page' \in Pages /\ tags' \in Marks
    BY <1>3, EmptyPage, MarksAre DEF Launches
  <2> QED
    BY <1>1, <1>3, <2>1, <2>2 DEF Launches
<1>4. CASE Dies
  BY <1>1, <1>4 DEF Dies
<1>5. CASE Snapshot
  <2>1. Numbered(page) \in Marks /\ epoch \in -1..MaxEpoch
    BY <1>1, MarksAre, BrowserConstants
  <2> QED
    BY <1>1, <1>5, <2>1 DEF Snapshot, SnapshotIsTold, SnapshotFails
<1>6. CASE Navigate
  <2>1. epoch' \in 0..MaxEpoch /\ epoch + 1 \in -1..MaxEpoch
    BY <1>1, <1>6, BrowserConstants DEF Navigate
  <2>2. engine' = engine /\ acted' = acted
    BY <1>6 DEF Navigate
  <2>3. CASE UNCHANGED <<page, tags, told, stamp, scriptLate, torn>>
    BY <1>1, <2>1, <2>2, <2>3
  <2>4. ASSUME NEW p \in Pages,
               \/ page' = p /\ tags' = Numbered(p) /\ told' = Numbered(p) /\ stamp' = epoch + 1
               \/ NavigateFails(p)
        PROVE  Sound
    <3>1. Numbered(p) \in Marks /\ NoTags \in Marks
      BY MarksAre
    <3>2. page' = p /\ tags' \in {NoTags, Numbered(p)} /\ told' \in {told, Numbered(p)}
          /\ stamp' \in {stamp, epoch + 1}
      BY <2>4 DEF NavigateFails
    <3> QED
      BY <1>1, <2>1, <2>2, <3>1, <3>2
  <2> QED
    BY <1>6, <2>3, <2>4 DEF Navigate
<1>7. CASE ActBySelector
  <2>1. epoch' \in 0..MaxEpoch
    BY <1>1, <1>7, BrowserConstants DEF ActBySelector
  <2> QED
    BY <1>1, <1>7, <2>1, PageBecomesOne DEF ActBySelector
<1>8. CASE PageMoves
  BY <1>1, <1>8, PageBecomesOne DEF PageMoves
<1>9. CASE LateScriptRuns
  BY <1>1, <1>9, MarksAre DEF LateScriptRuns
<1>10. ASSUME NEW n \in Ref, NEW hovers \in BOOLEAN, ActOnRef(n, hovers) PROVE Sound
  <2>1. epoch' \in 0..MaxEpoch
    BY <1>1, <1>10, BrowserConstants DEF ActOnRef
  <2>2. acted' \in Acts
    <3>1. told[n] \in Element \cup {NoElement} /\ tags[n] \in Element \cup {NoElement}
      BY <1>1 DEF Marks
    <3> QED
      BY <1>10, <3>1 DEF ActOnRef
  <2> HIDE DEF Acts
  <2> QED
    BY <1>1, <1>10, <2>1, <2>2, PageBecomesOne DEF ActOnRef
<1>11. CASE UNCHANGED browserVars
  BY <1>1, <1>11 DEF browserVars
<1> HIDE DEF Sound
<1> QED
  BY <1>3, <1>4, <1>5, <1>6, <1>7, <1>8, <1>9, <1>10, <1>11 DEF BrowserNext

-----------------------------------------------------------------------------
\* The bounds of every component, beside its invariant.
ServicesBounds ==
  /\ FileBounds /\ AcpBounds /\ Fits(attempts) /\ UpdateBounds /\ CloneBounds
  /\ installs \in 0..MaxInstalls
  /\ PanelBounds /\ PortBounds /\ BrowserTypeOK

\* Every component starts within its bounds.
LEMMA ServicesBoundsInit == ServicesInit => ServicesBounds
<1> SUFFICES ASSUME ServicesInit PROVE ServicesBounds
  OBVIOUS
<1>1. /\ FileInit /\ AcpInit /\ PairInit /\ UpdInit /\ CloneInit /\ BundleInit
      /\ GitInit /\ ServeInit /\ BrowserInit
  BY DEF ServicesInit
<1>2. Fits(attempts)
  BY <1>1, NothingFits DEF PairInit
<1>3. installs \in 0..MaxInstalls
  BY <1>1, BundleConstants DEF BundleInit
<1> QED
  BY <1>1, <1>2, <1>3, FileBoundsInit, AcpBoundsInit, UpdateBoundsInit, CloneBoundsInit,
     PanelBoundsInit, PortBoundsInit, BrowserTypesInit
  DEF ServicesBounds

\* Every component keeps its bounds.
LEMMA ServicesBoundsStep ==
  ServicesInv /\ ServicesBounds /\ [ServicesNext]_servicesVars => ServicesBounds'
<1> SUFFICES ASSUME ServicesInv, ServicesBounds, [ServicesNext]_servicesVars
             PROVE  ServicesBounds'
  OBVIOUS
<1>1. /\ FileBounds /\ AcpBounds /\ Fits(attempts) /\ UpdateBounds /\ CloneBounds
      /\ installs \in 0..MaxInstalls
      /\ PanelBounds /\ PortBounds /\ BrowserTypeOK
  BY DEF ServicesBounds
<1>2. FileInv /\ TokensInv
  BY DEF ServicesInv
<1>3. FileBounds' /\ AcpBounds' /\ UpdateBounds' /\ CloneBounds'
  BY <1>1, <1>2, StepsOfParts, FileBoundsStep, AcpBoundsStep, UpdateBoundsStep, CloneBoundsStep
<1>4. Fits(attempts)' /\ (installs \in 0..MaxInstalls)'
  <2>1. Fits(attempts')
    BY <1>1, <1>2, StepsOfParts, FitsStep
  <2>2. installs' \in 0..MaxInstalls
    BY <1>1, StepsOfParts, InstallsStep
  <2> QED
    BY <2>1, <2>2 DEF Fits
<1>5. PanelBounds' /\ PortBounds' /\ BrowserTypeOK'
  BY <1>1, StepsOfParts, PanelBoundsStep, PortBoundsStep, BrowserTypesStep
<1> QED
  BY <1>3, <1>4, <1>5 DEF ServicesBounds

\* A behaviour is about one component from the start to the end.
LEMMA PartStays == ServicesSpec => [](part \in Part)
<1>1. ServicesInit => part \in Part
  BY DEF ServicesInit
<1>2. part \in Part /\ [ServicesNext]_servicesVars => (part \in Part)'
  BY DEF ServicesNext, servicesVars
<1> QED
  BY <1>1, <1>2, PTL DEF ServicesSpec

\* Every state of every component is well-typed: the failures to pair that are
\* held never exceed their cap (satellite/mod.rs), and the writes that dropped
\* handlers leave to the blocking pool never outnumber the requests (api/files.rs).
THEOREM ServicesAreTyped == ServicesSpec => []ServicesTypeOK
<1>1. /\ ServicesInv /\ ServicesBounds /\ part \in Part /\ CacheTypeOK /\ RateTypeOK
      => ServicesTypeOK
  <2> SUFFICES ASSUME ServicesInv, ServicesBounds, part \in Part, CacheTypeOK, RateTypeOK
               PROVE  ServicesTypeOK
    OBVIOUS
  <2>1. /\ FileInv /\ AcpInv /\ TokensInv /\ StagingInv /\ TreeInv /\ CloneInv /\ BundleInv
        /\ PanelInv /\ PortsInv /\ LedgerInv
    BY DEF ServicesInv
  <2>2. /\ FileBounds /\ AcpBounds /\ Fits(attempts) /\ UpdateBounds /\ CloneBounds
        /\ installs \in 0..MaxInstalls
        /\ PanelBounds /\ PortBounds /\ BrowserTypeOK
    BY DEF ServicesBounds
  <2>3. FileTypeOK /\ AcpTypeOK /\ PairTypeOK /\ UpdTypeOK
    BY <2>1, <2>2, FilesAreTyped, TurnsAreTyped, PairingIsTyped, UpdateIsTyped
  <2>4. WorktreeTypeOK /\ CloneTypeOK /\ BundleTypeOK /\ UsageTypeOK
    BY <2>1, <2>2, WorktreesAreTyped, ClonesAreTyped, BundlesAreTyped, LedgerIsTyped
  <2>5. GitTypeOK /\ ServeTypeOK /\ BrowserTypeOK
    BY <2>1, <2>2, PanelIsTyped, PortsAreTyped
  <2>6. part \in {"files", "acp", "pairing", "update", "worktrees", "clones", "bundles",
                  "panel", "cache", "serve", "usage", "browser", "rate"}
    BY ServicesConstants
  <2> QED
    BY <2>3, <2>4, <2>5, <2>6 DEF ServicesTypeOK
<1>2. ServicesInit => ServicesInv /\ ServicesBounds
  BY ServicesInvInit, ServicesBoundsInit
<1>3. ServicesInv /\ ServicesBounds /\ [ServicesNext]_servicesVars
        => ServicesInv' /\ ServicesBounds'
  BY ServicesInvStep, ServicesBoundsStep
<1>4. ServicesSpec => [](ServicesInv /\ ServicesBounds)
  BY <1>2, <1>3, PTL DEF ServicesSpec
<1> QED
  BY <1>1, <1>4, PartStays, ServicesContain, CacheTypeCorrect, RateTypeCorrect, PTL

=============================================================================
