--------------------------- MODULE BrowserSession ---------------------------
(***************************************************************************)
(* The browser tools of src/src/browser/: a stdio server that handles one  *)
(* call at a time, the engine it launches when needed, and the element     *)
(* refs of the last snapshot, which are attributes in the page guarded by  *)
(* an epoch (SnapshotClock). The page moves by itself between the calls,   *)
(* and a script whose call timed out is still in its queue.                *)
(***************************************************************************)
EXTENDS Integers, Sequences, FiniteSets, Functions

CONSTANTS
  Element,   \* the interactive elements a page may show
  MaxEpoch   \* bound on the changes of one engine

ASSUME BrowserConstants == MaxEpoch \in Nat /\ IsFiniteSet(Element)

VARIABLES
  engine,      \* EngineSlot: "none", "up", or "dead" while nobody has looked
  epoch,       \* SnapshotClock::epoch
  stamp,       \* SnapshotClock::snapshot_epoch, -1 for None
  page,        \* the visible elements in document order
  tags,        \* data-dvref: which element carries a ref, NoElement if none does
  told,        \* what the agent was last told a ref is
  scriptLate,  \* a snapshot that timed out before its script ran
  torn,        \* history: a script renumbered the page and nobody was told
  acted        \* history: the last element acted on by ref: meant and hit

browserVars == <<engine, epoch, stamp, page, tags, told, scriptLate, torn, acted>>

Ref == 1..Cardinality(Element)

NoElement == "nothing"

NoTags == [n \in Ref |-> NoElement]

Pages == {s \in UNION {[1..n -> Element] : n \in 0..Cardinality(Element)} :
            Cardinality(Range(s)) = Len(s)}

BrowserTypeOK ==
  /\ engine \in {"none", "up", "dead"}
  /\ epoch \in 0..MaxEpoch /\ stamp \in -1..MaxEpoch
  /\ page \in Pages
  /\ tags \in [Ref -> Element \cup {NoElement}]
  /\ told \in [Ref -> Element \cup {NoElement}]
  /\ scriptLate \in BOOLEAN /\ torn \in BOOLEAN
  /\ acted \in [meant : Element \cup {NoElement}, hit : Element \cup {NoElement}]

BrowserInit ==
  /\ engine = "none"
  /\ epoch = 0 /\ stamp = -1
  /\ page = << >>
  /\ tags = NoTags /\ told = NoTags
  /\ scriptLate = FALSE /\ torn = FALSE
  /\ acted = [meant |-> NoElement, hit |-> NoElement]

\* SNAPSHOT_JS numbers the visible elements and drops the refs of before.
Numbered(p) == [n \in Ref |-> IF n \in DOMAIN p THEN p[n] ELSE NoElement]

\* A ref stays with its element as long as that is in the page.
KeptRefs(p) == [n \in Ref |-> IF tags[n] \in Range(p) THEN tags[n] ELSE NoElement]

\* The page becomes p: another document (no refs in it), or the same changed.
PageBecomes(p) == page' = p /\ tags' \in {NoTags, KeptRefs(p)}

-----------------------------------------------------------------------------

\* EngineSlot::get: without a live engine a call starts one, with a clock and
\* a page of its own. A launch that fails answers the call and leaves nothing.
Launches ==
  /\ engine \in {"none", "dead"}
  /\ engine' \in {"up", "none"}
  /\ epoch' = 0 /\ stamp' = -1
  /\ page' = << >> /\ tags' = NoTags
  /\ scriptLate' = FALSE /\ torn' = FALSE
  /\ UNCHANGED <<told, acted>>

Dies ==
  /\ engine = "up"
  /\ engine' = "dead"
  /\ UNCHANGED <<epoch, stamp, page, tags, told, scriptLate, torn, acted>>

\* A snapshot whose result arrives is stamped and told.
SnapshotIsTold ==
  /\ tags' = Numbered(page)
  /\ told' = Numbered(page)
  /\ stamp' = epoch
  /\ scriptLate' = FALSE /\ torn' = FALSE
  /\ UNCHANGED <<engine, epoch, page, acted>>

\* One that fails after its script ran, or times out before it does.
SnapshotFails ==
  /\ \/ tags' = Numbered(page) /\ torn' = TRUE /\ UNCHANGED scriptLate
     \/ scriptLate' = TRUE /\ UNCHANGED <<tags, torn>>
  /\ UNCHANGED <<engine, epoch, stamp, page, told, acted>>

Snapshot == engine = "up" /\ (SnapshotIsTold \/ SnapshotFails)

\* Mutant of NavigateFails: stamped although the snapshot did not arrive.
NavigateStamps(p) ==
  /\ page' = p
  /\ tags' \in {NoTags, Numbered(p)}
  /\ stamp' = epoch + 1
  /\ UNCHANGED told

\* The new document is there, its snapshot is not.
NavigateFails(p) ==
  /\ page' = p
  /\ tags' \in {NoTags, Numbered(p)}
  /\ UNCHANGED <<stamp, told>>

\* Navigate: the epoch moves first, the snapshot is stamped when it arrived.
Navigate ==
  /\ engine = "up" /\ epoch < MaxEpoch
  /\ epoch' = epoch + 1
  /\ \/ /\ \E p \in Pages :
             \/ /\ page' = p
                /\ tags' = Numbered(p) /\ told' = Numbered(p)
                /\ stamp' = epoch + 1
             \/ NavigateFails(p)
        /\ scriptLate' = FALSE /\ torn' = FALSE
     \/ UNCHANGED <<page, tags, told, stamp, scriptLate, torn>>
  /\ UNCHANGED <<engine, acted>>

\* check: a ref is admitted in the epoch of the last snapshot only.
Admitted == stamp = epoch

\* Click, type, select or hover by a ref the agent was shown. All but hover
\* move the epoch, after the check and before the element is looked up.
ActOnRef(n, hovers) ==
  /\ engine = "up" /\ told[n] # NoElement
  /\ Admitted
  /\ hovers \/ epoch < MaxEpoch
  /\ epoch' = IF hovers THEN epoch ELSE epoch + 1
  /\ acted' = [meant |-> told[n], hit |-> tags[n]]
  /\ \E p \in Pages : PageBecomes(p)
  /\ UNCHANGED <<engine, stamp, told, scriptLate, torn>>

\* Anything that names no ref and may change the page.
ActBySelector ==
  /\ engine = "up" /\ epoch < MaxEpoch
  /\ epoch' = epoch + 1
  /\ \E p \in Pages : PageBecomes(p)
  /\ UNCHANGED <<engine, stamp, told, scriptLate, torn, acted>>

\* The page changes by itself, or while a call only looks, waits or scrolls.
PageMoves ==
  /\ engine = "up"
  /\ \E p \in Pages : PageBecomes(p)
  /\ UNCHANGED <<engine, epoch, stamp, told, scriptLate, torn, acted>>

\* The script of a snapshot that timed out gets its turn.
LateScriptRuns ==
  /\ engine = "up" /\ scriptLate
  /\ tags' = Numbered(page)
  /\ scriptLate' = FALSE /\ torn' = TRUE
  /\ UNCHANGED <<engine, epoch, stamp, page, told, acted>>

BrowserNext ==
  \/ Launches \/ Dies \/ Snapshot \/ Navigate \/ ActBySelector
  \/ PageMoves \/ LateScriptRuns
  \/ \E n \in Ref, hovers \in BOOLEAN : ActOnRef(n, hovers)

BrowserSpec == BrowserInit /\ [][BrowserNext]_browserVars

-----------------------------------------------------------------------------

\* An action on a ref hits the element that ref was shown for, or finds that
\* it is gone, never another one, across navigations that fail halfway,
\* relaunches and pages that move by themselves ("[ref=3]" of the last
\* snapshot) - unless a snapshot renumbered the page without an answer.
RefHitsWhatWasShown ==
  [][acted' # acted /\ ~ torn => acted'.hit \in {acted'.meant, NoElement}]_browserVars

\* "Every mutating action bumps `epoch`" so that a stale ref is refused
\* (engine.rs:44). A snapshot renumbers the page and bumps nothing: when it
\* times out, refs of the snapshot before are admitted and hit others.
RefsAreNeverStale ==
  [][acted' # acted => acted'.hit \in {acted'.meant, NoElement}]_browserVars
=============================================================================
