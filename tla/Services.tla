------------------------------ MODULE Services ------------------------------
(***************************************************************************)
(* The parts of the server that share no state with each other. Each       *)
(* behaviour here is one of one of them, so that few runs check them all.  *)
(***************************************************************************)
EXTENDS FileEdits, AcpTurn, SatellitePairing, SelfUpdate, Worktrees, Clones, Bundles,
        GitPanel, GitCache, TailscaleServe, UsageLedger, BrowserSession, RateLimit

CONSTANT
  Part  \* the components that a run is about, named as below

ASSUME ServicesConstants ==
  Part \subseteq {"files", "acp", "pairing", "update", "worktrees", "clones", "bundles",
                  "panel", "cache", "serve", "usage", "browser", "rate"}

VARIABLE part  \* the component that this behaviour is about

servicesVars ==
  <<part, fileVars, acpVars, pairVars, updVars, worktreeVars, cloneVars, bundleVars,
    panelVars, cacheVars, serveVars, usageVars, browserVars, rateVars>>

ServicesTypeOK ==
  CASE part = "files" -> FileTypeOK
    [] part = "acp" -> AcpTypeOK
    [] part = "pairing" -> PairTypeOK
    [] part = "update" -> UpdTypeOK
    [] part = "worktrees" -> WorktreeTypeOK
    [] part = "clones" -> CloneTypeOK
    [] part = "bundles" -> BundleTypeOK
    [] part = "panel" -> GitTypeOK
    [] part = "cache" -> CacheTypeOK
    [] part = "serve" -> ServeTypeOK
    [] part = "usage" -> UsageTypeOK
    [] part = "browser" -> BrowserTypeOK
    [] part = "rate" -> RateTypeOK

\* A component that is not the part starts in one state only.
ServicesInit ==
  /\ part \in Part
  /\ FileInit /\ AcpInit /\ PairInit /\ UpdInit /\ WorktreeInit /\ CloneInit /\ BundleInit
  /\ GitInit /\ CacheInit /\ ServeInit /\ UsageInit /\ BrowserInit /\ RateInit
  /\ part # "acp" => \A t \in Turn : session[t].stored = "none"
  /\ part # "pairing" => \A p \in Pairer : pairing[p].right /\ pairing[p].name
                                            /\ pairing[p].from = CHOOSE a \in Address : TRUE
  /\ part # "update" => release = "none"
  /\ part # "worktrees" => \A t \in Owner : row[t].mode = "local"
  /\ part # "clones" => machine = "hub" /\ asker = [c \in Cloner |-> CHOOSE u \in User : TRUE]
  /\ part # "panel" => born
  /\ part # "usage" => counter = 0

ServicesNext ==
  /\ UNCHANGED part
  /\ IF part = "files" THEN FileNext ELSE UNCHANGED fileVars
  /\ IF part = "acp" THEN AcpNext ELSE UNCHANGED acpVars
  /\ IF part = "pairing" THEN PairNext ELSE UNCHANGED pairVars
  /\ IF part = "update" THEN UpdNext ELSE UNCHANGED updVars
  /\ IF part = "worktrees" THEN WorktreeNext ELSE UNCHANGED worktreeVars
  /\ IF part = "clones" THEN CloneNext ELSE UNCHANGED cloneVars
  /\ IF part = "bundles" THEN BundleNext ELSE UNCHANGED bundleVars
  /\ IF part = "panel" THEN GitNext ELSE UNCHANGED panelVars
  /\ IF part = "cache" THEN CacheNext ELSE UNCHANGED cacheVars
  /\ IF part = "serve" THEN ServeNext ELSE UNCHANGED serveVars
  /\ IF part = "usage" THEN UsageNext ELSE UNCHANGED usageVars
  /\ IF part = "browser" THEN BrowserNext ELSE UNCHANGED browserVars
  /\ IF part = "rate" THEN RateNext ELSE UNCHANGED rateVars

ServicesSpec == ServicesInit /\ [][ServicesNext]_servicesVars

-----------------------------------------------------------------------------
\* What the editor shows and saves follows what others do to the file: where the
\* server locks no update is overwritten unseen, and a first tab nobody types in
\* is current (api/files.rs, editor_store.dart).
FilesAgree == (Locks => NoUpdateIsLost) /\ FirstTabIsCurrent

\* A turn over ACP is kept from the session's history and from the files of
\* the turns beside it (providers/acp/provider.rs).
AcpTurnsStayApart == HistoryStaysHistory /\ StagedFilesStay

\* A satellite is paired once per code, and for good as far as it can write and
\* read its state (satellite/mod.rs).
PairingHolds == OnePairPerBoot /\ PairingSurvives

\* What fails halfway cleans up, and what is stored is there: the worktree of
\* a run that could not start, the directory of a clone that failed, the files
\* of a bundle that stays installed (worktree.rs, api/clones.rs, mcpb.rs).
FailuresCleanUp == NothingLeaks /\ HalfCloneIsCleaned /\ StoredServerHasBundle

\* What is acted on is what was looked at before, and wholly, or the request is
\* refused: the rows of the git panel, the ports of the host, and the elements
\* of a page (git/service/changes.rs, api/tailscale.rs, browser/engine.rs).
ActsOnWhatItSaw ==
  []DiscardClearsTheRow /\ PanelKeepsItsWord /\ ServeMovesSafely /\ RefHitsWhatWasShown

=============================================================================
