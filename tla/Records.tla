------------------------------- MODULE Records -------------------------------
(***************************************************************************)
(* The parts of the server that are handlers over rows of the database,    *)
(* with what is made of these rows elsewhere, and that share no state with *)
(* each other. As in Services, each behaviour here is one of one of them.  *)
(***************************************************************************)
EXTENDS AccountSetup, SignIn, ProviderChoice, ProviderProbe, ThreadRow, Projects,
        ProjectGroups, ThreadRemoval, ThreadReaders, ThreadShare, McpServers, AgentSetup,
        Machines

VARIABLE part  \* the component that this behaviour is about

recordsVars ==
  <<part, accountVars, signVars, choiceVars, probeVars, threadRowVars, projectVars,
    groupVars, removalVars, readerVars, shareVars, mcpVars, setupVars, machineVars>>

RecordsTypeOK ==
  CASE part = "accounts" -> AccountTypeOK
    [] part = "sign_in" -> SignTypeOK
    [] part = "choice" -> ChoiceTypeOK
    [] part = "probe" -> ProbeTypeOK
    [] part = "thread" -> ThreadRowTypeOK
    [] part = "projects" -> ProjectTypeOK
    [] part = "groups" -> GroupTypeOK
    [] part = "removal" -> RemovalTypeOK
    [] part = "readers" -> ReaderTypeOK
    [] part = "share" -> ShareTypeOK
    [] part = "servers" -> McpTypeOK
    [] part = "setup" -> SetupTypeOK
    [] part = "machines" -> MachineTypeOK

\* A component that is not the part starts in one state only.
RecordsInit ==
  /\ part \in {"accounts", "sign_in", "choice", "probe", "thread", "projects", "groups",
               "removal", "readers", "share", "servers", "setup", "machines"}
  /\ AccountInit /\ SignInit /\ ChoiceInit /\ ProbeInit /\ ThreadRowInit
  /\ ProjectInit /\ GroupInit /\ RemovalInit /\ ReaderInit /\ ShareInit
  /\ McpInit /\ SetupInit /\ MachineInit
  /\ part # "thread" => thread.named /\ thread.provider = CHOOSE a \in Agent : TRUE
  /\ part # "servers" => mcpList = <<>>
  /\ part # "setup" => kind = CHOOSE k \in Kind : TRUE

RecordsNext ==
  /\ UNCHANGED part
  /\ IF part = "accounts" THEN AccountNext ELSE UNCHANGED accountVars
  /\ IF part = "sign_in" THEN SignNext ELSE UNCHANGED signVars
  /\ IF part = "choice" THEN ChoiceNext ELSE UNCHANGED choiceVars
  /\ IF part = "probe" THEN ProbeNext ELSE UNCHANGED probeVars
  /\ IF part = "thread" THEN ThreadRowNext ELSE UNCHANGED threadRowVars
  /\ IF part = "projects" THEN ProjectNext ELSE UNCHANGED projectVars
  /\ IF part = "groups" THEN GroupNext ELSE UNCHANGED groupVars
  /\ IF part = "removal" THEN RemovalNext ELSE UNCHANGED removalVars
  /\ IF part = "readers" THEN ReaderNext ELSE UNCHANGED readerVars
  /\ IF part = "share" THEN ShareNext ELSE UNCHANGED shareVars
  /\ IF part = "servers" THEN McpNext ELSE UNCHANGED mcpVars
  /\ IF part = "setup" THEN SetupNext ELSE UNCHANGED setupVars
  /\ IF part = "machines" THEN MachineNext ELSE UNCHANGED machineVars

RecordsSpec == RecordsInit /\ [][RecordsNext]_recordsVars

-----------------------------------------------------------------------------
\* What one row says of another stays true, or of the user: the local account
\* is an owner, a factor that is on was confirmed, a session is its provider's,
\* a group that is named is there (auth/, db/threads.rs, db/project_groups.rs).
RowsAgree == LocalIsOwner /\ FactorIsConfirmed /\ SessionFitsProvider /\ GroupedIsLive

\* Nothing falls between two requests: no output that counts as seen unseen, no
\* thread that is gone and that nobody cleans up after (db/threads.rs,
\* api/threads/routes.rs, api/projects.rs).
NothingIsMissed == NewOutputIsUnread /\ MarkedIsShown /\ EachIsCleanedOnce

\* A request leaves alone what it has not been asked for: owners, the command
\* of a provider, the title a user gave, the link of a share, the places of
\* older projects, a probe that is under way (api/, db/, providers/status.rs).
OthersAreRespected ==
  /\ OwnersAreLeftAlone /\ NamedCommandRuns /\ TitleIsTheUsers
  /\ LinkStaysStable /\ NewProjectComesLast /\ ProbesAreShared

\* A run gets what the owner has set, and no more: the servers that are on,
\* under their own names, the arguments of a bundle with their values, and a
\* session that acts unasked only as far as a turn was allowed to or the agent
\* has no other mode (mcp.rs, mcpb.rs, acp/session_config.rs).
RunsAsConfigured == NoTokenIsStored /\ OffStaysOff /\ ServersAreToldApart /\ AutoRunIsAsked

\* What reaches another machine is whole and meant for it: the key it is known
\* by, the login, the input and the picture (api/machines.rs, ssh.rs, vnc/).
OtherMachinesAreSafe ==
  PinBelongsToEndpoint /\ SshHasLogin /\ InputIsWholeOrNothing /\ FrameStaysInside

=============================================================================
