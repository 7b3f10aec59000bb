----------------------------- MODULE McpServers -----------------------------
(***************************************************************************)
(* What an entry of the owner's MCP list is, where it comes from and what  *)
(* an agent makes of it: the validation of a list (mcp.rs), the manifest   *)
(* of a bundle with its user_config and its placeholders (mcpb.rs), the    *)
(* handlers of api/settings.rs, and the servers a run hands to Devin, to   *)
(* Codex and to the ACP agents. The files of a bundle are in Bundles.      *)
(*                                                                         *)
(* A text is a sequence of pieces: a literal, or a placeholder.            *)
(***************************************************************************)
EXTENDS Naturals, Sequences, SequencesExt, FiniteSets

CONSTANTS
  Server,      \* valid names; Browser is one of them
  MaxServers,  \* MAX_MCP_SERVERS
  McpSend,     \* sends of threads, each of which starts one run
  MaxMcpEdits  \* bound on changes of the settings

Browser == "devinorium-browser"  \* BUILTIN_BROWSER_NAME

ASSUME McpConstants ==
  /\ Browser \in Server
  /\ MaxServers \in Nat \ {0} /\ MaxMcpEdits \in Nat

VARIABLES
  mcpList,    \* users.mcp_servers of the owner
  webAccess,  \* users.web_access_enabled of the owner
  bundled,    \* history: servers whose arguments are those that an installation has stored
  mcpRun,     \* mcpRun[s]: what the send s has read, and what its agent got
  mcpEdits    \* changes so far

mcpVars == <<mcpList, webAccess, bundled, mcpRun, mcpEdits>>

\* Texts: "dir", "home" and "user" are the placeholders ${__dirname}, ${HOME}
\* and ${user_config.k}, "other" is one that nobody knows; they stay verbatim
\* in a text where they are not replaced.
Literal == {"node", "python3", "uv", "run", "--project", "entry", "word"}
Placeholder == {"dir", "home", "user", "other"}
Blank == <<>>
Internal == <<"internal">>  \* BUILTIN_BROWSER_COMMAND
OwnBinary == <<"devinorium">>

\* McpServerConfig; a url is a link or none, and env is as args are.
Entry(name, enabled, transport, command, args, link) ==
  [name |-> name, enabled |-> enabled, transport |-> transport,
   command |-> command, args |-> args, link |-> link]

BuiltinBrowser == Entry(Browser, TRUE, "stdio", Internal, <<>>, FALSE)

NoEntry == Entry("none", FALSE, "none", Blank, <<>>, FALSE)

NoRun == [at |-> "none", owner |-> TRUE, web |-> FALSE, list |-> <<>>, off |-> {}, got |-> {}]

NamesOf(list) == {list[i].name : i \in DOMAIN list}
Find(list, name) ==
  IF name \in NamesOf(list) THEN list[CHOOSE i \in DOMAIN list : list[i].name = name] ELSE NoEntry

McpTypeOK ==
  /\ Len(mcpList) <= MaxServers /\ NamesOf(mcpList) \subseteq Server
  /\ webAccess \in BOOLEAN /\ bundled \subseteq Server
  /\ \A s \in McpSend :
       /\ mcpRun[s].at \in {"none", "asked", "read", "runs"}
       /\ NamesOf(mcpRun[s].list) \cup mcpRun[s].off \subseteq Server
  /\ mcpEdits \in 0 .. MaxMcpEdits

McpInit ==
  /\ mcpList \in {<<>>} \cup {<<Entry(n, TRUE, "stdio", <<"word">>, <<>>, FALSE)>> :
                                 n \in Server \ {Browser}}
  /\ webAccess = FALSE /\ bundled = {}
  /\ mcpRun = [s \in McpSend |-> NoRun]
  /\ mcpEdits = 0

-----------------------------------------------------------------------------
(* mcp.rs: the validation of a list *)

ValidName(name) == name \in Server

\* validate_server; a url counts only without stdio, a command only with it.
ValidServer(e) ==
  /\ ValidName(e.name)
  /\ \/ e.transport = "stdio" /\ e.command # Blank
     \/ e.transport \in {"http", "sse"} /\ e.link

\* validate_servers
ValidServers(list) ==
  /\ Len(list) <= MaxServers
  /\ \A i \in DOMAIN list : ValidServer(list[i])
  /\ \A i, j \in DOMAIN list : list[i].name = list[j].name => i = j

-----------------------------------------------------------------------------
(* mcpb.rs: the manifest *)

\* A value of the one user_config field: unset, one, or a list of them. An
\* item fits, is below the minimum (of a number), of another type, or null.
Unset == [many |-> FALSE, items |-> <<>>]
One(v) == [many |-> FALSE, items |-> <<v>>]
Some(vs) == [many |-> TRUE, items |-> vs]

\* check_user_config_value
ValueFits(field, value) ==
  /\ value.many => field.multiple
  /\ \A i \in DOMAIN value.items :
       value.items[i] \in {"fits"} \cup IF field.kind = "number" THEN {} ELSE {"low"}

\* resolve_user_config: the value that is sent, or the default.
ChosenValue(field, value) == IF value = Unset THEN field.default ELSE value
ConfigResolves(field, value) ==
  IF ChosenValue(field, value) = Unset THEN ~ field.required ELSE ValueFits(field, ChosenValue(field, value))

\* validate_manifest
ValidManifest(m) ==
  /\ ValidName(m.name)
  /\ m.type \in {"node", "python", "binary", "uv"}
  /\ m.entry # "escapes"
  /\ m.command # Blank \/ m.entry # "none"

\* synthesized_config
Synthesized(m) ==
  LET entry == <<"dir", "entry">>
  IN CASE m.type = "node" -> [command |-> <<"node">>, args |-> <<entry>>]
       [] m.type = "python" -> [command |-> <<"python3">>, args |-> <<entry>>]
       [] m.type = "binary" -> [command |-> entry, args |-> <<>>]
       [] m.type = "uv" -> [command |-> <<"uv">>,
                            args |-> << <<"run">>, <<"--project">>, <<"dir">>, entry >>]

\* What an override of the platform does not mention.
NotGiven == <<"not_given">>
NoOverride == [command |-> NotGiven, args |-> <<NotGiven>>]

\* effective_config: what is not given is synthesized, then the platform's
\* override, if it has one, goes over it.
EffectiveConfig(m) ==
  LET base == [command |-> IF m.command = Blank THEN Synthesized(m).command ELSE m.command,
               args |-> IF m.command = Blank /\ m.args = <<>> THEN Synthesized(m).args ELSE m.args]
  IN [command |-> IF m.override.command = NotGiven THEN base.command ELSE m.override.command,
      args |-> IF m.override.args = <<NotGiven>> THEN base.args ELSE m.override.args]

\* config_value_string and config_value_items: in a text a list is joined, as
\* an argument of its own it is one argument per item.
ValueText(value) == value.items
ValueArgs(value) == [i \in DOMAIN value.items |-> <<value.items[i]>>]

\* substitute: placeholders without a value pass through.
Substitute(text, value) ==
  FlattenSeq([i \in DOMAIN text |->
    CASE text[i] = "dir" -> <<"DIR">>
      [] text[i] = "home" -> <<"HOME">>
      [] text[i] = "user" /\ value # Unset -> ValueText(value)
      [] OTHER -> <<text[i]>>])

WholeRef(text) == text = <<"user">>  \* whole_user_config_ref

\* Mutant of ResolvedArgs: every argument is substituted in place.
PlainArgs(args, value) == [i \in DOMAIN args |-> Substitute(args[i], value)]

\* The arguments of install_bundle: an argument that is nothing but the
\* placeholder of an unset value goes.
ResolvedArgs(args, value) ==
  FlattenSeq([i \in DOMAIN args |->
    CASE WholeRef(args[i]) /\ value = Unset -> <<>>
      [] WholeRef(args[i]) /\ value # Unset -> ValueArgs(value)
      [] OTHER -> <<Substitute(args[i], value)>>])

\* install_bundle: the entry of a bundle, or none.
Resolved(m, value) ==
  LET config == EffectiveConfig(m)
      chosen == ChosenValue(m.field, value)
      entry == Entry(m.name, TRUE, "stdio", Substitute(config.command, chosen),
                     ResolvedArgs(config.args, chosen), FALSE)
  IN IF ValidManifest(m) /\ m.platform /\ ConfigResolves(m.field, value)
        /\ m.entry # "missing" /\ ValidServer(entry)
     THEN entry ELSE NoEntry

-----------------------------------------------------------------------------
(* The requests *)

Names == Server \cup {"-bad"}

\* What a client may put on the list: a server of each transport, on or off,
\* whole or with something missing, with arguments that nobody looks into.
Offered ==
  [name : Names, enabled : BOOLEAN, transport : {"stdio"}, command : {<<"word">>}, args : {<<>>},
   link : {FALSE}]
    \cup [name : {Browser}, enabled : {TRUE}, transport : {"sse", "odd"}, command : {Blank},
          args : {<<>>}, link : BOOLEAN]
    \cup {Entry(Browser, TRUE, "stdio", c, <<>>, FALSE) : c \in {Blank, Internal}}
    \cup {Entry(Browser, TRUE, "stdio", <<"word">>, << <<"user">> >>, FALSE)}

Fields == [kind : {"string", "number"}, required : BOOLEAN, multiple : BOOLEAN,
           default : {Unset, One("fits"), One("low")}]

Values == {Unset, One("fits"), One("low"), One("wrong"), One("null"),
           Some(<<>>), Some(<<"fits", "fits">>), Some(<<"fits", "null">>)}

Manifests ==
  [name : {Browser, "-bad"}, type : {"node", "binary", "uv", "odd"}, entry : {"none", "there"},
   command : {Blank, <<"user">>}, args : {<<>>, << <<"word", "user">> >>},
   override : {NoOverride}, platform : {TRUE},
   field : {[kind |-> "string", required |-> FALSE, multiple |-> TRUE, default |-> Unset]}]
  \cup [name : {Browser}, type : {"python"}, entry : {"there", "escapes", "missing"},
        command : {<<"dir", "word">>}, args : {<< <<"user">>, <<"home", "other">> >>},
        override : {NoOverride, [command |-> Blank, args |-> <<NotGiven>>],
                    [command |-> <<"word">>, args |-> << <<"user">> >>]},
        platform : BOOLEAN, field : Fields]

\* What installations come to.
BundleEntries == {Resolved(m, v) : m \in Manifests, v \in Values} \ {NoEntry}

\* The runs to come of the names that the owner switches on: those that were
\* off when the request came have not been off since.
SwitchesOn(names) ==
  mcpRun' = [s \in McpSend |->
    [mcpRun[s] EXCEPT !.off = IF mcpRun[s].at = "runs" THEN @ ELSE @ \ names]]

CountMcpEdit == mcpEdits < MaxMcpEdits /\ mcpEdits' = mcpEdits + 1

\* set_mcp_servers: the whole list, if it is valid. (Of an invalid one the
\* state keeps nothing.)
SetMcpServers ==
  /\ CountMcpEdit
  /\ \E list \in {<<>>} \cup {<<e>> : e \in Offered} \cup {Append(mcpList, e) : e \in Offered}
                 \cup {<<[mcpList[i] EXCEPT !.enabled = ~ @]>> : i \in DOMAIN mcpList} :
       /\ mcpList' = IF ValidServers(list) THEN list ELSE mcpList
       /\ bundled' = {n \in bundled \cap NamesOf(mcpList') :
                       Find(mcpList', n).args = Find(mcpList, n).args}
       /\ SwitchesOn({n \in Server : Find(mcpList', n).enabled})
  /\ UNCHANGED webAccess

\* retain: the list without the servers of a name.
Without(list, name) ==
  FlattenSeq([i \in DOMAIN list |-> IF list[i].name = name THEN <<>> ELSE <<list[i]>>])

\* Mutant of Merge: a reinstallation switches the server on.
MergeOn(list, entry) == Append(Without(list, entry.name), entry)

\* install_mcpb: the entry of the bundle takes the place of the one under its
\* name, and its switch.
Merge(list, entry) ==
  LET old == Find(list, entry.name)
      new == IF old = NoEntry THEN entry ELSE [entry EXCEPT !.enabled = old.enabled]
  IN Append(Without(list, entry.name), new)

InstallMcpb ==
  /\ CountMcpEdit
  /\ \E entry \in BundleEntries :
       /\ IF ValidServers(Merge(mcpList, entry))
          THEN mcpList' = Merge(mcpList, entry) /\ bundled' = bundled \cup {entry.name}
          ELSE UNCHANGED <<mcpList, bundled>>
       /\ SwitchesOn({entry.name} \ NamesOf(mcpList))
  /\ UNCHANGED webAccess

\* set_web_access
SetWebAccess ==
  /\ CountMcpEdit
  /\ webAccess' \in BOOLEAN \ {webAccess}
  /\ SwitchesOn(IF webAccess' THEN {Browser} ELSE {})
  /\ UNCHANGED <<mcpList, bundled>>

-----------------------------------------------------------------------------
(* A run *)

\* The middleware reads the user, with the switch of the browser.
SendIsAsked(s) ==
  /\ mcpRun[s].at = "none"
  /\ \E owner \in BOOLEAN :
       mcpRun' = [mcpRun EXCEPT ![s] =
         [NoRun EXCEPT !.at = "asked", !.owner = owner, !.web = webAccess,
            !.off = {n \in Server : ~ Find(mcpList, n).enabled
                                    /\ (n = Browser => ~ webAccess)}]]
  /\ UNCHANGED <<mcpList, webAccess, bundled, mcpEdits>>

\* Mutant of WithBrowser: the switched-off server of the name stays.
WithBrowserBeside(list, web) ==
  IF ~ web \/ Find(list, Browser).enabled THEN list ELSE Append(list, BuiltinBrowser)

\* inject_builtin_browser
WithBrowser(list, web) ==
  IF ~ web \/ Find(list, Browser).enabled THEN list
  ELSE Append(Without(list, Browser), BuiltinBrowser)

\* The list of the run, once the send is prepared; it is empty when it cannot
\* be read.
SendReadsServers(s) ==
  /\ mcpRun[s].at = "asked"
  /\ \E list \in IF mcpRun[s].owner THEN {mcpList, <<>>} ELSE {<<>>} :
       mcpRun' = [mcpRun EXCEPT ![s].at = "read",
                    ![s].list = WithBrowser(list, mcpRun[s].owner /\ mcpRun[s].web)]
  /\ UNCHANGED <<mcpList, webAccess, bundled, mcpEdits>>

\* resolved_stdio
ResolvedStdio(e) == IF e.command = Internal THEN OwnBinary ELSE e.command

\* What an agent knows of a server: its name, whether it is on, and how to
\* reach it. Entries of the user's own files are not looked into.
KnownNames(e) == [name |-> e.name, on |-> e.enabled,
             by |-> IF e.transport = "stdio" THEN ResolvedStdio(e) ELSE <<e.transport>>]
OwnKnown(name) == [name |-> name, on |-> TRUE, by |-> <<"own">>]

\* to_acp: what is on, over the transports the agent has.
ToAcp(list, caps) ==
  {KnownNames(e) : e \in {x \in ToSet(list) : x.enabled /\ x.transport \in caps \cup {"stdio"}}}

\* to_devin_entry and to_codex_entry, folded into the user's own file by
\* merged_mcp_config and merge_mcp_servers: all that can be expressed, off or
\* on, over the entries of the same name.
Folded(entries, own) ==
  {KnownNames(e) : e \in entries} \cup {OwnKnown(n) : n \in own \ {e.name : e \in entries}}
ToDevin(list, own) == Folded(ToSet(list), own)
ToCodex(list, own) == Folded({e \in ToSet(list) : e.transport # "sse"}, own)

\* The agent starts. A file that cannot be merged stays as it is.
AgentGetsServers(s) ==
  /\ mcpRun[s].at = "read"
  /\ \E own \in {{}, {Browser}}, merges \in BOOLEAN, caps \in SUBSET {"http", "sse"} :
       \E got \in {ToAcp(mcpRun[s].list, caps)} \cup
                  (IF merges THEN {ToDevin(mcpRun[s].list, own), ToCodex(mcpRun[s].list, own)}
                   ELSE {{OwnKnown(n) : n \in own}}) :
         mcpRun' = [mcpRun EXCEPT ![s].at = "runs", ![s].got = got]
  /\ UNCHANGED <<mcpList, webAccess, bundled, mcpEdits>>

RunIsForgotten(s) ==
  /\ mcpRun[s].at = "runs"
  /\ mcpRun' = [mcpRun EXCEPT ![s] = NoRun]
  /\ UNCHANGED <<mcpList, webAccess, bundled, mcpEdits>>

McpNext ==
  \/ SetMcpServers \/ InstallMcpb \/ SetWebAccess
  \/ \E s \in McpSend : SendIsAsked(s) \/ SendReadsServers(s) \/ AgentGetsServers(s)
                        \/ RunIsForgotten(s)

McpSpec == McpInit /\ [][McpNext]_mcpVars

-----------------------------------------------------------------------------
\* "An unset optional value drops the arg rather than passing the token
\* verbatim" (mcpb.rs:790-792), also after an override of the platform, and
\* whatever is put on the list or installed in between: the server of a bundle
\* has no argument that is nothing but a placeholder of the configuration, until
\* a client puts other arguments in its place, into which nobody looks. (A
\* command, and a placeholder within a longer argument, stay verbatim.)
NoTokenIsStored ==
  \A i \in DOMAIN mcpList : mcpList[i].name \in bundled =>
    \A j \in DOMAIN mcpList[i].args : ~ WholeRef(mcpList[i].args[j])

\* "Disabled servers are kept in the list but never handed to agents"
\* (mcp.rs:33): what was off when a send came, and was not switched on before
\* its agent started, is not on in the agent, whatever was saved, installed
\* again or shadowed since; the user's own files are another matter.
OffStaysOff ==
  \A s \in McpSend : \A e \in mcpRun[s].got :
    e.on /\ e.by # <<"own">> => e.name \notin mcpRun[s].off

\* No two servers reach an agent under one name, and the marker of the builtin
\* browser never does.
ServersAreToldApart ==
  \A s \in McpSend : \A e, f \in mcpRun[s].got :
    /\ e.name = f.name => e = f
    /\ e.by # Internal

=============================================================================
