---------------------------- MODULE ProviderChoice ----------------------------
(***************************************************************************)
(* The provider settings of an owner: PATCH /api/auth/me (update_me), the  *)
(* columns it patches (db/users.rs) and the command they stand for         *)
(* (command_for_provider). A request goes by the row that the middleware   *)
(* has read, and writes in one statement.                                  *)
(***************************************************************************)
EXTENDS Naturals

CONSTANTS
  Provider,    \* ids of providers; the default command of one goes by its id
  Command,     \* custom commands
  First,       \* the default of the migrations: provider_id and its command
  Patcher,     \* requests in flight at a time
  MaxPatches   \* bound on requests

ASSUME ChoiceConstants ==
  /\ First \in Provider /\ Command \cap Provider = {}
  /\ (Command \cup Provider) \cap {"keep", "remove"} = {}
  /\ MaxPatches \in Nat

VARIABLES
  chosen,    \* provider_id, provider_command and provider_commands of the row
  patcher,   \* patcher[r]: the request r and the row it goes by
  patches    \* number of requests

choiceVars == <<chosen, patcher, patches>>

\* default_command
Default(p) == p

AnyCommand == Command \cup {Default(p) : p \in Provider}

\* No entry in the map, no value in a request; a removal ("" in a request,
\* null in the patch).
Keep == "keep"
Removed == "remove"

Choice == [id : Provider, command : AnyCommand,
           commands : [Provider -> AnyCommand \cup {Keep}]]

Wish == [id : Provider \cup {Keep}, command : Command \cup {Keep},
         commands : [Provider -> Command \cup {Keep, Removed}]]

Asking(wish, row, fresh) == [wish |-> wish, row |-> row, fresh |-> fresh]

NoWish == [id |-> Keep, command |-> Keep, commands |-> [p \in Provider |-> Keep]]

ChoiceTypeOK ==
  /\ chosen \in Choice
  /\ \A r \in Patcher : patcher[r].wish \in Wish /\ patcher[r].row \in Choice
  /\ patches \in 0..MaxPatches

ChoiceInit ==
  /\ chosen = [id |-> First, command |-> Default(First),
               commands |-> [p \in Provider |-> Keep]]
  /\ patcher = [r \in Patcher |-> Asking(NoWish, chosen, FALSE)]
  /\ patches = 0

-----------------------------------------------------------------------------

\* command_for_provider: the map, then the legacy column, then the default.
CommandFor(row, p) ==
  CASE row.commands[p] # Keep -> row.commands[p]
    [] row.commands[p] = Keep /\ p = row.id -> row.command
    [] OTHER -> Default(p)

\* The provider the command of a request applies to.
Effective(wish, row) == IF wish.id = Keep THEN row.id ELSE wish.id

\* What a request puts into provider_command. A new default provider comes
\* with the command that is patched for it or its own.
NewCommand(wish, row) ==
  LET p == Effective(wish, row)
  IN CASE wish.command # Keep -> wish.command
       [] wish.command = Keep /\ wish.id = Keep -> Keep
       [] OTHER -> IF wish.commands[p] \in Command THEN wish.commands[p] ELSE CommandFor(row, p)

\* The patch of the map: the entries of the request, over them the command
\* under the id it applies to, and the command of a provider that was the
\* default under its own.
Patch(wish, row) ==
  LET p == Effective(wish, row)
      command == NewCommand(wish, row)
  IN [q \in Provider |->
        CASE command # Keep /\ wish.id # Keep /\ p # row.id /\ q = row.id -> row.command
          [] command # Keep /\ q = p -> command
          [] OTHER -> wish.commands[q]]

\* update_provider_settings: COALESCE and json_patch.
Patched(row, wish, old) ==
  LET patch == Patch(wish, old)
  IN [id |-> IF wish.id = Keep THEN row.id ELSE wish.id,
      command |-> IF NewCommand(wish, old) = Keep THEN row.command ELSE NewCommand(wish, old),
      commands |-> [p \in Provider |->
                      CASE patch[p] = Keep -> row.commands[p]
                        [] patch[p] = Removed -> Keep
                        [] OTHER -> patch[p]]]

\* The middleware reads the row.
Asks(r) ==
  /\ patcher[r].wish = NoWish
  /\ patches < MaxPatches
  /\ patches' = patches + 1
  /\ \E wish \in Wish \ {NoWish} : patcher' = [patcher EXCEPT ![r] = Asking(wish, chosen, TRUE)]
  /\ UNCHANGED chosen

\* The write; the requests that have read before it go by an old row.
Writes(r) ==
  /\ patcher[r].wish # NoWish
  /\ chosen' = Patched(chosen, patcher[r].wish, patcher[r].row)
  /\ patcher' = [q \in Patcher |-> IF q = r THEN Asking(NoWish, chosen', FALSE)
                                   ELSE [patcher[q] EXCEPT !.fresh = FALSE]]
  /\ UNCHANGED patches

ChoiceNext == \E r \in Patcher : Asks(r) \/ Writes(r)

ChoiceSpec == ChoiceInit /\ [][ChoiceNext]_choiceVars

-----------------------------------------------------------------------------

\* The command that a request names is what its provider runs from then on,
\* whatever the map held and whoever has written since it read the row.
NamedCommandRuns ==
  [][\A r \in Patcher :
       chosen' # chosen /\ patcher[r].wish.command # Keep /\ patcher'[r].wish = NoWish =>
         CommandFor(chosen', Effective(patcher[r].wish, patcher[r].row))
           = patcher[r].wish.command]_choiceVars

\* A request writes that names no command of its own and goes by a row that
\* nobody has changed since.
IsDone(r) ==
  /\ patcher[r].fresh /\ ~ patcher'[r].fresh /\ patcher'[r].wish = NoWish
  /\ patcher[r].wish.command = Keep

\* "A custom binary path is not lost when the default provider changes": a
\* request that names no command leaves every provider the one it has, if
\* nobody else has written since it read the row.
SwitchKeepsCommands ==
  [][\A r \in Patcher :
       IsDone(r) /\ patcher[r].wish.commands = NoWish.commands =>
         \A p \in Provider : CommandFor(chosen', p) = CommandFor(chosen, p)]_choiceVars

\* "Explicit entries win": the command a request names for a provider is the
\* one it runs from then on.
ExplicitEntriesWin ==
  [][\A r \in Patcher, p \in Provider :
       IsDone(r) /\ patcher[r].wish.commands[p] \in Command =>
         CommandFor(chosen', p) = patcher[r].wish.commands[p]]_choiceVars
=============================================================================
