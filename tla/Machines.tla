------------------------------ MODULE Machines ------------------------------
(***************************************************************************)
(* The machines that the owner lets agents drive over SSH and VNC: their   *)
(* rows (api/machines.rs, db/machines.rs), the grants of a send            *)
(* (threads/machine_refs.rs, machine_grants.rs), the calls of an agent     *)
(* with the token of such a grant (api/machine_control.rs), and what a     *)
(* call does over the wire (ssh.rs, vnc/mod.rs, vnc/keysym.rs).            *)
(*                                                                         *)
(* The server at an endpoint may change: a connection meets any host key.  *)
(***************************************************************************)
EXTENDS Naturals, Sequences, SequencesExt, FiniteSets

CONSTANTS
  Machine,          \* ids, which are not used again (AUTOINCREMENT)
  Token,            \* control tokens, minted once each
  Control,          \* requests to probe or to control a machine
  Owning,           \* requests of the owner to change a machine
  MaxMachineEdits,  \* bound on creations, changes and deletions
  MaxControls       \* bound on probes and control calls

ASSUME MachineConstants == MaxMachineEdits \in Nat /\ MaxControls \in Nat

VARIABLES
  mrow,      \* the table machines
  grant,     \* MachineGrants: the machines of each token
  ctl,       \* ctl[c]: the request c
  owning,    \* owning[e]: the change e, between its read and its write
  medits,    \* changes so far
  controls   \* probes and control calls so far

machineVars == <<mrow, grant, ctl, owning, medits, controls>>

Host == {"h1", "h2"}
HostKey == {"k1", "k2"}
NoPort == 0
MaxPort == 65535
BadPort == MaxPort + 1
VncPort == 5900  \* DEFAULT_VNC_PORT
SshPort == 22    \* DEFAULT_SSH_PORT
Secret == {"password", "key"}

\* History: "at" is where the pin was seen, or "owner"; "astray" says that a
\* request wrote or kept it that had read another row, "raced" that the last
\* change was made over one that it had not read.
NoPin == [host |-> "none", port |-> NoPort]
ByOwner == [host |-> "owner", port |-> NoPort]
Endpoint(r) == [host |-> r.host, port |-> r.port]

NoMachine == [live |-> FALSE, kind |-> "vnc", host |-> "h1", port |-> VncPort, user |-> "",
         pin |-> "", at |-> NoPin, secrets |-> {}, astray |-> FALSE, raced |-> FALSE]

Resting == [step |-> "none", op |-> "none", id |-> CHOOSE m \in Machine : TRUE, row |-> NoMachine,
            input |-> "none", seen |-> "", sent |-> 0, held |-> {}, pixels |-> {},
            answer |-> "none"]

KeepAll == [kind |-> "keep", host |-> "keep", port |-> NoPort, user |-> "keep", pin |-> "keep",
            secrets |-> "keep"]
NotOwning == [id |-> CHOOSE m \in Machine : TRUE, patch |-> KeepAll, existing |-> NoMachine]

MachineTypeOK ==
  /\ \A m \in Machine :
       /\ mrow[m].kind \in {"vnc", "ssh"} /\ mrow[m].host \in Host
       /\ mrow[m].port \in 1 .. MaxPort /\ mrow[m].user \in {"", "u"}
       /\ mrow[m].pin \in HostKey \cup {""} /\ mrow[m].secrets \subseteq Secret
  /\ DOMAIN grant \subseteq Token /\ \A t \in DOMAIN grant : grant[t] \subseteq Machine
  /\ \A c \in Control :
       ctl[c].step \in {"none", "allowed", "loaded", "connected", "pinned", "answered"}
  /\ medits \in 0 .. MaxMachineEdits /\ controls \in 0 .. MaxControls

MachineInit ==
  /\ mrow = [m \in Machine |->
       IF m = CHOOSE n \in Machine : TRUE
       THEN [NoMachine EXCEPT !.live = TRUE, !.kind = "ssh", !.port = SshPort, !.user = "u",
                         !.secrets = {"password"}]
       ELSE NoMachine]
  /\ grant = <<>>
  /\ ctl = [c \in Control |-> Resting]
  /\ owning = [e \in Owning |-> NotOwning]
  /\ medits = 0 /\ controls = 0

-----------------------------------------------------------------------------
(* api/machines.rs: what the owner sends *)

\* A pasted host: a name, maybe with a port and a login. (clean_host splits
\* them off; schemes, paths and a password of the login go.)
Url(host, port, user) == [host |-> host, port |-> port, user |-> user]

ValidPort(p) == p \in 1 .. MaxPort
ValidUrl(url) == url.host \in Host /\ (url.port = NoPort \/ ValidPort(url.port))
DefaultPort(kind) == IF kind = "ssh" THEN SshPort ELSE VncPort
FirstGiven(p, q) == IF p = NoPort THEN q ELSE p

\* The login that counts, and whether it is a valid one.
UserField(kind, url, user) == IF kind = "ssh" /\ url.user # "keep" THEN url.user ELSE user
ValidUser(user) == user \in {"keep", "", "u"}

\* ssh_fields_set, against the kind.
SshFieldsFit(kind, req) ==
  kind # "ssh" => req.user \in {"keep", ""} /\ req.pin \in {"keep", ""} /\ req.secrets # "key"

\* clean_password and clean_ssh_key: what is present replaces, also by nothing.
SecretsAfter(secrets, req) ==
  CASE req.secrets = "keep" -> secrets
    [] req.secrets = "none" -> {}
    [] OTHER -> secrets \cup {req.secrets}

NoUrl == Url("keep", NoPort, "keep")
MachineRequests ==
  [kind : {"keep", "vnc", "ssh"}, url : {NoUrl, Url("h1", NoPort, "keep")}, port : {NoPort},
   user : {"keep", "", "u"}, pin : {"keep"}, secrets : {"keep"}]
  \cup [kind : {"keep"}, url : {NoUrl, Url("h2", SshPort, "u")}, port : {NoPort, VncPort + 1},
        user : {"keep"}, pin : {"keep", "", "k2"}, secrets : {"keep"}]
  \cup [kind : {"keep", "ssh"}, url : {Url("h1", NoPort, "keep"), Url("h1", BadPort, "keep")},
        port : {NoPort, BadPort}, user : {"u", "bad"}, pin : {"keep", "bad"},
        secrets : {"key", "none", "bad"}]

\* create
ValidCreate(req) ==
  LET kind == IF req.kind = "keep" THEN "vnc" ELSE req.kind
      user == UserField(kind, req.url, req.user)
  IN /\ ValidUrl(req.url)
     /\ ValidPort(FirstGiven(FirstGiven(req.url.port, req.port), DefaultPort(kind)))
     /\ SshFieldsFit(kind, [req EXCEPT !.pin = "keep"])
     /\ ValidUser(user) /\ (kind = "ssh" => user \notin {"keep", ""})
     /\ req.secrets # "bad"

Created(req) ==
  LET kind == IF req.kind = "keep" THEN "vnc" ELSE req.kind
      user == UserField(kind, req.url, req.user)
  IN [NoMachine EXCEPT !.live = TRUE, !.kind = kind, !.host = req.url.host,
        !.port = FirstGiven(FirstGiven(req.url.port, req.port), DefaultPort(kind)),
        !.user = IF user = "keep" THEN "" ELSE user, !.secrets = SecretsAfter({}, req)]

\* The port of a change: the one in the url, the one sent, or, when the kind
\* changes and the port was the default of the old one, the new default.
PatchPort(req, old) ==
  LET sent == FirstGiven(req.url.port, req.port)
      flips == req.kind \notin {"keep", old.kind}
  IN IF sent = NoPort /\ flips /\ old.port = DefaultPort(old.kind)
     THEN DefaultPort(req.kind) ELSE sent

\* Mutant of Moved: only another host is another endpoint.
MovedHost(req, old) == req.url.host \notin {"keep", old.host}

Moved(req, old) ==
  \/ req.url.host \notin {"keep", old.host}
  \/ PatchPort(req, old) \notin {NoPort, old.port}

\* update, up to the write: the row it has read, and what it will write.
MergedKind(req, old) == IF req.kind = "keep" THEN old.kind ELSE req.kind

ValidUpdate(req, old) ==
  LET kind == MergedKind(req, old)
      user == UserField(kind, req.url, req.user)
  IN /\ req.url.host = "keep" \/ ValidUrl(req.url)
     /\ FirstGiven(req.url.port, req.port) # BadPort
     /\ SshFieldsFit(kind, req)
     /\ ValidUser(user) /\ (kind = "ssh" => (IF user = "keep" THEN old.user ELSE user) # "")
     /\ req.secrets # "bad" /\ req.pin # "bad"

PatchOf(req, old) ==
  [kind |-> req.kind, host |-> req.url.host, port |-> PatchPort(req, old),
   user |-> UserField(MergedKind(req, old), req.url, req.user),
   pin |-> IF req.pin = "keep" /\ Moved(req, old) THEN "" ELSE req.pin,
   secrets |-> req.secrets]

-----------------------------------------------------------------------------
(* The rows *)

Coalesce(new, old) == IF new = "keep" THEN old ELSE new

\* update_machine, over the row that its request has read or over another one.
PatchedRow(r, p, over) ==
  [live |-> r.live, kind |-> Coalesce(p.kind, r.kind), host |-> Coalesce(p.host, r.host),
   port |-> FirstGiven(p.port, r.port), user |-> Coalesce(p.user, r.user),
   pin |-> Coalesce(p.pin, r.pin),
   at |-> IF p.pin = "keep" THEN r.at ELSE IF p.pin = "" THEN NoPin ELSE ByOwner,
   secrets |-> SecretsAfter(r.secrets, p),
   astray |-> p.pin = "keep" /\ (r.astray \/ over), raced |-> over]

CountEdit == medits < MaxMachineEdits /\ medits' = medits + 1

CreateMachine ==
  /\ CountEdit
  /\ \E m \in Machine, req \in MachineRequests :
       /\ mrow[m] = NoMachine /\ ValidCreate(req)
       /\ mrow' = [mrow EXCEPT ![m] = Created(req)]
  /\ UNCHANGED <<grant, ctl, owning, controls>>

\* A change that is refused writes nothing.
UpdateReads(e) ==
  /\ CountEdit /\ owning[e] = NotOwning
  /\ \E m \in Machine, req \in MachineRequests :
       /\ mrow[m].live /\ ValidUpdate(req, mrow[m])
       /\ owning' = [owning EXCEPT ![e] =
            [id |-> m, patch |-> PatchOf(req, mrow[m]), existing |-> mrow[m]]]
  /\ UNCHANGED <<mrow, grant, ctl, controls>>

UpdateWrites(e) ==
  LET o == owning[e]
      r == mrow[o.id]
  IN /\ o # NotOwning
     /\ mrow' = IF r.live
                THEN [mrow EXCEPT ![o.id] = PatchedRow(r, o.patch, o.existing # r)]
                ELSE mrow
     /\ owning' = [owning EXCEPT ![e] = NotOwning]
     /\ UNCHANGED <<grant, ctl, medits, controls>>

DeleteMachine ==
  /\ CountEdit
  /\ \E m \in Machine :
       /\ mrow[m].live
       /\ mrow' = [mrow EXCEPT ![m] = [NoMachine EXCEPT !.raced = TRUE]]
  /\ UNCHANGED <<grant, ctl, owning, controls>>

-----------------------------------------------------------------------------
(* Grants *)

\* A send of the owner's names machines, those that are gone are left out, and
\* its run mints a token for the others (MachineGrants::create).
SendReferences(t) ==
  /\ t \notin DOMAIN grant
  /\ \E ids \in SUBSET Machine :
       LET refs == {m \in ids : mrow[m].live}
       IN refs # {} /\ grant' = [u \in DOMAIN grant \cup {t} |-> IF u = t THEN refs ELSE grant[u]]
  /\ UNCHANGED <<mrow, ctl, owning, medits, controls>>

\* A restart: the tokens and the requests under way are gone.
Restart ==
  /\ grant # <<>>
  /\ grant' = <<>>
  /\ ctl' = [c \in Control |-> Resting]
  /\ owning' = [e \in Owning |-> NotOwning]
  /\ UNCHANGED <<mrow, medits, controls>>

-----------------------------------------------------------------------------
(* A call: from the request to the row *)

Answers(c, answer) == ctl' = [ctl EXCEPT ![c].step = "answered", ![c].answer = answer]

\* Inputs: "off" is a pointer beyond the screen, "bad" one that validate_input
\* refuses; the others are chords and texts, see Events.
Inputs == {"move", "click", "scroll", "off", "bad", "ctrl+A", "shift", "text"}

\* authorize, and the checks before the row is read.
Refusal(t, m, op, input) ==
  IF t \notin DOMAIN grant THEN "401"
  ELSE IF m \notin grant[t] THEN "403"
  ELSE IF op = "input" /\ input = "bad" THEN "400" ELSE "none"

Request(m, op, input, answer) ==
  [Resting EXCEPT !.step = IF answer = "none" THEN "allowed" ELSE "answered", !.op = op,
                  !.id = m, !.input = input, !.answer = answer]

\* A probe (test_connection) is the owner's, and asks for no token.
CallIsMade(c) ==
  /\ ctl[c].step = "none"
  /\ controls < MaxControls /\ controls' = controls + 1
  /\ \E m \in Machine :
       \/ ctl' = [ctl EXCEPT ![c] = Request(m, "test", "none", "none")]
       \/ \E t \in Token :
            \/ \E op \in {"screenshot", "exec"} :
                 ctl' = [ctl EXCEPT ![c] = Request(m, op, "none", Refusal(t, m, op, "none"))]
            \/ \E input \in Inputs :
                 ctl' = [ctl EXCEPT ![c] = Request(m, "input", input, Refusal(t, m, "input", input))]
  /\ UNCHANGED <<mrow, grant, owning, medits>>

\* load_machine; a probe takes either kind.
CallLoads(c) ==
  /\ ctl[c].step = "allowed"
  /\ LET r == mrow[ctl[c].id]
         kind == IF ctl[c].op = "exec" THEN "ssh" ELSE "vnc"
     IN IF ~ r.live THEN Answers(c, "404")
        ELSE IF ctl[c].op # "test" /\ r.kind # kind THEN Answers(c, "400")
        ELSE ctl' = [ctl EXCEPT ![c].step = "loaded", ![c].row = r]
  /\ UNCHANGED <<mrow, grant, owning, medits, controls>>

-----------------------------------------------------------------------------
(* SSH *)

\* SshSession::connect: the key of the host is checked before anything is
\* sent; then the key is tried, if it decodes, then the password.
SshConnects(c) ==
  /\ ctl[c].step = "loaded" /\ ctl[c].row.kind = "ssh"
  /\ \/ Answers(c, "502")                                   \* not reached, or not in time
     \/ \E k \in HostKey :
          IF ctl[c].row.pin \notin {"", k} THEN Answers(c, "502")
          ELSE \/ Answers(c, "502")                         \* not let in
               \/ /\ ctl[c].row.secrets # {}
                  /\ ctl' = [ctl EXCEPT ![c].step = "connected", ![c].seen = k]
  /\ UNCHANGED <<mrow, grant, owning, medits, controls>>

\* pin_machine_fingerprint: only into an empty slot.
Pins(r, c) ==
  IF r.pin # "" THEN r
  ELSE [r EXCEPT !.pin = ctl[c].seen, !.at = Endpoint(ctl[c].row),
                 !.astray = Endpoint(r) # Endpoint(ctl[c].row)]

SshPins(c) ==
  /\ ctl[c].step = "connected" /\ ctl[c].row.kind = "ssh"
  /\ ctl' = [ctl EXCEPT ![c].step = "pinned"]
  /\ mrow' = IF ctl[c].row.pin = "" /\ mrow[ctl[c].id].live
             THEN [mrow EXCEPT ![ctl[c].id] = Pins(@, c)] ELSE mrow
  /\ UNCHANGED <<grant, owning, medits, controls>>

\* SshSession::exec: a channel that closes is a result, with whatever status or
\* signal it had, also with none; a request that is rejected is an error.
ExecAnswers == {"200", "502", "504"}

SshExecs(c) ==
  /\ ctl[c].step = "pinned"
  /\ \E answer \in ExecAnswers : Answers(c, answer)
  /\ UNCHANGED <<mrow, grant, owning, medits, controls>>

-----------------------------------------------------------------------------
(* VNC: a screen of 2 by 2 *)

Width == 2
Height == 2

\* VncClient::connect: the security type of those that are offered.
SecurityType(secrets, types) ==
  IF "password" \in secrets /\ "vnc" \in types THEN "vnc"
  ELSE IF "none" \in types THEN "none" ELSE "refused"

VncConnects(c) ==
  /\ ctl[c].step = "loaded" /\ ctl[c].row.kind = "vnc"
  /\ \E types \in SUBSET {"vnc", "none"}, lets \in BOOLEAN :
       IF ~ lets \/ SecurityType(ctl[c].row.secrets, types) = "refused" THEN Answers(c, "502")
       ELSE IF ctl[c].op = "test" THEN Answers(c, "200")
       ELSE ctl' = [ctl EXCEPT ![c].step = "connected"]
  /\ UNCHANGED <<mrow, grant, owning, medits, controls>>

Down(k) == <<"down", k>>
Up(k) == <<"up", k>>

\* press_chord: the modifiers, the key, and the modifiers in reverse.
Chord(mods, key) ==
  [i \in DOMAIN mods |-> Down(mods[i])] \o <<Down(key), Up(key)>>
    \o Reverse([i \in DOMAIN mods |-> Up(mods[i])])

\* key_chord: a character that needs shift adds it to the modifiers, unless it
\* is among them.
WithShift(mods, needs) ==
  IF needs /\ "shift" \notin ToSet(mods) THEN Append(mods, "shift") ELSE mods

\* type_text: "a", "B" and one that has no key, which is skipped.
Typed(ch) ==
  CASE ch = "a" -> Chord(<<>>, "a")
    [] ch = "B" -> Chord(<<"shift">>, "b")
    [] OTHER -> <<>>

\* run_input: what goes over the wire.
Click(button) == <<Up("button"), Down(button), Up(button)>>
Events(input) ==
  CASE input = "move" -> <<Up("button")>>
    [] input = "click" -> Click("left")
    [] input = "scroll" -> Click("wheel") \o Tail(Click("wheel"))
    [] input = "ctrl+A" -> Chord(WithShift(<<"ctrl">>, TRUE), "a")
    [] input = "shift" -> Chord(WithShift(<<>>, FALSE), "shift")
    [] input = "text" -> Typed("a") \o Typed("B") \o Typed("odd")

\* What is down at the machine after the events.
Held(events) ==
  {k \in {events[i][2] : i \in DOMAIN events} :
     \E i \in DOMAIN events :
       events[i] = Down(k) /\ \A j \in i + 1 .. Len(events) : events[j] # Up(k)}

\* Mutant of OffScreen: the width and the height are on the screen.
OnTheEdge(x, y) == x > Width \/ y > Height

OffScreen(x, y) == x >= Width \/ y >= Height  \* coord

\* The pointer of an input: "off" is one off the edge or beyond it.
Pointers(input) ==
  IF input = "off" THEN {p \in (0 .. 3) \X (0 .. 3) : p[1] >= 2 \/ p[2] >= 2} ELSE {<<1, 0>>}

VncInputs(c) ==
  /\ ctl[c].step = "connected" /\ ctl[c].op = "input"
  /\ \E p \in Pointers(ctl[c].input) :
       IF ctl[c].input \in {"off", "move", "click", "scroll"} /\ OffScreen(p[1], p[2])
       THEN Answers(c, "400")
       ELSE LET events == Events(IF ctl[c].input = "off" THEN "click" ELSE ctl[c].input)
            IN \E n \in 0 .. Len(events) : \E answer \in {"200", "502", "504"} :
                 /\ (answer = "200") <=> (n = Len(events))
                 /\ ctl' = [ctl EXCEPT ![c].step = "answered", ![c].answer = answer,
                              ![c].sent = n, ![c].held = Held(SubSeq(events, 1, n))]
  /\ UNCHANGED <<mrow, grant, owning, medits, controls>>

\* What a server may send before and in an update; a rectangle is <<x, y, w, h>>.
Messages == {"bell", "colours", "cut_text", "long_text", "odd"}
Rects == {<<0, 0, 2, 2>>, <<1, 1, 1, 1>>, <<1, 0, 2, 1>>, <<0, 1, 1, 2>>}

\* Mutant of RectFits: only its corner is looked at.
CornerFits(r) == r[1] < Width /\ r[2] < Height

RectFits(r) == r[1] + r[3] <= Width /\ r[2] + r[4] <= Height

Area(r) == r[3] * r[4]

\* The places of the canvas that read_update writes for a rectangle.
Places(r) == {(r[2] + j) * Width + r[1] + i : i \in 0 .. r[3] - 1, j \in 0 .. r[4] - 1}

\* screenshot: the messages before the update are skipped, each by its size; a
\* rectangle counts if it fits, and all together if they are no more than one
\* screen.
VncShoots(c) ==
  /\ ctl[c].step = "connected" /\ ctl[c].op = "screenshot"
  /\ \/ \E msg \in Messages : msg \in {"long_text", "odd"} /\ Answers(c, "502")
     \/ Answers(c, "504")
     \/ \E rects \in SeqOf(Rects, 2) :
          LET reads == {i \in DOMAIN rects :
                \A j \in 1 .. i : RectFits(rects[j])
                                  /\ (j = 2 => Area(rects[1]) + Area(rects[2]) <= Width * Height)}
          IN ctl' = [ctl EXCEPT ![c].step = "answered",
                       ![c].answer = IF reads = DOMAIN rects THEN "200" ELSE "502",
                       ![c].pixels = UNION {Places(rects[i]) : i \in reads}]
  /\ UNCHANGED <<mrow, grant, owning, medits, controls>>

CallIsForgotten(c) ==
  /\ ctl[c].step = "answered"
  /\ ctl' = [ctl EXCEPT ![c] = Resting]
  /\ UNCHANGED <<mrow, grant, owning, medits, controls>>

MachineNext ==
  \/ CreateMachine \/ DeleteMachine \/ Restart
  \/ \E e \in Owning : UpdateReads(e) \/ UpdateWrites(e)
  \/ \E t \in Token : SendReferences(t)
  \/ \E c \in Control :
       \/ CallIsMade(c) \/ CallLoads(c) \/ CallIsForgotten(c)
       \/ SshConnects(c) \/ SshPins(c) \/ SshExecs(c)
       \/ VncConnects(c) \/ VncInputs(c) \/ VncShoots(c)

MachineSpec == MachineInit /\ [][MachineNext]_machineVars

-----------------------------------------------------------------------------
\* "A moved endpoint cannot keep the old host key's pin" (machines.rs:494): the
\* pin of a machine was seen at its endpoint, or the owner set it, through
\* changes of the host, of the port and of the kind, while others probe and
\* drive it. A call that has read the row before a move pins the key of the old
\* endpoint, and so does a change that overlaps another one leave a pin: such a
\* pin is exempt, until the next move or the owner's next pin takes it away.
PinBelongsToEndpoint ==
  \A m \in Machine :
    mrow[m].live /\ mrow[m].pin # "" =>
      mrow[m].at \in {Endpoint(mrow[m]), ByOwner} \/ mrow[m].astray

\* A machine to log in to has a login, through changes of its kind, unless its
\* last change overlapped another one.
SshHasLogin ==
  \A m \in Machine : mrow[m].live /\ mrow[m].kind = "ssh" => mrow[m].user # "" \/ mrow[m].raced

\* "a rejected input never touches the remote host" (machine_control.rs:234),
\* and one that is reported done leaves no key and no button down there.
InputIsWholeOrNothing ==
  \A c \in Control :
    ctl[c].op = "input" =>
      /\ ctl[c].answer = "400" => ctl[c].sent = 0
      /\ ctl[c].input = "off" => ctl[c].sent = 0
      /\ ctl[c].answer = "200" => ctl[c].held = {}

\* Whatever rectangles a server sends, a screenshot writes inside its canvas.
FrameStaysInside ==
  \A c \in Control : ctl[c].pixels \subseteq 0 .. Width * Height - 1

=============================================================================
