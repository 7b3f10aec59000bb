----------------------------- MODULE Terminals -----------------------------
(***************************************************************************)
(* Terminal sessions: TerminalManager (spawn, get, kill, kill_all and the  *)
(* sweep of terminal/manager.rs), the reader and exit tasks and kill of    *)
(* TerminalSession (terminal/session.rs) and the WebSocket handlers of     *)
(* api/terminal.rs, of which satellite/terminal.rs has a copy. The shell   *)
(* is external: it prints and exits when it likes.                         *)
(***************************************************************************)
EXTENDS Naturals, Sequences, FiniteSets

CONSTANTS
  Session,    \* sessions that may be spawned
  Socket,     \* WebSocket connections
  MaxOutput   \* bound on what a shell prints

ASSUME TerminalConstants == MaxOutput \in Nat

VARIABLES
  place,      \* place[s]: tracked when TerminalManagerInner.sessions has it
  shell,      \* shell[s]: the child process
  shut,       \* shut[s]: the shutdown flag
  idle,       \* idle[s]: the last activity is further back than the TTL
  printed,    \* printed[s]: chunks the shell has printed
  buffered,   \* buffered[s]: those the reader task has not broadcast
  exitTask,   \* exitTask[s]: it polls, saw the end, has told
  socket      \* socket[c]: the session it is on, where it is, its receiver

sessionVars == <<shell, shut, idle, printed, buffered, exitTask>>
termVars == <<place, sessionVars, socket>>

TermEvent == {"output", "exited"}
Free == [at |-> "free", on |-> CHOOSE s \in Session : TRUE, rx |-> <<>>, got |-> 0]

TermTypeOK ==
  /\ place \in [Session -> {"none", "spawned", "dropped", "tracked", "taken", "gone"}]
  /\ shell \in [Session -> {"none", "runs", "dead"}]
  /\ shut \in [Session -> BOOLEAN] /\ idle \in [Session -> BOOLEAN]
  /\ printed \in [Session -> 0 .. MaxOutput] /\ buffered \in [Session -> 0 .. MaxOutput]
  /\ exitTask \in [Session -> {"none", "polls", "tells", "done"}]
  /\ \A c \in Socket :
       /\ socket[c].at \in {"free", "upgrades", "open", "told", "closed"}
       /\ socket[c].on \in Session
       /\ socket[c].rx \in Seq(TermEvent) /\ socket[c].got \in 0 .. MaxOutput

TermInit ==
  /\ place = [s \in Session |-> "none"]
  /\ shell = [s \in Session |-> "none"]
  /\ shut = [s \in Session |-> FALSE] /\ idle = [s \in Session |-> FALSE]
  /\ printed = [s \in Session |-> 0] /\ buffered = [s \in Session |-> 0]
  /\ exitTask = [s \in Session |-> "none"]
  /\ socket = [c \in Socket |-> Free]

\* A broadcast reaches the receivers that exist when it is sent.
Broadcast(s, ev) ==
  socket' = [c \in Socket |-> IF socket[c].at = "open" /\ socket[c].on = s
                              THEN [socket[c] EXCEPT !.rx = Append(@, ev)] ELSE socket[c]]

(***************************************************************************)
(* The manager                                                             *)
(***************************************************************************)

sessions == {s \in Session : place[s] = "tracked"}

\* The shell and its tasks run before the session is in the map.
SpawnShell(s) ==
  /\ place[s] = "none"
  /\ place' = [place EXCEPT ![s] = "spawned"]
  /\ shell' = [shell EXCEPT ![s] = "runs"]
  /\ exitTask' = [exitTask EXCEPT ![s] = "polls"]
  /\ UNCHANGED <<shut, idle, printed, buffered, socket>>

\* spawn enters it and returns its id, unless its request is dropped while it
\* waits for the lock.
Track(s) ==
  /\ place[s] = "spawned"
  /\ place' \in {[place EXCEPT ![s] = to] : to \in {"tracked", "dropped"}}
  /\ UNCHANGED <<sessionVars, socket>>

MovedTo(some, to) == [s \in Session |-> IF s \in some THEN to ELSE place[s]]

\* TerminalSession::kill
Kill(some) ==
  /\ shut' = [s \in Session |-> shut[s] \/ s \in some]
  /\ shell' = [s \in Session |-> IF s \in some THEN "dead" ELSE shell[s]]

\* kill of the manager and kill_all take sessions out of the map under its
\* lock and kill them after that.
KillTakes(some) ==
  /\ some # {} /\ (Cardinality(some) = 1 \/ some = sessions)
  /\ place' = MovedTo(some, "taken")
  /\ UNCHANGED <<sessionVars, socket>>

KillActs(s) ==
  /\ place[s] = "taken"
  /\ Kill({s})
  /\ place' = MovedTo({s}, "gone")
  /\ UNCHANGED <<idle, printed, buffered, exitTask, socket>>

\* Mutant of Expired: sessions whose shell has exited are left to the TTL.
ExpiredByTime == {s \in sessions : idle[s] /\ ~shut[s]}

Expired == {s \in sessions : shut[s] \/ idle[s]}

Sweep ==
  /\ Expired # {}
  /\ place' = MovedTo(Expired, "gone")
  /\ Kill(Expired)
  /\ UNCHANGED <<idle, printed, buffered, exitTask, socket>>

(***************************************************************************)
(* A session                                                               *)
(***************************************************************************)

ShellPrints(s) ==
  /\ shell[s] = "runs" /\ printed[s] < MaxOutput
  /\ printed' = [printed EXCEPT ![s] = @ + 1]
  /\ buffered' = [buffered EXCEPT ![s] = @ + 1]
  /\ idle' = [idle EXCEPT ![s] = FALSE]
  /\ UNCHANGED <<place, shell, shut, exitTask, socket>>

ShellExits(s) ==
  /\ shell[s] = "runs"
  /\ shell' = [shell EXCEPT ![s] = "dead"]
  /\ UNCHANGED <<place, shut, idle, printed, buffered, exitTask, socket>>

GoesIdle(s) ==
  /\ s \in sessions /\ ~idle[s]
  /\ idle' = [idle EXCEPT ![s] = TRUE]
  /\ UNCHANGED <<place, shell, shut, printed, buffered, exitTask, socket>>

\* The reader's tick, and its last flush at the end of the output.
ReaderFlushes(s) ==
  /\ buffered[s] > 0
  /\ buffered' = [buffered EXCEPT ![s] = @ - 1]
  /\ Broadcast(s, "output")
  /\ UNCHANGED <<place, shell, shut, idle, printed, exitTask>>

ExitIsSeen(s) ==
  /\ exitTask[s] = "polls" /\ (shut[s] \/ shell[s] = "dead")
  /\ exitTask' = [exitTask EXCEPT ![s] = "tells"]
  /\ idle' = [idle EXCEPT ![s] = FALSE]
  /\ shut' = [shut EXCEPT ![s] = TRUE]
  /\ UNCHANGED <<place, shell, printed, buffered, socket>>

ExitIsTold(s) ==
  /\ exitTask[s] = "tells"
  /\ exitTask' = [exitTask EXCEPT ![s] = "done"]
  /\ Broadcast(s, "exited")
  /\ UNCHANGED <<place, shell, shut, idle, printed, buffered>>

(***************************************************************************)
(* The WebSocket                                                           *)
(***************************************************************************)

\* ws_handler: the session must be in the map.
Connect(c, s) ==
  /\ socket[c].at = "free" /\ s \in sessions
  /\ socket' = [socket EXCEPT ![c].at = "upgrades", ![c].on = s]
  /\ UNCHANGED <<place, sessionVars>>

\* handle_socket subscribes once the upgrade is done, and touches the session
\* with the first resize, as input, resize and signals do later.
Subscribe(c) ==
  /\ socket[c].at = "upgrades"
  /\ socket' = [socket EXCEPT ![c].at = "open"]
  /\ idle' = [idle EXCEPT ![socket[c].on] = FALSE]
  /\ UNCHANGED <<place, shell, shut, printed, buffered, exitTask>>

ClientTouches(c) ==
  /\ socket[c].at = "open"
  /\ idle' = [idle EXCEPT ![socket[c].on] = FALSE]
  /\ UNCHANGED <<place, shell, shut, printed, buffered, exitTask, socket>>

SocketForwards(c) ==
  /\ socket[c].at = "open" /\ socket[c].rx # <<>>
  /\ socket' = [socket EXCEPT ![c].rx = Tail(@),
                  ![c].got = IF Head(socket[c].rx) = "output" THEN @ + 1 ELSE @,
                  ![c].at = IF Head(socket[c].rx) = "exited" THEN "told" ELSE @]
  /\ UNCHANGED <<place, sessionVars>>

\* The client leaves, a send fails, or the receiver has lagged.
SocketCloses(c) ==
  /\ socket[c].at \in {"upgrades", "open"}
  /\ socket' = [socket EXCEPT ![c].at = "closed", ![c].rx = <<>>]
  /\ UNCHANGED <<place, sessionVars>>

(***************************************************************************)
(* Specification                                                           *)
(***************************************************************************)

SessionStep(s) == ReaderFlushes(s) \/ ExitIsSeen(s) \/ ExitIsTold(s)
SocketStep(c) == Subscribe(c) \/ SocketForwards(c)

TermNext ==
  \/ \E s \in Session : SpawnShell(s) \/ Track(s) \/ ShellPrints(s) \/ ShellExits(s) \/ GoesIdle(s)
  \/ \E s \in Session : SessionStep(s)
  \/ \E some \in SUBSET sessions : KillTakes(some)
  \/ \E s \in Session : KillActs(s)
  \/ Sweep
  \/ \E c \in Socket, s \in Session : Connect(c, s)
  \/ \E c \in Socket : SocketStep(c) \/ ClientTouches(c) \/ SocketCloses(c)

TermSpec == TermInit /\ [][TermNext]_termVars

(***************************************************************************)
(* Properties                                                              *)
(***************************************************************************)

\* A session whose shell has exited, or that a kill has taken, leaves the map
\* and has no shell running, however the sweep, the kills and the exit
\* interleave.
RemovedShellIsDead ==
  \A s \in Session :
    (place[s] \in {"taken", "gone"} \/ (place[s] = "tracked" /\ shell[s] = "dead"))
      ~> (place[s] = "gone" /\ shell[s] = "dead")

\* A socket that is open when a session ends is closed by it: whoever ends the
\* session, the exit task still tells.
OpenSocketHearsExit ==
  \A c \in Socket :
    (socket[c].at = "open" /\ shell[socket[c].on] = "dead" /\ exitTask[socket[c].on] # "done")
      ~> (socket[c].at \in {"told", "closed"})

\* The reader is to "drain any remaining output before the reader exits"
\* (terminal/session.rs:132): a socket that is told of the exit had its output.
ExitFollowsOutput ==
  [][\A c \in Socket :
       (socket[c].at = "open" /\ socket'[c].at = "told") => buffered[socket[c].on] = 0]_termVars

=============================================================================
