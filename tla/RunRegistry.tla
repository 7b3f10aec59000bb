---------------------------- MODULE RunRegistry ----------------------------
(***************************************************************************)
(* What the thread runner promises to the rest of the server, without the  *)
(* run map, the locks, the timers or the tasks: a thread has one slot, a   *)
(* run occupies it from its start until its outcome is known, an outcome   *)
(* is never taken back except that a stop may relabel a run that ended     *)
(* while the stop was being decided, and the lifecycle feed of a thread    *)
(* tells exactly these transitions, each at the moment it happens.         *)
(***************************************************************************)

CONSTANTS
  Thread,   \* thread ids
  Run,      \* run ids, each used for one run
  NoRun     \* the empty slot

VARIABLES
  live,     \* live[t]: the run that occupies the slot of thread t
  outcome,  \* outcome[r]: "idle" before the run, "running", or how it ended
  told      \* told[t]: the last lifecycle event of thread t

registryVars == <<live, outcome, told>>

Ended == {"completed", "failed", "stopped"}

Event(r, s) == [run |-> r, status |-> s]

RegistryInit ==
  /\ live = [t \in Thread |-> NoRun]
  /\ outcome = [r \in Run |-> "idle"]
  /\ told = [t \in Thread |-> Event(NoRun, "idle")]

Begin(t, r) ==
  /\ live[t] = NoRun
  /\ outcome[r] = "idle"
  /\ live' = [live EXCEPT ![t] = r]
  /\ outcome' = [outcome EXCEPT ![r] = "running"]
  /\ told' = [told EXCEPT ![t] = Event(r, "running")]

End(t, s) ==
  /\ live[t] # NoRun
  /\ live' = [live EXCEPT ![t] = NoRun]
  /\ outcome' = [outcome EXCEPT ![live[t]] = s]
  /\ told' = [told EXCEPT ![t] = Event(live[t], s)]

\* A stop that read the run as running before the run ended. The thread has
\* heard of no later run.
Relabel(t, r) ==
  /\ told[t].run = r
  /\ outcome[r] \in {"completed", "failed"}
  /\ outcome' = [outcome EXCEPT ![r] = "stopped"]
  /\ told' = [told EXCEPT ![t] = Event(r, "stopped")]
  /\ UNCHANGED live

RegistryNext ==
  \E t \in Thread :
    \/ \E r \in Run : Begin(t, r) \/ Relabel(t, r)
    \/ \E s \in Ended : End(t, s)

RegistrySpec == RegistryInit /\ [][RegistryNext]_registryVars

=============================================================================
