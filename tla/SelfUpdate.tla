----------------------------- MODULE SelfUpdate -----------------------------
(***************************************************************************)
(* Self-update on unix: check, apply and apply_inner of update.rs with     *)
(* download, verify_checksum, the UpdatingGuard and schedule_restart, and  *)
(* the handler of api/update.rs. The future of a request is dropped at any *)
(* of its awaits when its client goes away; what it has written stays.     *)
(***************************************************************************)
EXTENDS Naturals, FiniteSets

CONSTANTS
  Applier,     \* requests to apply an update; each may be repeated
  MaxApplies   \* bound on the requests that start

ASSUME UpdateConstants == MaxApplies \in Nat

VARIABLES
  updating,   \* UpdateService.updating
  stagedExe,  \* the file beside the executable: absent, or what it holds
  exe,        \* what the executable's path holds
  release,    \* the newest release, as the feed shows it
  applier,    \* applier[a]: where the request is
  applies,    \* requests started
  restart     \* schedule_restart has been called; the process has been replaced

updVars == <<updating, stagedExe, exe, release, applier, applies, restart>>

Content == {"absent", "partial", "wrong", "right"}
Guarded == {"looks", "downloads", "writes", "verifies", "renames", "syncs"}
Answered == {"audits", "schedules"}

UpdTypeOK ==
  /\ updating \in BOOLEAN /\ stagedExe \in Content /\ exe \in {"old"} \cup Content
  /\ release \in {"none", "newer", "no_asset", "no_sums"}
  /\ applier \in [Applier -> {"idle", "enters"} \cup Guarded \cup Answered]
  /\ applies \in 0 .. MaxApplies
  /\ restart \in {"no", "scheduled", "done"}

UpdInit ==
  /\ updating = FALSE /\ stagedExe = "absent" /\ exe = "old"
  /\ release \in {"none", "newer", "no_asset", "no_sums"}
  /\ applier = [a \in Applier |-> "idle"]
  /\ applies = 0 /\ restart = "no"

Runs == restart # "done"
To(a, where) == applier' = [applier EXCEPT ![a] = where]

\* The error path of apply: the guard resets the flag.
Fails(a) == To(a, "idle") /\ updating' = FALSE

\* The handler's own look at is_updating, before apply.
ApplyArrives(a) ==
  /\ Runs /\ applier[a] = "idle" /\ applies < MaxApplies
  /\ applies' = applies + 1
  /\ IF updating THEN UNCHANGED applier ELSE To(a, "enters")
  /\ UNCHANGED <<updating, stagedExe, exe, release, restart>>

\* Mutant of TakeFlag: the flag is set without looking at what it was.
SetFlag(a) ==
  /\ Runs /\ applier[a] = "enters"
  /\ To(a, "looks")
  /\ updating' = TRUE
  /\ UNCHANGED <<stagedExe, exe, release, applies, restart>>

TakeFlag(a) ==
  /\ Runs /\ applier[a] = "enters"
  /\ To(a, IF updating THEN "idle" ELSE "looks")
  /\ updating' = TRUE
  /\ UNCHANGED <<stagedExe, exe, release, applies, restart>>

\* The feed may not answer, or have nothing newer for this platform.
FindRelease(a) ==
  /\ Runs /\ applier[a] = "looks"
  /\ \/ release = "newer" /\ To(a, "downloads") /\ UNCHANGED updating
     \/ Fails(a)
  /\ UNCHANGED <<stagedExe, exe, release, applies, restart>>

\* Whatever fails in the download or the check removes the staged file, also
\* one that was there before.
StagingFails(a) == Fails(a) /\ stagedExe' = "absent"

\* create_new: a file that is there is an error.
CreateStaged(a) ==
  /\ Runs /\ applier[a] = "downloads"
  /\ IF stagedExe = "absent"
     THEN To(a, "writes") /\ stagedExe' = "partial" /\ UNCHANGED updating
     ELSE StagingFails(a)
  /\ UNCHANGED <<exe, release, applies, restart>>

\* The body arrives and is synced, whole or damaged, or the transfer fails.
Download(a) ==
  /\ Runs /\ applier[a] = "writes"
  /\ \/ /\ To(a, "verifies") /\ UNCHANGED updating
        /\ stagedExe' \in IF stagedExe = "absent" THEN {"absent"} ELSE {"right", "wrong"}
     \/ StagingFails(a)
  /\ UNCHANGED <<exe, release, applies, restart>>

Verify(a) ==
  /\ Runs /\ applier[a] = "verifies"
  /\ IF stagedExe = "right"
     THEN To(a, "renames") /\ UNCHANGED <<updating, stagedExe>>
     ELSE StagingFails(a)
  /\ UNCHANGED <<exe, release, applies, restart>>

\* set_permissions and rename. The first leaves the file when it fails. A
\* rename that a dropped request has handed to the file system is taken to be
\* through before the next request gets here.
RenameStaged(a) ==
  /\ Runs /\ applier[a] = "renames"
  /\ \/ /\ stagedExe # "absent"
        /\ exe' = stagedExe /\ stagedExe' = "absent" /\ To(a, "syncs") /\ UNCHANGED updating
     \/ Fails(a) /\ UNCHANGED <<exe, stagedExe>>
     \/ StagingFails(a) /\ UNCHANGED exe
  /\ UNCHANGED <<release, applies, restart>>

\* The directory is synced; apply forgets the guard: the flag stays.
ApplyReturns(a) ==
  /\ Runs /\ applier[a] = "syncs"
  /\ To(a, "audits")
  /\ UNCHANGED <<updating, stagedExe, exe, release, applies, restart>>

\* The handler waits for the audit row, then schedules the restart.
Audited(a) ==
  /\ Runs /\ applier[a] = "audits"
  /\ To(a, "idle")
  /\ restart' = "scheduled"
  /\ UNCHANGED <<updating, stagedExe, exe, release, applies>>

\* The new image starts with a clear flag.
Restart ==
  /\ restart = "scheduled"
  /\ restart' = "done"
  /\ updating' = FALSE
  /\ applier' = [a \in Applier |-> "idle"]
  /\ UNCHANGED <<stagedExe, exe, release, applies>>

\* The client goes away while the request waits: the guard, where there still
\* is one, resets the flag.
ApplyIsDropped(a) ==
  /\ Runs /\ applier[a] \in Guarded \cup {"audits"}
  /\ To(a, "idle")
  /\ updating' = (updating /\ applier[a] = "audits")
  /\ UNCHANGED <<stagedExe, exe, release, applies, restart>>

UpdStep(a) ==
  \/ TakeFlag(a) \/ FindRelease(a) \/ CreateStaged(a) \/ Download(a) \/ Verify(a)
  \/ RenameStaged(a) \/ ApplyReturns(a) \/ Audited(a)

UpdNext ==
  \/ \E a \in Applier : ApplyArrives(a) \/ UpdStep(a) \/ ApplyIsDropped(a)
  \/ Restart

UpdSpec == UpdInit /\ [][UpdNext]_updVars

\* Requests go on, the timer of the restart fires.
UpdFairSpec == UpdSpec /\ WF_updVars(Restart) /\ \A a \in Applier : WF_updVars(UpdStep(a))

(***************************************************************************)
(* Properties                                                              *)
(***************************************************************************)

\* The executable is the old one or the release that was checked, whatever
\* requests run beside one another, fail half way or are dropped and repeated:
\* nothing writes to a staged file between its check and its rename.
ExeIsVerified == exe \in {"old", "right"}

\* "The in-progress flag stays set on success because the process is about to
\* be replaced" (update.rs:306): a flag that nobody's request holds is followed
\* by the restart.
FlagMeansRestart ==
  (updating /\ \A a \in Applier : applier[a] \notin Guarded \cup {"audits"}) ~> restart = "done"

=============================================================================
