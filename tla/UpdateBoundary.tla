----------------------------- MODULE UpdateBoundary -----------------------------
(***************************************************************************)
(* Self-update around a daemon: the update command (commands/update.rs,    *)
(* SelfUpdateDaemonBoundaryClient of daemon/mod.rs) and the independent    *)
(* process that holds the daemon's absence for it (the installer boundary  *)
(* protocol of daemon/mod.rs).                                             *)
(*                                                                         *)
(* The holder stops the daemon, keeps daemon.pid.lock, and answers one     *)
(* command at a time over a pipe; when the pipe closes or anything fails   *)
(* it settles what is left according to the phase it has reached.          *)
(* Foreground starts do not take part in the protocol: they take the lock  *)
(* whenever it is free.  How the executable itself is replaced is          *)
(* ExecutableReplacement; how the lock and daemon.pid are taken step by    *)
(* step is DaemonIdentity.  Here the public image is "old" or "new".       *)
(***************************************************************************)
EXTENDS Naturals

CONSTANTS MaxGen,       \* daemon generations in one behaviour
          MaxForeign,   \* of them, foreground starts during the update
          MaxFaults,    \* failures, deaths of daemons, panics
          Impatient     \* whether the wait for readiness may run out

ASSUME BoundaryAssumption ==
  /\ MaxGen \in Nat \ {0} /\ MaxForeign \in Nat /\ MaxFaults \in Nat
  /\ Impatient \in BOOLEAN

VARIABLES
  daemon,    \* each generation: where it is, what image it runs, if asked to stop
  pidfile,   \* the generation named in daemon.pid, or 0
  image,     \* the public executable
  saved,     \* whether the previous executable is kept for recovery
  client,    \* the update command
  holder,    \* the lifecycle holder
  wire,      \* the command and the marker in the pipes
  foreign, faults

vars == <<daemon, pidfile, image, saved, client, holder, wire, foreign, faults>>

Gen == 1 .. MaxGen
Owner == {g \in Gen : daemon[g].at = "running"}   \* who holds daemon.pid.lock
Running == IF Owner = {} THEN 0 ELSE CHOOSE g \in Owner : TRUE
LockFree == Owner = {} /\ ~ holder.absence

Unborn == [at |-> "unborn", image |-> "old", asked |-> FALSE]
Spare == {g \in Gen : daemon[g].at = "unborn"}
Fresh == CHOOSE g \in Spare : TRUE

Init ==
  /\ \E up \in BOOLEAN :
       /\ daemon = [g \in Gen |-> IF up /\ g = 1 THEN [Unborn EXCEPT !.at = "running"] ELSE Unborn]
       /\ pidfile = IF up THEN 1 ELSE 0
  /\ image = "old" /\ saved = FALSE
  /\ client = [at |-> "idle", phase |-> "Stopped", replacement |-> "None", outcome |-> "none",
               caught |-> FALSE]
  /\ holder = [at |-> "unborn", phase |-> "Stopping", job |-> "stop", final |-> FALSE,
               absence |-> FALSE, initial |-> 0, requested |-> FALSE, restarted |-> 0,
               target |-> 0, stale |-> 0, child |-> 0, expect |-> "old", doubts |-> FALSE]
  /\ wire = [command |-> "none", marker |-> "none"]
  /\ foreign = 0 /\ faults = 0

Fault == faults < MaxFaults /\ faults' = faults + 1
Set(g, at) == daemon' = [daemon EXCEPT ![g].at = at]
Step(at) == holder' = [holder EXCEPT !.at = at]
Go(at) == client' = [client EXCEPT !.at = at]

Sending == {"download", "new", "finish", "commit", "rollbackExecutable", "rollback", "release", "abort"}
Waits   == {"awaitReady", "awaitNew", "awaitOld", "awaitFinal", "awaitReleased", "awaitAbort"}
Closed  == {"closing", "closed", "dead"}

HolderPhase == {"Stopping", "Stopped", "ReplacementTransition", "RollbackTransition", "NewReady",
                "PriorRestored", "ReplacementFailedStopped", "RollbackFailedStopped", "FinalConfirmed"}
ClientPhase == {"Stopped", "ReplacementTransition", "NewReady", "ReplacementFailedStopped",
                "RollbackTransition", "FinishTransition", "FinalConfirmed", "ReleaseTransition",
                "AbortTransition", "Finished"}
HolderAt == {"unborn", "capture", "stop", "settle", "settleRequested", "acquire", "observe",
             "reestablish", "absent", "release", "launch", "await", "check", "verify", "listen",
             "finalize", "exited", "killed"}
Job == {"stop", "new", "newVerify", "old", "oldVerify", "abort", "finish", "release",
        "putBack", "undo", "final"}
Marker == {"ready", "newReady", "newFailed", "newStopped", "oldRestored", "oldFailed",
           "finalConfirmed", "released"}

HolderGone == holder.at \in {"exited", "killed"}
ClientGone == client.at = "dead"
InputClosed == client.at \in Closed

------------------------------------------------------------------------------
(* The daemons.  A starting one has bound the image it was started from and *)
(* loses to whoever holds the lock; a leaving one has let the lock go and   *)
(* has yet to remove its identity.                                          *)

Foreground ==
  /\ foreign < MaxForeign /\ Spare # {}
  /\ foreign' = foreign + 1
  /\ daemon' = [daemon EXCEPT ![Fresh] = [at |-> "starting", image |-> image, asked |-> FALSE]]
  /\ UNCHANGED <<pidfile, image, saved, client, holder, wire, faults>>

Publish(g) ==
  /\ daemon[g].at = "starting"
  /\ IF LockFree THEN Set(g, "running") /\ pidfile' = g
     ELSE Set(g, "lost") /\ UNCHANGED pidfile
  /\ UNCHANGED <<image, saved, client, holder, wire, foreign, faults>>

Obey(g) ==
  /\ daemon[g].at = "running" /\ daemon[g].asked
  /\ Set(g, "leaving")
  /\ UNCHANGED <<pidfile, image, saved, client, holder, wire, foreign, faults>>

Leave(g) ==
  /\ daemon[g].at = "leaving"
  /\ Set(g, "dead")
  /\ pidfile' = IF LockFree THEN 0 ELSE pidfile
  /\ UNCHANGED <<image, saved, client, holder, wire, foreign, faults>>

(* A signal, or a death that leaves the identity behind.                    *)
DaemonDies(g) ==
  /\ daemon[g].at = "running" /\ Fault
  /\ Set(g, "leaving") \/ Set(g, "dead")
  /\ UNCHANGED <<pidfile, image, saved, client, holder, wire, foreign>>

------------------------------------------------------------------------------
(* The holder.  Only daemons and the holder change what the first group     *)
(* names, so its steps leave the executable and the client alone.           *)

HolderOnly == UNCHANGED <<image, saved, client, foreign>>
Quiet == HolderOnly /\ UNCHANGED <<daemon, pidfile, wire>>
Unfaulted == UNCHANGED faults

(* The state on which an update begins: which generation runs.  Nothing has *)
(* been touched if that cannot be told.                                     *)
Capture ==
  /\ holder.at = "capture"
  /\ \/ /\ holder' = [holder EXCEPT !.initial = Running, !.target = Running,
                        !.at = IF Running = 0 THEN "acquire" ELSE "stop"]
        /\ Unfaulted
     \/ Fault /\ Step("exited")
  /\ Quiet

(* An error of a step: the caller of a verification tries once more; within *)
(* the protocol it is settled by phase, within that settlement it is the    *)
(* end.                                                                     *)
Failed == IF holder.job \in {"newVerify", "oldVerify"} THEN "reestablish"
          ELSE IF holder.final THEN "exited" ELSE "finalize"
AfterFailure == CASE holder.job = "newVerify" -> "new"
                  [] holder.job = "oldVerify" -> "old"
                  [] OTHER -> holder.job

(* DaemonGenerationStopRequest::issue: only to the generation that runs.    *)
IssueStop ==
  /\ holder.at = "stop"
  /\ IF Running = holder.target
       THEN /\ daemon' = [daemon EXCEPT ![holder.target].asked = TRUE]
            /\ holder' = [holder EXCEPT !.at = "settle", !.stale = holder.target,
                            !.requested = @ \/ (holder.job = "stop" /\ holder.target = holder.initial)]
       ELSE /\ holder' = [holder EXCEPT !.at = Failed, !.job = AfterFailure]
            /\ UNCHANGED daemon
  /\ HolderOnly /\ Unfaulted /\ UNCHANGED <<pidfile, wire>>

(* settle_for_lifecycle: no clock; an observation that fails is remembered. *)
Settle ==
  /\ holder.at \in {"settle", "settleRequested"}
  /\ \/ /\ Running # holder.target
        /\ holder' = [holder EXCEPT !.target = 0,
                        !.at = IF @ = "settle" THEN "acquire" ELSE "reestablish"]
        /\ Unfaulted
     \/ Fault /\ holder' = [holder EXCEPT !.doubts = TRUE]
  /\ Quiet

(* reacquire_absence_after_foreground_contenders: try the lock; where it is *)
(* taken, or names somebody unexpected, stop whom daemon.pid names.         *)
Acquire ==
  /\ holder.at = "acquire"
  /\ IF LockFree /\ (holder.stale = 0 \/ pidfile \in {0, holder.stale})
       THEN /\ holder' = [holder EXCEPT !.absence = TRUE, !.at = "absent", !.stale = 0]
            /\ pidfile' = 0
       ELSE /\ holder' = [holder EXCEPT !.at = "observe", !.doubts = @ \/ LockFree]
            /\ UNCHANGED pidfile
  /\ HolderOnly /\ Unfaulted /\ UNCHANGED <<daemon, wire>>

Observe ==
  /\ holder.at = "observe"
  /\ IF pidfile \in {0, holder.stale} THEN Step("acquire")
     ELSE holder' = [holder EXCEPT !.target = pidfile, !.at = "stop"]
  /\ Quiet /\ Unfaulted

(* reestablish_absence_after_failed_restart_with_alternative.               *)
Reestablish ==
  /\ holder.at = "reestablish"
  /\ holder' = IF holder.absence THEN [holder EXCEPT !.at = "absent"]
               ELSE IF Running = 0 THEN [holder EXCEPT !.at = "acquire", !.stale = 0]
               ELSE [holder EXCEPT !.at = "stop", !.target = Running]
  /\ Quiet /\ Unfaulted

(* publish_installer_daemon_boundary_state: the phase first, then the       *)
(* marker; a client that is gone makes it an error of the new phase.        *)
Announce(h, phase, marker, next) ==
  IF ClientGone
    THEN holder' = [h EXCEPT !.phase = phase, !.at = "finalize"] /\ UNCHANGED wire
    ELSE /\ holder' = [h EXCEPT !.phase = phase, !.at = next,
                         !.absence = @ /\ next # "exited"]
         /\ wire' = [wire EXCEPT !.marker = marker]

Exit == /\ holder' = [holder EXCEPT !.at = "exited", !.absence = FALSE, !.doubts = FALSE]
        /\ UNCHANGED wire

(* Absence is established: what that was for.                               *)
FailedPhase == [stop |-> "Stopped", new |-> "ReplacementFailedStopped",
                abort |-> "ReplacementFailedStopped", old |-> "RollbackFailedStopped"]
FailedMarker == [stop |-> "ready", new |-> "newFailed", abort |-> "newStopped",
                 old |-> "oldFailed"]
PutsBack == holder.job = "putBack" /\ holder.initial # 0

AbsentFor(what) == holder.at = "absent" /\ what /\ HolderOnly /\ Unfaulted
                   /\ UNCHANGED <<daemon, pidfile>>
Settled == [holder EXCEPT !.doubts = FALSE, !.restarted = 0]

AbsentAnnounced ==
  /\ AbsentFor(~ holder.final /\ holder.job \in DOMAIN FailedPhase)
  /\ IF holder.doubts
       THEN holder' = [Settled EXCEPT !.at = "finalize"] /\ UNCHANGED wire
       ELSE Announce(Settled, FailedPhase[holder.job], FailedMarker[holder.job], "listen")

(* A verification that failed has re-established absence once already; its  *)
(* caller does so again and finds it held.                                  *)
AbsentAfterVerify ==
  /\ AbsentFor(~ holder.final /\ holder.job \in {"newVerify", "oldVerify"})
  /\ holder' = [Settled EXCEPT !.job = AfterFailure]
  /\ UNCHANGED wire

AbsentRefused ==
  /\ AbsentFor(~ holder.final /\ holder.job \in {"finish", "release"})
  /\ holder' = [Settled EXCEPT !.at = "finalize"]
  /\ UNCHANGED wire

AbsentFinally ==
  /\ AbsentFor(holder.final /\ ~ PutsBack)
  /\ Exit

AbsentPutBack ==
  /\ AbsentFor(PutsBack)
  /\ holder' = [holder EXCEPT !.at = "release", !.expect = "old"]
  /\ UNCHANGED wire

------------------------------------------------------------------------------
(* Restarting a daemon from the public path: restart_after_installer_update *)
(* and restart_after_installer_rollback share these steps.                  *)

StartFailed == [holder EXCEPT !.at = "reestablish",
                  !.job = IF holder.job = "putBack" THEN "undo" ELSE @]

(* release_absence_for_restart: from here a foreground start may win.       *)
ReleaseAbsence ==
  /\ holder.at = "release"
  /\ holder' = [holder EXCEPT !.absence = FALSE, !.at = "launch"]
  /\ Quiet /\ Unfaulted

(* The child is started whoever runs; it is up to the wait to see that.     *)
Launch ==
  /\ holder.at = "launch"
  /\ \/ /\ Spare # {} /\ Unfaulted
        /\ holder' = [holder EXCEPT !.child = Fresh, !.at = "await"]
        /\ daemon' = [daemon EXCEPT ![Fresh] = [at |-> "starting", image |-> image, asked |-> FALSE]]
     \/ Fault /\ holder' = StartFailed /\ UNCHANGED daemon
  /\ HolderOnly /\ UNCHANGED <<pidfile, wire>>

(* Mutant: any daemon that runs is the one that was started.                *)
AwaitAnyStarted ==
  /\ holder.at = "await"
  /\ IF Running # 0 THEN Step("check") ELSE Fault /\ holder' = StartFailed
  /\ HolderOnly /\ UNCHANGED <<daemon, pidfile, wire, faults>>

(* await_daemon_ready: a child that is not ready when another one runs, or  *)
(* in time, is killed.                                                      *)
AwaitStarted ==
  /\ holder.at = "await"
  /\ LET at == daemon[holder.child].at
     IN \/ at = "running" /\ Step("check") /\ Unfaulted /\ UNCHANGED daemon
        \/ at \in {"dead", "lost"} /\ holder' = StartFailed /\ Unfaulted /\ UNCHANGED daemon
        \/ /\ at \notin {"dead", "lost"}
           /\ IF Running \notin {0, holder.child} THEN Unfaulted ELSE Fault
           /\ Set(holder.child, "dead") /\ holder' = StartFailed
  /\ HolderOnly /\ UNCHANGED <<pidfile, wire>>

(* Whoever runs from the public path now is the restarted daemon.           *)
CheckStarted ==
  /\ holder.at = "check"
  /\ IF Running = 0 THEN holder' = StartFailed
     ELSE holder' = [holder EXCEPT !.restarted = Running,
                       !.at = IF holder.job = "putBack" THEN "exited" ELSE "verify"]
  /\ Quiet /\ Unfaulted

(* verify_final_state, and what follows by command.                         *)
FinalState == /\ image = holder.expect
              /\ IF holder.initial = 0 THEN holder.absence
                 ELSE holder.restarted # 0 /\ Running = holder.restarted
VerifyFailed == [holder EXCEPT !.at = "reestablish",
                   !.job = CASE @ = "new" -> "newVerify" [] @ = "old" -> "oldVerify" [] OTHER -> @]

Verify ==
  /\ holder.at = "verify"
  /\ \/ /\ FinalState /\ Unfaulted
        /\ IF holder.final THEN Exit
           ELSE CASE holder.job = "new"     -> Announce(holder, "NewReady", "newReady", "listen")
                  [] holder.job = "old"     -> Announce(holder, "PriorRestored", "oldRestored", "exited")
                  [] holder.job = "finish"  -> Announce(holder, "FinalConfirmed", "finalConfirmed", "listen")
                  [] holder.job = "release" -> Announce(holder, "FinalConfirmed", "released", "exited")
     \/ /\ IF FinalState THEN Fault ELSE Unfaulted
        /\ holder' = VerifyFailed /\ UNCHANGED wire
  /\ HolderOnly /\ UNCHANGED <<daemon, pidfile>>

------------------------------------------------------------------------------
(* The commands the holder takes, in the phases in which it takes them.     *)

RestorePrior(h) ==
  [h EXCEPT !.job = "old", !.expect = "old",
     !.at = IF image # "old" THEN "reestablish"
            ELSE IF h.initial = 0 THEN "verify" ELSE "release"]

Fits(command, phase) ==
  \/ command = "new" /\ phase = "Stopped"
  \/ command = "rollback" /\ phase \in {"Stopped", "ReplacementFailedStopped"}
  \/ command = "finish" /\ phase = "NewReady"
  \/ command = "abort" /\ phase \in {"NewReady", "FinalConfirmed"}
  \/ command = "release" /\ phase = "FinalConfirmed"

Told(command) ==
  CASE command = "new" ->
         [holder EXCEPT !.phase = "ReplacementTransition", !.job = "new", !.expect = image,
            !.at = IF holder.initial = 0 THEN "verify" ELSE "release"]
    [] command = "rollback" -> RestorePrior([holder EXCEPT !.phase = "RollbackTransition"])
    [] command = "finish" ->
         [holder EXCEPT !.phase = "ReplacementTransition", !.job = "finish", !.at = "verify"]
    [] command = "abort" ->
         [holder EXCEPT !.phase = "ReplacementTransition", !.job = "abort", !.at = "reestablish"]
    [] command = "release" -> [holder EXCEPT !.job = "release", !.at = "verify"]

Listen ==
  /\ holder.at = "listen" /\ wire.command # "none"
  /\ holder' = IF Fits(wire.command, holder.phase) THEN Told(wire.command)
               ELSE [holder EXCEPT !.at = "finalize"]
  /\ wire' = [wire EXCEPT !.command = "none"]
  /\ HolderOnly /\ Unfaulted /\ UNCHANGED <<daemon, pidfile>>

(* Mutant: a closed pipe ends the holder.                                   *)
HangUpAtOnce ==
  /\ holder.at = "listen" /\ wire.command = "none" /\ InputClosed
  /\ Exit
  /\ HolderOnly /\ Unfaulted /\ UNCHANGED <<daemon, pidfile>>

HangUp ==
  /\ holder.at = "listen" /\ wire.command = "none" /\ InputClosed
  /\ Step("finalize")
  /\ Quiet /\ Unfaulted

(* finalize_installer_boundary_error.  In Stopping, the generation that ran *)
(* at first is left as it is only if it was never asked to stop.            *)
Finalize ==
  /\ holder.at = "finalize"
  /\ LET h == [holder EXCEPT !.final = TRUE]
     IN CASE h.phase = "Stopping" ->
               IF h.initial # 0 /\ ~ h.requested /\ Running = h.initial THEN Exit
               ELSE /\ holder' = [h EXCEPT !.job = "putBack", !.target = h.initial,
                                    !.at = IF h.requested THEN "settleRequested" ELSE "reestablish"]
                    /\ UNCHANGED wire
          [] h.phase = "Stopped" -> holder' = RestorePrior(h) /\ UNCHANGED wire
          [] h.phase \in {"ReplacementTransition", "RollbackTransition"} ->
               holder' = [h EXCEPT !.job = "undo", !.at = "reestablish"] /\ UNCHANGED wire
          [] h.phase \in {"ReplacementFailedStopped", "RollbackFailedStopped"} -> Exit
          [] h.phase \in {"NewReady", "PriorRestored", "FinalConfirmed"} ->
               holder' = [h EXCEPT !.job = "final", !.at = "verify"] /\ UNCHANGED wire
  /\ HolderOnly /\ Unfaulted /\ UNCHANGED <<daemon, pidfile>>

HolderDies ==
  /\ holder.at # "unborn" /\ ~ HolderGone /\ Fault
  /\ holder' = [holder EXCEPT !.at = "killed", !.absence = FALSE]
  /\ Quiet

------------------------------------------------------------------------------
(* The update command.                                                      *)

ClientOnly == UNCHANGED <<daemon, pidfile, foreign>>
ByClient == ClientOnly /\ UNCHANGED <<image, saved, holder>>

Close(outcome) == client' = [client EXCEPT !.at = "closing", !.outcome = outcome]
Send(here, command, phase, next) ==
  /\ client.at = here
  /\ client' = [client EXCEPT !.phase = phase, !.at = next]
  /\ wire' = IF HolderGone THEN wire ELSE [wire EXCEPT !.command = command]
  /\ ByClient /\ Unfaulted
Hear(here, marker) == /\ client.at = here /\ wire.marker = marker
                      /\ wire' = [wire EXCEPT !.marker = "none"]
                      /\ ByClient /\ Unfaulted

Start ==
  /\ client.at = "idle"
  /\ Go("awaitReady") /\ Step("capture")
  /\ ClientOnly /\ Unfaulted /\ UNCHANGED <<image, saved, wire>>

(* The wait for readiness kills the holder when its time is up.             *)
GiveUp ==
  /\ Impatient /\ client.at = "awaitReady" /\ wire.marker = "none" /\ ~ HolderGone
  /\ holder' = [holder EXCEPT !.at = "killed", !.absence = FALSE]
  /\ Close("gaveUp")
  /\ ClientOnly /\ Unfaulted /\ UNCHANGED <<image, saved, wire>>

Ready == Hear("awaitReady", "ready") /\ Go("download")

(* The download and the publication: it may fail, find nothing newer,       *)
(* publish, or fail with the candidate already in place.                    *)
Download ==
  /\ client.at = "download"
  /\ \/ Go("rollback") /\ Unfaulted /\ UNCHANGED <<image, saved>>
     \/ Go("new") /\ Unfaulted /\ UNCHANGED <<image, saved>>
     \/ /\ image' = "new" /\ saved' = TRUE /\ Unfaulted
        /\ client' = [client EXCEPT !.at = "new", !.replacement = "Pending"]
     \/ image' = "new" /\ saved' = TRUE /\ Fault /\ Go("rollback")
  /\ ClientOnly /\ UNCHANGED <<holder, wire>>

(* The future of the command is dropped during the download.                *)
Cancel ==
  /\ client.at = "download"
  /\ Close("cancelled")
  /\ ByClient /\ Unfaulted /\ UNCHANGED wire

SendNew == Send("new", "new", "ReplacementTransition", "awaitNew")
NewReady ==
  /\ Hear("awaitNew", "newReady")
  /\ client' = [client EXCEPT !.phase = "NewReady", !.at = "finish"]
AfterStop == IF client.replacement = "Pending" THEN "rollbackExecutable" ELSE "rollback"
(* Mutant: a failed start of the daemon does not matter to the executable.  *)
NewStoppedCommits ==
  /\ Hear("awaitNew", "newFailed") \/ Hear("awaitAbort", "newStopped")
  /\ client' = [client EXCEPT !.phase = "ReplacementFailedStopped", !.at = "commit"]

NewStopped ==
  /\ Hear("awaitNew", "newFailed") \/ Hear("awaitAbort", "newStopped")
  /\ client' = [client EXCEPT !.phase = "ReplacementFailedStopped", !.at = AfterStop]

RollbackExecutable ==
  /\ client.at = "rollbackExecutable"
  /\ \/ /\ image' = "old" /\ saved' = FALSE /\ Unfaulted
        /\ client' = [client EXCEPT !.replacement = "RolledBack", !.at = "rollback"]
     \/ /\ Fault /\ UNCHANGED <<image, saved>>
        /\ client' = [client EXCEPT !.replacement = "Preserved", !.at = "closing", !.outcome = "failed"]
  /\ ClientOnly /\ UNCHANGED <<holder, wire>>

SendRollback ==
  /\ client.phase \in {"Stopped", "ReplacementFailedStopped"}
  /\ Send("rollback", "rollback", "RollbackTransition", "awaitOld")
OldRestored ==
  /\ Hear("awaitOld", "oldRestored")
  /\ client' = [client EXCEPT !.phase = "Finished", !.at = "closing", !.outcome = "restored"]
(* Mutant: the restoration is asked for again.                              *)
OldFailedRetries ==
  /\ Hear("awaitOld", "oldFailed")
  /\ client' = [client EXCEPT !.phase = "ReplacementFailedStopped", !.at = "rollback"]

OldFailed ==
  /\ Hear("awaitOld", "oldFailed")
  /\ client' = [client EXCEPT !.phase = "ReplacementFailedStopped", !.at = "closing", !.outcome = "failed"]

SendFinish == Send("finish", "finish", "FinishTransition", "awaitFinal")
FinalConfirmed ==
  /\ Hear("awaitFinal", "finalConfirmed")
  /\ client' = [client EXCEPT !.phase = "FinalConfirmed", !.at = "commit"]

Commit ==
  /\ client.at = "commit"
  /\ \/ /\ saved' = FALSE /\ Unfaulted
        /\ client' = [client EXCEPT !.at = "release", !.outcome = "updated",
                        !.replacement = IF @ = "Pending" THEN "Committed" ELSE @]
     \/ /\ client.replacement = "Pending" /\ Fault /\ UNCHANGED saved
        /\ \E left \in {"Committed", "Preserved"} :
             client' = [client EXCEPT !.at = "release", !.outcome = "failed", !.replacement = left]
  /\ ClientOnly /\ UNCHANGED <<image, holder, wire>>

SendRelease == Send("release", "release", "ReleaseTransition", "awaitReleased")
Released ==
  /\ Hear("awaitReleased", "released")
  /\ client' = [client EXCEPT !.phase = "Finished", !.at = "closing"]

(* Mutant: only an answer ends the wait.                                    *)
UnansweredWaits == client.at = "awaitReady" /\ HolderGone /\ wire.marker = "none" /\ Close("failed")
                   /\ ByClient /\ Unfaulted /\ UNCHANGED wire

(* The holder ended without the marker that is waited for.  What was        *)
(* published and is undecided is kept for recovery.                         *)
Waiting == client.at \in Waits
Unanswered ==
  /\ Waiting /\ HolderGone /\ wire.marker = "none"
  /\ client' = [client EXCEPT !.at = "closing", !.outcome = "failed",
                  !.replacement = IF @ = "Pending" THEN "Preserved" ELSE @]
  /\ ByClient /\ Unfaulted /\ UNCHANGED wire

(* A panic of the transaction: interrupted_self_update_recovery_plan, unless *)
(* the phase is between two markers.  A panic of that recovery is not caught: *)
(* it unwinds the command and drops the boundary.                           *)
Plan == IF client.replacement \in {"Committed", "Preserved"}
          THEN IF client.phase = "FinalConfirmed" THEN "release" ELSE "closing"
        ELSE IF client.phase \in {"NewReady", "FinalConfirmed"} THEN "abort"
        ELSE AfterStop
Panic ==
  /\ Fault
  /\ \/ /\ client.at \in Sending /\ ~ client.caught
        /\ client' = [client EXCEPT !.at = Plan, !.caught = TRUE]
     \/ client.at \in Sending /\ client.caught /\ Close("failed")
     \/ Waiting /\ client.at # "awaitReady" /\ Close("failed")
  /\ ByClient /\ UNCHANGED wire

SendAbort == Send("abort", "abort", "AbortTransition", "awaitAbort")

(* Dropping the boundary closes the holder's input and waits for its end.   *)
CloseAndWait ==
  /\ client.at = "closing" /\ HolderGone
  /\ Go("closed")
  /\ ByClient /\ Unfaulted /\ UNCHANGED wire

ClientDies ==
  /\ client.at \notin {"idle", "closed", "dead"}
  /\ Go("dead")
  /\ ByClient /\ Unfaulted /\ UNCHANGED wire

------------------------------------------------------------------------------
DaemonStep(g) == Publish(g) \/ Obey(g) \/ Leave(g)

HolderStep ==
  \/ Capture \/ IssueStop \/ Settle \/ Acquire \/ Observe \/ Reestablish
  \/ AbsentAnnounced \/ AbsentAfterVerify \/ AbsentRefused \/ AbsentFinally \/ AbsentPutBack
  \/ ReleaseAbsence \/ Launch \/ AwaitStarted \/ CheckStarted \/ Verify
  \/ Listen \/ HangUp \/ Finalize

ClientStep ==
  \/ Ready \/ Download \/ SendNew \/ NewReady \/ NewStopped \/ RollbackExecutable
  \/ SendRollback \/ OldRestored \/ OldFailed \/ SendFinish \/ FinalConfirmed \/ Commit
  \/ SendRelease \/ Released \/ SendAbort \/ Unanswered \/ CloseAndWait

Next ==
  \/ Foreground
  \/ \E g \in Gen : DaemonStep(g) \/ DaemonDies(g)
  \/ HolderStep \/ HolderDies
  \/ Start \/ ClientStep \/ GiveUp \/ Cancel \/ Panic \/ ClientDies

(* Processes that have something to do go on; nobody has to start an        *)
(* update, cancel it, fail or die.                                          *)
Fairness == /\ \A g \in Gen : WF_vars(DaemonStep(g))
            /\ WF_vars(HolderStep) /\ WF_vars(ClientStep)

Spec == Init /\ [][Next]_vars /\ Fairness

------------------------------------------------------------------------------
Generation == Gen \cup {0}
DaemonAt == {"unborn", "starting", "running", "lost", "leaving", "dead"}
DaemonRecord == [at : DaemonAt, image : {"old", "new"}, asked : BOOLEAN]
ClientRecord == [at : {"idle"} \cup Sending \cup Waits \cup Closed, phase : ClientPhase,
                 replacement : {"None", "Pending", "RolledBack", "Committed", "Preserved"},
                 outcome : {"none", "gaveUp", "cancelled", "restored", "updated", "failed"},
                 caught : BOOLEAN]
HolderRecord == [at : HolderAt, phase : HolderPhase, job : Job, expect : {"old", "new"},
                 final : BOOLEAN, absence : BOOLEAN, requested : BOOLEAN, doubts : BOOLEAN,
                 initial : Generation, restarted : Generation, target : Generation,
                 stale : Generation, child : Generation]

TypeOK ==
  /\ daemon \in [Gen -> DaemonRecord] /\ pidfile \in Generation
  /\ image \in {"old", "new"} /\ saved \in BOOLEAN
  /\ client \in ClientRecord /\ holder \in HolderRecord
  /\ wire \in [command : {"none", "new", "rollback", "finish", "abort", "release"},
               marker : {"none"} \cup Marker]
  /\ foreign \in Nat /\ faults \in Nat

(* The public executable changes hands only while the holder keeps daemons  *)
(* out, and the previous one is given up only once the holder has verified  *)
(* the final state (or the executable is back): client and holder are two   *)
(* processes that know of each other by their markers only.                 *)
ExecutableIsGuarded ==
  [][holder.at # "killed" =>
       /\ image' # image => holder.absence
       /\ saved /\ ~ saved' /\ image' = "new" => holder.phase = "FinalConfirmed"]_vars

(* The holder never receives a command that its phase refuses, whatever     *)
(* fails, panics or is cancelled on either side.                            *)
CommandsFit ==
  holder.at = "listen" /\ wire.command # "none" => Fits(wire.command, holder.phase)

(* An update that reports it restored the prior state has the old image in  *)
(* place and, where a daemon ran, started one from it; one that reports it  *)
(* updated runs a daemon of the image it published.  (A launched daemon     *)
(* that died by itself may have been followed by another.)                  *)
ReportIsTrue ==
  /\ client.outcome = "restored" => image = "old"
  /\ client.at = "closed" /\ client.outcome \in {"restored", "updated"} =>
       \/ holder.initial = 0
       \/ daemon[holder.restarted].image = image
       \/ daemon[holder.child].at \in {"leaving", "dead"}

(* A daemon that was stopped for an update runs again, however the update   *)
(* ends or is cut short (daemon/mod.rs:53), unless the command died with a  *)
(* replacement undecided, something failed, a foreground start interfered,  *)
(* or the command had no patience.                                          *)
DaemonComesBack ==
  (holder.initial # 0 /\ HolderGone) ~>
    (Running # 0 \/ saved \/ faults > 0 \/ foreign > 0 \/ client.outcome = "gaveUp")

(* Every update ends: nobody waits for a marker or a command that never     *)
(* comes, with authority over the daemon in hand.                           *)
EveryUpdateEnds == (client.at = "awaitReady") ~> (client.at \in {"closed", "dead"} /\ HolderGone)

(* "If a daemon is running, self-update stops it before replacement and     *)
(* restarts it afterwards" (docs/wiki/Updating.md).                         *)
StoppedIsRestarted == holder.requested ~> Running # 0
=============================================================================
