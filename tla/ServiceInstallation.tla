------------------------- MODULE ServiceInstallation -------------------------
(***************************************************************************)
(* The systemd user service of the daemon: the install, uninstall, start   *)
(* and stop commands of daemon/service.rs and the transaction on the unit  *)
(* file that the first two are built on.                                   *)
(*                                                                         *)
(* A command binds the definition it finds, stops what runs, exchanges the *)
(* unit file with its candidate (or moves it aside), drives systemctl, and *)
(* commits or goes back.  Any systemctl call may fail with or without its  *)
(* effect, any file operation may fail, the command may die, somebody else *)
(* may rewrite the unit file, and a foreground daemon, which the manager   *)
(* knows nothing of, may hold the PID lock.  One command runs at a time:   *)
(* the service-operation lease is tried, never waited for.                 *)
(***************************************************************************)
EXTENDS Naturals

CONSTANTS Executable,    \* daemon executables, by path
          MaxCommands,   \* commands in one behaviour
          MaxFaults      \* failed calls, deaths of a daemon and of a command

ASSUME ExecutableAssumption == "none" \notin Executable
ASSUME BoundsAssumption == MaxCommands \in Nat /\ MaxFaults \in Nat

VARIABLES
  disk,        \* what the unit file and the three names beside it hold
  hold,        \* state of the ServiceFilePublication or ServiceFileRemoval
  want,        \* the displaced file that the publication puts back
  loaded,      \* the definition the manager has loaded
  enabled,     \* is-enabled
  service,     \* the service's process: stopped, starting, up, or to be restarted
  running,     \* its executable
  foreground,  \* executable of the daemon that runs outside the service
  written,     \* definitions somebody else has written
  pc,          \* where the command is, or what the last one reported
  turn,        \* number of the command
  cmd,         \* what it was asked
  seen,        \* what it found: previous, was_active, was_enabled
  back,        \* what it goes back from
  faults

files    == <<disk, hold, want>>
manager  == <<loaded, enabled, service, running>>
outside  == <<foreground, written>>
command  == <<turn, cmd, seen>>
vars     == <<files, manager, outside, command, pc, back, faults>>

Names == {"unit", "candidate", "backup", "removed"}

(* A definition, and with "copy" its independent backup: the FileToken.     *)
Definition(by, n, exe) == [by |-> by, n |-> n, exe |-> exe, copy |-> FALSE]
None       == Definition("nobody", 0, "none")
Prior(e)   == Definition("prior", 0, e)
ByOther(e) == Definition("other", 0, e)
Copy(f)    == [by |-> f.by, n |-> f.n, exe |-> f.exe, copy |-> TRUE]
Originals  == {Prior(e) : e \in Executable} \cup {ByOther(e) : e \in Executable}
              \cup {Definition("command", n, e) : n \in 1..MaxCommands, e \in Executable}
Files      == Originals \cup {Copy(f) : f \in Originals} \cup {None}

New == Definition("command", turn, cmd.exe)   \* the definition being installed

Reports == {"idle", "refused", "unchanged", "failed", "restored", "incomplete",
            "installed", "uncommitted", "uninstalled", "unconfirmed", "started", "stopped", "dead"}
AtRest == pc \in Reports

Requests == [kind : {"install", "uninstall", "start", "stop"},
             exe : Executable, owner : Executable]

Init ==
  /\ \E f \in {Prior(e) : e \in Executable} \cup {None} :
       /\ disk = [x \in Names |-> IF x = "unit" THEN f ELSE None]
       /\ loaded = f
       /\ enabled \in IF f = None THEN {FALSE} ELSE BOOLEAN
       /\ service \in IF f = None THEN {"stopped"} ELSE {"stopped", "up"}
       /\ running = IF service = "up" THEN f.exe ELSE "none"
  /\ hold = "none" /\ want = None
  /\ foreground = "none" /\ written = {}
  /\ pc = "idle" /\ turn = 0 /\ back = "nothing"
  /\ cmd \in {r \in Requests : r.kind = "stop" /\ r.owner = r.exe}
  /\ seen = [previous |-> None, active |-> FALSE, enabled |-> FALSE]
  /\ faults = 0

Active == service \in {"starting", "up"}
Unsettled == service = "restarting"    \* "activating": systemctl_query refuses it

(* Who holds the PID lock: running_identity_checked.                        *)
Owner == IF foreground # "none" THEN foreground
         ELSE IF service = "up" THEN running ELSE "none"

Goto(label) == pc' = label
Fault == faults < MaxFaults /\ faults' = faults + 1
Put(x, f) == disk' = [disk EXCEPT ![x] = f]
Exchange == disk' = [disk EXCEPT !["unit"] = disk["candidate"], !["candidate"] = disk["unit"]]
Move(x, y) == disk' = IF disk[x] # None /\ disk[y] = None
                        THEN [disk EXCEPT ![x] = None, ![y] = disk[x]] ELSE disk

(* A query of systemctl, of the PID file or of a file's token may fail, like *)
(* a negative answer.                                                       *)
Ask(answer, ok, fail) ==
  \/ Goto(IF answer THEN ok ELSE fail) /\ UNCHANGED faults
  \/ Fault /\ Goto(fail)

(* systemctl_require: the call may fail having done its work or not.        *)
Call(effect, ok, fail) ==
  \/ effect /\ Goto(ok) /\ UNCHANGED faults
  \/ /\ Fault /\ Goto(fail)
     /\ effect \/ UNCHANGED manager

Start == IF Active \/ loaded = None THEN UNCHANGED <<service, running>>
         ELSE service' = "starting" /\ running' = loaded.exe
Stop  == service' = "stopped" /\ running' = "none"
Reload   == loaded' = disk["unit"] /\ UNCHANGED <<enabled, service, running>>
StartIt  == Start /\ UNCHANGED <<loaded, enabled>>
StopIt   == Stop /\ UNCHANGED <<loaded, enabled>>
Enable(b) == enabled' = b /\ UNCHANGED <<loaded, service, running>>

------------------------------------------------------------------------------
(* The manager and everybody else.                                          *)

(* write_pidfile_exclusive: a starting daemon takes the PID lock, or exits  *)
(* with a failure when another one holds it.                                *)
ServiceComesUp ==
  /\ service = "starting" /\ foreground = "none"
  /\ service' = "up"
  /\ UNCHANGED <<files, outside, command, loaded, enabled, running, pc, back, faults>>

ServiceFails ==
  /\ Active
  /\ IF service = "starting" /\ foreground # "none" THEN UNCHANGED faults ELSE Fault
  /\ service' \in {"restarting", "stopped"}
  /\ running' = "none"
  /\ UNCHANGED <<files, outside, command, loaded, enabled, pc, back>>

(* Restart=on-failure, RestartSec=10.                                       *)
ServiceRestarts ==
  /\ service = "restarting"
  /\ service' = "starting" /\ running' = loaded.exe
  /\ UNCHANGED <<files, outside, command, loaded, enabled, pc, back, faults>>

(* daemon start --foreground takes no service-operation lease.              *)
ForegroundStarts ==
  /\ Owner = "none"
  /\ foreground' \in Executable
  /\ UNCHANGED <<files, manager, command, written, pc, back, faults>>

ForegroundEnds ==
  /\ foreground # "none"
  /\ foreground' = "none"
  /\ UNCHANGED <<files, manager, command, written, pc, back, faults>>

SomebodyWrites ==
  /\ \E e \in Executable : /\ ByOther(e) \notin written
                           /\ Put("unit", ByOther(e))
                           /\ written' = written \cup {ByOther(e)}
  /\ UNCHANGED <<hold, want, manager, command, foreground, pc, back, faults>>

CommandDies ==
  /\ ~AtRest
  /\ Fault /\ Goto("dead") /\ hold' = "none" /\ back' = "nothing"
  /\ UNCHANGED <<disk, want, manager, outside, command>>

------------------------------------------------------------------------------
(* The beginning of every command.                                          *)

Begin ==
  /\ AtRest /\ turn < MaxCommands
  /\ turn' = turn + 1
  /\ cmd' \in {r \in Requests : r.kind # "install" => r.owner = r.exe}
  /\ Goto("read")
  /\ hold' = "none" /\ want' = None /\ back' = "nothing"
  /\ UNCHANGED <<disk, manager, outside, seen, faults>>

(* The definition is bound and its ExecStart compared with the executable   *)
(* that has to own it.                                                      *)
Read ==
  /\ pc = "read"
  /\ LET unit == disk["unit"] IN
     /\ seen' = [seen EXCEPT !.previous = unit]
     /\ Goto(IF unit = None
               THEN IF cmd.kind = "install" /\ cmd.owner = cmd.exe THEN "query" ELSE "refused"
             ELSE IF unit.exe # cmd.owner THEN "refused"
             ELSE IF cmd.kind # "start" THEN "query"
             ELSE IF Owner = "none" THEN "start" ELSE "refused")
  /\ UNCHANGED <<files, manager, outside, turn, cmd, back, faults>>

(* systemctl is-active; then, unless the service is only to be stopped,     *)
(* is-enabled; then, for an installation, the last require_service_snapshot *)
(* before anything is changed.                                              *)
Query ==
  /\ pc = "query"
  /\ seen' = [seen EXCEPT !.active = Active]
  /\ \/ /\ UNCHANGED faults
        /\ Goto(IF Unsettled THEN "refused"
                ELSE IF cmd.kind # "stop" THEN "queryEnabled"
                ELSE IF Active THEN "stop" ELSE "stopWait")
     \/ Fault /\ Goto("refused")
  /\ UNCHANGED <<files, manager, outside, turn, cmd, back>>

QueryEnabled ==
  /\ pc = "queryEnabled"
  /\ seen' = [seen EXCEPT !.enabled = enabled]
  /\ \/ /\ UNCHANGED faults
        /\ Goto(IF cmd.kind = "uninstall" THEN "disableNow"
                ELSE IF seen.previous = None /\ (seen.active \/ enabled) THEN "refused"
                ELSE "compare")
     \/ Fault /\ Goto("refused")
  /\ UNCHANGED <<files, manager, outside, turn, cmd, back>>

Compare ==
  /\ pc = "compare"
  /\ Ask(disk["unit"] = seen.previous, IF seen.active THEN "stopOld" ELSE "checkDaemon", "refused")
  /\ UNCHANGED <<files, manager, outside, command, back>>

(* start_systemd and stop_systemd.                                          *)
StartInstalled ==
  /\ pc = "start"
  /\ Call(StartIt, "startCheck", "failed")
  /\ UNCHANGED <<files, outside, command, back>>

CheckStarted ==
  /\ pc = "startCheck"
  /\ Ask(Active, "startWait", "failed")
  /\ UNCHANGED <<files, manager, outside, command, back>>

(* wait_for_daemon_presence_after_service_start: the right executable holds *)
(* the PID lock, or another one does, or the time runs out first.           *)
AwaitStarted ==
  /\ pc = "startWait"
  /\ Goto(IF Owner = cmd.exe THEN "started" ELSE "failed")
  /\ UNCHANGED <<files, manager, outside, command, back, faults>>

StopInstalled ==
  /\ pc = "stop"
  /\ Call(StopIt, "stopWait", "failed")
  /\ UNCHANGED <<files, outside, command, back>>

(* wait_for_daemon_absence_after_service_stop.                              *)
AwaitStopped ==
  /\ pc = "stopWait"
  /\ Goto(IF Owner = "none" THEN "stopped" ELSE "failed")
  /\ UNCHANGED <<files, manager, outside, command, back, faults>>

------------------------------------------------------------------------------
(* install_systemd: what ran before is stopped.                             *)

StopOld ==
  /\ pc = "stopOld"
  /\ Call(StopIt, "settleOld", "recover")
  /\ UNCHANGED <<files, outside, command, back>>

SettleOld ==
  /\ pc = "settleOld"
  /\ Ask(service = "stopped" /\ Owner = "none" /\ disk["unit"] = seen.previous,
         "stage", "recover")
  /\ UNCHANGED <<files, manager, outside, command, back>>

(* An inactive service beside a daemon that runs detached.                  *)
CheckDaemon ==
  /\ pc = "checkDaemon"
  /\ Ask(Owner = "none" /\ disk["unit"] = seen.previous, "stage", "unchanged")
  /\ UNCHANGED <<files, manager, outside, command, back>>

(* restore_systemd_after_prepublication_stop.                               *)
Recover ==
  /\ pc = "recover"
  /\ back' = "preparation"
  /\ \/ /\ Goto(IF disk["unit"] # seen.previous \/ Unsettled THEN "incomplete"
                ELSE IF Active THEN "verify"
                ELSE IF Owner = "none" THEN "startBack" ELSE "incomplete")
        /\ UNCHANGED faults
     \/ Fault /\ Goto("incomplete")
  /\ UNCHANGED <<files, manager, outside, command>>

------------------------------------------------------------------------------
(* publish_service_file.                                                    *)

(* Both recovery names must be free; then the candidate is written.  What a *)
(* creation that failed could not remove again stays.                       *)
Stage ==
  /\ pc = "stage"
  /\ \/ /\ disk["candidate"] = None /\ disk["backup"] = None
        /\ Put("candidate", New)
        /\ \/ Goto(IF seen.previous = None THEN "place" ELSE "backup") /\ UNCHANGED faults
           \/ Fault /\ Goto("unpublished")
     \/ /\ disk["candidate"] # None \/ disk["backup"] # None
        /\ Goto("unpublished") /\ UNCHANGED <<disk, faults>>
     \/ Fault /\ Goto("unpublished") /\ UNCHANGED disk
  /\ UNCHANGED <<hold, want, manager, outside, command, back>>

(* The exclusive copy binds its source: a file that is no longer the one    *)
(* that was read is not copied, and the candidate is dropped.               *)
BackUp ==
  /\ pc = "backup"
  /\ \/ /\ disk["unit"] = seen.previous
        /\ Put("backup", Copy(seen.previous)) /\ Goto("bind")
        /\ UNCHANGED faults
     \/ /\ disk["unit"] # seen.previous
        /\ Put("candidate", None) /\ Goto("unpublished")
        /\ UNCHANGED faults
     \/ /\ Fault /\ Goto("unpublished")
        /\ \E b \in {disk["backup"], Copy(seen.previous)}, c \in {disk["candidate"], None} :
             /\ b = disk["backup"] \/ disk["unit"] = seen.previous
             /\ disk' = [disk EXCEPT !["backup"] = b, !["candidate"] = c]
  /\ UNCHANGED <<hold, want, manager, outside, command, back>>

(* The look before the exchange leaves candidate and backup where they are. *)
Bind ==
  /\ pc = "bind"
  /\ Ask(disk["unit"] = seen.previous, "exchange", "unpublished")
  /\ UNCHANGED <<files, manager, outside, command, back>>

Swap ==
  /\ pc = "exchange"
  /\ \/ Exchange /\ UNCHANGED faults
     \/ Fault /\ UNCHANGED disk
  /\ Goto("look")
  /\ UNCHANGED <<hold, want, manager, outside, command, back>>

(* The displaced file or unused candidate goes first, then the backup; a    *)
(* removal may also be done and not be durable.  What an unpublished        *)
(* candidate leaves is removed as far as that works.                        *)
Both == disk' = [disk EXCEPT !["candidate"] = None, !["backup"] = None]
PartOfBoth == Both \/ Put("candidate", None) \/ UNCHANGED disk
DropBoth ==
  \/ Both /\ UNCHANGED faults
  \/ Fault /\ (PartOfBoth \/ Put("backup", None))

(* Mutant of Published: the displaced file is not looked at.                *)
LiveOnly == disk["unit"] = New

(* What the exchange produced decides: published, somebody else's file      *)
(* displaced, not published, or none of these; where it cannot be read,     *)
(* everything is left as it is.                                             *)
Published == disk["unit"] = New /\ disk["candidate"] = seen.previous

Look ==
  /\ pc = "look"
  /\ \/ CASE Published ->
              \/ hold' = "pending" /\ Goto("reload") /\ UNCHANGED <<disk, want, back, faults>>
              \/ /\ Fault /\ hold' = "pending" /\ back' = "publication" /\ Goto("undo")
                 /\ UNCHANGED <<disk, want>>
         [] disk["unit"] = New /\ ~Published ->
              want' = disk["candidate"] /\ Goto("putBack") /\ UNCHANGED <<disk, hold, back, faults>>
         [] disk["unit"] = seen.previous /\ disk["candidate"] = New ->
              DropBoth /\ Goto("unpublished") /\ UNCHANGED <<hold, want, back>>
         [] OTHER -> Goto("unpublished") /\ UNCHANGED <<files, back, faults>>
     \/ Fault /\ Goto("unpublished") /\ UNCHANGED <<files, back>>
  /\ UNCHANGED <<manager, outside, command>>

PutBack ==
  /\ pc = "putBack"
  /\ \/ Exchange /\ UNCHANGED faults
     \/ Fault /\ UNCHANGED disk
  /\ Goto("lookBack")
  /\ UNCHANGED <<hold, want, manager, outside, command, back>>

LookBack ==
  /\ pc = "lookBack"
  /\ IF disk["unit"] = want /\ disk["candidate"] = New
       THEN DropBoth ELSE UNCHANGED <<disk, faults>>
  /\ Goto("unpublished")
  /\ UNCHANGED <<hold, want, manager, outside, command, back>>

(* Without a previous definition: rename_noreplace.                         *)
Place ==
  /\ pc = "place"
  /\ \/ Move("candidate", "unit") /\ UNCHANGED faults
     \/ Fault /\ UNCHANGED disk
  /\ Goto("lookNew")
  /\ UNCHANGED <<hold, want, manager, outside, command, back>>

LookNew ==
  /\ pc = "lookNew"
  /\ \/ CASE disk["unit"] = New /\ disk["candidate"] = None ->
              \/ hold' = "pending" /\ Goto("reload") /\ UNCHANGED <<disk, back, faults>>
              \/ /\ Fault /\ hold' = "pending" /\ back' = "publication" /\ Goto("undo")
                 /\ UNCHANGED disk
         [] disk["candidate"] = New -> DropBoth /\ Goto("unpublished") /\ UNCHANGED <<hold, back>>
         [] OTHER -> Goto("unpublished") /\ UNCHANGED <<disk, hold, back, faults>>
     \/ Fault /\ Goto("unpublished") /\ UNCHANGED <<disk, hold, back>>
  /\ UNCHANGED <<want, manager, outside, command>>

(* Nothing was published: what ran is started again, if its definition is   *)
(* still the one that was read.                                             *)
Unpublished ==
  /\ pc = "unpublished"
  /\ back' = "publication"
  /\ Ask(seen.active /\ disk["unit"] = seen.previous, "startBack", "failed")
  /\ UNCHANGED <<files, manager, outside, command>>

------------------------------------------------------------------------------
(* install_systemd after the publication, and its commit.                   *)

ReloadNew ==
  /\ pc = "reload"
  /\ Call(Reload, "enableNow", "stopNew")
  /\ UNCHANGED <<files, outside, command, back>>

(* enable --now may stop half way.                                          *)
EnableNow ==
  /\ pc = "enableNow"
  /\ \/ Call(enabled' = TRUE /\ Start /\ UNCHANGED loaded, "checkNew", "stopNew")
     \/ Fault /\ Enable(TRUE) /\ Goto("stopNew")
  /\ UNCHANGED <<files, outside, command, back>>

CheckNew ==
  /\ pc = "checkNew"
  /\ Ask(enabled /\ Active, "awaitNew", "stopNew")
  /\ UNCHANGED <<files, manager, outside, command, back>>

AwaitNew ==
  /\ pc = "awaitNew"
  /\ Goto(IF Owner = cmd.exe THEN "commit" ELSE "stopNew")
  /\ UNCHANGED <<files, manager, outside, command, back, faults>>

(* ServiceFilePublication::commit; the error of an incomplete one does not  *)
(* take the installation back.                                              *)
Commit ==
  /\ pc = "commit"
  /\ IF disk["unit"] = New
       THEN \/ /\ Both
               /\ hold' = "finished" /\ Goto("installed") /\ UNCHANGED faults
            \/ /\ Fault /\ hold' = "preserved" /\ Goto("uncommitted")
               /\ PartOfBoth
       ELSE hold' = "preserved" /\ Goto("uncommitted") /\ UNCHANGED <<disk, faults>>
  /\ UNCHANGED <<want, manager, outside, command, back>>

(* rollback_systemd_install.                                                *)
StopNew ==
  /\ pc = "stopNew"
  /\ Call(StopIt, "settleNew", "settleNew")
  /\ back' = "installation"
  /\ UNCHANGED <<files, outside, command>>

(* Mutant of SettleNew: the way back forgets the enablement of a service    *)
(* that was not enabled.                                                    *)
LeavesEnablement ==
  /\ pc = "settleNew"
  /\ Ask(service = "stopped" /\ Owner = "none", "undo", "incomplete")
  /\ UNCHANGED <<files, manager, outside, command, back>>

SettleNew ==
  /\ pc = "settleNew"
  /\ Ask(service = "stopped" /\ Owner = "none",
         IF seen.enabled THEN "undo" ELSE "disableNew", "incomplete")
  /\ UNCHANGED <<files, manager, outside, command, back>>

DisableNew ==
  /\ pc = "disableNew"
  /\ Call(Enable(FALSE), "undo", "incomplete")
  /\ UNCHANGED <<files, outside, command, back>>

(* Mutant of Undone: the definition that was put back is not reloaded.      *)
SkipsReload == IF back = "publication" THEN "unpublished"
               ELSE IF seen.previous = None THEN "runBack" ELSE "enableBack"

(* ServiceFilePublication::rollback.  From the publication its failure ends *)
(* in the publication's own error.                                          *)
Undone    == IF back = "publication" THEN "unpublished" ELSE "reloadBack"
NotUndone == IF back = "publication" THEN "unpublished" ELSE "incomplete"

Undo ==
  /\ pc = "undo"
  /\ CASE seen.previous # None ->
            /\ hold' = "preserved" /\ Goto(IF Published THEN "undoSwap" ELSE NotUndone)
            /\ UNCHANGED <<disk, faults>>
       [] seen.previous = None /\ disk["unit"] = New ->
            \/ hold' = "finished" /\ Put("unit", None) /\ Goto(Undone) /\ UNCHANGED faults
            \/ /\ Fault /\ hold' = "preserved" /\ Goto(NotUndone)
               /\ Put("unit", None) \/ UNCHANGED disk
       [] OTHER -> hold' = "preserved" /\ Goto(NotUndone) /\ UNCHANGED <<disk, faults>>
  /\ UNCHANGED <<want, manager, outside, command, back>>

UndoSwap ==
  /\ pc = "undoSwap"
  /\ \/ Exchange /\ UNCHANGED faults
     \/ Fault /\ UNCHANGED disk
  /\ Goto("undoLook")
  /\ UNCHANGED <<hold, want, manager, outside, command, back>>

UndoLook ==
  /\ pc = "undoLook"
  /\ IF disk["unit"] = seen.previous /\ disk["candidate"] = New
       THEN \/ /\ Both
               /\ hold' = "finished" /\ Goto(Undone) /\ UNCHANGED faults
            \/ /\ Fault /\ Goto(NotUndone) /\ UNCHANGED hold
               /\ PartOfBoth
       ELSE Goto(NotUndone) /\ UNCHANGED <<disk, hold, faults>>
  /\ UNCHANGED <<want, manager, outside, command, back>>

------------------------------------------------------------------------------
(* uninstall_systemd.                                                       *)

DisableNow ==
  /\ pc = "disableNow"
  /\ \/ Call(enabled' = FALSE /\ Stop /\ UNCHANGED loaded, "settleGone", "replace")
     \/ Fault /\ Enable(FALSE) /\ Goto("replace")
  /\ UNCHANGED <<files, outside, command, back>>

SettleGone ==
  /\ pc = "settleGone"
  /\ Ask(service = "stopped" /\ ~enabled /\ Owner = "none", "aside", "replace")
  /\ UNCHANGED <<files, manager, outside, command, back>>

(* begin_service_file_removal.                                              *)
Aside ==
  /\ pc = "aside"
  /\ Ask(disk["removed"] = None /\ disk["unit"] = seen.previous, "moveAside", "replace")
  /\ UNCHANGED <<files, manager, outside, command, back>>

MoveAside ==
  /\ pc = "moveAside"
  /\ \/ Move("unit", "removed") /\ UNCHANGED faults
     \/ Fault /\ UNCHANGED disk
  /\ Goto("lookAside")
  /\ UNCHANGED <<hold, want, manager, outside, command, back>>

LookAside ==
  /\ pc = "lookAside"
  /\ \/ CASE disk["unit"] = None /\ disk["removed"] = seen.previous ->
              \/ hold' = "pending" /\ Goto("reloadGone") /\ UNCHANGED faults
              \/ Fault /\ Goto("moveBack") /\ UNCHANGED hold
         [] disk["unit"] = None /\ disk["removed"] # seen.previous ->
              Goto("moveBack") /\ UNCHANGED <<hold, faults>>
         [] OTHER -> Goto("replace") /\ UNCHANGED <<hold, faults>>
     \/ Fault /\ Goto("replace") /\ UNCHANGED hold
  /\ UNCHANGED <<disk, want, manager, outside, command, back>>

(* The file that was moved aside returns, whoever wrote it, unless the name *)
(* was taken meanwhile.                                                     *)
MoveBack ==
  /\ pc = "moveBack"
  /\ \/ Move("removed", "unit") /\ UNCHANGED faults
     \/ Fault /\ UNCHANGED disk
  /\ Goto("replace")
  /\ UNCHANGED <<hold, want, manager, outside, command, back>>

ReloadGone ==
  /\ pc = "reloadGone"
  /\ Call(Reload, "commitGone", "replace")
  /\ UNCHANGED <<files, outside, command, back>>

(* ServiceFileRemoval::commit: a cleanup that failed leaves it pending; one *)
(* that was done but may not last is reported when everything is over.      *)
CommitGone ==
  /\ pc = "commitGone"
  /\ IF disk["unit"] = None
       THEN \/ /\ Put("removed", None) /\ hold' = "finished"
               /\ \/ Goto("uninstalled") /\ UNCHANGED faults
                  \/ Fault /\ Goto("unconfirmed")
            \/ Fault /\ Goto("replace") /\ UNCHANGED <<disk, hold>>
       ELSE hold' = "preserved" /\ Goto("replace") /\ UNCHANGED <<disk, faults>>
  /\ UNCHANGED <<want, manager, outside, command, back>>

(* rollback_systemd_uninstall with ServiceFileRemoval::rollback.            *)
Replace ==
  /\ pc = "replace"
  /\ back' = "removal"
  /\ CASE hold = "pending" ->
            IF disk["unit"] = None /\ disk["removed"] = seen.previous
              THEN \/ Move("removed", "unit") /\ hold' = "finished" /\ Goto("reloadBack")
                      /\ UNCHANGED faults
                   \/ /\ Fault /\ hold' = "preserved" /\ Goto("incomplete")
                      /\ Move("removed", "unit") \/ UNCHANGED disk
              ELSE hold' = "preserved" /\ Goto("incomplete") /\ UNCHANGED <<disk, faults>>
       [] hold # "pending" ->
            /\ Goto(IF hold = "none" /\ disk["unit"] = seen.previous
                      THEN "reloadBack" ELSE "incomplete")
            /\ UNCHANGED <<disk, hold, faults>>
  /\ UNCHANGED <<want, manager, outside, command>>

------------------------------------------------------------------------------
(* The common end of the ways back: reload, enablement, start, check.       *)

ReloadBack ==
  /\ pc = "reloadBack"
  /\ Call(Reload, IF seen.previous = None THEN "runBack" ELSE "enableBack", "incomplete")
  /\ UNCHANGED <<files, outside, command, back>>

EnableBack ==
  /\ pc = "enableBack"
  /\ Call(Enable(seen.enabled), "runBack", "incomplete")
  /\ UNCHANGED <<files, outside, command, back>>

(* An installation that goes back has stopped the service itself; a removal *)
(* asks whether it is active.  (It would also stop one that became active,  *)
(* which takes somebody else's systemctl start.)                            *)
RunBack ==
  /\ pc = "runBack"
  /\ \/ /\ IF back = "removal" /\ Unsettled THEN Goto("incomplete")
           ELSE IF seen.active /\ (back = "installation" \/ ~Active)
             THEN Goto(IF Owner = "none" THEN "startBack" ELSE "incomplete")
           ELSE IF back = "installation" /\ Owner # "none" THEN Goto("incomplete")
           ELSE Goto("verify")
        /\ UNCHANGED faults
     \/ Fault /\ Goto("incomplete")
  /\ UNCHANGED <<files, manager, outside, command, back>>

StartBack ==
  /\ pc = "startBack"
  /\ Call(StartIt, "awaitBack", IF back = "publication" THEN "failed" ELSE "incomplete")
  /\ UNCHANGED <<files, outside, command, back>>

AwaitBack ==
  /\ pc = "awaitBack"
  /\ Goto(IF back = "publication" THEN "failed"
          ELSE IF Owner = cmd.owner THEN "verify" ELSE "incomplete")
  /\ UNCHANGED <<files, manager, outside, command, back, faults>>

(* Only what systemctl and the PID lock then say is reported as restored.   *)
Verify ==
  /\ pc = "verify"
  /\ \/ /\ Goto(IF /\ enabled = seen.enabled /\ ~Unsettled /\ Active = seen.active
                    /\ (back = "installation" \/ ~seen.active \/ Owner = cmd.owner)
                 THEN "restored" ELSE "incomplete")
        /\ UNCHANGED faults
     \/ Fault /\ Goto("incomplete")
  /\ UNCHANGED <<files, manager, outside, command, back>>

------------------------------------------------------------------------------
Installing ==
  \/ StopOld \/ SettleOld \/ CheckDaemon \/ Recover
  \/ Stage \/ BackUp \/ Bind \/ Swap \/ Look \/ PutBack \/ LookBack \/ Place \/ LookNew
  \/ Unpublished \/ ReloadNew \/ EnableNow \/ CheckNew \/ AwaitNew \/ Commit
  \/ StopNew \/ SettleNew \/ DisableNew \/ Undo \/ UndoSwap \/ UndoLook

Uninstalling ==
  \/ DisableNow \/ SettleGone \/ Aside \/ MoveAside \/ LookAside \/ MoveBack
  \/ ReloadGone \/ CommitGone \/ Replace

GoingBack ==
  \/ ReloadBack \/ EnableBack \/ RunBack \/ StartBack \/ AwaitBack \/ Verify

StartingOrStopping ==
  StartInstalled \/ CheckStarted \/ AwaitStarted \/ StopInstalled \/ AwaitStopped

Others ==
  \/ ServiceComesUp \/ ServiceFails \/ ServiceRestarts
  \/ ForegroundStarts \/ ForegroundEnds \/ SomebodyWrites

Next ==
  \/ Begin \/ Read \/ Query \/ QueryEnabled \/ Compare \/ CommandDies
  \/ StartingOrStopping \/ Installing \/ Uninstalling \/ GoingBack \/ Others

Spec == Init /\ [][Next]_vars

------------------------------------------------------------------------------
TypeOK ==
  /\ disk \in [Names -> Files]
  /\ hold \in {"none", "pending", "finished", "preserved"}
  /\ want \in Files
  /\ loaded \in Files
  /\ enabled \in BOOLEAN
  /\ service \in {"stopped", "starting", "up", "restarting"}
  /\ running \in Executable \cup {"none"}
  /\ foreground \in Executable \cup {"none"}
  /\ written \subseteq {ByOther(e) : e \in Executable}
  /\ turn \in 0..MaxCommands
  /\ cmd \in Requests
  /\ seen \in [previous : Files, active : BOOLEAN, enabled : BOOLEAN]
  /\ back \in {"nothing", "preparation", "publication", "installation", "removal"}
  /\ faults \in 0..MaxFaults

(* A unit file that is gone leaves nothing behind that would start or run   *)
(* without a definition to own it (require_no_definitionless_systemd_       *)
(* service would then refuse every further command): whatever fails, and    *)
(* wherever a command dies, the file leaves last and returns first.         *)
NoOrphanService ==
  disk["unit"] = None => ~enabled /\ service = "stopped"

(* What a command reports is so when it reports it.  "Its prior definition, *)
(* enabled state, and active state were restored": nothing of the withdrawn *)
(* definition is left, on disk, in the manager or running, and the prior    *)
(* one lies at its place unless somebody has written another since.         *)
(* "Installed" and "uninstalled" leave no recovery file either, nor does an *)
(* uninstallation that "was applied" and whose durability is not confirmed. *)
(* What holds the PID lock as the service after "restored" is the prior     *)
(* executable; a process that is only starting may still lose the lock to a *)
(* foreground daemon.                                                       *)
Gone(f) == \A x \in Names : disk[x] # f

Restored ==
  /\ disk["unit"] \in {seen.previous} \cup written
  /\ \A x \in Names \ {"unit"} : seen.previous # None => disk[x] # seen.previous
  /\ back = "installation" => disk["candidate"] = None /\ disk["backup"] = None
  /\ enabled = seen.enabled /\ Active = seen.active
  /\ cmd.kind = "install" => Gone(New) /\ loaded # New
  /\ service = "up" /\ written = {} => running = cmd.owner

ReportsTruly ==
  pc' # pc =>
    /\ pc' = "restored" => Restored'
    /\ pc' = "unchanged" => (Gone(New) /\ loaded # New /\ enabled = seen.enabled)'
    /\ pc' = "installed" =>
         (/\ disk["unit"] = New /\ loaded = New /\ enabled
          /\ disk["candidate"] = None /\ disk["backup"] = None
          /\ Active => running = cmd.exe)'
    /\ pc' \in {"uninstalled", "unconfirmed"} =>
         (/\ disk = [disk EXCEPT !["unit"] = None, !["removed"] = None]
          /\ loaded = None /\ ~enabled /\ service = "stopped")'

OutcomeIsTrue == [][ReportsTruly]_vars

(* No definition disappears but at the end of a command that succeeded, and *)
(* then only the one it replaced or removed: an edit that somebody made     *)
(* while the command was under way is never taken for that one.  (A command *)
(* may drop its own candidate, and whoever writes the unit file takes the   *)
(* responsibility for what he overwrites.)                                  *)
Held(f) == \E x \in Names : disk[x] = f

LosesOnlyItsOwn ==
  \A f \in Originals : Held(f) /\ ~Held(f)' =>
    \/ pc \in {"commit", "commitGone"} /\ f = seen.previous
    \/ ~AtRest /\ f = New
    \/ written # written'

DefinitionsKept == [][LosesOnlyItsOwn]_vars
==============================================================================
