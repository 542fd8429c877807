---------------------------- MODULE DaemonIdentity ----------------------------
(***************************************************************************)
(* Which daemon is running: daemon/pidfile.rs, and the commands of         *)
(* daemon/mod.rs that start and stop one.                                  *)
(*                                                                         *)
(* A daemon holds the lock daemon.pid.lock for as long as it runs and      *)
(* publishes its generation in daemon.pid.  Everybody else learns about it *)
(* by trying that same lock, so a mere question takes it for a moment.     *)
(* `daemon stop' writes the generation it means into daemon.shutdown.      *)
(* Commands hold the service-operation lease; a foreground start, which is *)
(* what a service manager runs, does not.                                  *)
(***************************************************************************)
EXTENDS Naturals

CONSTANTS Daemon,      \* daemon processes, each one generation
          Command,     \* start, stop and self-update commands
          MaxCrashes,
          Nobody, Nothing, Partial, Unreadable

ASSUME IdentityAssumption ==
  /\ MaxCrashes \in Nat
  /\ {Nobody, Nothing, Partial, Unreadable} \cap (Daemon \cup Command) = {}
  /\ Daemon \cap Command = {} /\ Partial # Nothing /\ Unreadable # Nothing

VARIABLES
  lock,      \* holder of daemon.pid.lock
  pidfile,   \* generation in daemon.pid; Partial before it is written out
  request,   \* generation in daemon.shutdown
  lease,     \* holder of the service-operation lease
  at, ret,   \* where each process is, and where its question or cleanup returns
  answer,    \* what that question or cleanup returned
  target,    \* the generation a command stops or has spawned
  crashes

identityVars == <<lock, pidfile, request, lease, at, ret, answer, target, crashes>>

Process == Daemon \cup Command

IdentityInit ==
  /\ lock = Nobody /\ pidfile = Nothing /\ request = Nothing /\ lease = Nobody
  /\ at = [p \in Process |-> "unborn"]
  /\ ret = [p \in Process |-> "unborn"]
  /\ answer = [p \in Process |-> Nothing]
  /\ target = [c \in Command |-> Nothing]
  /\ crashes = 0

Enter(p, label) == at' = [at EXCEPT ![p] = label]
Invoke(p, routine, back) == /\ Enter(p, routine)
                            /\ ret' = [ret EXCEPT ![p] = back]
                            /\ answer' = [answer EXCEPT ![p] = Nothing]
Return(p, value) == /\ Enter(p, ret[p])
                    /\ ret' = [ret EXCEPT ![p] = "unborn"]
                    /\ answer' = [answer EXCEPT ![p] = value]
Leave(p, label) == /\ Enter(p, label)
                   /\ answer' = [answer EXCEPT ![p] = Nothing]
                   /\ ret' = [ret EXCEPT ![p] = "unborn"]
Running(d) == at[d] = "running"
Ended(p) == at[p] = "dead"
Freed(p) == lock' = IF lock = p THEN Nobody ELSE lock

------------------------------------------------------------------------------
(* running_pid_identity_checked_at: the file, then the lock.  A held lock   *)
(* makes the file, read once more, the answer.                              *)
AskFile(p) ==
  /\ at[p] = "ask"
  /\ answer' = [answer EXCEPT ![p] = pidfile]
  /\ Enter(p, "askLock")
  /\ UNCHANGED <<lock, pidfile, request, lease, ret, target, crashes>>

AskLock(p) ==
  /\ at[p] = "askLock"
  /\ IF lock = Nobody
       THEN lock' = p /\ Enter(p, "askHeld") /\ UNCHANGED <<answer, ret>>
       ELSE /\ Return(p, IF pidfile \in Daemon THEN pidfile ELSE Unreadable)
            /\ UNCHANGED lock
  /\ UNCHANGED <<pidfile, request, lease, target, crashes>>

AskRelease(p) ==
  /\ at[p] = "askHeld"
  /\ lock' = Nobody
  /\ Return(p, IF answer[p] = Partial THEN Unreadable ELSE Nothing)
  /\ UNCHANGED <<pidfile, request, lease, target, crashes>>

(* Mutant: the cleanup does not mind the lock.                              *)
CleanUnlocked(p) ==
  /\ at[p] = "clean"
  /\ Enter(p, "cleaning")
  /\ UNCHANGED <<lock, answer, pidfile, request, lease, ret, target, crashes>>

(* cleanup_pidfile_at: whatever identity is there goes, under the lock.     *)
CleanLock(p) ==
  /\ at[p] = "clean"
  /\ IF lock = Nobody
       THEN lock' = p /\ Enter(p, "cleaning") /\ UNCHANGED <<answer, ret>>
       ELSE Return(p, Unreadable) /\ UNCHANGED lock
  /\ UNCHANGED <<pidfile, request, lease, target, crashes>>

CleanRemove(p) ==
  /\ at[p] = "cleaning"
  /\ pidfile' = Nothing
  /\ Freed(p)
  /\ Return(p, Nothing)
  /\ UNCHANGED <<request, lease, target, crashes>>

------------------------------------------------------------------------------
(* The daemon: `daemon start --foreground'.                                 *)

Launch(d) ==
  /\ at[d] = "unborn"
  /\ Invoke(d, "ask", "checked")
  /\ UNCHANGED <<lock, pidfile, request, lease, target, crashes>>

Checked(d) ==
  /\ d \in Daemon /\ at[d] = "checked"
  /\ IF answer[d] = Nothing THEN Invoke(d, "clean", "cleaned")
     ELSE Leave(d, "dead")
  /\ UNCHANGED <<lock, pidfile, request, lease, target, crashes>>

Cleaned(d) ==
  /\ at[d] = "cleaned"
  /\ Leave(d, IF answer[d] = Nothing THEN "publish" ELSE "dead")
  /\ UNCHANGED <<lock, pidfile, request, lease, target, crashes>>

(* publish_pid_identity_at: lock, retire a request for another generation,  *)
(* create the file exclusively, write it.                                   *)
(* Mutant: requests are retired by whoever is about to lock.                *)
PublishLockRetiring(d) ==
  /\ at[d] = "publish"
  /\ request' = Nothing
  /\ IF lock = Nobody THEN lock' = d /\ Enter(d, "retire")
     ELSE Enter(d, "dead") /\ UNCHANGED lock
  /\ UNCHANGED <<pidfile, lease, ret, answer, target, crashes>>

(* Mutant: the exclusive creation of the file is thought to be enough.      *)
PublishUnlocked(d) ==
  /\ at[d] = "publish"
  /\ Enter(d, "retire")
  /\ UNCHANGED <<lock, pidfile, request, lease, ret, answer, target, crashes>>

PublishLock(d) ==
  /\ at[d] = "publish"
  /\ IF lock = Nobody THEN lock' = d /\ Enter(d, "retire")
     ELSE Enter(d, "dead") /\ UNCHANGED lock
  /\ UNCHANGED <<pidfile, request, lease, ret, answer, target, crashes>>

Retire(d) ==
  /\ at[d] = "retire"
  /\ request' = IF request = d THEN d ELSE Nothing
  /\ Enter(d, "create")
  /\ UNCHANGED <<lock, pidfile, lease, ret, answer, target, crashes>>

Create(d) ==
  /\ at[d] = "create"
  /\ IF pidfile = Nothing THEN pidfile' = Partial /\ Enter(d, "write") /\ UNCHANGED lock
     ELSE lock' = Nobody /\ Enter(d, "dead") /\ UNCHANGED pidfile
  /\ UNCHANGED <<request, lease, ret, answer, target, crashes>>

(* A write that fails takes its partial file away again.                    *)
Write(d) ==
  /\ at[d] = "write"
  /\ \/ pidfile' = d /\ Enter(d, "running") /\ UNCHANGED lock
     \/ pidfile' = Nothing /\ lock' = Nobody /\ Enter(d, "dead")
  /\ UNCHANGED <<request, lease, ret, answer, target, crashes>>

(* The loop ends on its own request or on a signal; the lock goes first,    *)
(* then the identity, by the same cleanup as everybody else's.              *)
Obey(d) ==
  /\ Running(d) /\ request = d
  /\ lock' = Nobody
  /\ Invoke(d, "clean", "dead")
  /\ UNCHANGED <<pidfile, request, lease, target, crashes>>

Signalled(d) ==
  /\ Running(d)
  /\ lock' = Nobody
  /\ Invoke(d, "clean", "dead")
  /\ UNCHANGED <<pidfile, request, lease, target, crashes>>

Crash(d) ==
  /\ at[d] \notin {"unborn", "dead"}
  /\ crashes < MaxCrashes /\ crashes' = crashes + 1
  /\ Freed(d)
  /\ Leave(d, "dead")
  /\ UNCHANGED <<pidfile, request, lease, target>>

------------------------------------------------------------------------------
(* The commands.  A command that finds the lease taken is refused.          *)

BeginCommand(c, first) ==
  /\ at[c] = "unborn"
  /\ IF lease = Nobody THEN lease' = c /\ Invoke(c, "ask", first)
     ELSE Leave(c, "dead") /\ UNCHANGED lease
  /\ UNCHANGED <<lock, pidfile, request, target, crashes>>

Finish(c) ==
  /\ lease' = IF lease = c THEN Nobody ELSE lease
  /\ Leave(c, "dead")

End(c) ==
  /\ at[c] = "end"
  /\ Finish(c)
  /\ UNCHANGED <<lock, pidfile, request, target, crashes>>

(* `daemon stop': what runs, that it still runs, the request, and then      *)
(* questions until another answer comes or patience ends.                   *)
StopTarget(c) ==
  /\ at[c] \in {"stopTarget", "updateTarget"}
  /\ IF answer[c] \in Daemon
       THEN /\ target' = [target EXCEPT ![c] = answer[c]]
            /\ Invoke(c, "ask", IF at[c] = "stopTarget" THEN "stopRequest" ELSE "updateRequest")
       ELSE /\ UNCHANGED target
            /\ IF answer[c] = Unreadable THEN Leave(c, "end")
               ELSE IF at[c] = "stopTarget" THEN Invoke(c, "clean", "end")
               ELSE Leave(c, "absence")
  /\ UNCHANGED <<lock, pidfile, request, lease, crashes>>

StopRequest(c) ==
  /\ at[c] \in {"stopRequest", "updateRequest"}
  /\ IF answer[c] = target[c]
       THEN /\ request' = target[c]
            /\ Invoke(c, "ask", IF at[c] = "stopRequest" THEN "stopWait" ELSE "updateWait")
       ELSE Leave(c, "end") /\ UNCHANGED request
  /\ UNCHANGED <<lock, pidfile, lease, target, crashes>>

(* wait_for_requested_generation_stop_with gives up after a while; the      *)
(* settling of a self-update does not, and ends with whatever else runs.    *)
StopWait(c) ==
  /\ at[c] \in {"stopWait", "updateWait"}
  /\ LET stop == at[c] = "stopWait"
     IN IF answer[c] \in {target[c], Unreadable}
          THEN \/ Invoke(c, "ask", at[c])
               \/ stop /\ Leave(c, "end")
          ELSE IF ~stop THEN Leave(c, "absence")
          ELSE IF answer[c] # Nothing THEN Leave(c, "end")
          ELSE Invoke(c, "clean", "end")
  /\ UNCHANGED <<lock, pidfile, request, lease, target, crashes>>

(* `daemon start': the child is the daemon; a child that loses the lock to  *)
(* another, or does not publish in time, is killed.                         *)
StartChecked(c) ==
  /\ at[c] = "startChecked"
  /\ IF answer[c] = Nothing THEN Invoke(c, "clean", "spawn") ELSE Leave(c, "end")
  /\ UNCHANGED <<lock, pidfile, request, lease, target, crashes>>

Spawn(c) ==
  /\ at[c] = "spawn"
  /\ IF answer[c] # Nothing
       THEN Leave(c, "end") /\ UNCHANGED target
       ELSE \E d \in Daemon :
              /\ at[d] = "unborn"
              /\ target' = [target EXCEPT ![c] = d]
              /\ at' = [at EXCEPT ![c] = "ask", ![d] = "ask"]
              /\ ret' = [ret EXCEPT ![c] = "awaitReady", ![d] = "checked"]
              /\ UNCHANGED answer
  /\ UNCHANGED <<lock, pidfile, request, lease, crashes>>

NoneLeft(c) ==
  /\ at[c] = "spawn" /\ answer[c] = Nothing /\ \A d \in Daemon : at[d] # "unborn"
  /\ Leave(c, "end")
  /\ UNCHANGED <<lock, pidfile, request, lease, target, crashes>>

Kill(c, d) ==
  /\ at' = [at EXCEPT ![c] = "end", ![d] = "dead"]
  /\ ret' = [ret EXCEPT ![d] = "unborn"]
  /\ answer' = [answer EXCEPT ![c] = Nothing, ![d] = Nothing]
  /\ Freed(d)

AwaitReady(c) ==
  /\ at[c] = "awaitReady"
  /\ LET d == target[c]
     IN \/ /\ Ended(d) \/ answer[c] = d
           /\ Leave(c, "end") /\ UNCHANGED lock
        \/ ~ Ended(d) /\ answer[c] \in Daemon \ {d} /\ Kill(c, d)
        \/ ~ Ended(d) /\ answer[c] \notin Daemon /\ Kill(c, d)
        \/ /\ ~ Ended(d) /\ answer[c] \notin Daemon
           /\ Invoke(c, "ask", "awaitReady") /\ UNCHANGED lock
  /\ UNCHANGED <<pidfile, request, lease, target, crashes>>

(* Self-update: with the daemon stopped, the lock is taken and kept, and    *)
(* only the identity of the generation that was stopped may be removed.     *)
AbsenceLock(c) ==
  /\ at[c] = "absence"
  /\ IF lock = Nobody THEN lock' = c /\ Enter(c, "absenceHeld")
     ELSE Enter(c, "contended") /\ UNCHANGED lock
  /\ UNCHANGED <<pidfile, request, lease, ret, answer, target, crashes>>

StaleAllowed(c) ==
  \/ pidfile \in {Nothing, target[c]}
  \/ pidfile \in Daemon /\ target[c] = Nothing
AbsenceHeld(c) ==
  /\ at[c] = "absenceHeld"
  /\ IF StaleAllowed(c)
       THEN pidfile' = Nothing /\ Enter(c, "absent") /\ UNCHANGED lock
       ELSE lock' = Nobody /\ Enter(c, "contended") /\ UNCHANGED pidfile
  /\ UNCHANGED <<request, lease, ret, answer, target, crashes>>

(* A lock that is taken or a file that is not understood is tried again,    *)
(* until another generation is seen, which is then the one to stop.         *)
Contended(c) ==
  /\ at[c] = "contended"
  /\ IF pidfile \in Daemon \ {target[c]}
       THEN target' = [target EXCEPT ![c] = pidfile] /\ Invoke(c, "ask", "updateRequest")
       ELSE Enter(c, "absence") /\ UNCHANGED <<ret, answer, target>>
  /\ UNCHANGED <<lock, pidfile, request, lease, crashes>>

AbsenceDrop(c) ==
  /\ at[c] = "absent"
  /\ lock' = Nobody
  /\ Enter(c, "end")
  /\ UNCHANGED <<pidfile, request, lease, ret, answer, target, crashes>>

(* A command killed at any point: the system drops its locks; a child it    *)
(* spawned lives on.                                                        *)
CommandCrash(c) ==
  /\ at[c] \notin {"unborn", "dead"}
  /\ crashes < MaxCrashes /\ crashes' = crashes + 1
  /\ Freed(c)
  /\ Finish(c)
  /\ UNCHANGED <<pidfile, request, target>>

------------------------------------------------------------------------------
Routine(p) == AskFile(p) \/ AskLock(p) \/ AskRelease(p) \/ CleanLock(p) \/ CleanRemove(p)

DaemonStep(d) ==
  \/ Routine(d) \/ Checked(d) \/ Cleaned(d) \/ PublishLock(d) \/ Retire(d)
  \/ Create(d) \/ Write(d) \/ Obey(d)

CommandStep(c) ==
  \/ Routine(c) \/ StopTarget(c) \/ StopRequest(c) \/ StopWait(c)
  \/ StartChecked(c) \/ Spawn(c) \/ NoneLeft(c) \/ AwaitReady(c)
  \/ AbsenceLock(c) \/ AbsenceHeld(c) \/ Contended(c) \/ AbsenceDrop(c) \/ End(c)

IdentityNext ==
  \/ \E d \in Daemon : DaemonStep(d) \/ Launch(d) \/ Signalled(d) \/ Crash(d)
  \/ \E c \in Command :
       \/ CommandStep(c) \/ CommandCrash(c)
       \/ \E first \in {"stopTarget", "startChecked", "updateTarget"} : BeginCommand(c, first)

Fairness == /\ \A d \in Daemon : WF_identityVars(DaemonStep(d))
            /\ \A c \in Command : WF_identityVars(CommandStep(c))

IdentitySpec == IdentityInit /\ [][IdentityNext]_identityVars /\ Fairness

------------------------------------------------------------------------------
(* Every variable holds a value of its kind, and who holds the lock or the  *)
(* lease is alive.                                                          *)
IdentityTypeOK ==
  /\ lock \in Process \cup {Nobody} /\ lease \in Command \cup {Nobody}
  /\ pidfile \in Daemon \cup {Nothing, Partial} /\ request \in Daemon \cup {Nothing}
  /\ \A p \in Process : answer[p] \in Daemon \cup {Nothing, Partial, Unreadable}
  /\ \A c \in Command : target[c] \in Daemon \cup {Nothing}
  /\ lock # Nobody => at[lock] \notin {"unborn", "dead"}
  /\ lease # Nobody => at[lease] \notin {"unborn", "dead"}
  /\ crashes \in 0 .. MaxCrashes

(* A daemon that runs holds the authority and is the one daemon.pid names,  *)
(* whatever is cleaned up, asked or started around it.                      *)
RunningIsNamed == \A d \in Daemon : Running(d) => lock = d /\ pidfile = d

(* While self-update holds the absence of the daemon, none runs and none is *)
(* named (DaemonAbsenceLease::verify never fails).                          *)
AbsenceIsAbsence ==
  \A c \in Command : at[c] = "absent" => pidfile = Nothing /\ lock = c

(* A generation that was asked to stop stops: its request survives every    *)
(* starter that clears requests and every other stop (pidfile.rs            *)
(* `cleanup_stale_shutdown_request_before_publication').                    *)
RequestedStops == \A d \in Daemon : (request = d /\ Running(d)) ~> Ended(d)

==============================================================================
