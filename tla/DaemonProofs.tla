---------------------------- MODULE DaemonProofs -----------------------------
(***************************************************************************)
(* What is proved of the daemon, as a process and as an installed service. *)
(*                                                                         *)
(* DaemonIdentity, for every set of daemons and commands: its types, that  *)
(* a running daemon has the authority and is the one the pid file names,   *)
(* and that the absence a self-update holds is an absence.                 *)
(*                                                                         *)
(* ServiceInstallation, for any executables and any number of commands and *)
(* faults: no command, whatever fails and wherever it dies, leaves the     *)
(* service enabled or running without its unit file, no definition is      *)
(* lost, what a command reports is so, and the types hold.                 *)
(***************************************************************************)
EXTENDS DaemonIdentity, ServiceInstallation, TLAPS

----------------------------------------------------------------------------
(* The daemon's identity                                                    *)

(* Where a process holds daemon.pid.lock, and where it is in a question or  *)
(* a cleanup; where these return to, for a daemon and for a command.        *)
Holding == {"askHeld", "cleaning", "retire", "create", "write", "running",
            "absenceHeld", "absent"}
InRoutine == {"ask", "askLock", "askHeld", "clean", "cleaning"}
DaemonBack == {"checked", "cleaned", "dead"}
CommandBack == {"startChecked", "stopTarget", "updateTarget", "stopRequest", "updateRequest",
                "stopWait", "updateWait", "spawn", "awaitReady", "end"}

Labels(f) == f = [p \in Process |-> f[p]]

Kinds ==
  /\ lock \in Process \cup {Nobody} /\ lease \in Command \cup {Nobody}
  /\ pidfile \in Daemon \cup {Nothing, Partial} /\ request \in Daemon \cup {Nothing}
  /\ Labels(at) /\ Labels(ret)
  /\ answer \in [Process -> Daemon \cup {Nothing, Partial, Unreadable}]
  /\ target \in [Command -> Daemon \cup {Nothing}]
  /\ crashes \in 0 .. MaxCrashes

(* The lock is held exactly by whoever is where it is held.                 *)
LockHeld == \A p \in Process : at[p] \in Holding <=> lock = p

(* What daemon.pid says while somebody holds the lock for it.               *)
FileFits ==
  \A p \in Process : /\ at[p] = "write" => pidfile = Partial
                     /\ at[p] = "running" => pidfile = p
                     /\ at[p] = "absent" => pidfile = Nothing

RoutinesReturn ==
  /\ \A d \in Daemon : at[d] \in InRoutine => ret[d] \in DaemonBack
  /\ \A c \in Command : at[c] \in InRoutine => ret[c] \in CommandBack

(* A command waits for the daemon it spawned.                               *)
ChildNamed ==
  \A c \in Command :
    (at[c] = "awaitReady" \/ (at[c] \in InRoutine /\ ret[c] = "awaitReady")) => target[c] \in Daemon

LeaseAlive == lease # Nobody => at[lease] \notin {"unborn", "dead"}

IdentityInv == Kinds /\ LockHeld /\ FileFits /\ RoutinesReturn /\ ChildNamed /\ LeaseAlive

(* Who is who.                                                              *)
LEMMA IdentityApart ==
  /\ Nobody \notin Process /\ Nothing \notin Process /\ Partial \notin Process
  /\ Unreadable \notin Process /\ Partial # Nothing /\ Unreadable # Nothing
  /\ MaxCrashes \in Nat /\ Process = Daemon \cup Command
  /\ \A d \in Daemon, c \in Command : d # c
BY IdentityAssumption DEF Process

(* Nothing has begun.                                                       *)
LEMMA IdentityInitGood == IdentityInit => IdentityInv
<1> SUFFICES ASSUME IdentityInit PROVE IdentityInv
  OBVIOUS
<1>1. Kinds
  <2>1. Labels(at) /\ Labels(ret)
    BY DEF IdentityInit, Labels
  <2>2. answer \in [Process -> Daemon \cup {Nothing, Partial, Unreadable}] /\ target \in [Command -> Daemon \cup {Nothing}]
    BY DEF IdentityInit
  <2>3. crashes \in 0..MaxCrashes
    BY IdentityApart DEF IdentityInit
  <2> QED
    BY <2>1, <2>2, <2>3 DEF IdentityInit, Kinds
<1>2. \A p \in Process : at[p] = "unborn" /\ lock # p
  BY IdentityApart DEF IdentityInit
<1>3. LockHeld /\ FileFits
  BY <1>2 DEF LockHeld, FileFits, Holding
<1>4. RoutinesReturn /\ ChildNamed /\ LeaseAlive
  BY <1>2, IdentityApart DEF IdentityInit, RoutinesReturn, ChildNamed, LeaseAlive, InRoutine
<1> QED
  BY <1>1, <1>3, <1>4 DEF IdentityInv

----------------------------------------------------------------------------
(* A step of one process                                                    *)

(* What it has to respect when it goes to `label', would return `back' and  *)
(* has seen `v': only the lock's holder changes the file, and nobody takes  *)
(* what others hold.                                                        *)
Progress(p, label, origin, v) ==
  /\ v \in Daemon \cup {Nothing, Partial, Unreadable} /\ answer' = [answer EXCEPT ![p] = v]
  /\ pidfile' \in Daemon \cup {Nothing, Partial} /\ request' \in Daemon \cup {Nothing}
  /\ lease' \in Command \cup {Nobody}
  /\ target' \in [Command -> Daemon \cup {Nothing}] /\ crashes' \in 0 .. MaxCrashes
  /\ at' = [at EXCEPT ![p] = label] /\ ret' = [ret EXCEPT ![p] = origin]
  /\ lock' = lock \/ (lock \in {p, Nobody} /\ lock' \in {p, Nobody})
  /\ label \in Holding <=> lock' = p
  /\ pidfile' = pidfile \/ lock = p
  /\ label = "write" => pidfile' = Partial
  /\ label = "running" => pidfile' = p
  /\ label = "absent" => pidfile' = Nothing
  /\ label \in InRoutine => /\ p \in Daemon => origin \in DaemonBack
                            /\ p \in Command => origin \in CommandBack
  /\ \A c \in Command : c # p => target'[c] = target[c]
  /\ p \in Command /\ (label = "awaitReady" \/ (label \in InRoutine /\ origin = "awaitReady"))
       => target'[p] \in Daemon
  /\ lease' \in {lease, p, Nobody}
  /\ lease' = p => label \notin {"unborn", "dead"}

LEMMA Progressed ==
  ASSUME IdentityInv, NEW p \in Process, NEW label, NEW origin, NEW v, Progress(p, label, origin, v)
  PROVE  IdentityInv'
<1>1. Kinds /\ Kinds'
  <2>1. Kinds
    BY DEF IdentityInv
  <2>2. Labels(at') /\ Labels(ret')
    BY <2>1 DEF Progress, Kinds, Labels
  <2>3. answer' \in [Process -> Daemon \cup {Nothing, Partial, Unreadable}]
    BY <2>1 DEF Progress, Kinds
  <2>4. lock' \in Process \cup {Nobody}
    BY <2>1 DEF Progress, Kinds
  <2> QED
    BY <2>1, <2>2, <2>3, <2>4 DEF Progress, Kinds
<1>2. /\ at'[p] = label /\ ret'[p] = origin
      /\ \A q \in Process : q # p => at'[q] = at[q] /\ ret'[q] = ret[q]
  BY <1>1 DEF Progress, Kinds, Labels
<1>3. LockHeld'
  <2> SUFFICES ASSUME NEW q \in Process PROVE at'[q] \in Holding <=> lock' = q
    BY DEF LockHeld
  <2>1. CASE q = p
    BY <1>2, <2>1 DEF Progress
  <2>2. CASE q # p
    BY <1>2, <2>2, IdentityApart DEF Progress, IdentityInv, LockHeld
  <2> QED
    BY <2>1, <2>2
<1>4. FileFits'
  <2> SUFFICES ASSUME NEW q \in Process
               PROVE  /\ at'[q] = "write" => pidfile' = Partial
                      /\ at'[q] = "running" => pidfile' = q
                      /\ at'[q] = "absent" => pidfile' = Nothing
    BY DEF FileFits
  <2>1. CASE q = p
    BY <1>2, <2>1 DEF Progress
  <2>2. CASE q # p /\ pidfile' = pidfile
    BY <1>2, <2>2 DEF IdentityInv, FileFits
  <2>3. CASE q # p /\ lock = p
    BY <1>2, <2>3 DEF IdentityInv, LockHeld, Holding
  <2> QED
    BY <2>1, <2>2, <2>3 DEF Progress
<1>5. RoutinesReturn'
  <2>1. \A d \in Daemon : at'[d] \in InRoutine => ret'[d] \in DaemonBack
    <3> SUFFICES ASSUME NEW d \in Daemon PROVE at'[d] \in InRoutine => ret'[d] \in DaemonBack
      OBVIOUS
    <3>1. CASE d = p
      BY <1>2, <3>1 DEF Progress
    <3>2. CASE d # p
      BY <1>2, <3>2, IdentityApart DEF IdentityInv, RoutinesReturn
    <3> QED
      BY <3>1, <3>2
  <2>2. \A c \in Command : at'[c] \in InRoutine => ret'[c] \in CommandBack
    <3> SUFFICES ASSUME NEW c \in Command PROVE at'[c] \in InRoutine => ret'[c] \in CommandBack
      OBVIOUS
    <3>1. CASE c = p
      BY <1>2, <3>1 DEF Progress
    <3>2. CASE c # p
      BY <1>2, <3>2, IdentityApart DEF IdentityInv, RoutinesReturn
    <3> QED
      BY <3>1, <3>2
  <2> QED
    BY <2>1, <2>2 DEF RoutinesReturn
<1>6. ChildNamed'
  <2> SUFFICES ASSUME NEW c \in Command,
                      at'[c] = "awaitReady" \/ (at'[c] \in InRoutine /\ ret'[c] = "awaitReady")
               PROVE  target'[c] \in Daemon
    BY DEF ChildNamed
  <2>1. CASE c = p
    BY <1>2, <2>1 DEF Progress
  <2>2. CASE c # p
    BY <1>2, <2>2, IdentityApart DEF Progress, IdentityInv, ChildNamed
  <2> QED
    BY <2>1, <2>2
<1>7. LeaseAlive'
  <2>1. CASE lease' = lease /\ lease # p
    BY <1>1, <1>2, <2>1, IdentityApart DEF IdentityInv, LeaseAlive, Kinds
  <2>2. CASE lease' = p
    BY <1>2, <2>2 DEF Progress, LeaseAlive
  <2>3. CASE lease' = Nobody
    BY <2>3 DEF LeaseAlive
  <2>4. lease' \in {lease, p, Nobody}
    BY DEF Progress
  <2> QED
    BY <2>1, <2>2, <2>3, <2>4
<1> QED
  BY <1>1, <1>3, <1>4, <1>5, <1>6, <1>7 DEF IdentityInv

(* What holds of a process before its step.                                 *)
LEMMA Before ==
  ASSUME IdentityInv, NEW p \in Process
  PROVE  /\ Kinds /\ (at[p] \in Holding <=> lock = p) /\ p # Nobody
         /\ answer[p] \in Daemon \cup {Nothing, Partial, Unreadable}
         /\ at[p] \in InRoutine => /\ p \in Daemon => ret[p] \in DaemonBack
                                   /\ p \in Command => ret[p] \in CommandBack
         /\ p \in Command /\ (at[p] = "awaitReady" \/ (at[p] \in InRoutine /\ ret[p] = "awaitReady"))
              => target[p] \in Daemon
         /\ lease = p => p \in Command /\ at[p] \notin {"unborn", "dead"}
         /\ ret' = ret => ret' = [ret EXCEPT ![p] = ret[p]]
         /\ answer' = answer => answer' = [answer EXCEPT ![p] = answer[p]]
         /\ target' = target => target' \in [Command -> Daemon \cup {Nothing}]
         /\ pidfile' = pidfile => pidfile' \in Daemon \cup {Nothing, Partial}
         /\ request' = request => request' \in Daemon \cup {Nothing}
         /\ lease' = lease => lease' \in Command \cup {Nobody}
         /\ crashes' = crashes => crashes' \in 0 .. MaxCrashes
BY IdentityApart DEF IdentityInv, Kinds, Labels, LockHeld, RoutinesReturn, ChildNamed, LeaseAlive

----------------------------------------------------------------------------
(* The question and the cleanup                                             *)

LEMMA AskFileGood ==
  ASSUME IdentityInv, NEW p \in Process, AskFile(p)
  PROVE  IdentityInv'
<1>1. Progress(p, "askLock", ret[p], pidfile)
  BY Before DEF AskFile, Enter, Kinds, Progress, Holding, InRoutine
<1> QED
  BY <1>1, Progressed

LEMMA AskLockGood ==
  ASSUME IdentityInv, NEW p \in Process, AskLock(p)
  PROVE  IdentityInv'
<1>1. CASE lock = Nobody
  <2>1. Progress(p, "askHeld", ret[p], answer[p])
    BY <1>1, Before DEF AskLock, Enter, Progress, Holding, InRoutine
  <2> QED
    BY <2>1, Progressed
<1>2. CASE lock # Nobody
  <2>1. Progress(p, ret[p], "unborn", IF pidfile \in Daemon THEN pidfile ELSE Unreadable)
    BY <1>2, Before, IdentityApart DEF AskLock, Enter, Return, Progress, Holding, InRoutine, DaemonBack, CommandBack
  <2> QED
    BY <2>1, Progressed
<1> QED
  BY <1>1, <1>2

LEMMA AskReleaseGood ==
  ASSUME IdentityInv, NEW p \in Process, AskRelease(p)
  PROVE  IdentityInv'
<1>1. Progress(p, ret[p], "unborn", IF answer[p] = Partial THEN Unreadable ELSE Nothing)
  BY Before, IdentityApart DEF AskRelease, Return, Enter, Progress, Holding, InRoutine, DaemonBack, CommandBack
<1> QED
  BY <1>1, Progressed

LEMMA CleanLockGood ==
  ASSUME IdentityInv, NEW p \in Process, CleanLock(p)
  PROVE  IdentityInv'
<1>1. CASE lock = Nobody
  <2>1. Progress(p, "cleaning", ret[p], answer[p])
    BY <1>1, Before, IdentityApart DEF CleanLock, Return, Enter, Progress, Holding, InRoutine, DaemonBack, CommandBack
  <2> QED
    BY <2>1, Progressed
<1>2. CASE lock # Nobody
  <2>1. Progress(p, ret[p], "unborn", Unreadable)
    BY <1>2, Before, IdentityApart DEF CleanLock, Return, Enter, Progress, Holding, InRoutine, DaemonBack, CommandBack
  <2> QED
    BY <2>1, Progressed
<1> QED
  BY <1>1, <1>2 DEF CleanLock

LEMMA CleanRemoveGood ==
  ASSUME IdentityInv, NEW p \in Process, CleanRemove(p)
  PROVE  IdentityInv'
<1>1. Progress(p, ret[p], "unborn", Nothing)
  BY Before, IdentityApart DEF CleanRemove, Return, Enter, Freed, Progress, Holding, InRoutine, DaemonBack, CommandBack
<1> QED
  BY <1>1, Progressed

(* Every process asks and cleans up alike.                                  *)
LEMMA RoutineGood ==
  ASSUME IdentityInv, NEW p \in Process, Routine(p)
  PROVE  IdentityInv'
BY AskFileGood, AskLockGood, AskReleaseGood, CleanLockGood, CleanRemoveGood DEF Routine

----------------------------------------------------------------------------
(* The daemon                                                               *)

LEMMA LaunchGood ==
  ASSUME IdentityInv, NEW d \in Daemon, Launch(d)
  PROVE  IdentityInv'
<1>0. d \in Process
  BY IdentityApart
<1>1. Progress(d, "ask", "checked", Nothing)
  BY <1>0, Before, IdentityApart DEF Launch, Invoke, Enter, Progress, Holding, InRoutine, DaemonBack, CommandBack
<1> QED
  BY <1>0, <1>1, Progressed

LEMMA CheckedGood ==
  ASSUME IdentityInv, NEW d \in Daemon, Checked(d)
  PROVE  IdentityInv'
<1>0. d \in Process
  BY IdentityApart
<1>1. CASE answer[d] = Nothing
  <2>1. Progress(d, "clean", "cleaned", Nothing)
    BY <1>0, <1>1, Before, IdentityApart DEF Checked, Invoke, Leave, Enter, Progress, Holding, InRoutine, DaemonBack, CommandBack
  <2> QED
    BY <1>0, <2>1, Progressed
<1>2. CASE answer[d] # Nothing
  <2>1. Progress(d, "dead", "unborn", Nothing)
    BY <1>0, <1>2, Before, IdentityApart DEF Checked, Invoke, Leave, Enter, Progress, Holding, InRoutine, DaemonBack, CommandBack
  <2> QED
    BY <1>0, <2>1, Progressed
<1> QED
  BY <1>1, <1>2 DEF Checked

LEMMA CleanedGood ==
  ASSUME IdentityInv, NEW d \in Daemon, Cleaned(d)
  PROVE  IdentityInv'
<1>0. d \in Process
  BY IdentityApart
<1>1. Progress(d, IF answer[d] = Nothing THEN "publish" ELSE "dead", "unborn", Nothing)
  BY <1>0, Before, IdentityApart DEF Cleaned, Leave, Enter, Progress, Holding, InRoutine, DaemonBack, CommandBack
<1> QED
  BY <1>0, <1>1, Progressed

LEMMA PublishLockGood ==
  ASSUME IdentityInv, NEW d \in Daemon, PublishLock(d)
  PROVE  IdentityInv'
<1>0. d \in Process
  BY IdentityApart
<1>1. CASE lock = Nobody
  <2>1. Progress(d, "retire", ret[d], answer[d])
    BY <1>0, <1>1, Before, IdentityApart DEF PublishLock, Enter, Progress, Holding, InRoutine, DaemonBack, CommandBack
  <2> QED
    BY <1>0, <2>1, Progressed
<1>2. CASE lock # Nobody
  <2>1. Progress(d, "dead", ret[d], answer[d])
    BY <1>0, <1>2, Before, IdentityApart DEF PublishLock, Enter, Progress, Holding, InRoutine, DaemonBack, CommandBack
  <2> QED
    BY <1>0, <2>1, Progressed
<1> QED
  BY <1>1, <1>2 DEF PublishLock

LEMMA RetireGood ==
  ASSUME IdentityInv, NEW d \in Daemon, Retire(d)
  PROVE  IdentityInv'
<1>0. d \in Process
  BY IdentityApart
<1>1. Progress(d, "create", ret[d], answer[d])
  BY <1>0, Before, IdentityApart DEF Retire, Enter, Progress, Holding, InRoutine, DaemonBack, CommandBack
<1> QED
  BY <1>0, <1>1, Progressed

LEMMA CreateGood ==
  ASSUME IdentityInv, NEW d \in Daemon, Create(d)
  PROVE  IdentityInv'
<1>0. d \in Process
  BY IdentityApart
<1>1. CASE pidfile = Nothing
  <2>1. Progress(d, "write", ret[d], answer[d])
    BY <1>0, <1>1, Before, IdentityApart DEF Create, Enter, Progress, Holding, InRoutine, DaemonBack, CommandBack
  <2> QED
    BY <1>0, <2>1, Progressed
<1>2. CASE pidfile # Nothing
  <2>1. Progress(d, "dead", ret[d], answer[d])
    BY <1>0, <1>2, Before, IdentityApart DEF Create, Enter, Progress, Holding, InRoutine, DaemonBack, CommandBack
  <2> QED
    BY <1>0, <2>1, Progressed
<1> QED
  BY <1>1, <1>2 DEF Create

LEMMA WriteGood ==
  ASSUME IdentityInv, NEW d \in Daemon, Write(d)
  PROVE  IdentityInv'
<1>0. d \in Process
  BY IdentityApart
<1>1. CASE pidfile' = d /\ Enter(d, "running") /\ UNCHANGED lock
  <2>1. Progress(d, "running", ret[d], answer[d])
    BY <1>0, <1>1, Before, IdentityApart DEF Write, Enter, Progress, Holding, InRoutine, DaemonBack, CommandBack
  <2> QED
    BY <1>0, <2>1, Progressed
<1>2. CASE pidfile' = Nothing /\ lock' = Nobody /\ Enter(d, "dead")
  <2>1. Progress(d, "dead", ret[d], answer[d])
    BY <1>0, <1>2, Before, IdentityApart DEF Write, Enter, Progress, Holding, InRoutine, DaemonBack, CommandBack
  <2> QED
    BY <1>0, <2>1, Progressed
<1> QED
  BY <1>1, <1>2 DEF Write

LEMMA ObeyGood ==
  ASSUME IdentityInv, NEW d \in Daemon, Obey(d)
  PROVE  IdentityInv'
<1>0. d \in Process
  BY IdentityApart
<1>1. Progress(d, "clean", "dead", Nothing)
  BY <1>0, Before, IdentityApart DEF Obey, Running, Invoke, Enter, Progress, Holding, InRoutine, DaemonBack, CommandBack
<1> QED
  BY <1>0, <1>1, Progressed

LEMMA SignalledGood ==
  ASSUME IdentityInv, NEW d \in Daemon, Signalled(d)
  PROVE  IdentityInv'
<1>0. d \in Process
  BY IdentityApart
<1>1. Progress(d, "clean", "dead", Nothing)
  BY <1>0, Before, IdentityApart DEF Signalled, Running, Invoke, Enter, Progress, Holding, InRoutine, DaemonBack, CommandBack
<1> QED
  BY <1>0, <1>1, Progressed

LEMMA CrashGood ==
  ASSUME IdentityInv, NEW d \in Daemon, Crash(d)
  PROVE  IdentityInv'
<1>0. d \in Process
  BY IdentityApart
<1>1. crashes' \in 0 .. MaxCrashes
  BY IdentityApart DEF Crash, IdentityInv, Kinds
<1>2. Progress(d, "dead", "unborn", Nothing)
  BY <1>0, <1>1, Before, IdentityApart DEF Crash, Leave, Enter, Freed, Progress, Holding, InRoutine, DaemonBack, CommandBack
<1> QED
  BY <1>0, <1>2, Progressed

(* What a daemon does or suffers.                                           *)
LEMMA DaemonGood ==
  ASSUME IdentityInv, NEW d \in Daemon, DaemonStep(d) \/ Launch(d) \/ Signalled(d) \/ Crash(d)
  PROVE  IdentityInv'
<1>1. d \in Process
  BY IdentityApart
<1> QED
  BY <1>1, RoutineGood, CheckedGood, CleanedGood, PublishLockGood, RetireGood, CreateGood,
     WriteGood, ObeyGood, LaunchGood, SignalledGood, CrashGood DEF DaemonStep

----------------------------------------------------------------------------
(* The commands                                                             *)

LEMMA BeginGood ==
  ASSUME IdentityInv, NEW c \in Command, NEW first \in {"stopTarget", "startChecked", "updateTarget"}, BeginCommand(c, first)
  PROVE  IdentityInv'
<1>0. c \in Process
  BY IdentityApart
<1>1. CASE lease = Nobody
  <2>1. Progress(c, "ask", first, Nothing)
    BY <1>0, <1>1, Before, IdentityApart DEF BeginCommand, Invoke, Leave, Enter, Progress, Holding, InRoutine, DaemonBack, CommandBack
  <2> QED
    BY <1>0, <2>1, Progressed
<1>2. CASE lease # Nobody
  <2>1. Progress(c, "dead", "unborn", Nothing)
    BY <1>0, <1>2, Before, IdentityApart DEF BeginCommand, Invoke, Leave, Enter, Progress, Holding, InRoutine, DaemonBack, CommandBack
  <2> QED
    BY <1>0, <2>1, Progressed
<1> QED
  BY <1>1, <1>2 DEF BeginCommand

LEMMA EndGood ==
  ASSUME IdentityInv, NEW c \in Command, End(c)
  PROVE  IdentityInv'
<1>0. c \in Process
  BY IdentityApart
<1>1. Progress(c, "dead", "unborn", Nothing)
  BY <1>0, Before, IdentityApart DEF End, Finish, Leave, Enter, Progress, Holding, InRoutine, DaemonBack, CommandBack
<1> QED
  BY <1>0, <1>1, Progressed

LEMMA StopTargetGood ==
  ASSUME IdentityInv, NEW c \in Command, StopTarget(c)
  PROVE  IdentityInv'
<1>0. c \in Process
  BY IdentityApart
<1>1. CASE answer[c] \in Daemon /\ at[c] = "stopTarget"
  <2>1. Progress(c, "ask", "stopRequest", Nothing)
    BY <1>0, <1>1, Before, IdentityApart DEF StopTarget, Invoke, Leave, Enter, Kinds, Progress, Holding, InRoutine, DaemonBack, CommandBack
  <2> QED
    BY <1>0, <2>1, Progressed
<1>2. CASE answer[c] \in Daemon /\ at[c] # "stopTarget"
  <2>1. Progress(c, "ask", "updateRequest", Nothing)
    BY <1>0, <1>2, Before, IdentityApart DEF StopTarget, Invoke, Leave, Enter, Kinds, Progress, Holding, InRoutine, DaemonBack, CommandBack
  <2> QED
    BY <1>0, <2>1, Progressed
<1>3. CASE answer[c] = Unreadable
  <2>1. Progress(c, "end", "unborn", Nothing)
    BY <1>0, <1>3, Before, IdentityApart DEF StopTarget, Invoke, Leave, Enter, Kinds, Progress, Holding, InRoutine, DaemonBack, CommandBack
  <2> QED
    BY <1>0, <2>1, Progressed
<1>4. CASE answer[c] \notin Daemon \cup {Unreadable} /\ at[c] = "stopTarget"
  <2>1. Progress(c, "clean", "end", Nothing)
    BY <1>0, <1>4, Before, IdentityApart DEF StopTarget, Invoke, Leave, Enter, Kinds, Progress, Holding, InRoutine, DaemonBack, CommandBack
  <2> QED
    BY <1>0, <2>1, Progressed
<1>5. CASE answer[c] \notin Daemon \cup {Unreadable} /\ at[c] # "stopTarget"
  <2>1. Progress(c, "absence", "unborn", Nothing)
    BY <1>0, <1>5, Before, IdentityApart DEF StopTarget, Invoke, Leave, Enter, Kinds, Progress, Holding, InRoutine, DaemonBack, CommandBack
  <2> QED
    BY <1>0, <2>1, Progressed
<1> QED
  BY <1>1, <1>2, <1>3, <1>4, <1>5 DEF StopTarget

LEMMA StopRequestGood ==
  ASSUME IdentityInv, NEW c \in Command, StopRequest(c)
  PROVE  IdentityInv'
<1>0. c \in Process
  BY IdentityApart
<1>1. CASE answer[c] = target[c] /\ at[c] = "stopRequest"
  <2>1. Progress(c, "ask", "stopWait", Nothing)
    BY <1>0, <1>1, Before, IdentityApart DEF StopRequest, Invoke, Leave, Enter, Kinds, Progress, Holding, InRoutine, DaemonBack, CommandBack
  <2> QED
    BY <1>0, <2>1, Progressed
<1>2. CASE answer[c] = target[c] /\ at[c] # "stopRequest"
  <2>1. Progress(c, "ask", "updateWait", Nothing)
    BY <1>0, <1>2, Before, IdentityApart DEF StopRequest, Invoke, Leave, Enter, Kinds, Progress, Holding, InRoutine, DaemonBack, CommandBack
  <2> QED
    BY <1>0, <2>1, Progressed
<1>3. CASE answer[c] # target[c]
  <2>1. Progress(c, "end", "unborn", Nothing)
    BY <1>0, <1>3, Before, IdentityApart DEF StopRequest, Invoke, Leave, Enter, Kinds, Progress, Holding, InRoutine, DaemonBack, CommandBack
  <2> QED
    BY <1>0, <2>1, Progressed
<1> QED
  BY <1>1, <1>2, <1>3 DEF StopRequest

LEMMA StopWaitGood ==
  ASSUME IdentityInv, NEW c \in Command, StopWait(c)
  PROVE  IdentityInv'
<1>0. c \in Process
  BY IdentityApart
<1>1. CASE Invoke(c, "ask", at[c])
  <2>1. Progress(c, "ask", at[c], Nothing)
    BY <1>0, <1>1, Before, IdentityApart DEF StopWait, Invoke, Leave, Enter, Progress, Holding, InRoutine, DaemonBack, CommandBack
  <2> QED
    BY <1>0, <2>1, Progressed
<1>2. CASE Invoke(c, "clean", "end")
  <2>1. Progress(c, "clean", "end", Nothing)
    BY <1>0, <1>2, Before, IdentityApart DEF StopWait, Invoke, Leave, Enter, Progress, Holding, InRoutine, DaemonBack, CommandBack
  <2> QED
    BY <1>0, <2>1, Progressed
<1>3. CASE Leave(c, "end")
  <2>1. Progress(c, "end", "unborn", Nothing)
    BY <1>0, <1>3, Before, IdentityApart DEF StopWait, Invoke, Leave, Enter, Progress, Holding, InRoutine, DaemonBack, CommandBack
  <2> QED
    BY <1>0, <2>1, Progressed
<1>4. CASE Leave(c, "absence")
  <2>1. Progress(c, "absence", "unborn", Nothing)
    BY <1>0, <1>4, Before, IdentityApart DEF StopWait, Invoke, Leave, Enter, Progress, Holding, InRoutine, DaemonBack, CommandBack
  <2> QED
    BY <1>0, <2>1, Progressed
<1> QED
  BY <1>1, <1>2, <1>3, <1>4 DEF StopWait

LEMMA StartCheckedGood ==
  ASSUME IdentityInv, NEW c \in Command, StartChecked(c)
  PROVE  IdentityInv'
<1>0. c \in Process
  BY IdentityApart
<1>1. CASE answer[c] = Nothing
  <2>1. Progress(c, "clean", "spawn", Nothing)
    BY <1>0, <1>1, Before, IdentityApart DEF StartChecked, Invoke, Leave, Enter, Progress, Holding, InRoutine, DaemonBack, CommandBack
  <2> QED
    BY <1>0, <2>1, Progressed
<1>2. CASE answer[c] # Nothing
  <2>1. Progress(c, "end", "unborn", Nothing)
    BY <1>0, <1>2, Before, IdentityApart DEF StartChecked, Invoke, Leave, Enter, Progress, Holding, InRoutine, DaemonBack, CommandBack
  <2> QED
    BY <1>0, <2>1, Progressed
<1> QED
  BY <1>1, <1>2 DEF StartChecked

LEMMA NoneLeftGood ==
  ASSUME IdentityInv, NEW c \in Command, NoneLeft(c)
  PROVE  IdentityInv'
<1>0. c \in Process
  BY IdentityApart
<1>1. Progress(c, "end", "unborn", Nothing)
  BY <1>0, Before, IdentityApart DEF NoneLeft, Leave, Enter, Progress, Holding, InRoutine, DaemonBack, CommandBack
<1> QED
  BY <1>0, <1>1, Progressed

LEMMA AbsenceLockGood ==
  ASSUME IdentityInv, NEW c \in Command, AbsenceLock(c)
  PROVE  IdentityInv'
<1>0. c \in Process
  BY IdentityApart
<1>1. CASE lock = Nobody
  <2>1. Progress(c, "absenceHeld", ret[c], answer[c])
    BY <1>0, <1>1, Before, IdentityApart DEF AbsenceLock, Enter, Progress, Holding, InRoutine, DaemonBack, CommandBack
  <2> QED
    BY <1>0, <2>1, Progressed
<1>2. CASE lock # Nobody
  <2>1. Progress(c, "contended", ret[c], answer[c])
    BY <1>0, <1>2, Before, IdentityApart DEF AbsenceLock, Enter, Progress, Holding, InRoutine, DaemonBack, CommandBack
  <2> QED
    BY <1>0, <2>1, Progressed
<1> QED
  BY <1>1, <1>2 DEF AbsenceLock

LEMMA AbsenceHeldGood ==
  ASSUME IdentityInv, NEW c \in Command, AbsenceHeld(c)
  PROVE  IdentityInv'
<1>0. c \in Process
  BY IdentityApart
<1>1. CASE StaleAllowed(c)
  <2>1. Progress(c, "absent", ret[c], answer[c])
    BY <1>0, <1>1, Before, IdentityApart DEF AbsenceHeld, Enter, Progress, Holding, InRoutine, DaemonBack, CommandBack
  <2> QED
    BY <1>0, <2>1, Progressed
<1>2. CASE ~StaleAllowed(c)
  <2>1. Progress(c, "contended", ret[c], answer[c])
    BY <1>0, <1>2, Before, IdentityApart DEF AbsenceHeld, Enter, Progress, Holding, InRoutine, DaemonBack, CommandBack
  <2> QED
    BY <1>0, <2>1, Progressed
<1> QED
  BY <1>1, <1>2 DEF AbsenceHeld

LEMMA ContendedGood ==
  ASSUME IdentityInv, NEW c \in Command, Contended(c)
  PROVE  IdentityInv'
<1>0. c \in Process
  BY IdentityApart
<1>1. CASE pidfile \in Daemon \ {target[c]}
  <2>1. target' \in [Command -> Daemon \cup {Nothing}] /\ \A b \in Command : b # c => target'[b] = target[b]
    BY <1>1 DEF Contended, IdentityInv, Kinds
  <2>2. Progress(c, "ask", "updateRequest", Nothing)
    BY <1>0, <1>1, <2>1, Before, IdentityApart DEF Contended, Invoke, Enter, Progress, Holding, InRoutine, DaemonBack, CommandBack
  <2> QED
    BY <1>0, <2>2, Progressed
<1>2. CASE ~(pidfile \in Daemon \ {target[c]})
  <2>1. Progress(c, "absence", ret[c], answer[c])
    BY <1>0, <1>2, Before, IdentityApart DEF Contended, Enter, Progress, Holding, InRoutine, DaemonBack, CommandBack
  <2> QED
    BY <1>0, <2>1, Progressed
<1> QED
  BY <1>1, <1>2

LEMMA AbsenceDropGood ==
  ASSUME IdentityInv, NEW c \in Command, AbsenceDrop(c)
  PROVE  IdentityInv'
<1>0. c \in Process
  BY IdentityApart
<1>1. Progress(c, "end", ret[c], answer[c])
  BY <1>0, Before, IdentityApart DEF AbsenceDrop, Enter, Progress, Holding, InRoutine, DaemonBack, CommandBack
<1> QED
  BY <1>0, <1>1, Progressed

LEMMA CommandCrashGood ==
  ASSUME IdentityInv, NEW c \in Command, CommandCrash(c)
  PROVE  IdentityInv'
<1>0. c \in Process
  BY IdentityApart
<1>1. crashes' \in 0 .. MaxCrashes
  BY IdentityApart DEF CommandCrash, IdentityInv, Kinds
<1>2. Progress(c, "dead", "unborn", Nothing)
  BY <1>0, <1>1, Before, IdentityApart DEF CommandCrash, Finish, Leave, Enter, Freed, Progress, Holding, InRoutine
<1> QED
  BY <1>0, <1>2, Progressed

(* A step of a command and of its child at once, neither of which holds the *)
(* lock afterwards.                                                         *)
LEMMA MovedBoth ==
  ASSUME IdentityInv, NEW c \in Command, NEW d \in Daemon, NEW lc, NEW bc, NEW ld, NEW bd,
         at' = [at EXCEPT ![c] = lc, ![d] = ld],
         \/ ret' = [ret EXCEPT ![c] = bc, ![d] = bd]
         \/ (ret' = [ret EXCEPT ![d] = bd] /\ lc \notin InRoutine),
         answer' \in [Process -> Daemon \cup {Nothing, Partial, Unreadable}],
         target' \in [Command -> Daemon \cup {Nothing}],
         \A b \in Command : b # c => target'[b] = target[b],
         lc \notin {"unborn", "dead"} /\ lc \notin Holding /\ ld \notin Holding,
         lc \in InRoutine => bc \in CommandBack /\ target'[c] \in Daemon,
         lc # "awaitReady", ld \in InRoutine => bd \in DaemonBack,
         lock' \in {lock, Nobody}, lock' = lock \/ lock = d, lock' # c, lock' # d,
         UNCHANGED <<pidfile, request, lease, crashes>>
  PROVE  IdentityInv'
<1>1. Kinds /\ c # d /\ c \in Process /\ d \in Process
  BY IdentityApart DEF IdentityInv
<1>2. /\ at'[c] = lc /\ at'[d] = ld
      /\ \A q \in Process : q \notin {c, d} => at'[q] = at[q]
  BY <1>1 DEF Kinds, Labels
<1>3. /\ ret'[d] = bd
      /\ lc \in InRoutine => ret'[c] = bc
      /\ \A q \in Process : q \notin {c, d} => ret'[q] = ret[q]
  BY <1>1 DEF Kinds, Labels
<1>4. Kinds'
  <2>1. Labels(at') /\ Labels(ret')
    BY <1>1 DEF Kinds, Labels
  <2> QED
    BY <1>1, <2>1 DEF Kinds
<1>5. LockHeld'
  <2> SUFFICES ASSUME NEW q \in Process PROVE at'[q] \in Holding <=> lock' = q
    BY DEF LockHeld
  <2>1. CASE q \in {c, d}
    BY <1>2, <2>1
  <2>2. CASE q \notin {c, d}
    BY <1>1, <1>2, <2>2, IdentityApart DEF IdentityInv, LockHeld
  <2> QED
    BY <2>1, <2>2
<1>6. FileFits'
  <2> SUFFICES ASSUME NEW q \in Process
               PROVE  /\ at'[q] = "write" => pidfile' = Partial
                      /\ at'[q] = "running" => pidfile' = q
                      /\ at'[q] = "absent" => pidfile' = Nothing
    BY DEF FileFits
  <2>1. CASE q \in {c, d}
    BY <1>2, <2>1 DEF Holding
  <2>2. CASE q \notin {c, d}
    BY <1>2, <2>2 DEF IdentityInv, FileFits
  <2> QED
    BY <2>1, <2>2
<1>7. RoutinesReturn'
  <2>1. \A b \in Daemon : at'[b] \in InRoutine => ret'[b] \in DaemonBack
    BY <1>1, <1>2, <1>3, IdentityApart DEF IdentityInv, RoutinesReturn
  <2>2. \A b \in Command : at'[b] \in InRoutine => ret'[b] \in CommandBack
    BY <1>1, <1>2, <1>3, IdentityApart DEF IdentityInv, RoutinesReturn
  <2> QED
    BY <2>1, <2>2 DEF RoutinesReturn
<1>8. ChildNamed'
  <2> SUFFICES ASSUME NEW b \in Command,
                      at'[b] = "awaitReady" \/ (at'[b] \in InRoutine /\ ret'[b] = "awaitReady")
               PROVE  target'[b] \in Daemon
    BY DEF ChildNamed
  <2>1. CASE b = c
    BY <1>2, <2>1
  <2>2. CASE b # c
    BY <1>1, <1>2, <1>3, <2>2, IdentityApart DEF IdentityInv, ChildNamed
  <2> QED
    BY <2>1, <2>2
<1>9. LeaseAlive'
  BY <1>1, <1>2, IdentityApart DEF IdentityInv, LeaseAlive, Kinds
<1> QED
  BY <1>4, <1>5, <1>6, <1>7, <1>8, <1>9 DEF IdentityInv

LEMMA SpawnGood ==
  ASSUME IdentityInv, NEW c \in Command, Spawn(c)
  PROVE  IdentityInv'
<1>0. c \in Process
  BY IdentityApart
<1>1. CASE answer[c] # Nothing
  <2>1. Progress(c, "end", "unborn", Nothing)
    BY <1>0, <1>1, Before, IdentityApart DEF Spawn, Leave, Enter, Progress, Holding, InRoutine
  <2> QED
    BY <1>0, <2>1, Progressed
<1>2. CASE answer[c] = Nothing
  <2>1. PICK d \in Daemon :
          /\ at[d] = "unborn"
          /\ target' = [target EXCEPT ![c] = d]
          /\ at' = [at EXCEPT ![c] = "ask", ![d] = "ask"]
          /\ ret' = [ret EXCEPT ![c] = "awaitReady", ![d] = "checked"]
          /\ UNCHANGED answer
    BY <1>2 DEF Spawn
  <2>2. d \in Process /\ lock # d /\ lock # c /\ UNCHANGED <<lock, pidfile, request, lease, crashes>>
    BY <1>0, <2>1, Before, IdentityApart DEF Spawn, Holding
  <2>3. /\ target' \in [Command -> Daemon \cup {Nothing}] /\ target'[c] = d
        /\ \A b \in Command : b # c => target'[b] = target[b]
        /\ answer' \in [Process -> Daemon \cup {Nothing, Partial, Unreadable}]
    BY <2>1 DEF IdentityInv, Kinds
  <2>4. "ask" \notin Holding /\ "awaitReady" \in CommandBack /\ "checked" \in DaemonBack
    BY DEF Holding, CommandBack, DaemonBack
  <2> QED
    BY <2>1, <2>2, <2>3, <2>4, MovedBoth
<1> QED
  BY <1>1, <1>2

LEMMA AwaitReadyGood ==
  ASSUME IdentityInv, NEW c \in Command, AwaitReady(c)
  PROVE  IdentityInv'
<1>0. c \in Process /\ target[c] \in Daemon /\ target[c] \in Process
  <2>1. c \in Process /\ at[c] = "awaitReady"
    BY IdentityApart DEF AwaitReady
  <2>2. target[c] \in Daemon
    BY <2>1 DEF IdentityInv, ChildNamed
  <2> QED
    BY <2>1, <2>2, IdentityApart
<1>1. CASE Leave(c, "end") /\ UNCHANGED lock
  <2>1. Progress(c, "end", "unborn", Nothing)
    BY <1>0, <1>1, Before, IdentityApart DEF AwaitReady, Leave, Enter, Progress, Holding, InRoutine
  <2> QED
    BY <1>0, <2>1, Progressed
<1>2. CASE Invoke(c, "ask", "awaitReady") /\ UNCHANGED lock
  <2>1. Progress(c, "ask", "awaitReady", Nothing)
    BY <1>0, <1>2, Before, IdentityApart DEF AwaitReady, Invoke, Enter, Progress, Holding, InRoutine, CommandBack
  <2> QED
    BY <1>0, <2>1, Progressed
<1>3. CASE Kill(c, target[c])
  <2> DEFINE d == target[c]
  <2>1. /\ at' = [at EXCEPT ![c] = "end", ![d] = "dead"]
        /\ ret' = [ret EXCEPT ![d] = "unborn"]
        /\ answer' = [answer EXCEPT ![c] = Nothing, ![d] = Nothing]
        /\ lock' = (IF lock = d THEN Nobody ELSE lock)
        /\ UNCHANGED <<pidfile, request, lease, target, crashes>>
    BY <1>3 DEF Kill, Freed, AwaitReady
  <2>2. /\ d \in Daemon /\ d \in Process /\ c # d /\ lock # c /\ d # Nobody /\ c # Nobody
    BY <1>0, Before, IdentityApart DEF AwaitReady, Holding
  <2> HIDE DEF d
  <2>3. /\ answer' \in [Process -> Daemon \cup {Nothing, Partial, Unreadable}]
        /\ target' \in [Command -> Daemon \cup {Nothing}]
        /\ \A b \in Command : b # c => target'[b] = target[b]
    BY <2>1, <2>2 DEF IdentityInv, Kinds
  <2>4. /\ "end" \notin Holding /\ "dead" \notin Holding
        /\ "end" \notin InRoutine /\ "dead" \notin InRoutine
    BY DEF Holding, InRoutine
  <2>5. lock' \in {lock, Nobody} /\ (lock' = lock \/ lock = d) /\ lock' # c /\ lock' # d
    BY <2>1, <2>2
  <2> QED
    BY <2>1, <2>2, <2>3, <2>4, <2>5, MovedBoth
<1> QED
  BY <1>1, <1>2, <1>3 DEF AwaitReady

(* What a command does or suffers.                                          *)
LEMMA CommandGood ==
  ASSUME IdentityInv, NEW c \in Command,
         \/ CommandStep(c) \/ CommandCrash(c)
         \/ \E first \in {"stopTarget", "startChecked", "updateTarget"} : BeginCommand(c, first)
  PROVE  IdentityInv'
<1>1. c \in Process
  BY IdentityApart
<1> QED
  BY <1>1, RoutineGood, StopTargetGood, StopRequestGood, StopWaitGood, StartCheckedGood,
     SpawnGood, NoneLeftGood, AwaitReadyGood, AbsenceLockGood, AbsenceHeldGood,
     ContendedGood, AbsenceDropGood, EndGood, CommandCrashGood, BeginGood DEF CommandStep

----------------------------------------------------------------------------
(* The strengthening: the lock is held exactly where a process is inside    *)
(* its critical section, only the holder changes daemon.pid, and every      *)
(* question and cleanup returns to a place outside the section.             *)
THEOREM IdentityInductive == IdentitySpec => []IdentityInv
<1>1. IdentityInv /\ [IdentityNext]_identityVars => IdentityInv'
  <2> SUFFICES ASSUME IdentityInv, [IdentityNext]_identityVars PROVE IdentityInv'
    OBVIOUS
  <2>1. CASE IdentityNext
    BY <2>1, DaemonGood, CommandGood DEF IdentityNext
  <2>2. CASE UNCHANGED identityVars
    BY <2>2 DEF identityVars, IdentityInv, Kinds, Labels, LockHeld, FileFits, RoutinesReturn, ChildNamed, LeaseAlive
  <2> QED
    BY <2>1, <2>2
<1> QED
  BY <1>1, IdentityInitGood, PTL DEF IdentitySpec

(* Every variable holds a value of its kind, and whoever holds the lock or  *)
(* the lease is alive (daemon/pidfile.rs, daemon/mod.rs).                   *)
THEOREM IdentityTypeCorrect == IdentitySpec => []IdentityTypeOK
<1>1. IdentityInv => IdentityTypeOK
  <2> SUFFICES ASSUME IdentityInv PROVE IdentityTypeOK
    OBVIOUS
  <2>1. Kinds /\ LeaseAlive
    BY DEF IdentityInv
  <2>2. lock # Nobody => at[lock] \notin {"unborn", "dead"}
    BY <2>1 DEF IdentityInv, LockHeld, Kinds, Holding
  <2> QED
    BY <2>1, <2>2 DEF IdentityTypeOK, Kinds, LeaseAlive
<1> QED
  BY <1>1, IdentityInductive, PTL

(* A daemon that runs holds the lock and is the one daemon.pid names, so    *)
(* there is at most one.                                                    *)
THEOREM TheRunningDaemonIsNamed == IdentitySpec => []RunningIsNamed
<1>1. IdentityInv => RunningIsNamed
  BY IdentityApart DEF IdentityInv, LockHeld, FileFits, RunningIsNamed, Running, Holding
<1> QED
  BY <1>1, IdentityInductive, PTL

(* While a self-update holds the absence, no daemon is named and nobody     *)
(* else has the lock a daemon needs.                                        *)
THEOREM AbsenceHolds == IdentitySpec => []AbsenceIsAbsence
<1>1. IdentityInv => AbsenceIsAbsence
  BY IdentityApart DEF IdentityInv, LockHeld, FileFits, AbsenceIsAbsence, Holding
<1> QED
  BY <1>1, IdentityInductive, PTL

----------------------------------------------------------------------------
(* The installation of its service                                          *)

IsFiles == disk = [x \in Names |-> disk[x]]

IsSeen ==
  /\ seen = [previous |-> seen.previous, active |-> seen.active, enabled |-> seen.enabled]
  /\ seen.active \in BOOLEAN /\ seen.enabled \in BOOLEAN /\ enabled \in BOOLEAN
  /\ service \in {"stopped", "starting", "up", "restarting"}

(* Before a command has asked the manager, it knows nothing.                *)
Unasked == Reports \cup {"read", "query", "queryEnabled", "start", "startCheck", "startWait"}

(* Where there is a previous definition; where, if there was one, the unit  *)
(* file is there, and where it is in any case; where the candidate is.      *)
Replacing  == {"stopOld", "settleOld", "recover", "backup", "bind", "exchange", "look",
               "putBack", "lookBack", "undoSwap", "undoLook", "enableBack"}
Keeping    == Replacing \cup {"query", "queryEnabled", "compare", "checkDaemon",
               "stage", "unpublished",
               "reload", "enableNow", "checkNew", "awaitNew", "stopNew", "settleNew",
               "disableNew", "undo", "reloadBack", "runBack"}
Starting   == {"start", "reload", "enableNow", "startBack"}
Exchanging == {"backup", "bind", "exchange", "look", "putBack", "undoSwap"}

(* Where a command without a previous definition has published nothing that *)
(* is enabled or runs, or has put an end to it.                             *)
Fresh == {"compare", "checkDaemon", "stage", "place", "lookNew", "undo"}

NothingFound == pc \notin Unasked /\ seen.previous = None => ~seen.active /\ ~seen.enabled

SomethingFound ==
  /\ pc \in Replacing \/ (pc \in {"query", "queryEnabled"} /\ cmd.kind # "install")
       => seen.previous # None
  /\ pc \in {"place", "lookNew"} => seen.previous = None

UnitThere ==
  /\ pc \in Keeping /\ seen.previous # None => disk["unit"] # None
  /\ pc \in Starting => disk["unit"] # None
  /\ pc \in Exchanging => disk["candidate"] # None

Quiet ==
  /\ pc \in Fresh /\ seen.previous = None => ~enabled /\ service = "stopped"
  /\ pc \in {"aside", "moveAside"} => ~enabled /\ service = "stopped"
  /\ pc = "disableNew" => service = "stopped"
  /\ pc \in {"queryEnabled", "compare"} /\ ~seen.active => service = "stopped"

(* The three names beside the unit file hold what the command takes them    *)
(* for; the backup is never the only one of its kind.                       *)
Where ==
  /\ pc \in {"backup", "bind", "exchange", "place"} => disk["candidate"] = New
  /\ pc \in {"reload", "enableNow", "checkNew", "awaitNew", "commit"}
       => disk["candidate"] = seen.previous
  /\ pc \in {"reloadGone", "commitGone"} => disk["removed"] = seen.previous
  /\ disk["backup"] = None \/ disk["backup"].copy = TRUE

IInv == /\ IsFiles /\ IsSeen
        /\ NothingFound /\ SomethingFound
        /\ UnitThere /\ Quiet /\ Where
        /\ NoOrphanService

(* What the leaves need: the parts of the invariant and of a step.          *)
USE DEF IInv, IsFiles, IsSeen, NothingFound, SomethingFound, UnitThere, Quiet, Where,
        NoOrphanService, Unasked, Replacing, Keeping, Starting, Exchanging, Fresh, Reports,
        AtRest, New, files, manager, outside, command, Goto, Put, Names

LEMMA Apart ==
  /\ \A e : Prior(e) # None /\ ByOther(e) # None
  /\ New # None /\ New.copy = FALSE /\ None.copy = FALSE
BY DEF Prior, ByOther, New, None, Definition

(* The beginning and the death of a command.                                *)
LEMMA CommandSteps ==
  ASSUME IInv, Begin \/ Read \/ Query \/ QueryEnabled \/ Compare \/ CommandDies
  PROVE  IInv'
<1>1. CASE Begin
  BY <1>1, Apart DEF Begin, Requests
<1>2. CASE Read
  BY <1>2, Apart DEF Read, Owner
<1>3. CASE Query
  <2>1. Active \in BOOLEAN /\ (Active \/ Unsettled <=> service \in {"starting", "up", "restarting"})
    BY DEF Active, Unsettled
  <2>2. seen' = [previous |-> seen.previous, active |-> Active, enabled |-> seen.enabled]
    BY <1>3 DEF Query
  <2>3. /\ pc = "query" /\ UNCHANGED <<files, manager, cmd>>
        /\ pc' \in {"refused", "queryEnabled", "stop", "stopWait"}
    BY <1>3 DEF Query
  <2>4. pc' \in {"stop", "stopWait"} => cmd.kind # "install"
    BY <1>3 DEF Query
  <2>5. pc' = "queryEnabled" => ~Unsettled
    BY <1>3 DEF Query
  <2>6. service \in {"stopped", "starting", "up", "restarting"}
    BY <1>3
  <2> HIDE DEF Active, Unsettled
  <2>7. IsFiles' /\ IsSeen'
    BY <2>1, <2>2, <2>3
  <2>8. seen'.previous = seen.previous /\ seen'.active = Active /\ seen'.enabled = seen.enabled
    BY <2>2
  <2>9. NothingFound' /\ SomethingFound' /\ UnitThere' /\ Where'
    BY <2>1, <2>3, <2>4, <2>8
  <2>10. Quiet' /\ NoOrphanService'
    BY <2>1, <2>3, <2>5, <2>6, <2>8
  <2> QED
    BY <2>7, <2>9, <2>10
<1>4. CASE QueryEnabled
  <2>1. seen' = [previous |-> seen.previous, active |-> seen.active, enabled |-> enabled]
    BY <1>4 DEF QueryEnabled
  <2>2. /\ pc = "queryEnabled" /\ UNCHANGED <<files, manager, cmd>>
        /\ pc' \in {"refused", "disableNow", "compare"}
        /\ pc' = "disableNow" => cmd.kind # "install"
        /\ pc' = "compare" /\ seen.previous = None => ~seen.active /\ ~enabled
    BY <1>4 DEF QueryEnabled
  <2>3. /\ seen'.previous = seen.previous /\ seen'.active = seen.active
        /\ seen'.enabled = enabled
    BY <2>1
  <2>4. IsFiles' /\ IsSeen'
    BY <2>1, <2>2
  <2>5. NothingFound' /\ SomethingFound' /\ UnitThere' /\ Where'
    BY <2>2, <2>3
  <2>6. Quiet' /\ NoOrphanService'
    BY <2>2, <2>3
  <2> QED
    BY <2>4, <2>5, <2>6
<1>5. CASE Compare
  BY <1>5, Apart DEF Compare, Ask, Fault
<1>6. CASE CommandDies
  BY <1>6, Apart DEF CommandDies, Fault
<1> QED
  BY <1>1, <1>2, <1>3, <1>4, <1>5, <1>6

(* start and stop.                                                          *)
LEMMA StartOrStopSteps ==
  ASSUME IInv, StartInstalled \/ CheckStarted \/ AwaitStarted \/ StopInstalled \/ AwaitStopped
  PROVE  IInv'
<1>1. CASE StartInstalled
  BY <1>1, Apart DEF StartInstalled, Call, Fault, Active, Start, StartIt
<1>2. CASE CheckStarted
  BY <1>2, Apart DEF CheckStarted, Ask, Fault, Active
<1>3. CASE AwaitStarted
  BY <1>3, Apart DEF AwaitStarted, Owner
<1>4. CASE StopInstalled
  BY <1>4, Apart DEF StopInstalled, Call, Fault, Stop, StopIt
<1>5. CASE AwaitStopped
  BY <1>5, Apart DEF AwaitStopped, Owner
<1> QED
  BY <1>1, <1>2, <1>3, <1>4, <1>5

(* An installation stops what ran.                                          *)
LEMMA PreparationSteps ==
  ASSUME IInv, StopOld \/ SettleOld \/ CheckDaemon \/ Recover
  PROVE  IInv'
<1>1. CASE StopOld
  BY <1>1, Apart DEF StopOld, Call, Fault, Stop, StopIt
<1>2. CASE SettleOld
  BY <1>2, Apart DEF SettleOld, Ask, Fault, Owner
<1>3. CASE CheckDaemon
  BY <1>3, Apart DEF CheckDaemon, Ask, Fault, Owner
<1>4. CASE Recover
  BY <1>4, Apart DEF Recover, Fault, Active, Unsettled, Owner
<1> QED
  BY <1>1, <1>2, <1>3, <1>4

(* An installation publishes its definition.                                *)
LEMMA PublicationSteps ==
  ASSUME IInv, Stage \/ BackUp \/ Bind \/ Swap \/ Look \/ PutBack \/ LookBack \/ Place
               \/ LookNew \/ Unpublished
  PROVE  IInv'
<1>1. CASE Stage
  BY <1>1, Apart DEF Stage, Fault
<1>2. CASE BackUp
  BY <1>2, Apart DEF BackUp, Fault, Copy
<1>3. CASE Bind
  BY <1>3, Apart DEF Bind, Ask, Fault
<1>4. CASE Swap
  BY <1>4, Apart DEF Swap, Fault, Exchange
<1>5. CASE Look
  BY <1>5, Apart DEF Look, Fault, Both, PartOfBoth, DropBoth, Published
<1>6. CASE PutBack
  BY <1>6, Apart DEF PutBack, Fault, Exchange
<1>7. CASE LookBack
  BY <1>7, Apart DEF LookBack, Fault, Both, PartOfBoth, DropBoth
<1>8. CASE Place
  BY <1>8, Apart DEF Place, Fault, Move
<1>9. CASE LookNew
  <2>1. IsFiles'
    BY <1>9, Apart DEF LookNew, Fault, Both, PartOfBoth, DropBoth
  <2>2. IsSeen'
    BY <1>9, Apart DEF LookNew, Fault, Both, PartOfBoth, DropBoth
  <2>3. NothingFound'
    BY <1>9, Apart DEF LookNew, Fault, Both, PartOfBoth, DropBoth
  <2>4. SomethingFound'
    BY <1>9, Apart DEF LookNew, Fault, Both, PartOfBoth, DropBoth
  <2>5. UnitThere'
    BY <1>9, Apart DEF LookNew, Fault, Both, PartOfBoth, DropBoth
  <2>6. Quiet'
    BY <1>9, Apart DEF LookNew, Fault, Both, PartOfBoth, DropBoth
  <2>7. Where'
    BY <1>9, Apart DEF LookNew, Fault, Both, PartOfBoth, DropBoth
  <2>8. NoOrphanService'
    BY <1>9, Apart DEF LookNew, Fault, Both, PartOfBoth, DropBoth
  <2> QED
    BY <2>1, <2>2, <2>3, <2>4, <2>5, <2>6, <2>7, <2>8
<1>10. CASE Unpublished
  BY <1>10, Apart DEF Unpublished, Ask, Fault
<1> QED
  BY <1>1, <1>2, <1>3, <1>4, <1>5, <1>6, <1>7, <1>8, <1>9, <1>10

(* An installation starts its service, commits or goes back.                *)
LEMMA InstallationSteps ==
  ASSUME IInv, ReloadNew \/ EnableNow \/ CheckNew \/ AwaitNew \/ Commit \/ StopNew \/ SettleNew
               \/ DisableNew \/ Undo \/ UndoSwap \/ UndoLook
  PROVE  IInv'
<1>1. CASE ReloadNew
  BY <1>1, Apart DEF ReloadNew, Call, Fault, Reload
<1>2. CASE EnableNow
  BY <1>2, Apart DEF EnableNow, Call, Fault, Active, Start, Enable
<1>3. CASE CheckNew
  BY <1>3, Apart DEF CheckNew, Ask, Fault, Active
<1>4. CASE AwaitNew
  BY <1>4, Apart DEF AwaitNew, Owner
<1>5. CASE Commit
  BY <1>5, Apart DEF Commit, Fault, Both, PartOfBoth
<1>6. CASE StopNew
  BY <1>6, Apart DEF StopNew, Call, Fault, Stop, StopIt
<1>7. CASE SettleNew
  BY <1>7, Apart DEF SettleNew, Ask, Fault, Owner
<1>8. CASE DisableNew
  <2>1. IsFiles'
    BY <1>8 DEF DisableNew, Call, Fault, Enable
  <2>2. IsSeen'
    BY <1>8 DEF DisableNew, Call, Fault, Enable
  <2>3. NothingFound'
    BY <1>8 DEF DisableNew, Call, Fault, Enable
  <2>4. SomethingFound'
    BY <1>8 DEF DisableNew, Call, Fault, Enable
  <2>5. UnitThere'
    BY <1>8 DEF DisableNew, Call, Fault, Enable
  <2>6. Quiet'
    BY <1>8 DEF DisableNew, Call, Fault, Enable
  <2>7. Where'
    BY <1>8 DEF DisableNew, Call, Fault, Enable
  <2>8. NoOrphanService'
    BY <1>8 DEF DisableNew, Call, Fault, Enable
  <2> QED
    BY <2>1, <2>2, <2>3, <2>4, <2>5, <2>6, <2>7, <2>8
<1>9. CASE Undo
  BY <1>9, Apart DEF Undo, Fault, Published, Undone, NotUndone
<1>10. CASE UndoSwap
  BY <1>10, Apart DEF UndoSwap, Fault, Exchange
<1>11. CASE UndoLook
  BY <1>11, Apart DEF UndoLook, Fault, Both, PartOfBoth, Undone, NotUndone
<1> QED
  BY <1>1, <1>2, <1>3, <1>4, <1>5, <1>6, <1>7, <1>8, <1>9, <1>10, <1>11

(* A removal.                                                               *)
LEMMA RemovalSteps ==
  ASSUME IInv, DisableNow \/ SettleGone \/ Aside \/ MoveAside \/ LookAside \/ MoveBack
               \/ ReloadGone \/ CommitGone \/ Replace
  PROVE  IInv'
<1>1. CASE DisableNow
  <2>1. IsFiles'
    BY <1>1 DEF DisableNow, Call, Fault, Stop, Enable
  <2>2. IsSeen'
    BY <1>1 DEF DisableNow, Call, Fault, Stop, Enable
  <2>3. NothingFound'
    BY <1>1 DEF DisableNow, Call, Fault, Stop, Enable
  <2>4. SomethingFound'
    BY <1>1 DEF DisableNow, Call, Fault, Stop, Enable
  <2>5. UnitThere'
    BY <1>1 DEF DisableNow, Call, Fault, Stop, Enable
  <2>6. Quiet'
    BY <1>1 DEF DisableNow, Call, Fault, Stop, Enable
  <2>7. Where'
    BY <1>1 DEF DisableNow, Call, Fault, Stop, Enable
  <2>8. NoOrphanService'
    BY <1>1 DEF DisableNow, Call, Fault, Stop, Enable
  <2> QED
    BY <2>1, <2>2, <2>3, <2>4, <2>5, <2>6, <2>7, <2>8
<1>2. CASE SettleGone
  BY <1>2, Apart DEF SettleGone, Ask, Fault, Owner
<1>3. CASE Aside
  BY <1>3, Apart DEF Aside, Ask, Fault
<1>4. CASE MoveAside
  BY <1>4, Apart DEF MoveAside, Fault, Move
<1>5. CASE LookAside
  BY <1>5, Apart DEF LookAside, Fault
<1>6. CASE MoveBack
  BY <1>6, Apart DEF MoveBack, Fault, Move
<1>7. CASE ReloadGone
  BY <1>7, Apart DEF ReloadGone, Call, Fault, Reload
<1>8. CASE CommitGone
  BY <1>8, Apart DEF CommitGone, Fault
<1>9. CASE Replace
  BY <1>9, Apart DEF Replace, Fault, Move
<1> QED
  BY <1>1, <1>2, <1>3, <1>4, <1>5, <1>6, <1>7, <1>8, <1>9

(* The common end of the ways back.                                         *)
LEMMA BackSteps ==
  ASSUME IInv, ReloadBack \/ EnableBack \/ RunBack \/ StartBack \/ AwaitBack \/ Verify
  PROVE  IInv'
<1>1. CASE ReloadBack
  BY <1>1, Apart DEF ReloadBack, Call, Fault, Reload
<1>2. CASE EnableBack
  BY <1>2, Apart DEF EnableBack, Call, Fault, Enable
<1>3. CASE RunBack
  BY <1>3, Apart DEF RunBack, Fault, Active, Unsettled, Owner
<1>4. CASE StartBack
  BY <1>4, Apart DEF StartBack, Call, Fault, Active, Start, StartIt
<1>5. CASE AwaitBack
  BY <1>5, Apart DEF AwaitBack, Owner
<1>6. CASE Verify
  BY <1>6, Apart DEF Verify, Fault, Active, Unsettled, Owner
<1> QED
  BY <1>1, <1>2, <1>3, <1>4, <1>5, <1>6

(* The manager and everybody else.                                          *)
LEMMA OtherSteps ==
  ASSUME IInv, ServiceComesUp \/ ServiceFails \/ ServiceRestarts \/ ForegroundStarts
               \/ ForegroundEnds \/ SomebodyWrites
  PROVE  IInv'
<1>1. CASE ServiceComesUp
  BY <1>1, Apart DEF ServiceComesUp
<1>2. CASE ServiceFails
  BY <1>2, Apart DEF ServiceFails, Fault, Active
<1>3. CASE ServiceRestarts
  BY <1>3, Apart DEF ServiceRestarts
<1>4. CASE ForegroundStarts
  BY <1>4, Apart DEF ForegroundStarts, Owner
<1>5. CASE ForegroundEnds
  BY <1>5, Apart DEF ForegroundEnds
<1>6. CASE SomebodyWrites
  <2>1. PICK e : Put("unit", ByOther(e))
    BY <1>6 DEF SomebodyWrites
  <2>2. /\ disk' = [x \in Names |-> disk'[x]] /\ disk'["unit"] # None
        /\ \A x \in Names \ {"unit"} : disk'[x] = disk[x]
    BY <2>1, Apart
  <2>3. UNCHANGED <<manager, command, pc>>
    BY <1>6 DEF SomebodyWrites
  <2> QED
    BY <2>2, <2>3
<1> QED
  BY <1>1, <1>2, <1>3, <1>4, <1>5, <1>6

LEMMA Inductive == Init /\ [][Next]_vars => []IInv
<1>1. Init => IInv
  <2> SUFFICES ASSUME Init PROVE IInv
    OBVIOUS
  <2>1. IsFiles /\ IsSeen
    BY DEF Init
  <2>2. NoOrphanService
    BY Apart DEF Init
  <2> QED
    BY <2>1, <2>2 DEF Init
<1>2. IInv /\ [Next]_vars => IInv'
  <2> SUFFICES ASSUME IInv, [Next]_vars PROVE IInv'
    OBVIOUS
  <2>1. CASE Next
    BY <2>1, CommandSteps, StartOrStopSteps, PreparationSteps, PublicationSteps,
       InstallationSteps, RemovalSteps, BackSteps, OtherSteps
       DEF Next, StartingOrStopping, Installing, Uninstalling, GoingBack, Others
  <2>2. CASE UNCHANGED vars
    BY <2>2 DEF vars
  <2> QED
    BY <2>1, <2>2
<1> HIDE DEF IInv, NoOrphanService
<1> QED
  BY <1>1, <1>2, PTL

(* install_systemd, uninstall_systemd and their ways back: without its unit *)
(* file the service is never enabled, running or about to be restarted.     *)
THEOREM NeverOrphaned == Spec => []NoOrphanService
<1>1. IInv => NoOrphanService
  OBVIOUS
<1> HIDE DEF IInv, NoOrphanService
<1> QED
  BY <1>1, Inductive, PTL DEF Spec

----------------------------------------------------------------------------
(* What becomes of the definitions                                          *)

LEMMA OriginalsApart == \A f \in Originals : f # None /\ f.copy = FALSE
BY DEF Originals, Prior, ByOther, None, Definition

(* An exchange and a rename lose nothing; a write loses what it overwrites. *)
LEMMA Exchanged == ASSUME IInv, Exchange PROVE \A f : Held(f) => Held(f)'
BY DEF Exchange, Held

LEMMA Moved ==
  ASSUME IInv, NEW x \in Names, NEW y \in Names, Move(x, y)
  PROVE  \A f \in Originals : Held(f) => Held(f)'
BY OriginalsApart DEF Move, Held

LEMMA Overwritten ==
  ASSUME IInv, NEW x \in Names, NEW g, Put(x, g), NEW f, Held(f), ~Held(f)'
  PROVE  f = disk[x]
BY DEF Held

(* Candidate and backup go: only the candidate was an original.             *)
LEMMA Dropped ==
  ASSUME IInv, Both \/ PartOfBoth \/ Put("backup", None),
         NEW f \in Originals, Held(f), ~Held(f)'
  PROVE  f = disk["candidate"]
<1>1. f # disk["backup"]
  BY OriginalsApart
<1>2. \A x \in Names : disk'[x] # f /\ (x \notin {"candidate", "backup"} => disk'[x] = disk[x])
  BY DEF Held, Both, PartOfBoth
<1> QED
  BY <1>1, <1>2 DEF Held

LEMMA StepLoses == ASSUME IInv, Next PROVE LosesOnlyItsOwn
<1> SUFFICES ASSUME NEW f \in Originals, Held(f), ~Held(f)'
             PROVE  \/ pc \in {"commit", "commitGone"} /\ f = seen.previous
                    \/ ~AtRest /\ f = New
                    \/ written # written'
  BY DEF LosesOnlyItsOwn
<1>1. disk' # disk
  BY DEF Held
<1>2. f # None /\ f # disk["backup"]
  BY OriginalsApart
<1>3. CASE Stage
  <2>1. Put("candidate", New) /\ disk["candidate"] = None
    BY <1>1, <1>3 DEF Stage
  <2> QED
    BY <2>1, <1>2, Overwritten
<1>4. CASE BackUp
  <2>1. \A x \in {"unit", "removed"} : disk'[x] = disk[x]
    BY <1>1, <1>4 DEF BackUp
  <2>2. f = disk["candidate"]
    BY <2>1, <1>2 DEF Held
  <2> QED
    BY <2>2, <1>4 DEF BackUp
<1>5. CASE Swap \/ PutBack \/ UndoSwap
  <2>1. Exchange
    BY <1>1, <1>5 DEF Swap, PutBack, UndoSwap
  <2> QED
    BY <2>1, Exchanged
<1>6. CASE Look \/ LookBack \/ LookNew \/ UndoLook
  <2>1. /\ disk["candidate"] = New /\ ~AtRest
        /\ Both \/ PartOfBoth \/ Put("backup", None)
    BY <1>1, <1>6 DEF Look, LookBack, LookNew, UndoLook, DropBoth
  <2> QED
    BY <2>1, Dropped
<1>7. CASE Place \/ MoveAside \/ MoveBack \/ Replace
  <2>1. Move("candidate", "unit") \/ Move("unit", "removed") \/ Move("removed", "unit")
    BY <1>1, <1>7 DEF Place, MoveAside, MoveBack, Replace
  <2> QED
    BY <2>1, Moved
<1>8. CASE Commit
  <2>1. pc = "commit" /\ (Both \/ PartOfBoth)
    BY <1>1, <1>8 DEF Commit
  <2> QED
    BY <2>1, Dropped
<1>9. CASE Undo
  <2>1. disk["unit"] = New /\ Put("unit", None) /\ ~AtRest
    BY <1>1, <1>9 DEF Undo
  <2> QED
    BY <2>1, Overwritten
<1>10. CASE CommitGone
  <2>1. pc = "commitGone" /\ Put("removed", None)
    BY <1>1, <1>10 DEF CommitGone
  <2> QED
    BY <2>1, Overwritten
<1>11. CASE SomebodyWrites
  BY <1>11 DEF SomebodyWrites
<1> QED
  <2>1. CASE Begin \/ Read \/ Query \/ QueryEnabled \/ Compare \/ CommandDies
             \/ StartingOrStopping
    BY <1>1, <2>1 DEF Begin, Read, Query, QueryEnabled, Compare, CommandDies,
       StartingOrStopping, StartInstalled, CheckStarted, AwaitStarted, StopInstalled, AwaitStopped
  <2>2. CASE Installing
    BY <1>1, <1>3, <1>4, <1>5, <1>6, <1>7, <1>8, <1>9, <2>2
       DEF Installing, StopOld, SettleOld, CheckDaemon, Recover, Bind, Unpublished, ReloadNew,
           EnableNow, CheckNew, AwaitNew, StopNew, SettleNew, DisableNew
  <2>3. CASE Uninstalling
    BY <1>1, <1>7, <1>10, <2>3
       DEF Uninstalling, DisableNow, SettleGone, Aside, LookAside, ReloadGone
  <2>4. CASE GoingBack
    BY <1>1, <2>4
       DEF GoingBack, ReloadBack, EnableBack, RunBack, StartBack, AwaitBack, Verify
  <2>5. CASE Others
    BY <1>1, <1>11, <2>5
       DEF Others, ServiceComesUp, ServiceFails, ServiceRestarts, ForegroundStarts, ForegroundEnds
  <2> QED
    BY <2>1, <2>2, <2>3, <2>4, <2>5 DEF Next

(* publish_service_file, ServiceFilePublication and ServiceFileRemoval: no  *)
(* definition is lost but the one that a command which succeeded replaced   *)
(* or removed, the command's own, and what another writer overwrites.       *)
THEOREM DefinitionsAreKept == Spec => DefinitionsKept
<1>1. IInv /\ [Next]_vars => [LosesOnlyItsOwn]_vars
  BY StepLoses
<1> HIDE DEF IInv, NoOrphanService
<1> QED
  BY <1>1, Inductive, PTL DEF Spec, DefinitionsKept

----------------------------------------------------------------------------
(* What a report rests on                                                   *)

(* A definition the past has produced; the current command's own has the    *)
(* number of its turn.                                                      *)
Past(f) ==
  /\ f.copy = FALSE /\ (f # None => f.exe # "none")
  /\ f.by = "other" => f \in written
  /\ f.by = "command" => f = New \/ (f.n \in Nat /\ f.n < turn)

PastOnly ==
  /\ \A x \in Names \ {"backup"} : Past(disk[x])
  /\ Past(loaded) /\ Past(seen.previous)
  /\ turn \in Nat /\ cmd.exe # "none"

(* No definition is at two names.                                           *)
OncePerName == \A x, y \in Names : x # y /\ disk[x] = disk[y] => disk[x] = None

(* The manager runs what it has loaded, one daemon at a time.               *)
ManagerFits ==
  /\ service \in {"stopped", "starting", "up", "restarting"}
  /\ loaded = None => service = "stopped"
  /\ Active => running # "none"
  /\ service = "up" => foreground = "none"

CommandFits ==
  /\ pc \in {"disableNow", "settleGone", "aside", "moveAside", "lookAside", "moveBack",
             "reloadGone", "commitGone", "replace"} => cmd.kind # "install"
  /\ pc \notin Reports \cup {"read"} /\ seen.previous # None => seen.previous.exe = cmd.owner
  /\ pc \in {"reloadBack", "enableBack", "runBack", "verify"} => back # "publication"

(* Before the candidate is staged, and what the way to the start rests on.  *)
Unstaged ==
  pc \in {"read", "query", "queryEnabled", "compare", "stopOld", "settleOld", "checkDaemon",
          "recover", "stage"}
    => Gone(New) /\ loaded # New

StillStopped ==
  /\ pc \in {"checkDaemon", "stage", "backup", "bind", "exchange", "look", "place", "lookNew",
             "reload", "enableNow"} => service = "stopped"
  /\ back = "installation" /\ pc \in {"disableNew", "undo", "undoSwap", "undoLook", "reloadBack",
                                      "enableBack", "runBack", "startBack"}
       => service = "stopped"

StillPlaced ==
  /\ pc \in {"stopNew", "settleNew", "disableNew", "undo"} => disk["candidate"] = seen.previous
  /\ pc \in {"place", "lookNew", "reload", "enableNow", "checkNew", "awaitNew", "commit", "stopNew",
             "settleNew", "disableNew", "undo"} /\ seen.previous = None => disk["backup"] = None

NewStarted ==
  /\ pc \in {"compare", "checkDaemon"} => enabled = seen.enabled
  /\ pc \in {"enableNow", "checkNew", "awaitNew", "commit"} /\ disk["unit"] = New => loaded = New
  /\ pc \in {"checkNew", "awaitNew", "commit"} /\ Active => running = loaded.exe
  /\ pc \in {"awaitNew", "commit"} => enabled
  /\ pc = "commitGone" /\ disk["unit"] = None => loaded = None

(* On the way back, unless it is from a publication, which only fails.      *)
WayBack == {"reloadBack", "enableBack", "runBack", "startBack", "awaitBack", "verify"}

PutBackInPlace ==
  pc \in WayBack /\ back # "publication" =>
    /\ disk["unit"] \in {seen.previous} \cup written
    /\ seen.previous # None => \A x \in Names \ {"unit"} : disk[x] # seen.previous
    /\ back = "installation" => disk["candidate"] = None /\ disk["backup"] = None
    /\ cmd.kind = "install" => Gone(New)
    /\ cmd.kind = "install" /\ pc # "reloadBack" => loaded # New
    /\ back = "installation" /\ pc # "reloadBack" /\ written = {} => loaded = seen.previous
    /\ back = "installation" /\ Active => running = loaded.exe

WayFits == /\ ManagerFits /\ CommandFits
           /\ Unstaged /\ StillStopped /\ StillPlaced /\ NewStarted /\ PutBackInPlace

Reported == PastOnly /\ OncePerName /\ WayFits

USE DEF OncePerName, WayFits, ManagerFits, CommandFits, Unstaged, StillStopped, StillPlaced,
        NewStarted, PutBackInPlace, WayBack, Gone, Active

LEMMA HasExe == Reported /\ loaded # None => loaded.exe # "none"
BY DEF Reported, PastOnly, Past

LEMMA NewIsPast == PastOnly => Past(New) /\ Past(None) /\ None.exe = "none"
BY Apart DEF PastOnly, Past, None, Definition

(* Most steps bring no definition about but the command's own.              *)
NothingElse ==
  /\ UNCHANGED <<turn, cmd, written>>
  /\ \A x \in Names \ {"backup"} :
       disk'[x] \in {disk["unit"], disk["candidate"], disk["removed"], New, None}
  /\ loaded' \in {loaded, disk["unit"]}
  /\ seen'.previous \in {seen.previous, disk["unit"]}

LEMMA NothingElseIsPast == ASSUME PastOnly, NothingElse PROVE PastOnly'
<1>1. UNCHANGED New /\ Past(New) /\ Past(None)
  BY NewIsPast DEF NothingElse
<1>2. \A f : Past(f) => Past(f)'
  BY <1>1 DEF NothingElse, Past
<1>3. Past(disk["unit"]) /\ Past(disk["candidate"]) /\ Past(disk["removed"])
  BY DEF PastOnly
<1>4. \A x \in Names \ {"backup"} : Past(disk'[x])
  BY <1>1, <1>3 DEF NothingElse
<1>5. Past(loaded') /\ Past(seen'.previous)
  BY <1>3 DEF NothingElse, PastOnly
<1>6. \A f : Past(f) => Past(f)'
  BY <1>2
<1> QED
  BY <1>4, <1>5, <1>6 DEF PastOnly, NothingElse

(* A command begins: what was its predecessor's own is now of the past.     *)
LEMMA BeginReports == ASSUME IInv, IInv', Reported, Begin PROVE Reported'
<1>1. /\ UNCHANGED <<disk, manager, outside, seen>> /\ turn' = turn + 1
      /\ pc' = "read" /\ back' = "nothing" /\ cmd' \in Requests
  BY DEF Begin
<1>2. turn \in Nat
  BY DEF Reported, PastOnly
<1>3. \A f : Past(f) => Past(f)' /\ f # New'
  <2> SUFFICES ASSUME NEW f, Past(f) PROVE Past(f)' /\ f # New'
    OBVIOUS
  <2>0. New.n = turn
    BY DEF Definition
  <2>1. f.by = "command" => f.n \in Nat /\ f.n < turn + 1
    <3>1. CASE f = New
      BY <1>2, <2>0, <3>1
    <3>2. CASE f # New
      BY <1>2, <3>2 DEF Past
    <3> QED
      BY <3>1, <3>2
  <2>2. New'.by = "command" /\ New'.n = turn + 1
    BY <1>1 DEF Definition
  <2> HIDE DEF New
  <2> QED
    BY <1>1, <1>2, <2>1, <2>2 DEF Past
<1>4. PastOnly'
  <2>1. cmd'.exe # "none"
    BY <1>1, ExecutableAssumption DEF Requests
  <2> QED
    BY <1>1, <1>2, <1>3, <2>1 DEF Reported, PastOnly
<1>5. Unstaged'
  <2>1. disk["backup"] # New'
    BY Apart DEF Definition, None
  <2>2. \A x \in Names : disk[x] # New'
    BY <1>3, <2>1 DEF Reported, PastOnly
  <2>3. loaded # New'
    BY <1>3 DEF Reported, PastOnly
  <2> QED
    BY <1>1, <2>2, <2>3
<1> QED
  BY <1>1, <1>4, <1>5 DEF Reported

(* Somebody writes the unit file: a definition that nobody had before.      *)
LEMMA WritingReports == ASSUME IInv, IInv', Reported, SomebodyWrites PROVE Reported'
<1>1. PICK e \in Executable : /\ ByOther(e) \notin written
                              /\ Put("unit", ByOther(e))
                              /\ written' = written \cup {ByOther(e)}
  BY DEF SomebodyWrites
<1>2. UNCHANGED <<manager, command, foreground, pc, back>>
  BY DEF SomebodyWrites
<1>3. PICK g : g = ByOther(e)
  OBVIOUS
<1>4. g.by = "other" /\ g.exe = e /\ g.copy = FALSE /\ e # "none"
  BY <1>3, ExecutableAssumption DEF ByOther, Definition
<1>5. \A f : Past(f) => Past(f)' /\ f # g
  BY <1>1, <1>2, <1>3, <1>4 DEF Past
<1>6. g # None /\ g # New /\ Past(g)'
  BY <1>1, <1>2, <1>3, <1>4, Apart DEF Past, Definition
<1>7. disk'["unit"] = g /\ \A x \in Names \ {"unit"} : disk'[x] = disk[x]
  BY <1>1, <1>3
<1>8. PastOnly'
  BY <1>2, <1>5, <1>6, <1>7 DEF Reported, PastOnly
<1>9. \A x \in Names : disk[x] # g
  <2>1. disk["backup"] # g
    BY <1>4, <1>6
  <2> QED
    BY <2>1, <1>5 DEF Reported, PastOnly
<1>10. OncePerName'
  BY <1>7, <1>9 DEF Reported
<1>11. /\ (ManagerFits /\ CommandFits /\ StillStopped)'
       /\ Gone(New) => Gone(New)'
  BY <1>2, <1>6, <1>7 DEF Reported
<1>12. (Unstaged /\ StillPlaced)'
  BY <1>2, <1>7, <1>11 DEF Reported
<1>13. NewStarted'
  BY <1>2, <1>6, <1>7 DEF Reported
<1>14. PutBackInPlace'
  <2>1. g \in written' /\ written \subseteq written' /\ written' # {}
    BY <1>1, <1>3
  <2> HIDE DEF Gone
  <2> QED
    BY <1>2, <1>6, <1>7, <1>11, <2>1 DEF Reported
<1> QED
  BY <1>8, <1>10, <1>11, <1>12, <1>13, <1>14 DEF Reported

(* The beginning and the death of a command.                                *)
LEMMA CommandReports ==
  ASSUME IInv, IInv', Reported,
         Read \/ Query \/ QueryEnabled \/ Compare \/ CommandDies
  PROVE  NothingElse /\ OncePerName' /\ WayFits'
<1> USE DEF Reported, NothingElse
<1>1. CASE Read
  BY <1>1, Apart, HasExe DEF Read, Owner
<1>2. CASE Query
  BY <1>2, Apart, HasExe DEF Query, Fault, Unsettled
<1>3. CASE QueryEnabled
  BY <1>3, Apart, HasExe DEF QueryEnabled, Fault
<1>4. CASE Compare
  BY <1>4, Apart, HasExe DEF Compare, Ask, Fault
<1>5. CASE CommandDies
  BY <1>5, Apart, HasExe DEF CommandDies, Fault
<1> QED
  BY <1>1, <1>2, <1>3, <1>4, <1>5

(* start and stop.                                                          *)
LEMMA StartOrStopReports ==
  ASSUME IInv, IInv', Reported,
         StartInstalled \/ CheckStarted \/ AwaitStarted \/ StopInstalled \/ AwaitStopped
  PROVE  NothingElse /\ OncePerName' /\ WayFits'
<1> USE DEF Reported, NothingElse
<1>1. CASE StartInstalled
  BY <1>1, Apart, HasExe DEF StartInstalled, Call, Fault, Start, StartIt
<1>2. CASE CheckStarted
  BY <1>2, Apart, HasExe DEF CheckStarted, Ask, Fault
<1>3. CASE AwaitStarted
  BY <1>3, Apart, HasExe DEF AwaitStarted, Owner
<1>4. CASE StopInstalled
  BY <1>4, Apart, HasExe DEF StopInstalled, Call, Fault, Stop, StopIt
<1>5. CASE AwaitStopped
  BY <1>5, Apart, HasExe DEF AwaitStopped, Owner
<1> QED
  BY <1>1, <1>2, <1>3, <1>4, <1>5

(* An installation stops what ran.                                          *)
LEMMA PreparationReports ==
  ASSUME IInv, IInv', Reported,
         StopOld \/ SettleOld \/ CheckDaemon \/ Recover
  PROVE  NothingElse /\ OncePerName' /\ WayFits'
<1> USE DEF Reported, NothingElse
<1>1. CASE StopOld
  BY <1>1, Apart, HasExe DEF StopOld, Call, Fault, Stop, StopIt
<1>2. CASE SettleOld
  BY <1>2, Apart, HasExe DEF SettleOld, Ask, Fault, Owner
<1>3. CASE CheckDaemon
  BY <1>3, Apart, HasExe DEF CheckDaemon, Ask, Fault, Owner
<1>4. CASE Recover
  BY <1>4, Apart, HasExe DEF Recover, Fault, Unsettled, Owner
<1> QED
  BY <1>1, <1>2, <1>3, <1>4

(* An installation publishes its definition.                                *)
LEMMA PublicationReports ==
  ASSUME IInv, IInv', Reported,
         Stage \/ BackUp \/ Bind \/ Swap \/ Look \/ PutBack \/ LookBack \/ Place \/ LookNew
         \/ Unpublished
  PROVE  NothingElse /\ OncePerName' /\ WayFits'
<1> USE DEF Reported, NothingElse
<1>1. CASE Stage
  <2>1. pc = "stage" /\ (UNCHANGED disk \/ (Put("candidate", New) /\ disk["backup"] = None))
    BY <1>1 DEF Stage
  <2>2. OncePerName'
    BY <2>1, <1>1
  <2>3. NothingElse
    BY <1>1, Apart DEF Stage, Fault
  <2>4. WayFits'
    BY <1>1, Apart DEF Stage, Fault
  <2> QED
    BY <2>2, <2>3, <2>4
<1>2. CASE BackUp
  <2>1. /\ \A x \in {"unit", "removed"} : disk'[x] = disk[x]
        /\ disk'["candidate"] \in {disk["candidate"], None}
        /\ disk'["backup"] \in {disk["backup"], Copy(seen.previous)}
    BY <1>2 DEF BackUp
  <2>2. Copy(seen.previous).copy = TRUE
    BY DEF Copy
  <2>3. \A x \in Names \ {"backup"} : disk[x] # Copy(seen.previous)
    BY <2>2 DEF Reported, PastOnly, Past
  <2>4. OncePerName'
    BY <2>1, <2>3
  <2>5. NothingElse
    BY <1>2, Apart DEF BackUp, Fault
  <2>6. WayFits'
    BY <1>2, Apart DEF BackUp, Fault
  <2> QED
    BY <2>4, <2>5, <2>6
<1>3. CASE Bind
  BY <1>3, Apart, HasExe DEF Bind, Ask, Fault
<1>4. CASE Swap
  BY <1>4, Apart, HasExe DEF Swap, Fault, Exchange
<1>5. CASE Look
  <2>1. NothingElse
    BY <1>5, Apart DEF Look, Fault, Both, PartOfBoth, DropBoth, Published
  <2>2. OncePerName'
    BY <1>5, Apart DEF Look, Fault, Both, PartOfBoth, DropBoth, Published
  <2>3. WayFits'
    BY <1>5, Apart DEF Look, Fault, Both, PartOfBoth, DropBoth, Published
  <2> QED
    BY <2>1, <2>2, <2>3
<1>6. CASE PutBack
  BY <1>6, Apart, HasExe DEF PutBack, Fault, Exchange
<1>7. CASE LookBack
  BY <1>7, Apart, HasExe DEF LookBack, Fault, Both, PartOfBoth, DropBoth
<1>8. CASE Place
  BY <1>8, Apart, HasExe DEF Place, Fault, Move
<1>9. CASE LookNew
  BY <1>9, Apart, HasExe DEF LookNew, Fault, Both, PartOfBoth, DropBoth
<1>10. CASE Unpublished
  BY <1>10, Apart, HasExe DEF Unpublished, Ask, Fault
<1> QED
  BY <1>1, <1>2, <1>3, <1>4, <1>5, <1>6, <1>7, <1>8, <1>9, <1>10

(* An installation starts its service, commits or goes back.                *)
LEMMA InstallationReports ==
  ASSUME IInv, IInv', Reported,
         ReloadNew \/ EnableNow \/ CheckNew \/ AwaitNew \/ Commit \/ StopNew \/ SettleNew
         \/ DisableNew \/ Undo \/ UndoSwap \/ UndoLook
  PROVE  NothingElse /\ OncePerName' /\ WayFits'
<1> USE DEF Reported, NothingElse
<1>1. CASE ReloadNew
  BY <1>1, Apart, HasExe DEF ReloadNew, Call, Fault, Reload
<1>2. CASE EnableNow
  BY <1>2, Apart, HasExe DEF EnableNow, Call, Fault, Start, Enable
<1>3. CASE CheckNew
  BY <1>3, Apart, HasExe DEF CheckNew, Ask, Fault
<1>4. CASE AwaitNew
  BY <1>4, Apart, HasExe DEF AwaitNew, Owner
<1>5. CASE Commit
  <2>1. NothingElse
    BY <1>5, Apart DEF Commit, Fault, Both, PartOfBoth
  <2>2. OncePerName'
    BY <1>5, Apart DEF Commit, Fault, Both, PartOfBoth
  <2>3. ManagerFits' /\ CommandFits'
    BY <1>5, Apart DEF Commit, Fault, Both, PartOfBoth
  <2>4. Unstaged' /\ StillStopped' /\ StillPlaced'
    BY <1>5, Apart DEF Commit, Fault, Both, PartOfBoth
  <2>5. NewStarted' /\ PutBackInPlace'
    BY <1>5, Apart DEF Commit, Fault, Both, PartOfBoth
  <2>6. WayFits'
    BY <2>3, <2>4, <2>5
  <2> QED
    BY <2>1, <2>2, <2>6
<1>6. CASE StopNew
  BY <1>6, Apart, HasExe DEF StopNew, Call, Fault, Stop, StopIt
<1>7. CASE SettleNew
  BY <1>7, Apart, HasExe DEF SettleNew, Ask, Fault, Owner
<1>8. CASE DisableNew
  BY <1>8, Apart, HasExe DEF DisableNew, Call, Fault, Enable
<1>9. CASE Undo
  BY <1>9, Apart, HasExe DEF Undo, Fault, Published, Undone, NotUndone
<1>10. CASE UndoSwap
  BY <1>10, Apart, HasExe DEF UndoSwap, Fault, Exchange
<1>11. CASE UndoLook
  <2>1. NothingElse
    BY <1>11, Apart DEF UndoLook, Fault, Both, PartOfBoth, Undone, NotUndone
  <2>2. OncePerName'
    BY <1>11, Apart DEF UndoLook, Fault, Both, PartOfBoth, Undone, NotUndone
  <2>3. WayFits'
    BY <1>11, Apart DEF UndoLook, Fault, Both, PartOfBoth, Undone, NotUndone
  <2> QED
    BY <2>1, <2>2, <2>3
<1> QED
  BY <1>1, <1>2, <1>3, <1>4, <1>5, <1>6, <1>7, <1>8, <1>9, <1>10, <1>11

(* A removal.                                                               *)
LEMMA RemovalReports ==
  ASSUME IInv, IInv', Reported,
         DisableNow \/ SettleGone \/ Aside \/ MoveAside \/ LookAside \/ MoveBack
         \/ ReloadGone \/ CommitGone \/ Replace
  PROVE  NothingElse /\ OncePerName' /\ WayFits'
<1> USE DEF Reported, NothingElse
<1>1. CASE DisableNow
  BY <1>1, Apart, HasExe DEF DisableNow, Call, Fault, Stop, Enable
<1>2. CASE SettleGone
  BY <1>2, Apart, HasExe DEF SettleGone, Ask, Fault, Owner
<1>3. CASE Aside
  BY <1>3, Apart, HasExe DEF Aside, Ask, Fault
<1>4. CASE MoveAside
  BY <1>4, Apart, HasExe DEF MoveAside, Fault, Move
<1>5. CASE LookAside
  BY <1>5, Apart, HasExe DEF LookAside, Fault
<1>6. CASE MoveBack
  BY <1>6, Apart, HasExe DEF MoveBack, Fault, Move
<1>7. CASE ReloadGone
  BY <1>7, Apart, HasExe DEF ReloadGone, Call, Fault, Reload
<1>8. CASE CommitGone
  BY <1>8, Apart, HasExe DEF CommitGone, Fault
<1>9. CASE Replace
  <2>1. /\ UNCHANGED <<manager, outside, command>> /\ back' = "removal"
        /\ pc = "replace" /\ pc' \in {"reloadBack", "incomplete"} /\ cmd.kind # "install"
    BY <1>9 DEF Replace, Fault
  <2>2. (UNCHANGED disk /\ disk["unit"] = seen.previous) \/ (Move("removed", "unit")
          /\ disk["unit"] = None /\ disk["removed"] = seen.previous) \/ pc' = "incomplete"
    BY <1>9 DEF Replace, Fault
  <2>3. pc' = "reloadBack" => disk'["unit"] = seen.previous
    BY <2>1, <2>2 DEF Move
  <2>4. UNCHANGED disk \/ Move("removed", "unit")
    BY <1>9 DEF Replace
  <2>5. OncePerName'
    BY <2>4 DEF Move
  <2>6. NothingElse
    BY <2>1, <2>4 DEF Move
  <2>7. WayFits'
    BY <2>1, <2>3, <2>5
  <2> QED
    BY <2>5, <2>6, <2>7
<1> QED
  BY <1>1, <1>2, <1>3, <1>4, <1>5, <1>6, <1>7, <1>8, <1>9

(* The common end of the ways back.                                         *)
LEMMA BackReports ==
  ASSUME IInv, IInv', Reported,
         ReloadBack \/ EnableBack \/ RunBack \/ StartBack \/ AwaitBack \/ Verify
  PROVE  NothingElse /\ OncePerName' /\ WayFits'
<1> USE DEF Reported, NothingElse
<1>1. CASE ReloadBack
  BY <1>1, Apart, HasExe DEF ReloadBack, Call, Fault, Reload
<1>2. CASE EnableBack
  BY <1>2, Apart, HasExe DEF EnableBack, Call, Fault, Enable
<1>3. CASE RunBack
  BY <1>3, Apart, HasExe DEF RunBack, Fault, Unsettled, Owner
<1>4. CASE StartBack
  BY <1>4, Apart, HasExe DEF StartBack, Call, Fault, Start, StartIt
<1>5. CASE AwaitBack
  BY <1>5, Apart, HasExe DEF AwaitBack, Owner
<1>6. CASE Verify
  BY <1>6, Apart, HasExe DEF Verify, Fault, Unsettled, Owner
<1> QED
  BY <1>1, <1>2, <1>3, <1>4, <1>5, <1>6

(* The manager and everybody else.                                          *)
LEMMA OtherReports ==
  ASSUME IInv, IInv', Reported,
         ServiceComesUp \/ ServiceFails \/ ServiceRestarts \/ ForegroundStarts
         \/ ForegroundEnds
  PROVE  NothingElse /\ OncePerName' /\ WayFits'
<1> USE DEF Reported, NothingElse
<1>1. CASE ServiceComesUp
  BY <1>1, Apart, HasExe DEF ServiceComesUp
<1>2. CASE ServiceFails
  BY <1>2, Apart, HasExe DEF ServiceFails, Fault
<1>3. CASE ServiceRestarts
  BY <1>3, Apart, HasExe DEF ServiceRestarts
<1>4. CASE ForegroundStarts
  BY <1>4, Apart, HasExe DEF ForegroundStarts, Owner
<1>5. CASE ForegroundEnds
  BY <1>5, Apart, HasExe DEF ForegroundEnds
<1> QED
  BY <1>1, <1>2, <1>3, <1>4, <1>5

LEMMA StepIsReported == ASSUME IInv, IInv', Reported, [Next]_vars PROVE Reported'
<1>1. CASE Begin
  BY <1>1, BeginReports
<1>2. CASE SomebodyWrites
  BY <1>2, WritingReports
<1>3. CASE Next /\ ~Begin /\ ~SomebodyWrites
  <2>1. NothingElse /\ OncePerName' /\ WayFits'
    BY <1>3, CommandReports, StartOrStopReports, PreparationReports, PublicationReports,
       InstallationReports, RemovalReports, BackReports, OtherReports
       DEF Next, StartingOrStopping, Installing, Uninstalling, GoingBack, Others
  <2>2. PastOnly'
    BY <2>1, NothingElseIsPast DEF Reported
  <2> QED
    BY <2>1, <2>2 DEF Reported
<1>4. CASE UNCHANGED vars
  <2>1. UNCHANGED <<disk, hold, want, manager, outside, command, pc, back>>
    BY <1>4 DEF vars
  <2>2. PastOnly'
    BY <2>1 DEF Reported, PastOnly, Past
  <2> QED
    BY <2>1, <2>2 DEF Reported
<1> QED
  BY <1>1, <1>2, <1>3, <1>4

LEMMA InitIsReported == Init => Reported
<1> SUFFICES ASSUME Init PROVE Reported
  OBVIOUS
<1>1. PICK f \in {Prior(e) : e \in Executable} \cup {None} :
        /\ disk = [x \in Names |-> IF x = "unit" THEN f ELSE None]
        /\ loaded = f
        /\ service \in IF f = None THEN {"stopped"} ELSE {"stopped", "up"}
        /\ running = IF service = "up" THEN f.exe ELSE "none"
  BY DEF Init
<1>2. /\ seen.previous = None /\ pc = "idle" /\ turn = 0 /\ back = "nothing"
      /\ foreground = "none" /\ cmd \in Requests
  BY DEF Init
<1>3. Past(f) /\ Past(None) /\ (f # None => f.exe # "none")
  BY ExecutableAssumption DEF Past, Prior, None, Definition
<1>4. PastOnly
  <2>1. cmd.exe # "none"
    BY <1>2, ExecutableAssumption DEF Requests
  <2> QED
    BY <1>1, <1>2, <1>3, <2>1 DEF PastOnly
<1>5. OncePerName
  BY <1>1
<1>6. WayFits
  BY <1>1, <1>2, <1>3
<1> QED
  BY <1>4, <1>5, <1>6 DEF Reported

(* Who reports what.                                                        *)
LEMMA Reporters ==
  ASSUME Next, pc' # pc
  PROVE  /\ pc' = "restored" => Verify
         /\ pc' = "unchanged" => CheckDaemon
         /\ pc' = "installed" => Commit
         /\ pc' \in {"uninstalled", "unconfirmed"} => CommitGone
<1>1. CASE Begin \/ Read \/ Query \/ QueryEnabled \/ Compare \/ CommandDies
  BY <1>1 DEF Begin, Read, Query, QueryEnabled, Compare, CommandDies, Ask, Fault
<1>2. CASE StartingOrStopping
  BY <1>2
     DEF StartingOrStopping, StartInstalled, CheckStarted, AwaitStarted, StopInstalled,
         AwaitStopped, Call, Fault, Ask
<1>3. CASE StopOld \/ SettleOld \/ CheckDaemon \/ Recover
  BY <1>3 DEF StopOld, SettleOld, CheckDaemon, Recover, Call, Fault, Ask
<1>4. CASE Stage \/ BackUp \/ Bind \/ Swap \/ Look \/ PutBack \/ LookBack \/ Place \/ LookNew
          \/ Unpublished
  BY <1>4
     DEF Stage, BackUp, Bind, Swap, Look, PutBack, LookBack, Place, LookNew, Unpublished, Ask, Fault
<1>5. CASE ReloadNew \/ EnableNow \/ CheckNew \/ AwaitNew \/ Commit \/ StopNew \/ SettleNew
          \/ DisableNew \/ Undo \/ UndoSwap \/ UndoLook
  BY <1>5
     DEF ReloadNew, EnableNow, CheckNew, AwaitNew, Commit, StopNew, SettleNew, DisableNew, Undo,
         UndoSwap, UndoLook, Call, Fault, Ask, Undone, NotUndone
<1>6. CASE Uninstalling
  BY <1>6
     DEF Uninstalling, DisableNow, SettleGone, Aside, MoveAside, LookAside, MoveBack, ReloadGone,
         CommitGone, Replace, Call, Fault, Ask
<1>7. CASE GoingBack
  BY <1>7
     DEF GoingBack, ReloadBack, EnableBack, RunBack, StartBack, AwaitBack, Verify, Call, Fault
<1>8. CASE ServiceComesUp \/ ServiceFails \/ ServiceRestarts \/ ForegroundStarts
          \/ ForegroundEnds \/ SomebodyWrites
  BY <1>8
     DEF ServiceComesUp, ServiceFails, ServiceRestarts, ForegroundStarts, ForegroundEnds,
         SomebodyWrites, Fault
<1> QED
  BY <1>1, <1>2, <1>3, <1>4, <1>5, <1>6, <1>7, <1>8 DEF Next, Installing, Others

(* What is reported then is so.                                             *)
LEMMA RestoredIsSo == ASSUME IInv, Reported, Verify, pc' = "restored" PROVE Restored'
<1>1. /\ pc = "verify" /\ enabled = seen.enabled /\ Active = seen.active
      /\ UNCHANGED <<files, manager, outside, command, back>>
      /\ back = "installation" \/ ~seen.active \/ Owner = cmd.owner
  BY DEF Verify
<1> SUFFICES Restored
  BY <1>1 DEF Restored
<1>2. PutBackInPlace /\ ManagerFits /\ back # "publication"
  BY <1>1 DEF Reported
<1>3. service = "up" /\ written = {} => running = cmd.owner
  <2> SUFFICES ASSUME service = "up", written = {} PROVE running = cmd.owner
    OBVIOUS
  <2>1. CASE back = "installation"
    <3>1. running = loaded.exe /\ loaded = seen.previous /\ loaded # None
      BY <1>1, <1>2, <2>1
    <3> QED
      BY <1>1, <3>1 DEF Reported
  <2>2. CASE back # "installation"
    BY <1>1, <1>2, <2>2 DEF Owner
  <2> QED
    BY <2>1, <2>2
<1> QED
  BY <1>1, <1>2, <1>3 DEF Restored

LEMMA StepReportsTruly == ASSUME IInv, IInv', Reported, [Next]_vars PROVE [ReportsTruly]_vars
<1> SUFFICES ASSUME Next, pc' # pc PROVE ReportsTruly
  BY DEF ReportsTruly
<1>1. ASSUME pc' = "restored" PROVE Restored'
  BY <1>1, Reporters, RestoredIsSo
<1>2. ASSUME pc' = "unchanged" PROVE (Gone(New) /\ loaded # New /\ enabled = seen.enabled)'
  <2>1. pc = "checkDaemon" /\ UNCHANGED <<files, manager, outside, command, back>>
    BY <1>2, Reporters DEF CheckDaemon
  <2> QED
    BY <2>1 DEF Reported
<1>3. ASSUME pc' = "installed"
      PROVE  (/\ disk["unit"] = New /\ loaded = New /\ enabled
              /\ disk["candidate"] = None /\ disk["backup"] = None
              /\ Active => running = cmd.exe)'
  <2>1. /\ pc = "commit" /\ disk["unit"] = New /\ Both
        /\ UNCHANGED <<manager, command>>
    BY <1>3, Reporters DEF Commit
  <2>2. New.exe = cmd.exe
    BY DEF Definition
  <2>3. loaded = New /\ enabled /\ (Active => running = loaded.exe)
    BY <2>1 DEF Reported
  <2>4. disk'["unit"] = New /\ disk'["candidate"] = None /\ disk'["backup"] = None
    BY <2>1 DEF Both
  <2> HIDE DEF New
  <2>5. New' = New
    BY <2>1 DEF New
  <2> QED
    BY <2>1, <2>2, <2>3, <2>4, <2>5
<1>4. ASSUME pc' \in {"uninstalled", "unconfirmed"}
      PROVE  (/\ disk = [disk EXCEPT !["unit"] = None, !["removed"] = None]
              /\ loaded = None /\ ~enabled /\ service = "stopped")'
  <2>1. /\ pc = "commitGone" /\ disk["unit"] = None /\ Put("removed", None)
        /\ UNCHANGED <<manager, command>>
    BY <1>4, Reporters DEF CommitGone
  <2>2. loaded = None /\ ~enabled /\ service = "stopped"
    BY <2>1 DEF Reported
  <2>3. disk' = [disk' EXCEPT !["unit"] = None, !["removed"] = None]
    BY <2>1
  <2> QED
    BY <2>1, <2>2, <2>3
<1> QED
  BY <1>1, <1>2, <1>3, <1>4 DEF ReportsTruly

(* install_systemd, uninstall_systemd and their ways back: a command that   *)
(* reports an installation, a removal, a restoration or that nothing was    *)
(* changed is right about the unit file, the manager, and what runs.        *)
THEOREM ReportsAreTrue == Spec => OutcomeIsTrue
<1>1. IInv /\ Reported /\ IInv' /\ [Next]_vars => Reported'
  BY StepIsReported
<1>2. IInv /\ Reported /\ IInv' /\ [Next]_vars => [ReportsTruly]_vars
  BY StepReportsTruly
<1> HIDE DEF IInv, NoOrphanService
<1> QED
  BY <1>1, <1>2, Inductive, InitIsReported, PTL DEF Spec, OutcomeIsTrue

----------------------------------------------------------------------------
(* The types of the service's state.  A definition is made by somebody, and *)
(* a command that is under way has a number.                                *)
Typed == TypeOK /\ (AtRest \/ turn > 0)

FilesTyped ==
  /\ disk \in [Names -> Files] /\ want \in Files
  /\ hold \in {"none", "pending", "finished", "preserved"}

ManagerTyped ==
  /\ loaded \in Files /\ enabled \in BOOLEAN
  /\ service \in {"stopped", "starting", "up", "restarting"}
  /\ running \in Executable \cup {"none"}

OutsideTyped ==
  /\ foreground \in Executable \cup {"none"}
  /\ written \subseteq {ByOther(e) : e \in Executable}

CommandTyped ==
  /\ turn \in 0..MaxCommands /\ cmd \in Requests
  /\ seen \in [previous : Files, active : BOOLEAN, enabled : BOOLEAN]
  /\ AtRest \/ turn > 0

StepTyped ==
  /\ back \in {"nothing", "preparation", "publication", "installation", "removal"}
  /\ faults \in 0..MaxFaults

LEMMA TypedParts ==
  Typed <=> FilesTyped /\ ManagerTyped /\ OutsideTyped /\ CommandTyped /\ StepTyped
BY DEF Typed, TypeOK, FilesTyped, ManagerTyped, OutsideTyped, CommandTyped, StepTyped

LEMMA FilesHold ==
  /\ None \in Files
  /\ \A e \in Executable : Prior(e) \in Files /\ ByOther(e) \in Files
  /\ \A f \in Files : f # None => Copy(f) \in Files
  /\ \A f \in Files : f.exe \in Executable \cup {"none"}
  /\ CommandTyped /\ ~AtRest => New \in Files
<1>1. \A f \in Originals : Copy(f) = Copy(Copy(f)) /\ f.exe \in Executable
  BY DEF Originals, Copy, Prior, ByOther, Definition
<1>2. \A f \in Originals : Copy(f).exe = f.exe
  BY DEF Copy
<1>3. ASSUME CommandTyped, ~AtRest PROVE New \in Files
  <2>1. turn \in 1..MaxCommands /\ cmd.exe \in Executable
    BY <1>3, BoundsAssumption DEF CommandTyped, Requests
  <2> QED
    BY <2>1 DEF New, Files, Originals
<1>4. None.exe = "none"
  BY DEF None, Definition
<1>5. \A f \in Files : f # None => Copy(f) \in Files
  BY <1>1 DEF Files
<1>6. \A f \in Files : f.exe \in Executable \cup {"none"}
  BY <1>1, <1>2, <1>4 DEF Files
<1>7. None \in Files /\ \A e \in Executable : Prior(e) \in Files /\ ByOther(e) \in Files
  BY DEF Files, Originals
<1> QED
  BY <1>3, <1>5, <1>6, <1>7

LEMMA FaultTyped ==
  ASSUME StepTyped, Fault \/ UNCHANGED faults
  PROVE  faults' \in 0..MaxFaults
BY BoundsAssumption DEF StepTyped, Fault

(* The files change by exchanging, moving and removing what is there.       *)
LEMMA DiskTyped ==
  ASSUME disk \in [Names -> Files], NEW f \in Files,
         \/ disk' = disk \/ Exchange \/ Both \/ PartOfBoth
         \/ \E x, y \in Names : Move(x, y) \/ Put(x, None) \/ Put(x, f)
  PROVE  disk' \in [Names -> Files]
<1>1. None \in Files
  BY FilesHold
<1>2. {"unit", "candidate", "backup", "removed"} = Names
  BY DEF Names
<1> QED
  BY <1>1, <1>2 DEF Exchange, Both, PartOfBoth, Move, Put

LEMMA StartTyped ==
  ASSUME ManagerTyped
  PROVE  /\ Start => service' \in {"stopped", "starting", "up", "restarting"}
                     /\ running' \in Executable \cup {"none"}
         /\ Stop => service' \in {"stopped", "starting", "up", "restarting"}
                     /\ running' \in Executable \cup {"none"}
BY FilesHold DEF ManagerTyped, Start, Stop

LEMMA CallTyped ==
  ASSUME StepTyped, ManagerTyped, NEW effect, NEW ok, NEW fail,
         \/ effect /\ Goto(ok) /\ UNCHANGED faults
         \/ Fault /\ Goto(fail) /\ (effect \/ UNCHANGED manager),
         effect => ManagerTyped'
  PROVE  ManagerTyped' /\ faults' \in 0..MaxFaults
<1>1. UNCHANGED manager => ManagerTyped'
  BY DEF ManagerTyped, manager
<1> QED
  BY <1>1, FaultTyped

(* A step of a command: what it touches stays typed, the rest it leaves.    *)
LEMMA StepOfCommand ==
  ASSUME Typed, ~AtRest, UNCHANGED <<outside, turn, cmd>>,
         UNCHANGED seen \/ seen' \in [previous : Files, active : BOOLEAN, enabled : BOOLEAN],
         UNCHANGED files \/ FilesTyped', UNCHANGED manager \/ ManagerTyped',
         Fault \/ UNCHANGED faults,
         UNCHANGED back
           \/ back' \in {"nothing", "preparation", "publication", "installation", "removal"}
  PROVE  Typed'
<1>1. FilesTyped /\ ManagerTyped /\ OutsideTyped /\ CommandTyped /\ StepTyped
  BY TypedParts
<1>2. FilesTyped'
  BY <1>1 DEF FilesTyped, files
<1>3. ManagerTyped'
  BY <1>1 DEF ManagerTyped, manager
<1>4. OutsideTyped'
  BY <1>1 DEF OutsideTyped, outside
<1>5. CommandTyped'
  BY <1>1 DEF CommandTyped
<1>6. StepTyped'
  BY <1>1, FaultTyped DEF StepTyped
<1> QED
  BY <1>2, <1>3, <1>4, <1>5, <1>6
     DEF Typed, TypeOK, FilesTyped, ManagerTyped, OutsideTyped,
     CommandTyped, StepTyped

(* Calls of systemctl change what the manager has, to what is typed.        *)
LEMMA EffectTyped ==
  ASSUME Typed, NEW b \in BOOLEAN,
         \/ StartIt \/ StopIt \/ Reload \/ Enable(b) \/ UNCHANGED manager
         \/ enabled' = b /\ (Start \/ Stop) /\ UNCHANGED loaded
  PROVE  ManagerTyped'
<1>1. disk["unit"] \in Files /\ ManagerTyped
  BY TypedParts DEF FilesTyped, Names
<1> QED
  BY <1>1, StartTyped
     DEF ManagerTyped, StartIt, StopIt, Reload, Enable, manager

LEMMA BeginTyped == ASSUME Typed, Begin PROVE Typed'
<1>1. turn + 1 \in 1..MaxCommands
  BY BoundsAssumption DEF Typed, TypeOK, Begin
<1>2. CommandTyped'
  BY <1>1, TypedParts DEF Begin, CommandTyped
<1>3. FilesTyped'
  BY FilesHold, TypedParts DEF Begin, FilesTyped
<1>4. ManagerTyped' /\ OutsideTyped' /\ StepTyped'
  BY TypedParts DEF Begin, ManagerTyped, OutsideTyped, StepTyped, manager, outside
<1> QED
  BY <1>2, <1>3, <1>4
     DEF Typed, TypeOK, FilesTyped, ManagerTyped, OutsideTyped,
     CommandTyped, StepTyped

LEMMA ReadTyped ==
  ASSUME Typed, Read \/ Query \/ QueryEnabled \/ CommandDies
  PROVE  Typed'
<1>1. disk["unit"] \in Files /\ seen \in [previous : Files, active : BOOLEAN, enabled : BOOLEAN]
  BY DEF Typed, TypeOK, Names
<1>2. CASE Read
  <2>1. ~AtRest /\ seen' \in [previous : Files, active : BOOLEAN, enabled : BOOLEAN]
    BY <1>1, <1>2 DEF Read, AtRest, Reports
  <2> QED
    BY <1>2, <2>1, StepOfCommand DEF Read
<1>3. CASE Query \/ QueryEnabled
  <2>1. ~AtRest
    BY <1>3 DEF Query, QueryEnabled, AtRest, Reports
  <2>2. Active \in BOOLEAN /\ enabled \in BOOLEAN
    BY DEF Active, Typed, TypeOK
  <2>3. seen' \in [previous : Files, active : BOOLEAN, enabled : BOOLEAN]
    BY <1>1, <1>3, <2>2 DEF Query, QueryEnabled
  <2>4. UNCHANGED <<files, manager, outside, turn, cmd, back>> /\ (Fault \/ UNCHANGED faults)
    BY <1>3 DEF Query, QueryEnabled
  <2> QED
    BY <2>1, <2>3, <2>4, StepOfCommand
<1>4. CASE CommandDies
  <2>1. FilesTyped'
    BY <1>4, TypedParts DEF CommandDies, FilesTyped
  <2> QED
    BY <1>4, <2>1, StepOfCommand DEF CommandDies, command
<1> QED
  BY <1>2, <1>3, <1>4

(* Questions, and looks that change no file.                                *)
LEMMA QuestionTyped ==
  ASSUME Typed,
         \/ Compare \/ CheckStarted \/ AwaitStarted \/ AwaitStopped
         \/ SettleOld \/ CheckDaemon \/ Recover \/ Bind \/ Unpublished
         \/ CheckNew \/ AwaitNew \/ SettleNew \/ SettleGone \/ Aside
         \/ RunBack \/ AwaitBack \/ Verify
  PROVE  Typed'
<1>1. ~AtRest
  BY DEF AtRest, Reports, Compare, CheckStarted, AwaitStarted, AwaitStopped, SettleOld, CheckDaemon,
         Recover, Bind, Unpublished, CheckNew, AwaitNew, SettleNew, SettleGone, Aside,
         RunBack, AwaitBack, Verify
<1>2. /\ UNCHANGED <<files, manager, outside, command>> /\ (Fault \/ UNCHANGED faults)
      /\ UNCHANGED back \/ back' \in {"preparation", "publication"}
  BY DEF Ask, Compare, CheckStarted, AwaitStarted, AwaitStopped, SettleOld, CheckDaemon,
         Recover, Bind, Unpublished, CheckNew, AwaitNew, SettleNew, SettleGone, Aside,
         RunBack, AwaitBack, Verify
<1> QED
  BY <1>1, <1>2, StepOfCommand DEF command

LEMMA SystemctlTyped ==
  ASSUME Typed,
         \/ StartInstalled \/ StopInstalled \/ StopOld \/ ReloadNew \/ EnableNow
         \/ StopNew \/ DisableNew \/ DisableNow \/ ReloadGone
         \/ ReloadBack \/ EnableBack \/ StartBack
  PROVE  Typed'
<1>1. ~AtRest
  BY DEF AtRest, Reports, StartInstalled, StopInstalled, StopOld, ReloadNew, EnableNow,
         StopNew, DisableNew, DisableNow, ReloadGone, ReloadBack, EnableBack, StartBack
<1>2. /\ UNCHANGED <<files, outside, command>> /\ (Fault \/ UNCHANGED faults)
      /\ UNCHANGED back \/ back' = "installation"
  BY DEF Call, StartInstalled, StopInstalled, StopOld, ReloadNew, EnableNow,
         StopNew, DisableNew, DisableNow, ReloadGone, ReloadBack, EnableBack, StartBack
<1>3. seen.enabled \in BOOLEAN
  BY DEF Typed, TypeOK
<1>4. \E b \in BOOLEAN :
        \/ StartIt \/ StopIt \/ Reload \/ Enable(b) \/ UNCHANGED manager
        \/ enabled' = b /\ (Start \/ Stop) /\ UNCHANGED loaded
  <2>1. CASE EnableNow
    BY <2>1 DEF EnableNow, Call
  <2>2. CASE DisableNow
    BY <2>2 DEF DisableNow, Call
  <2>3. CASE EnableBack
    BY <1>3, <2>3 DEF EnableBack, Call
  <2>4. CASE DisableNew
    BY <2>4 DEF DisableNew, Call
  <2>5. CASE StartInstalled \/ StopInstalled \/ StopOld \/ ReloadNew \/ StopNew
             \/ ReloadGone \/ ReloadBack \/ StartBack
    BY <2>5 DEF Call, StartInstalled, StopInstalled, StopOld, ReloadNew, StopNew,
                ReloadGone, ReloadBack, StartBack
  <2> QED
    BY <2>1, <2>2, <2>3, <2>4, <2>5
<1>5. ManagerTyped'
  BY <1>4, EffectTyped
<1> QED
  BY <1>1, <1>2, <1>5, StepOfCommand DEF command

(* What a publication or a removal does to the files: it exchanges, moves   *)
(* and removes them, or writes the candidate or the copy of the prior one.  *)
LEMMA FileStepTyped ==
  ASSUME Typed, UNCHANGED <<want, manager, outside, command>>, ~AtRest,
         NEW f \in Files,
         \/ disk' = disk \/ Exchange \/ Both \/ PartOfBoth
         \/ \E x, y \in Names : Move(x, y) \/ Put(x, None) \/ Put(x, f),
         UNCHANGED hold \/ hold' \in {"pending", "finished", "preserved"},
         Fault \/ UNCHANGED faults,
         UNCHANGED back \/ back' \in {"publication", "removal"}
  PROVE  Typed'
<1>1. FilesTyped
  BY TypedParts
<1>2. disk' \in [Names -> Files]
  BY <1>1, DiskTyped DEF FilesTyped
<1>3. FilesTyped'
  BY <1>1, <1>2 DEF FilesTyped
<1> QED
  BY <1>3, StepOfCommand DEF command

LEMMA PublicationTyped ==
  ASSUME Typed, seen.previous # None \/ pc # "backup",
         \/ Stage \/ BackUp \/ Swap \/ Look \/ PutBack \/ LookBack \/ Place \/ LookNew
  PROVE  Typed'
<1>1. None \in Files /\ (~AtRest => New \in Files)
  BY FilesHold, TypedParts
<1>2. {"unit", "candidate", "backup", "removed"} = Names
  BY DEF Names
<1>3. CASE Stage
  <2>1. ~AtRest
    BY <1>3 DEF Stage, AtRest, Reports
  <2> QED
    BY <1>1, <1>2, <1>3, <2>1, FileStepTyped DEF Stage
<1>4. CASE BackUp
  <2>1. Copy(seen.previous) \in Files
    BY <1>4, FilesHold DEF BackUp, Typed, TypeOK
  <2>2. ~AtRest
    BY <1>4 DEF BackUp, AtRest, Reports
  <2>3. disk' \in [Names -> Files]
    BY <1>1, <1>2, <1>4, <2>1, TypedParts DEF BackUp, FilesTyped
  <2>4. FilesTyped'
    BY <1>4, <2>3, TypedParts DEF BackUp, FilesTyped
  <2> QED
    BY <1>4, <2>2, <2>4, StepOfCommand DEF BackUp, command
<1>5. CASE Swap \/ PutBack
  <2>1. ~AtRest
    BY <1>5 DEF Swap, PutBack, AtRest, Reports
  <2> QED
    BY <1>1, <1>5, <2>1, FileStepTyped DEF Swap, PutBack
<1>6. CASE Look
  <2>1. ~AtRest
    BY <1>6 DEF Look, AtRest, Reports
  <2>2. CASE want' = disk["candidate"] /\ UNCHANGED <<disk, hold, back, faults>>
    <3>1. FilesTyped'
      BY <1>2, <2>2, TypedParts DEF FilesTyped
    <3> QED
      BY <1>6, <2>1, <2>2, <3>1, StepOfCommand DEF Look, command
  <2>3. CASE UNCHANGED want
    <3>1. /\ UNCHANGED <<manager, outside, command>> /\ (Fault \/ UNCHANGED faults)
          /\ disk' = disk \/ Both \/ PartOfBoth \/ Put("backup", None)
          /\ UNCHANGED hold \/ hold' = "pending"
          /\ UNCHANGED back \/ back' = "publication"
      BY <1>6, <2>3 DEF Look, DropBoth, files
    <3> QED
      BY <1>1, <1>2, <2>1, <2>3, <3>1, FileStepTyped
  <2> QED
    BY <1>6, <2>2, <2>3 DEF Look, files
<1>7. CASE LookBack
  <2>1. ~AtRest
    BY <1>7 DEF LookBack, AtRest, Reports
  <2>2. /\ UNCHANGED <<hold, want, manager, outside, command, back>>
        /\ disk' = disk \/ Both \/ PartOfBoth \/ Put("backup", None)
        /\ Fault \/ UNCHANGED faults
    BY <1>7 DEF LookBack, DropBoth
  <2> QED
    BY <1>1, <1>2, <2>1, <2>2, FileStepTyped
<1>8. CASE Place
  <2>1. ~AtRest
    BY <1>8 DEF Place, AtRest, Reports
  <2> QED
    BY <1>1, <1>2, <1>8, <2>1, FileStepTyped DEF Place
<1>9. CASE LookNew
  <2>1. ~AtRest
    BY <1>9 DEF LookNew, AtRest, Reports
  <2>2. /\ UNCHANGED <<want, manager, outside, command>>
        /\ disk' = disk \/ Both \/ PartOfBoth \/ Put("backup", None)
        /\ UNCHANGED hold \/ hold' = "pending"
        /\ UNCHANGED back \/ back' = "publication"
        /\ Fault \/ UNCHANGED faults
    BY <1>9 DEF LookNew, DropBoth
  <2> QED
    BY <1>1, <1>2, <2>1, <2>2, FileStepTyped
<1> QED
  BY <1>3, <1>4, <1>5, <1>6, <1>7, <1>8, <1>9

LEMMA EndTyped ==
  ASSUME Typed,
         \/ Commit \/ Undo \/ UndoSwap \/ UndoLook
         \/ MoveAside \/ LookAside \/ MoveBack \/ CommitGone \/ Replace
  PROVE  Typed'
<1>1. None \in Files
  BY FilesHold
<1>2. {"unit", "candidate", "backup", "removed"} = Names
  BY DEF Names
<1>3. ~AtRest
  BY DEF AtRest, Reports, Commit, Undo, UndoSwap, UndoLook, MoveAside, LookAside, MoveBack,
         CommitGone, Replace
<1>4. /\ UNCHANGED <<want, manager, outside, command>> /\ (Fault \/ UNCHANGED faults)
      /\ UNCHANGED back \/ back' = "removal"
      /\ UNCHANGED hold \/ hold' \in {"pending", "finished", "preserved"}
  BY DEF Commit, Undo, UndoSwap, UndoLook, MoveAside, LookAside, MoveBack, CommitGone, Replace
<1>5. \/ disk' = disk \/ Exchange \/ Both \/ PartOfBoth
      \/ \E x, y \in Names : Move(x, y) \/ Put(x, None)
  <2>1. CASE Commit
    BY <2>1 DEF Commit
  <2>2. CASE Undo
    BY <1>2, <2>2 DEF Undo
  <2>3. CASE UndoSwap \/ UndoLook \/ LookAside
    BY <2>3 DEF UndoSwap, UndoLook, LookAside
  <2>4. CASE MoveAside \/ MoveBack
    BY <1>2, <2>4 DEF MoveAside, MoveBack
  <2>5. CASE CommitGone
    BY <1>2, <2>5 DEF CommitGone
  <2>6. CASE Replace
    BY <1>2, <2>6 DEF Replace
  <2> QED
    BY <2>1, <2>2, <2>3, <2>4, <2>5, <2>6
<1> QED
  BY <1>1, <1>3, <1>4, <1>5, FileStepTyped

LEMMA OtherTyped == ASSUME Typed, Others PROVE Typed'
<1>1. FilesTyped /\ ManagerTyped /\ OutsideTyped /\ CommandTyped /\ StepTyped
  BY TypedParts
<1>2. CommandTyped'
  BY <1>1 DEF Others, ServiceComesUp, ServiceFails, ServiceRestarts, ForegroundStarts,
              ForegroundEnds, SomebodyWrites, CommandTyped, command, AtRest
<1>3. StepTyped'
  BY <1>1, FaultTyped
     DEF Others, ServiceComesUp, ServiceFails, ServiceRestarts, ForegroundStarts,
         ForegroundEnds, SomebodyWrites, StepTyped
<1>4. ManagerTyped'
  BY <1>1, FilesHold
     DEF Others, ServiceComesUp, ServiceFails, ServiceRestarts, ForegroundStarts,
         ForegroundEnds, SomebodyWrites, ManagerTyped, manager
<1>5. FilesTyped' /\ OutsideTyped'
  <2>1. CASE SomebodyWrites
    <3>1. PICK e \in Executable : /\ Put("unit", ByOther(e))
                                  /\ written' = written \cup {ByOther(e)}
      BY <2>1 DEF SomebodyWrites
    <3>2. "unit" \in Names /\ ByOther(e) \in Files
      BY FilesHold DEF Names
    <3>3. disk' \in [Names -> Files]
      BY <1>1, <3>1, <3>2, DiskTyped DEF FilesTyped
    <3>4. UNCHANGED <<hold, want, foreground>>
      BY <2>1 DEF SomebodyWrites
    <3> QED
      BY <1>1, <3>1, <3>3, <3>4 DEF FilesTyped, OutsideTyped
  <2>2. CASE ServiceComesUp \/ ServiceFails \/ ServiceRestarts \/ ForegroundStarts
             \/ ForegroundEnds
    BY <1>1, <2>2
       DEF ServiceComesUp, ServiceFails, ServiceRestarts, ForegroundStarts, ForegroundEnds,
           FilesTyped, OutsideTyped, files, outside
  <2> QED
    BY <2>1, <2>2 DEF Others
<1> QED
  BY <1>2, <1>3, <1>4, <1>5
     DEF Typed, TypeOK, FilesTyped, ManagerTyped, OutsideTyped, CommandTyped, StepTyped

LEMMA StepTypes ==
  ASSUME Typed, seen.previous # None \/ pc # "backup", [Next]_vars
  PROVE  Typed'
<1>1. CASE Begin \/ Read \/ Query \/ QueryEnabled \/ Compare \/ CommandDies
  BY <1>1, BeginTyped, ReadTyped, QuestionTyped
<1>2. CASE StartingOrStopping
  BY <1>2, QuestionTyped, SystemctlTyped DEF StartingOrStopping
<1>3. CASE Installing
  BY <1>3, QuestionTyped, SystemctlTyped, PublicationTyped, EndTyped DEF Installing
<1>4. CASE Uninstalling
  BY <1>4, QuestionTyped, SystemctlTyped, EndTyped DEF Uninstalling
<1>5. CASE GoingBack
  BY <1>5, QuestionTyped, SystemctlTyped DEF GoingBack
<1>6. CASE Others
  BY <1>6, OtherTyped
<1>7. CASE UNCHANGED vars
  BY <1>7 DEF vars, files, manager, outside, command, Typed, TypeOK, AtRest
<1> QED
  BY <1>1, <1>2, <1>3, <1>4, <1>5, <1>6, <1>7 DEF Next

LEMMA InitTyped == Init => Typed
<1> SUFFICES ASSUME Init PROVE Typed
  OBVIOUS
<1>1. None \in Files /\ None.exe = "none"
  BY FilesHold DEF None, Definition
<1>2. \A e \in Executable : Prior(e) \in Files /\ Prior(e).exe = e
  BY FilesHold DEF Prior, Definition
<1>3. PICK f \in Files :
        /\ disk = [x \in Names |-> IF x = "unit" THEN f ELSE None]
        /\ loaded = f /\ enabled \in BOOLEAN /\ service \in {"stopped", "up"}
        /\ running = IF service = "up" THEN f.exe ELSE "none"
  BY <1>1, <1>2 DEF Init
<1>4. running \in Executable \cup {"none"}
  BY <1>3, FilesHold
<1>5. disk \in [Names -> Files]
  BY <1>1, <1>3
<1>6. /\ hold = "none" /\ want = None /\ foreground = "none" /\ written = {}
      /\ pc = "idle" /\ turn = 0 /\ back = "nothing" /\ cmd \in Requests /\ faults = 0
      /\ seen = [previous |-> None, active |-> FALSE, enabled |-> FALSE]
  BY DEF Init
<1> QED
  BY <1>1, <1>3, <1>4, <1>5, <1>6, BoundsAssumption DEF Typed, TypeOK, AtRest, Reports

(* The state has its types: what a command found, bound or copied is always *)
(* a definition or none, and a backup is only ever made of one that exists. *)
THEOREM ServiceTypeCorrect == Spec => []TypeOK
<1>1. IInv /\ Typed /\ [Next]_vars => Typed'
  BY StepTypes
<1>2. Typed => TypeOK
  BY DEF Typed
<1> HIDE DEF IInv, NoOrphanService
<1> QED
  BY <1>1, <1>2, Inductive, InitTyped, PTL DEF Spec
==============================================================================
