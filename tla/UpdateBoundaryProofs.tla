------------------------ MODULE UpdateBoundaryProofs ------------------------
(***************************************************************************)
(* The update command and the lifecycle holder, proved for any number of    *)
(* daemon generations, foreground starts and failures: the holder never     *)
(* receives a command its phase refuses, the executable changes hands only  *)
(* under the absence of daemons, and what an update reports is so.          *)
(***************************************************************************)
EXTENDS UpdateBoundary, TLAPS

(* The command a waiting client has sent, the work the holder does for it,  *)
(* and the markers with the phases that answer it.                          *)
Asks(at, command) ==
  \/ at = "awaitNew" /\ command = "new"
  \/ at = "awaitOld" /\ command = "rollback"
  \/ at = "awaitFinal" /\ command = "finish"
  \/ at = "awaitReleased" /\ command = "release"
  \/ at = "awaitAbort" /\ command = "abort"

Serves(at, job) ==
  \/ at = "awaitReady" /\ job = "stop"
  \/ at = "awaitNew" /\ job \in {"new", "newVerify"}
  \/ at = "awaitOld" /\ job \in {"old", "oldVerify"}
  \/ at = "awaitFinal" /\ job = "finish"
  \/ at = "awaitReleased" /\ job = "release"
  \/ at = "awaitAbort" /\ job = "abort"

Answers(at, marker, phase) ==
  \/ at = "awaitReady" /\ marker = "ready" /\ phase = "Stopped"
  \/ at = "awaitNew" /\ marker = "newReady" /\ phase = "NewReady"
  \/ at = "awaitNew" /\ marker = "newFailed" /\ phase = "ReplacementFailedStopped"
  \/ at = "awaitOld" /\ marker = "oldRestored" /\ phase = "PriorRestored"
  \/ at = "awaitOld" /\ marker = "oldFailed" /\ phase = "RollbackFailedStopped"
  \/ at = "awaitFinal" /\ marker = "finalConfirmed" /\ phase = "FinalConfirmed"
  \/ at = "awaitReleased" /\ marker = "released" /\ phase = "FinalConfirmed"
  \/ at = "awaitAbort" /\ marker = "newStopped" /\ phase = "ReplacementFailedStopped"

(* What the holder's phase is where the client decides.                     *)
Decides(at, phase) ==
  \/ at \in {"download", "new"} /\ phase = "Stopped"
  \/ at = "finish" /\ phase = "NewReady"
  \/ at \in {"commit", "release"} /\ phase = "FinalConfirmed"
  \/ at \in {"rollbackExecutable", "rollback"} /\ phase \in {"Stopped", "ReplacementFailedStopped"}
  \/ at = "abort" /\ phase \in {"NewReady", "FinalConfirmed"}

LastMarker == {"oldRestored", "released"}

(* One of the two has the turn, and both know what it is about.             *)
Busy(h) == h.at \notin {"unborn", "listen", "finalize", "exited", "killed"}

IdleTurn == /\ client.at = "idle" <=> holder.at = "unborn"
            /\ client.at = "idle" => wire.marker = "none"
            /\ client.at \in {"idle", "awaitReady"} => client.phase = "Stopped"
HolderTurn ==
  /\ holder.at \notin {"listen", "exited", "killed"} =>
       wire.command = "none" /\ (Waiting => wire.marker = "none")
  /\ Waiting /\ Busy(holder) /\ ~ holder.final => Serves(client.at, holder.job)
ClientTurn ==
  client.at \in Sending =>
    /\ wire.command = "none" /\ wire.marker = "none"
    /\ holder.at \in {"listen", "killed"} /\ client.phase = holder.phase
    /\ Decides(client.at, holder.phase)
Called ==
  /\ Waiting /\ wire.command # "none" => Asks(client.at, wire.command)
  /\ Waiting /\ wire.marker = "none" /\ holder.at = "listen" => wire.command # "none"
  /\ wire.command # "none" => Fits(wire.command, holder.phase)
Answered ==
  Waiting /\ wire.marker # "none" =>
    /\ wire.command = "none" /\ Answers(client.at, wire.marker, holder.phase)
    /\ IF wire.marker \in LastMarker THEN HolderGone ELSE holder.at \in {"listen", "killed"}

Agreed == IdleTurn /\ HolderTurn /\ ClientTurn /\ Called /\ Answered

(* Where a replacement is decided, the client only has the holder to let go.*)
Decided ==
  client.replacement \in {"Committed", "Preserved"} =>
    client.at \in {"release", "awaitReleased"} \cup Closed

(* The holder's routines, and the absence they have in hand.                *)
HolderFits ==
  /\ holder.job \in {"putBack", "undo", "final"} => holder.final
  /\ holder.at \in {"release", "launch", "await", "check"} /\ ~ holder.final =>
       holder.job \in {"new", "old"}
  /\ holder.at = "verify" /\ ~ holder.final => holder.job \in {"new", "old", "finish", "release"}
  /\ holder.job \in {"old", "oldVerify"} /\ ~ holder.final => holder.expect = "old"
  /\ holder.at = "unborn" => holder.job = "stop"
  /\ holder.at = "absent" => holder.absence
  /\ holder.at = "listen" /\ holder.phase \in {"Stopped", "ReplacementFailedStopped"} =>
       holder.absence

(* The daemon that was started last runs the public image, or has ended.    *)
OneOwner == \A g, h \in Gen : daemon[g].at = "running" /\ daemon[h].at = "running" => g = h

Bears(g) == g \in Gen /\ daemon[g].at # "unborn" /\ daemon[g].image = image
ChildGone == holder.child \in Gen /\ daemon[holder.child].at \in {"leaving", "dead"}
Relaunched == holder.initial = 0 \/ Bears(holder.restarted) \/ ChildGone

Launched ==
  /\ holder.at \in {"await", "check"} => Bears(holder.child)
  /\ holder.at = "check" => daemon[holder.child].at \in {"running", "leaving", "dead"}
Confirmed ==
  /\ holder.at = "verify" /\ ~ holder.final => Relaunched
  /\ holder.at = "listen" /\ holder.phase \in {"NewReady", "FinalConfirmed"} => Relaunched
  /\ Waiting /\ wire.marker \in LastMarker => Relaunched
  /\ Waiting /\ wire.marker = "oldRestored" => image = "old"
Reported ==
  /\ client.outcome = "restored" => image = "old" /\ client.at \in Closed
  /\ client.outcome \in {"restored", "updated"} /\ client.at \in {"closing", "closed"} =>
       HolderGone /\ Relaunched

Restarts == OneOwner /\ Launched /\ Confirmed /\ Reported

IInv == TypeOK /\ Agreed /\ Decided /\ HolderFits /\ Restarts

------------------------------------------------------------------------------
(* Types.  What a step assigns to the holder is one of few records, listed   *)
(* first where an action has alternatives; then each is shown to be one.     *)
LEMMA RunningIs ==
  /\ Running \in Gen \cup {0}
  /\ Running # 0 => Running \in Gen /\ daemon[Running].at = "running"
  /\ Running = 0 <=> Owner = {}
<1>1. CASE Owner = {}
  BY <1>1 DEF Running, Gen
<1>2. CASE Owner # {}
  <2>1. Running \in Owner
    BY <1>2 DEF Running
  <2>2. Running \in Gen /\ daemon[Running].at = "running"
    BY <2>1 DEF Owner
  <2> QED
    BY <1>2, <2>2, BoundaryAssumption DEF Gen
<1> QED
  BY <1>1, <1>2

LEMMA FreshIs ==
  ASSUME Spare # {}
  PROVE  Fresh \in Gen /\ daemon[Fresh].at = "unborn"
<1>1. Fresh \in Spare
  BY DEF Fresh
<1> QED
  BY <1>1 DEF Spare

LEMMA FaultIs == TypeOK /\ (Fault \/ Unfaulted) => faults' \in Nat
BY DEF TypeOK, Fault, Unfaulted

LEMMA SetTyped ==
  ASSUME TypeOK, NEW g, NEW at \in DaemonAt, Set(g, at)
  PROVE  daemon' \in [Gen -> DaemonRecord]
<1>1. daemon \in [Gen -> DaemonRecord]
  BY DEF TypeOK
<1>2. \A d \in DaemonRecord : [d EXCEPT !.at = at] \in DaemonRecord
  BY DEF DaemonRecord
<1>3. daemon' = [daemon EXCEPT ![g] = [daemon[g] EXCEPT !.at = at]]
  BY DEF Set
<1> QED
  BY <1>1, <1>2, <1>3

LEMMA AskTyped ==
  ASSUME TypeOK, NEW g, daemon' = [daemon EXCEPT ![g].asked = TRUE]
  PROVE  daemon' \in [Gen -> DaemonRecord]
<1>1. daemon \in [Gen -> DaemonRecord]
  BY DEF TypeOK
<1>2. \A d \in DaemonRecord : [d EXCEPT !.asked = TRUE] \in DaemonRecord
  BY DEF DaemonRecord
<1>3. daemon' = [daemon EXCEPT ![g] = [daemon[g] EXCEPT !.asked = TRUE]]
  OBVIOUS
<1> QED
  BY <1>1, <1>2, <1>3

LEMMA BirthTyped ==
  ASSUME TypeOK, NEW g,
         daemon' = [daemon EXCEPT ![g] = [at |-> "starting", image |-> image, asked |-> FALSE]]
  PROVE  daemon' \in [Gen -> DaemonRecord]
<1>1. daemon \in [Gen -> DaemonRecord] /\ image \in {"old", "new"}
  BY DEF TypeOK
<1>2. [at |-> "starting", image |-> image, asked |-> FALSE] \in DaemonRecord
  BY <1>1 DEF DaemonAt, DaemonRecord
<1> QED
  BY <1>1, <1>2

VerifyJob == CASE holder.job = "new" -> "newVerify" [] holder.job = "old" -> "oldVerify"
               [] OTHER -> holder.job
RestoreAt == IF image # "old" THEN "reestablish"
             ELSE IF holder.initial = 0 THEN "verify" ELSE "release"
PutBackAt == IF holder.requested THEN "settleRequested" ELSE "reestablish"

LEMMA HolderTyped ==
  ASSUME TypeOK, HolderFits, HolderStep \/ HolderDies
  PROVE  holder' \in HolderRecord
<1>0. PICK h \in HolderRecord : h = holder
  BY DEF TypeOK
<1>1. /\ Running \in Generation /\ pidfile \in Generation /\ 0 \in Generation
      /\ Spare # {} => Fresh \in Generation
      /\ image \in {"old", "new"} /\ LockFree \in BOOLEAN
  BY RunningIs, FreshIs DEF TypeOK, Generation, LockFree
<1>2. /\ Failed \in HolderAt /\ AfterFailure \in Job
      /\ (IF h.job = "putBack" THEN "undo" ELSE h.job) \in Job
      /\ VerifyJob \in Job /\ RestoreAt \in HolderAt /\ PutBackAt \in HolderAt
      /\ "new" \in Job /\ "finish" \in Job /\ "abort" \in Job /\ "release" \in Job
      /\ "old" \in Job /\ "putBack" \in Job /\ "undo" \in Job /\ "final" \in Job
      /\ (h.requested \/ (h.job = "stop" /\ h.target = h.initial)) \in BOOLEAN
  BY <1>0 DEF Failed, AfterFailure, VerifyJob, RestoreAt, PutBackAt, HolderAt, Job,
                 HolderRecord
<1>a. /\ "reestablish" \in HolderAt /\ "listen" \in HolderAt /\ "exited" \in HolderAt
      /\ (IF h.job = "putBack" THEN "exited" ELSE "verify") \in HolderAt
      /\ (IF h.initial = 0 THEN "verify" ELSE "release") \in HolderAt
      /\ "NewReady" \in HolderPhase /\ "FinalConfirmed" \in HolderPhase
      /\ "PriorRestored" \in HolderPhase /\ "ReplacementTransition" \in HolderPhase
      /\ (h.absence /\ TRUE) \in BOOLEAN /\ (h.absence /\ FALSE) \in BOOLEAN
  BY DEF HolderAt, HolderPhase
<1>3. CASE Capture
  <2>1. \/ holder' = [h EXCEPT !.initial = Running, !.target = Running,
                       !.at = IF Running = 0 THEN "acquire" ELSE "stop"]
        \/ holder' = [h EXCEPT !.at = "exited"]
    BY <1>0, <1>3 DEF Capture, Step
  <2>2. CASE holder' = [h EXCEPT !.initial = Running, !.target = Running,
                       !.at = IF Running = 0 THEN "acquire" ELSE "stop"]
    BY <1>1, <2>2 DEF HolderRecord, HolderAt
  <2>3. CASE holder' = [h EXCEPT !.at = "exited"]
    BY <2>3 DEF HolderRecord, HolderAt
  <2> QED
    BY <2>1, <2>2, <2>3
<1>4. CASE IssueStop
  <2>1. \/ holder' = [h EXCEPT !.at = "settle", !.stale = h.target,
                       !.requested = h.requested \/ (h.job = "stop" /\ h.target = h.initial)]
        \/ holder' = [h EXCEPT !.at = Failed, !.job = AfterFailure]
    BY <1>0, <1>4 DEF IssueStop
  <2>2. CASE holder' = [h EXCEPT !.at = "settle", !.stale = h.target,
                       !.requested = h.requested \/ (h.job = "stop" /\ h.target = h.initial)]
    BY <1>1, <1>2, <2>2 DEF HolderRecord, HolderAt
  <2>3. CASE holder' = [h EXCEPT !.at = Failed, !.job = AfterFailure]
    BY <1>2, <2>3 DEF HolderRecord
  <2> QED
    BY <2>1, <2>2, <2>3
<1>5. CASE Settle
  <2>1. \/ holder' = [h EXCEPT !.target = 0, !.at = IF h.at = "settle" THEN "acquire" ELSE "reestablish"]
        \/ holder' = [h EXCEPT !.doubts = TRUE]
    BY <1>0, <1>5 DEF Settle
  <2>2. CASE holder' = [h EXCEPT !.target = 0, !.at = IF h.at = "settle" THEN "acquire" ELSE "reestablish"]
    BY <1>1, <2>2 DEF HolderRecord, HolderAt
  <2>3. CASE holder' = [h EXCEPT !.doubts = TRUE]
    BY <2>3 DEF HolderRecord, HolderAt
  <2> QED
    BY <2>1, <2>2, <2>3
<1>6. CASE Acquire
  <2>1. \/ holder' = [h EXCEPT !.absence = TRUE, !.at = "absent", !.stale = 0]
        \/ holder' = [h EXCEPT !.at = "observe", !.doubts = h.doubts \/ LockFree]
    BY <1>0, <1>6 DEF Acquire
  <2>2. CASE holder' = [h EXCEPT !.absence = TRUE, !.at = "absent", !.stale = 0]
    BY <1>1, <2>2 DEF HolderRecord, HolderAt
  <2>3. CASE holder' = [h EXCEPT !.at = "observe", !.doubts = h.doubts \/ LockFree]
    BY <1>1, <2>3 DEF HolderRecord, HolderAt
  <2> QED
    BY <2>1, <2>2, <2>3
<1>7. CASE Observe
  <2>1. \/ holder' = [h EXCEPT !.at = "acquire"]
        \/ holder' = [h EXCEPT !.target = pidfile, !.at = "stop"]
    BY <1>0, <1>7 DEF Observe, Step
  <2>2. CASE holder' = [h EXCEPT !.at = "acquire"]
    BY <2>2 DEF HolderRecord, HolderAt
  <2>3. CASE holder' = [h EXCEPT !.target = pidfile, !.at = "stop"]
    BY <1>1, <2>3 DEF HolderRecord, HolderAt
  <2> QED
    BY <2>1, <2>2, <2>3
<1>8. CASE Reestablish
  <2>1. \/ holder' = [h EXCEPT !.at = "absent"]
        \/ holder' = [h EXCEPT !.at = "acquire", !.stale = 0]
        \/ holder' = [h EXCEPT !.at = "stop", !.target = Running]
    BY <1>0, <1>8 DEF Reestablish
  <2>2. CASE holder' = [h EXCEPT !.at = "absent"]
    BY <2>2 DEF HolderRecord, HolderAt
  <2>3. CASE holder' = [h EXCEPT !.at = "acquire", !.stale = 0]
    BY <1>1, <2>3 DEF HolderRecord, HolderAt
  <2>4. CASE holder' = [h EXCEPT !.at = "stop", !.target = Running]
    BY <1>1, <2>4 DEF HolderRecord, HolderAt
  <2> QED
    BY <2>1, <2>2, <2>3, <2>4
<1>9. CASE AbsentAnnounced
  <2>1. \/ holder' = [h EXCEPT !.doubts = FALSE, !.restarted = 0, !.at = "finalize"]
        \/ holder' = [h EXCEPT !.doubts = FALSE, !.restarted = 0, !.phase = FailedPhase[h.job], !.at = "finalize"]
        \/ holder' = [h EXCEPT !.doubts = FALSE, !.restarted = 0, !.phase = FailedPhase[h.job],
                        !.at = "listen", !.absence = h.absence /\ TRUE]
    BY <1>0, <1>9 DEF AbsentAnnounced, AbsentFor, Settled, Announce
  <2>2. CASE holder' = [h EXCEPT !.doubts = FALSE, !.restarted = 0, !.at = "finalize"]
    BY <1>1, <2>2 DEF HolderRecord, HolderAt
  <2>3. CASE holder' = [h EXCEPT !.doubts = FALSE, !.restarted = 0, !.phase = FailedPhase[h.job], !.at = "finalize"]
    <3>1. FailedPhase[h.job] \in HolderPhase
      BY <1>0, <1>9 DEF AbsentAnnounced, AbsentFor, FailedPhase, HolderPhase
    <3> QED
      BY <1>1, <3>1, <2>3 DEF HolderRecord, HolderAt
  <2>4. CASE holder' = [h EXCEPT !.doubts = FALSE, !.restarted = 0, !.phase = FailedPhase[h.job],
                        !.at = "listen", !.absence = h.absence /\ TRUE]
    <3>1. FailedPhase[h.job] \in HolderPhase
      BY <1>0, <1>9 DEF AbsentAnnounced, AbsentFor, FailedPhase, HolderPhase
    <3> QED
      BY <1>1, <3>1, <2>4 DEF HolderRecord, HolderAt
  <2> QED
    BY <2>1, <2>2, <2>3, <2>4
<1>10. CASE AbsentAfterVerify
  <2>1. \/ holder' = [h EXCEPT !.doubts = FALSE, !.restarted = 0, !.job = AfterFailure]
    BY <1>0, <1>10 DEF AbsentAfterVerify, AbsentFor, Settled
  <2>2. CASE holder' = [h EXCEPT !.doubts = FALSE, !.restarted = 0, !.job = AfterFailure]
    BY <1>1, <1>2, <2>2 DEF HolderRecord, HolderAt
  <2> QED
    BY <2>1, <2>2
<1>11. CASE AbsentRefused
  <2>1. \/ holder' = [h EXCEPT !.doubts = FALSE, !.restarted = 0, !.at = "finalize"]
    BY <1>0, <1>11 DEF AbsentRefused, AbsentFor, Settled
  <2>2. CASE holder' = [h EXCEPT !.doubts = FALSE, !.restarted = 0, !.at = "finalize"]
    BY <1>1, <2>2 DEF HolderRecord, HolderAt
  <2> QED
    BY <2>1, <2>2
<1>12. CASE AbsentFinally
  <2>1. \/ holder' = [h EXCEPT !.at = "exited", !.absence = FALSE, !.doubts = FALSE]
    BY <1>0, <1>12 DEF AbsentFinally, AbsentFor, Exit
  <2>2. CASE holder' = [h EXCEPT !.at = "exited", !.absence = FALSE, !.doubts = FALSE]
    BY <2>2 DEF HolderRecord, HolderAt
  <2> QED
    BY <2>1, <2>2
<1>13. CASE AbsentPutBack
  <2>1. \/ holder' = [h EXCEPT !.at = "release", !.expect = "old"]
    BY <1>0, <1>13 DEF AbsentPutBack, AbsentFor, PutsBack
  <2>2. CASE holder' = [h EXCEPT !.at = "release", !.expect = "old"]
    BY <2>2 DEF HolderRecord, HolderAt
  <2> QED
    BY <2>1, <2>2
<1>14. CASE ReleaseAbsence
  <2>1. \/ holder' = [h EXCEPT !.absence = FALSE, !.at = "launch"]
    BY <1>0, <1>14 DEF ReleaseAbsence
  <2>2. CASE holder' = [h EXCEPT !.absence = FALSE, !.at = "launch"]
    BY <2>2 DEF HolderRecord, HolderAt
  <2> QED
    BY <2>1, <2>2
<1>15. CASE Launch
  <2>1. \/ Spare # {} /\ holder' = [h EXCEPT !.child = Fresh, !.at = "await"]
        \/ holder' = [h EXCEPT !.at = "reestablish", !.job = IF h.job = "putBack" THEN "undo" ELSE h.job]
    BY <1>0, <1>15, <1>1 DEF Launch, StartFailed
  <2>2. CASE Spare # {} /\ holder' = [h EXCEPT !.child = Fresh, !.at = "await"]
    BY <1>1, <2>2 DEF HolderRecord, HolderAt
  <2>3. CASE holder' = [h EXCEPT !.at = "reestablish", !.job = IF h.job = "putBack" THEN "undo" ELSE h.job]
    BY <1>1, <1>2, <1>a, <2>3 DEF HolderRecord
  <2> QED
    BY <2>1, <2>2, <2>3
<1>16. CASE AwaitStarted
  <2>1. \/ holder' = [h EXCEPT !.at = "check"]
        \/ holder' = [h EXCEPT !.at = "reestablish", !.job = IF h.job = "putBack" THEN "undo" ELSE h.job]
    BY <1>0, <1>16 DEF AwaitStarted, Step, StartFailed
  <2>2. CASE holder' = [h EXCEPT !.at = "check"]
    BY <2>2 DEF HolderRecord, HolderAt
  <2>3. CASE holder' = [h EXCEPT !.at = "reestablish", !.job = IF h.job = "putBack" THEN "undo" ELSE h.job]
    BY <1>1, <1>2, <1>a, <2>3 DEF HolderRecord
  <2> QED
    BY <2>1, <2>2, <2>3
<1>17. CASE CheckStarted
  <2>1. \/ holder' = [h EXCEPT !.at = "reestablish", !.job = IF h.job = "putBack" THEN "undo" ELSE h.job]
        \/ holder' = [h EXCEPT !.restarted = Running, !.at = IF h.job = "putBack" THEN "exited" ELSE "verify"]
    BY <1>0, <1>17 DEF CheckStarted, StartFailed
  <2>2. CASE holder' = [h EXCEPT !.at = "reestablish", !.job = IF h.job = "putBack" THEN "undo" ELSE h.job]
    BY <1>1, <1>2, <1>a, <2>2 DEF HolderRecord
  <2>3. CASE holder' = [h EXCEPT !.restarted = Running, !.at = IF h.job = "putBack" THEN "exited" ELSE "verify"]
    BY <1>1, <1>2, <1>a, <2>3 DEF HolderRecord
  <2> QED
    BY <2>1, <2>2, <2>3
<1>18. CASE Verify
  <2>1. \/ holder' = [h EXCEPT !.at = "exited", !.absence = FALSE, !.doubts = FALSE]
        \/ holder' = [h EXCEPT !.at = "reestablish", !.job = VerifyJob]
        \/ holder' = [h EXCEPT !.phase = "NewReady", !.at = "finalize"]
        \/ holder' = [h EXCEPT !.phase = "PriorRestored", !.at = "finalize"]
        \/ holder' = [h EXCEPT !.phase = "FinalConfirmed", !.at = "finalize"]
        \/ holder' = [h EXCEPT !.phase = "NewReady", !.at = "listen", !.absence = h.absence /\ TRUE]
        \/ holder' = [h EXCEPT !.phase = "PriorRestored", !.at = "exited", !.absence = h.absence /\ FALSE]
        \/ holder' = [h EXCEPT !.phase = "FinalConfirmed", !.at = "listen", !.absence = h.absence /\ TRUE]
        \/ holder' = [h EXCEPT !.phase = "FinalConfirmed", !.at = "exited", !.absence = h.absence /\ FALSE]
    BY <1>0, <1>18 DEF Verify, Exit, Announce, VerifyFailed, VerifyJob, HolderFits
  <2>2. CASE holder' = [h EXCEPT !.at = "exited", !.absence = FALSE, !.doubts = FALSE]
    BY <2>2 DEF HolderRecord, HolderAt
  <2>3. CASE holder' = [h EXCEPT !.at = "reestablish", !.job = VerifyJob]
    BY <1>2, <2>3 DEF HolderRecord, HolderAt
  <2>4. CASE holder' = [h EXCEPT !.phase = "NewReady", !.at = "finalize"]
    BY <2>4 DEF HolderRecord, HolderAt, HolderPhase
  <2>5. CASE holder' = [h EXCEPT !.phase = "PriorRestored", !.at = "finalize"]
    BY <2>5 DEF HolderRecord, HolderAt, HolderPhase
  <2>6. CASE holder' = [h EXCEPT !.phase = "FinalConfirmed", !.at = "finalize"]
    BY <2>6 DEF HolderRecord, HolderAt, HolderPhase
  <2>7. CASE holder' = [h EXCEPT !.phase = "NewReady", !.at = "listen", !.absence = h.absence /\ TRUE]
    BY <1>1, <1>2, <1>a, <2>7 DEF HolderRecord
  <2>8. CASE holder' = [h EXCEPT !.phase = "PriorRestored", !.at = "exited", !.absence = h.absence /\ FALSE]
    BY <1>1, <1>2, <1>a, <2>8 DEF HolderRecord
  <2>9. CASE holder' = [h EXCEPT !.phase = "FinalConfirmed", !.at = "listen", !.absence = h.absence /\ TRUE]
    BY <1>1, <1>2, <1>a, <2>9 DEF HolderRecord
  <2>10. CASE holder' = [h EXCEPT !.phase = "FinalConfirmed", !.at = "exited", !.absence = h.absence /\ FALSE]
    BY <1>1, <1>2, <1>a, <2>10 DEF HolderRecord
  <2> QED
    BY <2>1, <2>2, <2>3, <2>4, <2>5, <2>6, <2>7, <2>8, <2>9, <2>10
<1>19. CASE Listen
  <2>1. \/ holder' = [h EXCEPT !.phase = "ReplacementTransition", !.job = "new", !.expect = image,
                       !.at = IF h.initial = 0 THEN "verify" ELSE "release"]
        \/ holder' = [h EXCEPT !.phase = "RollbackTransition", !.job = "old", !.expect = "old",
                       !.at = RestoreAt]
        \/ holder' = [h EXCEPT !.phase = "ReplacementTransition", !.job = "finish", !.at = "verify"]
        \/ holder' = [h EXCEPT !.phase = "ReplacementTransition", !.job = "abort", !.at = "reestablish"]
        \/ holder' = [h EXCEPT !.job = "release", !.at = "verify"]
        \/ holder' = [h EXCEPT !.at = "finalize"]
    BY <1>0, <1>19 DEF Listen, Told, RestorePrior, RestoreAt, Fits
  <2>2. CASE holder' = [h EXCEPT !.phase = "ReplacementTransition", !.job = "new", !.expect = image,
                       !.at = IF h.initial = 0 THEN "verify" ELSE "release"]
    BY <1>1, <1>2, <1>a, <2>2 DEF HolderRecord
  <2>3. CASE holder' = [h EXCEPT !.phase = "RollbackTransition", !.job = "old", !.expect = "old",
                       !.at = RestoreAt]
    BY <1>2, <2>3 DEF HolderRecord, HolderPhase
  <2>4. CASE holder' = [h EXCEPT !.phase = "ReplacementTransition", !.job = "finish", !.at = "verify"]
    BY <1>2, <2>4 DEF HolderRecord, HolderAt, HolderPhase
  <2>5. CASE holder' = [h EXCEPT !.phase = "ReplacementTransition", !.job = "abort", !.at = "reestablish"]
    BY <1>2, <2>5 DEF HolderRecord, HolderAt, HolderPhase
  <2>6. CASE holder' = [h EXCEPT !.job = "release", !.at = "verify"]
    BY <1>2, <2>6 DEF HolderRecord, HolderAt
  <2>7. CASE holder' = [h EXCEPT !.at = "finalize"]
    BY <2>7 DEF HolderRecord, HolderAt
  <2> QED
    BY <2>1, <2>2, <2>3, <2>4, <2>5, <2>6, <2>7
<1>20. CASE HangUp
  BY <1>0, <1>1, <1>20 DEF HangUp, Step, HolderRecord, HolderAt
<1>21. CASE Finalize
  <2>1. \/ holder' = [h EXCEPT !.at = "exited", !.absence = FALSE, !.doubts = FALSE]
        \/ holder' = [h EXCEPT !.final = TRUE, !.job = "putBack", !.target = h.initial,
                       !.at = PutBackAt]
        \/ holder' = [h EXCEPT !.final = TRUE, !.job = "old", !.expect = "old", !.at = RestoreAt]
        \/ holder' = [h EXCEPT !.final = TRUE, !.job = "undo", !.at = "reestablish"]
        \/ holder' = [h EXCEPT !.final = TRUE, !.job = "final", !.at = "verify"]
    BY <1>0, <1>21 DEF Finalize, RestorePrior, Exit, RestoreAt, PutBackAt, HolderPhase,
         HolderRecord
  <2>2. CASE holder' = [h EXCEPT !.at = "exited", !.absence = FALSE, !.doubts = FALSE]
    BY <2>2 DEF HolderRecord, HolderAt
  <2>3. CASE holder' = [h EXCEPT !.final = TRUE, !.job = "putBack", !.target = h.initial,
                       !.at = PutBackAt]
    BY <1>1, <1>2, <2>3 DEF HolderRecord
  <2>4. CASE holder' = [h EXCEPT !.final = TRUE, !.job = "old", !.expect = "old", !.at = RestoreAt]
    BY <1>2, <2>4 DEF HolderRecord
  <2>5. CASE holder' = [h EXCEPT !.final = TRUE, !.job = "undo", !.at = "reestablish"]
    BY <1>2, <2>5 DEF HolderRecord, HolderAt
  <2>6. CASE holder' = [h EXCEPT !.final = TRUE, !.job = "final", !.at = "verify"]
    BY <1>2, <2>6 DEF HolderRecord, HolderAt
  <2> QED
    BY <2>1, <2>2, <2>3, <2>4, <2>5, <2>6
<1>22. CASE HolderDies
  BY <1>0, <1>1, <1>22 DEF HolderDies, HolderRecord, HolderAt
<1> QED
  BY <1>3, <1>4, <1>5, <1>6, <1>7, <1>8, <1>9, <1>10, <1>11, <1>12, <1>13, <1>14, <1>15,
       <1>16, <1>17, <1>18, <1>19, <1>20, <1>21, <1>22 DEF HolderStep

ClientActs == Start \/ ClientStep \/ GiveUp \/ Cancel \/ Panic \/ ClientDies

LEMMA ClientTyped ==
  ASSUME TypeOK, ClientActs
  PROVE  client' \in ClientRecord
<1>0. PICK c \in ClientRecord : c = client
  BY DEF TypeOK
<1>b. "rollback" \in Sending /\ "closing" \in Closed /\ TRUE \in BOOLEAN
  BY DEF Sending, Closed
<1> USE <1>0 DEF ClientRecord, Sending, Waits, Closed
<1>1. CASE Start
  BY <1>1 DEF Start, Go, Step, ClientPhase
<1>2. CASE Ready
  BY <1>2 DEF Ready, Hear, Go, ClientPhase
<1>3. CASE Download
  <2>1. \/ client' = [c EXCEPT !.at = "rollback"]
        \/ client' = [c EXCEPT !.at = "new"]
        \/ client' = [c EXCEPT !.at = "new", !.replacement = "Pending"]
    BY <1>3 DEF Download, Go
  <2>2. {"rollback", "new"} \subseteq Sending
    OBVIOUS
  <2> HIDE DEF Sending, Waits, Closed
  <2> QED
    BY <2>1, <2>2
<1>4. CASE SendNew
  BY <1>4 DEF SendNew, Send, ClientPhase
<1>5. CASE NewReady
  BY <1>5 DEF NewReady, Hear, ClientPhase
<1>6. CASE NewStopped
  <2>1. client' = [c EXCEPT !.phase = "ReplacementFailedStopped", !.at = AfterStop]
    BY <1>6 DEF NewStopped
  <2>2. AfterStop \in Sending
    BY DEF AfterStop
  <2>3. "ReplacementFailedStopped" \in ClientPhase
    BY DEF ClientPhase
  <2> HIDE DEF Sending, Waits, Closed
  <2> QED
    BY <2>1, <2>2, <2>3
<1>7. CASE RollbackExecutable
  <2>1. \/ client' = [c EXCEPT !.replacement = "RolledBack", !.at = "rollback"]
        \/ client' = [c EXCEPT !.replacement = "Preserved", !.at = "closing", !.outcome = "failed"]
    BY <1>7 DEF RollbackExecutable
  <2> HIDE DEF Sending, Waits, Closed
  <2> USE <1>b
  <2>2. CASE client' = [c EXCEPT !.replacement = "RolledBack", !.at = "rollback"]
    BY <2>2
  <2>3. CASE client' = [c EXCEPT !.replacement = "Preserved", !.at = "closing", !.outcome = "failed"]
    BY <2>3
  <2> QED
    BY <2>1, <2>2, <2>3
<1>8. CASE SendRollback
  BY <1>8 DEF SendRollback, Send, ClientPhase
<1>9. CASE OldRestored
  <2> HIDE DEF Sending, Waits, Closed
  <2> QED
    BY <1>b, <1>9 DEF OldRestored, ClientPhase
<1>10. CASE OldFailed
  <2> HIDE DEF Sending, Waits, Closed
  <2> QED
    BY <1>b, <1>10 DEF OldFailed, ClientPhase
<1>11. CASE SendFinish
  BY <1>11 DEF SendFinish, Send, ClientPhase
<1>12. CASE FinalConfirmed
  BY <1>12 DEF FinalConfirmed, Hear, ClientPhase
<1>13. CASE Commit
  <2>1. PICK left \in {"Committed", "Preserved", c.replacement}, outcome \in {"updated", "failed"} :
          client' = [c EXCEPT !.at = "release", !.outcome = outcome, !.replacement = left]
    <3>1. CASE client' = [c EXCEPT !.at = "release", !.outcome = "updated",
                 !.replacement = IF c.replacement = "Pending" THEN "Committed" ELSE c.replacement]
      BY <3>1
    <3>2. CASE \E left \in {"Committed", "Preserved"} :
                 client' = [c EXCEPT !.at = "release", !.outcome = "failed", !.replacement = left]
      BY <3>2
    <3> QED
      BY <1>13, <3>1, <3>2 DEF Commit
  <2>2. /\ "release" \in Sending
        /\ left \in {"None", "Pending", "RolledBack", "Committed", "Preserved"}
        /\ outcome \in {"none", "gaveUp", "cancelled", "restored", "updated", "failed"}
    OBVIOUS
  <2> HIDE DEF Sending, Waits, Closed
  <2> QED
    BY <2>1, <2>2
<1>14. CASE SendRelease
  BY <1>14 DEF SendRelease, Send, ClientPhase
<1>15. CASE Released
  BY <1>15 DEF Released, Hear, ClientPhase
<1>16. CASE SendAbort
  BY <1>16 DEF SendAbort, Send, ClientPhase
<1>17. CASE Unanswered
  <2>1. client' = [c EXCEPT !.at = "closing", !.outcome = "failed",
                     !.replacement = IF c.replacement = "Pending" THEN "Preserved" ELSE c.replacement]
    BY <1>17 DEF Unanswered
  <2>2. /\ "closing" \in Closed
        /\ (IF c.replacement = "Pending" THEN "Preserved" ELSE c.replacement)
             \in {"None", "Pending", "RolledBack", "Committed", "Preserved"}
    OBVIOUS
  <2> HIDE DEF Sending, Waits, Closed
  <2> QED
    BY <2>1, <2>2
<1>18. CASE CloseAndWait
  BY <1>18 DEF CloseAndWait, Go, ClientPhase
<1>19. CASE GiveUp
  BY <1>19 DEF GiveUp, Close, ClientPhase
<1>20. CASE Cancel
  BY <1>20 DEF Cancel, Close, ClientPhase
<1>21. CASE Panic
  <2>1. client' = [c EXCEPT !.at = Plan, !.caught = TRUE] \/ client' = [c EXCEPT !.at = "closing", !.outcome = "failed"]
    BY <1>21 DEF Panic, Go, Close
  <2>2. CASE client' = [c EXCEPT !.at = Plan, !.caught = TRUE]
    <3>1. Plan \in Sending \cup Closed
      BY DEF Plan, AfterStop
    <3> HIDE DEF Sending, Waits, Closed
    <3> QED
      BY <1>b, <2>2, <3>1
  <2>3. CASE client' = [c EXCEPT !.at = "closing", !.outcome = "failed"]
    BY <2>3
  <2> QED
    BY <2>1, <2>2, <2>3
<1>22. CASE ClientDies
  BY <1>22 DEF ClientDies, Go, ClientPhase
<1> QED
  BY <1>1, <1>2, <1>3, <1>4, <1>5, <1>6, <1>7, <1>8, <1>9, <1>10, <1>11, <1>12, <1>13,
       <1>14, <1>15, <1>16, <1>17, <1>18, <1>19, <1>20, <1>21, <1>22 DEF ClientActs,
       ClientStep

------------------------------------------------------------------------------
(* The holder's routines.                                                   *)
LEMMA HolderKeepsFit ==
  ASSUME TypeOK, HolderFits, HolderStep \/ HolderDies
  PROVE  HolderFits'
<1>0. PICK h \in HolderRecord : h = holder
  BY DEF TypeOK
<1> USE <1>0 DEF HolderRecord
<1>1. CASE Capture
  <2>1. /\ h.at = "capture"
        /\ \/ holder' = [h EXCEPT !.initial = Running, !.target = Running,
                              !.at = IF Running = 0 THEN "acquire" ELSE "stop"]
           \/ holder' = [h EXCEPT !.at = "exited"]
    BY <1>1 DEF Capture, Step
  <2>2. /\ holder'.at \in {"acquire", "stop", "exited"} /\ holder'.job = h.job
        /\ holder'.final = h.final /\ holder'.expect = h.expect
    BY <2>1
  <2> QED
    BY <2>2 DEF HolderFits
<1>2. CASE IssueStop
  <2>1. /\ h.at = "stop"
        /\ \/ holder' = [h EXCEPT !.at = "settle", !.stale = h.target,
                              !.requested = h.requested \/ (h.job = "stop" /\ h.target = h.initial)]
           \/ holder' = [h EXCEPT !.at = Failed, !.job = AfterFailure]
    BY <1>2 DEF IssueStop
  <2>2. /\ holder'.at \in {"settle", Failed} /\ holder'.job \in {h.job, AfterFailure}
        /\ holder'.final = h.final /\ holder'.expect = h.expect
    BY <2>1
  <2>3. /\ Failed \in {"exited", "reestablish", "finalize"}
        /\ \/ AfterFailure = h.job
           \/ h.job = "newVerify" /\ AfterFailure = "new"
           \/ h.job = "oldVerify" /\ AfterFailure = "old"
    BY DEF Failed, AfterFailure
  <2> QED
    BY <2>2, <2>3 DEF HolderFits
<1>3. CASE Settle
  BY <1>3 DEF Settle, Quiet, HolderOnly, HolderFits
<1>4. CASE Acquire
  <2>1. /\ h.at = "acquire"
        /\ \/ holder' = [h EXCEPT !.absence = TRUE, !.at = "absent", !.stale = 0]
           \/ holder' = [h EXCEPT !.at = "observe", !.doubts = h.doubts \/ LockFree]
    BY <1>4 DEF Acquire
  <2>2. /\ holder'.at = "observe" \/ (holder'.at = "absent" /\ holder'.absence)
        /\ holder'.job = h.job /\ holder'.final = h.final /\ holder'.expect = h.expect
    BY <2>1
  <2> QED
    BY <2>2 DEF HolderFits
<1>5. CASE Observe
  <2>1. /\ h.at = "observe"
        /\ \/ holder' = [h EXCEPT !.at = "acquire"]
           \/ holder' = [h EXCEPT !.target = pidfile, !.at = "stop"]
    BY <1>5 DEF Observe, Step
  <2>2. /\ holder'.at \in {"acquire", "stop"} /\ holder'.job = h.job
        /\ holder'.final = h.final /\ holder'.expect = h.expect
    BY <2>1
  <2> QED
    BY <2>2 DEF HolderFits
<1>6. CASE Reestablish
  BY <1>6 DEF Reestablish, Quiet, HolderOnly, HolderFits
<1>7. CASE AbsentAnnounced
  <2>1. /\ h.at = "absent"
        /\ \/ holder' = [h EXCEPT !.doubts = FALSE, !.restarted = 0, !.at = "finalize"]
           \/ holder' = [h EXCEPT !.doubts = FALSE, !.restarted = 0, !.phase = FailedPhase[h.job], !.at = "finalize"]
           \/ holder' = [h EXCEPT !.doubts = FALSE, !.restarted = 0, !.phase = FailedPhase[h.job], !.at = "listen",
                              !.absence = h.absence /\ TRUE]
    BY <1>7 DEF AbsentAnnounced, AbsentFor, Settled, Announce
  <2>2. /\ holder'.at = "finalize" \/ (holder'.at = "listen" /\ holder'.absence = h.absence)
        /\ holder'.job = h.job /\ holder'.final = h.final /\ holder'.expect = h.expect
    BY <2>1
  <2> QED
    BY <2>1, <2>2 DEF HolderFits
<1>8. CASE AbsentAfterVerify
  BY <1>8 DEF AbsentAfterVerify, AbsentFor, HolderOnly, Settled, AfterFailure,
       HolderFits
<1>9. CASE AbsentRefused
  BY <1>9 DEF AbsentRefused, AbsentFor, HolderOnly, Settled, HolderFits
<1>10. CASE AbsentFinally
  BY <1>10 DEF AbsentFinally, AbsentFor, HolderOnly, Exit, HolderFits
<1>11. CASE AbsentPutBack
  BY <1>11 DEF AbsentPutBack, AbsentFor, HolderOnly, PutsBack, HolderFits
<1>12. CASE ReleaseAbsence
  BY <1>12 DEF ReleaseAbsence, Quiet, HolderOnly, HolderFits
<1>13. CASE Launch
  <2>1. /\ h.at = "launch"
        /\ \/ holder' = [h EXCEPT !.child = Fresh, !.at = "await"]
           \/ holder' = [h EXCEPT !.at = "reestablish", !.job = IF h.job = "putBack" THEN "undo" ELSE h.job]
    BY <1>13 DEF Launch, StartFailed
  <2>2. /\ holder'.final = h.final /\ holder'.expect = h.expect
        /\ \/ holder'.at = "reestablish" /\ holder'.job = IF h.job = "putBack" THEN "undo" ELSE h.job
           \/ holder'.at = "await" /\ holder'.job = h.job
    BY <2>1
  <2> QED
    BY <2>1, <2>2 DEF HolderFits
<1>14. CASE AwaitStarted
  <2>1. /\ h.at = "await"
        /\ \/ holder' = [h EXCEPT !.at = "check"]
           \/ holder' = [h EXCEPT !.at = "reestablish", !.job = IF h.job = "putBack" THEN "undo" ELSE h.job]
    BY <1>14 DEF AwaitStarted, Step, StartFailed
  <2>2. /\ holder'.final = h.final /\ holder'.expect = h.expect
        /\ \/ holder'.at = "reestablish" /\ holder'.job = IF h.job = "putBack" THEN "undo" ELSE h.job
           \/ holder'.at = "check" /\ holder'.job = h.job
    BY <2>1
  <2> QED
    BY <2>1, <2>2 DEF HolderFits
<1>15. CASE CheckStarted
  <2>1. /\ h.at = "check"
        /\ \/ holder' = [h EXCEPT !.at = "reestablish", !.job = IF h.job = "putBack" THEN "undo" ELSE h.job]
           \/ holder' = [h EXCEPT !.restarted = Running,
                              !.at = IF h.job = "putBack" THEN "exited" ELSE "verify"]
    BY <1>15 DEF CheckStarted, StartFailed
  <2>2. /\ holder'.final = h.final /\ holder'.expect = h.expect
        /\ \/ holder'.at = "reestablish" /\ holder'.job = IF h.job = "putBack" THEN "undo" ELSE h.job
           \/ holder'.at \in {"exited", "verify"} /\ holder'.job = h.job
    BY <2>1
  <2> QED
    BY <2>1, <2>2 DEF HolderFits
<1>16. CASE Verify
  <2>1. /\ h.at = "verify"
        /\ \/ holder' = VerifyFailed \/ Exit
           \/ Announce(holder, "NewReady", "newReady", "listen")
           \/ Announce(holder, "PriorRestored", "oldRestored", "exited")
           \/ Announce(holder, "FinalConfirmed", "finalConfirmed", "listen")
           \/ Announce(holder, "FinalConfirmed", "released", "exited")
    BY <1>16 DEF Verify, HolderFits
  <2>2. CASE holder' = VerifyFailed
    <3>1. holder' = [h EXCEPT !.at = "reestablish", !.job = VerifyJob]
      BY <2>2 DEF VerifyFailed, VerifyJob
    <3>2. /\ holder'.at = "reestablish" /\ holder'.job = VerifyJob
          /\ holder'.final = h.final /\ holder'.expect = h.expect
      BY <3>1
    <3> QED
      BY <3>2 DEF HolderFits, VerifyJob
  <2>3. CASE Exit
    <3>1. holder' = [h EXCEPT !.at = "exited", !.absence = FALSE, !.doubts = FALSE]
      BY <2>3 DEF Exit
    <3>2. /\ holder'.at = "exited" /\ holder'.job = h.job
          /\ holder'.final = h.final /\ holder'.expect = h.expect
      BY <3>1
    <3> QED
      BY <3>2 DEF HolderFits
  <2>4. ASSUME NEW phase, NEW marker, NEW next, Announce(holder, phase, marker, next),
               next = "exited" \/ (next = "listen" /\ phase \in {"NewReady", "FinalConfirmed"})
        PROVE  HolderFits'
    <3>1. \/ holder' = [h EXCEPT !.phase = phase, !.at = "finalize"]
          \/ holder' = [h EXCEPT !.phase = phase, !.at = next, !.absence = h.absence /\ next # "exited"]
      BY <2>4 DEF Announce
    <3>2. /\ holder'.at \in {"finalize", next} /\ holder'.phase = phase /\ holder'.job = h.job
          /\ holder'.final = h.final /\ holder'.expect = h.expect
      BY <3>1
    <3> QED
      BY <2>4, <3>2 DEF HolderFits
  <2> QED
    BY <2>1, <2>2, <2>3, <2>4
<1>17. CASE Listen
  <2>1. /\ h.at = "listen"
        /\ \/ holder' = Told(wire.command) /\ Fits(wire.command, h.phase)
           \/ holder' = [h EXCEPT !.at = "finalize"]
    BY <1>17 DEF Listen
  <2>2. CASE holder' = Told(wire.command) /\ Fits(wire.command, h.phase)
    <3>1. holder'.final = h.final /\ holder'.at \in {"verify", "release", "reestablish"}
      BY <2>2 DEF Told, RestorePrior, Fits
    <3>2. \/ holder'.job = "new" \/ (holder'.job = "old" /\ holder'.expect = "old")
          \/ holder'.job \in {"finish", "release"} /\ holder'.at = "verify"
          \/ holder'.job = "abort" /\ holder'.at = "reestablish"
      BY <2>2 DEF Told, RestorePrior, Fits
    <3> QED
      BY <3>1, <3>2 DEF HolderFits
  <2>3. CASE holder' = [h EXCEPT !.at = "finalize"]
    <3>1. /\ holder'.at = "finalize" /\ holder'.job = h.job
          /\ holder'.final = h.final /\ holder'.expect = h.expect
      BY <2>3
    <3> QED
      BY <3>1 DEF HolderFits
  <2> QED
    BY <2>1, <2>2, <2>3
<1>18. CASE HangUp
  BY <1>18 DEF HangUp, Step, Quiet, HolderOnly, HolderFits
<1>19. CASE Finalize
  <2>1. \/ holder' = [h EXCEPT !.at = "exited", !.absence = FALSE, !.doubts = FALSE]
        \/ holder' = [h EXCEPT !.final = TRUE, !.job = "putBack", !.target = h.initial,
                           !.at = PutBackAt]
        \/ holder' = [h EXCEPT !.final = TRUE, !.job = "old", !.expect = "old", !.at = RestoreAt]
        \/ holder' = [h EXCEPT !.final = TRUE, !.job = "undo", !.at = "reestablish"]
        \/ holder' = [h EXCEPT !.final = TRUE, !.job = "final", !.at = "verify"]
    BY <1>19 DEF Finalize, RestorePrior, Exit, RestoreAt, PutBackAt, HolderPhase
  <2>2. {PutBackAt, RestoreAt} \subseteq {"settleRequested", "reestablish", "verify", "release"}
    BY DEF PutBackAt, RestoreAt
  <2>3. /\ holder'.at \in {"exited", PutBackAt, RestoreAt, "reestablish", "verify"}
        /\ \/ holder'.final /\ holder'.at # "exited"
           \/ /\ holder'.at = "exited" /\ holder'.job = h.job
              /\ holder'.final = h.final /\ holder'.expect = h.expect
    <3>1. CASE holder' = [h EXCEPT !.at = "exited", !.absence = FALSE, !.doubts = FALSE]
      BY <3>1
    <3>2. CASE holder' # [h EXCEPT !.at = "exited", !.absence = FALSE, !.doubts = FALSE]
      <4>1. holder'.final /\ holder'.at \in {PutBackAt, RestoreAt, "reestablish", "verify"}
        BY <2>1, <3>2
      <4> QED
        BY <2>2, <4>1
    <3> QED
      BY <3>1, <3>2
  <2> QED
    BY <2>2, <2>3 DEF HolderFits
<1>20. CASE HolderDies
  BY <1>20 DEF HolderDies, Quiet, HolderOnly, HolderFits
<1> QED
  BY <1>1, <1>2, <1>3, <1>4, <1>5, <1>6, <1>7, <1>8, <1>9, <1>10, <1>11, <1>12, <1>13,
       <1>14, <1>15, <1>16, <1>17, <1>18, <1>19, <1>20 DEF HolderStep

----------------------------------------------------------------------------
(* Turns.  A step of the holder hears a command (Listen), answers one, or   *)
(* is internal to the work it does.                                         *)
Internal ==
  /\ UNCHANGED <<image, saved, client, wire>>
  /\ holder.at \notin {"unborn", "exited", "killed"}
  /\ holder'.at \notin {"unborn", "listen"}
  /\ holder'.phase = holder.phase \/ (ClientGone /\ Busy(holder))
  /\ holder.at = "listen" => holder'.at = "killed" \/ (InputClosed /\ wire.command = "none")
  /\ Busy(holder') /\ ~ holder'.final =>
       /\ Busy(holder) /\ ~ holder.final
       /\ Serves(client.at, holder.job) => Serves(client.at, holder'.job)

Answering ==
  /\ UNCHANGED <<image, saved, client>>
  /\ wire'.command = wire.command /\ wire'.marker # "none"
  /\ Busy(holder) /\ ~ holder.final
  /\ holder'.at = IF wire'.marker \in LastMarker THEN "exited" ELSE "listen"
  /\ Serves(client.at, holder.job) => Answers(client.at, wire'.marker, holder'.phase)

LEMMA Within ==
  ASSUME UNCHANGED <<image, saved, client, wire>>, Busy(holder),
         holder'.at \notin {"unborn", "listen"}, holder'.phase = holder.phase,
         holder'.final = holder.final,
         Serves(client.at, holder.job) => Serves(client.at, holder'.job)
  PROVE  Internal
BY DEF Internal, Busy

LEMMA HolderSorts ==
  ASSUME TypeOK, HolderFits, HolderStep \/ HolderDies
  PROVE  Internal \/ Answering \/ Listen
<1>0. PICK h \in HolderRecord : h = holder
  BY DEF TypeOK
<1>1. PICK w \in [command : {"none", "new", "rollback", "finish", "abort", "release"},
                  marker : {"none"} \cup Marker] : w = wire
  BY DEF TypeOK
<1> USE <1>0, <1>1 DEF HolderRecord
<1>2. CASE Capture
  BY <1>2 DEF Capture, Step, Quiet, HolderOnly, Internal, Busy
<1>3. CASE IssueStop
  <2>1. /\ UNCHANGED <<image, saved, client, wire>> /\ h.at = "stop"
        /\ \/ holder' = [h EXCEPT !.at = "settle", !.stale = h.target,
                              !.requested = h.requested \/ (h.job = "stop" /\ h.target = h.initial)]
           \/ holder' = [h EXCEPT !.at = Failed, !.job = AfterFailure]
    BY <1>3 DEF IssueStop, HolderOnly
  <2>2. /\ Failed \in {"exited", "reestablish", "finalize"}
        /\ Serves(client.at, h.job) => Serves(client.at, AfterFailure)
    BY DEF Failed, AfterFailure, Serves
  <2>3. /\ holder'.at \in {"settle", Failed} /\ holder'.phase = h.phase
        /\ holder'.final = h.final /\ holder'.job \in {h.job, AfterFailure}
    BY <2>1
  <2> QED
    BY <2>1, <2>2, <2>3, Within DEF Busy
<1>4. CASE Settle
  BY <1>4 DEF Settle, Quiet, HolderOnly, Internal, Busy, HolderFits
<1>5. CASE Acquire
  <2>1. /\ UNCHANGED <<image, saved, client, wire>> /\ h.at = "acquire"
        /\ \/ holder' = [h EXCEPT !.absence = TRUE, !.at = "absent", !.stale = 0]
           \/ holder' = [h EXCEPT !.at = "observe", !.doubts = h.doubts \/ LockFree]
    BY <1>5 DEF Acquire, HolderOnly
  <2>2. /\ holder'.at \in {"absent", "observe"} /\ holder'.phase = h.phase
        /\ holder'.final = h.final /\ holder'.job = h.job
    BY <2>1
  <2> QED
    BY <2>1, <2>2, Within DEF Busy
<1>6. CASE Observe
  <2>1. /\ UNCHANGED <<image, saved, client, wire>> /\ h.at = "observe"
        /\ \/ holder' = [h EXCEPT !.at = "acquire"]
           \/ holder' = [h EXCEPT !.target = pidfile, !.at = "stop"]
    BY <1>6 DEF Observe, Step, Quiet, HolderOnly
  <2>2. /\ holder'.at \in {"acquire", "stop"} /\ holder'.phase = h.phase
        /\ holder'.final = h.final /\ holder'.job = h.job
    BY <2>1
  <2> QED
    BY <2>1, <2>2, Within DEF Busy
<1>7. CASE Reestablish
  BY <1>7 DEF Reestablish, Quiet, HolderOnly, Internal, Busy
<1>8. CASE AbsentAfterVerify
  BY <1>8 DEF AbsentAfterVerify, AbsentFor, HolderOnly, Settled, AfterFailure, Internal,
       Busy, Serves
<1>9. CASE AbsentRefused
  BY <1>9 DEF AbsentRefused, AbsentFor, HolderOnly, Settled, Internal, Busy
<1>10. CASE AbsentFinally
  BY <1>10 DEF AbsentFinally, AbsentFor, HolderOnly, Exit, Internal, Busy
<1>11. CASE AbsentPutBack
  BY <1>11 DEF AbsentPutBack, AbsentFor, HolderOnly, PutsBack, Internal, Busy,
       HolderFits
<1>12. CASE ReleaseAbsence
  BY <1>12 DEF ReleaseAbsence, Quiet, HolderOnly, Internal, Busy
<1>13. CASE Launch
  <2>1. /\ UNCHANGED <<image, saved, client, wire>> /\ h.at = "launch"
        /\ \/ holder' = [h EXCEPT !.child = Fresh, !.at = "await"]
           \/ holder' = [h EXCEPT !.at = "reestablish", !.job = IF h.job = "putBack" THEN "undo" ELSE h.job]
    BY <1>13 DEF Launch, StartFailed, HolderOnly
  <2>2. Serves(client.at, h.job) => Serves(client.at, IF h.job = "putBack" THEN "undo" ELSE h.job)
    BY DEF Serves
  <2>3. /\ holder'.at \in {"await", "reestablish"} /\ holder'.phase = h.phase
        /\ holder'.final = h.final
        /\ holder'.job \in {h.job, IF h.job = "putBack" THEN "undo" ELSE h.job}
    BY <2>1
  <2> QED
    BY <2>1, <2>2, <2>3, Within DEF Busy
<1>14. CASE AwaitStarted
  <2>1. /\ UNCHANGED <<image, saved, client, wire>> /\ h.at = "await"
        /\ \/ holder' = [h EXCEPT !.at = "check"]
           \/ holder' = [h EXCEPT !.at = "reestablish", !.job = IF h.job = "putBack" THEN "undo" ELSE h.job]
    BY <1>14 DEF AwaitStarted, Step, StartFailed, HolderOnly
  <2>2. Serves(client.at, h.job) => Serves(client.at, IF h.job = "putBack" THEN "undo" ELSE h.job)
    BY DEF Serves
  <2>3. /\ holder'.at \in {"check", "reestablish"} /\ holder'.phase = h.phase
        /\ holder'.final = h.final
        /\ holder'.job \in {h.job, IF h.job = "putBack" THEN "undo" ELSE h.job}
    BY <2>1
  <2> QED
    BY <2>1, <2>2, <2>3, Within DEF Busy
<1>15. CASE CheckStarted
  <2>1. /\ UNCHANGED <<image, saved, client, wire>> /\ h.at = "check"
        /\ \/ holder' = [h EXCEPT !.at = "reestablish", !.job = IF h.job = "putBack" THEN "undo" ELSE h.job]
           \/ holder' = [h EXCEPT !.restarted = Running,
                              !.at = IF h.job = "putBack" THEN "exited" ELSE "verify"]
    BY <1>15 DEF CheckStarted, StartFailed, Quiet, HolderOnly
  <2>2. Serves(client.at, h.job) => Serves(client.at, IF h.job = "putBack" THEN "undo" ELSE h.job)
    BY DEF Serves
  <2>3. /\ holder'.at \in {"reestablish", "exited", "verify"} /\ holder'.phase = h.phase
        /\ holder'.final = h.final
        /\ holder'.job \in {h.job, IF h.job = "putBack" THEN "undo" ELSE h.job}
    BY <2>1
  <2> QED
    BY <2>1, <2>2, <2>3, Within DEF Busy
<1>16. CASE HangUp
  BY <1>16 DEF HangUp, Step, Quiet, HolderOnly, Internal, Busy
<1>17. CASE Finalize
  <2>1. /\ UNCHANGED <<image, saved, client, wire>> /\ h.at = "finalize"
        /\ \/ holder' = [h EXCEPT !.at = "exited", !.absence = FALSE, !.doubts = FALSE]
           \/ holder' = [h EXCEPT !.final = TRUE, !.job = "putBack", !.target = h.initial,
                              !.at = PutBackAt]
           \/ holder' = [h EXCEPT !.final = TRUE, !.job = "old", !.expect = "old", !.at = RestoreAt]
           \/ holder' = [h EXCEPT !.final = TRUE, !.job = "undo", !.at = "reestablish"]
           \/ holder' = [h EXCEPT !.final = TRUE, !.job = "final", !.at = "verify"]
    BY <1>17 DEF Finalize, HolderOnly, RestorePrior, Exit, RestoreAt, PutBackAt, HolderPhase
  <2>2. {PutBackAt, RestoreAt} \subseteq {"settleRequested", "reestablish", "verify", "release"}
    BY DEF PutBackAt, RestoreAt
  <2>3. holder'.at \notin {"unborn", "listen"} /\ holder'.phase = h.phase
    <3>1. holder'.at \in {"exited", PutBackAt, RestoreAt, "reestablish", "verify"}
      BY <2>1
    <3>2. holder'.phase = h.phase
      BY <2>1
    <3> QED
      BY <2>2, <3>1, <3>2
  <2>4. holder'.final = TRUE \/ holder'.at = "exited"
    BY <2>1
  <2> QED
    BY <2>1, <2>3, <2>4 DEF Internal, Busy
<1>18. CASE HolderDies
  <2>1. /\ UNCHANGED <<image, saved, client, wire>>
        /\ h.at \notin {"unborn", "exited", "killed"}
        /\ holder' = [h EXCEPT !.at = "killed", !.absence = FALSE]
    BY <1>18 DEF HolderDies, HolderGone, Quiet, HolderOnly
  <2> QED
    BY <2>1 DEF Internal, Busy
<1>19. CASE AbsentAnnounced
  <2>1. CASE holder.doubts \/ ClientGone
    <3>1. /\ UNCHANGED <<image, saved, client, wire>> /\ h.at = "absent"
          /\ \/ holder' = [h EXCEPT !.doubts = FALSE, !.restarted = 0, !.at = "finalize"]
             \/ ClientGone /\ holder' = [h EXCEPT !.doubts = FALSE, !.restarted = 0, !.phase = FailedPhase[h.job], !.at = "finalize"]
      BY <1>19, <2>1 DEF AbsentAnnounced, AbsentFor, HolderOnly, Settled, Announce
    <3>2. holder'.at = "finalize" /\ (holder'.phase = h.phase \/ ClientGone)
      BY <3>1
    <3> QED
      BY <3>1, <3>2 DEF Internal, Busy
  <2>2. CASE ~ holder.doubts /\ ~ ClientGone
    <3>1. /\ holder' = [h EXCEPT !.doubts = FALSE, !.restarted = 0, !.phase = FailedPhase[h.job],
                        !.at = "listen", !.absence = h.absence /\ TRUE]
          /\ wire' = [w EXCEPT !.marker = FailedMarker[h.job]]
          /\ h.job \in {"stop", "new", "abort", "old"} /\ h.at = "absent" /\ ~ h.final
          /\ UNCHANGED <<image, saved, client>>
      BY <1>19, <2>2 DEF AbsentAnnounced, AbsentFor, HolderOnly, Settled, Announce,
           FailedPhase
    <3>2. /\ FailedMarker[h.job] \notin LastMarker \cup {"none"}
          /\ Serves(client.at, h.job) => Answers(client.at, FailedMarker[h.job], FailedPhase[h.job])
      BY <3>1 DEF FailedMarker, FailedPhase, LastMarker, Serves, Answers
    <3> QED
      BY <3>1, <3>2 DEF Answering, Busy
  <2> QED
    BY <2>1, <2>2
<1>20. CASE Verify
  <2>0. UNCHANGED <<image, saved, client>> /\ h.at = "verify"
    BY <1>20 DEF Verify, HolderOnly
  <2>1. \/ holder' = VerifyFailed /\ wire' = wire
        \/ holder.final /\ Exit
        \/ /\ ~ h.final
           /\ \/ h.job = "new" /\ Announce(holder, "NewReady", "newReady", "listen")
              \/ h.job = "old" /\ Announce(holder, "PriorRestored", "oldRestored", "exited")
              \/ h.job = "finish" /\ Announce(holder, "FinalConfirmed", "finalConfirmed", "listen")
              \/ h.job = "release" /\ Announce(holder, "FinalConfirmed", "released", "exited")
    BY <1>20 DEF Verify, HolderFits
  <2>2. CASE holder' = VerifyFailed /\ wire' = wire
    <3>1. holder' = [h EXCEPT !.at = "reestablish", !.job = VerifyJob]
      BY <2>2 DEF VerifyFailed, VerifyJob
    <3>2. Serves(client.at, h.job) => Serves(client.at, VerifyJob)
      BY DEF VerifyJob, Serves
    <3> QED
      BY <2>0, <2>2, <3>1, <3>2 DEF Internal, Busy
  <2>3. CASE holder.final /\ Exit
    BY <2>0, <2>3 DEF Exit, Internal, Busy
  <2>4. ASSUME NEW phase, NEW marker \in Marker, NEW next \in {"listen", "exited"},
               Announce(holder, phase, marker, next), ~ h.final,
               next = "exited" <=> marker \in LastMarker,
               Serves(client.at, h.job) => Answers(client.at, marker, phase)
        PROVE  Internal \/ Answering
    <3>1. CASE ClientGone
      BY <2>0, <2>4, <3>1 DEF Announce, Internal, Busy
    <3>2. CASE ~ ClientGone
      <4>1. /\ holder'.phase = phase /\ holder'.at = next
            /\ wire'.command = wire.command /\ wire'.marker = marker
        BY <2>4, <3>2 DEF Announce
      <4> QED
        BY <2>0, <2>4, <4>1 DEF Answering, Busy, Marker
    <3> QED
      BY <3>1, <3>2
  <2>5. ASSUME ~ h.final, h.job = "new", Announce(holder, "NewReady", "newReady", "listen")
        PROVE  Internal \/ Answering
    BY <2>4, <2>5 DEF Serves, Answers, LastMarker, Marker
  <2>6. ASSUME ~ h.final, h.job = "old", Announce(holder, "PriorRestored", "oldRestored", "exited")
        PROVE  Internal \/ Answering
    BY <2>4, <2>6 DEF Serves, Answers, LastMarker, Marker
  <2>7. ASSUME ~ h.final, h.job = "finish", Announce(holder, "FinalConfirmed", "finalConfirmed", "listen")
        PROVE  Internal \/ Answering
    BY <2>4, <2>7 DEF Serves, Answers, LastMarker, Marker
  <2>8. ASSUME ~ h.final, h.job = "release", Announce(holder, "FinalConfirmed", "released", "exited")
        PROVE  Internal \/ Answering
    BY <2>4, <2>8 DEF Serves, Answers, LastMarker, Marker
  <2> QED
    BY <2>1, <2>2, <2>3, <2>5, <2>6, <2>7, <2>8
<1> QED
  BY <1>2, <1>3, <1>4, <1>5, <1>6, <1>7, <1>8, <1>9, <1>10, <1>11, <1>12, <1>13, <1>14,
       <1>15, <1>16, <1>17, <1>18, <1>19, <1>20 DEF HolderStep

LEMMA InternalAgrees ==
  ASSUME TypeOK, Agreed, Internal
  PROVE  Agreed'
<1>1. /\ UNCHANGED <<client, wire>>
      /\ holder.at \notin {"unborn", "exited", "killed"} /\ holder'.at \notin {"unborn", "listen"}
  BY DEF Internal
<1>2. wire.command # "none" => holder.at = "listen" /\ holder'.phase = holder.phase
  BY <1>1 DEF Internal, Busy, Agreed, HolderTurn
<1>3. IdleTurn'
  BY <1>1 DEF Agreed, IdleTurn
<1>4. HolderTurn'
  <2>1. ASSUME holder'.at \notin {"exited", "killed"}
        PROVE  wire.command = "none" /\ (Waiting => wire.marker = "none")
    <3>1. holder.at = "listen" => InputClosed /\ wire.command = "none"
      BY <2>1 DEF Internal
    <3> QED
      BY <1>1, <3>1 DEF Agreed, HolderTurn, InputClosed, Closed, Waiting, Waits
  <2>2. Waiting /\ Busy(holder') /\ ~ holder'.final => Serves(client.at, holder'.job)
    BY DEF Internal, Agreed, HolderTurn
  <2> QED
    BY <1>1, <2>1, <2>2 DEF HolderTurn, Waiting
<1>5. ClientTurn'
  BY <1>1 DEF Internal, Agreed, ClientTurn, Busy, InputClosed, Closed, Sending
<1>6. Called'
  BY <1>1, <1>2 DEF Agreed, Called, Waiting
<1>7. Answered'
  <2>1. ASSUME Waiting, wire.marker # "none"
        PROVE  holder'.phase = holder.phase /\ holder'.at = "killed" /\ holder.at = "listen"
    BY <1>1, <2>1 DEF Internal, Agreed, Answered, HolderTurn, Busy, InputClosed, Closed,
                      Waiting, Waits, HolderGone
  <2> QED
    BY <1>1, <2>1 DEF Agreed, Answered, Waiting, HolderGone
<1> QED
  BY <1>3, <1>4, <1>5, <1>6, <1>7 DEF Agreed

LEMMA AnsweringAgrees ==
  ASSUME TypeOK, Agreed, Answering
  PROVE  Agreed'
<1>1. /\ UNCHANGED client /\ wire'.command = "none" /\ wire'.marker # "none"
      /\ holder.at \notin {"unborn", "listen", "exited", "killed"}
      /\ holder'.at = IF wire'.marker \in LastMarker THEN "exited" ELSE "listen"
  BY DEF Answering, Busy, Agreed, HolderTurn
<1>2. client.at # "idle" /\ client.at \notin Sending
  BY <1>1 DEF Agreed, IdleTurn, ClientTurn
<1>3. Waiting => Answers(client.at, wire'.marker, holder'.phase)
  BY DEF Answering, Agreed, HolderTurn
<1>4. IdleTurn' /\ HolderTurn' /\ ClientTurn' /\ Called'
  BY <1>1, <1>2 DEF Agreed, IdleTurn, HolderTurn, ClientTurn, Called, Busy
<1>5. Answered'
  BY <1>1, <1>3 DEF Answered, Waiting, HolderGone
<1> QED
  BY <1>4, <1>5 DEF Agreed

LEMMA ListenAgrees ==
  ASSUME TypeOK, Agreed, Listen
  PROVE  Agreed'
<1>1. /\ UNCHANGED client /\ holder.at = "listen" /\ wire.command # "none"
      /\ wire' = [wire EXCEPT !.command = "none"]
      /\ Fits(wire.command, holder.phase) /\ holder' = Told(wire.command)
  BY DEF Listen, HolderOnly, Agreed, Called
<1>2. wire'.command = "none" /\ wire'.marker = wire.marker
  BY <1>1 DEF TypeOK
<1>3. /\ holder'.at \in {"verify", "release", "reestablish"}
      /\ holder'.final = holder.final
      /\ wire.command = "new" => holder'.job = "new"
      /\ wire.command = "rollback" => holder'.job = "old"
      /\ wire.command = "finish" => holder'.job = "finish"
      /\ wire.command = "abort" => holder'.job = "abort"
      /\ wire.command = "release" => holder'.job = "release"
  BY <1>1 DEF TypeOK, HolderRecord, Told, RestorePrior, Fits
<1>4. client.at # "idle" /\ client.at \notin Sending
  BY <1>1 DEF Agreed, IdleTurn, ClientTurn
<1>5. Waiting => Asks(client.at, wire.command) /\ wire.marker = "none"
  BY <1>1 DEF Agreed, Called, Answered
<1> QED
  BY <1>1, <1>2, <1>3, <1>4, <1>5
     DEF Agreed, IdleTurn, HolderTurn, ClientTurn, Called, Answered, Busy, Waiting, Asks, Serves

------------------------------------------------------------------------------
(* The client's part: a marker heard gives it the turn, a command sent takes *)
(* it away.                                                                  *)
LEMMA DecidesNext ==
  ASSUME UNCHANGED holder, wire'.command = "none", wire'.marker = "none",
         client'.at \in Sending, client'.phase = holder.phase,
         holder.at \in {"listen", "killed"}, Decides(client'.at, holder.phase)
  PROVE  Agreed'
BY DEF Agreed, IdleTurn, HolderTurn, ClientTurn, Called, Answered, Waiting, Sending, Waits

LEMMA EndsNext ==
  ASSUME Agreed, UNCHANGED holder, client'.at \in Closed, client.at # "idle",
         wire'.command = wire.command
  PROVE  Agreed'
BY DEF Agreed, IdleTurn, HolderTurn, ClientTurn, Called, Answered, Waiting, Sending, Waits, Closed

LEMMA Hearing ==
  ASSUME TypeOK, Agreed, NEW here \in Waits, NEW marker \in Marker, Hear(here, marker)
  PROVE  /\ UNCHANGED holder /\ wire'.command = "none" /\ wire'.marker = "none"
         /\ client.at = here /\ wire.command = "none" /\ Answers(here, marker, holder.phase)
         /\ marker \notin LastMarker => holder.at \in {"listen", "killed"}
         /\ marker \in LastMarker => HolderGone
<1>1. /\ UNCHANGED holder /\ wire' = [wire EXCEPT !.marker = "none"]
      /\ client.at = here /\ wire.marker = marker
  BY DEF Hear, ByClient
<1>2. wire'.command = wire.command /\ wire'.marker = "none"
  BY <1>1 DEF TypeOK
<1>3. Waiting /\ wire.marker # "none"
  BY <1>1 DEF Waiting, Marker
<1> QED
  BY <1>1, <1>2, <1>3 DEF Agreed, Answered

LEMMA Turned ==
  ASSUME Agreed, client.at \in Sending
  PROVE  /\ wire.command = "none" /\ wire.marker = "none"
         /\ holder.at \in {"listen", "killed"} /\ client.phase = holder.phase
         /\ Decides(client.at, holder.phase)
BY DEF Agreed, ClientTurn

LEMMA Sent ==
  ASSUME TypeOK, Agreed, NEW here \in Sending, NEW command, NEW phase, NEW next \in Waits,
         Send(here, command, phase, next), command # "none", Asks(next, command),
         \A p : Decides(here, p) => Fits(command, p)
  PROVE  Agreed'
<1>1. /\ UNCHANGED holder /\ client.at = here /\ client'.at = next /\ next # "awaitReady"
      /\ wire' = IF HolderGone THEN wire ELSE [wire EXCEPT !.command = command]
  BY DEF Send, ByClient, TypeOK, ClientRecord, Asks
<1>2. /\ wire.command = "none" /\ wire.marker = "none"
      /\ holder.at \in {"listen", "killed"} /\ Fits(command, holder.phase)
  BY <1>1, Turned
<1>3. CASE holder.at = "listen"
  <2>1. wire'.command = command /\ wire'.marker = "none"
    BY <1>1, <1>2, <1>3 DEF TypeOK, HolderGone
  <2> QED
    BY <1>1, <1>2, <1>3, <2>1
       DEF Agreed, IdleTurn, HolderTurn, ClientTurn, Called, Answered, Busy, Sending, Waits
<1>4. CASE holder.at = "killed"
  <2>1. wire'.command = "none" /\ wire'.marker = "none"
    BY <1>1, <1>2, <1>4 DEF HolderGone
  <2> QED
    BY <1>1, <1>2, <1>4, <2>1
       DEF Agreed, IdleTurn, HolderTurn, ClientTurn, Called, Answered, Busy, Sending, Waits
<1> QED
  BY <1>2, <1>3, <1>4

LEMMA ClientAgrees ==
  ASSUME TypeOK, HolderFits, Agreed, Decided, ClientActs
  PROVE  Agreed' /\ Decided'
<1>0. PICK c \in ClientRecord : c = client
  BY DEF TypeOK
<1> USE <1>0 DEF ClientRecord
<1>1. CASE Start
  <2>1. /\ client.at = "idle" /\ UNCHANGED wire /\ client' = [c EXCEPT !.at = "awaitReady"]
        /\ holder' = [holder EXCEPT !.at = "capture"]
    BY <1>1 DEF Start, Go, Step
  <2>2. /\ holder.at = "unborn" /\ holder.job = "stop"
        /\ wire.command = "none" /\ wire.marker = "none"
    BY <2>1 DEF Agreed, IdleTurn, HolderTurn, HolderFits
  <2>3. holder'.at = "capture" /\ holder'.job = "stop"
    BY <2>1, <2>2 DEF TypeOK, HolderRecord
  <2> QED
    BY <2>1, <2>2, <2>3
       DEF Agreed, IdleTurn, HolderTurn, ClientTurn, Called, Answered, Decided, Serves,
           Sending, Waits, Closed
<1>2. CASE Ready
  <2>1. Hear("awaitReady", "ready") /\ client' = [c EXCEPT !.at = "download"]
    BY <1>2 DEF Ready, Go
  <2>2. /\ UNCHANGED holder /\ wire'.command = "none" /\ wire'.marker = "none"
        /\ client.at = "awaitReady" /\ wire.command = "none"
        /\ holder.at \in {"listen", "killed"} /\ holder.phase = "Stopped"
    BY <2>1, Hearing DEF Waits, Marker, Answers, LastMarker
  <2> QED
    BY <2>1, <2>2, DecidesNext DEF Agreed, IdleTurn, Sending, Decides, Decided, Closed
<1>3. CASE Download
  <2>1. /\ client.at = "download" /\ UNCHANGED <<holder, wire>>
        /\ client' \in {[c EXCEPT !.at = "rollback"], [c EXCEPT !.at = "new"],
                        [c EXCEPT !.at = "new", !.replacement = "Pending"]}
    BY <1>3 DEF Download, Go
  <2>2. /\ client'.at \in {"rollback", "new"} /\ client'.phase = c.phase
        /\ client'.replacement \in {c.replacement, "Pending"}
    BY <2>1
  <2> QED
    BY <2>1, <2>2, Turned, DecidesNext DEF Sending, Decides, Decided, Closed
<1>4. CASE SendNew
  <2>1. Send("new", "new", "ReplacementTransition", "awaitNew")
    BY <1>4 DEF SendNew
  <2>2. Agreed'
    BY <2>1, Sent DEF Sending, Waits, Asks, Decides, Fits
  <2> QED
    BY <2>1, <2>2 DEF Send, Decided, Closed
<1>5. CASE NewReady
  <2>1. Hear("awaitNew", "newReady") /\ client' = [c EXCEPT !.phase = "NewReady", !.at = "finish"]
    BY <1>5 DEF NewReady
  <2>2. /\ UNCHANGED holder /\ wire'.command = "none" /\ wire'.marker = "none"
        /\ client.at = "awaitNew" /\ wire.command = "none"
        /\ holder.at \in {"listen", "killed"} /\ holder.phase = "NewReady"
    BY <2>1, Hearing DEF Waits, Marker, Answers, LastMarker
  <2> QED
    BY <2>1, <2>2, DecidesNext DEF Sending, Decides, Decided, Closed
<1>6. CASE NewStopped
  <2>1. /\ Hear("awaitNew", "newFailed") \/ Hear("awaitAbort", "newStopped")
        /\ client' = [c EXCEPT !.phase = "ReplacementFailedStopped", !.at = AfterStop]
    BY <1>6 DEF NewStopped
  <2>2. /\ UNCHANGED holder /\ wire'.command = "none" /\ wire'.marker = "none"
        /\ client.at \in {"awaitNew", "awaitAbort"}
        /\ holder.at \in {"listen", "killed"} /\ holder.phase = "ReplacementFailedStopped"
    BY <2>1, Hearing DEF Waits, Marker, Answers, LastMarker
  <2>3. /\ client'.at \in {"rollbackExecutable", "rollback"}
        /\ client'.phase = "ReplacementFailedStopped" /\ client'.replacement = c.replacement
    BY <2>1 DEF AfterStop
  <2> QED
    BY <2>2, <2>3, DecidesNext DEF Sending, Decides, Decided, Closed
<1>7. CASE RollbackExecutable
  <2>1. /\ client.at = "rollbackExecutable" /\ UNCHANGED <<holder, wire>>
        /\ client' \in {[c EXCEPT !.replacement = "RolledBack", !.at = "rollback"],
                        [c EXCEPT !.replacement = "Preserved", !.at = "closing",
                                  !.outcome = "failed"]}
    BY <1>7 DEF RollbackExecutable
  <2>2. \/ /\ client'.at = "rollback" /\ client'.phase = c.phase
           /\ client'.replacement = "RolledBack"
        \/ client'.at = "closing"
    BY <2>1
  <2>3. CASE client'.at = "closing"
    BY <2>1, <2>3, EndsNext DEF Decided, Closed
  <2>4. CASE client'.at # "closing"
    BY <2>1, <2>2, <2>4, Turned, DecidesNext DEF Sending, Decides, Decided, Closed
  <2> QED
    BY <2>3, <2>4
<1>8. CASE SendRollback
  <2>1. Send("rollback", "rollback", "RollbackTransition", "awaitOld")
    BY <1>8 DEF SendRollback
  <2>2. Agreed'
    BY <2>1, Sent DEF Sending, Waits, Asks, Decides, Fits
  <2> QED
    BY <2>1, <2>2 DEF Send, Decided, Closed
<1>9. CASE OldRestored
  <2>1. /\ Hear("awaitOld", "oldRestored")
        /\ client' = [c EXCEPT !.phase = "Finished", !.at = "closing", !.outcome = "restored"]
    BY <1>9 DEF OldRestored
  <2>2. /\ UNCHANGED holder /\ wire'.command = "none" /\ wire'.marker = "none"
        /\ client.at = "awaitOld" /\ wire.command = "none"
        /\ HolderGone /\ holder.phase = "PriorRestored"
    BY <2>1, Hearing DEF Waits, Marker, Answers, LastMarker
  <2> QED
    BY <2>1, <2>2, EndsNext DEF Closed, Decided
<1>10. CASE OldFailed
  <2>1. /\ Hear("awaitOld", "oldFailed")
        /\ client' = [c EXCEPT !.phase = "ReplacementFailedStopped", !.at = "closing",
                               !.outcome = "failed"]
    BY <1>10 DEF OldFailed
  <2>2. /\ UNCHANGED holder /\ wire'.command = "none" /\ wire'.marker = "none"
        /\ client.at = "awaitOld" /\ wire.command = "none"
        /\ holder.at \in {"listen", "killed"} /\ holder.phase = "RollbackFailedStopped"
    BY <2>1, Hearing DEF Waits, Marker, Answers, LastMarker
  <2> QED
    BY <2>1, <2>2, EndsNext DEF Closed, Decided
<1>11. CASE SendFinish
  <2>1. Send("finish", "finish", "FinishTransition", "awaitFinal")
    BY <1>11 DEF SendFinish
  <2>2. Agreed'
    BY <2>1, Sent DEF Sending, Waits, Asks, Decides, Fits
  <2> QED
    BY <2>1, <2>2 DEF Send, Decided, Closed
<1>12. CASE FinalConfirmed
  <2>1. /\ Hear("awaitFinal", "finalConfirmed")
        /\ client' = [c EXCEPT !.phase = "FinalConfirmed", !.at = "commit"]
    BY <1>12 DEF FinalConfirmed
  <2>2. /\ UNCHANGED holder /\ wire'.command = "none" /\ wire'.marker = "none"
        /\ client.at = "awaitFinal" /\ wire.command = "none"
        /\ holder.at \in {"listen", "killed"} /\ holder.phase = "FinalConfirmed"
    BY <2>1, Hearing DEF Waits, Marker, Answers, LastMarker
  <2> QED
    BY <2>1, <2>2, DecidesNext DEF Sending, Decides, Decided, Closed
<1>13. CASE Commit
  <2>1. client.at = "commit" /\ UNCHANGED <<holder, wire>>
    BY <1>13 DEF Commit
  <2>2. client'.at = "release" /\ client'.phase = c.phase
    BY <1>13 DEF Commit
  <2> QED
    BY <2>1, <2>2, Turned, DecidesNext DEF Sending, Decides, Decided
<1>14. CASE SendRelease
  <2>1. Send("release", "release", "ReleaseTransition", "awaitReleased")
    BY <1>14 DEF SendRelease
  <2>2. Agreed'
    BY <2>1, Sent DEF Sending, Waits, Asks, Decides, Fits
  <2> QED
    BY <2>1, <2>2 DEF Send, Decided, Closed
<1>15. CASE Released
  <2>1. Hear("awaitReleased", "released") /\ client' = [c EXCEPT !.phase = "Finished", !.at = "closing"]
    BY <1>15 DEF Released
  <2>2. /\ UNCHANGED holder /\ wire'.command = "none" /\ wire'.marker = "none"
        /\ client.at = "awaitReleased" /\ wire.command = "none"
        /\ HolderGone /\ holder.phase = "FinalConfirmed"
    BY <2>1, Hearing DEF Waits, Marker, Answers, LastMarker
  <2> QED
    BY <2>1, <2>2, EndsNext DEF Closed, Decided
<1>16. CASE SendAbort
  <2>1. Send("abort", "abort", "AbortTransition", "awaitAbort")
    BY <1>16 DEF SendAbort
  <2>2. Agreed'
    BY <2>1, Sent DEF Sending, Waits, Asks, Decides, Fits
  <2> QED
    BY <2>1, <2>2 DEF Send, Decided, Closed
<1>17. CASE Unanswered
  <2>1. client.at # "idle" /\ UNCHANGED <<holder, wire>> /\ client'.at = "closing"
    BY <1>17 DEF Unanswered, ByClient, Waiting, Waits
  <2> QED
    BY <2>1, EndsNext DEF Closed, Decided
<1>18. CASE CloseAndWait
  <2>1. client.at # "idle" /\ UNCHANGED <<holder, wire>> /\ client'.at = "closed"
    BY <1>18 DEF CloseAndWait, Go, ByClient
  <2> QED
    BY <2>1, EndsNext DEF Closed, Decided
<1>19. CASE GiveUp
  <2>1. /\ client.at = "awaitReady" /\ ~ HolderGone /\ UNCHANGED wire /\ client'.at = "closing"
        /\ holder' = [holder EXCEPT !.at = "killed", !.absence = FALSE]
    BY <1>19 DEF GiveUp, Close
  <2>2. holder'.at = "killed" /\ holder'.phase = holder.phase
    BY <2>1 DEF TypeOK, HolderRecord
  <2> QED
    BY <2>1, <2>2 DEF Agreed, IdleTurn, HolderTurn, ClientTurn, Called, Answered, Decided,
         Waiting, Waits, Sending, Closed
<1>20. CASE Cancel
  <2>1. client.at # "idle" /\ UNCHANGED <<holder, wire>> /\ client'.at = "closing"
    BY <1>20 DEF Cancel, Close, ByClient
  <2> QED
    BY <2>1, EndsNext DEF Closed, Decided
<1>21. CASE Panic
  <2>1. /\ UNCHANGED <<holder, wire>> /\ client.at # "idle"
        /\ \/ client' = [c EXCEPT !.at = "closing", !.outcome = "failed"]
           \/ client.at \in Sending /\ client' = [c EXCEPT !.at = Plan, !.caught = TRUE]
    BY <1>21 DEF Panic, Go, Close, ByClient, Waiting, Waits, Sending
  <2>2. CASE client'.at = "closing"
    BY <2>1, <2>2, EndsNext DEF Closed, Decided
  <2>3. CASE client'.at # "closing"
    <3>1. /\ client.at \in Sending /\ client'.at = Plan
          /\ client'.phase = c.phase /\ client'.replacement = c.replacement
      BY <2>1, <2>3
    <3>2. /\ wire.command = "none" /\ wire.marker = "none" /\ holder.at \in {"listen", "killed"}
          /\ c.phase = holder.phase /\ Decides(client.at, holder.phase)
      BY <3>1, Turned
    <3>3. CASE c.replacement \in {"Committed", "Preserved"}
      <4>1. Plan = "release" /\ c.phase = "FinalConfirmed"
        BY <2>3, <3>1, <3>3 DEF Plan
      <4> QED
        BY <2>1, <3>1, <3>2, <4>1, DecidesNext DEF Sending, Decides, Decided
    <3>4. CASE c.replacement \notin {"Committed", "Preserved"}
      <4>1. CASE c.phase \in {"NewReady", "FinalConfirmed"}
        <5>1. Plan = "abort"
          BY <3>4, <4>1 DEF Plan
        <5> QED
          BY <2>1, <3>1, <3>2, <3>4, <4>1, <5>1, DecidesNext DEF Sending, Decides, Decided
      <4>2. CASE c.phase \notin {"NewReady", "FinalConfirmed"}
        <5>1. Plan \in {"rollbackExecutable", "rollback"}
          BY <3>4, <4>2 DEF Plan, AfterStop
        <5>2. c.phase \in {"Stopped", "ReplacementFailedStopped"}
          BY <3>1, <3>2, <4>2 DEF Decides, Sending
        <5> QED
          BY <2>1, <3>1, <3>2, <3>4, <5>1, <5>2, DecidesNext DEF Sending, Decides, Decided
      <4> QED
        BY <4>1, <4>2
    <3> QED
      BY <3>3, <3>4
  <2> QED
    BY <2>2, <2>3
<1>22. CASE ClientDies
  <2>1. client.at # "idle" /\ UNCHANGED <<holder, wire>> /\ client'.at = "dead"
    BY <1>22 DEF ClientDies, Go, ByClient
  <2> QED
    BY <2>1, EndsNext DEF Closed, Decided
<1> QED
  BY <1>1, <1>2, <1>3, <1>4, <1>5, <1>6, <1>7, <1>8, <1>9, <1>10, <1>11,
     <1>12, <1>13, <1>14, <1>15, <1>16, <1>17, <1>18, <1>19, <1>20, <1>21, <1>22 DEF ClientActs, ClientStep

----------------------------------------------------------------------------
(* The daemons.                                                             *)
Gone == {"leaving", "dead"}

(* A step of the system, as a daemon sees it.                               *)
Later(g) ==
  /\ daemon[g].at # "unborn" => daemon'[g].at # "unborn" /\ daemon'[g].image = daemon[g].image
  /\ daemon[g].at \in Gone => daemon'[g].at \in Gone
  /\ daemon[g].at = "running" => daemon'[g].at \in {"running"} \cup Gone
  /\ daemon'[g].at = "running" =>
       daemon[g].at = "running" \/ (Owner = {} /\ ~ holder.absence /\ Set(g, "running"))

LEMMA SetAges ==
  ASSUME TypeOK, NEW g \in Gen, NEW at \in DaemonAt \ {"unborn"}, Set(g, at),
         at = "running" => LockFree,
         daemon[g].at = "running" => at \in Gone, daemon[g].at \in Gone => at \in Gone
  PROVE  \A k \in Gen : Later(k)
<1>1. TAKE k \in Gen
<1>2. daemon \in [Gen -> DaemonRecord] /\ daemon' = [daemon EXCEPT ![g] = [daemon[g] EXCEPT !.at = at]]
  BY DEF TypeOK, Set
<1>3. CASE k # g
  BY <1>2, <1>3 DEF Later, Gone
<1>4. CASE k = g
  <2>1. daemon'[k].at = at /\ daemon'[k].image = daemon[k].image
    BY <1>2, <1>4 DEF DaemonRecord
  <2> QED
    BY <2>1, <1>4 DEF Later, LockFree
<1> QED
  BY <1>3, <1>4

LEMMA AskAges ==
  ASSUME TypeOK, NEW g, daemon' = [daemon EXCEPT ![g].asked = TRUE]
  PROVE  \A k \in Gen : Later(k)
<1>1. TAKE k \in Gen
<1>2. daemon \in [Gen -> DaemonRecord] /\ daemon' = [daemon EXCEPT ![g] = [daemon[g] EXCEPT !.asked = TRUE]]
  BY DEF TypeOK
<1>3. daemon'[k].at = daemon[k].at /\ daemon'[k].image = daemon[k].image
  BY <1>2 DEF DaemonRecord
<1> QED
  BY <1>3 DEF Later, Gone

LEMMA BirthAges ==
  ASSUME TypeOK, Spare # {},
         daemon' = [daemon EXCEPT ![Fresh] = [at |-> "starting", image |-> image, asked |-> FALSE]]
  PROVE  \A k \in Gen : Later(k)
<1>1. TAKE k \in Gen
<1>2. /\ daemon \in [Gen -> DaemonRecord] /\ Fresh \in Gen /\ daemon[Fresh].at = "unborn"
  BY FreshIs DEF TypeOK
<1>3. CASE k # Fresh
  BY <1>2, <1>3 DEF Later, Gone
<1>4. CASE k = Fresh
  BY <1>2, <1>4 DEF Later, Gone
<1> QED
  BY <1>3, <1>4

LEMMA StillAges ==
  ASSUME UNCHANGED daemon
  PROVE  \A k \in Gen : Later(k)
BY DEF Later, Gone

DaemonActs == Foreground \/ \E g \in Gen : DaemonStep(g) \/ DaemonDies(g)
HolderActs == HolderStep \/ HolderDies

LEMMA DaemonsAge ==
  ASSUME TypeOK, DaemonActs
  PROVE  /\ daemon' \in [Gen -> DaemonRecord] /\ pidfile' \in Generation
         /\ \A k \in Gen : Later(k)
         /\ UNCHANGED <<image, saved, client, holder, wire>>
         /\ foreign' \in Nat /\ faults' \in Nat
<1>1. CASE Foreground
  <2>1. /\ Spare # {} /\ foreign' = foreign + 1
        /\ daemon' = [daemon EXCEPT ![Fresh] = [at |-> "starting", image |-> image, asked |-> FALSE]]
        /\ UNCHANGED <<pidfile, image, saved, client, holder, wire, faults>>
    BY <1>1 DEF Foreground
  <2>2. daemon' \in [Gen -> DaemonRecord]
    BY <2>1, BirthTyped
  <2>3. \A k \in Gen : Later(k)
    BY <2>1, BirthAges
  <2> QED
    BY <2>1, <2>2, <2>3 DEF TypeOK
<1>2. ASSUME NEW g \in Gen, DaemonStep(g) \/ DaemonDies(g)
      PROVE  /\ daemon' \in [Gen -> DaemonRecord] /\ pidfile' \in Generation
             /\ \A k \in Gen : Later(k)
             /\ UNCHANGED <<image, saved, client, holder, wire>>
             /\ foreign' \in Nat /\ faults' \in Nat
  <2>1. /\ UNCHANGED <<image, saved, client, holder, wire, foreign>>
        /\ pidfile' \in {pidfile, g, 0} /\ (Fault \/ Unfaulted)
    BY <1>2 DEF DaemonStep, Publish, Obey, Leave, DaemonDies, Unfaulted
  <2>2. PICK at \in DaemonAt \ {"unborn"} :
          /\ Set(g, at) /\ (at = "running" => LockFree)
          /\ daemon[g].at = "running" => at \in Gone
          /\ daemon[g].at \in Gone => at \in Gone
    <3>1. CASE Publish(g)
      BY <3>1 DEF Publish, DaemonAt, Gone
    <3>2. CASE Obey(g)
      BY <3>2 DEF Obey, DaemonAt, Gone
    <3>3. CASE Leave(g)
      BY <3>3 DEF Leave, DaemonAt, Gone
    <3>4. CASE DaemonDies(g)
      BY <3>4 DEF DaemonDies, DaemonAt, Gone
    <3> QED
      BY <1>2, <3>1, <3>2, <3>3, <3>4 DEF DaemonStep
  <2>3. daemon' \in [Gen -> DaemonRecord]
    BY <2>2, SetTyped
  <2>4. \A k \in Gen : Later(k)
    BY <2>2, SetAges
  <2>5. pidfile' \in Generation /\ foreign' \in Nat /\ faults' \in Nat
    BY <2>1, FaultIs DEF TypeOK, Generation
  <2> QED
    BY <2>1, <2>3, <2>4, <2>5
<1> QED
  BY <1>1, <1>2 DEF DaemonActs

LEMMA HolderAges ==
  ASSUME TypeOK, Launched, HolderActs
  PROVE  /\ daemon' \in [Gen -> DaemonRecord]
         /\ \A k \in Gen : Later(k)
<1>1. CASE IssueStop
  <2>1. UNCHANGED daemon \/ daemon' = [daemon EXCEPT ![holder.target].asked = TRUE]
    BY <1>1 DEF IssueStop
  <2> QED
    BY <2>1, AskTyped, AskAges, StillAges DEF TypeOK
<1>2. CASE Launch
  <2>1. \/ UNCHANGED daemon
        \/ /\ Spare # {}
           /\ daemon' = [daemon EXCEPT ![Fresh] = [at |-> "starting", image |-> image, asked |-> FALSE]]
    BY <1>2 DEF Launch
  <2> QED
    BY <2>1, BirthTyped, BirthAges, StillAges DEF TypeOK
<1>3. CASE AwaitStarted
  <2>1. holder.child \in Gen /\ (UNCHANGED daemon \/ Set(holder.child, "dead"))
    BY <1>3 DEF AwaitStarted, Launched, Bears
  <2>2. CASE Set(holder.child, "dead")
    BY <2>1, <2>2, SetTyped, SetAges DEF DaemonAt, Gone
  <2> QED
    BY <2>1, <2>2, StillAges DEF TypeOK
<1>4. CASE ~ (IssueStop \/ Launch \/ AwaitStarted)
  <2>1. UNCHANGED daemon
    BY <1>4 DEF HolderActs, HolderStep, Capture, Settle, Acquire, Observe, Reestablish,
         AbsentAnnounced, AbsentAfterVerify, AbsentRefused, AbsentFinally, AbsentPutBack,
         AbsentFor, ReleaseAbsence, CheckStarted, Verify, Listen, HangUp, Finalize,
         HolderDies, Quiet
  <2> QED
    BY <2>1, StillAges DEF TypeOK
<1> QED
  BY <1>1, <1>2, <1>3, <1>4

LEMMA OneOwnerKept ==
  ASSUME TypeOK, OneOwner, \A k \in Gen : Later(k)
  PROVE  OneOwner'
<1>1. SUFFICES ASSUME NEW g \in Gen, NEW h \in Gen,
                      daemon'[g].at = "running", daemon'[h].at = "running", g # h
               PROVE  FALSE
  BY DEF OneOwner, Gen
<1>2. ASSUME NEW k \in Gen, NEW l \in Gen, k # l, daemon'[l].at = "running",
             Owner = {}, Set(k, "running")
      PROVE  FALSE
  <2>1. daemon'[l] = daemon[l]
    BY <1>2 DEF Set, TypeOK
  <2> QED
    BY <1>2, <2>1 DEF Owner
<1>3. daemon[g].at = "running" /\ daemon[h].at = "running"
  BY <1>1, <1>2 DEF Later
<1> QED
  BY <1>1, <1>3 DEF OneOwner

LEMMA BearsKept ==
  ASSUME NEW g, Bears(g), \A k \in Gen : Later(k), UNCHANGED image
  PROVE  g \in Gen /\ daemon'[g].at # "unborn" /\ daemon'[g].image = image'
BY DEF Bears, Later

LEMMA RelaunchedKept ==
  ASSUME TypeOK, Relaunched, \A k \in Gen : Later(k), UNCHANGED image,
         holder'.initial = holder.initial, holder'.restarted = holder.restarted,
         holder'.child = holder.child
  PROVE  Relaunched'
<1>1. Bears(holder.restarted) => Bears(holder.restarted)'
  BY BearsKept DEF Bears, Gen
<1>2. ChildGone => ChildGone'
  BY DEF ChildGone, Later, Gone, Gen
<1> QED
  BY <1>1, <1>2 DEF Relaunched, Bears

LEMMA DaemonsKeep ==
  ASSUME IInv, DaemonActs
  PROVE  IInv'
<1>1. /\ daemon' \in [Gen -> DaemonRecord] /\ pidfile' \in Generation
      /\ \A k \in Gen : Later(k)
      /\ UNCHANGED <<image, saved, client, holder, wire>>
      /\ foreign' \in Nat /\ faults' \in Nat
  BY DaemonsAge DEF IInv
<1>2. TypeOK'
  BY <1>1 DEF IInv, TypeOK
<1>3. Agreed' /\ Decided' /\ HolderFits'
  BY <1>1 DEF IInv, Agreed, IdleTurn, HolderTurn, ClientTurn, Called, Answered, Decided, HolderFits,
              Waiting, HolderGone
<1>4. OneOwner'
  BY <1>1, OneOwnerKept DEF IInv, Restarts
<1>5. Relaunched => Relaunched'
  BY <1>1, RelaunchedKept DEF IInv
<1>6. Launched'
  <2>1. Bears(holder.child) => Bears(holder.child)'
    BY <1>1, BearsKept DEF Bears, Gen
  <2>2. holder.child \in Gen /\ daemon[holder.child].at \in {"running", "leaving", "dead"} =>
          daemon'[holder.child].at \in {"running", "leaving", "dead"}
    BY <1>1 DEF Later, Gone
  <2> QED
    BY <1>1, <2>1, <2>2 DEF IInv, Restarts, Launched, Bears
<1>7. Confirmed' /\ Reported'
  BY <1>1, <1>5 DEF IInv, Restarts, Confirmed, Reported, Waiting, HolderGone
<1> QED
  BY <1>2, <1>3, <1>4, <1>6, <1>7 DEF IInv, Restarts

------------------------------------------------------------------------------
(* The client touches the executable and the pipes.                          *)
LEMMA ClientEffects ==
  ASSUME TypeOK, ClientActs
  PROVE  /\ UNCHANGED <<daemon, pidfile, foreign>> /\ (Fault \/ Unfaulted)
         /\ image' \in {"old", "new"} /\ saved' \in BOOLEAN
         /\ image' # image => client.at \in {"download", "rollbackExecutable"}
         /\ wire' \in [command : {"none", "new", "rollback", "finish", "abort", "release"},
                       marker : {"none"} \cup Marker]
         /\ wire'.marker \in {wire.marker, "none"}
         /\ \/ UNCHANGED holder
            \/ \E at \in {"capture", "killed"}, absence \in {holder.absence, FALSE} :
                 holder' = [holder EXCEPT !.at = at, !.absence = absence]
<1>0. PICK w \in [command : {"none", "new", "rollback", "finish", "abort", "release"},
                  marker : {"none"} \cup Marker] : w = wire
  BY DEF TypeOK
<1> USE <1>0 DEF ByClient, ClientOnly
<1>t. image \in {"old", "new"} /\ saved \in BOOLEAN
  BY DEF TypeOK
<1>1. CASE Start
  <2>1. /\ UNCHANGED <<daemon, pidfile, foreign, image, saved, wire>> /\ Unfaulted
        /\ holder' = [holder EXCEPT !.at = "capture"]
    BY <1>1 DEF Start, Step
  <2>2. holder' = [holder EXCEPT !.at = "capture", !.absence = holder.absence]
    BY <2>1 DEF TypeOK, HolderRecord
  <2> QED
    BY <1>t, <2>1, <2>2
<1>2. CASE Ready
  BY <1>t, <1>2 DEF Ready, Hear, Go
<1>3. CASE Download
  BY <1>t, <1>3 DEF Download, Go
<1>4. CASE SendNew
  BY <1>t, <1>4 DEF SendNew, Send
<1>5. CASE NewReady
  BY <1>t, <1>5 DEF NewReady, Hear
<1>6. CASE NewStopped
  BY <1>t, <1>6 DEF NewStopped, AfterStop, Hear
<1>7. CASE RollbackExecutable
  BY <1>t, <1>7 DEF RollbackExecutable
<1>8. CASE SendRollback
  BY <1>t, <1>8 DEF SendRollback, Send
<1>9. CASE OldRestored
  BY <1>t, <1>9 DEF OldRestored, Hear
<1>10. CASE OldFailed
  BY <1>t, <1>10 DEF OldFailed, Hear
<1>11. CASE SendFinish
  BY <1>t, <1>11 DEF SendFinish, Send
<1>12. CASE FinalConfirmed
  BY <1>t, <1>12 DEF FinalConfirmed, Hear
<1>13. CASE Commit
  BY <1>t, <1>13 DEF Commit
<1>14. CASE SendRelease
  BY <1>t, <1>14 DEF SendRelease, Send
<1>15. CASE Released
  BY <1>t, <1>15 DEF Released, Hear
<1>16. CASE SendAbort
  BY <1>t, <1>16 DEF SendAbort, Send
<1>17. CASE Unanswered
  BY <1>t, <1>17 DEF Unanswered
<1>18. CASE CloseAndWait
  BY <1>t, <1>18 DEF CloseAndWait, Go
<1>19. CASE GiveUp
  BY <1>t, <1>19 DEF GiveUp, Close
<1>20. CASE Cancel
  BY <1>t, <1>20 DEF Cancel, Close
<1>21. CASE Panic
  BY <1>t, <1>21 DEF Panic, Go, Close, Plan, AfterStop
<1>22. CASE ClientDies
  BY <1>t, <1>22 DEF ClientDies, Go
<1> QED
  BY <1>1, <1>2, <1>3, <1>4, <1>5, <1>6, <1>7, <1>8, <1>9, <1>10, <1>11,
     <1>12, <1>13, <1>14, <1>15, <1>16, <1>17, <1>18, <1>19, <1>20, <1>21, <1>22 DEF ClientActs, ClientStep

LEMMA ClientMoves ==
  ASSUME TypeOK, Agreed, Decided, ClientActs
  PROVE  /\ client'.at \in Waits => client.at \in Sending \cup {"idle"}
         /\ client.at \in Closed => client'.at \in Closed
         /\ client'.outcome = "restored" => OldRestored \/ client.outcome = "restored"
         /\ client'.outcome \in {"restored", "updated"} /\ client'.at \in {"closing", "closed"} =>
              OldRestored \/ Released \/ CloseAndWait
<1>0. PICK c \in ClientRecord : c = client
  BY DEF TypeOK
<1> USE <1>0 DEF ClientRecord, Sending, Waits, Closed
<1>1. CASE Start
  BY <1>1 DEF Start, Go, Step
<1>2. CASE Ready
  BY <1>2 DEF Ready, Hear, Go
<1>3. CASE Download
  BY <1>3 DEF Download, Go
<1>4. CASE SendNew
  BY <1>4 DEF SendNew, Send
<1>5. CASE NewReady
  BY <1>5 DEF NewReady, Hear
<1>6. CASE NewStopped
  BY <1>6 DEF NewStopped, AfterStop, Hear
<1>7. CASE RollbackExecutable
  BY <1>7 DEF RollbackExecutable
<1>8. CASE SendRollback
  BY <1>8 DEF SendRollback, Send
<1>9. CASE OldRestored
  BY <1>9 DEF OldRestored, Hear
<1>10. CASE OldFailed
  BY <1>10 DEF OldFailed, Hear
<1>11. CASE SendFinish
  BY <1>11 DEF SendFinish, Send
<1>12. CASE FinalConfirmed
  BY <1>12 DEF FinalConfirmed, Hear
<1>13. CASE Commit
  BY <1>13 DEF Commit
<1>14. CASE SendRelease
  BY <1>14 DEF SendRelease, Send
<1>15. CASE Released
  BY <1>15 DEF Released, Hear
<1>16. CASE SendAbort
  BY <1>16 DEF SendAbort, Send
<1>17. CASE Unanswered
  BY <1>17 DEF Unanswered
<1>18. CASE CloseAndWait
  BY <1>18 DEF CloseAndWait, Go
<1>19. CASE GiveUp
  BY <1>19 DEF GiveUp, Close
<1>20. CASE Cancel
  BY <1>20 DEF Cancel, Close
<1>21. CASE Panic
  <2>1. \/ client' = [c EXCEPT !.at = "closing", !.outcome = "failed"]
        \/ client.at \in Sending /\ client' = [c EXCEPT !.at = Plan, !.caught = TRUE]
    BY <1>21 DEF Panic, Go, Close
  <2>2. CASE client' = [c EXCEPT !.at = "closing", !.outcome = "failed"]
    BY <1>21, <2>2 DEF Panic, Waiting
  <2>3. CASE client.at \in Sending /\ client' = [c EXCEPT !.at = Plan, !.caught = TRUE]
    <3>1. c.phase = holder.phase /\ Decides(c.at, c.phase)
      BY <2>3, Turned
    <3>2. Plan \in Sending
      BY <2>3, <3>1 DEF Plan, AfterStop, Decided, Decides
    <3>3. client'.at \in Sending /\ client'.outcome = c.outcome /\ c.at \in Sending
      BY <2>3, <3>2
    <3> QED
      BY <3>3
  <2> QED
    BY <2>1, <2>2, <2>3
<1>22. CASE ClientDies
  BY <1>22 DEF ClientDies, Go
<1> QED
  BY <1>1, <1>2, <1>3, <1>4, <1>5, <1>6, <1>7, <1>8, <1>9, <1>10, <1>11,
     <1>12, <1>13, <1>14, <1>15, <1>16, <1>17, <1>18, <1>19, <1>20, <1>21, <1>22 DEF ClientActs, ClientStep

LEMMA ClientKeeps ==
  ASSUME IInv, ClientActs
  PROVE  IInv'
<1>1. /\ UNCHANGED <<daemon, pidfile, foreign>> /\ (Fault \/ Unfaulted)
      /\ image' \in {"old", "new"} /\ saved' \in BOOLEAN
      /\ image' # image => client.at \in {"download", "rollbackExecutable"}
      /\ wire' \in [command : {"none", "new", "rollback", "finish", "abort", "release"},
                    marker : {"none"} \cup Marker]
      /\ wire'.marker \in {wire.marker, "none"}
      /\ \/ UNCHANGED holder
         \/ \E at \in {"capture", "killed"}, absence \in {holder.absence, FALSE} :
              holder' = [holder EXCEPT !.at = at, !.absence = absence]
  BY ClientEffects DEF IInv
<1>2. /\ client'.at \in Waits => client.at \in Sending \cup {"idle"}
      /\ client.at \in Closed => client'.at \in Closed
      /\ client'.outcome = "restored" => OldRestored \/ client.outcome = "restored"
      /\ client'.outcome \in {"restored", "updated"} /\ client'.at \in {"closing", "closed"} =>
           OldRestored \/ Released \/ CloseAndWait
  BY ClientMoves DEF IInv
<1>3. /\ holder' \in HolderRecord
      /\ holder'.initial = holder.initial /\ holder'.restarted = holder.restarted
      /\ holder'.child = holder.child
      /\ holder' = holder \/ holder'.at \in {"capture", "killed"}
      /\ holder'.phase = holder.phase /\ holder'.job = holder.job
      /\ holder'.final = holder.final /\ holder'.expect = holder.expect
  <2>1. PICK h \in HolderRecord : h = holder
    BY DEF IInv, TypeOK
  <2>2. CASE UNCHANGED holder
    BY <2>1, <2>2
  <2>3. CASE \E at \in {"capture", "killed"}, absence \in {h.absence, FALSE} :
               holder' = [h EXCEPT !.at = at, !.absence = absence]
    <3>1. PICK at \in {"capture", "killed"}, absence \in BOOLEAN :
                 holder' = [h EXCEPT !.at = at, !.absence = absence]
      <4>1. {h.absence, FALSE} \subseteq BOOLEAN
        BY <2>1 DEF HolderRecord
      <4>2. PICK at \in {"capture", "killed"}, absence \in {h.absence, FALSE} :
                   holder' = [h EXCEPT !.at = at, !.absence = absence]
        BY <2>3
      <4> QED
        BY <4>1, <4>2
    <3>2. at \in HolderAt
      BY DEF HolderAt
    <3>3. holder' \in HolderRecord
      BY <3>1, <3>2 DEF HolderRecord
    <3> QED
      BY <2>1, <3>1, <3>3 DEF HolderRecord
  <2> QED
    BY <1>1, <2>1, <2>2, <2>3
<1>4. TypeOK'
  BY <1>1, <1>3, ClientTyped, FaultIs DEF IInv, TypeOK
<1>5. Agreed' /\ Decided'
  BY ClientAgrees DEF IInv
<1>6. HolderFits'
  BY <1>3 DEF IInv, HolderFits
<1>7. image' # image => /\ holder.at \in {"listen", "killed"}
                        /\ holder.phase \in {"Stopped", "ReplacementFailedStopped"}
                        /\ client.outcome # "restored"
  <2>1. ASSUME image' # image
        PROVE  client.at \in Sending /\ client.at \in {"download", "rollbackExecutable"}
    BY <1>1, <2>1 DEF Sending
  <2> QED
    BY <2>1, Turned DEF IInv, Decides, Restarts, Reported, Sending, Closed
<1>8. \A k \in Gen : Later(k)
  BY <1>1, StillAges
<1>9. UNCHANGED image /\ Relaunched => Relaunched'
  BY <1>3, <1>8, RelaunchedKept DEF IInv
<1>10. OneOwner'
  BY <1>8, OneOwnerKept DEF IInv, Restarts
<1>11. Launched'
  BY <1>1, <1>3, <1>7 DEF IInv, Restarts, Launched, Bears
<1>12. Confirmed'
  <2>1. holder'.at = "verify" /\ ~ holder'.final => Relaunched'
    BY <1>3, <1>7, <1>9 DEF IInv, Restarts, Confirmed
  <2>2. holder'.at = "listen" /\ holder'.phase \in {"NewReady", "FinalConfirmed"} => Relaunched'
    BY <1>3, <1>7, <1>9 DEF IInv, Restarts, Confirmed
  <2>3. client'.at \in Waits => wire'.marker = "none"
    BY <1>1, <1>2, Turned DEF IInv, Agreed, IdleTurn
  <2> QED
    BY <2>1, <2>2, <2>3 DEF Confirmed, Waiting, LastMarker
<1>13. Reported'
  <2>1. CASE OldRestored
    <3>1. /\ Hear("awaitOld", "oldRestored") /\ UNCHANGED <<image, holder>>
          /\ client' = [client EXCEPT !.phase = "Finished", !.at = "closing", !.outcome = "restored"]
      BY <2>1 DEF OldRestored, Hear, ByClient
    <3>2. HolderGone /\ wire.marker = "oldRestored" /\ Waiting
      BY <3>1, Hearing DEF IInv, Waits, Marker, LastMarker, Waiting, Hear
    <3>3. client'.at = "closing"
      BY <3>1 DEF IInv, TypeOK, ClientRecord
    <3> QED
      BY <1>9, <3>1, <3>2, <3>3 DEF IInv, Restarts, Confirmed, Reported, LastMarker, HolderGone, Closed
  <2>2. CASE Released
    <3>1. /\ Hear("awaitReleased", "released") /\ UNCHANGED <<image, holder>>
          /\ client' = [client EXCEPT !.phase = "Finished", !.at = "closing"]
      BY <2>2 DEF Released, Hear, ByClient
    <3>2. HolderGone /\ wire.marker = "released" /\ Waiting
      BY <3>1, Hearing DEF IInv, Waits, Marker, LastMarker, Waiting, Hear
    <3>3. client'.outcome = client.outcome /\ client'.at = "closing" /\ client.at = "awaitReleased"
      BY <3>1 DEF IInv, TypeOK, ClientRecord, Hear
    <3> QED
      BY <1>9, <3>1, <3>2, <3>3
         DEF IInv, Restarts, Confirmed, Reported, LastMarker, HolderGone, Closed
  <2>3. CASE CloseAndWait
    <3>1. /\ UNCHANGED <<image, holder>> /\ client.at = "closing" /\ client' = [client EXCEPT !.at = "closed"]
      BY <2>3 DEF CloseAndWait, ByClient, Go
    <3>2. client'.outcome = client.outcome /\ client'.at = "closed"
      BY <3>1 DEF IInv, TypeOK, ClientRecord
    <3> QED
      BY <1>9, <3>1, <3>2 DEF IInv, Restarts, Reported, HolderGone, Closed
  <2>4. CASE ~ (OldRestored \/ Released \/ CloseAndWait)
    BY <1>2, <1>7, <2>4 DEF IInv, Restarts, Reported
  <2> QED
    BY <2>1, <2>2, <2>3, <2>4
<1> QED
  BY <1>4, <1>5, <1>6, <1>10, <1>11, <1>12, <1>13 DEF IInv, Restarts

----------------------------------------------------------------------------
(* The holder: it listens with a restarted daemon only after it verified it,*)
(* and verifies only what it has just seen run.                             *)
LEMMA HolderEffects ==
  ASSUME TypeOK, HolderFits, HolderActs
  PROVE  /\ UNCHANGED <<image, saved, client, foreign>> /\ (Fault \/ Unfaulted)
         /\ pidfile' \in Generation
         /\ wire' \in [command : {"none", "new", "rollback", "finish", "abort", "release"},
                       marker : {"none"} \cup Marker]
<1>0. PICK w \in [command : {"none", "new", "rollback", "finish", "abort", "release"},
                  marker : {"none"} \cup Marker] : w = wire
  BY DEF TypeOK
<1> USE <1>0 DEF HolderOnly, Quiet
<1>t. pidfile \in Generation /\ 0 \in Generation
  BY DEF TypeOK, Generation
<1>1. CASE Capture
  BY <1>t, <1>1 DEF Capture
<1>2. CASE IssueStop
  BY <1>t, <1>2 DEF IssueStop
<1>3. CASE Settle
  BY <1>t, <1>3 DEF Settle
<1>4. CASE Acquire
  BY <1>t, <1>4 DEF Acquire
<1>5. CASE Observe
  BY <1>t, <1>5 DEF Observe
<1>6. CASE Reestablish
  BY <1>t, <1>6 DEF Reestablish
<1>7. CASE AbsentAnnounced
  BY <1>t, <1>7 DEF AbsentAnnounced, AbsentFor, Announce, FailedMarker, FailedPhase,
       Marker
<1>8. CASE AbsentAfterVerify
  BY <1>t, <1>8 DEF AbsentAfterVerify, AbsentFor
<1>9. CASE AbsentRefused
  BY <1>t, <1>9 DEF AbsentRefused, AbsentFor
<1>10. CASE AbsentFinally
  BY <1>t, <1>10 DEF AbsentFinally, AbsentFor, Exit
<1>11. CASE AbsentPutBack
  BY <1>t, <1>11 DEF AbsentPutBack, AbsentFor, PutsBack
<1>12. CASE ReleaseAbsence
  BY <1>t, <1>12 DEF ReleaseAbsence
<1>13. CASE Launch
  BY <1>t, <1>13 DEF Launch
<1>14. CASE AwaitStarted
  BY <1>t, <1>14 DEF AwaitStarted
<1>15. CASE CheckStarted
  BY <1>t, <1>15 DEF CheckStarted
<1>16. CASE Verify
  <2>1. /\ UNCHANGED <<image, saved, client, foreign, pidfile>> /\ (Fault \/ Unfaulted)
        /\ UNCHANGED wire \/ \E marker \in Marker : wire' = [w EXCEPT !.marker = marker]
    <3>1. UNCHANGED <<image, saved, client, foreign, pidfile>> /\ (Fault \/ Unfaulted)
      BY <1>16 DEF Verify
    <3>2. CASE ~ UNCHANGED wire
      <4>1. \/ Announce(holder, "NewReady", "newReady", "listen")
            \/ Announce(holder, "PriorRestored", "oldRestored", "exited")
            \/ Announce(holder, "FinalConfirmed", "finalConfirmed", "listen")
            \/ Announce(holder, "FinalConfirmed", "released", "exited")
        BY <1>16, <3>2 DEF Verify, Exit, HolderFits
      <4> QED
        BY <3>1, <3>2, <4>1 DEF Announce, Marker
    <3> QED
      BY <3>1, <3>2
  <2> QED
    BY <1>t, <2>1
<1>17. CASE Listen
  BY <1>t, <1>17 DEF Listen
<1>18. CASE HangUp
  BY <1>t, <1>18 DEF HangUp
<1>19. CASE Finalize
  BY <1>t, <1>19 DEF Finalize, Exit, TypeOK, HolderRecord, HolderPhase
<1>20. CASE HolderDies
  BY <1>t, <1>20 DEF HolderDies
<1> QED
  BY <1>1, <1>2, <1>3, <1>4, <1>5, <1>6, <1>7, <1>8, <1>9, <1>10, <1>11, <1>12, <1>13,
       <1>14, <1>15, <1>16, <1>17, <1>18, <1>19, <1>20 DEF HolderActs, HolderStep

LEMMA Elsewhere ==
  ASSUME TypeOK, HolderFits, HolderActs,
         ~ (Launch \/ AwaitStarted \/ CheckStarted \/ Verify \/ Listen)
  PROVE  /\ holder'.at \notin {"await", "check"}
         /\ holder'.at = "verify" => holder'.final
         /\ holder'.at = "listen" => holder'.phase \notin {"NewReady", "FinalConfirmed"}
         /\ wire'.marker \in {wire.marker, "ready", "newFailed", "newStopped", "oldFailed"}
<1>0. PICK h \in HolderRecord : h = holder
  BY DEF TypeOK
<1>1. PICK w \in [command : {"none", "new", "rollback", "finish", "abort", "release"},
                  marker : {"none"} \cup Marker] : w = wire
  BY DEF TypeOK
<1> USE <1>0, <1>1 DEF HolderRecord
<1>2. CASE Capture
  BY <1>2 DEF Capture, Step, Quiet
<1>3. CASE IssueStop
  <2>1. /\ UNCHANGED wire
        /\ \/ holder' = [h EXCEPT !.at = "settle", !.stale = h.target,
                              !.requested = h.requested \/ (h.job = "stop" /\ h.target = h.initial)]
           \/ holder' = [h EXCEPT !.at = Failed, !.job = AfterFailure]
    BY <1>3 DEF IssueStop
  <2>2. holder'.at \in {"settle", Failed}
    BY <2>1
  <2>3. Failed \in {"exited", "reestablish", "finalize"}
    BY DEF Failed
  <2> QED
    BY <2>1, <2>2, <2>3
<1>4. CASE Settle
  BY <1>4 DEF Settle, Quiet
<1>5. CASE Acquire
  BY <1>5 DEF Acquire
<1>6. CASE Observe
  BY <1>6 DEF Observe, Step, Quiet
<1>7. CASE Reestablish
  BY <1>7 DEF Reestablish, Quiet
<1>8. CASE AbsentAnnounced
  <2>1. /\ ~ h.final /\ h.job \in {"stop", "new", "abort", "old"}
        /\ \/ /\ UNCHANGED wire
              /\ \/ holder' = [h EXCEPT !.doubts = FALSE, !.restarted = 0, !.at = "finalize"]
                 \/ holder' = [h EXCEPT !.doubts = FALSE, !.restarted = 0, !.phase = FailedPhase[h.job], !.at = "finalize"]
           \/ /\ wire' = [w EXCEPT !.marker = FailedMarker[h.job]]
              /\ holder' = [h EXCEPT !.doubts = FALSE, !.restarted = 0, !.phase = FailedPhase[h.job], !.at = "listen",
                                !.absence = h.absence /\ TRUE]
    BY <1>8 DEF AbsentAnnounced, AbsentFor, Settled, Announce, FailedPhase
  <2>2. /\ FailedPhase[h.job] \notin {"NewReady", "FinalConfirmed"}
        /\ FailedMarker[h.job] \in {"ready", "newFailed", "newStopped", "oldFailed"}
    BY <2>1 DEF FailedPhase, FailedMarker
  <2>3. \/ UNCHANGED wire /\ holder'.at = "finalize"
        \/ /\ wire'.marker = FailedMarker[h.job]
           /\ holder'.at = "listen" /\ holder'.phase = FailedPhase[h.job]
    BY <2>1
  <2> QED
    BY <2>2, <2>3
<1>9. CASE AbsentAfterVerify
  BY <1>9 DEF AbsentAfterVerify, AbsentFor, Settled, AfterFailure
<1>10. CASE AbsentRefused
  BY <1>10 DEF AbsentRefused, AbsentFor, Settled
<1>11. CASE AbsentFinally
  BY <1>11 DEF AbsentFinally, AbsentFor, Exit
<1>12. CASE AbsentPutBack
  BY <1>12 DEF AbsentPutBack, AbsentFor, PutsBack
<1>13. CASE ReleaseAbsence
  BY <1>13 DEF ReleaseAbsence, Quiet
<1>14. CASE HangUp
  BY <1>14 DEF HangUp, Step, Quiet
<1>15. CASE Finalize
  <2>1. /\ UNCHANGED wire
        /\ \/ holder' = [h EXCEPT !.at = "exited", !.absence = FALSE, !.doubts = FALSE]
           \/ holder' = [h EXCEPT !.final = TRUE, !.job = "putBack", !.target = h.initial,
                              !.at = PutBackAt]
           \/ holder' = [h EXCEPT !.final = TRUE, !.job = "old", !.expect = "old", !.at = RestoreAt]
           \/ holder' = [h EXCEPT !.final = TRUE, !.job = "undo", !.at = "reestablish"]
           \/ holder' = [h EXCEPT !.final = TRUE, !.job = "final", !.at = "verify"]
    BY <1>15 DEF Finalize, RestorePrior, Exit, RestoreAt, PutBackAt, HolderPhase
  <2>2. {PutBackAt, RestoreAt} \subseteq {"settleRequested", "reestablish", "verify", "release"}
    BY DEF PutBackAt, RestoreAt
  <2>3. /\ holder'.at \in {"exited", PutBackAt, RestoreAt, "reestablish", "verify"}
        /\ holder'.final \/ holder'.at = "exited"
    BY <2>1
  <2> QED
    BY <2>1, <2>2, <2>3
<1>16. CASE HolderDies
  BY <1>16 DEF HolderDies, Quiet
<1> QED
  BY <1>2, <1>3, <1>4, <1>5, <1>6, <1>7, <1>8, <1>9, <1>10, <1>11, <1>12, <1>13, <1>14,
       <1>15, <1>16 DEF HolderActs, HolderStep

LEMMA HolderActsFrom ==
  ASSUME TypeOK, HolderFits, HolderActs
  PROVE  holder.at \notin {"unborn", "exited", "killed"}
BY HolderSorts DEF HolderActs, Internal, Answering, Busy, Listen

(* The fields of the holder that say what it has launched.                  *)
SameLaunch == /\ holder'.initial = holder.initial /\ holder'.restarted = holder.restarted
              /\ holder'.child = holder.child

LEMMA VerifyForms ==
  ASSUME TypeOK, HolderFits, Verify
  PROVE  /\ holder.at = "verify" /\ SameLaunch /\ holder'.at \notin {"await", "check", "verify"}
         /\ UNCHANGED <<image, client>>
         /\ \/ UNCHANGED wire /\ holder'.at # "listen"
            \/ /\ ~ holder.final /\ holder'.at \in {"listen", "exited"}
               /\ wire'.marker = "oldRestored" => image = "old"
<1>0. PICK h \in HolderRecord : h = holder
  BY DEF TypeOK
<1>1. PICK w \in [command : {"none", "new", "rollback", "finish", "abort", "release"},
                  marker : {"none"} \cup Marker] : w = wire
  BY DEF TypeOK
<1> USE <1>0, <1>1 DEF HolderRecord
<1>2. UNCHANGED <<image, client>> /\ h.at = "verify"
  BY DEF Verify, HolderOnly
<1>3. \/ holder' = VerifyFailed /\ UNCHANGED wire
      \/ Exit
      \/ /\ ~ h.final
         /\ \/ Announce(holder, "NewReady", "newReady", "listen")
            \/ FinalState /\ h.expect = "old" /\ Announce(holder, "PriorRestored", "oldRestored", "exited")
            \/ Announce(holder, "FinalConfirmed", "finalConfirmed", "listen")
            \/ Announce(holder, "FinalConfirmed", "released", "exited")
  BY DEF Verify, HolderFits
<1>4. CASE holder' = VerifyFailed /\ UNCHANGED wire
  <2>1. holder' = [h EXCEPT !.at = "reestablish", !.job = VerifyJob]
    BY <1>4 DEF VerifyFailed, VerifyJob
  <2>2. holder'.at = "reestablish" /\ SameLaunch
    BY <2>1 DEF SameLaunch
  <2> QED
    BY <1>2, <1>4, <2>2
<1>5. CASE Exit
  <2>1. holder'.at = "exited" /\ SameLaunch /\ UNCHANGED wire
    BY <1>5 DEF Exit, SameLaunch
  <2> QED
    BY <1>2, <2>1
<1>6. ASSUME NEW phase, NEW marker, NEW next \in {"listen", "exited"}, ~ h.final,
             Announce(holder, phase, marker, next)
      PROVE  /\ holder'.at \in {"finalize", next} /\ SameLaunch
             /\ \/ UNCHANGED wire /\ holder'.at = "finalize"
                \/ wire'.marker = marker /\ holder'.at = next
  <2>1. \/ UNCHANGED wire /\ holder' = [h EXCEPT !.phase = phase, !.at = "finalize"]
        \/ /\ wire' = [w EXCEPT !.marker = marker]
           /\ holder' = [h EXCEPT !.phase = phase, !.at = next, !.absence = h.absence /\ next # "exited"]
    BY <1>6 DEF Announce
  <2> QED
    BY <2>1 DEF SameLaunch
<1>7. CASE /\ ~ h.final
           /\ \/ Announce(holder, "NewReady", "newReady", "listen")
              \/ Announce(holder, "FinalConfirmed", "finalConfirmed", "listen")
              \/ Announce(holder, "FinalConfirmed", "released", "exited")
  BY <1>2, <1>6, <1>7
<1>8. CASE ~ h.final /\ FinalState /\ h.expect = "old"
             /\ Announce(holder, "PriorRestored", "oldRestored", "exited")
  BY <1>2, <1>6, <1>8 DEF FinalState
<1> QED
  BY <1>3, <1>4, <1>5, <1>7, <1>8

LEMMA ListenForms ==
  ASSUME TypeOK, HolderFits, Agreed, Confirmed, Listen
  PROVE  /\ holder.at = "listen" /\ SameLaunch /\ holder'.at \notin {"await", "check", "listen"}
         /\ UNCHANGED <<image, client, daemon>> /\ wire'.marker = wire.marker
         /\ holder'.at = "verify" => Relaunched
<1>0. PICK h \in HolderRecord : h = holder
  BY DEF TypeOK
<1>1. PICK w \in [command : {"none", "new", "rollback", "finish", "abort", "release"},
                  marker : {"none"} \cup Marker] : w = wire
  BY DEF TypeOK
<1> USE <1>0, <1>1 DEF HolderRecord
<1>2. /\ UNCHANGED <<image, client, daemon>> /\ wire' = [w EXCEPT !.command = "none"]
      /\ h.at = "listen" /\ w.command # "none" /\ Fits(w.command, h.phase)
      /\ holder' = Told(w.command)
  BY DEF Listen, HolderOnly, Agreed, Called
<1>3. w.command \in {"finish", "release"} => Relaunched
  BY <1>2 DEF Fits, Confirmed
<1>4. \/ /\ w.command = "new"
         /\ holder' = [h EXCEPT !.phase = "ReplacementTransition", !.job = "new", !.expect = image,
                          !.at = IF h.initial = 0 THEN "verify" ELSE "release"]
      \/ /\ w.command = "rollback"
         /\ holder' = [h EXCEPT !.phase = "RollbackTransition", !.job = "old", !.expect = "old",
                          !.at = RestoreAt]
      \/ /\ w.command = "finish"
         /\ holder' = [h EXCEPT !.phase = "ReplacementTransition", !.job = "finish", !.at = "verify"]
      \/ /\ w.command = "abort"
         /\ holder' = [h EXCEPT !.phase = "ReplacementTransition", !.job = "abort", !.at = "reestablish"]
      \/ /\ w.command = "release"
         /\ holder' = [h EXCEPT !.job = "release", !.at = "verify"]
  BY <1>2 DEF Told, RestorePrior, RestoreAt, Fits
<1>5. /\ holder'.initial = h.initial /\ holder'.restarted = h.restarted
      /\ holder'.child = h.child
      /\ \/ /\ w.command \in {"new", "rollback"}
            /\ holder'.at \in {IF h.initial = 0 THEN "verify" ELSE "release", RestoreAt}
         \/ w.command \in {"finish", "release"} /\ holder'.at = "verify"
         \/ holder'.at = "reestablish"
  <2>1. CASE w.command = "new"
    <3>1. holder' = [h EXCEPT !.phase = "ReplacementTransition", !.job = "new", !.expect = image,
                        !.at = IF h.initial = 0 THEN "verify" ELSE "release"]
      BY <1>4, <2>1
    <3> QED
      BY <2>1, <3>1
  <2>2. CASE w.command = "rollback"
    BY <1>4, <2>2
  <2>3. CASE w.command \notin {"new", "rollback"}
    BY <1>4, <2>3
  <2> QED
    BY <2>1, <2>2, <2>3
<1>6. RestoreAt \in {"reestablish", "release"} \/ (RestoreAt = "verify" /\ h.initial = 0)
  BY DEF RestoreAt
<1> QED
  BY <1>2, <1>3, <1>5, <1>6 DEF Relaunched, SameLaunch

LEMMA CheckForms ==
  ASSUME TypeOK, HolderFits, OneOwner, Launched, CheckStarted
  PROVE  /\ UNCHANGED <<image, client, wire, daemon>>
         /\ holder'.at \notin {"await", "check", "listen"}
         /\ holder'.at = "verify" => Relaunched'
<1>0. PICK h \in HolderRecord : h = holder
  BY DEF TypeOK
<1> USE <1>0 DEF HolderRecord
<1>1. /\ UNCHANGED <<image, client, wire, daemon>> /\ h.at = "check"
      /\ \/ holder' = [h EXCEPT !.at = "reestablish", !.job = IF h.job = "putBack" THEN "undo" ELSE h.job]
         \/ /\ Running # 0
            /\ holder' = [h EXCEPT !.restarted = Running,
                             !.at = IF h.job = "putBack" THEN "exited" ELSE "verify"]
  BY DEF CheckStarted, StartFailed, Quiet, HolderOnly
<1>2. CASE holder' = [h EXCEPT !.at = "reestablish", !.job = IF h.job = "putBack" THEN "undo" ELSE h.job]
  <2>1. holder'.at = "reestablish"
    BY <1>2
  <2> QED
    BY <1>1, <2>1
<1>3. CASE Running # 0 /\ holder' = [h EXCEPT !.restarted = Running,
                             !.at = IF h.job = "putBack" THEN "exited" ELSE "verify"]
  <2>1. /\ holder'.at \in {"exited", "verify"} /\ holder'.restarted = Running
        /\ holder'.child = h.child /\ holder'.initial = h.initial
    BY <1>3
  <2>2. Bears(h.child) /\ daemon[h.child].at \in {"running", "leaving", "dead"} /\ h.child \in Gen
    BY <1>1 DEF Launched, Bears
  <2>3. CASE daemon[h.child].at = "running"
    <3>1. Running = h.child
      BY <1>3, <2>2, <2>3, RunningIs DEF OneOwner
    <3> QED
      BY <1>1, <2>1, <2>2, <3>1 DEF Relaunched, Bears
  <2>4. CASE daemon[h.child].at # "running"
    BY <1>1, <2>1, <2>2, <2>4 DEF Relaunched, ChildGone
  <2> QED
    BY <2>3, <2>4
<1> QED
  BY <1>1, <1>2, <1>3

LEMMA HolderRestarts ==
  ASSUME IInv, HolderActs
  PROVE  Restarts'
<1>1. /\ \A k \in Gen : Later(k)
      /\ UNCHANGED <<image, client>>
      /\ holder.at \notin {"unborn", "exited", "killed"}
  BY HolderAges, HolderEffects, HolderActsFrom DEF IInv, Restarts
<1>2. OneOwner'
  BY <1>1, OneOwnerKept DEF IInv, Restarts
<1>3. Reported'
  BY <1>1 DEF IInv, Restarts, Reported, HolderGone
<1>4. SameLaunch /\ Relaunched => Relaunched'
  BY <1>1, RelaunchedKept DEF IInv, SameLaunch
<1>5. Waiting => wire.marker \notin LastMarker
  BY <1>1 DEF IInv, Agreed, Answered, HolderGone, LastMarker
<1>6. Launched' /\ Confirmed'
  <2>1. CASE Launch
    <3>1. /\ holder.at = "launch" /\ UNCHANGED wire
          /\ \/ /\ Spare # {} /\ holder' = [holder EXCEPT !.child = Fresh, !.at = "await"]
                /\ daemon' = [daemon EXCEPT ![Fresh] = [at |-> "starting", image |-> image, asked |-> FALSE]]
             \/ holder' = StartFailed
      BY <2>1 DEF Launch
    <3>2. CASE holder' = StartFailed
      <4>1. holder'.at = "reestablish"
        BY <3>2 DEF StartFailed, IInv, TypeOK, HolderRecord
      <4> QED
        BY <1>1, <1>5, <3>1, <4>1 DEF Launched, Confirmed, Waiting, LastMarker
    <3>3. CASE Spare # {} /\ holder' # StartFailed
      <4>1. holder'.at = "await" /\ holder'.child = Fresh
        BY <3>1, <3>3 DEF IInv, TypeOK, HolderRecord
      <4>2. /\ Fresh \in Gen /\ daemon'[Fresh].at = "starting" /\ daemon'[Fresh].image = image
        BY <3>1, <3>3, FreshIs DEF IInv, TypeOK
      <4> QED
        BY <1>1, <1>5, <3>1, <4>1, <4>2 DEF Launched, Bears, Confirmed, Waiting, LastMarker
    <3> QED
      BY <3>1, <3>2, <3>3
  <2>2. CASE AwaitStarted
    <3>1. /\ holder.at = "await" /\ UNCHANGED wire
          /\ \/ /\ holder' = [holder EXCEPT !.at = "check"] /\ UNCHANGED daemon
                /\ daemon[holder.child].at = "running"
             \/ holder' = StartFailed
      BY <2>2 DEF AwaitStarted, Step
    <3>2. CASE holder' = StartFailed
      <4>1. holder'.at = "reestablish"
        BY <3>2 DEF StartFailed, IInv, TypeOK, HolderRecord
      <4> QED
        BY <1>1, <1>5, <3>1, <4>1 DEF Launched, Confirmed, Waiting, LastMarker
    <3>3. CASE holder' # StartFailed
      <4>1. holder'.at = "check" /\ holder'.child = holder.child
        BY <3>1, <3>3 DEF IInv, TypeOK, HolderRecord
      <4> QED
        BY <1>1, <1>5, <3>1, <3>3, <4>1
           DEF IInv, Restarts, Launched, Bears, Confirmed, Waiting, LastMarker
    <3> QED
      BY <3>2, <3>3
  <2>3. CASE CheckStarted
    BY <1>5, <2>3, CheckForms DEF IInv, Restarts, Launched, Confirmed, Waiting, LastMarker
  <2>4. CASE Verify
    <3>1. /\ holder.at = "verify" /\ SameLaunch /\ holder'.at \notin {"await", "check", "verify"}
          /\ \/ UNCHANGED wire /\ holder'.at # "listen"
             \/ /\ ~ holder.final /\ holder'.at \in {"listen", "exited"}
                /\ wire'.marker = "oldRestored" => image = "old"
      BY <2>4, VerifyForms DEF IInv
    <3>2. ~ holder.final => Relaunched'
      BY <1>4, <3>1 DEF IInv, Restarts, Confirmed
    <3> QED
      BY <1>1, <1>5, <3>1, <3>2 DEF Launched, Confirmed, Waiting, LastMarker
  <2>5. CASE Listen
    <3>1. /\ SameLaunch /\ holder'.at \notin {"await", "check", "listen"}
          /\ wire'.marker = wire.marker /\ (holder'.at = "verify" => Relaunched)
      BY <2>5, ListenForms DEF IInv, Restarts
    <3> QED
      BY <1>1, <1>4, <1>5, <3>1 DEF Launched, Confirmed, Waiting, LastMarker
  <2>6. CASE ~ (Launch \/ AwaitStarted \/ CheckStarted \/ Verify \/ Listen)
    <3>1. /\ holder'.at \notin {"await", "check"}
          /\ holder'.at = "verify" => holder'.final
          /\ holder'.at = "listen" => holder'.phase \notin {"NewReady", "FinalConfirmed"}
          /\ wire'.marker \in {wire.marker, "ready", "newFailed", "newStopped", "oldFailed"}
      BY <2>6, Elsewhere DEF IInv
    <3> QED
      BY <1>1, <1>5, <3>1 DEF Launched, Confirmed, Waiting, LastMarker
  <2> QED
    BY <2>1, <2>2, <2>3, <2>4, <2>5, <2>6
<1> QED
  BY <1>2, <1>3, <1>6 DEF Restarts

LEMMA HolderKeeps ==
  ASSUME IInv, HolderActs
  PROVE  IInv'
<1>1. TypeOK'
  BY HolderTyped, HolderAges, HolderEffects, FaultIs DEF IInv, Restarts, HolderActs, TypeOK
<1>2. Agreed'
  BY HolderSorts, InternalAgrees, AnsweringAgrees, ListenAgrees DEF IInv, HolderActs
<1>3. Decided'
  BY HolderEffects DEF IInv, Decided
<1>4. HolderFits'
  BY HolderKeepsFit DEF IInv, HolderActs
<1> QED
  BY <1>1, <1>2, <1>3, <1>4, HolderRestarts DEF IInv

----------------------------------------------------------------------------
LEMMA InitFits == Init => IInv
<1> SUFFICES ASSUME Init
             PROVE  IInv
  OBVIOUS
<1>1. TypeOK
  <2>1. daemon \in [Gen -> DaemonRecord] /\ pidfile \in Generation
    <3>1. Unborn \in DaemonRecord /\ [Unborn EXCEPT !.at = "running"] \in DaemonRecord
      BY DEF Unborn, DaemonRecord, DaemonAt
    <3>2. 1 \in Generation /\ 0 \in Generation
      BY BoundaryAssumption DEF Generation, Gen
    <3> QED
      BY <3>1, <3>2 DEF Init
  <2>2. client \in ClientRecord
    BY DEF Init, ClientRecord, ClientPhase
  <2>3. holder \in HolderRecord
    BY DEF Init, HolderRecord, HolderAt, HolderPhase, Job, Generation
  <2> QED
    BY <2>1, <2>2, <2>3 DEF Init, TypeOK
<1>2. Agreed /\ Decided
  BY DEF Init, Agreed, IdleTurn, HolderTurn, ClientTurn, Called, Answered, Decided, Waiting,
         Waits, Sending
<1>3. HolderFits
  BY DEF Init, HolderFits
<1>4. OneOwner
  BY DEF Init, OneOwner, Unborn
<1>5. Launched /\ Confirmed /\ Reported
  BY DEF Init, Launched, Confirmed, Reported, Waiting, Waits
<1> QED
  BY <1>1, <1>2, <1>3, <1>4, <1>5 DEF IInv, Restarts

LEMMA StepKeeps == IInv /\ [Next]_vars => IInv'
<1> SUFFICES ASSUME IInv, [Next]_vars
             PROVE  IInv'
  OBVIOUS
<1>1. CASE DaemonActs
  BY <1>1, DaemonsKeep
<1>2. CASE HolderActs
  BY <1>2, HolderKeeps
<1>3. CASE ClientActs
  BY <1>3, ClientKeeps
<1>4. CASE UNCHANGED vars
  <2>1. UNCHANGED <<daemon, pidfile, image, saved, client, holder, wire, foreign, faults>>
    BY <1>4 DEF vars
  <2>2. TypeOK' /\ Agreed' /\ Decided' /\ HolderFits'
    BY <2>1 DEF IInv, TypeOK, Agreed, IdleTurn, HolderTurn, ClientTurn, Called, Answered,
                Decided, HolderFits, Waiting, HolderGone
  <2>3. Restarts'
    BY <2>1 DEF IInv, Restarts, OneOwner, Launched, Confirmed, Reported, Relaunched, Bears,
                ChildGone, Waiting, HolderGone
  <2> QED
    BY <2>2, <2>3 DEF IInv
<1> QED
  BY <1>1, <1>2, <1>3, <1>4 DEF Next, DaemonActs, HolderActs, ClientActs

(* The inductive invariant: the client and the holder take turns, the       *)
(* absence of daemons is in hand wherever the executable may change, and    *)
(* the daemon started last runs the public image or has ended.              *)
THEOREM BoundaryInductive == Spec => []IInv
BY InitFits, StepKeeps, PTL DEF Spec

(* Every variable stays within its type.                                    *)
THEOREM BoundaryTypeCorrect == Spec => []TypeOK
<1>1. IInv => TypeOK
  BY DEF IInv
<1> QED
  BY <1>1, BoundaryInductive, PTL

(* The holder never receives a command that its phase refuses.              *)
THEOREM CommandsFitAlways == Spec => []CommandsFit
<1>1. IInv => CommandsFit
  BY DEF IInv, Agreed, Called, CommandsFit
<1> QED
  BY <1>1, BoundaryInductive, PTL

(* What an update reports is so: "restored" leaves the old image in place,  *)
(* and both reports leave a daemon that was started from the public image,  *)
(* where one ran before and the one started did not die by itself.          *)
THEOREM ReportIsTrueAlways == Spec => []ReportIsTrue
<1>1. IInv => ReportIsTrue
  BY DEF IInv, Restarts, Reported, Relaunched, Bears, ChildGone, ReportIsTrue
<1> QED
  BY <1>1, BoundaryInductive, PTL

LEMMA Guarded ==
  ASSUME IInv, Next, holder.at # "killed"
  PROVE  /\ image' # image => holder.absence
         /\ saved /\ ~ saved' /\ image' = "new" => holder.phase = "FinalConfirmed"
<1>1. CASE Download \/ RollbackExecutable
  <2>1. client.at \in Sending /\ client.at \in {"download", "rollbackExecutable"}
    BY <1>1 DEF Download, RollbackExecutable, Sending
  <2>2. /\ holder.at = "listen" /\ holder.phase \in {"Stopped", "ReplacementFailedStopped"}
    BY <2>1, Turned DEF IInv, Decides
  <2>3. saved /\ ~ saved' => image' = "old"
    BY <1>1 DEF Download, RollbackExecutable
  <2> QED
    BY <2>2, <2>3 DEF IInv, HolderFits
<1>2. CASE Commit
  <2>1. client.at = "commit" /\ UNCHANGED image
    BY <1>2 DEF Commit
  <2> QED
    BY <2>1, Turned DEF IInv, Decides, Sending
<1>3. CASE ~ (Download \/ RollbackExecutable \/ Commit)
  <2>1. UNCHANGED <<image, saved>>
    <3>1. CASE DaemonActs
      BY <3>1, DaemonsAge DEF IInv
    <3>2. CASE HolderActs
      BY <3>2, HolderEffects DEF IInv
    <3>3. CASE ClientActs
      BY <1>3, <3>3 DEF ClientActs, ClientStep, Start, Ready, SendNew, NewReady, NewStopped,
           SendRollback, OldRestored, OldFailed, SendFinish, FinalConfirmed, SendRelease, Released,
           SendAbort, Send, Hear, Unanswered, CloseAndWait, GiveUp, Cancel, Panic, ClientDies, ByClient
    <3> QED
      BY <3>1, <3>2, <3>3 DEF Next, DaemonActs, HolderActs, ClientActs
  <2> QED
    BY <2>1
<1> QED
  BY <1>1, <1>2, <1>3

(* While the holder lives, the executable changes hands only under the      *)
(* absence it keeps, and the previous one is given up only after the holder *)
(* verified the final state or with the old one back in place.              *)
THEOREM ExecutableAlwaysGuarded == Spec => ExecutableIsGuarded
<1>1. IInv /\ [Next]_vars =>
        [holder.at # "killed" =>
           /\ image' # image => holder.absence
           /\ saved /\ ~ saved' /\ image' = "new" => holder.phase = "FinalConfirmed"]_vars
  BY Guarded
<1> QED
  BY <1>1, BoundaryInductive, PTL DEF Spec, ExecutableIsGuarded
=============================================================================
