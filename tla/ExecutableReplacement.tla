------------------------ MODULE ExecutableReplacement ------------------------
(***************************************************************************)
(* Self-update's replacement of the public executable: update.rs and the   *)
(* Windows cleanup journal of update/cleanup_worker.rs.                    *)
(*                                                                         *)
(* An update copies the current executable aside, stages the candidate,    *)
(* exchanges the two names, looks at what the exchange produced, and hands *)
(* a pending replacement to its caller, which commits it or rolls it back. *)
(* Other programs may write the public path at any moment, any file        *)
(* operation may fail or take effect without being confirmed, and the      *)
(* updater, the cleanup worker and the starting commands may die.          *)
(*                                                                         *)
(* A file is a pair <<kind, n>>: its FileToken.  Only the public path has  *)
(* writers outside this program.                                           *)
(***************************************************************************)
EXTENDS Naturals, FiniteSets

CONSTANTS Attempt,     \* self-update commands, in the order they may start
          Foreign,     \* files an outside writer may put at the public path
          MaxFaults    \* failed operations and deaths in one behaviour

ASSUME AttemptAssumption == Attempt \subseteq Nat \ {0}
ASSUME FaultAssumption == MaxFaults \in Nat

VARIABLES
  platform,      \* "unix" or "windows"
  disk,          \* what each name beside the executable holds
  pc,            \* where each update is
  bound,         \* previous_token of each update
  why,           \* why an update takes its exchange back or cleans up
  want,          \* the displaced file it then puts back
  completion,    \* PendingReplacement.completion
  outcome,       \* what each update reported
  lease,         \* holder of the update lease
  clean,         \* the cleanup workers (by attempt) and the starting command (0)
  overwritten,   \* files an outside writer replaced at the public path
  faults

vars == <<platform, disk, pc, bound, why, want, completion, outcome, lease, clean,
          overwritten, faults>>

Public    == <<"public", 0>>
Backup    == <<"backup", 0>>
Staged    == <<"staged", 0>>
Journal   == <<"journal", 0>>
Aside(n)  == <<"aside", n>>
Failed(n) == <<"failed", n>>
Names     == {Public, Backup, Staged, Journal}
             \cup {Aside(n) : n \in Attempt} \cup {Failed(n) : n \in Attempt}

Absent       == <<"absent", 0>>
Installed    == <<"installed", 0>>
Copy(n)      == <<"copy", n>>
Candidate(n) == <<"candidate", n>>
Record(n)    == <<"record", n>>    \* the journal of attempt n; it names n's tokens
Torn         == <<"torn", 0>>      \* a journal that was not written to its end
ByOther(k)   == <<"foreign", k>>
Files        == {Installed, Torn} \cup {Copy(n) : n \in Attempt}
                \cup {Candidate(n) : n \in Attempt} \cup {Record(n) : n \in Attempt}
                \cup {ByOther(k) : k \in Foreign}

Updater(n) == <<"update", n>>
Cleaner(c) == <<"clean", c>>
Nobody     == <<"nobody", 0>>
Cleaners   == Attempt \cup {0}
Resting    == [at |-> "idle", of |-> 0]

OnDisk(f) == \E x \in Names : disk[x] = f

(* The displaced file goes to the staged name on Unix (an exchange) and to  *)
(* a random sibling on Windows (ReplaceFileW's backup operand).             *)
Displaced(n) == IF platform = "unix" THEN Staged ELSE Aside(n)

(* Where the candidate is once it was taken back or never published.        *)
Unused(n) == IF disk[Failed(n)] = Candidate(n) THEN Failed(n) ELSE Staged

Init ==
  /\ platform \in {"unix", "windows"}
  /\ disk = [x \in Names |-> IF x = Public THEN Installed ELSE Absent]
  /\ pc = [n \in Attempt |-> "idle"]
  /\ bound = [n \in Attempt |-> Absent]
  /\ why = [n \in Attempt |-> "none"]
  /\ want = [n \in Attempt |-> Absent]
  /\ completion = [n \in Attempt |-> "none"]
  /\ outcome = [n \in Attempt |-> "none"]
  /\ lease = Nobody
  /\ clean = [c \in Cleaners |-> Resting]
  /\ overwritten = {}
  /\ faults = 0

Goto(n, label) == pc' = [pc EXCEPT ![n] = label]
Report(n, what) == /\ pc' = [pc EXCEPT ![n] = "reported"]
                   /\ outcome' = [outcome EXCEPT ![n] = what]
Fault == faults < MaxFaults /\ faults' = faults + 1
Because(n, reason) == why' = [why EXCEPT ![n] = reason]
Put(x, f) == disk' = [disk EXCEPT ![x] = f]

------------------------------------------------------------------------------
(* self_update_cmd finishes a pending cleanup before anything else; a       *)
(* journal it cannot consume refuses the update.                            *)
Begin(n) ==
  /\ pc[n] = "idle"
  /\ \A m \in Attempt : m < n => pc[m] # "idle"
  /\ IF platform = "windows" /\ disk[Journal] # Absent
       THEN Report(n, "refused")
       ELSE Goto(n, "queued") /\ UNCHANGED outcome
  /\ UNCHANGED <<platform, disk, bound, why, want, completion, lease, clean, overwritten, faults>>

AcquireLease(n) ==
  /\ pc[n] = "queued" /\ lease = Nobody
  /\ lease' = Updater(n)
  /\ Goto(n, "prepare")
  /\ UNCHANGED <<platform, disk, bound, why, want, completion, outcome, clean, overwritten, faults>>

(* The exclusive copy checks that it copied the very file that was bound,   *)
(* so binding and copying are one step.  A copy that fails and cannot be    *)
(* cleaned up stays.                                                        *)
PrepareBackup(n) ==
  /\ pc[n] = "prepare"
  /\ \/ /\ disk[Backup] = Absent /\ disk[Staged] = Absent /\ disk[Public] # Absent
        /\ Put(Backup, Copy(n))
        /\ \/ /\ bound' = [bound EXCEPT ![n] = disk[Public]]
              /\ Goto(n, "stage")
              /\ UNCHANGED <<outcome, faults>>
           \/ Fault /\ Report(n, "preserved") /\ UNCHANGED bound
     \/ /\ disk[Backup] # Absent \/ disk[Staged] # Absent \/ disk[Public] = Absent
        /\ Report(n, "refused")
        /\ UNCHANGED <<bound, disk, faults>>
     \/ /\ Fault
        /\ Report(n, "refused")
        /\ UNCHANGED <<bound, disk>>
  /\ UNCHANGED <<platform, why, want, completion, lease, clean, overwritten>>

Stage(n) ==
  /\ pc[n] = "stage"
  /\ \/ Put(Staged, Candidate(n)) /\ Goto(n, "check") /\ UNCHANGED <<why, faults>>
     \/ /\ Fault /\ Goto(n, "dropBackup") /\ Because(n, "refused")
        /\ UNCHANGED disk \/ Put(Staged, Candidate(n))
  /\ UNCHANGED <<platform, bound, want, completion, outcome, lease, clean, overwritten>>

(* The last look before publication, at the public file and at the backup;  *)
(* where the backup cannot be confirmed, Unix leaves everything as it is.   *)
CheckCurrent(n) ==
  /\ pc[n] = "check"
  /\ \/ /\ disk[Public] = bound[n] /\ Goto(n, "publish")
        /\ UNCHANGED <<why, outcome, faults>>
     \/ /\ IF disk[Public] # bound[n] THEN UNCHANGED faults ELSE Fault
        /\ Goto(n, "dropCandidate") /\ Because(n, "refused") /\ UNCHANGED outcome
     \/ /\ platform = "unix" /\ disk[Public] = bound[n] /\ Fault
        /\ Report(n, "preserved") /\ UNCHANGED why
  /\ UNCHANGED <<platform, disk, bound, want, completion, lease, clean, overwritten>>

(* exchange() swaps both names or neither.  ReplaceFileW may also stop with *)
(* the public file moved aside and nothing in its place, and may do all of  *)
(* it and report an error.                                                  *)
Exchange(x, y) == disk' = [disk EXCEPT ![x] = disk[y], ![y] = disk[x]]
Replace(with, aside) ==
  disk' = [disk EXCEPT ![aside] = disk[Public], ![Public] = disk[with], ![with] = Absent]
MoveAside(aside) == disk' = [disk EXCEPT ![aside] = disk[Public], ![Public] = Absent]

Publish(n) ==
  /\ pc[n] = "publish"
  /\ \/ /\ IF platform = "unix" THEN Exchange(Staged, Public) ELSE Replace(Staged, Aside(n))
        /\ \/ Goto(n, "classify") /\ UNCHANGED faults
           \/ Fault /\ Goto(n, "classifyUnconfirmed")
     \/ /\ platform = "windows" /\ Fault
        /\ MoveAside(Aside(n))
        /\ Goto(n, "classifyUnconfirmed")
     \/ Fault /\ Goto(n, "classify") /\ UNCHANGED disk
  /\ UNCHANGED <<platform, bound, why, want, completion, outcome, lease, clean, overwritten>>

(* replace_candidate_inner looks at the names, not at the result, to decide *)
(* what happened.                                                           *)
Classify(n) ==
  /\ pc[n] \in {"classify", "classifyUnconfirmed"}
  /\ LET public == disk[Public]
         aside  == disk[Displaced(n)]
     IN
     /\ want' = [want EXCEPT ![n] = aside]
     /\ \/ /\ public = Candidate(n) /\ aside = bound[n]
           /\ IF pc[n] = "classify"
                THEN Goto(n, "pending") /\ UNCHANGED why
                ELSE Goto(n, "takeBack") /\ Because(n, "unconfirmed")
           /\ UNCHANGED outcome
        \/ /\ public = Candidate(n) /\ aside \notin {bound[n], Absent}
           /\ Goto(n, "takeBack") /\ Because(n, "foreign") /\ UNCHANGED outcome
        \/ /\ public = bound[n] /\ disk[Staged] = Candidate(n)
           /\ Goto(n, "dropCandidate") /\ Because(n, "refused") /\ UNCHANGED outcome
        \/ /\ public = Absent /\ disk[Staged] = Candidate(n) /\ aside \notin {Absent, Candidate(n)}
           /\ Goto(n, "fillEmpty") /\ Because(n, "refused") /\ UNCHANGED outcome
        \/ /\ public \notin {Candidate(n), bound[n]}
           /\ ~ (public = Absent /\ disk[Staged] = Candidate(n)
                 /\ aside \notin {Absent, Candidate(n)})
           /\ Report(n, "preserved") /\ UNCHANGED why
  /\ UNCHANGED <<platform, disk, bound, completion, lease, clean, overwritten, faults>>

(* The recovery owner armed before publication: an error or an unwind       *)
(* before the classification is finished rolls the exchange back, whatever  *)
(* it has done.                                                             *)
Interrupted(n) ==
  /\ pc[n] \in {"classify", "classifyUnconfirmed"} /\ Fault
  /\ completion' = [completion EXCEPT ![n] = "rolledBack"]
  /\ Because(n, "rollback")
  /\ want' = [want EXCEPT ![n] = bound[n]]
  /\ Goto(n, "takeBack")
  /\ UNCHANGED <<platform, disk, bound, outcome, lease, clean, overwritten>>

------------------------------------------------------------------------------
(* Taking an exchange back: rollback_uncommitted_unix_exchange,             *)
(* restore_displaced_unix_writer, replace_windows_public_with_displaced.    *)

TakeBackCheck(n) ==
  /\ pc[n] = "takeBack"
  /\ IF /\ disk[Public] = Candidate(n)
        /\ disk[Displaced(n)] = want[n]
        /\ why[n] = "rollback" => disk[Backup] = Copy(n)
       THEN Goto(n, "swapBack") /\ UNCHANGED outcome
       ELSE Report(n, "preserved")
  /\ UNCHANGED <<platform, disk, bound, why, want, completion, lease, clean, overwritten, faults>>

SwapBack(n) ==
  /\ pc[n] = "swapBack"
  /\ \/ /\ IF platform = "unix" THEN Exchange(Staged, Public) ELSE Replace(Aside(n), Failed(n))
        /\ \/ Goto(n, "verify") /\ UNCHANGED faults
           \/ Fault /\ Goto(n, "verifyUnconfirmed")
     \/ /\ platform = "windows" /\ Fault
        /\ MoveAside(Failed(n))
        /\ Goto(n, "verifyUnconfirmed")
     \/ Fault /\ Goto(n, "verifyUnconfirmed") /\ UNCHANGED disk
  /\ UNCHANGED <<platform, bound, why, want, completion, outcome, lease, clean, overwritten>>

(* The candidate came back from the public path, and what was displaced is  *)
(* public: no third writer was exchanged away.                              *)
TakenBack(n) ==
  /\ disk[Public] = want[n]
  /\ IF platform = "unix" THEN disk[Staged] = Candidate(n)
     ELSE disk[Failed(n)] = Candidate(n) /\ disk[Aside(n)] = Absent

(* Mutant: a swap back that reported no error is believed without a look.   *)
VerifyBlind(n) ==
  /\ pc[n] \in {"verify", "verifyUnconfirmed"}
  /\ Goto(n, "dropCandidate")
  /\ UNCHANGED <<platform, disk, bound, why, want, completion, outcome, lease, clean, overwritten, faults>>

Verify(n) ==
  /\ pc[n] \in {"verify", "verifyUnconfirmed"}
  /\ \/ /\ TakenBack(n) /\ pc[n] = "verify"
        /\ Goto(n, "dropCandidate") /\ UNCHANGED outcome
     \/ /\ disk[Public] = Absent /\ platform = "windows"
        /\ disk[Aside(n)] = want[n] /\ disk[Failed(n)] = Candidate(n)
        /\ Goto(n, "fillEmpty") /\ UNCHANGED outcome
     \/ /\ ~ (TakenBack(n) /\ pc[n] = "verify")
        /\ ~ (disk[Public] = Absent /\ platform = "windows"
              /\ disk[Aside(n)] = want[n] /\ disk[Failed(n)] = Candidate(n))
        /\ Report(n, "preserved")
  /\ UNCHANGED <<platform, disk, bound, why, want, completion, lease, clean, overwritten, faults>>

(* Mutant: the rename replaces whatever has come to the public path.        *)
FillEmptyReplacing(n) ==
  /\ pc[n] = "fillEmpty"
  /\ disk' = [disk EXCEPT ![Public] = disk[Aside(n)], ![Aside(n)] = Absent]
  /\ Goto(n, "dropCandidate")
  /\ UNCHANGED <<platform, bound, why, want, completion, outcome, lease, clean, overwritten, faults>>

(* restore_windows_displaced_to_empty_public: a rename that replaces        *)
(* nothing, confirmed by a last look.                                       *)
FillEmpty(n) ==
  /\ pc[n] = "fillEmpty"
  /\ \/ /\ disk[Public] = Absent
        /\ disk' = [disk EXCEPT ![Public] = disk[Aside(n)], ![Aside(n)] = Absent]
        /\ \/ Goto(n, "dropCandidate") /\ UNCHANGED <<outcome, faults>>
           \/ Fault /\ Report(n, "preserved")
     \/ /\ IF disk[Public] # Absent THEN UNCHANGED faults ELSE Fault
        /\ Report(n, "preserved")
        /\ UNCHANGED disk
  /\ UNCHANGED <<platform, bound, why, want, completion, lease, clean, overwritten>>

(* The exact removals after a replacement that did not stay.  Where the     *)
(* candidate cannot be removed, the rollbacks and the Windows restorations  *)
(* stop and keep the backup; the other paths go on to it.                   *)
StopsOnFailure(n) ==
  \/ why[n] \in {"rollback", "unconfirmed"}
  \/ platform = "windows" /\ why[n] = "foreign"

DropCandidate(n) ==
  /\ pc[n] = "dropCandidate"
  /\ \/ /\ disk[Unused(n)] = Candidate(n)
        /\ Put(Unused(n), Absent) /\ Goto(n, "dropBackup") /\ UNCHANGED <<outcome, faults>>
     \/ /\ Fault /\ UNCHANGED disk
        /\ IF StopsOnFailure(n) THEN Report(n, "preserved")
           ELSE Goto(n, "dropBackup") /\ UNCHANGED outcome
  /\ UNCHANGED <<platform, bound, why, want, completion, lease, clean, overwritten>>

(* Mutant: whether the candidate could be removed is forgotten.             *)
DropBackupOnly(n) ==
  /\ pc[n] = "dropBackup"
  /\ disk[Backup] = Copy(n) /\ Put(Backup, Absent)
  /\ Report(n, IF why[n] = "refused" THEN "refused" ELSE "restored")
  /\ UNCHANGED <<platform, bound, why, want, completion, lease, clean, overwritten, faults>>

DropBackup(n) ==
  /\ pc[n] = "dropBackup"
  /\ \/ /\ disk[Backup] = Copy(n) /\ Put(Backup, Absent)
        /\ Report(n, IF OnDisk(Candidate(n)) THEN "preserved"
                     ELSE IF why[n] = "refused" THEN "refused" ELSE "restored")
        /\ UNCHANGED faults
     \/ /\ Fault /\ UNCHANGED disk
        /\ Report(n, "preserved")
  /\ UNCHANGED <<platform, bound, why, want, completion, lease, clean, overwritten>>

------------------------------------------------------------------------------
(* The caller holds a pending replacement: it commits, rolls back, or keeps *)
(* everything for manual recovery, which is also what dropping it does.     *)

Rollback(n) ==
  /\ pc[n] = "pending"
  /\ completion' = [completion EXCEPT ![n] = "rolledBack"]
  /\ Because(n, "rollback")
  /\ Goto(n, "takeBack")
  /\ UNCHANGED <<platform, disk, bound, want, outcome, lease, clean, overwritten, faults>>

Preserve(n) ==
  /\ pc[n] = "pending"
  /\ Report(n, "preserved")
  /\ UNCHANGED <<platform, disk, bound, why, want, completion, lease, clean, overwritten, faults>>

(* On Windows the journal is durable before anything is removed, and a      *)
(* journal already there refuses the commit.  One that cannot be written to *)
(* its end may stay.                                                        *)
Commit(n) ==
  /\ pc[n] = "pending"
  /\ \/ /\ disk[Public] = Candidate(n)
        /\ \/ /\ platform = "unix"
              /\ completion' = [completion EXCEPT ![n] = "committed"]
              /\ Goto(n, "dropDisplaced")
              /\ UNCHANGED <<disk, outcome>>
           \/ /\ platform = "windows" /\ disk[Journal] = Absent
              /\ disk[Backup] = Copy(n) /\ disk[Aside(n)] = bound[n]
              /\ Put(Journal, Record(n))
              /\ completion' = [completion EXCEPT ![n] = "committed"]
              /\ Goto(n, "dropCopy")
              /\ UNCHANGED outcome
        /\ UNCHANGED faults
     \/ /\ \/ disk[Public] # Candidate(n) /\ UNCHANGED faults
           \/ platform = "windows" /\ disk[Journal] # Absent /\ UNCHANGED faults
           \/ Fault
        /\ Report(n, "preserved")
        /\ UNCHANGED <<disk, completion>>
     \/ /\ platform = "windows" /\ disk[Public] = Candidate(n) /\ disk[Journal] = Absent /\ Fault
        /\ Put(Journal, Torn)
        /\ Report(n, "preserved")
        /\ UNCHANGED completion
  /\ UNCHANGED <<platform, bound, why, want, lease, clean, overwritten>>

DropDisplaced(n) ==
  /\ pc[n] = "dropDisplaced"
  /\ \/ disk[Staged] = bound[n] /\ Put(Staged, Absent) /\ Goto(n, "dropCopy")
        /\ UNCHANGED <<outcome, faults>>
     \/ Fault /\ Report(n, "preserved") /\ UNCHANGED disk
  /\ UNCHANGED <<platform, bound, why, want, completion, lease, clean, overwritten>>

DropCopy(n) ==
  /\ pc[n] = "dropCopy"
  /\ \/ /\ disk[Backup] = Copy(n) /\ Put(Backup, Absent)
        /\ IF platform = "unix" THEN Report(n, "committed")
           ELSE Goto(n, "spawn") /\ UNCHANGED outcome
        /\ UNCHANGED faults
     \/ Fault /\ Report(n, "preserved") /\ UNCHANGED disk
  /\ UNCHANGED <<platform, bound, why, want, completion, lease, clean, overwritten>>

(* load_validated_cleanup: the journal names n's tokens, and every name     *)
(* holds what the journal says of it or, but for the public one, nothing.   *)
Validated(n) ==
  /\ disk[Public] = Candidate(n)
  /\ disk[Backup] \in {Copy(n), Absent}
  /\ disk[Aside(n)] \in {bound[n], Absent}

(* The worker runs the new image, is ready once it has opened the updater's *)
(* process and validated the journal, and then waits for the updater's end. *)
SpawnWorker(n) ==
  /\ pc[n] = "spawn"
  /\ \/ /\ disk[Journal] = Record(n) /\ Validated(n)
        /\ clean' = [clean EXCEPT ![n] = [at |-> "ready", of |-> n]]
        /\ Report(n, "committed")
        /\ UNCHANGED faults
     \/ /\ \/ ~ (disk[Journal] = Record(n) /\ Validated(n)) /\ UNCHANGED faults
           \/ Fault
        /\ Report(n, "preserved")
        /\ UNCHANGED clean
  /\ UNCHANGED <<platform, disk, bound, why, want, completion, lease, overwritten>>

(* The command keeps its lease until it returns.                            *)
Exit(n) ==
  /\ pc[n] = "reported"
  /\ Goto(n, "gone")
  /\ lease' = IF lease = Updater(n) THEN Nobody ELSE lease
  /\ UNCHANGED <<platform, disk, bound, why, want, completion, outcome, clean, overwritten, faults>>

------------------------------------------------------------------------------
(* Finishing a committed replacement on Windows: the worker, or any command *)
(* that starts and finds the journal.                                       *)

(* Mutant: a cleaner that stops early keeps the lease.                      *)
RestKeepingLease(c) == clean' = [clean EXCEPT ![c] = Resting] /\ UNCHANGED lease

Rest(c) == /\ clean' = [clean EXCEPT ![c] = Resting]
           /\ lease' = IF lease = Cleaner(c) THEN Nobody ELSE lease

WorkerLocks(n) ==
  /\ clean[n].at = "ready" /\ n # 0
  /\ pc[n] = "gone" /\ lease = Nobody
  /\ lease' = Cleaner(n)
  /\ clean' = [clean EXCEPT ![n].at = "revalidate"]
  /\ UNCHANGED <<platform, disk, pc, bound, why, want, completion, outcome, overwritten, faults>>

(* A starting command tries the lease once; a busy lease or a journal that  *)
(* does not validate is an error and changes nothing.                       *)
StartupLocks ==
  /\ platform = "windows" /\ clean[0] = Resting
  /\ lease = Nobody
  /\ \E n \in Attempt :
       /\ disk[Journal] = Record(n) /\ Validated(n)
       /\ clean' = [clean EXCEPT ![0] = [at |-> "backup", of |-> n]]
  /\ lease' = Cleaner(0)
  /\ UNCHANGED <<platform, disk, pc, bound, why, want, completion, outcome, overwritten, faults>>

Revalidate(c) ==
  /\ clean[c].at = "revalidate"
  /\ IF disk[Journal] = Record(clean[c].of) /\ Validated(clean[c].of)
       THEN clean' = [clean EXCEPT ![c].at = "backup"] /\ UNCHANGED lease
       ELSE Rest(c)
  /\ UNCHANGED <<platform, disk, pc, bound, why, want, completion, outcome, overwritten, faults>>

(* complete_cleanup: the public image once more, then the backup, the       *)
(* displaced executable and the journal, each only if it is the exact file. *)
CleanName(c, x, f, here, next) ==
  /\ clean[c].at = here
  /\ here = "backup" => disk[Public] = Candidate(clean[c].of)
  /\ disk[x] \in {f, Absent}
  /\ Put(x, Absent)
  /\ IF next = "idle" THEN Rest(c)
     ELSE clean' = [clean EXCEPT ![c].at = next] /\ UNCHANGED lease
  /\ UNCHANGED faults

CleanFails(c) ==
  /\ clean[c].at \in {"backup", "displaced", "journal"}
  /\ \/ /\ clean[c].at = "backup" /\ disk[Public] # Candidate(clean[c].of)
        /\ UNCHANGED faults
     \/ Fault
  /\ Rest(c)
  /\ UNCHANGED disk

CleanStep(c) ==
  /\ LET n == clean[c].of
     IN \/ CleanName(c, Backup, Copy(n), "backup", "displaced")
        \/ CleanName(c, Aside(n), bound[n], "displaced", "journal")
        \/ CleanName(c, Journal, Record(n), "journal", "idle")
        \/ CleanFails(c)
  /\ UNCHANGED <<platform, pc, bound, why, want, completion, outcome, overwritten>>

------------------------------------------------------------------------------
(* Deaths, and the writers outside this program.                            *)

UpdaterDies(n) ==
  /\ pc[n] \notin {"idle", "reported", "gone"}
  /\ Fault
  /\ Goto(n, "gone")
  /\ lease' = IF lease = Updater(n) THEN Nobody ELSE lease
  /\ UNCHANGED <<platform, disk, bound, why, want, completion, outcome, clean, overwritten>>

CleanerDies(c) ==
  /\ clean[c] # Resting
  /\ Fault
  /\ Rest(c)
  /\ UNCHANGED <<platform, disk, pc, bound, why, want, completion, outcome, overwritten>>

OutsideWrite(k) ==
  /\ ~ OnDisk(ByOther(k)) /\ ByOther(k) \notin overwritten
  /\ Put(Public, ByOther(k))
  /\ overwritten' = overwritten \cup ({disk[Public]} \ {Absent})
  /\ UNCHANGED <<platform, pc, bound, why, want, completion, outcome, lease, clean, faults>>

UpdateStep(n) ==
  \/ Begin(n) \/ AcquireLease(n) \/ PrepareBackup(n) \/ Stage(n) \/ CheckCurrent(n)
  \/ Publish(n) \/ Classify(n) \/ Interrupted(n) \/ TakeBackCheck(n) \/ SwapBack(n)
  \/ Verify(n) \/ FillEmpty(n) \/ DropCandidate(n) \/ DropBackup(n)
  \/ Rollback(n) \/ Preserve(n) \/ Commit(n)
  \/ DropDisplaced(n) \/ DropCopy(n) \/ SpawnWorker(n) \/ Exit(n)

Next ==
  \/ \E n \in Attempt : UpdateStep(n) \/ UpdaterDies(n) \/ WorkerLocks(n)
  \/ StartupLocks
  \/ \E c \in Cleaners : Revalidate(c) \/ CleanStep(c) \/ CleanerDies(c)
  \/ \E k \in Foreign : OutsideWrite(k)

(* An update goes on unless it dies; so does whoever cleans; and commands   *)
(* keep being started, so a journal is found again.                         *)
Fairness ==
  /\ \A n \in Attempt : WF_vars(UpdateStep(n) /\ pc[n] # "idle") /\ WF_vars(WorkerLocks(n))
  /\ SF_vars(StartupLocks)
  /\ \A c \in Cleaners : WF_vars(Revalidate(c) \/ CleanStep(c))

Spec == Init /\ [][Next]_vars /\ Fairness

------------------------------------------------------------------------------
(* Every variable holds a value of its kind, and only a live command or     *)
(* cleaner that has taken the lease holds it.                               *)
TypeOK ==
  /\ platform \in {"unix", "windows"}
  /\ disk \in [Names -> Files \cup {Absent}]
  /\ bound \in [Attempt -> Files \cup {Absent}]
  /\ completion \in [Attempt -> {"none", "rolledBack", "committed"}]
  /\ outcome \in [Attempt -> {"none", "refused", "restored", "preserved", "committed"}]
  /\ lease \in {Nobody} \cup {Updater(n) : n \in Attempt} \cup {Cleaner(c) : c \in Cleaners}
  /\ \A n \in Attempt : lease = Updater(n) => pc[n] \notin {"idle", "queued", "gone"}
  /\ \A c \in Cleaners : /\ clean[c].of \in Cleaners
                         /\ lease = Cleaner(c) => clean[c].at \notin {"idle", "ready"}
  /\ overwritten \subseteq Files
  /\ faults \in 0 .. MaxFaults

(* While the candidate of an update that has not begun to commit is the     *)
(* public executable, or nothing is, the executable it displaced and the    *)
(* independent copy of the previous one are both still on disk: no death or *)
(* failure between the exchange and the decision costs the way back.        *)
(* update.rs `PublicationRecoveryOwner`, `Drop for PendingReplacement`.     *)
UndecidedIsRecoverable ==
  /\ \A n \in Attempt :
       disk[Public] = Candidate(n) /\ completion[n] # "committed" =>
         disk[Backup] = Copy(n) /\ disk[Displaced(n)] # Absent
  /\ disk[Public] = Absent =>
       /\ platform = "windows"
       /\ \E n \in Attempt : disk[Aside(n)] # Absent /\ disk[Backup] = Copy(n)

(* An update that reports that it put things back has put back what it      *)
(* displaced (unless another writer or update has replaced that since), and *)
(* leaves no backup and no candidate in the way of the next update.         *)
RestoredIsTrue ==
  \A n \in Attempt : outcome[n] = "restored" =>
    /\ ~ OnDisk(Copy(n)) /\ ~ OnDisk(Candidate(n))
    /\ \/ disk[Public] = want[n]
       \/ want[n] \in overwritten
       \/ \E m \in Attempt \ {n} : bound[m] = want[n]

(* A file this program did not make for the transaction leaves the disk in  *)
(* two ways only: a writer outside replaces it at the public path, or it is *)
(* the previous executable of an update that has committed.  No interleaved *)
(* writer is ever lost to an exchange, a restoration or a cleanup.          *)
Kept == {Installed} \cup {ByOther(k) : k \in Foreign} \cup {Candidate(n) : n \in
           {m \in Attempt : completion[m] = "committed"}}
NothingLost ==
  [][\A f \in Kept : OnDisk(f) /\ ~ OnDisk(f)' =>
       \/ f \in overwritten'
       \/ \E n \in Attempt : bound[n] = f /\ completion[n] = "committed"]_vars

(* A committed replacement is finished: its journal is consumed, by the     *)
(* worker or by a command that starts later, unless an outside writer or    *)
(* the next update makes it stale first.  cleanup_worker.rs                 *)
(* `complete_after_revalidation`, `recover_pending_on_startup`.             *)
CleanupFinishes ==
  \A n \in Attempt : disk[Journal] = Record(n) ~> ~ (disk[Journal] = Record(n) /\ Validated(n))

(* "exact recovery must succeed before another executable publication": no  *)
(* update publishes its candidate while the journal of an earlier one is    *)
(* still on disk (commands/update.rs, self_update_cmd).                     *)
PendingCleanupFirst ==
  [][\A n \in Attempt : pc[n] = "publish" /\ disk'[Public] = Candidate(n) =>
       disk[Journal] = Absent]_vars
==============================================================================
