-------------------------- MODULE AuthPublication --------------------------
(***************************************************************************)
(* The publication protocol of src/src/auth.rs: replacing the live          *)
(* credential $CODEX_HOME/auth.json on condition that it still holds the    *)
(* bytes the caller saw, while Codex itself, which takes none of the        *)
(* application's locks, may rewrite, replace or delete the same file.       *)
(*                                                                          *)
(* The candidate, an independent copy of the live credential and a durable  *)
(* record are prepared first; then candidate and live are exchanged in one  *)
(* namespace step and the file that was really displaced is classified by   *)
(* inode and content.  A crash may strike between any two steps; the next   *)
(* holder of the auth transaction settles what the record describes.        *)
(*                                                                          *)
(* The caller holds auth.lock from Begin to the return, so one application  *)
(* process is in the protocol at a time: `pc' is that process, whichever    *)
(* it is.  Unix semantics: the displaced file takes the candidate's name.   *)
(***************************************************************************)
EXTENDS Naturals, Sequences, FiniteSets

CONSTANTS
  Inode,            \* file identities of the directory
  NoFile,           \* a name that denotes nothing
  AppCred,          \* credentials of saved profiles, the ones published
  CodexCred,        \* credentials Codex may write
  NoCred,           \* the content of an absent file
  NoRecord,         \* no publication record on disk
  MaxBackups,       \* MAX_BACKUPS: retained copies of displaced credentials
  MaxPublications,  \* bound: publications attempted
  MaxCodexMoves,    \* bound: changes Codex makes
  MaxCrashes        \* bound: crashes of the process in the transaction

Cred == AppCred \cup CodexCred

(* The names of one transaction.  "candidate" is the private candidate      *)
(* before the exchange and the displaced file after it.                     *)
Names == {"live", "candidate", "stage", "backup", "quarantine"}

(* FileToken: a file's identity together with the digest of its content.    *)
Tokens == (Inode \X Cred) \cup {<<NoFile, NoCred>>}
Absent == <<NoFile, NoCred>>

Records == [expected : Inode \X Cred, candidate : Inode \X Cred, backup : Inode \X Cred]
RecordOrNone == Records \cup {NoRecord}

ASSUME PublicationConstants ==
  /\ NoFile \notin Inode
  /\ NoCred \notin AppCred \cup CodexCred
  /\ NoRecord \notin Records
  /\ MaxBackups \in Nat \ {0}
  /\ {MaxPublications, MaxCodexMoves, MaxCrashes} \subseteq Nat

VARIABLES
  names,    \* what each name of the directory denotes
  data,     \* the content of each inode
  record,   \* the durable publication record
  history,  \* contents of the older auth.json.bak.* files, oldest first
  orphans,  \* private files left behind under names nobody looks up again
  codexFd,  \* the file Codex has opened to rewrite in place
  pc,       \* where the process in the transaction is
  op,       \* its local variables
  outcome,  \* how the last call returned
  owed,     \* history variable: credentials of Codex nobody else superseded
  quiet,    \* history variable: Codex has changed nothing since the record
  used      \* how much of each bound is used

fs == <<names, data, record, history, orphans>>
vars == <<names, data, record, history, orphans, codexFd, pc, op, outcome, owed, quiet, used>>

----------------------------------------------------------------------------
(* Local variables of the process.                                          *)

Plans == {"none", "finalize", "cleanup", "drop"}

Op == [task      : {"none", "recover", "write"},
       settling  : {"recovery", "publication"},
       expected  : Cred \cup {NoCred},
       new       : Cred \cup {NoCred},
       witness   : Inode \cup {NoFile},
       inode     : {"Unavailable", "Unchanged", "Changed"},
       boundary  : BOOLEAN,
       live      : Tokens,
       displaced : Tokens,
       plan      : Plans,
       stays     : BOOLEAN]

NoOp == [task |-> "none", settling |-> "recovery", expected |-> NoCred, new |-> NoCred,
         witness |-> NoFile, inode |-> "Unavailable", boundary |-> TRUE,
         live |-> Absent, displaced |-> Absent, plan |-> "none", stays |-> FALSE]

Locations == {"idle", "recover", "check", "create", "created", "stage", "record", "witness",
              "recheck", "exchange", "observe", "settle", "classify", "unstage", "inspect",
              "quarantine", "verify", "unlink", "promote", "drop", "trim",
              "restore", "restoring", "restored"}

Outcomes == {"none", "Recovered", "RecoveryBlocked", "Written", "Changed", "Error",
             "PublishedRecovery", "RestoredRecovery", "AmbiguousRecovery"}

----------------------------------------------------------------------------
(* Reading the directory.  An operator that names a slip (NeverRetained,    *)
(* RenameOver, ...) is the defect its neighbour is checked against; Next    *)
(* does not use it.                                                         *)

Token(n) == IF names[n] = NoFile THEN Absent ELSE <<names[n], data[names[n]]>>

HandleToken == <<op.witness, data[op.witness]>>

Named(i) == i \in orphans \/ \E n \in Names : names[n] = i

Free(i) == ~Named(i) /\ codexFd # i /\ op.witness # i

(* The quarantined file is past its last verification: it will be unlinked. *)
Doomed(i) == pc = "unlink" /\ names["quarantine"] = i

BackupWaiting  == Token("stage") = record.backup /\ names["backup"] = NoFile
NeverRetained  == FALSE
BackupRetained == names["stage"] = NoFile /\ Token("backup") = record.backup

----------------------------------------------------------------------------
(* Returning to the caller.                                                 *)

Goto(l) == pc' = l /\ UNCHANGED outcome

Enter(l, locals) == pc' = l /\ op' = locals /\ outcome' = "none"

Return(o) == pc' = "idle" /\ op' = NoOp /\ outcome' = o

(* recover_interrupted_auth_publication turns a stuck settlement into an    *)
(* error; conditional_write_from_settlement reports it.                     *)
Stuck(o) == Return(IF op.settling = "recovery" THEN "RecoveryBlocked" ELSE o)

Settled(published) ==
  IF op.settling = "recovery"
  THEN IF op.task = "write"
       THEN Goto("check") /\ op' = [op EXCEPT !.live = Absent, !.displaced = Absent,
                                              !.plan = "none", !.stays = FALSE]
       ELSE Return("Recovered")
  ELSE Return(CASE published                 -> "Written"
                [] ~published /\ op.boundary  -> "Changed"
                [] ~published /\ ~op.boundary -> "Error")

(* A name that cannot be read ends the call: with an error before the       *)
(* exchange, and after it with whatever it may have done left to recovery.  *)
Unread == Stuck(IF op.inode = "Unavailable" THEN "Error" ELSE "AmbiguousRecovery")

(* What an incomplete plan reports (settle_auth_publication, Err arms).     *)
PlanFailed ==
  Stuck(IF op.plan = "finalize"
        THEN IF op.live = record.candidate THEN "PublishedRecovery" ELSE "AmbiguousRecovery"
        ELSE "RestoredRecovery")

----------------------------------------------------------------------------
Init ==
  /\ \E i \in Inode \cup {NoFile} : names = [n \in Names |-> IF n = "live" THEN i ELSE NoFile]
  /\ \E c \in CodexCred : data = [i \in Inode |-> c]
  /\ record = NoRecord
  /\ history = <<>>
  /\ orphans = {}
  /\ codexFd = NoFile
  /\ pc = "idle"
  /\ op = NoOp
  /\ outcome = "none"
  /\ owed = IF names["live"] = NoFile THEN {} ELSE {data[names["live"]]}
  /\ quiet = TRUE
  /\ used = [publications |-> 0, moves |-> 0, crashes |-> 0]

----------------------------------------------------------------------------
(* The caller: an auth transaction first recovers what an earlier one left; *)
(* a publication was decided on the bytes the caller read.                  *)

BeginRecovery ==
  /\ pc = "idle"
  /\ record # NoRecord
  /\ Enter("recover", [NoOp EXCEPT !.task = "recover"])
  /\ UNCHANGED <<fs, codexFd, owed, quiet, used>>

Request(new) ==
  [NoOp EXCEPT !.task = "write", !.expected = Token("live")[2], !.new = new]

BeginPublication(new) ==
  /\ pc = "idle"
  /\ used.publications < MaxPublications
  /\ used' = [used EXCEPT !.publications = @ + 1]
  /\ Enter("recover", Request(new))
  /\ UNCHANGED <<fs, codexFd, owed, quiet>>

Recover ==
  /\ pc = "recover"
  /\ \/ /\ record = NoRecord
        /\ Settled(FALSE)
     \/ /\ record # NoRecord
        /\ Goto("settle")
        /\ UNCHANGED op
     \/ Return("RecoveryBlocked")                    \* the record cannot be read
  /\ UNCHANGED <<fs, codexFd, owed, quiet, used>>

Check ==
  /\ pc = "check"
  /\ \/ op.expected = NoCred /\ Goto("create") /\ UNCHANGED op
     \/ /\ op.expected # NoCred /\ Token("live")[2] = op.expected
        /\ Goto("stage")
        /\ op' = [op EXCEPT !.live = Token("live"), !.settling = "publication"]
     \/ op.expected # NoCred /\ Token("live")[2] # op.expected /\ Return("Changed")
     \/ op.expected # NoCred /\ Return("Error")              \* live cannot be read
  /\ UNCHANGED <<fs, codexFd, owed, quiet, used>>

(* No live credential was seen: a no-replace rename, which an occupied      *)
(* destination refuses.                                                     *)
Create ==
  /\ pc = "create"
  /\ \/ /\ names["live"] = NoFile
        /\ \E i \in Inode :
             /\ Free(i)
             /\ names' = [names EXCEPT !["live"] = i]
             /\ data' = [data EXCEPT ![i] = op.new]
             /\ op' = [op EXCEPT !.live = <<i, op.new>>]
        /\ Goto("created")
     \/ names["live"] # NoFile /\ Return("Changed") /\ UNCHANGED <<names, data>>
     \/ Return("Error") /\ UNCHANGED <<names, data>>
  /\ UNCHANGED <<record, history, orphans, codexFd, owed, quiet, used>>

ConfirmCreation ==
  /\ pc = "created"
  /\ \/ /\ Token("live") = op.live
        /\ \E durable \in BOOLEAN : Return(IF durable THEN "Written" ELSE "PublishedRecovery")
     \/ Token("live") # op.live /\ Return("AmbiguousRecovery")
     \/ Return("Error")                                     \* live cannot be read
  /\ UNCHANGED <<fs, codexFd, owed, quiet, used>>

----------------------------------------------------------------------------
(* Preparing and exchanging.                                                *)

(* The candidate and the independent copy are made durable under private    *)
(* names; an error removes both again.  Then live is looked at once more,   *)
(* which is when the step is taken: nobody sees those files before.         *)
Stage ==
  /\ pc = "stage"
  /\ \/ /\ Token("live") = op.live
        /\ \E i, j \in Inode :
             /\ i # j /\ Free(i) /\ Free(j)
             /\ names' = [names EXCEPT !["candidate"] = i, !["stage"] = j]
             /\ data' = [data EXCEPT ![i] = op.new, ![j] = op.expected]
        /\ Goto("record")
        /\ UNCHANGED op
     \/ Return("Error") /\ UNCHANGED <<names, data>>
  /\ UNCHANGED <<record, history, orphans, codexFd, owed, quiet, used>>

DropStaged == names' = [names EXCEPT !["candidate"] = NoFile, !["stage"] = NoFile]

(* Codex may have changed live since: the record is of what was last seen.  *)
PublishRecord ==
  /\ pc = "record"
  /\ \/ /\ record' = [expected |-> op.live, candidate |-> Token("candidate"),
                      backup |-> Token("stage")]
        /\ quiet' = TRUE
        /\ \/ Goto("witness") /\ UNCHANGED <<op, names>>
           \/ Return("RestoredRecovery") /\ UNCHANGED names   \* visible, not durable
           \/ DropStaged /\ Return("Error")                  \* visible, not read again
     \/ DropStaged /\ Return("Error") /\ UNCHANGED <<record, quiet>>
  /\ UNCHANGED <<data, history, orphans, codexFd, owed, used>>

(* A handle on the live file is opened and kept: it tells a writer that won *)
(* before the exchange from one that writes to the displaced file after it. *)
OpenWitness ==
  /\ pc = "witness"
  /\ \/ IF Token("live") = record.expected
        THEN Goto("recheck") /\ op' = [op EXCEPT !.witness = names["live"]]
        ELSE Goto("settle") /\ op' = [op EXCEPT !.boundary = (names["live"] # NoFile)]
     \/ Goto("settle") /\ op' = [op EXCEPT !.boundary = FALSE]    \* it cannot be opened
     \/ Return("Error")                                         \* nor read
  /\ UNCHANGED <<fs, codexFd, owed, quiet, used>>

Recheck ==
  /\ pc = "recheck"
  /\ \/ /\ IF Token("live") = record.expected /\ HandleToken = record.expected
           THEN Goto("exchange")
           ELSE Goto("settle")
        /\ UNCHANGED op
     \/ Return("Error")
  /\ UNCHANGED <<fs, codexFd, owed, quiet, used>>

RenameOver(a, b) == names' = [names EXCEPT ![a] = NoFile, ![b] = names[a]]

Swap(a, b) == names' = [names EXCEPT ![a] = names[b], ![b] = names[a]]

Exchange ==
  /\ pc = "exchange"
  /\ \/ names["live"] # NoFile /\ Swap("candidate", "live")
     \/ UNCHANGED names
  /\ \E done \in BOOLEAN :
       /\ names' = names => ~done
       /\ op' = [op EXCEPT !.boundary = done]
  /\ Goto("observe")
  /\ UNCHANGED <<data, record, history, orphans, codexFd, owed, quiet, used>>

ObserveHandle ==
  /\ pc = "observe"
  /\ \/ op' = [op EXCEPT !.inode = IF HandleToken = record.expected THEN "Unchanged"
                                                                    ELSE "Changed"]
     \/ op' = [op EXCEPT !.inode = "Changed"]          \* the handle cannot be read
  /\ Goto("settle")
  /\ UNCHANGED <<fs, codexFd, owed, quiet, used>>

----------------------------------------------------------------------------
(* settle_auth_publication: classify what is on disk.  The live file is     *)
(* read first; only Codex can change what it and the displaced file hold    *)
(* before the rest is read.                                                 *)

Settle ==
  /\ pc = "settle"
  /\ \/ Goto("classify") /\ op' = [op EXCEPT !.live = Token("live")]
     \/ Unread
  /\ UNCHANGED <<fs, codexFd, owed, quiet, used>>

CandidateLive  == op.live = record.candidate
DisplacedKnown == Token("candidate") \in {record.expected, Absent}

CanFinalize ==
  /\ BackupWaiting \/ BackupRetained
  /\ \/ CandidateLive /\ DisplacedKnown
     \/ ~CandidateLive /\ Token("candidate") = record.expected

Foreign == CandidateLive /\ BackupWaiting /\ ~DisplacedKnown
             /\ Token("candidate") # record.candidate

CanCleanUp ==
  /\ ~CandidateLive
  /\ ~CanFinalize
  /\ \/ /\ Token("candidate") = record.candidate
        /\ ~BackupRetained
        /\ Token("stage") \in {record.backup, Absent}
     \/ op.live = record.expected /\ names["candidate"] = NoFile /\ BackupWaiting

NothingLeft == ~CandidateLive /\ \A n \in {"candidate", "stage", "backup"} : names[n] = NoFile

WitnessNotChanged == op.inode # "Changed"
WonBeforeExchange == op.inode = "Unchanged"

Verdict == CASE CanFinalize                         -> "finalize"
             [] Foreign /\ WonBeforeExchange        -> "restore"
             [] CanCleanUp                          -> "cleanup"
             [] NothingLeft                         -> "drop"
             [] OTHER -> IF CandidateLive THEN "preserve" ELSE "ambiguous"

FirstStep == [finalize |-> "inspect", cleanup |-> "unstage", drop |-> "drop"]

Classify ==
  /\ pc = "classify"
  /\ \/ /\ Verdict \in {"finalize", "cleanup", "drop"}
        /\ Goto(FirstStep[Verdict]) /\ op' = [op EXCEPT !.plan = Verdict]
     \/ /\ Verdict = "restore"
        /\ Goto("restore") /\ op' = [op EXCEPT !.displaced = Token("candidate")]
     \/ Verdict = "preserve" /\ Stuck("PublishedRecovery")
     \/ Verdict = "ambiguous" /\ Stuck("AmbiguousRecovery")
     \/ Unread
  /\ UNCHANGED <<fs, codexFd, owed, quiet, used>>

----------------------------------------------------------------------------
(* finalize_independent_backup and cleanup_unpublished_auth.  Both remove   *)
(* the file at the candidate's name, bound to the token they expect there,  *)
(* then drop the record.                                                    *)

Bound == IF op.plan = "finalize" THEN record.expected ELSE record.candidate

SkipPromotion == "drop"

AfterRemoval == IF op.plan = "finalize" THEN "promote" ELSE "drop"

Fail == PlanFailed /\ UNCHANGED names

Unstage ==
  /\ pc = "unstage"
  /\ \/ /\ names["backup"] = NoFile
        /\ names' = [names EXCEPT !["stage"] = NoFile]
        /\ Goto("inspect")
        /\ UNCHANGED op
     \/ Fail
  /\ UNCHANGED <<data, record, history, orphans, codexFd, owed, quiet, used>>

Inspect ==
  /\ pc = "inspect"
  /\ \/ Token("candidate") = Bound /\ Goto("quarantine") /\ UNCHANGED <<op, names>>
     \/ Token("candidate") = Absent /\ Goto(AfterRemoval) /\ UNCHANGED <<op, names>>
     \/ Fail
  /\ UNCHANGED <<data, record, history, orphans, codexFd, owed, quiet, used>>

(* remove_exact: the name is moved away first, verified there and unlinked. *)
Quarantine ==
  /\ pc = "quarantine"
  /\ \/ /\ Token("candidate") = Bound
        /\ Swap("candidate", "quarantine")
        /\ Goto("verify")
        /\ UNCHANGED op
     \/ Fail
  /\ UNCHANGED <<data, record, history, orphans, codexFd, owed, quiet, used>>

VerifyQuarantined ==
  /\ pc = "verify"
  /\ \/ /\ Token("quarantine") = Bound
        /\ Goto("unlink")
        /\ UNCHANGED <<op, names>>
     \/ Swap("candidate", "quarantine") /\ PlanFailed      \* restored, not removed
  /\ UNCHANGED <<data, record, history, orphans, codexFd, owed, quiet, used>>

Unlink ==
  /\ pc = "unlink"
  /\ names' = [names EXCEPT !["quarantine"] = NoFile]
  /\ \/ Goto(AfterRemoval) /\ UNCHANGED op
     \/ PlanFailed                                          \* removed, not durably
  /\ UNCHANGED <<data, record, history, orphans, codexFd, owed, quiet, used>>

(* Then, before the record goes, it is read whether the candidate is still  *)
(* live.  Codex reaches neither the copy nor the names it moves between, so *)
(* the read is taken with the move.                                         *)
ReadLive == op' = [op EXCEPT !.stays = (Token("live") = record.candidate)]

Promote ==
  /\ pc = "promote"
  /\ \/ /\ BackupWaiting
        /\ Swap("stage", "backup")
        /\ \/ Goto("drop") /\ ReadLive
           \/ PlanFailed                                    \* visible, not durable
     \/ BackupRetained /\ Goto("drop") /\ ReadLive /\ UNCHANGED names
     \/ Fail
  /\ UNCHANGED <<data, record, history, orphans, codexFd, owed, quiet, used>>

(* The record goes last; from then on the backup is one of the managed ones.*)
DropRecord ==
  /\ pc = "drop"
  /\ \/ /\ record' = NoRecord
        /\ names' = [names EXCEPT !["backup"] = NoFile]
        /\ history' = IF names["backup"] = NoFile THEN history
                                                  ELSE Append(history, data[names["backup"]])
        /\ \/ op.plan = "finalize" /\ Goto("trim") /\ UNCHANGED op
           \/ op.plan # "finalize" /\ Settled(FALSE)
           \/ PlanFailed                                    \* removed, not durably
     \/ Fail /\ UNCHANGED <<record, history>>
  /\ UNCHANGED <<data, orphans, codexFd, owed, quiet, used>>

Excess == IF Len(history) > MaxBackups THEN Len(history) - MaxBackups ELSE 0

TrimBackups ==
  /\ pc = "trim"
  /\ history' = SubSeq(history, Excess + 1, Len(history))
  /\ owed' = owed \ {history[k] : k \in 1..Excess}
  /\ Settled(op.stays)
  /\ UNCHANGED <<names, data, record, orphans, codexFd, quiet, used>>

----------------------------------------------------------------------------
(* restore_foreign_live: a writer won before the exchange; put it back.     *)

Restore ==
  /\ pc = "restore"
  /\ IF Token("live") = record.candidate /\ Token("candidate") = op.displaced
     THEN Goto("restoring") /\ UNCHANGED op
     ELSE Stuck("RestoredRecovery")
  /\ UNCHANGED <<fs, codexFd, owed, quiet, used>>

ExchangeBack ==
  /\ pc = "restoring"
  /\ \/ names["live"] # NoFile /\ Swap("candidate", "live")
     \/ UNCHANGED names
  /\ Goto("restored")
  /\ UNCHANGED <<data, record, history, orphans, codexFd, op, owed, quiet, used>>

ConfirmRestored ==
  /\ pc = "restored"
  /\ \/ /\ Token("live") = op.displaced /\ Token("candidate") = record.candidate
        /\ Goto("unstage")
        /\ op' = [op EXCEPT !.plan = "cleanup"]
     \/ Stuck("RestoredRecovery")
  /\ UNCHANGED <<fs, codexFd, owed, quiet, used>>

----------------------------------------------------------------------------
(* The process dies; whatever it named only in memory is never found again. *)

Forgotten == {"quarantine"} \cup IF record = NoRecord THEN {"candidate", "stage"} ELSE {}

Crash ==
  /\ pc # "idle"
  /\ used.crashes < MaxCrashes
  /\ used' = [used EXCEPT !.crashes = @ + 1]
  /\ Return("none")
  /\ orphans' = orphans \cup ({names[n] : n \in Forgotten} \ {NoFile})
  /\ names' = [n \in Names |-> IF n \in Forgotten THEN NoFile ELSE names[n]]
  /\ UNCHANGED <<data, record, history, codexFd, owed, quiet>>

----------------------------------------------------------------------------
(* Codex.                                                                   *)

CodexMoves ==
  /\ used.moves < MaxCodexMoves
  /\ used' = [used EXCEPT !.moves = @ + 1]
  /\ quiet' = FALSE
  /\ UNCHANGED <<record, history, orphans, pc, op, outcome>>

CodexOpens ==
  /\ names["live"] # NoFile
  /\ codexFd = NoFile
  /\ used.moves < MaxCodexMoves
  /\ codexFd' = names["live"]
  /\ UNCHANGED <<fs, pc, op, outcome, owed, quiet, used>>

(* The opened file may meanwhile be displaced, quarantined or unlinked.     *)
CodexRewrites(c) ==
  /\ codexFd # NoFile
  /\ data' = [data EXCEPT ![codexFd] = c]
  /\ owed' = IF Named(codexFd) /\ ~Doomed(codexFd)
             THEN (owed \ {data[codexFd]}) \cup {c}
             ELSE owed
  /\ codexFd' = NoFile
  /\ CodexMoves
  /\ UNCHANGED names

CodexReplaces(c) ==
  /\ \E i \in Inode :
       /\ Free(i)
       /\ names' = [names EXCEPT !["live"] = i]
       /\ data' = [data EXCEPT ![i] = c]
  /\ owed' = (owed \ {Token("live")[2]}) \cup {c}
  /\ CodexMoves
  /\ UNCHANGED codexFd

CodexLogsOut ==
  /\ names["live"] # NoFile
  /\ names' = [names EXCEPT !["live"] = NoFile]
  /\ owed' = owed \ {Token("live")[2]}
  /\ CodexMoves
  /\ UNCHANGED <<data, codexFd>>

----------------------------------------------------------------------------
Application ==
  \/ BeginRecovery \/ \E new \in AppCred : BeginPublication(new)
  \/ Recover \/ Check \/ Create \/ ConfirmCreation
  \/ Stage \/ PublishRecord \/ OpenWitness \/ Recheck \/ Exchange \/ ObserveHandle
  \/ Settle \/ Classify
  \/ Unstage \/ Inspect \/ Quarantine \/ VerifyQuarantined \/ Unlink
  \/ Promote \/ DropRecord \/ TrimBackups
  \/ Restore \/ ExchangeBack \/ ConfirmRestored

Codex ==
  \/ CodexOpens
  \/ \E c \in CodexCred : CodexRewrites(c) \/ CodexReplaces(c)
  \/ CodexLogsOut

(* Between transactions nobody need ever come; inside one, some step can be *)
(* taken from every state.                                                  *)
Rest == pc = "idle" /\ UNCHANGED vars

Next == Application \/ Crash \/ Codex \/ Rest

Spec == Init /\ [][Next]_vars

----------------------------------------------------------------------------
(* Properties.                                                              *)

TypeOK ==
  /\ names \in [Names -> Inode \cup {NoFile}]
  /\ data \in [Inode -> Cred]
  /\ record \in RecordOrNone
  /\ history \in Seq(Cred)
  /\ orphans \subseteq Inode
  /\ codexFd \in Inode \cup {NoFile}
  /\ pc \in Locations
  /\ op \in Op
  /\ outcome \in Outcomes
  /\ owed \subseteq Cred
  /\ quiet \in BOOLEAN
  /\ used \in [publications : Nat, moves : Nat, crashes : Nat]

Returns(o) == pc # "idle" /\ pc' = "idle" /\ outcome' = o

ByApplication == used'.moves = used.moves

Contents(S) == {data[i] : i \in S}

Backups == {history[k] : k \in DOMAIN history}

Kept == AppCred \cup Backups \cup Contents({i \in Inode : Named(i) /\ ~Doomed(i)})

(* A credential Codex finished writing to a file that still had a name is   *)
(* somewhere on disk until Codex itself overwrites or removes it or, as the *)
(* oldest managed backup, it is retired: no exchange, restoration, cleanup, *)
(* crash or recovery of atomic_write_private_if_unchanged destroys it, even *)
(* when it landed in the displaced file after the exchange.                 *)
NoCredentialLost == owed \subseteq Kept

(* What the caller reads into a result is so.  Written promises more than   *)
(* the new live file: the displaced credential is one of the managed        *)
(* backups and no transaction is left to recover.  Changed promises that    *)
(* nothing of the attempt remains: no record, no private artifact, and the  *)
(* candidate is not the live file.                                          *)
BackedUp ==
  /\ op.expected # NoCred => op.expected \in {history'[k] : k \in DOMAIN history'}
  /\ record' = NoRecord

NothingRemains ==
  /\ record' = NoRecord
  /\ \A n \in Names \ {"live"} : names'[n] = NoFile
  /\ record # NoRecord => Token("live") # record.candidate

ResultsAreTrue ==
  [][/\ Returns("Written") => BackedUp
     /\ Returns("Changed") => NothingRemains]_vars

(* Recovery of an interrupted publication rolls artifacts forward or back   *)
(* but never changes which file is live: it has no witness for what Codex   *)
(* saw, and the caller's snapshot of live stays valid across it.            *)
RecoveryLeavesLive ==
  [][ByApplication /\ record # NoRecord /\ op.settling = "recovery"
       => names'["live"] = names["live"]]_vars

(* A crash or a failed step alone, at any point, never leaves a transaction *)
(* that later auth transactions refuse: unless Codex touched the file since *)
(* the record appeared, settle_auth_publication completes it or undoes it.  *)
QuietCrashIsRecoverable ==
  pc = "classify" /\ quiet => Verdict \in {"finalize", "cleanup", "drop"}

============================================================================
