---------------------- MODULE AuthPublicationProofs ----------------------
(***************************************************************************)
(* Proofs about AuthPublication, for every number of files, credentials,    *)
(* publications, changes by Codex and crashes.                              *)
(***************************************************************************)
EXTENDS AuthPublication, SequenceTheorems, TLAPS

(* Returning and going on keep the control variables well typed.            *)
LEMMA GotoType ==
  ASSUME NEW l \in Locations, outcome \in Outcomes, Goto(l)
  PROVE  pc' \in Locations /\ outcome' \in Outcomes
BY DEF Goto

LEMMA NoOpType == NoOp \in Op
BY DEF NoOp, Op, Absent, Tokens, Plans

LEMMA ReturnType ==
  ASSUME NEW o \in Outcomes, Return(o)
  PROVE  pc' \in Locations /\ outcome' \in Outcomes /\ op' \in Op
BY NoOpType DEF Return, Locations

LEMMA StuckType ==
  ASSUME NEW o \in Outcomes, Stuck(o)
  PROVE  pc' \in Locations /\ outcome' \in Outcomes /\ op' \in Op
BY ReturnType DEF Stuck, Outcomes

LEMMA UnreadType ==
  ASSUME Unread
  PROVE  pc' \in Locations /\ outcome' \in Outcomes /\ op' \in Op
<1>1. (IF op.inode = "Unavailable" THEN "Error" ELSE "AmbiguousRecovery") \in Outcomes
  BY DEF Outcomes
<1>2. QED BY <1>1, StuckType DEF Unread

LEMMA PlanFailedType ==
  ASSUME PlanFailed
  PROVE  pc' \in Locations /\ outcome' \in Outcomes /\ op' \in Op
<1>1. (IF op.plan = "finalize"
       THEN IF op.live = record.candidate THEN "PublishedRecovery" ELSE "AmbiguousRecovery"
       ELSE "RestoredRecovery") \in Outcomes
  BY DEF Outcomes
<1>2. QED BY <1>1, StuckType DEF PlanFailed

LEMMA SettledType ==
  ASSUME NEW b \in BOOLEAN, Settled(b), TypeOK
  PROVE  pc' \in Locations /\ outcome' \in Outcomes /\ op' \in Op
<1>1. CASE op.settling = "recovery" /\ op.task = "write"
  <2>1. Goto("check") /\ op' = [op EXCEPT !.live = Absent, !.displaced = Absent, !.plan = "none",
                               !.stays = FALSE]
    BY <1>1 DEF Settled
  <2>2. "check" \in Locations
    BY DEF Locations
  <2>3. pc' \in Locations /\ outcome' \in Outcomes
    BY <2>1, <2>2, GotoType DEF TypeOK
  <2>4. op' \in Op
    BY <2>1 DEF TypeOK, Op, Tokens, Absent, Plans
  <2>5. QED BY <2>3, <2>4
<1>2. CASE op.settling = "recovery" /\ op.task # "write"
  BY <1>2, ReturnType DEF Settled, Outcomes
<1>3. CASE op.settling # "recovery"
  <2>1. CASE b
    BY <1>3, <2>1, ReturnType DEF Settled, Outcomes
  <2>2. CASE ~b /\ op.boundary
    BY <1>3, <2>2, ReturnType DEF Settled, Outcomes
  <2>3. CASE ~b /\ ~op.boundary
    BY <1>3, <2>3, ReturnType DEF Settled, Outcomes
  <2>4. QED BY <2>1, <2>2, <2>3
<1>4. QED BY <1>1, <1>2, <1>3

(* What a read of a name returns.                                           *)
LEMMA TokenType ==
  ASSUME NEW n \in Names, TypeOK
  PROVE  /\ Token(n) \in Tokens
         /\ names[n] # NoFile => Token(n) \in Inode \X Cred
BY DEF Token, Tokens, Absent, TypeOK

----------------------------------------------------------------------------
(* The inductive invariant behind NoCredentialLost.                         *)

(* A credential in a file that only its own verified removal takes away ... *)
PrimaryFile(i) ==
  \/ i \in orphans
  \/ names["live"] = i
  \/ names["candidate"] = i
  \/ names["quarantine"] = i /\ pc # "unlink"

Saved(x) ==
  \/ x \in AppCred
  \/ \E k \in DOMAIN history : history[k] = x
  \/ \E i \in Inode : PrimaryFile(i) /\ data[i] = x

(* ... or in the independent copy of this transaction.                      *)
Spare(x) == \E i \in Inode : (names["stage"] = i \/ names["backup"] = i) /\ data[i] = x

DistinctFiles ==
  /\ \A m, n \in Names : m # n /\ names[m] = names[n] => names[m] = NoFile
  /\ \A n \in Names : names[n] \notin orphans

(* The names of a transaction exist only with its record, except while the  *)
(* prepared files wait for it.                                              *)
NamesNeedRecord ==
  record = NoRecord =>
    /\ names["backup"] = NoFile /\ names["quarantine"] = NoFile
    /\ pc # "record" => names["candidate"] = NoFile /\ names["stage"] = NoFile
    /\ pc \notin {"witness", "recheck", "exchange", "observe", "settle", "classify", "unstage",
                  "inspect", "quarantine", "verify", "unlink", "promote", "drop", "restore",
                  "restoring", "restored"}

(* Codex cannot reach the independent copy: it never was the live file.     *)
CopyIsPrivate ==
  /\ codexFd # NoFile => codexFd # names["stage"] /\ codexFd # names["backup"]
  /\ record # NoRecord =>
       /\ record.backup[2] = record.expected[2]
       /\ record.candidate[2] \in AppCred
       /\ \A n \in {"stage", "backup"} : names[n] # NoFile =>
            names[n] = record.backup[1] /\ data[names[n]] = record.backup[2]

Prepared ==
  /\ pc = "record" =>
       /\ record = NoRecord
       /\ names["candidate"] # NoFile /\ names["stage"] # NoFile
       /\ data[names["candidate"]] = op.new
       /\ data[names["stage"]] = op.expected /\ op.expected = op.live[2]
       /\ codexFd # names["candidate"]
       /\ op.live[1] # names["candidate"] /\ op.live[1] # names["stage"]
  /\ pc \in {"record", "stage"} => record = NoRecord /\ op.live \in Inode \X Cred
                                     /\ op.expected = op.live[2]
  /\ pc \in {"check", "create", "created", "trim"} => record = NoRecord
  /\ op.task = "write" => op.new \in AppCred
  /\ pc \in {"check", "create", "stage", "record"} => op.task = "write"

CandidateNamed ==
  pc \in {"witness", "recheck", "exchange", "observe", "quarantine", "restore", "restoring",
          "restored"} => names["candidate"] # NoFile

PlanUnderWay ==
  /\ pc \in {"unstage", "inspect", "quarantine", "verify", "unlink", "promote", "drop"}
       => op.plan # "none"
  /\ pc = "promote" => op.plan = "finalize"
  /\ pc = "unstage" => op.plan = "cleanup"
  /\ op.plan = "drop" => pc \in {"drop", "idle"}
  /\ names["quarantine"] # NoFile => pc \in {"verify", "unlink"}
  /\ pc \in {"verify", "unlink", "promote", "drop"} => names["candidate"] = NoFile

(* While a publication is finalized its copy is there; a cleanup has none   *)
(* left once it goes on to the candidate.                                   *)
CopyFollowsPlan ==
  /\ pc \in {"inspect", "quarantine", "verify", "unlink", "promote"} /\ op.plan = "finalize"
       => names["stage"] # NoFile \/ names["backup"] # NoFile
  /\ pc = "drop" /\ op.plan = "finalize" => names["stage"] = NoFile /\ names["backup"] # NoFile
  /\ pc \in {"inspect", "quarantine", "verify", "unlink", "drop"} /\ op.plan \in {"cleanup", "drop"}
       => names["stage"] = NoFile /\ names["backup"] = NoFile

(* Until finalization passes the point of no return, the independent copy   *)
(* is not needed: every credential owed is in a primary file.               *)
CopyNotNeeded ==
  \/ record = NoRecord
  \/ names["candidate"] # NoFile
  \/ pc = "verify"
  \/ pc \in {"unstage", "inspect", "quarantine", "unlink", "drop"} /\ op.plan \in {"cleanup", "drop"}

CredentialsHeld ==
  /\ \A x \in owed : Saved(x) \/ Spare(x)
  /\ CopyNotNeeded => \A x \in owed : Saved(x)
  /\ pc = "classify" /\ op.live[2] \in owed => Saved(op.live[2])

IInv ==
  /\ TypeOK
  /\ DistinctFiles
  /\ NamesNeedRecord
  /\ CopyIsPrivate
  /\ Prepared
  /\ CandidateNamed
  /\ PlanUnderWay
  /\ CopyFollowsPlan
  /\ CredentialsHeld

Structure ==
  /\ TypeOK
  /\ DistinctFiles
  /\ NamesNeedRecord
  /\ CopyIsPrivate
  /\ Prepared
  /\ CandidateNamed
  /\ PlanUnderWay
  /\ CopyFollowsPlan

----------------------------------------------------------------------------
(* Type correctness of each step.                                           *)

NamesTyped == names \in [Names -> Inode \cup {NoFile}]

ControlTyped == pc \in Locations /\ outcome \in Outcomes /\ op \in Op

LEMMA SwapType ==
  ASSUME NEW a \in Names, NEW b \in Names, NamesTyped, Swap(a, b)
  PROVE  NamesTyped'
BY DEF Swap, NamesTyped

(* Going on without touching the local variables.                           *)
LEMMA GoOnType ==
  ASSUME NEW l \in Locations, TypeOK, Goto(l), UNCHANGED op
  PROVE  ControlTyped'
BY DEF Goto, TypeOK, ControlTyped

LEMMA PlanFailedControl ==
  ASSUME PlanFailed
  PROVE  ControlTyped'
BY PlanFailedType DEF ControlTyped

LEMMA UnreadControl ==
  ASSUME Unread
  PROVE  ControlTyped'
BY UnreadType DEF ControlTyped

LEMMA StuckControl ==
  ASSUME NEW o \in Outcomes, Stuck(o)
  PROVE  ControlTyped'
BY StuckType DEF ControlTyped

LEMMA ReturnControl ==
  ASSUME NEW o \in Outcomes, Return(o)
  PROVE  ControlTyped'
BY ReturnType DEF ControlTyped

LEMMA SettledControl ==
  ASSUME NEW b \in BOOLEAN, Settled(b), TypeOK
  PROVE  ControlTyped'
BY SettledType DEF ControlTyped

(* One local variable assigned, or the two that go together.                *)
LEMMA OpUpdateType ==
  ASSUME op \in Op
  PROVE  /\ \A t \in Tokens : [op EXCEPT !.live = t] \in Op /\ [op EXCEPT !.displaced = t] \in Op
         /\ \A t \in Tokens, s \in {"recovery", "publication"} :
              [op EXCEPT !.live = t, !.settling = s] \in Op
         /\ \A b \in BOOLEAN : [op EXCEPT !.boundary = b] \in Op /\ [op EXCEPT !.stays = b] \in Op
         /\ \A w \in Inode \cup {NoFile} : [op EXCEPT !.witness = w] \in Op
         /\ \A v \in {"Unavailable", "Unchanged", "Changed"} : [op EXCEPT !.inode = v] \in Op
         /\ \A p \in Plans : [op EXCEPT !.plan = p] \in Op
<1>1. /\ \A t \in Tokens : [op EXCEPT !.live = t] \in Op
      /\ \A t \in Tokens : [op EXCEPT !.displaced = t] \in Op
  BY DEF Op
<1>2. \A t \in Tokens, s \in {"recovery", "publication"} :
        [op EXCEPT !.live = t, !.settling = s] \in Op
  BY DEF Op
<1>3. /\ \A b \in BOOLEAN : [op EXCEPT !.boundary = b] \in Op
      /\ \A b \in BOOLEAN : [op EXCEPT !.stays = b] \in Op
  BY DEF Op
<1>4. /\ \A w \in Inode \cup {NoFile} : [op EXCEPT !.witness = w] \in Op
      /\ \A v \in {"Unavailable", "Unchanged", "Changed"} : [op EXCEPT !.inode = v] \in Op
  BY DEF Op
<1>5. \A p \in Plans : [op EXCEPT !.plan = p] \in Op
  BY DEF Op
<1> QED
  BY <1>1, <1>2, <1>3, <1>4, <1>5

LEMMA LocationsListed ==
  /\ {"idle", "recover", "check", "create", "created", "stage", "record", "witness",
      "recheck", "exchange", "observe", "settle", "classify", "unstage", "inspect",
      "quarantine", "verify", "unlink", "promote", "drop", "trim",
      "restore", "restoring", "restored"} \subseteq Locations
  /\ AfterRemoval \in Locations
BY DEF Locations, AfterRemoval

LEMMA OutcomesListed ==
  {"none", "Recovered", "RecoveryBlocked", "Written", "Changed", "Error", "PublishedRecovery",
   "RestoredRecovery", "AmbiguousRecovery"} \subseteq Outcomes
BY DEF Outcomes

LEMMA NamesListed == Names = {"live", "candidate", "stage", "backup", "quarantine"}
BY DEF Names

(* TypeOK, by the part of the state a step may change.                      *)
LEMMA TypeParts ==
  TypeOK => /\ NamesTyped /\ ControlTyped /\ op \in Op /\ names \in [Names -> Inode \cup {NoFile}]
            /\ data \in [Inode -> Cred] /\ record \in RecordOrNone /\ history \in Seq(Cred)
            /\ orphans \subseteq Inode /\ codexFd \in Inode \cup {NoFile}
            /\ owed \subseteq Cred /\ quiet \in BOOLEAN
            /\ used \in [publications : Nat, moves : Nat, crashes : Nat]
BY DEF TypeOK, NamesTyped, ControlTyped

LEMMA TypeStep == Structure /\ [Next]_vars => TypeOK'
<1> SUFFICES ASSUME Structure, [Next]_vars PROVE TypeOK'
  OBVIOUS
<1> TypeOK
  BY DEF Structure
<1> \A n \in Names : Token(n) \in Tokens /\ (names[n] # NoFile => Token(n) \in Inode \X Cred)
  BY TokenType
<1> USE LocationsListed, OutcomesListed, NamesListed, TypeParts
<1>1. ASSUME BeginRecovery PROVE TypeOK'
  <2>1. op' \in Op
    BY <1>1, NoOpType DEF BeginRecovery, Enter, Op
  <2>2. QED BY <1>1, <2>1 DEF BeginRecovery, Enter, fs, TypeOK
<1>2. ASSUME NEW new \in AppCred, BeginPublication(new) PROVE TypeOK'
  <2>1. Token("live")[2] \in Cred \cup {NoCred}
    BY DEF Tokens
  <2>2. op' \in Op
    BY <1>2, <2>1, NoOpType DEF BeginPublication, Enter, Request, Op, Cred
  <2>3. used' \in [publications : Nat, moves : Nat, crashes : Nat]
    BY <1>2 DEF BeginPublication
  <2>4. QED BY <1>2, <2>2, <2>3 DEF BeginPublication, Enter, fs, TypeOK
<1>3. ASSUME Recover PROVE TypeOK'
  <2>1. ControlTyped'
    BY <1>3, SettledControl, GoOnType, ReturnControl DEF Recover
  <2>2. QED BY <1>3, <2>1 DEF Recover, fs, TypeOK, ControlTyped
<1>4. ASSUME Check PROVE TypeOK'
  <2>1. ControlTyped'
    <3>1. CASE Goto("create") /\ UNCHANGED op
      BY <3>1, GoOnType
    <3>2. CASE Goto("stage") /\ op' = [op EXCEPT !.live = Token("live"), !.settling = "publication"]
      BY <3>2, OpUpdateType DEF Goto, ControlTyped
    <3>3. CASE Return("Changed") \/ Return("Error")
      BY <3>3, ReturnControl
    <3>4. QED BY <1>4, <3>1, <3>2, <3>3 DEF Check
  <2>2. QED BY <1>4, <2>1 DEF Check, fs, TypeOK, ControlTyped
<1>5. ASSUME Create PROVE TypeOK'
  <2>1. op.new \in Cred
    BY <1>5 DEF Create, Structure, Prepared, Cred
  <2>2. CASE Goto("created") /\ \E i \in Inode :
               /\ names' = [names EXCEPT !["live"] = i]
               /\ data' = [data EXCEPT ![i] = op.new]
               /\ op' = [op EXCEPT !.live = <<i, op.new>>]
    <3>1. ControlTyped'
      <4>1. PICK i \in Inode : op' = [op EXCEPT !.live = <<i, op.new>>]
        BY <2>2
      <4>2. <<i, op.new>> \in Tokens
        BY <2>1 DEF Tokens
      <4>3. QED BY <2>2, <4>1, <4>2, OpUpdateType DEF Goto, TypeOK, ControlTyped
    <3>2. NamesTyped' /\ data' \in [Inode -> Cred]
      BY <2>1, <2>2 DEF NamesTyped
    <3>3. QED BY <1>5, <3>1, <3>2 DEF Create, TypeOK, NamesTyped, ControlTyped
  <2>3. CASE (Return("Changed") \/ Return("Error")) /\ UNCHANGED <<names, data>>
    BY <1>5, <2>3, ReturnControl DEF Create, TypeOK, ControlTyped
  <2>4. QED BY <1>5, <2>2, <2>3 DEF Create, TypeOK, NamesTyped, ControlTyped
<1>6. ASSUME ConfirmCreation PROVE TypeOK'
  <2>1. ControlTyped'
    BY <1>6, ReturnControl DEF ConfirmCreation
  <2>2. QED BY <1>6, <2>1 DEF ConfirmCreation, fs, TypeOK, ControlTyped
<1>7. ASSUME Stage PROVE TypeOK'
  <2>1. op.new \in Cred /\ op.expected \in Cred
    BY <1>7 DEF Stage, Structure, Prepared, Cred
  <2>2. CASE Goto("record") /\ UNCHANGED op /\ \E i, j \in Inode :
               /\ names' = [names EXCEPT !["candidate"] = i, !["stage"] = j]
               /\ data' = [data EXCEPT ![i] = op.new, ![j] = op.expected]
    <3>1. ControlTyped'
      BY <2>2, GoOnType
    <3>2. NamesTyped' /\ data' \in [Inode -> Cred]
      BY <2>1, <2>2 DEF NamesTyped
    <3>3. QED BY <1>7, <3>1, <3>2 DEF Stage, TypeOK, NamesTyped, ControlTyped
  <2>3. CASE Return("Error") /\ UNCHANGED <<names, data>>
    BY <1>7, <2>3, ReturnControl DEF Stage, TypeOK, ControlTyped
  <2>4. QED BY <1>7, <2>2, <2>3 DEF Stage, TypeOK, NamesTyped, ControlTyped
<1>8. ASSUME PublishRecord PROVE TypeOK'
  <2>1. ControlTyped'
    BY <1>8, GoOnType, ReturnControl DEF PublishRecord
  <2>2. NamesTyped'
    BY <1>8 DEF PublishRecord, DropStaged, NamesTyped
  <2>3. record' \in RecordOrNone
    <3>1. {op.live, Token("candidate"), Token("stage")} \subseteq Inode \X Cred
      BY <1>8 DEF PublishRecord, Structure, Prepared
    <3>2. QED BY <1>8, <3>1 DEF PublishRecord, RecordOrNone, Records
  <2>4. QED BY <1>8, <2>1, <2>2, <2>3 DEF PublishRecord, TypeOK, NamesTyped, ControlTyped
<1>9. ASSUME OpenWitness PROVE TypeOK'
  <2>1. ControlTyped'
    <3>1. CASE Return("Error")
      BY <3>1, ReturnControl
    <3>2. CASE Goto("recheck") /\ op' = [op EXCEPT !.witness = names["live"]]
      BY <3>2, OpUpdateType DEF Goto, ControlTyped, NamesTyped
    <3>3. CASE Goto("settle") /\ \E b \in BOOLEAN : op' = [op EXCEPT !.boundary = b]
      BY <3>3, OpUpdateType DEF Goto, ControlTyped
    <3>4. QED BY <1>9, <3>1, <3>2, <3>3 DEF OpenWitness
  <2>2. QED BY <1>9, <2>1 DEF OpenWitness, fs, TypeOK, ControlTyped
<1>10. ASSUME Recheck PROVE TypeOK'
  <2>1. ControlTyped'
    BY <1>10, GoOnType, ReturnControl DEF Recheck
  <2>2. QED BY <1>10, <2>1 DEF Recheck, fs, TypeOK, ControlTyped
<1>11. ASSUME Exchange PROVE TypeOK'
  <2>1. ControlTyped'
    BY <1>11, OpUpdateType DEF Exchange, Goto, ControlTyped
  <2>2. NamesTyped'
    BY <1>11, SwapType DEF Exchange, NamesTyped
  <2>3. QED BY <1>11, <2>1, <2>2 DEF Exchange, TypeOK, NamesTyped, ControlTyped
<1>12. ASSUME ObserveHandle PROVE TypeOK'
  <2>1. ControlTyped'
    BY <1>12, OpUpdateType DEF ObserveHandle, Goto, ControlTyped
  <2>2. QED BY <1>12, <2>1 DEF ObserveHandle, fs, TypeOK, ControlTyped
<1>13. ASSUME Settle PROVE TypeOK'
  <2>1. ControlTyped'
    <3>1. CASE Goto("classify") /\ op' = [op EXCEPT !.live = Token("live")]
      BY <3>1, OpUpdateType DEF Goto, ControlTyped
    <3>2. QED BY <1>13, <3>1, UnreadControl DEF Settle
  <2>2. QED BY <1>13, <2>1 DEF Settle, fs, TypeOK, ControlTyped
<1>14. ASSUME Classify PROVE TypeOK'
  <2>1. ControlTyped'
    <3>1. CASE /\ Verdict \in {"finalize", "cleanup", "drop"}
               /\ Goto(FirstStep[Verdict]) /\ op' = [op EXCEPT !.plan = Verdict]
      <4>1. Verdict \in Plans /\ FirstStep[Verdict] \in Locations
        BY <3>1 DEF Plans, FirstStep
      <4>2. QED BY <3>1, <4>1, OpUpdateType DEF Goto, TypeOK, ControlTyped
    <3>2. CASE Goto("restore") /\ op' = [op EXCEPT !.displaced = Token("candidate")]
      BY <3>2, OpUpdateType DEF Goto, ControlTyped
    <3>3. CASE Stuck("PublishedRecovery") \/ Stuck("AmbiguousRecovery") \/ Unread
      BY <3>3, StuckControl, UnreadControl
    <3>4. QED BY <1>14, <3>1, <3>2, <3>3 DEF Classify
  <2>2. QED BY <1>14, <2>1 DEF Classify, fs, TypeOK, ControlTyped
<1>15. ASSUME Unstage PROVE TypeOK'
  <2>1. ControlTyped' /\ NamesTyped'
    BY <1>15, GoOnType, PlanFailedControl DEF Unstage, Fail, NamesTyped
  <2>2. QED BY <1>15, <2>1 DEF Unstage, TypeOK, NamesTyped, ControlTyped
<1>16. ASSUME Inspect PROVE TypeOK'
  <2>1. ControlTyped' /\ NamesTyped'
    BY <1>16, GoOnType, PlanFailedControl DEF Inspect, Fail, NamesTyped
  <2>2. QED BY <1>16, <2>1 DEF Inspect, TypeOK, NamesTyped, ControlTyped
<1>17. ASSUME Quarantine PROVE TypeOK'
  <2>1. ControlTyped' /\ NamesTyped'
    BY <1>17, GoOnType, PlanFailedControl, SwapType DEF Quarantine, Fail, NamesTyped
  <2>2. QED BY <1>17, <2>1 DEF Quarantine, TypeOK, NamesTyped, ControlTyped
<1>18. ASSUME VerifyQuarantined PROVE TypeOK'
  <2>1. ControlTyped' /\ NamesTyped'
    BY <1>18, GoOnType, PlanFailedControl, SwapType DEF VerifyQuarantined, NamesTyped
  <2>2. QED BY <1>18, <2>1 DEF VerifyQuarantined, TypeOK, NamesTyped, ControlTyped
<1>19. ASSUME Unlink PROVE TypeOK'
  <2>1. ControlTyped' /\ NamesTyped'
    BY <1>19, GoOnType, PlanFailedControl DEF Unlink, NamesTyped
  <2>2. QED BY <1>19, <2>1 DEF Unlink, TypeOK, NamesTyped, ControlTyped
<1>20. ASSUME Promote PROVE TypeOK'
  <2>1. ControlTyped'
    <3>1. CASE Goto("drop") /\ ReadLive
      BY <3>1, OpUpdateType DEF ReadLive, Goto, ControlTyped
    <3>2. CASE PlanFailed
      BY <3>2, PlanFailedControl
    <3>3. QED BY <1>20, <3>1, <3>2 DEF Promote, Fail
  <2>2. NamesTyped'
    BY <1>20, SwapType DEF Promote, Fail, NamesTyped
  <2>3. QED BY <1>20, <2>1, <2>2 DEF Promote, TypeOK, NamesTyped, ControlTyped
<1>21. ASSUME DropRecord PROVE TypeOK'
  <2>1. ControlTyped'
    <3>1. CASE Goto("trim") /\ UNCHANGED op
      BY <3>1, GoOnType
    <3>2. CASE Settled(FALSE)
      BY <3>2, SettledControl
    <3>3. CASE PlanFailed
      BY <3>3, PlanFailedControl
    <3>4. QED BY <1>21, <3>1, <3>2, <3>3 DEF DropRecord, Fail
  <2>2. NamesTyped'
    BY <1>21 DEF DropRecord, Fail, NamesTyped
  <2>3. history' \in Seq(Cred)
    <3>1. names["backup"] # NoFile => data[names["backup"]] \in Cred
      BY DEF NamesTyped
    <3>2. CASE names["backup"] # NoFile
      <4>1. Append(history, data[names["backup"]]) \in Seq(Cred)
        BY <3>1, <3>2, AppendProperties DEF TypeOK
      <4>2. QED BY <1>21, <3>2, <4>1 DEF DropRecord, TypeOK
    <3>3. CASE names["backup"] = NoFile
      BY <1>21, <3>3 DEF DropRecord, TypeOK
    <3>4. QED BY <3>2, <3>3
  <2>4. record' \in RecordOrNone
    BY <1>21 DEF DropRecord, RecordOrNone
  <2>5. QED BY <1>21, <2>1, <2>2, <2>3, <2>4 DEF DropRecord, TypeOK, NamesTyped, ControlTyped
<1>22. ASSUME TrimBackups PROVE TypeOK'
  <2>1. ControlTyped'
    <3>1. op.stays \in BOOLEAN
      BY DEF Op
    <3>2. QED BY <1>22, <3>1, SettledControl DEF TrimBackups
  <2>2. history' \in Seq(Cred)
    <3>1. Excess \in Nat
      BY PublicationConstants DEF Excess
    <3>2. \A i \in (Excess + 1) .. Len(history) : history[i] \in Cred
      BY <3>1
    <3>3. QED BY <1>22, <3>1, <3>2, SubSeqProperties DEF TrimBackups
  <2>3. QED BY <1>22, <2>1, <2>2 DEF TrimBackups, TypeOK, NamesTyped, ControlTyped
<1>23. ASSUME Restore PROVE TypeOK'
  <2>1. ControlTyped'
    BY <1>23, GoOnType, StuckControl DEF Restore
  <2>2. QED BY <1>23, <2>1 DEF Restore, fs, TypeOK, ControlTyped
<1>24. ASSUME ExchangeBack PROVE TypeOK'
  <2>1. ControlTyped' /\ NamesTyped'
    BY <1>24, GoOnType, SwapType DEF ExchangeBack, NamesTyped
  <2>2. QED BY <1>24, <2>1 DEF ExchangeBack, TypeOK, NamesTyped, ControlTyped
<1>25. ASSUME ConfirmRestored PROVE TypeOK'
  <2>1. ControlTyped'
    BY <1>25, StuckControl, OpUpdateType DEF ConfirmRestored, Goto, ControlTyped, Plans
  <2>2. QED BY <1>25, <2>1 DEF ConfirmRestored, fs, TypeOK, ControlTyped
<1>26. ASSUME Crash PROVE TypeOK'
  <2>1. ControlTyped'
    BY <1>26, ReturnControl DEF Crash
  <2>2. NamesTyped' /\ orphans' \subseteq Inode
    BY <1>26 DEF Crash, Forgotten, NamesTyped
  <2>3. used' \in [publications : Nat, moves : Nat, crashes : Nat]
    BY <1>26 DEF Crash
  <2>4. QED BY <1>26, <2>1, <2>2, <2>3 DEF Crash, TypeOK, NamesTyped, ControlTyped
<1>27. ASSUME CodexOpens PROVE TypeOK'
  BY <1>27 DEF CodexOpens, fs, TypeOK
<1>28. ASSUME NEW c \in CodexCred, CodexRewrites(c) PROVE TypeOK'
  <2>1. used' \in [publications : Nat, moves : Nat, crashes : Nat]
    BY <1>28 DEF CodexRewrites, CodexMoves, TypeOK
  <2>2. data' \in [Inode -> Cred] /\ owed' \subseteq Cred
    BY <1>28 DEF CodexRewrites, TypeOK, Cred
  <2>3. QED BY <1>28, <2>1, <2>2 DEF CodexRewrites, CodexMoves, TypeOK
<1>29. ASSUME NEW c \in CodexCred, CodexReplaces(c) PROVE TypeOK'
  <2>1. used' \in [publications : Nat, moves : Nat, crashes : Nat]
    BY <1>29 DEF CodexReplaces, CodexMoves, TypeOK
  <2>2. data' \in [Inode -> Cred] /\ NamesTyped' /\ owed' \subseteq Cred
    BY <1>29 DEF CodexReplaces, NamesTyped, TypeOK, Cred
  <2>3. QED BY <1>29, <2>1, <2>2 DEF CodexReplaces, CodexMoves, NamesTyped, TypeOK
<1>30. ASSUME CodexLogsOut PROVE TypeOK'
  <2>1. used' \in [publications : Nat, moves : Nat, crashes : Nat]
    BY <1>30 DEF CodexLogsOut, CodexMoves, TypeOK
  <2>2. NamesTyped' /\ owed' \subseteq Cred
    BY <1>30 DEF CodexLogsOut, NamesTyped, TypeOK
  <2>3. QED BY <1>30, <2>1, <2>2 DEF CodexLogsOut, CodexMoves, NamesTyped, TypeOK
<1>31. CASE UNCHANGED vars
  BY <1>31 DEF vars, TypeOK
<1>32. CASE Rest
  BY <1>32 DEF Rest, vars, TypeOK
<1>33. QED
  BY <1>1, <1>2, <1>3, <1>4, <1>5, <1>6, <1>7, <1>8, <1>9, <1>10, <1>11, <1>12, <1>13, <1>14,
     <1>15, <1>16, <1>17, <1>18, <1>19, <1>20, <1>21, <1>22, <1>23, <1>24, <1>25, <1>26, <1>27,
     <1>28, <1>29, <1>30, <1>31, <1>32
     DEF Next, Application, Codex

----------------------------------------------------------------------------
(* What returning and going on do to the local variables.                   *)

LEMMA SettledMeans ==
  ASSUME NEW b \in BOOLEAN, Settled(b), op \in Op
  PROVE  \/ pc' = "idle" /\ op' = NoOp
         \/ /\ pc' = "check" /\ op.task = "write"
            /\ op'.task = op.task /\ op'.new = op.new /\ op'.plan = "none"
<1>1. CASE op.settling = "recovery" /\ op.task = "write"
  <2>1. op' = [op EXCEPT !.live = Absent, !.displaced = Absent, !.plan = "none",
                               !.stays = FALSE] /\ pc' = "check"
    BY <1>1 DEF Settled, Goto
  <2>2. op'.task = op.task /\ op'.new = op.new /\ op'.plan = "none"
    BY <2>1 DEF Op
  <2>3. QED BY <1>1, <2>1, <2>2
<1>2. CASE ~(op.settling = "recovery" /\ op.task = "write")
  BY <1>2 DEF Settled, Return
<1>3. QED BY <1>1, <1>2

LEMMA StuckMeans ==
  ASSUME NEW o, Stuck(o)
  PROVE  pc' = "idle" /\ op' = NoOp
BY DEF Stuck, Return

LEMMA UnreadMeans ==
  ASSUME Unread
  PROVE  pc' = "idle" /\ op' = NoOp
BY StuckMeans DEF Unread

LEMMA ClassifyMeans ==
  ASSUME Classify
  PROVE  \/ Verdict = "finalize" /\ pc' = "inspect" /\ op' = [op EXCEPT !.plan = "finalize"]
         \/ Verdict = "cleanup" /\ pc' = "unstage" /\ op' = [op EXCEPT !.plan = "cleanup"]
         \/ Verdict = "drop" /\ pc' = "drop" /\ op' = [op EXCEPT !.plan = "drop"]
         \/ Verdict = "restore" /\ pc' = "restore" /\ op' = [op EXCEPT !.displaced = Token("candidate")]
         \/ pc' = "idle" /\ op' = NoOp
<1>1. CASE Verdict = "finalize" /\ Goto(FirstStep[Verdict]) /\ op' = [op EXCEPT !.plan = Verdict]
  BY <1>1 DEF FirstStep, Goto
<1>2. CASE Verdict = "cleanup" /\ Goto(FirstStep[Verdict]) /\ op' = [op EXCEPT !.plan = Verdict]
  BY <1>2 DEF FirstStep, Goto
<1>3. CASE Verdict = "drop" /\ Goto(FirstStep[Verdict]) /\ op' = [op EXCEPT !.plan = Verdict]
  BY <1>3 DEF FirstStep, Goto
<1>4. CASE Verdict = "restore" /\ Goto("restore") /\ op' = [op EXCEPT !.displaced = Token("candidate")]
  BY <1>4 DEF Goto
<1>5. CASE Stuck("PublishedRecovery") \/ Stuck("AmbiguousRecovery") \/ Unread
  BY <1>5, StuckMeans, UnreadMeans
<1>6. QED BY <1>1, <1>2, <1>3, <1>4, <1>5 DEF Classify

LEMMA PlanFailedMeans ==
  ASSUME PlanFailed
  PROVE  pc' = "idle" /\ op' = NoOp
BY StuckMeans DEF PlanFailed

----------------------------------------------------------------------------
(* Which names are taken, and by which files.                               *)

LEMMA FilesStep ==
  Structure /\ [Next]_vars => DistinctFiles' /\ NamesNeedRecord' /\ CopyIsPrivate'
<1> SUFFICES ASSUME Structure, [Next]_vars
             PROVE  DistinctFiles' /\ NamesNeedRecord' /\ CopyIsPrivate'
  OBVIOUS
<1> USE NamesListed, SettledMeans, StuckMeans, UnreadMeans, PlanFailedMeans
<1> USE DEF Structure, TypeOK, NamesNeedRecord, Prepared, PlanUnderWay, Goto, Return, fs
<1>1. ASSUME BeginRecovery
      PROVE  DistinctFiles' /\ NamesNeedRecord' /\ CopyIsPrivate'
  <2>1. DistinctFiles'
    BY PublicationConstants, <1>1 DEF BeginRecovery, Enter, NoOp, DistinctFiles
  <2>2. NamesNeedRecord'
    BY PublicationConstants, <1>1 DEF BeginRecovery, Enter, NoOp, CandidateNamed, CopyFollowsPlan
  <2>3. CopyIsPrivate'
    BY PublicationConstants, <1>1 DEF BeginRecovery, Enter, NoOp, DistinctFiles,
       CopyIsPrivate, CandidateNamed, RecordOrNone, Records, Cred
  <2>4. QED BY <2>1, <2>2, <2>3
<1>2. ASSUME NEW new \in AppCred, BeginPublication(new)
      PROVE  DistinctFiles' /\ NamesNeedRecord' /\ CopyIsPrivate'
  <2>1. DistinctFiles'
    BY PublicationConstants, <1>2 DEF BeginPublication, Enter, Request, NoOp, Token, Absent,
       DistinctFiles
  <2>2. NamesNeedRecord'
    BY PublicationConstants, <1>2 DEF BeginPublication, Enter, Request, NoOp, Token, Absent,
       CandidateNamed, CopyFollowsPlan
  <2>3. CopyIsPrivate'
    BY PublicationConstants, <1>2 DEF BeginPublication, Enter, Request, NoOp, Token, Absent,
       DistinctFiles, CopyIsPrivate, CandidateNamed, RecordOrNone, Records, Cred
  <2>4. QED BY <2>1, <2>2, <2>3
<1>3. ASSUME Recover
      PROVE  DistinctFiles' /\ NamesNeedRecord' /\ CopyIsPrivate'
  <2>1. DistinctFiles'
    BY PublicationConstants, <1>3 DEF Recover, DistinctFiles
  <2>2. NamesNeedRecord'
    BY PublicationConstants, <1>3 DEF Recover, CandidateNamed, CopyFollowsPlan
  <2>3. CopyIsPrivate'
    BY PublicationConstants, <1>3 DEF Recover, DistinctFiles, CopyIsPrivate, CandidateNamed,
       RecordOrNone, Records, Cred
  <2>4. QED BY <2>1, <2>2, <2>3
<1>4. ASSUME Check
      PROVE  DistinctFiles' /\ NamesNeedRecord' /\ CopyIsPrivate'
  <2>1. DistinctFiles'
    BY PublicationConstants, <1>4 DEF Check, Token, Absent, DistinctFiles
  <2>2. NamesNeedRecord'
    BY PublicationConstants, <1>4 DEF Check, Token, Absent, CandidateNamed, CopyFollowsPlan
  <2>3. CopyIsPrivate'
    BY PublicationConstants, <1>4 DEF Check, Token, Absent, DistinctFiles, CopyIsPrivate,
       CandidateNamed, RecordOrNone, Records, Cred
  <2>4. QED BY <2>1, <2>2, <2>3
<1>5. ASSUME Create
      PROVE  DistinctFiles' /\ NamesNeedRecord' /\ CopyIsPrivate'
  <2>1. DistinctFiles'
    BY PublicationConstants, <1>5 DEF Create, Free, Named, DistinctFiles
  <2>2. NamesNeedRecord'
    BY PublicationConstants, <1>5 DEF Create, Free, Named, CandidateNamed, CopyFollowsPlan
  <2>3. CopyIsPrivate'
    BY PublicationConstants, <1>5 DEF Create, Free, Named, DistinctFiles, CopyIsPrivate,
       CandidateNamed, RecordOrNone, Records, Cred
  <2>4. QED BY <2>1, <2>2, <2>3
<1>6. ASSUME ConfirmCreation
      PROVE  DistinctFiles' /\ NamesNeedRecord' /\ CopyIsPrivate'
  <2>1. DistinctFiles'
    BY PublicationConstants, <1>6 DEF ConfirmCreation, DistinctFiles
  <2>2. NamesNeedRecord'
    BY PublicationConstants, <1>6 DEF ConfirmCreation, CandidateNamed, CopyFollowsPlan
  <2>3. CopyIsPrivate'
    BY PublicationConstants, <1>6 DEF ConfirmCreation, DistinctFiles, CopyIsPrivate,
       CandidateNamed, RecordOrNone, Records, Cred
  <2>4. QED BY <2>1, <2>2, <2>3
<1>7. ASSUME Stage
      PROVE  DistinctFiles' /\ NamesNeedRecord' /\ CopyIsPrivate'
  <2>1. DistinctFiles'
    BY PublicationConstants, <1>7 DEF Stage, Free, Named, DistinctFiles
  <2>2. NamesNeedRecord'
    BY PublicationConstants, <1>7 DEF Stage, Free, Named, CandidateNamed, CopyFollowsPlan
  <2>3. CopyIsPrivate'
    BY PublicationConstants, <1>7 DEF Stage, Free, Named, DistinctFiles, CopyIsPrivate,
       CandidateNamed, RecordOrNone, Records, Cred
  <2>4. QED BY <2>1, <2>2, <2>3
<1>8. ASSUME PublishRecord
      PROVE  DistinctFiles' /\ NamesNeedRecord' /\ CopyIsPrivate'
  <2>1. DistinctFiles'
    <3>1. CASE UNCHANGED names
      BY <1>8, <3>1 DEF PublishRecord, DistinctFiles
    <3>2. CASE DropStaged
      BY <1>8, <3>2 DEF PublishRecord, DropStaged, DistinctFiles
    <3>3. QED BY <1>8, <3>1, <3>2 DEF PublishRecord
  <2>2. NamesNeedRecord'
    <3>1. CASE record' # NoRecord
      BY <3>1
    <3>2. CASE record' = NoRecord
      <4>1. DropStaged /\ Return("Error") /\ UNCHANGED record
        <5>1. [expected |-> op.live, candidate |-> Token("candidate"), backup |-> Token("stage")]
                \in Records
          BY <1>8, TokenType DEF PublishRecord, Records
        <5>2. QED BY <1>8, <3>2, <5>1, PublicationConstants DEF PublishRecord
      <4>2. QED BY <1>8, <4>1 DEF PublishRecord, DropStaged
    <3>3. QED BY <3>1, <3>2
  <2>3. CopyIsPrivate'
    BY PublicationConstants, <1>8 DEF PublishRecord, DropStaged, Token, Absent,
       DistinctFiles, CopyIsPrivate, CandidateNamed, RecordOrNone, Records, Cred
  <2>4. QED BY <2>1, <2>2, <2>3
<1>9. ASSUME OpenWitness
      PROVE  DistinctFiles' /\ NamesNeedRecord' /\ CopyIsPrivate'
  <2>1. DistinctFiles'
    BY PublicationConstants, <1>9 DEF OpenWitness, Token, Absent, DistinctFiles
  <2>2. NamesNeedRecord'
    BY PublicationConstants, <1>9 DEF OpenWitness, Token, Absent, CandidateNamed, CopyFollowsPlan
  <2>3. CopyIsPrivate'
    BY PublicationConstants, <1>9 DEF OpenWitness, Token, Absent, DistinctFiles,
       CopyIsPrivate, CandidateNamed, RecordOrNone, Records, Cred
  <2>4. QED BY <2>1, <2>2, <2>3
<1>10. ASSUME Recheck
      PROVE  DistinctFiles' /\ NamesNeedRecord' /\ CopyIsPrivate'
  <2>1. DistinctFiles'
    BY PublicationConstants, <1>10 DEF Recheck, DistinctFiles
  <2>2. NamesNeedRecord'
    BY PublicationConstants, <1>10 DEF Recheck, CandidateNamed, CopyFollowsPlan
  <2>3. CopyIsPrivate'
    BY PublicationConstants, <1>10 DEF Recheck, DistinctFiles, CopyIsPrivate,
       CandidateNamed, RecordOrNone, Records, Cred
  <2>4. QED BY <2>1, <2>2, <2>3
<1>11. ASSUME Exchange
      PROVE  DistinctFiles' /\ NamesNeedRecord' /\ CopyIsPrivate'
  <2>1. DistinctFiles'
    BY PublicationConstants, <1>11 DEF Exchange, Swap, DistinctFiles
  <2>2. NamesNeedRecord'
    BY PublicationConstants, <1>11 DEF Exchange, Swap, CandidateNamed, CopyFollowsPlan
  <2>3. CopyIsPrivate'
    BY PublicationConstants, <1>11 DEF Exchange, Swap, DistinctFiles, CopyIsPrivate,
       CandidateNamed, RecordOrNone, Records, Cred
  <2>4. QED BY <2>1, <2>2, <2>3
<1>12. ASSUME ObserveHandle
      PROVE  DistinctFiles' /\ NamesNeedRecord' /\ CopyIsPrivate'
  <2>1. DistinctFiles'
    BY PublicationConstants, <1>12 DEF ObserveHandle, DistinctFiles
  <2>2. NamesNeedRecord'
    BY PublicationConstants, <1>12 DEF ObserveHandle, CandidateNamed, CopyFollowsPlan
  <2>3. CopyIsPrivate'
    BY PublicationConstants, <1>12 DEF ObserveHandle, DistinctFiles, CopyIsPrivate,
       CandidateNamed, RecordOrNone, Records, Cred
  <2>4. QED BY <2>1, <2>2, <2>3
<1>13. ASSUME Settle
      PROVE  DistinctFiles' /\ NamesNeedRecord' /\ CopyIsPrivate'
  <2>1. DistinctFiles'
    BY PublicationConstants, <1>13 DEF Settle, Token, Absent, DistinctFiles
  <2>2. NamesNeedRecord'
    BY PublicationConstants, <1>13 DEF Settle, Token, Absent, CandidateNamed, CopyFollowsPlan
  <2>3. CopyIsPrivate'
    BY PublicationConstants, <1>13 DEF Settle, Token, Absent, DistinctFiles, CopyIsPrivate,
       CandidateNamed, RecordOrNone, Records, Cred
  <2>4. QED BY <2>1, <2>2, <2>3
<1>14. ASSUME Classify
      PROVE  DistinctFiles' /\ NamesNeedRecord' /\ CopyIsPrivate'
  <2>1. DistinctFiles'
    <3>1. names' = names /\ orphans' = orphans
      BY <1>14 DEF Classify, fs
    <3>2. QED BY <3>1 DEF DistinctFiles
  <2>2. NamesNeedRecord'
    BY PublicationConstants, <1>14 DEF Classify, FirstStep, Verdict, CanFinalize, Foreign,
       CanCleanUp, NothingLeft, CandidateLive, DisplacedKnown, BackupWaiting,
       BackupRetained, WonBeforeExchange, Token, Absent, CandidateNamed, CopyFollowsPlan
  <2>3. CopyIsPrivate'
    BY PublicationConstants, <1>14 DEF Classify, FirstStep, Verdict, CanFinalize, Foreign,
       CanCleanUp, NothingLeft, CandidateLive, DisplacedKnown, BackupWaiting,
       BackupRetained, WonBeforeExchange, Token, Absent, DistinctFiles, CopyIsPrivate,
       CandidateNamed, RecordOrNone, Records, Cred
  <2>4. QED BY <2>1, <2>2, <2>3
<1>15. ASSUME Unstage
      PROVE  DistinctFiles' /\ NamesNeedRecord' /\ CopyIsPrivate'
  <2>1. DistinctFiles'
    BY PublicationConstants, <1>15 DEF Unstage, Fail, DistinctFiles
  <2>2. NamesNeedRecord'
    BY PublicationConstants, <1>15 DEF Unstage, Fail, CandidateNamed, CopyFollowsPlan
  <2>3. CopyIsPrivate'
    BY PublicationConstants, <1>15 DEF Unstage, Fail, DistinctFiles, CopyIsPrivate,
       CandidateNamed, RecordOrNone, Records, Cred
  <2>4. QED BY <2>1, <2>2, <2>3
<1>16. ASSUME Inspect
      PROVE  DistinctFiles' /\ NamesNeedRecord' /\ CopyIsPrivate'
  <2>1. DistinctFiles'
    BY PublicationConstants, <1>16 DEF Inspect, Fail, Bound, AfterRemoval, Token, Absent,
       DistinctFiles
  <2>2. NamesNeedRecord'
    BY PublicationConstants, <1>16 DEF Inspect, Fail, Bound, AfterRemoval, Token, Absent,
       CandidateNamed, CopyFollowsPlan
  <2>3. CopyIsPrivate'
    BY PublicationConstants, <1>16 DEF Inspect, Fail, Bound, AfterRemoval, Token, Absent,
       DistinctFiles, CopyIsPrivate, CandidateNamed, RecordOrNone, Records, Cred
  <2>4. QED BY <2>1, <2>2, <2>3
<1>17. ASSUME Quarantine
      PROVE  DistinctFiles' /\ NamesNeedRecord' /\ CopyIsPrivate'
  <2>1. DistinctFiles'
    BY PublicationConstants, <1>17 DEF Quarantine, Fail, Swap, DistinctFiles
  <2>2. NamesNeedRecord'
    BY PublicationConstants, <1>17 DEF Quarantine, Fail, Swap, CandidateNamed, CopyFollowsPlan
  <2>3. CopyIsPrivate'
    <3>1. names'["stage"] = names["stage"] /\ names'["backup"] = names["backup"]
      BY <1>17 DEF Quarantine, Fail, Swap
    <3>2. UNCHANGED <<data, record, codexFd>>
      BY <1>17 DEF Quarantine
    <3>3. QED BY <3>1, <3>2 DEF CopyIsPrivate
  <2>4. QED BY <2>1, <2>2, <2>3
<1>18. ASSUME VerifyQuarantined
      PROVE  DistinctFiles' /\ NamesNeedRecord' /\ CopyIsPrivate'
  <2>1. DistinctFiles'
    BY PublicationConstants, <1>18 DEF VerifyQuarantined, Swap, DistinctFiles
  <2>2. NamesNeedRecord'
    BY PublicationConstants, <1>18 DEF VerifyQuarantined, Swap, CandidateNamed, CopyFollowsPlan
  <2>3. CopyIsPrivate'
    BY PublicationConstants, <1>18 DEF VerifyQuarantined, Swap, DistinctFiles,
       CopyIsPrivate, CandidateNamed, RecordOrNone, Records, Cred
  <2>4. QED BY <2>1, <2>2, <2>3
<1>19. ASSUME Unlink
      PROVE  DistinctFiles' /\ NamesNeedRecord' /\ CopyIsPrivate'
  <2>1. DistinctFiles'
    BY PublicationConstants, <1>19 DEF Unlink, AfterRemoval, DistinctFiles
  <2>2. NamesNeedRecord'
    BY PublicationConstants, <1>19 DEF Unlink, AfterRemoval, CandidateNamed, CopyFollowsPlan
  <2>3. CopyIsPrivate'
    BY PublicationConstants, <1>19 DEF Unlink, AfterRemoval, DistinctFiles, CopyIsPrivate,
       CandidateNamed, RecordOrNone, Records, Cred
  <2>4. QED BY <2>1, <2>2, <2>3
<1>20. ASSUME Promote
      PROVE  DistinctFiles' /\ NamesNeedRecord' /\ CopyIsPrivate'
  <2>1. DistinctFiles'
    BY PublicationConstants, <1>20 DEF Promote, Fail, Swap, BackupWaiting, BackupRetained,
       Token, Absent, DistinctFiles
  <2>2. NamesNeedRecord'
    BY PublicationConstants, <1>20 DEF Promote, Fail, Swap, BackupWaiting, BackupRetained,
       Token, Absent, CandidateNamed, CopyFollowsPlan
  <2>3. CopyIsPrivate'
    BY PublicationConstants, <1>20 DEF Promote, Fail, Swap, BackupWaiting, BackupRetained,
       Token, Absent, DistinctFiles, CopyIsPrivate, CandidateNamed, RecordOrNone, Records,
       Cred
  <2>4. QED BY <2>1, <2>2, <2>3
<1>21. ASSUME DropRecord
      PROVE  DistinctFiles' /\ NamesNeedRecord' /\ CopyIsPrivate'
  <2>1. DistinctFiles'
    <3>1. CASE names' = [names EXCEPT !["backup"] = NoFile]
      BY <1>21, <3>1 DEF DropRecord, DistinctFiles
    <3>2. CASE UNCHANGED names
      BY <1>21, <3>2 DEF DropRecord, DistinctFiles
    <3>3. QED BY <1>21, <3>1, <3>2 DEF DropRecord, Fail
  <2>2. NamesNeedRecord'
    <3>1. CASE record' = NoRecord /\ names' = [names EXCEPT !["backup"] = NoFile]
      <4>1. names["candidate"] = NoFile /\ names["stage"] = NoFile /\ names["quarantine"] = NoFile
        BY <1>21 DEF DropRecord, CopyFollowsPlan, Op, Plans
      <4>2. pc' \in {"trim", "check", "idle"}
        <5>1. CASE Goto("trim") \/ PlanFailed
          BY <5>1
        <5>2. CASE Settled(FALSE)
          BY <5>2, SettledMeans, Zenon
        <5>3. QED BY <1>21, <5>1, <5>2 DEF DropRecord, Fail
      <4>3. QED BY <3>1, <4>1, <4>2
    <3>2. CASE UNCHANGED <<names, record>> /\ PlanFailed
      BY <1>21, <3>2 DEF DropRecord
    <3>3. QED BY <1>21, <3>1, <3>2 DEF DropRecord, Fail
  <2>3. CopyIsPrivate'
    BY PublicationConstants, <1>21 DEF DropRecord, Fail, DistinctFiles, CopyIsPrivate,
       CandidateNamed, RecordOrNone, Records, Cred
  <2>4. QED BY <2>1, <2>2, <2>3
<1>22. ASSUME TrimBackups
      PROVE  DistinctFiles' /\ NamesNeedRecord' /\ CopyIsPrivate'
  <2>1. DistinctFiles'
    BY PublicationConstants, <1>22 DEF TrimBackups, DistinctFiles
  <2>2. NamesNeedRecord'
    <3>1. Settled(op.stays) /\ op.stays \in BOOLEAN
      BY <1>22 DEF TrimBackups, Op
    <3>2. pc' \in {"idle", "check"}
      BY <3>1, SettledMeans, Zenon
    <3>3. QED BY <1>22, <3>2 DEF TrimBackups
  <2>3. CopyIsPrivate'
    BY PublicationConstants, <1>22 DEF TrimBackups, DistinctFiles, CopyIsPrivate,
       CandidateNamed, RecordOrNone, Records, Cred
  <2>4. QED BY <2>1, <2>2, <2>3
<1>23. ASSUME Restore
      PROVE  DistinctFiles' /\ NamesNeedRecord' /\ CopyIsPrivate'
  <2>1. DistinctFiles'
    BY PublicationConstants, <1>23 DEF Restore, DistinctFiles
  <2>2. NamesNeedRecord'
    BY PublicationConstants, <1>23 DEF Restore, CandidateNamed, CopyFollowsPlan
  <2>3. CopyIsPrivate'
    BY PublicationConstants, <1>23 DEF Restore, DistinctFiles, CopyIsPrivate,
       CandidateNamed, RecordOrNone, Records, Cred
  <2>4. QED BY <2>1, <2>2, <2>3
<1>24. ASSUME ExchangeBack
      PROVE  DistinctFiles' /\ NamesNeedRecord' /\ CopyIsPrivate'
  <2>1. DistinctFiles'
    BY PublicationConstants, <1>24 DEF ExchangeBack, Swap, DistinctFiles
  <2>2. NamesNeedRecord'
    BY PublicationConstants, <1>24 DEF ExchangeBack, Swap, CandidateNamed, CopyFollowsPlan
  <2>3. /\ names'["stage"] = names["stage"] /\ names'["backup"] = names["backup"]
        /\ UNCHANGED <<data, record, codexFd>>
    BY <1>24 DEF ExchangeBack, Swap
  <2>4. CopyIsPrivate'
    BY <2>3 DEF CopyIsPrivate
  <2>5. QED BY <2>1, <2>2, <2>4
<1>25. ASSUME ConfirmRestored
      PROVE  DistinctFiles' /\ NamesNeedRecord' /\ CopyIsPrivate'
  <2>1. DistinctFiles'
    BY PublicationConstants, <1>25 DEF ConfirmRestored, Token, Absent, DistinctFiles
  <2>2. NamesNeedRecord'
    BY PublicationConstants, <1>25 DEF ConfirmRestored, Token, Absent, CandidateNamed,
       CopyFollowsPlan
  <2>3. CopyIsPrivate'
    BY PublicationConstants, <1>25 DEF ConfirmRestored, Token, Absent, DistinctFiles,
       CopyIsPrivate, CandidateNamed, RecordOrNone, Records, Cred
  <2>4. QED BY <2>1, <2>2, <2>3
<1>26. ASSUME Crash
      PROVE  DistinctFiles' /\ NamesNeedRecord' /\ CopyIsPrivate'
  <2>1. DistinctFiles'
    BY PublicationConstants, <1>26 DEF Crash, Forgotten, DistinctFiles
  <2>2. NamesNeedRecord'
    BY PublicationConstants, <1>26 DEF Crash, Forgotten, CandidateNamed, CopyFollowsPlan
  <2>3. CopyIsPrivate'
    BY PublicationConstants, <1>26 DEF Crash, Forgotten, DistinctFiles, CopyIsPrivate,
       CandidateNamed, RecordOrNone, Records, Cred
  <2>4. QED BY <2>1, <2>2, <2>3
<1>27. ASSUME CodexOpens
      PROVE  DistinctFiles' /\ NamesNeedRecord' /\ CopyIsPrivate'
  <2>1. DistinctFiles'
    BY PublicationConstants, <1>27 DEF CodexOpens, DistinctFiles
  <2>2. NamesNeedRecord'
    BY PublicationConstants, <1>27 DEF CodexOpens, CandidateNamed, CopyFollowsPlan
  <2>3. CopyIsPrivate'
    BY PublicationConstants, <1>27 DEF CodexOpens, DistinctFiles, CopyIsPrivate,
       CandidateNamed, RecordOrNone, Records, Cred
  <2>4. QED BY <2>1, <2>2, <2>3
<1>28. ASSUME NEW c \in CodexCred, CodexRewrites(c)
      PROVE  DistinctFiles' /\ NamesNeedRecord' /\ CopyIsPrivate'
  <2>1. DistinctFiles'
    BY PublicationConstants, <1>28 DEF CodexRewrites, CodexMoves, DistinctFiles
  <2>2. NamesNeedRecord'
    BY PublicationConstants, <1>28 DEF CodexRewrites, CodexMoves, CandidateNamed, CopyFollowsPlan
  <2>3. CopyIsPrivate'
    BY PublicationConstants, <1>28 DEF CodexRewrites, CodexMoves, DistinctFiles,
       CopyIsPrivate, CandidateNamed, RecordOrNone, Records, Cred
  <2>4. QED BY <2>1, <2>2, <2>3
<1>29. ASSUME NEW c \in CodexCred, CodexReplaces(c)
      PROVE  DistinctFiles' /\ NamesNeedRecord' /\ CopyIsPrivate'
  <2>1. DistinctFiles'
    BY PublicationConstants, <1>29 DEF CodexReplaces, CodexMoves, Free, Named, DistinctFiles
  <2>2. NamesNeedRecord'
    BY PublicationConstants, <1>29 DEF CodexReplaces, CodexMoves, Free, Named,
       CandidateNamed, CopyFollowsPlan
  <2>3. CopyIsPrivate'
    BY PublicationConstants, <1>29 DEF CodexReplaces, CodexMoves, Free, Named,
       DistinctFiles, CopyIsPrivate, CandidateNamed, RecordOrNone, Records, Cred
  <2>4. QED BY <2>1, <2>2, <2>3
<1>30. ASSUME CodexLogsOut
      PROVE  DistinctFiles' /\ NamesNeedRecord' /\ CopyIsPrivate'
  <2>1. DistinctFiles'
    BY PublicationConstants, <1>30 DEF CodexLogsOut, CodexMoves, DistinctFiles
  <2>2. NamesNeedRecord'
    BY PublicationConstants, <1>30 DEF CodexLogsOut, CodexMoves, CandidateNamed, CopyFollowsPlan
  <2>3. CopyIsPrivate'
    BY PublicationConstants, <1>30 DEF CodexLogsOut, CodexMoves, DistinctFiles,
       CopyIsPrivate, CandidateNamed, RecordOrNone, Records, Cred
  <2>4. QED BY <2>1, <2>2, <2>3
<1>31. CASE UNCHANGED vars
  BY <1>31 DEF vars, DistinctFiles, CopyIsPrivate, CandidateNamed, CopyFollowsPlan
<1>32. CASE Rest
  BY <1>32 DEF Rest, vars, DistinctFiles, CopyIsPrivate, CandidateNamed, CopyFollowsPlan
<1>33. QED
  BY <1>1, <1>2, <1>3, <1>4, <1>5, <1>6, <1>7, <1>8, <1>9, <1>10, <1>11, <1>12, <1>13,
     <1>14, <1>15, <1>16, <1>17, <1>18, <1>19, <1>20, <1>21, <1>22, <1>23, <1>24, <1>25,
     <1>26, <1>27, <1>28, <1>29, <1>30, <1>31, <1>32
     DEF Next, Application, Codex

----------------------------------------------------------------------------
(* Where the process is, and what it may rely on there.                     *)

LEMMA ControlStep ==
  Structure /\ [Next]_vars => Prepared' /\ CandidateNamed' /\ PlanUnderWay' /\ CopyFollowsPlan'
<1> SUFFICES ASSUME Structure, [Next]_vars
             PROVE  Prepared' /\ CandidateNamed' /\ PlanUnderWay' /\ CopyFollowsPlan'
  OBVIOUS
<1> USE NamesListed, SettledMeans, StuckMeans, UnreadMeans, PlanFailedMeans
<1> USE DEF Structure, TypeOK, Op, NamesNeedRecord, Prepared, PlanUnderWay, Goto, Return, fs, NoOp
<1>1. ASSUME BeginRecovery
      PROVE  Prepared' /\ CandidateNamed' /\ PlanUnderWay' /\ CopyFollowsPlan'
  <2>1. Prepared'
    BY PublicationConstants, <1>1 DEF BeginRecovery, Enter, NoOp, DistinctFiles,
       CopyIsPrivate, Tokens, Cred
  <2>2. CandidateNamed'
    BY PublicationConstants, <1>1 DEF BeginRecovery, Enter, NoOp, CandidateNamed
  <2>3. PlanUnderWay'
    BY PublicationConstants, <1>1 DEF BeginRecovery, Enter, NoOp, Plans
  <2>4. CopyFollowsPlan'
    BY PublicationConstants, <1>1 DEF BeginRecovery, Enter, NoOp, CopyFollowsPlan,
       CopyIsPrivate, RecordOrNone, Records
  <2>5. QED BY <2>1, <2>2, <2>3, <2>4
<1>2. ASSUME NEW new \in AppCred, BeginPublication(new)
      PROVE  Prepared' /\ CandidateNamed' /\ PlanUnderWay' /\ CopyFollowsPlan'
  <2>1. Prepared'
    BY PublicationConstants, <1>2 DEF BeginPublication, Enter, Request, NoOp, Token, Absent,
       DistinctFiles, CopyIsPrivate, Tokens, Cred
  <2>2. CandidateNamed'
    BY PublicationConstants, <1>2 DEF BeginPublication, Enter, Request, NoOp, Token, Absent,
       CandidateNamed
  <2>3. PlanUnderWay'
    BY PublicationConstants, <1>2 DEF BeginPublication, Enter, Request, NoOp, Token, Absent, Plans
  <2>4. CopyFollowsPlan'
    BY PublicationConstants, <1>2 DEF BeginPublication, Enter, Request, NoOp, Token, Absent,
       CopyFollowsPlan, CopyIsPrivate, RecordOrNone, Records
  <2>5. QED BY <2>1, <2>2, <2>3, <2>4
<1>3. ASSUME Recover
      PROVE  Prepared' /\ CandidateNamed' /\ PlanUnderWay' /\ CopyFollowsPlan'
  <2>1. Prepared'
    <3>1. CASE record = NoRecord /\ Settled(FALSE)
      <4>1. \/ pc' = "idle" /\ op' = NoOp
           \/ /\ pc' = "check" /\ op.task = "write"
              /\ op'.task = op.task /\ op'.new = op.new /\ op'.plan = "none"
        BY <3>1, SettledMeans, Zenon
      <4>2. QED BY <1>3, <3>1, <4>1 DEF Recover
    <3>2. CASE record # NoRecord /\ Goto("settle") /\ UNCHANGED op
      BY <1>3, <3>2 DEF Recover
    <3>3. CASE Return("RecoveryBlocked")
      BY <1>3, <3>3 DEF Recover
    <3>4. QED BY <1>3, <3>1, <3>2, <3>3 DEF Recover
  <2>2. CandidateNamed'
    BY PublicationConstants, <1>3 DEF Recover, CandidateNamed
  <2>3. PlanUnderWay'
    BY PublicationConstants, <1>3 DEF Recover, Plans
  <2>4. CopyFollowsPlan'
    BY PublicationConstants, <1>3 DEF Recover, CopyFollowsPlan, CopyIsPrivate, RecordOrNone,
       Records
  <2>5. QED BY <2>1, <2>2, <2>3, <2>4
<1>4. ASSUME Check
      PROVE  Prepared' /\ CandidateNamed' /\ PlanUnderWay' /\ CopyFollowsPlan'
  <2>1. Prepared'
    <3>1. CASE Goto("create") /\ UNCHANGED op
      BY <1>4, <3>1 DEF Check
    <3>2. CASE /\ Token("live")[2] = op.expected /\ op.expected # NoCred
               /\ Goto("stage")
               /\ op' = [op EXCEPT !.live = Token("live"), !.settling = "publication"]
      <4>1. names["live"] # NoFile
        BY <3>2 DEF Token, Absent
      <4>2. op'.live = Token("live") /\ op'.expected = op.expected /\ op'.new = op.new
              /\ op'.task = op.task
        BY <3>2
      <4>3. Token("live") \in Inode \X Cred
        BY <4>1, TokenType
      <4>4. QED BY <1>4, <3>2, <4>2, <4>3 DEF Check
    <3>3. CASE Return("Changed") \/ Return("Error")
      BY <1>4, <3>3 DEF Check
    <3>4. QED BY <1>4, <3>1, <3>2, <3>3 DEF Check
  <2>2. CandidateNamed'
    BY PublicationConstants, <1>4 DEF Check, Token, Absent, CandidateNamed
  <2>3. PlanUnderWay'
    <3>1. names' = names /\ pc' \in {"create", "stage", "idle"}
      BY <1>4 DEF Check, Goto, Return, fs
    <3>2. op'.plan \in {op.plan, "none"}
      <4>1. \/ UNCHANGED op \/ op' = NoOp
            \/ op' = [op EXCEPT !.live = Token("live"), !.settling = "publication"]
        BY <1>4, Zenon DEF Check, Return
      <4>2. CASE op' = NoOp
        BY <4>2 DEF NoOp
      <4>3. CASE op' = [op EXCEPT !.live = Token("live"), !.settling = "publication"]
        BY <4>3
      <4>4. QED BY <4>1, <4>2, <4>3
    <3>3. pc = "check" /\ names["quarantine"] = NoFile /\ op.plan # "drop"
      BY <1>4 DEF Check
    <3>4. QED BY <3>1, <3>2, <3>3
  <2>4. CopyFollowsPlan'
    BY PublicationConstants, <1>4 DEF Check, Token, Absent, CopyFollowsPlan, CopyIsPrivate,
       RecordOrNone, Records
  <2>5. QED BY <2>1, <2>2, <2>3, <2>4
<1>5. ASSUME Create
      PROVE  Prepared' /\ CandidateNamed' /\ PlanUnderWay' /\ CopyFollowsPlan'
  <2>1. Prepared'
    <3>1. CASE Goto("created") /\ \E i \in Inode : op' = [op EXCEPT !.live = <<i, op.new>>]
      <4>1. pc' = "created" /\ op'.task = op.task /\ op'.new = op.new
        BY <3>1
      <4>2. QED BY <1>5, <4>1 DEF Create
    <3>2. CASE Return("Changed") \/ Return("Error")
      BY <1>5, <3>2 DEF Create
    <3>3. QED BY <1>5, <3>1, <3>2 DEF Create
  <2>2. CandidateNamed'
    BY PublicationConstants, <1>5 DEF Create, Free, Named, CandidateNamed
  <2>3. PlanUnderWay'
    BY PublicationConstants, <1>5 DEF Create, Free, Named, Plans
  <2>4. CopyFollowsPlan'
    BY PublicationConstants, <1>5 DEF Create, Free, Named, CopyFollowsPlan, CopyIsPrivate,
       RecordOrNone, Records
  <2>5. QED BY <2>1, <2>2, <2>3, <2>4
<1>6. ASSUME ConfirmCreation
      PROVE  Prepared' /\ CandidateNamed' /\ PlanUnderWay' /\ CopyFollowsPlan'
  <2>1. Prepared'
    BY PublicationConstants, <1>6 DEF ConfirmCreation, DistinctFiles, CopyIsPrivate, Tokens, Cred
  <2>2. CandidateNamed'
    BY PublicationConstants, <1>6 DEF ConfirmCreation, CandidateNamed
  <2>3. PlanUnderWay'
    BY PublicationConstants, <1>6 DEF ConfirmCreation, Plans
  <2>4. CopyFollowsPlan'
    BY PublicationConstants, <1>6 DEF ConfirmCreation, CopyFollowsPlan, CopyIsPrivate,
       RecordOrNone, Records
  <2>5. QED BY <2>1, <2>2, <2>3, <2>4
<1>7. ASSUME Stage
      PROVE  Prepared' /\ CandidateNamed' /\ PlanUnderWay' /\ CopyFollowsPlan'
  <2>1. Prepared'
    <3>1. CASE Return("Error")
      BY <1>7, <3>1 DEF Stage
    <3>2. CASE Goto("record")
      <4>1. PICK i, j \in Inode :
              /\ i # j /\ Free(i) /\ Free(j)
              /\ names' = [names EXCEPT !["candidate"] = i, !["stage"] = j]
              /\ data' = [data EXCEPT ![i] = op.new, ![j] = op.expected]
        BY <1>7, <3>2 DEF Stage
      <4>2. names'["candidate"] = i /\ names'["stage"] = j /\ data'[i] = op.new
              /\ data'[j] = op.expected
        BY <4>1
      <4>3. op.live[1] = names["live"]
        BY <1>7, <3>2, PublicationConstants DEF Stage, Token, Absent
      <4>4. op.live[1] # i /\ op.live[1] # j /\ codexFd # i
        BY <4>1, <4>3 DEF Free, Named
      <4>5. /\ pc = "stage" /\ pc' = "record" /\ UNCHANGED <<op, record, codexFd>>
            /\ i # NoFile /\ j # NoFile
        BY <1>7, <3>2, PublicationConstants DEF Stage
      <4>6. QED BY <4>2, <4>4, <4>5
    <3>3. QED BY <1>7, <3>1, <3>2 DEF Stage
  <2>2. CandidateNamed'
    BY PublicationConstants, <1>7 DEF Stage, Free, Named, CandidateNamed
  <2>3. PlanUnderWay'
    BY PublicationConstants, <1>7 DEF Stage, Free, Named, Plans
  <2>4. CopyFollowsPlan'
    BY PublicationConstants, <1>7 DEF Stage, Free, Named, CopyFollowsPlan, CopyIsPrivate,
       RecordOrNone, Records
  <2>5. QED BY <2>1, <2>2, <2>3, <2>4
<1>8. ASSUME PublishRecord
      PROVE  Prepared' /\ CandidateNamed' /\ PlanUnderWay' /\ CopyFollowsPlan'
  <2>1. Prepared'
    BY PublicationConstants, <1>8 DEF PublishRecord, DropStaged, Token, Absent,
       DistinctFiles, CopyIsPrivate, Tokens, Cred
  <2>2. CandidateNamed'
    BY PublicationConstants, <1>8 DEF PublishRecord, DropStaged, Token, Absent, CandidateNamed
  <2>3. PlanUnderWay'
    BY PublicationConstants, <1>8 DEF PublishRecord, DropStaged, Token, Absent, Plans
  <2>4. CopyFollowsPlan'
    BY PublicationConstants, <1>8 DEF PublishRecord, DropStaged, Token, Absent,
       CopyFollowsPlan, CopyIsPrivate, RecordOrNone, Records
  <2>5. QED BY <2>1, <2>2, <2>3, <2>4
<1>9. ASSUME OpenWitness
      PROVE  Prepared' /\ CandidateNamed' /\ PlanUnderWay' /\ CopyFollowsPlan'
  <2>1. Prepared'
    <3>1. pc' \in {"recheck", "settle", "idle"}
      BY <1>9 DEF OpenWitness, Goto, Return
    <3>2. /\ op'.task = op.task \/ op'.task = "none"
          /\ op'.new = op.new \/ op'.task = "none"
      BY <1>9 DEF OpenWitness, Return, NoOp
    <3>3. QED BY <3>1, <3>2
  <2>2. CandidateNamed'
    BY PublicationConstants, <1>9 DEF OpenWitness, Token, Absent, CandidateNamed
  <2>3. PlanUnderWay'
    BY PublicationConstants, <1>9 DEF OpenWitness, Token, Absent, Plans
  <2>4. CopyFollowsPlan'
    BY PublicationConstants, <1>9 DEF OpenWitness, Token, Absent, CopyFollowsPlan,
       CopyIsPrivate, RecordOrNone, Records
  <2>5. QED BY <2>1, <2>2, <2>3, <2>4
<1>10. ASSUME Recheck
      PROVE  Prepared' /\ CandidateNamed' /\ PlanUnderWay' /\ CopyFollowsPlan'
  <2>1. Prepared'
    BY PublicationConstants, <1>10 DEF Recheck, DistinctFiles, CopyIsPrivate, Tokens, Cred
  <2>2. CandidateNamed'
    BY PublicationConstants, <1>10 DEF Recheck, CandidateNamed
  <2>3. PlanUnderWay'
    BY PublicationConstants, <1>10 DEF Recheck, Plans
  <2>4. CopyFollowsPlan'
    BY PublicationConstants, <1>10 DEF Recheck, CopyFollowsPlan, CopyIsPrivate,
       RecordOrNone, Records
  <2>5. QED BY <2>1, <2>2, <2>3, <2>4
<1>11. ASSUME Exchange
      PROVE  Prepared' /\ CandidateNamed' /\ PlanUnderWay' /\ CopyFollowsPlan'
  <2>1. Prepared'
    BY PublicationConstants, <1>11 DEF Exchange, Swap, DistinctFiles, CopyIsPrivate, Tokens, Cred
  <2>2. CandidateNamed'
    BY PublicationConstants, <1>11 DEF Exchange, Swap, CandidateNamed
  <2>3. PlanUnderWay'
    BY PublicationConstants, <1>11 DEF Exchange, Swap, Plans
  <2>4. CopyFollowsPlan'
    BY PublicationConstants, <1>11 DEF Exchange, Swap, CopyFollowsPlan, CopyIsPrivate,
       RecordOrNone, Records
  <2>5. QED BY <2>1, <2>2, <2>3, <2>4
<1>12. ASSUME ObserveHandle
      PROVE  Prepared' /\ CandidateNamed' /\ PlanUnderWay' /\ CopyFollowsPlan'
  <2>1. Prepared'
    <3>1. pc' = "settle" /\ op'.task = op.task /\ op'.new = op.new
      BY <1>12 DEF ObserveHandle, Goto
    <3>2. QED BY <3>1
  <2>2. CandidateNamed'
    BY PublicationConstants, <1>12 DEF ObserveHandle, CandidateNamed
  <2>3. PlanUnderWay'
    BY PublicationConstants, <1>12 DEF ObserveHandle, Plans
  <2>4. CopyFollowsPlan'
    BY PublicationConstants, <1>12 DEF ObserveHandle, CopyFollowsPlan, CopyIsPrivate,
       RecordOrNone, Records
  <2>5. QED BY <2>1, <2>2, <2>3, <2>4
<1>13. ASSUME Settle
      PROVE  Prepared' /\ CandidateNamed' /\ PlanUnderWay' /\ CopyFollowsPlan'
  <2>1. Prepared'
    BY PublicationConstants, <1>13 DEF Settle, Token, Absent, DistinctFiles, CopyIsPrivate,
       Tokens, Cred
  <2>2. CandidateNamed'
    BY PublicationConstants, <1>13 DEF Settle, Token, Absent, CandidateNamed
  <2>3. PlanUnderWay'
    BY PublicationConstants, <1>13 DEF Settle, Token, Absent, Plans
  <2>4. CopyFollowsPlan'
    BY PublicationConstants, <1>13 DEF Settle, Token, Absent, CopyFollowsPlan,
       CopyIsPrivate, RecordOrNone, Records
  <2>5. QED BY <2>1, <2>2, <2>3, <2>4
<1>14. ASSUME Classify
      PROVE  Prepared' /\ CandidateNamed' /\ PlanUnderWay' /\ CopyFollowsPlan'
  <2>0. \/ Verdict = "finalize" /\ pc' = "inspect" /\ op' = [op EXCEPT !.plan = "finalize"]
        \/ Verdict = "cleanup" /\ pc' = "unstage" /\ op' = [op EXCEPT !.plan = "cleanup"]
        \/ Verdict = "drop" /\ pc' = "drop" /\ op' = [op EXCEPT !.plan = "drop"]
        \/ Verdict = "restore" /\ pc' = "restore" /\ op' = [op EXCEPT !.displaced = Token("candidate")]
        \/ pc' = "idle" /\ op' = NoOp
    BY <1>14, ClassifyMeans, Zenon
  <2>1. Prepared'
    <3>1. CASE \E v \in Plans : pc' \in {"inspect", "unstage", "drop"} /\ op' = [op EXCEPT !.plan = v]
      BY <1>14, <3>1 DEF Classify
    <3>2. CASE pc' = "restore" /\ op' = [op EXCEPT !.displaced = Token("candidate")]
      BY <1>14, <3>2 DEF Classify
    <3>3. CASE pc' = "idle" /\ op' = NoOp
      BY <1>14, <3>3 DEF Classify
    <3>4. QED BY <2>0, <3>1, <3>2, <3>3 DEF Plans
  <2>2. CandidateNamed'
    <3>1. CASE Verdict = "restore" /\ pc' = "restore"
      <4>1. Token("candidate") # Absent
        BY <3>1 DEF Verdict, Foreign, DisplacedKnown
      <4>2. QED BY <1>14, <3>1, <4>1 DEF Classify, Token, CandidateNamed
    <3>2. CASE pc' # "restore"
      BY <1>14, <2>0, <3>2 DEF CandidateNamed
    <3>3. QED BY <2>0, <3>1, <3>2
  <2>3. PlanUnderWay'
    <3>1. CASE Verdict = "drop" /\ pc' = "drop" /\ op' = [op EXCEPT !.plan = "drop"]
      <4>1. names["candidate"] = NoFile
        BY <3>1 DEF Verdict, NothingLeft
      <4>2. QED BY <1>14, <3>1, <4>1 DEF Classify
    <3>2. CASE pc' # "drop"
      BY <1>14, <2>0, <3>2 DEF Classify
    <3>3. QED BY <2>0, <3>1, <3>2
  <2>4. CopyFollowsPlan'
    <3>1. CASE Verdict = "finalize" /\ pc' = "inspect" /\ op' = [op EXCEPT !.plan = "finalize"]
      <4>1. names["stage"] # NoFile \/ names["backup"] # NoFile
        <5>1. BackupWaiting \/ BackupRetained
          BY <3>1 DEF Verdict, CanFinalize
        <5>2. record # NoRecord /\ record.backup[1] # NoFile
          BY <1>14, PublicationConstants DEF Classify, RecordOrNone, Records
        <5>3. QED BY <5>1, <5>2 DEF BackupWaiting, BackupRetained, Token, Absent
      <4>2. QED BY <1>14, <3>1, <4>1 DEF Classify, CopyFollowsPlan
    <3>2. CASE Verdict = "drop" /\ pc' = "drop" /\ op' = [op EXCEPT !.plan = "drop"]
      <4>1. NothingLeft
        BY <3>2 DEF Verdict
      <4>2. QED BY <1>14, <3>2, <4>1 DEF Classify, CopyFollowsPlan, NothingLeft
    <3>3. CASE pc' \in {"unstage", "restore", "idle"}
      BY <1>14, <3>3 DEF Classify, CopyFollowsPlan
    <3>4. QED BY <2>0, <3>1, <3>2, <3>3
  <2>5. QED BY <2>1, <2>2, <2>3, <2>4
<1>15. ASSUME Unstage
      PROVE  Prepared' /\ CandidateNamed' /\ PlanUnderWay' /\ CopyFollowsPlan'
  <2>1. Prepared'
    BY PublicationConstants, <1>15 DEF Unstage, Fail, DistinctFiles, CopyIsPrivate, Tokens, Cred
  <2>2. CandidateNamed'
    BY PublicationConstants, <1>15 DEF Unstage, Fail, CandidateNamed
  <2>3. PlanUnderWay'
    BY PublicationConstants, <1>15 DEF Unstage, Fail, Plans
  <2>4. CopyFollowsPlan'
    BY PublicationConstants, <1>15 DEF Unstage, Fail, CopyFollowsPlan, CopyIsPrivate,
       RecordOrNone, Records
  <2>5. QED BY <2>1, <2>2, <2>3, <2>4
<1>16. ASSUME Inspect
      PROVE  Prepared' /\ CandidateNamed' /\ PlanUnderWay' /\ CopyFollowsPlan'
  <2>1. Prepared'
    BY PublicationConstants, <1>16 DEF Inspect, Fail, Bound, AfterRemoval, Token, Absent,
       DistinctFiles, CopyIsPrivate, Tokens, Cred
  <2>2. CandidateNamed'
    <3>1. CASE Token("candidate") = Bound /\ Goto("quarantine") /\ UNCHANGED <<op, names>>
      <4>1. record # NoRecord
        BY <1>16 DEF Inspect
      <4>2. Bound[1] # NoFile
        BY <4>1, PublicationConstants DEF Bound, RecordOrNone, Records
      <4>3. QED BY <3>1, <4>2 DEF Token, Absent, CandidateNamed
    <3>2. CASE Goto(AfterRemoval) \/ Fail
      BY <1>16, <3>2 DEF Inspect, Fail, AfterRemoval, CandidateNamed
    <3>3. QED BY <1>16, <3>1, <3>2 DEF Inspect
  <2>3. PlanUnderWay'
    BY PublicationConstants, <1>16 DEF Inspect, Fail, Bound, AfterRemoval, Token, Absent, Plans
  <2>4. CopyFollowsPlan'
    BY PublicationConstants, <1>16 DEF Inspect, Fail, Bound, AfterRemoval, Token, Absent,
       CopyFollowsPlan, CopyIsPrivate, RecordOrNone, Records
  <2>5. QED BY <2>1, <2>2, <2>3, <2>4
<1>17. ASSUME Quarantine
      PROVE  Prepared' /\ CandidateNamed' /\ PlanUnderWay' /\ CopyFollowsPlan'
  <2>1. Prepared'
    BY PublicationConstants, <1>17 DEF Quarantine, Fail, Swap, DistinctFiles, CopyIsPrivate,
       Tokens, Cred
  <2>2. CandidateNamed'
    BY PublicationConstants, <1>17 DEF Quarantine, Fail, Swap, CandidateNamed
  <2>3. PlanUnderWay'
    BY PublicationConstants, <1>17 DEF Quarantine, Fail, Swap, Plans
  <2>4. CopyFollowsPlan'
    BY PublicationConstants, <1>17 DEF Quarantine, Fail, Swap, CopyFollowsPlan,
       CopyIsPrivate, RecordOrNone, Records
  <2>5. QED BY <2>1, <2>2, <2>3, <2>4
<1>18. ASSUME VerifyQuarantined
      PROVE  Prepared' /\ CandidateNamed' /\ PlanUnderWay' /\ CopyFollowsPlan'
  <2>1. Prepared'
    BY PublicationConstants, <1>18 DEF VerifyQuarantined, Swap, DistinctFiles,
       CopyIsPrivate, Tokens, Cred
  <2>2. CandidateNamed'
    BY PublicationConstants, <1>18 DEF VerifyQuarantined, Swap, CandidateNamed
  <2>3. PlanUnderWay'
    BY PublicationConstants, <1>18 DEF VerifyQuarantined, Swap, Plans
  <2>4. CopyFollowsPlan'
    BY PublicationConstants, <1>18 DEF VerifyQuarantined, Swap, CopyFollowsPlan,
       CopyIsPrivate, RecordOrNone, Records
  <2>5. QED BY <2>1, <2>2, <2>3, <2>4
<1>19. ASSUME Unlink
      PROVE  Prepared' /\ CandidateNamed' /\ PlanUnderWay' /\ CopyFollowsPlan'
  <2>1. Prepared'
    BY PublicationConstants, <1>19 DEF Unlink, AfterRemoval, DistinctFiles, CopyIsPrivate,
       Tokens, Cred
  <2>2. CandidateNamed'
    BY PublicationConstants, <1>19 DEF Unlink, AfterRemoval, CandidateNamed
  <2>3. PlanUnderWay'
    BY PublicationConstants, <1>19 DEF Unlink, AfterRemoval, Plans
  <2>4. CopyFollowsPlan'
    BY PublicationConstants, <1>19 DEF Unlink, AfterRemoval, CopyFollowsPlan, CopyIsPrivate,
       RecordOrNone, Records
  <2>5. QED BY <2>1, <2>2, <2>3, <2>4
<1>20. ASSUME Promote
      PROVE  Prepared' /\ CandidateNamed' /\ PlanUnderWay' /\ CopyFollowsPlan'
  <2>0. \/ pc' = "idle" /\ op' = NoOp
        \/ pc' = "drop" /\ op' = [op EXCEPT !.stays = (Token("live") = record.candidate)]
    BY <1>20, PlanFailedMeans, Zenon DEF Promote, Fail, Goto, ReadLive
  <2>1. Prepared'
    BY <1>20, <2>0 DEF Promote
  <2>2. CandidateNamed'
    BY <2>0 DEF CandidateNamed
  <2>3. PlanUnderWay'
    <3>1. \/ pc' = "idle" /\ op'.plan = "none"
          \/ pc' = "drop" /\ op'.plan = op.plan
      BY <2>0
    <3>2. names'["quarantine"] = names["quarantine"] /\ names'["candidate"] = names["candidate"]
      BY <1>20 DEF Promote, Fail, Swap
    <3>3. pc = "promote"
      BY <1>20 DEF Promote
    <3>4. QED BY <3>1, <3>2, <3>3
  <2>4. CopyFollowsPlan'
    <3>1. CASE pc' = "idle"
      BY <3>1 DEF CopyFollowsPlan
    <3>2. CASE pc' = "drop"
      <4>1. op'.plan = op.plan
        BY <2>0, <3>2
      <4>2. names'["stage"] = NoFile /\ names'["backup"] # NoFile
        <5>1. record # NoRecord /\ record.backup[1] # NoFile
          BY <1>20, PublicationConstants DEF Promote, RecordOrNone, Records
        <5>2. CASE BackupWaiting /\ Swap("stage", "backup")
          BY <5>1, <5>2 DEF BackupWaiting, Swap, Token, Absent
        <5>3. CASE BackupRetained /\ UNCHANGED names
          BY <5>1, <5>3 DEF BackupRetained, Token, Absent
        <5>4. QED BY <1>20, <3>2, <5>2, <5>3 DEF Promote, Fail
      <4>3. QED BY <1>20, <3>2, <4>1, <4>2 DEF Promote, CopyFollowsPlan
    <3>3. QED BY <2>0, <3>1, <3>2
  <2>5. QED BY <2>1, <2>2, <2>3, <2>4
<1>21. ASSUME DropRecord
      PROVE  Prepared' /\ CandidateNamed' /\ PlanUnderWay' /\ CopyFollowsPlan'
  <2>1. Prepared'
    <3>1. CASE Goto("trim") /\ record' = NoRecord /\ op'.task = op.task /\ op'.new = op.new
      BY <3>1
    <3>2. CASE Settled(FALSE) /\ record' = NoRecord
      <4>1. \/ pc' = "idle" /\ op' = NoOp
           \/ /\ pc' = "check" /\ op.task = "write"
              /\ op'.task = op.task /\ op'.new = op.new /\ op'.plan = "none"
        BY <3>2, SettledMeans, Zenon
      <4>2. QED BY <3>2, <4>1
    <3>3. CASE PlanFailed
      BY <3>3
    <3>4. QED BY <1>21, <3>1, <3>2, <3>3 DEF DropRecord, Fail
  <2>2. CandidateNamed'
    BY PublicationConstants, <1>21 DEF DropRecord, Fail, CandidateNamed
  <2>3. PlanUnderWay'
    BY PublicationConstants, <1>21 DEF DropRecord, Fail, Plans
  <2>4. CopyFollowsPlan'
    BY PublicationConstants, <1>21 DEF DropRecord, Fail, CopyFollowsPlan, CopyIsPrivate,
       RecordOrNone, Records
  <2>5. QED BY <2>1, <2>2, <2>3, <2>4
<1>22. ASSUME TrimBackups
      PROVE  Prepared' /\ CandidateNamed' /\ PlanUnderWay' /\ CopyFollowsPlan'
  <2>1. Prepared'
    <3>1. record' = NoRecord /\ Settled(op.stays) /\ op.stays \in BOOLEAN
      BY <1>22 DEF TrimBackups
    <3>2. \/ pc' = "idle" /\ op' = NoOp
          \/ /\ pc' = "check" /\ op.task = "write"
             /\ op'.task = op.task /\ op'.new = op.new /\ op'.plan = "none"
      BY <3>1, SettledMeans, Zenon
    <3>3. QED BY <3>1, <3>2
  <2>2. CandidateNamed'
    BY PublicationConstants, <1>22 DEF TrimBackups, CandidateNamed
  <2>3. PlanUnderWay'
    BY PublicationConstants, <1>22 DEF TrimBackups, Plans
  <2>4. CopyFollowsPlan'
    BY PublicationConstants, <1>22 DEF TrimBackups, CopyFollowsPlan, CopyIsPrivate,
       RecordOrNone, Records
  <2>5. QED BY <2>1, <2>2, <2>3, <2>4
<1>23. ASSUME Restore
      PROVE  Prepared' /\ CandidateNamed' /\ PlanUnderWay' /\ CopyFollowsPlan'
  <2>1. Prepared'
    BY PublicationConstants, <1>23 DEF Restore, DistinctFiles, CopyIsPrivate, Tokens, Cred
  <2>2. CandidateNamed'
    BY PublicationConstants, <1>23 DEF Restore, CandidateNamed
  <2>3. PlanUnderWay'
    BY PublicationConstants, <1>23 DEF Restore, Plans
  <2>4. CopyFollowsPlan'
    BY PublicationConstants, <1>23 DEF Restore, CopyFollowsPlan, CopyIsPrivate,
       RecordOrNone, Records
  <2>5. QED BY <2>1, <2>2, <2>3, <2>4
<1>24. ASSUME ExchangeBack
      PROVE  Prepared' /\ CandidateNamed' /\ PlanUnderWay' /\ CopyFollowsPlan'
  <2>1. Prepared'
    BY PublicationConstants, <1>24 DEF ExchangeBack, Swap, DistinctFiles, CopyIsPrivate,
       Tokens, Cred
  <2>2. CandidateNamed'
    BY PublicationConstants, <1>24 DEF ExchangeBack, Swap, CandidateNamed
  <2>3. PlanUnderWay'
    BY PublicationConstants, <1>24 DEF ExchangeBack, Swap, Plans
  <2>4. CopyFollowsPlan'
    BY PublicationConstants, <1>24 DEF ExchangeBack, Swap, CopyFollowsPlan, CopyIsPrivate,
       RecordOrNone, Records
  <2>5. QED BY <2>1, <2>2, <2>3, <2>4
<1>25. ASSUME ConfirmRestored
      PROVE  Prepared' /\ CandidateNamed' /\ PlanUnderWay' /\ CopyFollowsPlan'
  <2>1. Prepared'
    <3>1. CASE Goto("unstage") /\ op' = [op EXCEPT !.plan = "cleanup"]
      BY <1>25, <3>1 DEF ConfirmRestored
    <3>2. CASE Stuck("RestoredRecovery")
      BY <1>25, <3>2 DEF ConfirmRestored
    <3>3. QED BY <1>25, <3>1, <3>2 DEF ConfirmRestored
  <2>2. CandidateNamed'
    BY PublicationConstants, <1>25 DEF ConfirmRestored, Token, Absent, CandidateNamed
  <2>3. PlanUnderWay'
    BY PublicationConstants, <1>25 DEF ConfirmRestored, Token, Absent, Plans
  <2>4. CopyFollowsPlan'
    BY PublicationConstants, <1>25 DEF ConfirmRestored, Token, Absent, CopyFollowsPlan,
       CopyIsPrivate, RecordOrNone, Records
  <2>5. QED BY <2>1, <2>2, <2>3, <2>4
<1>26. ASSUME Crash
      PROVE  Prepared' /\ CandidateNamed' /\ PlanUnderWay' /\ CopyFollowsPlan'
  <2>1. Prepared'
    BY PublicationConstants, <1>26 DEF Crash, Forgotten, DistinctFiles, CopyIsPrivate,
       Tokens, Cred
  <2>2. CandidateNamed'
    BY PublicationConstants, <1>26 DEF Crash, Forgotten, CandidateNamed
  <2>3. PlanUnderWay'
    BY PublicationConstants, <1>26 DEF Crash, Forgotten, Plans
  <2>4. CopyFollowsPlan'
    BY PublicationConstants, <1>26 DEF Crash, Forgotten, CopyFollowsPlan, CopyIsPrivate,
       RecordOrNone, Records
  <2>5. QED BY <2>1, <2>2, <2>3, <2>4
<1>27. ASSUME CodexOpens
      PROVE  Prepared' /\ CandidateNamed' /\ PlanUnderWay' /\ CopyFollowsPlan'
  <2>1. Prepared'
    BY PublicationConstants, <1>27 DEF CodexOpens, DistinctFiles, CopyIsPrivate, Tokens, Cred
  <2>2. CandidateNamed'
    BY PublicationConstants, <1>27 DEF CodexOpens, CandidateNamed
  <2>3. PlanUnderWay'
    BY PublicationConstants, <1>27 DEF CodexOpens, Plans
  <2>4. CopyFollowsPlan'
    BY PublicationConstants, <1>27 DEF CodexOpens, CopyFollowsPlan, CopyIsPrivate,
       RecordOrNone, Records
  <2>5. QED BY <2>1, <2>2, <2>3, <2>4
<1>28. ASSUME NEW c \in CodexCred, CodexRewrites(c)
      PROVE  Prepared' /\ CandidateNamed' /\ PlanUnderWay' /\ CopyFollowsPlan'
  <2>1. Prepared'
    BY PublicationConstants, <1>28 DEF CodexRewrites, CodexMoves, DistinctFiles,
       CopyIsPrivate, Tokens, Cred
  <2>2. CandidateNamed'
    BY PublicationConstants, <1>28 DEF CodexRewrites, CodexMoves, CandidateNamed
  <2>3. PlanUnderWay'
    BY PublicationConstants, <1>28 DEF CodexRewrites, CodexMoves, Plans
  <2>4. CopyFollowsPlan'
    BY PublicationConstants, <1>28 DEF CodexRewrites, CodexMoves, CopyFollowsPlan,
       CopyIsPrivate, RecordOrNone, Records
  <2>5. QED BY <2>1, <2>2, <2>3, <2>4
<1>29. ASSUME NEW c \in CodexCred, CodexReplaces(c)
      PROVE  Prepared' /\ CandidateNamed' /\ PlanUnderWay' /\ CopyFollowsPlan'
  <2>1. Prepared'
    BY PublicationConstants, <1>29 DEF CodexReplaces, CodexMoves, Free, Named,
       DistinctFiles, CopyIsPrivate, Tokens, Cred
  <2>2. CandidateNamed'
    BY PublicationConstants, <1>29 DEF CodexReplaces, CodexMoves, Free, Named, CandidateNamed
  <2>3. PlanUnderWay'
    BY PublicationConstants, <1>29 DEF CodexReplaces, CodexMoves, Free, Named, Plans
  <2>4. CopyFollowsPlan'
    BY PublicationConstants, <1>29 DEF CodexReplaces, CodexMoves, Free, Named,
       CopyFollowsPlan, CopyIsPrivate, RecordOrNone, Records
  <2>5. QED BY <2>1, <2>2, <2>3, <2>4
<1>30. ASSUME CodexLogsOut
      PROVE  Prepared' /\ CandidateNamed' /\ PlanUnderWay' /\ CopyFollowsPlan'
  <2>1. Prepared'
    BY PublicationConstants, <1>30 DEF CodexLogsOut, CodexMoves, DistinctFiles,
       CopyIsPrivate, Tokens, Cred
  <2>2. CandidateNamed'
    BY PublicationConstants, <1>30 DEF CodexLogsOut, CodexMoves, CandidateNamed
  <2>3. PlanUnderWay'
    BY PublicationConstants, <1>30 DEF CodexLogsOut, CodexMoves, Plans
  <2>4. CopyFollowsPlan'
    BY PublicationConstants, <1>30 DEF CodexLogsOut, CodexMoves, CopyFollowsPlan,
       CopyIsPrivate, RecordOrNone, Records
  <2>5. QED BY <2>1, <2>2, <2>3, <2>4
<1>31. CASE UNCHANGED vars
  BY <1>31 DEF vars, DistinctFiles, CopyIsPrivate, CandidateNamed, CopyFollowsPlan
<1>32. CASE Rest
  BY <1>32 DEF Rest, vars, DistinctFiles, CopyIsPrivate, CandidateNamed, CopyFollowsPlan
<1>33. QED
  BY <1>1, <1>2, <1>3, <1>4, <1>5, <1>6, <1>7, <1>8, <1>9, <1>10, <1>11, <1>12, <1>13,
     <1>14, <1>15, <1>16, <1>17, <1>18, <1>19, <1>20, <1>21, <1>22, <1>23, <1>24, <1>25,
     <1>26, <1>27, <1>28, <1>29, <1>30, <1>31, <1>32
     DEF Next, Application, Codex

----------------------------------------------------------------------------
(* What keeps a credential held.                                            *)

(* A step that takes no primary file and no copy away, nor rewrites one.    *)
LEMMA SavedStays ==
  ASSUME \A i \in Inode : PrimaryFile(i) => PrimaryFile(i)' /\ data'[i] = data[i],
         UNCHANGED history
  PROVE  \A x : Saved(x) => Saved(x)'
BY DEF Saved

LEMMA SpareStays ==
  ASSUME \A i \in Inode : names["stage"] = i \/ names["backup"] = i =>
           (names'["stage"] = i \/ names'["backup"] = i) /\ data'[i] = data[i]
  PROVE  \A x : Spare(x) => Spare(x)'
BY DEF Spare

(* A step that leaves the directory alone.                                  *)
LEMMA StoreUnchanged ==
  ASSUME UNCHANGED <<names, data, history, orphans>>, pc # "unlink", pc' # "unlink"
  PROVE  \A x : (Saved(x) <=> Saved(x)') /\ (Spare(x) <=> Spare(x)')
BY DEF Saved, Spare, PrimaryFile

(* Exchanging two names of primary files keeps both.                        *)
LEMMA SwapKeepsSaved ==
  ASSUME NEW a \in {"live", "candidate", "quarantine"}, NEW b \in {"live", "candidate", "quarantine"},
         TypeOK, Swap(a, b), UNCHANGED <<data, history, orphans>>, pc # "unlink", pc' # "unlink"
  PROVE  \A x : (Saved(x) => Saved(x)') /\ (Spare(x) <=> Spare(x)')
<1>1. \A i \in Inode : PrimaryFile(i) => PrimaryFile(i)'
  BY DEF PrimaryFile, Swap, TypeOK, Names
<1>2. \A x : Saved(x) => Saved(x)'
  BY <1>1, SavedStays
<1>3. names'["stage"] = names["stage"] /\ names'["backup"] = names["backup"]
  BY DEF Swap, TypeOK, Names
<1>4. \A x : Spare(x) <=> Spare(x)'
  BY <1>3 DEF Spare
<1>5. QED BY <1>2, <1>4

LEMMA FirstStepMeans ==
  /\ FirstStep["finalize"] = "inspect"
  /\ FirstStep["cleanup"] = "unstage"
  /\ FirstStep["drop"] = "drop"
BY DEF FirstStep

LEMMA CredentialsStep == Structure /\ CredentialsHeld /\ [Next]_vars => CredentialsHeld'
<1> SUFFICES ASSUME Structure, CredentialsHeld, [Next]_vars PROVE CredentialsHeld'
  OBVIOUS
<1> USE NamesListed, StuckMeans, PlanFailedMeans
<1> USE DEF Structure, TypeOK, CredentialsHeld, CopyNotNeeded, Goto, Return, fs
<1>1. ASSUME BeginRecovery PROVE CredentialsHeld'
  BY <1>1, StoreUnchanged DEF BeginRecovery, Enter
<1>2. ASSUME NEW new \in AppCred, BeginPublication(new) PROVE CredentialsHeld'
  BY <1>2, StoreUnchanged DEF BeginPublication, Enter
<1>3. ASSUME Recover PROVE CredentialsHeld'
  <2>1. pc' \in {"idle", "check", "settle"}
    <3>1. CASE Settled(FALSE)
      BY <3>1 DEF Settled
    <3>2. CASE Goto("settle")
      BY <3>2
    <3>3. QED BY <1>3, <3>1, <3>2 DEF Recover
  <2>2. QED BY <1>3, <2>1, StoreUnchanged DEF Recover
<1>4. ASSUME Check PROVE CredentialsHeld'
  <2>1. pc' \in {"create", "stage", "idle"}
    BY <1>4 DEF Check
  <2>2. QED BY <1>4, <2>1, StoreUnchanged DEF Check
<1>5. ASSUME Create PROVE CredentialsHeld'
  <2>1. \A i \in Inode : PrimaryFile(i) => PrimaryFile(i)' /\ data'[i] = data[i]
    BY <1>5, PublicationConstants DEF Create, PrimaryFile, Free, Named
  <2>2. \A x : Saved(x) => Saved(x)'
    BY <1>5, <2>1, SavedStays DEF Create
  <2>3. record = NoRecord /\ pc' # "classify" /\ UNCHANGED owed
    BY <1>5 DEF Create, Prepared
  <2>4. QED BY <2>2, <2>3
<1>6. ASSUME ConfirmCreation PROVE CredentialsHeld'
  BY <1>6, StoreUnchanged DEF ConfirmCreation
<1>7. ASSUME Stage PROVE CredentialsHeld'
  <2>1. names["candidate"] = NoFile /\ record = NoRecord
    BY <1>7 DEF Stage, Prepared, NamesNeedRecord
  <2>2. \A i \in Inode : PrimaryFile(i) => PrimaryFile(i)' /\ data'[i] = data[i]
    BY <1>7, <2>1, PublicationConstants DEF Stage, PrimaryFile, Free, Named
  <2>3. \A x : Saved(x) => Saved(x)'
    BY <1>7, <2>2, SavedStays DEF Stage
  <2>4. pc' # "classify" /\ UNCHANGED owed
    BY <1>7 DEF Stage
  <2>5. QED BY <2>1, <2>3, <2>4
<1>8. ASSUME PublishRecord PROVE CredentialsHeld'
  <2>1. record = NoRecord /\ names["candidate"] # NoFile /\ data[names["candidate"]] \in AppCred
    BY <1>8 DEF PublishRecord, Prepared
  <2>2. \A x : Saved(x) => Saved(x)'
    <3>1. CASE UNCHANGED names
      <4>1. \A i \in Inode : PrimaryFile(i) => PrimaryFile(i)' /\ data'[i] = data[i]
        BY <1>8, <3>1 DEF PublishRecord, PrimaryFile
      <4>2. QED BY <1>8, <4>1, SavedStays DEF PublishRecord
    <3>2. CASE DropStaged
      <4>1. ASSUME NEW x, Saved(x), x \notin AppCred PROVE Saved(x)'
        <5>1. CASE \E k \in DOMAIN history : history[k] = x
          BY <1>8, <5>1 DEF PublishRecord, Saved
        <5>2. CASE \E i \in Inode : PrimaryFile(i) /\ data[i] = x
          <6>1. PICK i \in Inode : PrimaryFile(i) /\ data[i] = x
            BY <5>2
          <6>2. names["candidate"] # i
            BY <2>1, <4>1, <6>1
          <6>3. names["quarantine"] = NoFile
            BY <2>1 DEF NamesNeedRecord
          <6>4. PrimaryFile(i)' /\ data'[i] = x
            BY <1>8, <3>2, <6>1, <6>2, <6>3, PublicationConstants
               DEF PublishRecord, DropStaged, PrimaryFile
          <6>5. QED BY <6>4 DEF Saved
        <5>3. QED BY <4>1, <5>1, <5>2 DEF Saved
      <4>2. QED BY <4>1 DEF Saved
    <3>3. QED BY <1>8, <3>1, <3>2 DEF PublishRecord
  <2>3. pc' # "classify" /\ UNCHANGED owed
    BY <1>8 DEF PublishRecord
  <2>4. QED BY <2>1, <2>2, <2>3
<1>9. ASSUME OpenWitness PROVE CredentialsHeld'
  BY <1>9, StoreUnchanged DEF OpenWitness
<1>10. ASSUME Recheck PROVE CredentialsHeld'
  <2>1. pc' \in {"exchange", "settle", "idle"}
    BY <1>10 DEF Recheck
  <2>2. QED BY <1>10, <2>1, StoreUnchanged DEF Recheck
<1>11. ASSUME Exchange PROVE CredentialsHeld'
  <2>1. \A x : Saved(x) => Saved(x)'
    BY <1>11, SwapKeepsSaved, StoreUnchanged DEF Exchange
  <2>2. CopyNotNeeded /\ pc' = "observe" /\ UNCHANGED owed
    BY <1>11 DEF Exchange, CandidateNamed
  <2>3. QED BY <2>1, <2>2
<1>12. ASSUME ObserveHandle PROVE CredentialsHeld'
  BY <1>12, StoreUnchanged DEF ObserveHandle
<1>13. ASSUME Settle PROVE CredentialsHeld'
  <2>0. CASE Unread
    BY <1>13, <2>0, UnreadMeans, StoreUnchanged DEF Settle
  <2>1. ASSUME ~Unread PROVE op'.live[2] \in owed => Saved(op'.live[2])
    <3>1. op'.live = Token("live")
      BY <1>13, <2>1 DEF Settle, Op
    <3>2. CASE names["live"] = NoFile
      BY <3>1, <3>2, PublicationConstants DEF Token, Absent, Cred
    <3>3. CASE names["live"] # NoFile
      BY <3>1, <3>3 DEF Token, Saved, PrimaryFile
    <3>4. QED BY <3>2, <3>3
  <2>2. QED BY <1>13, <2>0, <2>1, StoreUnchanged DEF Settle
<1>14. ASSUME Classify PROVE CredentialsHeld'
  <2>1. record # NoRecord /\ UNCHANGED <<names, data, history, orphans, owed, record>>
    BY <1>14 DEF Classify, NamesNeedRecord
  <2>2. ASSUME Verdict = "cleanup" PROVE \A x \in owed : Saved(x)
    <3>1. CanCleanUp
      BY <2>2 DEF Verdict
    <3>2. CASE Token("candidate") = record.candidate
      <4>1. names["candidate"] # NoFile
        BY <2>1, <3>2, PublicationConstants DEF Token, Absent, RecordOrNone, Records
      <4>2. QED BY <4>1
    <3>3. CASE op.live = record.expected /\ names["candidate"] = NoFile /\ BackupWaiting
      <4>1. ASSUME NEW x \in owed, Spare(x) PROVE Saved(x)
        <5>1. PICK i \in Inode : (names["stage"] = i \/ names["backup"] = i) /\ data[i] = x
          BY <4>1 DEF Spare
        <5>2. names["stage"] = i /\ names["stage"] # NoFile
          BY <3>3, <5>1, PublicationConstants DEF BackupWaiting
        <5>3. data[i] = record.backup[2] /\ record.backup[2] = record.expected[2]
          BY <2>1, <5>2 DEF CopyIsPrivate
        <5>4. x = op.live[2]
          BY <3>3, <5>1, <5>3
        <5>5. QED BY <1>14, <4>1, <5>4 DEF Classify
      <4>2. QED BY <4>1
    <3>4. QED BY <3>1, <3>2, <3>3 DEF CanCleanUp
  <2>3. ASSUME Verdict = "drop" PROVE \A x \in owed : Saved(x)
    <3>1. names["stage"] = NoFile /\ names["backup"] = NoFile
      BY <2>3 DEF Verdict, NothingLeft
    <3>2. QED BY <3>1, PublicationConstants DEF Spare
  <2>4. /\ pc' \in {"inspect", "unstage", "drop", "restore", "idle"}
        /\ pc' \in {"unstage", "inspect", "drop"} /\ op'.plan \in {"cleanup", "drop"}
             => Verdict \in {"cleanup", "drop"}
    <3>1. CASE Verdict = "finalize" /\ pc' = "inspect" /\ op' = [op EXCEPT !.plan = "finalize"]
      BY <3>1 DEF Op
    <3>2. QED BY <1>14, <3>1, ClassifyMeans, Zenon
  <2>5. CopyNotNeeded' => CopyNotNeeded \/ Verdict \in {"cleanup", "drop"}
    BY <2>1, <2>4
  <2>6. \A x : (Saved(x) <=> Saved(x)') /\ (Spare(x) <=> Spare(x)')
    BY <1>14, <2>1, <2>4, StoreUnchanged DEF Classify
  <2>7. QED BY <2>1, <2>2, <2>3, <2>4, <2>5, <2>6
<1>15. ASSUME Unstage PROVE CredentialsHeld'
  <2>1. CopyNotNeeded /\ UNCHANGED owed /\ pc' \in {"inspect", "idle"}
    BY <1>15 DEF Unstage, Fail, PlanUnderWay
  <2>2. \A i \in Inode : PrimaryFile(i) => PrimaryFile(i)' /\ data'[i] = data[i]
    BY <1>15 DEF Unstage, Fail, PrimaryFile
  <2>3. \A x : Saved(x) => Saved(x)'
    BY <1>15, <2>2, SavedStays DEF Unstage
  <2>4. QED BY <2>1, <2>3
<1>16. ASSUME Inspect PROVE CredentialsHeld'
  <2>1. CASE Goto("quarantine") /\ UNCHANGED <<op, names>>
    BY <1>16, <2>1, StoreUnchanged DEF Inspect
  <2>2. CASE Goto(AfterRemoval) /\ UNCHANGED <<op, names>>
    <3>1. pc' = IF op.plan = "finalize" THEN "promote" ELSE "drop"
      BY <2>2 DEF AfterRemoval
    <3>2. QED BY <1>16, <2>2, <3>1, StoreUnchanged DEF Inspect
  <2>3. CASE Fail
    <3>1. pc' = "idle" /\ UNCHANGED names
      BY <2>3 DEF Fail
    <3>2. QED BY <1>16, <3>1, StoreUnchanged DEF Inspect
  <2>4. QED BY <1>16, <2>1, <2>2, <2>3 DEF Inspect
<1>17. ASSUME Quarantine PROVE CredentialsHeld'
  <2>1. CopyNotNeeded /\ UNCHANGED owed /\ pc' \in {"verify", "idle"}
    BY <1>17 DEF Quarantine, Fail, CandidateNamed
  <2>2. \A x : Saved(x) => Saved(x)'
    BY <1>17, <2>1, SwapKeepsSaved, StoreUnchanged DEF Quarantine, Fail
  <2>3. QED BY <2>1, <2>2
<1>18. ASSUME VerifyQuarantined PROVE CredentialsHeld'
  <2>1. CopyNotNeeded /\ UNCHANGED owed
    BY <1>18 DEF VerifyQuarantined
  <2>2. CASE Swap("candidate", "quarantine") /\ PlanFailed
    <3>1. \A x : Saved(x) => Saved(x)'
      BY <1>18, <2>2, SwapKeepsSaved DEF VerifyQuarantined
    <3>2. QED BY <2>1, <2>2, <3>1
  <2>3. CASE Token("quarantine") = Bound /\ Goto("unlink") /\ UNCHANGED <<op, names>>
    <3>1. record # NoRecord /\ names["candidate"] = NoFile
      BY <1>18 DEF VerifyQuarantined, NamesNeedRecord, PlanUnderWay
    <3>2. names["quarantine"] # NoFile /\ data[names["quarantine"]] = Bound[2]
      BY <2>3, <3>1, PublicationConstants DEF Token, Absent, Bound, RecordOrNone, Records
    <3>3. ASSUME NEW x, Saved(x), x # Bound[2] PROVE Saved(x)'
      <4>1. CASE \E i \in Inode : PrimaryFile(i) /\ data[i] = x
        <5>1. PICK i \in Inode : PrimaryFile(i) /\ data[i] = x
          BY <4>1
        <5>2. names["quarantine"] # i
          BY <3>2, <3>3, <5>1
        <5>3. PrimaryFile(i)' /\ data'[i] = x
          BY <1>18, <2>3, <5>1, <5>2 DEF VerifyQuarantined, PrimaryFile
        <5>4. QED BY <5>3 DEF Saved
      <4>2. CASE x \in AppCred \/ \E k \in DOMAIN history : history[k] = x
        BY <1>18, <4>2 DEF VerifyQuarantined, Saved
      <4>3. QED BY <3>3, <4>1, <4>2 DEF Saved
    <3>4. CASE op.plan = "finalize"
      <4>1. ASSUME NEW x, x = Bound[2] PROVE Spare(x)'
        <5>1. \A i \in Inode : (names["stage"] = i \/ names["backup"] = i) => data[i] = Bound[2]
          BY <3>1, <3>4, PublicationConstants DEF CopyIsPrivate, Bound
        <5>2. \E i \in Inode : names["stage"] = i \/ names["backup"] = i
          BY <1>18, <3>4 DEF VerifyQuarantined, CopyFollowsPlan
        <5>3. Spare(x)
          BY <4>1, <5>1, <5>2 DEF Spare
        <5>4. QED BY <1>18, <2>3, <5>3 DEF VerifyQuarantined, Spare
      <4>2. ~CopyNotNeeded' /\ pc' # "classify"
        BY <1>18, <2>3, <3>1, <3>4 DEF VerifyQuarantined
      <4>3. QED BY <2>1, <3>3, <4>1, <4>2
    <3>5. CASE op.plan # "finalize"
      <4>1. Bound[2] \in AppCred
        BY <3>1, <3>5 DEF Bound, CopyIsPrivate
      <4>2. ASSUME NEW x, x = Bound[2] PROVE Saved(x)'
        BY <4>1, <4>2 DEF Saved
      <4>3. QED BY <2>1, <2>3, <3>3, <4>2
    <3>6. QED BY <3>4, <3>5
  <2>4. QED BY <1>18, <2>2, <2>3 DEF VerifyQuarantined
<1>19. ASSUME Unlink PROVE CredentialsHeld'
  <2>1. pc' = AfterRemoval \/ pc' = "idle"
    BY <1>19 DEF Unlink
  <2>2. pc' \in {"promote", "drop", "idle"}
    BY <2>1 DEF AfterRemoval
  <2>3. \A i \in Inode : PrimaryFile(i) => PrimaryFile(i)' /\ data'[i] = data[i]
    BY <1>19 DEF Unlink, PrimaryFile
  <2>4. \A x : Saved(x) => Saved(x)'
    BY <1>19, <2>3, SavedStays DEF Unlink
  <2>5. \A x : Spare(x) => Spare(x)'
    BY <1>19, SpareStays DEF Unlink
  <2>6. CopyNotNeeded' => CopyNotNeeded
    BY <1>19, <2>2 DEF Unlink
  <2>7. QED BY <1>19, <2>2, <2>4, <2>5, <2>6 DEF Unlink
<1>20. ASSUME Promote PROVE CredentialsHeld'
  <2>1. pc' \in {"drop", "idle"} /\ UNCHANGED <<owed, data, record, history, orphans>>
    BY <1>20 DEF Promote, Fail
  <2>2. \A i \in Inode : PrimaryFile(i) => PrimaryFile(i)' /\ data'[i] = data[i]
    BY <1>20, <2>1 DEF Promote, Fail, Swap, PrimaryFile
  <2>3. \A x : Saved(x) => Saved(x)'
    BY <2>1, <2>2, SavedStays
  <2>4. \A i \in Inode : names["stage"] = i \/ names["backup"] = i =>
          (names'["stage"] = i \/ names'["backup"] = i) /\ data'[i] = data[i]
    BY <1>20, <2>1 DEF Promote, Fail, Swap
  <2>5. \A x : Spare(x) => Spare(x)'
    BY <2>4, SpareStays
  <2>6. CopyNotNeeded' => CopyNotNeeded
    <3>0. names'["candidate"] = names["candidate"]
      BY <1>20 DEF Promote, Fail, Swap
    <3>1. CASE PlanFailed
      BY <2>1, <3>0, <3>1, PlanFailedMeans
    <3>2. CASE Goto("drop") /\ ReadLive
      <4>1. op'.plan = op.plan
        BY <3>2 DEF ReadLive, Op
      <4>2. op.plan = "finalize" /\ pc' = "drop"
        BY <1>20, <3>2 DEF Promote, PlanUnderWay
      <4>3. QED BY <2>1, <3>0, <4>1, <4>2
    <3>3. QED BY <1>20, <3>1, <3>2 DEF Promote, Fail
  <2>7. QED BY <2>1, <2>3, <2>5, <2>6
<1>21. ASSUME DropRecord PROVE CredentialsHeld'
  <2>1. CASE Fail /\ UNCHANGED <<record, history>>
    BY <1>21, <2>1, StoreUnchanged DEF DropRecord, Fail
  <2>2. CASE /\ record' = NoRecord
             /\ names' = [names EXCEPT !["backup"] = NoFile]
             /\ history' = IF names["backup"] = NoFile THEN history
                                                       ELSE Append(history, data[names["backup"]])
    <3>1. pc' # "classify" /\ UNCHANGED <<owed, data, orphans>>
      <4>1. CASE Settled(FALSE)
        BY <1>21, <4>1 DEF DropRecord, Settled
      <4>2. CASE ~Settled(FALSE)
        BY <1>21, <2>2, <4>2 DEF DropRecord, Fail
      <4>3. QED BY <4>1, <4>2
    <3>2. \A i \in Inode : PrimaryFile(i) => PrimaryFile(i)'
      BY <1>21, <2>2 DEF DropRecord, PrimaryFile, PlanUnderWay
    <3>3. ASSUME NEW x, Saved(x) PROVE Saved(x)'
      <4>1. CASE x \in AppCred
        BY <4>1 DEF Saved
      <4>2. CASE \E i \in Inode : PrimaryFile(i) /\ data[i] = x
        BY <3>1, <3>2, <4>2 DEF Saved
      <4>3. CASE \E k \in DOMAIN history : history[k] = x
        <5>1. CASE names["backup"] = NoFile
          BY <2>2, <4>3, <5>1 DEF Saved
        <5>2. CASE names["backup"] # NoFile
          <6>1. PICK k \in 1..Len(history) : history[k] = x
            BY <4>3
          <6>2. history' = Append(history, data[names["backup"]]) /\ data[names["backup"]] \in Cred
            BY <2>2, <5>2
          <6>3. history'[k] = x /\ k \in DOMAIN history'
            BY <6>1, <6>2, AppendProperties
          <6>4. QED BY <6>3 DEF Saved
        <5>3. QED BY <5>1, <5>2
      <4>4. QED BY <3>3, <4>1, <4>2, <4>3 DEF Saved
    <3>4. CASE op.plan = "finalize"
      <4>1. names["stage"] = NoFile /\ names["backup"] # NoFile
        BY <1>21, <3>4 DEF DropRecord, CopyFollowsPlan
      <4>2. ASSUME NEW x \in owed, Spare(x) PROVE Saved(x)'
        <5>1. x = data[names["backup"]]
          BY <4>1, <4>2, PublicationConstants DEF Spare
        <5>2. history' = Append(history, x) /\ x \in Cred
          BY <2>2, <4>1, <5>1
        <5>3. history'[Len(history) + 1] = x /\ Len(history) + 1 \in DOMAIN history'
          BY <5>2, AppendProperties
        <5>4. QED BY <5>3 DEF Saved
      <4>3. QED BY <3>1, <3>3, <4>2
    <3>5. CASE op.plan # "finalize"
      <4>1. CopyNotNeeded
        BY <1>21, <3>5 DEF DropRecord, PlanUnderWay, Op, Plans
      <4>2. QED BY <3>1, <3>3, <4>1
    <3>6. QED BY <3>4, <3>5
  <2>3. QED BY <1>21, <2>1, <2>2 DEF DropRecord
<1>22. ASSUME TrimBackups PROVE CredentialsHeld'
  <2>1. record = NoRecord /\ record' = NoRecord /\ pc' # "classify"
    <3>1. record = NoRecord /\ record' = NoRecord
      BY <1>22 DEF TrimBackups, Prepared
    <3>2. pc' \in {"idle", "check"}
      BY <1>22 DEF TrimBackups, Settled
    <3>3. QED BY <3>1, <3>2
  <2>2. \A i \in Inode : PrimaryFile(i) => PrimaryFile(i)' /\ data'[i] = data[i]
    BY <1>22, <2>1 DEF TrimBackups, PrimaryFile, NamesNeedRecord
  <2>3. ASSUME NEW x \in owed' PROVE Saved(x)'
    <3>1. x \in owed /\ x \notin {history[k] : k \in 1..Excess}
      BY <1>22, <2>3 DEF TrimBackups
    <3>2. CASE x \in AppCred
      BY <3>2 DEF Saved
    <3>3. CASE \E i \in Inode : PrimaryFile(i) /\ data[i] = x
      BY <2>2, <3>3 DEF Saved
    <3>4. CASE \E k \in DOMAIN history : history[k] = x
      <4>1. PICK k \in 1..Len(history) : history[k] = x
        BY <3>4
      <4>2. Excess \in Nat /\ k > Excess
        BY <3>1, <4>1, PublicationConstants DEF Excess
      <4>3. history' = SubSeq(history, Excess + 1, Len(history))
        BY <1>22 DEF TrimBackups
      <4>4. /\ Len(history') = Len(history) - Excess
            /\ history'[k - Excess] = history[k]
        <5>1. \A i \in (Excess + 1) .. Len(history) : history[i] \in Cred
          BY <4>2
        <5>2. k - Excess \in 1 .. (Len(history) - (Excess + 1) + 1)
          BY <4>1, <4>2
        <5>3. SubSeq(history, Excess + 1, Len(history))[k - Excess]
                = history[(Excess + 1) + (k - Excess) - 1]
          BY <4>2, <5>1, <5>2, SubSeqProperties
        <5>4. Len(SubSeq(history, Excess + 1, Len(history))) = Len(history) - Excess
          BY <4>1, <4>2, <5>1, SubSeqProperties
        <5>5. (Excess + 1) + (k - Excess) - 1 = k
          BY <4>1, <4>2
        <5>6. QED BY <4>3, <5>3, <5>4, <5>5
      <4>5. history' \in Seq(Cred)
        BY TypeStep
      <4>6. k - Excess \in DOMAIN history'
        BY <4>1, <4>2, <4>4, <4>5
      <4>7. QED BY <4>1, <4>4, <4>6 DEF Saved
    <3>5. QED BY <2>1, <3>1, <3>2, <3>3, <3>4 DEF Saved
  <2>4. QED BY <2>1, <2>3
<1>23. ASSUME Restore PROVE CredentialsHeld'
  <2>1. pc' \in {"restoring", "idle"}
    BY <1>23 DEF Restore
  <2>2. QED BY <1>23, <2>1, StoreUnchanged DEF Restore
<1>24. ASSUME ExchangeBack PROVE CredentialsHeld'
  <2>1. CopyNotNeeded /\ pc' = "restored" /\ UNCHANGED owed
    BY <1>24 DEF ExchangeBack, CandidateNamed
  <2>2. \A x : Saved(x) => Saved(x)'
    BY <1>24, SwapKeepsSaved, StoreUnchanged DEF ExchangeBack
  <2>3. QED BY <2>1, <2>2
<1>25. ASSUME ConfirmRestored PROVE CredentialsHeld'
  <2>1. CopyNotNeeded /\ pc' \in {"unstage", "idle"}
    BY <1>25 DEF ConfirmRestored, CandidateNamed
  <2>2. QED BY <1>25, <2>1, StoreUnchanged DEF ConfirmRestored
<1>26. ASSUME Crash PROVE CredentialsHeld'
  <2>1. pc' = "idle" /\ UNCHANGED <<owed, data, history, record>>
    BY <1>26 DEF Crash
  <2>2. \A i \in Inode : PrimaryFile(i) => PrimaryFile(i)' /\ data'[i] = data[i]
    BY <1>26 DEF Crash, PrimaryFile, Forgotten
  <2>3. \A x : Saved(x) => Saved(x)'
    BY <2>1, <2>2, SavedStays
  <2>4. CASE record = NoRecord
    BY <2>1, <2>3, <2>4
  <2>5. CASE record # NoRecord
    <3>1. \A n \in Names \ {"quarantine"} : names'[n] = names[n]
      BY <1>26, <2>5 DEF Crash, Forgotten
    <3>2. \A x : Spare(x) => Spare(x)'
      BY <2>1, <3>1 DEF Spare
    <3>3. CopyNotNeeded' => CopyNotNeeded
      BY <2>1, <3>1
    <3>4. QED BY <2>1, <2>3, <3>2, <3>3
  <2>6. QED BY <2>4, <2>5
<1>27. ASSUME CodexOpens PROVE CredentialsHeld'
  <2>1. UNCHANGED <<names, data, record, history, orphans, pc, op, owed>>
    BY <1>27 DEF CodexOpens
  <2>2. \A x : (Saved(x) <=> Saved(x)') /\ (Spare(x) <=> Spare(x)')
    BY <2>1 DEF Saved, Spare, PrimaryFile
  <2>3. QED BY <2>1, <2>2
<1>28. ASSUME NEW c \in CodexCred, CodexRewrites(c) PROVE CredentialsHeld'
  <2>1. UNCHANGED <<names, record, history, orphans, pc, op>> /\ data' = [data EXCEPT ![codexFd] = c]
    BY <1>28 DEF CodexRewrites, CodexMoves
  <2>2. codexFd \in Inode /\ codexFd # names["stage"] /\ codexFd # names["backup"]
    BY <1>28 DEF CodexRewrites, CopyIsPrivate
  <2>3. \A x : Spare(x) => Spare(x)'
    BY <2>1, <2>2 DEF Spare
  <2>4. \A i : PrimaryFile(i) <=> PrimaryFile(i)'
    BY <2>1 DEF PrimaryFile
  <2>5. CASE Named(codexFd) /\ ~Doomed(codexFd)
    <3>1. PrimaryFile(codexFd)
      BY <2>2, <2>5 DEF Named, Doomed, PrimaryFile, DistinctFiles
    <3>2. owed' = (owed \ {data[codexFd]}) \cup {c}
      BY <1>28, <2>5 DEF CodexRewrites
    <3>3. Saved(c)'
      BY <2>1, <2>2, <2>4, <3>1 DEF Saved
    <3>4. ASSUME NEW x, Saved(x), x # data[codexFd] PROVE Saved(x)'
      BY <2>1, <2>2, <2>4, <3>4 DEF Saved
    <3>5. QED BY <2>1, <2>3, <3>2, <3>3, <3>4
  <2>6. CASE ~(Named(codexFd) /\ ~Doomed(codexFd))
    <3>1. CASE ~Named(codexFd)
      <4>1. ~PrimaryFile(codexFd)
        BY <3>1 DEF Named, PrimaryFile
      <4>2. \A x : Saved(x) => Saved(x)'
        BY <2>1, <2>2, <2>4, <4>1, SavedStays
      <4>3. QED BY <1>28, <2>1, <2>3, <2>6, <4>2 DEF CodexRewrites
    <3>2. CASE Doomed(codexFd)
      <4>1. ~PrimaryFile(codexFd)
        BY <2>2, <3>2, PublicationConstants DEF Doomed, PrimaryFile, DistinctFiles
      <4>2. \A x : Saved(x) => Saved(x)'
        BY <2>1, <2>2, <2>4, <4>1, SavedStays
      <4>3. QED BY <1>28, <2>1, <2>3, <2>6, <4>2 DEF CodexRewrites
    <3>3. QED BY <2>6, <3>1, <3>2
  <2>7. QED BY <2>5, <2>6
<1>29. ASSUME NEW c \in CodexCred, CodexReplaces(c) PROVE CredentialsHeld'
  <2>1. PICK f \in Inode : /\ Free(f)
                           /\ names' = [names EXCEPT !["live"] = f]
                           /\ data' = [data EXCEPT ![f] = c]
    BY <1>29 DEF CodexReplaces
  <2>2. /\ UNCHANGED <<record, history, orphans, pc, op>>
        /\ owed' = (owed \ {Token("live")[2]}) \cup {c}
    BY <1>29 DEF CodexReplaces, CodexMoves
  <2>3. ASSUME NEW x, Saved(x), x # Token("live")[2] PROVE Saved(x)'
    <3>1. CASE \E i \in Inode : PrimaryFile(i) /\ data[i] = x
      <4>1. PICK i \in Inode : PrimaryFile(i) /\ data[i] = x
        BY <3>1
      <4>2. names["live"] # i /\ f # i
        BY <2>1, <2>3, <4>1, PublicationConstants DEF Token, Free, Named, PrimaryFile
      <4>3. PrimaryFile(i)' /\ data'[i] = x
        BY <2>1, <2>2, <4>1, <4>2 DEF PrimaryFile
      <4>4. QED BY <4>3 DEF Saved
    <3>2. CASE x \in AppCred \/ \E k \in DOMAIN history : history[k] = x
      BY <2>2, <3>2 DEF Saved
    <3>3. QED BY <2>3, <3>1, <3>2 DEF Saved
  <2>4. Saved(c)'
    BY <2>1, <2>2 DEF Saved, PrimaryFile
  <2>5. \A x : Spare(x) => Spare(x)'
    BY <2>1 DEF Spare, Free, Named
  <2>6. QED BY <2>1, <2>2, <2>3, <2>4, <2>5
<1>30. ASSUME CodexLogsOut PROVE CredentialsHeld'
  <2>1. /\ UNCHANGED <<data, record, history, orphans, pc, op>>
        /\ names' = [names EXCEPT !["live"] = NoFile]
        /\ owed' = owed \ {Token("live")[2]}
    BY <1>30 DEF CodexLogsOut, CodexMoves
  <2>2. ASSUME NEW x, Saved(x), x # Token("live")[2] PROVE Saved(x)'
    <3>1. CASE \E i \in Inode : PrimaryFile(i) /\ data[i] = x
      <4>1. PICK i \in Inode : PrimaryFile(i) /\ data[i] = x
        BY <3>1
      <4>2. names["live"] # i
        BY <2>2, <4>1, PublicationConstants DEF Token
      <4>3. PrimaryFile(i)' /\ data'[i] = x
        BY <2>1, <4>1, <4>2 DEF PrimaryFile
      <4>4. QED BY <4>3 DEF Saved
    <3>2. CASE x \in AppCred \/ \E k \in DOMAIN history : history[k] = x
      BY <2>1, <3>2 DEF Saved
    <3>3. QED BY <2>2, <3>1, <3>2 DEF Saved
  <2>3. \A x : Spare(x) => Spare(x)'
    BY <2>1 DEF Spare
  <2>4. QED BY <2>1, <2>2, <2>3
<1>31. CASE UNCHANGED vars
  BY <1>31 DEF vars, Saved, Spare, PrimaryFile
<1>32. CASE Rest
  BY <1>32 DEF Rest, vars, Saved, Spare, PrimaryFile
<1>33. QED
  BY <1>1, <1>2, <1>3, <1>4, <1>5, <1>6, <1>7, <1>8, <1>9, <1>10, <1>11, <1>12, <1>13, <1>14,
     <1>15, <1>16, <1>17, <1>18, <1>19, <1>20, <1>21, <1>22, <1>23, <1>24, <1>25, <1>26, <1>27,
     <1>28, <1>29, <1>30, <1>31, <1>32
     DEF Next, Application, Codex

----------------------------------------------------------------------------
(* The theorems.                                                            *)

LEMMA TypeInit == Init => TypeOK
<1> SUFFICES ASSUME Init PROVE TypeOK
  OBVIOUS
<1>1. names \in [Names -> Inode \cup {NoFile}] /\ data \in [Inode -> Cred]
  BY DEF Init, Cred
<1>2. owed \subseteq Cred
  BY <1>1 DEF Init, Names
<1>3. op \in Op
  BY NoOpType DEF Init
<1>4. QED BY <1>1, <1>2, <1>3 DEF Init, TypeOK, RecordOrNone, Locations, Outcomes

LEMMA InitEstablishes == Init => IInv
<1> SUFFICES ASSUME Init PROVE IInv
  OBVIOUS
<1>1. TypeOK
  BY TypeInit
<1>2. \A n \in Names \ {"live"} : names[n] = NoFile
  BY DEF Init
<1>3. DistinctFiles /\ NamesNeedRecord /\ CopyIsPrivate
  BY <1>2, PublicationConstants DEF Init, DistinctFiles, NamesNeedRecord, CopyIsPrivate, Names
<1>4. Prepared /\ CandidateNamed /\ PlanUnderWay /\ CopyFollowsPlan
  BY <1>2 DEF Init, NoOp, Prepared, CandidateNamed, PlanUnderWay, CopyFollowsPlan, Names
<1>5. CredentialsHeld
  <2>1. \A x \in owed : Saved(x)
    BY <1>1 DEF Init, Saved, PrimaryFile, TypeOK, Names
  <2>2. QED BY <2>1 DEF Init, CredentialsHeld
<1>6. QED BY <1>1, <1>3, <1>4, <1>5 DEF IInv

LEMMA StepPreserves == IInv /\ [Next]_vars => IInv'
<1> SUFFICES ASSUME IInv, [Next]_vars PROVE IInv'
  OBVIOUS
<1>1. Structure /\ CredentialsHeld
  BY DEF IInv, Structure
<1>2. TypeOK'
  BY <1>1, TypeStep
<1>3. DistinctFiles' /\ NamesNeedRecord' /\ CopyIsPrivate'
  BY <1>1, FilesStep
<1>4. Prepared' /\ CandidateNamed' /\ PlanUnderWay' /\ CopyFollowsPlan'
  BY <1>1, ControlStep
<1>5. CredentialsHeld'
  BY <1>1, CredentialsStep
<1>6. QED BY <1>2, <1>3, <1>4, <1>5 DEF IInv

LEMMA HeldMeansKept == IInv => NoCredentialLost
<1> SUFFICES ASSUME IInv, NEW x \in owed PROVE x \in Kept
  BY DEF NoCredentialLost
<1>1. Saved(x) \/ Spare(x)
  BY DEF IInv, CredentialsHeld
<1>2. CASE x \in AppCred \/ \E k \in DOMAIN history : history[k] = x
  BY <1>2 DEF Kept, Backups
<1>3. CASE \E i \in Inode : PrimaryFile(i) /\ data[i] = x
  <2>1. PICK i \in Inode : PrimaryFile(i) /\ data[i] = x
    BY <1>3
  <2>2. Named(i) /\ ~Doomed(i)
    BY <2>1, PublicationConstants
       DEF PrimaryFile, Named, Doomed, IInv, DistinctFiles, Names
  <2>3. QED BY <2>1, <2>2 DEF Kept, Contents
<1>4. CASE Spare(x)
  <2>1. PICK i \in Inode : (names["stage"] = i \/ names["backup"] = i) /\ data[i] = x
    BY <1>4 DEF Spare
  <2>2. Named(i) /\ ~Doomed(i)
    BY <2>1, PublicationConstants DEF Named, Doomed, IInv, DistinctFiles, Names
  <2>3. QED BY <2>1, <2>2 DEF Kept, Contents
<1>5. QED BY <1>1, <1>2, <1>3, <1>4 DEF Saved

THEOREM InductiveInvariant == Spec => []IInv
BY InitEstablishes, StepPreserves, PTL DEF Spec

(* In every state the variables of the publication protocol have their      *)
(* types: tokens, names, the record and the local variables of              *)
(* atomic_write_private_if_unchanged.                                       *)
THEOREM TypeCorrect == Spec => []TypeOK
<1>1. IInv => TypeOK
  BY DEF IInv
<1>2. QED BY <1>1, InductiveInvariant, PTL

(* Whatever Codex, crashes and failing steps do, a credential Codex wrote   *)
(* is kept until Codex supersedes it or it is retired as the oldest backup. *)
THEOREM CredentialsKept == Spec => []NoCredentialLost
BY HeldMeansKept, InductiveInvariant, PTL


----------------------------------------------------------------------------
(* What the results rest on.  A publication is settled as one until it      *)
(* returns; its record is of the credential the caller saw; and once an     *)
(* attempt is to be undone, its candidate does not become live again.       *)

PlanSteps == {"unstage", "inspect", "quarantine", "verify", "unlink", "promote", "drop"}

Settling ==
  /\ \/ pc \in {"stage", "record", "witness", "recheck", "exchange", "observe", "restore",
                "restoring", "restored"}
     \/ op.inode # "Unavailable"
     => op.settling = "publication"
  /\ pc = "recover" => op.settling = "recovery"

Decided ==
  /\ pc \in {"create", "created"} => op.expected = NoCred
  /\ record # NoRecord /\ op.settling = "publication" => record.expected[2] = op.expected
  /\ pc = "trim" /\ op.settling = "publication"
       => history # <<>> /\ history[Len(history)] = op.expected

NotPublished ==
  /\ pc = "classify" /\ op.live # record.candidate => Token("live") # record.candidate
  /\ pc \in PlanSteps /\ op.plan # "finalize" => Token("live") # record.candidate

LEMMA IdleIsDecided ==
  ASSUME pc' = "idle", op' = NoOp
  PROVE  Settling' /\ Decided' /\ NotPublished'
BY DEF Settling, Decided, NotPublished, PlanSteps, NoOp

LEMMA SettledIsDecided ==
  ASSUME NEW b \in BOOLEAN, Settled(b), op \in Op, Settling, record' = NoRecord
  PROVE  Settling' /\ Decided' /\ NotPublished'
<1>1. CASE op.settling = "recovery" /\ op.task = "write"
  <2>1. pc' = "check" /\ op' = [op EXCEPT !.live = Absent, !.displaced = Absent, !.plan = "none",
                               !.stays = FALSE]
    BY <1>1 DEF Settled, Goto
  <2>2. op'.settling = op.settling /\ op'.inode = op.inode
    BY <2>1 DEF Op
  <2> QED
    BY <1>1, <2>1, <2>2 DEF Settling, Decided, NotPublished, PlanSteps
<1>2. CASE ~(op.settling = "recovery" /\ op.task = "write")
  BY <1>2, IdleIsDecided DEF Settled, Return
<1> QED
  BY <1>1, <1>2

(* Going on with the local variables as they are, or with one assigned.     *)
LEMMA OpFields ==
  ASSUME op \in Op
  PROVE  /\ \A t : LET u == [op EXCEPT !.live = t] IN
              /\ u.live = t /\ u.settling = op.settling /\ u.expected = op.expected
              /\ u.inode = op.inode /\ u.plan = op.plan
         /\ \A t : LET u == [op EXCEPT !.displaced = t] IN
              /\ u.live = op.live /\ u.settling = op.settling /\ u.expected = op.expected
              /\ u.inode = op.inode /\ u.plan = op.plan
         /\ \A t : LET u == [op EXCEPT !.boundary = t] IN
              /\ u.live = op.live /\ u.settling = op.settling /\ u.expected = op.expected
              /\ u.inode = op.inode /\ u.plan = op.plan
         /\ \A t : LET u == [op EXCEPT !.witness = t] IN
              /\ u.live = op.live /\ u.settling = op.settling /\ u.expected = op.expected
              /\ u.inode = op.inode /\ u.plan = op.plan
         /\ \A t : LET u == [op EXCEPT !.stays = t] IN
              /\ u.live = op.live /\ u.settling = op.settling /\ u.expected = op.expected
              /\ u.inode = op.inode /\ u.plan = op.plan
         /\ \A t : LET u == [op EXCEPT !.inode = t] IN
              /\ u.live = op.live /\ u.settling = op.settling /\ u.expected = op.expected
              /\ u.inode = t /\ u.plan = op.plan
         /\ \A t : LET u == [op EXCEPT !.plan = t] IN
              /\ u.live = op.live /\ u.settling = op.settling /\ u.expected = op.expected
              /\ u.inode = op.inode /\ u.plan = t
BY DEF Op

LEMMA DecidedStep ==
  ASSUME Structure, Settling, Decided, Application \/ Crash
  PROVE  Settling' /\ Decided' /\ (NotPublished => NotPublished')
<1> USE IdleIsDecided, StuckMeans, UnreadMeans, PlanFailedMeans
<1> USE DEF Structure, Settling, Decided, NotPublished, PlanSteps, Goto, Return, fs
<1>0. op \in Op
  BY DEF TypeOK
<1>1. ASSUME BeginRecovery \/ \E new \in AppCred : BeginPublication(new)
      PROVE  Settling' /\ Decided' /\ (NotPublished => NotPublished')
  <2>1. pc' = "recover" /\ op'.settling = "recovery" /\ op'.inode = "Unavailable"
    BY <1>1 DEF BeginRecovery, BeginPublication, Enter, Request, NoOp
  <2> QED
    BY <2>1
<1>2. ASSUME Recover
      PROVE  Settling' /\ Decided' /\ (NotPublished => NotPublished')
  <2>1. CASE record = NoRecord /\ Settled(FALSE)
    BY <1>0, <1>2, <2>1, SettledIsDecided DEF Recover
  <2>2. CASE Goto("settle") /\ UNCHANGED op
    BY <1>2, <2>2 DEF Recover
  <2> QED
    BY <1>2, <2>1, <2>2 DEF Recover
<1>3. ASSUME Check
      PROVE  Settling' /\ Decided' /\ (NotPublished => NotPublished')
  <2>1. CASE op.expected = NoCred /\ Goto("create") /\ UNCHANGED op
    BY <1>3, <2>1 DEF Check, Prepared
  <2>2. CASE Goto("stage") /\ op' = [op EXCEPT !.live = Token("live"), !.settling = "publication"]
    <3>1. op'.settling = "publication" /\ op'.inode = op.inode
      BY <1>0, <2>2 DEF Op
    <3> QED
      BY <1>3, <2>2, <3>1 DEF Check, Prepared
  <2> QED
    BY <1>3, <2>1, <2>2 DEF Check
<1>4. ASSUME Create \/ ConfirmCreation
      PROVE  Settling' /\ Decided' /\ (NotPublished => NotPublished')
  <2>1. record' = NoRecord /\ pc \in {"create", "created"}
    BY <1>4 DEF Create, ConfirmCreation, Prepared
  <2>2. CASE Goto("created") /\ \E i \in Inode : op' = [op EXCEPT !.live = <<i, op.new>>]
    BY <1>0, <2>1, <2>2, OpFields
  <2> QED
    BY <1>4, <2>2 DEF Create, ConfirmCreation
<1>5. ASSUME Stage
      PROVE  Settling' /\ Decided' /\ (NotPublished => NotPublished')
  BY <1>5 DEF Stage, Prepared
<1>6. ASSUME PublishRecord
      PROVE  Settling' /\ Decided' /\ (NotPublished => NotPublished')
  <2>1. CASE record'.expected = op.live /\ Goto("witness") /\ UNCHANGED op
    BY <1>6, <2>1 DEF PublishRecord, Prepared
  <2> QED
    BY <1>6, <2>1 DEF PublishRecord
<1>7. ASSUME OpenWitness \/ Recheck \/ Exchange \/ ObserveHandle
      PROVE  Settling' /\ Decided' /\ (NotPublished => NotPublished')
  <2>1. record' = record /\ op.settling = "publication"
    BY <1>7 DEF OpenWitness, Recheck, Exchange, ObserveHandle
  <2>2. \/ Return("Error")
        \/ /\ pc' \in {"recheck", "exchange", "observe", "settle"}
           /\ \/ op' = op
              \/ \E t : \/ op' = [op EXCEPT !.witness = t]
                        \/ op' = [op EXCEPT !.boundary = t]
                        \/ op' = [op EXCEPT !.inode = t]
    BY <1>7 DEF OpenWitness, Recheck, Exchange, ObserveHandle
  <2>3. CASE /\ pc' \in {"recheck", "exchange", "observe", "settle"}
             /\ op'.settling = op.settling /\ op'.expected = op.expected
    BY <2>1, <2>3
  <2>4. CASE Return("Error")
    BY <2>4
  <2>5. ASSUME NEW t, \/ op' = op \/ op' = [op EXCEPT !.witness = t]
                      \/ op' = [op EXCEPT !.boundary = t] \/ op' = [op EXCEPT !.inode = t]
        PROVE  op'.settling = op.settling /\ op'.expected = op.expected
    BY <1>0, <2>5 DEF Op
  <2> QED
    BY <2>2, <2>3, <2>4, <2>5
<1>8. ASSUME Settle
      PROVE  Settling' /\ Decided' /\ (NotPublished => NotPublished')
  <2>1. CASE Unread
    BY <2>1
  <2>2. CASE Goto("classify") /\ op' = [op EXCEPT !.live = Token("live")]
    <3>1. /\ op'.live = Token("live") /\ op'.settling = op.settling /\ op'.expected = op.expected
          /\ op'.inode = op.inode /\ op'.plan = op.plan
      BY <1>0, <2>2, OpFields
    <3> QED
      BY <1>8, <2>2, <3>1 DEF Settle, Token
  <2> QED
    BY <1>8, <2>1, <2>2 DEF Settle
<1>9. ASSUME Classify
      PROVE  Settling' /\ Decided' /\ (NotPublished => NotPublished')
  <2>1. UNCHANGED fs /\ Token("live")' = Token("live") /\ pc = "classify"
    BY <1>9 DEF Classify, Token
  <2>2. CASE Verdict \in {"finalize", "cleanup", "drop"} /\ Goto(FirstStep[Verdict])
             /\ op' = [op EXCEPT !.plan = Verdict]
    <3>1. Verdict \in {"cleanup", "drop"} => op.live # record.candidate
      BY DEF Verdict, CanCleanUp, NothingLeft, CandidateLive
    <3>2. pc' \in {"inspect", "unstage", "drop"}
      BY <2>2 DEF FirstStep
    <3>3. /\ op'.live = op.live /\ op'.settling = op.settling /\ op'.expected = op.expected
          /\ op'.inode = op.inode /\ op'.plan = Verdict
      BY <1>0, <2>2, OpFields
    <3> QED
      BY <2>1, <2>2, <3>1, <3>2, <3>3
  <2>3. CASE Verdict = "restore" /\ Goto("restore") /\ op' = [op EXCEPT !.displaced = Token("candidate")]
    <3>1. op.inode = "Unchanged"
      BY <2>3 DEF Verdict, WonBeforeExchange
    <3>2. /\ op'.settling = op.settling /\ op'.expected = op.expected /\ op'.inode = op.inode
      BY <1>0, <2>3, OpFields
    <3> QED
      BY <2>1, <2>3, <3>1, <3>2
  <2> QED
    BY <1>9, <2>2, <2>3 DEF Classify
(* The steps of a plan leave live alone.                                    *)
<1>10. ASSUME Unstage \/ Inspect \/ Quarantine \/ VerifyQuarantined \/ Unlink \/ Promote
       PROVE  Settling' /\ Decided' /\ (NotPublished => NotPublished')
  <2>1. record' = record /\ data' = data /\ pc \in PlanSteps
    BY <1>10 DEF Unstage, Inspect, Quarantine, VerifyQuarantined, Unlink, Promote
  <2>2. names'["live"] = names["live"]
    BY <1>10 DEF Unstage, Inspect, Quarantine, VerifyQuarantined, Unlink, Promote, Fail, Swap,
                 TypeOK, Names
  <2>3. Token("live")' = Token("live")
    BY <2>1, <2>2 DEF Token
  <2>4. PlanFailed \/ (pc' \in PlanSteps /\ (op' = op \/ ReadLive))
    BY <1>10 DEF Unstage, Inspect, Quarantine, VerifyQuarantined, Unlink, Promote, Fail,
                 AfterRemoval
  <2>5. CASE pc' \in PlanSteps /\ ReadLive
    <3>1. /\ op'.settling = op.settling /\ op'.expected = op.expected /\ op'.inode = op.inode
          /\ op'.plan = op.plan
      BY <1>0, <2>5, OpFields DEF ReadLive
    <3> QED
      BY <2>1, <2>3, <2>5, <3>1
  <2> QED
    BY <2>1, <2>3, <2>4, <2>5
<1>11. ASSUME DropRecord
       PROVE  Settling' /\ Decided' /\ (NotPublished => NotPublished')
  <2>1. CASE PlanFailed
    BY <2>1
  <2>2. CASE record' = NoRecord /\ Settled(FALSE)
    BY <1>0, <2>2, SettledIsDecided
  <2>3. CASE ~PlanFailed /\ ~Settled(FALSE)
    <3>1. /\ op.plan = "finalize" /\ pc' = "trim" /\ record' = NoRecord /\ pc = "drop"
          /\ op' = op
          /\ history' = IF names["backup"] = NoFile THEN history
                                                    ELSE Append(history, data[names["backup"]])
      BY <1>11, <2>3 DEF DropRecord, Fail
    <3>2. op'.settling = op.settling /\ op'.expected = op.expected /\ op'.inode = op.inode
      BY <3>1
    <3>3. names["backup"] # NoFile /\ record # NoRecord
      BY <3>1 DEF CopyFollowsPlan, NamesNeedRecord
    <3>4. data[names["backup"]] = record.expected[2]
      BY <3>3 DEF CopyIsPrivate
    <3>5. history \in Seq(Cred) /\ data[names["backup"]] \in Cred
      BY <3>3, NamesListed DEF TypeOK
    <3>6. history' # <<>> /\ history'[Len(history')] = record.expected[2]
      BY <3>1, <3>3, <3>4, <3>5
    <3> QED
      BY <3>1, <3>2, <3>3, <3>6
  <2>4. PlanFailed \/ (record' = NoRecord /\ Settled(FALSE)) \/ (~PlanFailed /\ ~Settled(FALSE))
    BY <1>11 DEF DropRecord, Fail
  <2> QED
    BY <2>1, <2>2, <2>3, <2>4
<1>12. ASSUME TrimBackups
       PROVE  Settling' /\ Decided' /\ (NotPublished => NotPublished')
  <2>1. record' = NoRecord /\ Settled(op.stays) /\ op.stays \in BOOLEAN
    BY <1>0, <1>12 DEF TrimBackups, Prepared, Op
  <2> QED
    BY <1>0, <2>1, SettledIsDecided
<1>13. ASSUME Restore \/ ExchangeBack
       PROVE  Settling' /\ Decided' /\ (NotPublished => NotPublished')
  BY <1>13 DEF Restore, ExchangeBack
<1>14. ASSUME ConfirmRestored
       PROVE  Settling' /\ Decided' /\ (NotPublished => NotPublished')
  <2>1. CASE /\ Token("candidate") = record.candidate
             /\ Goto("unstage") /\ op' = [op EXCEPT !.plan = "cleanup"]
    <3>1. /\ op'.live = op.live /\ op'.settling = op.settling /\ op'.expected = op.expected
          /\ op'.inode = op.inode /\ op'.plan = "cleanup"
      BY <1>0, <2>1, OpFields
    <3>2. names["candidate"] # NoFile
      BY <1>14 DEF ConfirmRestored, CandidateNamed
    <3>3. names["live"] # names["candidate"]
      BY <3>2, NamesListed DEF DistinctFiles
    <3>4. Token("live") # record.candidate
      BY <2>1, <3>2, <3>3 DEF Token, Absent
    <3> QED
      BY <1>14, <2>1, <3>1, <3>4 DEF ConfirmRestored, Token
  <2> QED
    BY <1>14, <2>1 DEF ConfirmRestored
<1>15. ASSUME Crash
       PROVE  Settling' /\ Decided' /\ (NotPublished => NotPublished')
  BY <1>15 DEF Crash
<1> QED
  BY <1>1, <1>2, <1>3, <1>4, <1>5, <1>6, <1>7, <1>8, <1>9, <1>10, <1>11, <1>12, <1>13, <1>14, <1>15
     DEF Application

(* Codex can make the candidate live only by writing its very content.      *)
LEMMA CodexLeavesDecided ==
  ASSUME Structure, Settling, Decided, Codex
  PROVE  /\ Settling' /\ Decided'
         /\ AppCred \cap CodexCred = {} /\ NotPublished => NotPublished'
<1>1. UNCHANGED <<record, history, pc, op>>
  BY DEF Codex, CodexOpens, CodexRewrites, CodexReplaces, CodexLogsOut, CodexMoves, fs
<1>2. Settling' /\ Decided'
  BY <1>1 DEF Settling, Decided
<1>3. ASSUME AppCred \cap CodexCred = {}, record # NoRecord, Token("live") # record.candidate
      PROVE  Token("live")' # record.candidate
  <2>1. record.candidate[2] \in AppCred /\ record.candidate[1] \in Inode
    BY <1>3 DEF Structure, CopyIsPrivate, TypeOK, RecordOrNone, Records
  <2>2. NoCred \notin AppCred
    BY PublicationConstants
  <2>3. CASE CodexOpens
    BY <1>3, <2>3 DEF CodexOpens, fs, Token
  <2>4. ASSUME NEW c \in CodexCred, CodexRewrites(c) PROVE Token("live")' # record.candidate
    <3>1. names' = names /\ data' = [data EXCEPT ![codexFd] = c] /\ c \notin AppCred
      BY <1>3, <2>4 DEF CodexRewrites
    <3>2. data \in [Inode -> Cred] /\ names["live"] \in Inode \cup {NoFile}
      BY NamesListed DEF Structure, TypeOK
    <3>3. CASE names["live"] = NoFile
      BY <2>1, <2>2, <3>1, <3>3 DEF Token, Absent
    <3>4. CASE names["live"] = codexFd /\ names["live"] # NoFile
      <4>1. data'[names["live"]] = c
        BY <3>1, <3>2, <3>4
      <4> QED
        BY <2>1, <3>1, <3>4, <4>1 DEF Token
    <3>5. CASE names["live"] # codexFd /\ names["live"] # NoFile
      <4>1. data'[names["live"]] = data[names["live"]]
        BY <3>1, <3>2, <3>5
      <4> QED
        BY <1>3, <3>1, <4>1 DEF Token
    <3> QED
      BY <3>3, <3>4, <3>5
  <2>5. ASSUME NEW c \in CodexCred, CodexReplaces(c) PROVE Token("live")' # record.candidate
    <3>1. PICK i \in Inode : /\ names' = [names EXCEPT !["live"] = i]
                             /\ data' = [data EXCEPT ![i] = c]
      BY <2>5 DEF CodexReplaces
    <3>2. names'["live"] = i /\ data'[i] = c /\ i # NoFile
      BY <3>1, NamesListed, PublicationConstants DEF Structure, TypeOK
    <3> QED
      BY <1>3, <2>1, <3>2 DEF Token
  <2>6. CASE CodexLogsOut
    <3>1. names'["live"] = NoFile
      BY <2>6, NamesListed DEF CodexLogsOut, Structure, TypeOK
    <3> QED
      BY <2>1, <2>2, <3>1 DEF Token, Absent
  <2> QED
    BY <2>3, <2>4, <2>5, <2>6 DEF Codex
<1>4. pc \in PlanSteps \cup {"classify"} => record # NoRecord
  BY DEF Structure, NamesNeedRecord, PlanSteps
<1> QED
  BY <1>1, <1>2, <1>3, <1>4 DEF NotPublished, PlanSteps

LEMMA DecidedKept ==
  ASSUME IInv, Settling, Decided, [Next]_vars
  PROVE  /\ Settling' /\ Decided'
         /\ AppCred \cap CodexCred = {} /\ NotPublished => NotPublished'
<1>1. Structure
  BY DEF IInv, Structure
<1>2. CASE UNCHANGED vars
  BY <1>2 DEF vars, fs, Settling, Decided, NotPublished, Token
<1> QED
  BY <1>1, <1>2, DecidedStep, CodexLeavesDecided DEF Next, Rest

LEMMA InitIsDecided == Init => Settling /\ Decided /\ NotPublished
BY DEF Init, Settling, Decided, NotPublished, PlanSteps, NoOp

(* Recovery of an interrupted publication rolls its artifacts forward or    *)
(* back and never changes which file is live                                *)
(* (recover_interrupted_auth_publication): whatever moves live knows what   *)
(* the caller saw.                                                          *)
THEOREM RecoveryKeepsLive == Spec => RecoveryLeavesLive
<1>1. IInv /\ Settling /\ [Next]_vars =>
        [ByApplication /\ record # NoRecord /\ op.settling = "recovery"
           => names'["live"] = names["live"]]_vars
  <2> SUFFICES ASSUME IInv, Settling, [Next]_vars, ByApplication, record # NoRecord,
                      op.settling = "recovery"
               PROVE  names'["live"] = names["live"]
    OBVIOUS
  <2> TypeOK
    BY DEF IInv
  <2> USE NamesListed DEF TypeOK, Settling, fs
  <2>1. CASE Application
    <3>1. pc \notin {"create", "record", "stage", "exchange", "restoring"}
      BY DEF IInv, Prepared
    <3>2. CASE \/ BeginRecovery \/ \E new \in AppCred : BeginPublication(new)
               \/ Recover \/ Check \/ ConfirmCreation \/ OpenWitness \/ Recheck \/ ObserveHandle
               \/ Settle \/ Classify \/ TrimBackups \/ Restore \/ ConfirmRestored
      BY <3>2 DEF BeginRecovery, BeginPublication, Recover, Check, ConfirmCreation, OpenWitness,
                  Recheck, ObserveHandle, Settle, Classify, TrimBackups, Restore, ConfirmRestored
    <3>3. CASE \/ Unstage \/ Inspect \/ Quarantine \/ VerifyQuarantined \/ Unlink \/ Promote
               \/ DropRecord
      BY <3>3 DEF Unstage, Inspect, Quarantine, VerifyQuarantined, Unlink, Promote, DropRecord,
                  Fail, Swap
    <3> QED
      BY <2>1, <3>1, <3>2, <3>3
         DEF Application, Create, Stage, PublishRecord, Exchange, ExchangeBack
  <2>2. CASE Crash
    BY <2>2 DEF Crash, Forgotten
  <2>3. CASE Codex
    <3>1. ~CodexMoves
      BY DEF ByApplication, CodexMoves
    <3> QED
      BY <2>3, <3>1 DEF Codex, CodexOpens, CodexRewrites, CodexReplaces, CodexLogsOut
  <2>4. CASE UNCHANGED vars
    BY <2>4 DEF vars
  <2> QED
    BY <2>1, <2>2, <2>3, <2>4 DEF Next, Rest
<1>2. IInv /\ Settling /\ Decided /\ [Next]_vars => Settling' /\ Decided'
  BY DecidedKept
<1> QED
  BY <1>1, <1>2, InitIsDecided, InductiveInvariant, PTL DEF Spec, RecoveryLeavesLive

(* The steps that report success or a lost race.                            *)
LEMMA ResultSteps ==
  ASSUME IInv, Settling, [Next]_vars, NEW o \in {"Written", "Changed"}, Returns(o)
  PROVE  \/ ConfirmCreation /\ o = "Written"
         \/ TrimBackups
         \/ DropRecord /\ o = "Changed" /\ Settled(FALSE)
         \/ (Check \/ Create) /\ o = "Changed"
<1> USE DEF Returns, Goto, Return, Settling, fs
<1>1. op \in Op
  BY DEF IInv, TypeOK
<1>2. ~Stuck("RestoredRecovery") /\ ~Stuck("PublishedRecovery") /\ ~Stuck("AmbiguousRecovery")
  BY DEF Stuck
<1>3. ~PlanFailed /\ ~Unread
  BY <1>2 DEF PlanFailed, Unread, Stuck
<1>4. CASE Application
  <2>1. ~(BeginRecovery \/ \E new \in AppCred : BeginPublication(new))
    BY DEF BeginRecovery, BeginPublication, Enter
  <2>2. ~Recover
    BY DEF Recover, Settled
  <2>3. ~(Stage \/ PublishRecord \/ OpenWitness \/ Recheck \/ Exchange \/ ObserveHandle \/ Settle)
    BY <1>3 DEF Stage, PublishRecord, OpenWitness, Recheck, Exchange, ObserveHandle, Settle
  <2>4. ~Classify
    <3>1. Verdict \in {"finalize", "cleanup", "drop", "restore", "preserve", "ambiguous"}
      BY DEF Verdict
    <3>2. FirstStep["finalize"] # "idle" /\ FirstStep["cleanup"] # "idle" /\ FirstStep["drop"] # "idle"
      BY DEF FirstStep
    <3> QED
      BY <1>2, <1>3, <3>1, <3>2 DEF Classify
  <2>5. ~(Unstage \/ Inspect \/ Quarantine \/ VerifyQuarantined \/ Unlink \/ Promote)
    BY <1>3 DEF Unstage, Inspect, Quarantine, VerifyQuarantined, Unlink, Promote, Fail,
                AfterRemoval
  <2>6. ~(Restore \/ ExchangeBack \/ ConfirmRestored)
    BY <1>2 DEF Restore, ExchangeBack, ConfirmRestored
  <2>7. DropRecord => Settled(FALSE) /\ o = "Changed"
    <3>1. DropRecord => Settled(FALSE)
      BY <1>3 DEF DropRecord, Fail
    <3>2. Settled(FALSE) => o = "Changed"
      BY DEF Settled
    <3> QED
      BY <3>1, <3>2
  <2>8. (Check \/ Create => o = "Changed") /\ (ConfirmCreation => o = "Written")
    BY DEF Check, Create, ConfirmCreation
  <2> QED
    BY <1>4, <2>1, <2>2, <2>3, <2>4, <2>5, <2>6, <2>7, <2>8 DEF Application
<1>5. ~Crash /\ ~(UNCHANGED vars)
  BY DEF Crash, vars
<1>6. ~Codex
  BY DEF Codex, CodexOpens, CodexRewrites, CodexReplaces, CodexLogsOut, CodexMoves
<1> QED
  BY <1>4, <1>5, <1>6 DEF Next, Rest

(* Trimming keeps the newest backup.                                        *)
LEMMA SuffixFacts ==
  ASSUME NEW S, NEW s \in Seq(S), NEW m \in Nat, 0 < m, m <= Len(s)
  PROVE  LET h == SubSeq(s, m, Len(s))
         IN  Len(s) - m + 1 \in DOMAIN h /\ h[Len(s) - m + 1] = s[Len(s)]
<1> DEFINE n == Len(s)
<1>1. n \in Nat /\ \A i \in m..n : s[i] \in S
  OBVIOUS
<1> HIDE DEF n
<1>2. /\ SubSeq(s, m, n) \in Seq(S)
      /\ Len(SubSeq(s, m, n)) = IF m <= n THEN n - m + 1 ELSE 0
      /\ \A i \in 1..(n - m + 1) : SubSeq(s, m, n)[i] = s[m + i - 1]
  BY <1>1
<1>3. m <= n
  BY DEF n
<1>4. n - m + 1 \in 1..(n - m + 1) /\ m + (n - m + 1) - 1 = n
  BY <1>1, <1>3
<1>5. n - m + 1 \in DOMAIN SubSeq(s, m, n)
  BY <1>2, <1>3, <1>4
<1> QED
  BY <1>2, <1>4, <1>5 DEF n

LEMMA TrimKeepsLast ==
  ASSUME history \in Seq(Cred), history # <<>>, NEW h,
         h = SubSeq(history, Excess + 1, Len(history))
  PROVE  \E k \in DOMAIN h : h[k] = history[Len(history)]
<1>1. PICK s : s = history
  OBVIOUS
<1>2. s \in Seq(Cred) /\ Len(s) \in Nat /\ Len(s) > 0
  BY <1>1
<1>3. PICK m : m = Excess + 1
  OBVIOUS
<1>4. m \in Nat /\ 0 < m /\ m <= Len(s)
  BY <1>1, <1>2, <1>3, PublicationConstants DEF Excess
<1>5. /\ Len(s) - m + 1 \in DOMAIN SubSeq(s, m, Len(s))
      /\ SubSeq(s, m, Len(s))[Len(s) - m + 1] = s[Len(s)]
  BY <1>2, <1>4, SuffixFacts
<1> QED
  BY <1>1, <1>3, <1>5

(* What the caller reads into a result is so (atomic_write_private_if_      *)
(* unchanged): Written leaves the displaced credential as the newest        *)
(* managed backup and no transaction to recover; Changed leaves nothing of  *)
(* the attempt, and its candidate is not live.  The last holds because      *)
(* Codex never writes the very bytes of a saved profile.                    *)
THEOREM ResultsHold ==
  ASSUME AppCred \cap CodexCred = {}
  PROVE  Spec => ResultsAreTrue
<1>1. IInv /\ Settling /\ Decided /\ NotPublished /\ [Next]_vars =>
        [/\ Returns("Written") => BackedUp
         /\ Returns("Changed") => NothingRemains]_vars
  <2> SUFFICES ASSUME IInv, Settling, Decided, NotPublished, [Next]_vars
               PROVE  /\ Returns("Written") => BackedUp
                      /\ Returns("Changed") => NothingRemains
    OBVIOUS
  <2> TypeOK /\ op \in Op
    BY DEF IInv, TypeOK
  <2>1. ASSUME Returns("Written") PROVE BackedUp
    <3>1. CASE ConfirmCreation
      BY <3>1 DEF ConfirmCreation, Decided, BackedUp, IInv, Prepared, fs
    <3>2. CASE TrimBackups
      <4>1. record' = NoRecord /\ pc = "trim" /\ Settled(op.stays)
            /\ history' = SubSeq(history, Excess + 1, Len(history))
        BY <3>2 DEF TrimBackups, IInv, Prepared
      <4>2. op.settling = "publication"
        BY <2>1, <4>1 DEF Settled, Returns, Return, Goto, Op
      <4>3. history # <<>> /\ history[Len(history)] = op.expected
        BY <4>1, <4>2 DEF Decided
      <4>4. \E k \in DOMAIN history' : history'[k] = op.expected
        <5>1. PICK h : h = history'
          OBVIOUS
        <5>2. history \in Seq(Cred)
          BY DEF TypeOK
        <5> QED
          BY <4>1, <4>3, <5>1, <5>2, TrimKeepsLast
      <4> QED
        BY <4>1, <4>4 DEF BackedUp
    <3> QED
      BY <2>1, <3>1, <3>2, ResultSteps
  <2>2. ASSUME Returns("Changed") PROVE NothingRemains
    <3>1. CASE Check \/ Create
      <4>1. record = NoRecord /\ record' = NoRecord /\ pc \in {"check", "create"}
        BY <3>1 DEF Check, Create, IInv, Prepared, fs
      <4>2. \A n \in Names \ {"live"} : names[n] = NoFile
        BY <4>1, NamesListed DEF IInv, NamesNeedRecord
      <4>3. names' = names
        BY <2>2, <3>1 DEF Check, Create, fs, Returns, Goto
      <4> QED
        BY <4>1, <4>2, <4>3 DEF NothingRemains
    <3>2. CASE DropRecord /\ Settled(FALSE)
      <4>1. op.plan # "finalize" /\ pc = "drop"
        <5>1. pc' = "idle" /\ outcome' = "Changed"
          BY <2>2 DEF Returns
        <5>2. ~PlanFailed
          BY <5>1 DEF PlanFailed, Stuck, Return
        <5> QED
          BY <3>2, <5>1, <5>2 DEF DropRecord, Fail, Goto
      <4>2. record' = NoRecord /\ names' = [names EXCEPT !["backup"] = NoFile]
        <5>1. ~PlanFailed
          BY <2>2 DEF Returns, PlanFailed, Stuck, Return
        <5> QED
          BY <3>2, <5>1 DEF DropRecord, Fail
      <4>3. names["candidate"] = NoFile /\ names["quarantine"] = NoFile /\ op.plan # "none"
        BY <4>1 DEF IInv, PlanUnderWay
      <4>4. names["stage"] = NoFile
        <5>1. op.plan \in {"cleanup", "drop"}
          BY <4>1, <4>3 DEF Op, Plans
        <5> QED
          BY <4>1, <5>1 DEF IInv, CopyFollowsPlan
      <4>5. \A n \in Names \ {"live"} : names'[n] = NoFile
        BY <4>2, <4>3, <4>4, NamesListed DEF TypeOK
      <4>6. Token("live") # record.candidate
        BY <4>1 DEF NotPublished, PlanSteps
      <4> QED
        BY <4>2, <4>5, <4>6 DEF NothingRemains
    <3>3. CASE TrimBackups
      <4>1. record = NoRecord /\ record' = NoRecord /\ names' = names /\ pc = "trim"
        BY <3>3 DEF TrimBackups, IInv, Prepared
      <4>2. \A n \in Names \ {"live"} : names[n] = NoFile
        BY <4>1, NamesListed DEF IInv, NamesNeedRecord
      <4> QED
        BY <4>1, <4>2 DEF NothingRemains
    <3> QED
      BY <2>2, <3>1, <3>2, <3>3, ResultSteps
  <2> QED
    BY <2>1, <2>2
<1>2. IInv /\ Settling /\ Decided /\ NotPublished /\ [Next]_vars
        => Settling' /\ Decided' /\ NotPublished'
  BY DecidedKept
<1> QED
  BY <1>1, <1>2, InitIsDecided, InductiveInvariant, PTL DEF Spec, ResultsAreTrue

----------------------------------------------------------------------------
(* Why a crash alone is always recoverable.  While Codex keeps away, what   *)
(* was prepared holds what the record says, and the transaction is in one   *)
(* of two shapes: not yet exchanged, or exchanged with the very file the    *)
(* record expected.  The steps of a plan never leave the shape the plan was *)
(* chosen for.                                                              *)

Old   == record.expected[1]
Fresh == record.candidate[1]
Copy  == record.backup[1]

Intact ==
  /\ Old # Fresh /\ Old # Copy /\ Fresh # Copy
  /\ data[Fresh] = record.candidate[2]
  /\ data[Copy] = record.backup[2]

Undone ==
  /\ names["live"] # Fresh /\ names["backup"] = NoFile
  /\ names["candidate"] \in {Fresh, NoFile} /\ names["quarantine"] \in {Fresh, NoFile}
  /\ names["stage"] = NoFile \/ (names["stage"] = Copy /\ names["candidate"] = Fresh)

Done ==
  /\ names["live"] = Fresh /\ data[Old] = record.expected[2]
  /\ names["candidate"] \in {Old, NoFile} /\ names["quarantine"] \in {Old, NoFile}
  /\ \/ names["stage"] = Copy /\ names["backup"] = NoFile
     \/ /\ names["stage"] = NoFile /\ names["backup"] = Copy
        /\ names["candidate"] = NoFile /\ names["quarantine"] = NoFile

ShapeFits ==
  /\ pc \in {"witness", "recheck", "exchange"} => Undone /\ names["stage"] = Copy
  /\ pc = "exchange" => names["live"] = Old /\ data[Old] = record.expected[2]
  /\ pc \in PlanSteps => IF op.plan = "finalize" THEN Done ELSE Undone
  /\ pc = "classify" => op.live = Token("live")
  /\ pc \notin {"restore", "restoring", "restored"}

QuietHeld == quiet /\ record # NoRecord => Intact /\ (Undone \/ Done) /\ ShapeFits

(* What the names of a record are.                                          *)
LEMMA RecordNames ==
  ASSUME TypeOK, record # NoRecord
  PROVE  /\ Old \in Inode /\ Fresh \in Inode /\ Copy \in Inode
         /\ NoFile \notin {Old, Fresh, Copy}
         /\ record.expected = <<Old, record.expected[2]>>
         /\ record.candidate = <<Fresh, record.candidate[2]>>
         /\ record.backup = <<Copy, record.backup[2]>>
<1>1. /\ record.expected \in Inode \X Cred
      /\ record.candidate \in Inode \X Cred
      /\ record.backup \in Inode \X Cred
  BY DEF TypeOK, RecordOrNone, Records
<1> QED
  BY <1>1, PublicationConstants DEF Old, Fresh, Copy

(* What the settlement decides about each shape.                            *)
LEMMA UndoneIsCleanedUp ==
  ASSUME TypeOK, record # NoRecord, Intact, Undone, op.live = Token("live")
  PROVE  Verdict \in {"cleanup", "drop"}
<1> USE RecordNames DEF Intact, Undone, Token, Absent
<1>1. ~CandidateLive
  BY DEF CandidateLive
<1>2. ~CanFinalize
  <2>1. Token("candidate") # record.expected
    OBVIOUS
  <2> QED
    BY <1>1, <2>1 DEF CanFinalize
<1>3. ~Foreign /\ ~BackupRetained
  BY <1>1 DEF Foreign, BackupRetained
<1>4. CASE names["candidate"] = Fresh
  <2>1. Token("candidate") = record.candidate /\ Token("stage") \in {record.backup, Absent}
    BY <1>4
  <2>2. CanCleanUp
    BY <1>1, <1>2, <1>3, <2>1 DEF CanCleanUp
  <2> QED
    BY <1>2, <1>3, <2>2 DEF Verdict
<1>5. CASE names["candidate"] = NoFile
  <2>1. NothingLeft
    BY <1>1, <1>5 DEF NothingLeft
  <2> QED
    BY <1>2, <1>3, <2>1 DEF Verdict
<1> QED
  BY <1>4, <1>5

LEMMA DoneIsFinalized ==
  ASSUME TypeOK, record # NoRecord, Intact, Done, op.live = Token("live")
  PROVE  Verdict = "finalize"
<1> USE RecordNames DEF Intact, Done, Token, Absent
<1>1. CandidateLive
  BY DEF CandidateLive
<1>2. DisplacedKnown
  BY DEF DisplacedKnown
<1>3. BackupWaiting \/ BackupRetained
  BY DEF BackupWaiting, BackupRetained
<1>4. CanFinalize
  BY <1>1, <1>2, <1>3, Zenon DEF CanFinalize
<1>5. ~Foreign /\ ~CanCleanUp /\ ~NothingLeft
  BY <1>1, <1>2, <1>4, Zenon DEF Foreign, CanCleanUp, NothingLeft
<1> QED
  BY <1>4, <1>5 DEF Verdict

(* The record appears around a transaction that is still undone.            *)
LEMMA RecordOfUndone ==
  ASSUME Structure, PublishRecord, quiet', record' # NoRecord
  PROVE  QuietHeld'
<1> USE DEF Structure
<1>1. /\ pc = "record" /\ record = NoRecord /\ names["candidate"] # NoFile
      /\ names["stage"] # NoFile /\ op.live \in Inode \X Cred
      /\ names["backup"] = NoFile /\ names["quarantine"] = NoFile
  BY DEF PublishRecord, Prepared, NamesNeedRecord
<1>2. /\ data' = data
      /\ record' = [expected |-> op.live, candidate |-> Token("candidate"),
                    backup |-> Token("stage")]
      /\ \/ names' = names /\ pc' \in {"witness", "idle"}
         \/ DropStaged /\ pc' = "idle"
  BY <1>1 DEF PublishRecord, Goto, Return
<1>3. op.live[1] # names["candidate"] /\ op.live[1] # names["stage"]
  BY <1>1 DEF Prepared
<1>4. names["live"] # names["candidate"] /\ names["candidate"] # names["stage"]
  BY <1>1, NamesListed DEF DistinctFiles
<1>5. /\ record'.candidate = <<names["candidate"], data[names["candidate"]]>>
      /\ record'.backup = <<names["stage"], data[names["stage"]]>>
  BY <1>1, <1>2 DEF Token
<1>6. Old' = op.live[1] /\ Fresh' = names["candidate"] /\ Copy' = names["stage"]
  BY <1>2, <1>5 DEF Old, Fresh, Copy
<1>7. Intact'
  BY <1>2, <1>3, <1>4, <1>5, <1>6 DEF Intact
<1>8. CASE names' = names /\ pc' \in {"witness", "idle"}
  <2>1. Undone' /\ names'["stage"] = Copy'
    BY <1>1, <1>4, <1>6, <1>8 DEF Undone
  <2> QED
    BY <1>7, <1>8, <2>1 DEF QuietHeld, ShapeFits, PlanSteps
<1>9. CASE DropStaged /\ pc' = "idle"
  <2>1. /\ names'["live"] = names["live"] /\ names'["backup"] = NoFile
        /\ names'["candidate"] = NoFile /\ names'["stage"] = NoFile
        /\ names'["quarantine"] = NoFile
    BY <1>1, <1>9, NamesListed DEF DropStaged, TypeOK
  <2>2. Undone'
    BY <1>4, <1>6, <2>1 DEF Undone
  <2> QED
    BY <1>7, <1>9, <2>2 DEF QuietHeld, ShapeFits, PlanSteps
<1> QED
  BY <1>2, <1>8, <1>9

(* While the record and the contents stay, so do what they denote.          *)
LEMMA StaysIntact ==
  ASSUME record' = record, data' = data
  PROVE  /\ Old' = Old /\ Fresh' = Fresh /\ Copy' = Copy
         /\ Intact => Intact'
         /\ names' = names => /\ Undone => Undone'
                              /\ Done => Done'
                              /\ Token("live")' = Token("live")
BY DEF Old, Fresh, Copy, Intact, Undone, Done, Token

(* A step that leaves the directory alone keeps the shape; what it decides  *)
(* fits it.                                                                 *)
LEMMA DecisionFits ==
  ASSUME Structure, QuietHeld, quiet, record # NoRecord, UNCHANGED <<fs, quiet>>,
         \/ BeginRecovery \/ \E new \in AppCred : BeginPublication(new)
         \/ Recover \/ OpenWitness \/ Recheck \/ ObserveHandle
         \/ Settle \/ Classify \/ Restore \/ ConfirmRestored
  PROVE  QuietHeld'
<1> USE StuckMeans DEF Structure, QuietHeld, ShapeFits, PlanSteps, Goto, Return
<1>1. /\ record' = record /\ names' = names /\ data' = data /\ Old' = Old
      /\ Intact' /\ (Undone \/ Done) /\ (Undone' \/ Done')
      /\ (Undone => Undone') /\ (Done => Done') /\ Copy' = Copy /\ Token("live")' = Token("live")
  BY StaysIntact DEF fs
<1>2. CASE BeginRecovery \/ \E new \in AppCred : BeginPublication(new)
  BY <1>1, <1>2 DEF BeginRecovery, BeginPublication, Enter
<1>3. CASE Recover
  BY <1>1, <1>3 DEF Recover
<1>4. CASE OpenWitness \/ Recheck
  <2>1. CASE Recheck /\ Goto("exchange")
    <3>1. Token("live") = record.expected
      BY <2>1 DEF Recheck
    <3>2. names["live"] = Old /\ data[Old] = record.expected[2]
      <4>1. Token("live") = <<Old, record.expected[2]>> /\ Old # NoFile
        BY <3>1, RecordNames
      <4> QED
        BY <4>1 DEF Token, Absent
    <3>3. pc = "recheck"
      BY <2>1 DEF Recheck
    <3> QED
      BY <1>1, <2>1, <3>2, <3>3
  <2> QED
    BY <1>1, <1>4, <2>1 DEF OpenWitness, Recheck
<1>5. CASE ObserveHandle
  BY <1>1, <1>5 DEF ObserveHandle
<1>6. CASE Settle
  <2>1. CASE Unread
    BY <1>1, <2>1, UnreadMeans
  <2>2. CASE Goto("classify") /\ op' = [op EXCEPT !.live = Token("live")]
    <3>1. op'.live = Token("live")
      BY <2>2 DEF TypeOK, Op
    <3> QED
      BY <1>1, <2>2, <3>1
  <2> QED
    BY <1>6, <2>1, <2>2 DEF Settle
<1>7. CASE Classify
  <2>1. pc = "classify" /\ op.live = Token("live") /\ Intact /\ (Undone \/ Done)
    BY <1>1, <1>7 DEF Classify
  <2>2. \/ Undone /\ Verdict \in {"cleanup", "drop"}
        \/ Done /\ Verdict = "finalize"
    BY <2>1, UndoneIsCleanedUp, DoneIsFinalized
  <2>3. CASE pc' = "idle"
    BY <1>1, <2>3
  <2>4. CASE pc' \in {"inspect", "unstage", "drop"} /\ op' = [op EXCEPT !.plan = Verdict]
    <3>1. op'.plan = Verdict
      BY <2>4 DEF TypeOK, Op
    <3> QED
      BY <1>1, <2>2, <2>4, <3>1
  <2> QED
    BY <1>7, <2>2, <2>3, <2>4, ClassifyMeans, Zenon
<1>8. CASE Restore \/ ConfirmRestored
  BY <1>8 DEF Restore, ConfirmRestored
<1> QED
  BY <1>2, <1>3, <1>4, <1>5, <1>6, <1>7, <1>8

(* The exchange turns one shape into the other.                             *)
LEMMA ExchangeFits ==
  ASSUME Structure, QuietHeld, quiet, record # NoRecord, Exchange
  PROVE  QuietHeld'
<1> USE DEF QuietHeld, ShapeFits, PlanSteps
<1>1. /\ pc = "exchange" /\ Undone /\ names["stage"] = Copy /\ pc' = "observe"
      /\ names["live"] = Old /\ data[Old] = record.expected[2]
      /\ record' = record /\ data' = data
  BY DEF Exchange, Goto
<1>2. Old' = Old /\ Fresh' = Fresh /\ Copy' = Copy /\ Intact'
  BY <1>1, StaysIntact
<1>3. CASE names' = names
  BY <1>1, <1>2, <1>3, StaysIntact
<1>4. CASE Swap("candidate", "live")
  <2>1. names["quarantine"] = NoFile
    BY <1>1 DEF Structure, PlanUnderWay
  <2>2. Copy # NoFile /\ TypeOK
    BY RecordNames DEF Structure
  <2>3. /\ names'["live"] = names["candidate"] /\ names'["candidate"] = names["live"]
        /\ names'["stage"] = names["stage"] /\ names'["backup"] = names["backup"]
        /\ names'["quarantine"] = names["quarantine"]
    BY <1>4, <2>2, NamesListed DEF Swap, TypeOK
  <2>4. Done'
    BY <1>1, <1>2, <2>1, <2>2, <2>3 DEF Undone, Done
  <2> QED
    BY <1>1, <1>2, <2>4
<1> QED
  BY <1>3, <1>4 DEF Exchange

(* A plan's step, whether it succeeds or fails, keeps the plan's shape.     *)
LEMMA PlanFits ==
  ASSUME Structure, QuietHeld, quiet, record # NoRecord, record' = record,
         Unstage \/ Inspect \/ Quarantine \/ VerifyQuarantined \/ Unlink \/ Promote \/ DropRecord
  PROVE  QuietHeld'
<1> USE DEF QuietHeld
<1>1. pc \in PlanSteps /\ data' = data /\ Intact
  BY DEF Unstage, Inspect, Quarantine, VerifyQuarantined, Unlink, Promote, DropRecord, PlanSteps
<1>2. Old' = Old /\ Fresh' = Fresh /\ Copy' = Copy /\ Intact'
  BY <1>1, StaysIntact
<1>3. NamesTyped /\ TypeOK
  BY DEF Structure, TypeOK, NamesTyped
<1>4. (pc' = "idle") \/ (pc' \in PlanSteps /\ op'.plan = op.plan)
  <2>1. (pc' = "idle") \/ (pc' \in PlanSteps /\ (op' = op \/ ReadLive))
    BY PlanFailedMeans DEF Unstage, Inspect, Quarantine, VerifyQuarantined, Unlink, Promote,
       DropRecord, Fail, AfterRemoval, Goto, PlanSteps
  <2>2. op \in Op
    BY <1>3 DEF TypeOK
  <2>3. ReadLive => op'.plan = op.plan
    BY <2>2, OpFields DEF ReadLive
  <2> QED
    BY <2>1, <2>2, <2>3
<1>5. ASSUME op.plan # "finalize", Undone
      PROVE  Undone'
  <2>1. CASE names' = names
    BY <1>1, <1>5, <2>1, StaysIntact
  <2>2. CASE Unstage /\ names' = [names EXCEPT !["stage"] = NoFile]
    BY <1>2, <1>3, <1>5, <2>2, NamesListed DEF Undone, NamesTyped
  <2>3. CASE Swap("candidate", "quarantine") /\ pc \in {"quarantine", "verify"}
    <3>1. names["stage"] = NoFile
      BY <1>1, <1>5, <2>3 DEF Structure, CopyFollowsPlan, PlanUnderWay, TypeOK, Op, Plans
    <3> QED
      BY <1>2, <1>3, <1>5, <2>3, <3>1, NamesListed DEF Undone, NamesTyped, Swap
  <2>4. CASE Unlink
    BY <1>2, <1>3, <1>5, <2>4, NamesListed DEF Undone, NamesTyped, Unlink
  <2>5. ~Promote
    BY <1>5 DEF Promote, Structure, PlanUnderWay
  <2>6. DropRecord => names' = names
    BY DEF DropRecord, Fail
  <2> QED
    BY <2>1, <2>2, <2>3, <2>4, <2>5, <2>6
       DEF Unstage, Inspect, Quarantine, VerifyQuarantined, Fail
<1>6. ASSUME op.plan = "finalize", Done
      PROVE  Done'
  <2>1. CASE names' = names
    BY <1>1, <1>6, <2>1, StaysIntact
  <2>2. ~Unstage
    BY <1>6 DEF Unstage, Structure, PlanUnderWay
  <2>3. CASE Swap("candidate", "quarantine") /\ pc \in {"quarantine", "verify"}
    <3>1. pc = "quarantine" => names["candidate"] # NoFile
      BY DEF Structure, CandidateNamed
    <3>2. pc = "verify" => names["candidate"] = NoFile
      BY DEF Structure, PlanUnderWay
    <3> QED
      BY <1>1, <1>2, <1>3, <1>6, <2>3, <3>1, <3>2, NamesListed DEF Done, NamesTyped, Swap
  <2>4. CASE Unlink
    BY <1>1, <1>2, <1>3, <1>6, <2>4, NamesListed DEF Done, NamesTyped, Unlink
  <2>5. CASE Promote /\ Swap("stage", "backup")
    <3>1. names["candidate"] = NoFile /\ names["quarantine"] = NoFile
      BY <2>5 DEF Promote, Structure, PlanUnderWay
    <3> QED
      BY <1>1, <1>2, <1>3, <1>6, <2>5, <3>1, NamesListed DEF Done, NamesTyped, Swap
  <2>6. DropRecord => names' = names
    BY DEF DropRecord, Fail
  <2> QED
    BY <2>1, <2>2, <2>3, <2>4, <2>5, <2>6
       DEF Inspect, Quarantine, VerifyQuarantined, Promote, Fail
<1>7. IF op.plan = "finalize" THEN Done' ELSE Undone'
  BY <1>1, <1>5, <1>6 DEF ShapeFits
<1>8. ShapeFits'
  BY <1>4, <1>7 DEF ShapeFits, PlanSteps
<1> QED
  BY <1>2, <1>7, <1>8

LEMMA CrashFits ==
  ASSUME Structure, QuietHeld, quiet, record # NoRecord, Crash
  PROVE  QuietHeld'
<1>1. /\ record' = record /\ data' = data /\ pc' = "idle"
      /\ names' = [n \in Names |-> IF n = "quarantine" THEN NoFile ELSE names[n]]
  BY DEF Crash, Forgotten, Return
<1>2. /\ names'["live"] = names["live"] /\ names'["candidate"] = names["candidate"]
      /\ names'["stage"] = names["stage"] /\ names'["backup"] = names["backup"]
      /\ names'["quarantine"] = NoFile
  BY <1>1, NamesListed
<1>3. Old' = Old /\ Fresh' = Fresh /\ Copy' = Copy /\ (Intact => Intact')
  BY <1>1, StaysIntact
<1>4. (Undone => Undone') /\ (Done => Done')
  BY <1>1, <1>2, <1>3 DEF Undone, Done
<1>5. ShapeFits'
  BY <1>1 DEF ShapeFits, PlanSteps
<1> QED
  BY <1>3, <1>4, <1>5 DEF QuietHeld

LEMMA QuietKept == IInv /\ QuietHeld /\ [Next]_vars => QuietHeld'
<1> SUFFICES ASSUME IInv, QuietHeld, [Next]_vars, quiet', record' # NoRecord
             PROVE  QuietHeld'
  BY DEF QuietHeld
<1>1. Structure
  BY DEF IInv, Structure
<1>2. CASE PublishRecord
  BY <1>1, <1>2, RecordOfUndone
<1>3. CASE BeginRecovery \/ (\E new \in AppCred : BeginPublication(new))
           \/ Recover \/ OpenWitness \/ Recheck \/ ObserveHandle
           \/ Settle \/ Classify \/ Restore \/ ConfirmRestored
  <2>1. UNCHANGED <<fs, quiet>>
    BY <1>3 DEF BeginRecovery, BeginPublication, Recover, OpenWitness, Recheck, ObserveHandle,
                Settle, Classify, Restore, ConfirmRestored
  <2>2. quiet /\ record # NoRecord
    BY <2>1 DEF fs
  <2> QED
    BY <1>1, <1>3, <2>1, <2>2, DecisionFits
<1>4. CASE Exchange
  BY <1>1, <1>4, ExchangeFits DEF Exchange
<1>5. CASE Unstage \/ Inspect \/ Quarantine \/ VerifyQuarantined \/ Unlink \/ Promote
           \/ DropRecord
  <2>1. record' = record /\ quiet' = quiet
    BY <1>5 DEF Unstage, Inspect, Quarantine, VerifyQuarantined, Unlink, Promote, DropRecord, Fail
  <2> QED
    BY <1>1, <1>5, <2>1, PlanFits
<1>6. CASE Crash
  BY <1>1, <1>6, CrashFits DEF Crash
<1>7. ~(Check \/ Create \/ ConfirmCreation \/ Stage \/ TrimBackups)
  BY <1>1 DEF Structure, Prepared, Check, Create, ConfirmCreation, Stage, TrimBackups, fs
<1>8. ~ExchangeBack
  BY DEF ExchangeBack, QuietHeld, ShapeFits
<1>9. CASE Codex
  <2>1. CodexOpens
    BY <1>9 DEF Codex, CodexRewrites, CodexReplaces, CodexLogsOut, CodexMoves
  <2>2. UNCHANGED <<fs, pc, op, quiet>>
    BY <2>1 DEF CodexOpens
  <2> QED
    BY <2>2 DEF QuietHeld, ShapeFits, Intact, Undone, Done, Old, Fresh, Copy, Token, fs
<1>10. CASE UNCHANGED vars
  BY <1>10 DEF vars, QuietHeld, ShapeFits, Intact, Undone, Done, Old, Fresh, Copy, Token, fs
<1> QED
  BY <1>2, <1>3, <1>4, <1>5, <1>6, <1>7, <1>8, <1>9, <1>10 DEF Next, Application, Rest

(* A crash or a failed step alone never leaves a transaction that later     *)
(* auth transactions refuse (settle_auth_publication): whatever the record  *)
(* describes is undone or completed.                                        *)
THEOREM QuietCrashIsSettled == Spec => []QuietCrashIsRecoverable
<1>1. Init => QuietHeld
  BY DEF Init, QuietHeld
<1>2. IInv /\ QuietHeld => QuietCrashIsRecoverable
  <2> SUFFICES ASSUME IInv, QuietHeld, pc = "classify", quiet
               PROVE  Verdict \in {"finalize", "cleanup", "drop"}
    BY DEF QuietCrashIsRecoverable
  <2>1. TypeOK /\ record # NoRecord
    BY DEF IInv, NamesNeedRecord
  <2> QED
    BY <2>1, UndoneIsCleanedUp, DoneIsFinalized DEF QuietHeld, ShapeFits
<1> QED
  BY <1>1, <1>2, QuietKept, InductiveInvariant, PTL DEF Spec

============================================================================
