------------------------ MODULE TokenRotationProofs ------------------------
(* What TokenRotation promises, for every set of tasks, accounts and pools  *)
(* and every bound: that refusals are about retired tokens, that a token    *)
(* lost is a token reported, and that a warm-up sends its messages with the *)
(* right credential under the lease.  That every operation ends stays with  *)
(* the model checker.                                                       *)
EXTENDS TokenRotation, TLAPS

(* The places before the lease is taken, and after it is given back.        *)
Unleased == {"candidates", "lease", "fetch", "relock", "done"}

(* A usage read that has chosen its credential.                             *)
InRead(r) ==
  \/ r.pc \in {"attempt", "get", "follow", "recover"}
  \/ r.pc \in {"present", "save"} /\ r.purpose \in Reading

(* A warm-up that has chosen its credential, and holds the lease as well.   *)
ForMessage(r) == r.pc \in {"present", "save"} /\ r.purpose \in {"warming", "warmed"}
InWarm(r)     == ForMessage(r) \/ r.pc \in {"models", "fetch", "relock", "verify", "post", "ping"}
WarmHeld(r)   == ForMessage(r) \/ r.pc \in {"models", "post", "ping"}

(* What a task carries, whatever the world does.                            *)
Shape(r) ==
  /\ r \in Record
  /\ InRead(r) \/ InWarm(r) \/ r.pc \in {"present", "save"} => r.cred # NoCred
  /\ r.pc = "save" => r.fresh # NoCred /\ r.fresh.owner = r.cred.owner
  /\ r.pc # "done" => r.doubt = {} /\ r.outcome = "none"
  /\ r.doubt # {} => r.outcome \in {"doubt", "crashed"}
  /\ r.outcome = "known" => r.cred # NoCred
  /\ r.verdict # "none" => r.pc = "get"
  /\ r.pending # "none" => r.pc = "recover"
  /\ InRead(r) \/ r.pc \in {"candidates", "lease", "greet", "prepare"} => r.swallowed = {}
  /\ InWarm(r) => r.cred.owner = r.wants
  /\ r.pc \in {"post", "ping"} \/ (ForMessage(r) /\ r.purpose = "warmed")
       => r.boundary = "committed"

(* Its credential has been issued, and what it was told of it is true.      *)
Dated(r, n) == r.cred # NoCred => r.cred.token <= n

Judged(r, d) ==
  r.verdict = "lasting" \/ r.pending = "lasting" \/ r.outcome = "known" => r.cred.token \in d

Held(t, r, l) == r.pc \notin Unleased => l = t

(* How it fits the profile, while nobody else may touch that.               *)
Fits(r, p, f, d, n, rogue) ==
  /\ r.pc = "save" =>
       /\ r.fresh.token \notin d /\ r.fresh.token <= n
       /\ p # NoCred => p.token # r.fresh.token
  /\ InRead(r) /\ r.kind # "force" =>
       /\ r.cred.token # f
       /\ p # NoCred => p.token # f
  /\ WarmHeld(r) /\ ~rogue => p = r.cred

Good(t, r, l, p, f, d, n, rogue) ==
  Shape(r) /\ Dated(r, n) /\ Judged(r, d) /\ Held(t, r, l) /\ Fits(r, p, f, d, n, rogue)

TaskGood(t) == Good(t, tasks[t], lease, profile, refusal, dead, issued, used.rogue)

(* Nothing is dead, saved or refused that was not issued.                   *)
IssuedFirst ==
  /\ dead \subseteq 1..issued
  /\ profile # NoCred => profile.token <= issued
  /\ refusal # 0 => refusal \in dead

(* A dead token in the profile is explained.                                *)
LossExplained ==
  profile # NoCred /\ profile.token \in dead =>
    \/ profile.token \in used.abroad
    \/ \E t \in Task : \/ profile.token \in tasks[t].doubt \cup tasks[t].swallowed
                       \/ At(t, "save") /\ tasks[t].cred.token = profile.token

IInv == TypeOK /\ IssuedFirst /\ LossExplained /\ \A t \in Task : TaskGood(t)

----------------------------------------------------------------------------
(* Records                                                                  *)

(* The names of places, purposes, verdicts and outcomes.                    *)
LEMMA Names ==
  /\ {"candidates", "lease", "recheck", "prepare", "attempt", "get", "follow", "recover",
      "present", "save", "greet", "snapshot", "models", "fetch", "relock", "verify",
      "post", "ping", "bind", "done"} \subseteq Places
  /\ {"none", "passing", "lasting"} \subseteq Verdict
  /\ Reading \cup {"opportune", "warming", "warmed", "listing"} \subseteq Purpose
  /\ {"none", "ended", "known", "doubt", "crashed"} \subseteq Outcome
BY DEF Places, Verdict, Purpose, Outcome, Reading

(* The bounds.                                                              *)
LEMMA Bounds ==
  /\ MaxRetries \in Nat /\ MaxRetries >= 1 /\ MaxIssued \in Nat /\ MaxIssued >= 1
  /\ MaxMoves \in Nat /\ MaxAgings \in Nat
  /\ \A x \in Token : x \in Nat /\ x >= 1 /\ x <= MaxIssued
  /\ Nobody \notin Task /\ NoCred \notin Cred
BY TokenRotationConstants DEF Token

(* An operation before its first step.                                      *)
LEMMA StartFits ==
  ASSUME NEW k \in Kind, NEW x \in Account
  PROVE  /\ Start(k, x) \in Record
         /\ Start(k, x).pc = IF k = "opportune" THEN "candidates" ELSE "lease"
         /\ Start(k, x).wants = x /\ Start(k, x).kind = k
         /\ Start(k, x).cred = NoCred /\ Start(k, x).fresh = NoCred
         /\ Start(k, x).purpose = "proactive"
         /\ Start(k, x).verdict = "none" /\ Start(k, x).pending = "none"
         /\ Start(k, x).doubt = {} /\ Start(k, x).swallowed = {}
         /\ Start(k, x).outcome = "none"
<1> DEFINE s == Start(k, x)
<1>1. /\ s.pc \in Places /\ s.net \in {"first", "open", "cancelled"}
      /\ s.boundary \in {"waiting", "committed", "cancelled"}
  BY Names DEF Start
<1>2. 0 \in 0..MaxRetries
  BY Bounds
<1>3. "proactive" \in Purpose /\ "none" \in Verdict /\ "none" \in Outcome
  BY Names DEF Reading
<1>4. /\ (IF k = "opportune" THEN "candidates" ELSE "lease") \in Places
      /\ (IF k \in {"warm", "list"} THEN "first" ELSE "open") \in {"first", "open", "cancelled"}
      /\ (IF k = "warm" THEN "waiting" ELSE "committed")
           \in {"waiting", "committed", "cancelled"}
  BY Names
<1>5. s \in Record
  BY <1>2, <1>3, <1>4 DEF Start, Record
<1> QED
  BY <1>5 DEF Start

(* A finished one.                                                          *)
LEMMA EndedFits ==
  ASSUME NEW r \in Record, NEW o \in Outcome
  PROVE  /\ Ended(r, o) \in Record
         /\ Ended(r, o).pc = "done" /\ Ended(r, o).outcome = o
         /\ Ended(r, o).cred = IF o = "known" THEN r.cred ELSE NoCred
         /\ Ended(r, o).verdict = "none" /\ Ended(r, o).pending = "none"
         /\ Ended(r, o).doubt = r.doubt /\ Ended(r, o).swallowed = r.swallowed
<1> DEFINE s == Start(r.kind, r.wants)
           a == [s EXCEPT !.pc = "done", !.cred = IF o = "known" THEN r.cred ELSE NoCred,
                          !.net = "open", !.boundary = "committed"]
           b == [a EXCEPT !.doubt = r.doubt, !.swallowed = r.swallowed, !.outcome = o]
<1>1. /\ r.kind \in Kind /\ r.wants \in Account /\ r.cred \in Cred \cup {NoCred}
      /\ r.doubt \in SUBSET Token /\ r.swallowed \in SUBSET Token
  BY DEF Record
<1>2. s \in Record /\ s.verdict = "none" /\ s.pending = "none"
  BY <1>1, StartFits
<1>3. Ended(r, o) = b
  BY DEF Ended
<1> HIDE DEF s
<1>4. (IF o = "known" THEN r.cred ELSE NoCred) \in Cred \cup {NoCred} /\ "done" \in Places
  BY <1>1, Names
<1>5. a \in Record
  BY <1>2, <1>4 DEF Record
<1>6. /\ a.pc = "done" /\ a.cred = (IF o = "known" THEN r.cred ELSE NoCred)
      /\ a.verdict = "none" /\ a.pending = "none"
  BY <1>2 DEF Record
<1> HIDE DEF a
<1>7. b \in Record
  BY <1>1, <1>5 DEF Record
<1> QED
  BY <1>3, <1>5, <1>6, <1>7 DEF Record

----------------------------------------------------------------------------
(* What a step of one task does to the others                               *)

(* A task that does not hold the lease touches nothing they may hold.       *)
Turn(t) ==
  /\ tasks' = [tasks EXCEPT ![t] = tasks'[t]]
  /\ lease = t \/ UNCHANGED <<profile, refusal, dead, issued>>
  /\ lease' # lease => lease \in {t, Nobody}
  /\ dead \subseteq dead' /\ issued <= issued'
  /\ used'.rogue = used.rogue

(* What becomes of it.                                                      *)
Turned(t) ==
  /\ tasks' = [tasks EXCEPT ![t] = tasks'[t]] /\ TaskGood(t)'
  /\ lease' \in {lease, Nobody} /\ (lease' # lease => lease = t)

(* A task without the lease is good in any later world.                     *)
LEMMA Waiting ==
  ASSUME NEW t, NEW r, NEW l, NEW p, NEW f, NEW d, NEW n \in Nat, NEW rogue,
         NEW ll, NEW pp, NEW ff, NEW dd, NEW nn \in Nat, NEW rr,
         r.pc \in Unleased, Good(t, r, l, p, f, d, n, rogue), d \subseteq dd, n <= nn
  PROVE  Good(t, r, ll, pp, ff, dd, nn, rr)
<1>1. Dated(r, nn)
  <2>1. r.cred # NoCred => r.cred.token \in Nat /\ r.cred.token <= n
    BY Bounds DEF Good, Dated, Shape, Record, Cred
  <2> QED
    BY <2>1 DEF Dated
<1>2. Judged(r, dd)
  BY DEF Good, Judged
<1>3. Fits(r, pp, ff, dd, nn, rr)
  BY DEF Fits, InRead, WarmHeld, ForMessage, Unleased
<1> QED
  BY <1>1, <1>2, <1>3 DEF Good, Held

LEMMA OthersStay ==
  ASSUME IInv, NEW t \in Task, Turn(t), issued' \in Nat, NEW u \in Task, u # t
  PROVE  TaskGood(u)'
<1>1. tasks'[u] = tasks[u]
  BY DEF Turn, IInv, TypeOK
<1>2. Good(u, tasks[u], lease, profile, refusal, dead, issued, used.rogue) /\ issued \in Nat
  BY Bounds DEF IInv, TaskGood, TypeOK
<1>3. CASE lease = u
  BY <1>1, <1>2, <1>3, Bounds DEF Turn, TaskGood
<1>4. CASE lease # u
  <2>1. tasks[u].pc \in Unleased
    BY <1>2, <1>4 DEF Good, Held
  <2>2. dead \subseteq dead' /\ issued <= issued'
    BY DEF Turn
  <2> QED
    BY <1>1, <1>2, <2>1, <2>2, Waiting DEF TaskGood
<1> QED
  BY <1>3, <1>4

(* The types of everything but the tasks.                                   *)
WorldTyped ==
  /\ profile \in Cred \cup {NoCred}
  /\ refusal \in 0..MaxIssued
  /\ lease \in Task \cup {Nobody}
  /\ dead \subseteq Token
  /\ issued \in 1..MaxIssued
  /\ age \in [Token -> Age]
  /\ models \in [Task -> SUBSET SUBSET Extra]
  /\ used \in [moves : 0..MaxMoves, agings : 0..MaxAgings,
              abroad : SUBSET Token, rogue : BOOLEAN]

LEMMA WholeStep ==
  ASSUME IInv, NEW t \in Task, Turn(t), TaskGood(t)', WorldTyped', IssuedFirst', LossExplained'
  PROVE  IInv'
<1>1. issued' \in Nat
  BY Bounds DEF WorldTyped
<1>2. \A u \in Task : TaskGood(u)'
  BY <1>1, OthersStay
<1>3. \A u \in Task : tasks'[u] \in Record
  BY <1>2 DEF TaskGood, Good, Shape
<1>4. tasks' \in [Task -> Record]
  BY <1>3 DEF Turn, IInv, TypeOK
<1>5. TypeOK'
  BY <1>4 DEF TypeOK, WorldTyped
<1> QED
  BY <1>2, <1>5 DEF IInv

(* While profile and server stay, so does what explains a loss.             *)
LEMMA LossStays ==
  ASSUME IInv, NEW t \in Task, tasks' = [tasks EXCEPT ![t] = tasks'[t]],
         tasks[t].pc \notin {"done", "save"}, UNCHANGED <<profile, dead>>,
         used'.abroad = used.abroad, tasks[t].swallowed \subseteq tasks'[t].swallowed
  PROVE  LossExplained'
<1>1. tasks[t].doubt = {}
  BY DEF IInv, TaskGood, Good, Shape
<1>2. \A u \in Task : u # t => tasks'[u] = tasks[u]
  BY DEF IInv, TypeOK
<1> SUFFICES ASSUME profile # NoCred, profile.token \in dead, profile.token \notin used.abroad
             PROVE  \E u \in Task : \/ profile.token \in tasks'[u].doubt \cup tasks'[u].swallowed
                                    \/ /\ tasks'[u].pc = "save"
                                       /\ tasks'[u].cred.token = profile.token
  BY DEF LossExplained, At
<1>3. PICK u \in Task : \/ profile.token \in tasks[u].doubt \cup tasks[u].swallowed
                        \/ tasks[u].pc = "save" /\ tasks[u].cred.token = profile.token
  BY DEF IInv, LossExplained, At
<1>4. CASE u = t
  BY <1>1, <1>3, <1>4
<1>5. CASE u # t
  BY <1>2, <1>3, <1>5
<1> QED
  BY <1>4, <1>5

(* A step that only moves the task, and may record a refusal.               *)
LEMMA QuietStep ==
  ASSUME IInv, NEW t \in Task, tasks[t].pc \notin {"done", "save"},
         tasks' = [tasks EXCEPT ![t] = tasks'[t]], TaskGood(t)',
         tasks[t].swallowed \subseteq tasks'[t].swallowed,
         UNCHANGED <<profile, server, used>>,
         models' \in [Task -> SUBSET SUBSET Extra],
         lease = t \/ UNCHANGED refusal, refusal' = refusal \/ refusal' \in dead,
         lease' \in {lease, t, Nobody}, lease' # lease => lease \in {t, Nobody}
  PROVE  IInv'
<1>1. WorldTyped'
  <2>0. refusal \in 0..MaxIssued /\ dead \subseteq Token /\ Token \subseteq 0..MaxIssued
    BY Bounds DEF IInv, TypeOK, Token
  <2>1. refusal' \in 0..MaxIssued
    BY <2>0
  <2>2. lease' \in Task \cup {Nobody}
    BY DEF IInv, TypeOK
  <2>3. profile' = profile /\ dead' = dead /\ issued' = issued /\ age' = age /\ used' = used
    BY DEF server
  <2>4. WorldTyped
    BY DEF IInv, TypeOK, WorldTyped
  <2> QED
    BY <2>1, <2>2, <2>3, <2>4 DEF WorldTyped
<1>2. IssuedFirst'
  BY DEF IInv, IssuedFirst, server
<1>3. LossExplained'
  BY LossStays DEF server
<1>4. issued <= issued'
  BY Bounds DEF IInv, TypeOK, server
<1>5. Turn(t)
  BY <1>4 DEF Turn, server
<1> QED
  BY <1>1, <1>2, <1>3, <1>5, WholeStep

----------------------------------------------------------------------------
(* Steps that end an operation, or go on with it                            *)

(* A record that is good in the new world.                                  *)
LEMMA SetGood ==
  ASSUME IInv, NEW t \in Task, NEW r, Set(t, r), UNCHANGED lease,
         Good(t, r, lease', profile', refusal', dead', issued', used'.rogue)
  PROVE  Turned(t) /\ tasks'[t] = r
<1>1. tasks'[t] = r
  BY DEF Set, IInv, TypeOK
<1> QED
  BY <1>1 DEF Turned, TaskGood, Set

(* An operation that ends needs nothing any more, except for what it says   *)
(* to be true.                                                              *)
LEMMA FinishGood ==
  ASSUME IInv, NEW t \in Task, NEW r \in Record, NEW o \in Outcome, Finish(t, r, o),
         r.doubt # {} => o \in {"doubt", "crashed"},
         o = "known" => r.cred # NoCred /\ r.cred.token \in dead' /\ r.cred.token <= issued'
  PROVE  /\ Turned(t)
         /\ tasks'[t].doubt = r.doubt /\ tasks'[t].swallowed = r.swallowed
<1> DEFINE s == Ended(r, o)
<1>1. /\ s \in Record /\ s.pc = "done" /\ s.outcome = o
      /\ s.cred = IF o = "known" THEN r.cred ELSE NoCred
      /\ s.verdict = "none" /\ s.pending = "none"
      /\ s.doubt = r.doubt /\ s.swallowed = r.swallowed
  BY EndedFits
<1>2. tasks' = [tasks EXCEPT ![t] = s] /\ tasks'[t] = s
  BY DEF Finish, Set, IInv, TypeOK
<1> HIDE DEF s
<1>3. Shape(s)
  BY <1>1 DEF Shape, InRead, InWarm, ForMessage
<1>4. Dated(s, issued') /\ Judged(s, dead') /\ Held(t, s, lease')
  BY <1>1 DEF Dated, Judged, Held, Unleased
<1>5. Fits(s, profile', refusal', dead', issued', used'.rogue)
  BY <1>1 DEF Fits, InRead, WarmHeld, ForMessage
<1>6. TaskGood(t)'
  BY <1>2, <1>3, <1>4, <1>5 DEF TaskGood, Good
<1> QED
  BY <1>1, <1>2, <1>6 DEF Turned, Finish

(* A usage read that ends, or goes back to its warm-up.                     *)
LEMMA EndReadGood ==
  ASSUME IInv, NEW t \in Task, NEW r \in Record, NEW o \in Outcome, EndRead(t, r, o),
         lease = t, r.swallowed = {}, r.doubt # {} => o = "doubt",
         o = "known" => r.cred # NoCred /\ r.cred.token \in dead' /\ r.cred.token <= issued'
  PROVE  Turned(t) /\ r.doubt \subseteq tasks'[t].doubt \cup tasks'[t].swallowed
<1>1. CASE r.kind # "warm"
  BY <1>1, FinishGood DEF EndRead
<1>2. CASE r.kind = "warm"
  <2> DEFINE s == Start(r.kind, r.wants)
             a == [s EXCEPT !.pc = "snapshot", !.net = r.net, !.boundary = r.boundary]
             b == [a EXCEPT !.swallowed = r.doubt]
  <2>1. /\ r.kind \in Kind /\ r.wants \in Account /\ r.doubt \in SUBSET Token
        /\ r.net \in {"first", "open", "cancelled"}
        /\ r.boundary \in {"waiting", "committed", "cancelled"}
    BY DEF Record
  <2>2. /\ s \in Record /\ s.cred = NoCred /\ s.verdict = "none" /\ s.pending = "none"
        /\ s.doubt = {} /\ s.outcome = "none"
    BY <2>1, StartFits
  <2>3. tasks' = [tasks EXCEPT ![t] = b] /\ lease' = lease
    BY <1>2 DEF EndRead, Set
  <2> HIDE DEF s
  <2>4. /\ a \in Record /\ a.pc = "snapshot" /\ a.cred = NoCred /\ a.verdict = "none"
        /\ a.pending = "none" /\ a.doubt = {} /\ a.outcome = "none"
    BY <2>1, <2>2, Names DEF Record
  <2> HIDE DEF a
  <2>5. /\ b \in Record /\ b.pc = "snapshot" /\ b.cred = NoCred /\ b.verdict = "none"
        /\ b.pending = "none" /\ b.doubt = {} /\ b.outcome = "none" /\ b.swallowed = r.doubt
    BY <2>1, <2>4 DEF Record
  <2> HIDE DEF b
  <2>6. Shape(b)
    BY <2>5 DEF Shape, InRead, InWarm, ForMessage
  <2>7. Dated(b, issued') /\ Judged(b, dead') /\ Held(t, b, lease')
    BY <2>3, <2>5 DEF Dated, Judged, Held, Unleased
  <2>8. Fits(b, profile', refusal', dead', issued', used'.rogue)
    BY <2>5 DEF Fits, InRead, WarmHeld, ForMessage
  <2>9. Turned(t) /\ tasks'[t] = b
    BY <2>3, <2>6, <2>7, <2>8, SetGood DEF Good, Set
  <2> QED
    BY <2>5, <2>9
<1> QED
  BY <1>1, <1>2

(* A usage read between two of its requests.                                *)
Reads(t, r) ==
  /\ r \in Record /\ lease = t /\ r.cred # NoCred /\ r.cred.token <= issued
  /\ r.doubt = {} /\ r.swallowed = {} /\ r.outcome = "none"
  /\ r.kind # "force" => /\ r.cred.token # refusal
                         /\ profile # NoCred => profile.token # refusal

LEMMA AgainFits ==
  ASSUME NEW r \in Record
  PROVE  /\ Again(r) \in Record /\ Again(r).pc = "attempt" /\ Again(r).cred = r.cred
         /\ Again(r).verdict = "none" /\ Again(r).pending = "none"
         /\ Again(r).purpose = "proactive" /\ Again(r).kind = r.kind
         /\ Again(r).doubt = r.doubt /\ Again(r).swallowed = r.swallowed
         /\ Again(r).outcome = r.outcome /\ Again(r).left = r.left
<1>1. "attempt" \in Places /\ "none" \in Verdict /\ "proactive" \in Purpose
  BY Names DEF Reading
<1>2. Again(r) \in Record
  BY <1>1 DEF Again, Record
<1> QED
  BY <1>2 DEF Again, Record

(* It may go on wherever it does not present its token for something else.  *)
LEMMA ReadingGood ==
  ASSUME IInv, NEW t \in Task, NEW r, Reads(t, r), Set(t, r),
         UNCHANGED <<lease, profile, refusal, dead, issued, used>>,
         r.pc \in {"attempt", "get", "follow", "recover"}
           \/ (r.pc = "present" /\ r.purpose \in Reading),
         r.verdict # "none" => r.pc = "get", r.pending # "none" => r.pc = "recover",
         r.verdict = "lasting" \/ r.pending = "lasting" => r.cred.token \in dead
  PROVE  Turned(t) /\ tasks'[t] = r
<1>1. r.purpose \in Reading => r.purpose # "warming" /\ r.purpose # "warmed"
  BY DEF Reading
<1>2. Shape(r)
  BY <1>1 DEF Reads, Shape, InRead, InWarm, ForMessage
<1>3. Dated(r, issued') /\ Judged(r, dead') /\ Held(t, r, lease')
  BY DEF Reads, Dated, Judged, Held
<1>4. Fits(r, profile', refusal', dead', issued', used'.rogue)
  BY <1>1 DEF Fits, InRead, WarmHeld, ForMessage, Reads
<1> QED
  BY <1>2, <1>3, <1>4, SetGood DEF Good

LEMMA RetryGood ==
  ASSUME IInv, NEW t \in Task, NEW r, Reads(t, r), Retry(t, r), UNCHANGED <<disk, server, used>>
  PROVE  Turned(t)
<1>1. r \in Record
  BY DEF Reads
<1>2. CASE r.left > 1
  <2> DEFINE a == Again(r)
             b == [a EXCEPT !.left = @ - 1]
  <2>1. /\ a \in Record /\ a.pc = "attempt" /\ a.cred = r.cred /\ a.kind = r.kind
        /\ a.verdict = "none" /\ a.pending = "none" /\ a.left = r.left
        /\ a.doubt = {} /\ a.swallowed = {} /\ a.outcome = "none"
    BY <1>1, AgainFits DEF Reads
  <2> HIDE DEF a
  <2>2. a.left \in 0..MaxRetries /\ a.left - 1 \in 0..MaxRetries
    BY <1>2, <2>1, Bounds DEF Record
  <2>3. /\ b \in Record /\ b.pc = "attempt" /\ b.cred = r.cred /\ b.kind = r.kind
        /\ b.verdict = "none" /\ b.pending = "none"
        /\ b.doubt = {} /\ b.swallowed = {} /\ b.outcome = "none"
    BY <2>1, <2>2 DEF Record
  <2>4. Set(t, b) /\ UNCHANGED lease
    BY <1>2 DEF Retry, a
  <2> HIDE DEF b
  <2>5. Reads(t, b)
    BY <2>3 DEF Reads
  <2>6. UNCHANGED <<lease, profile, refusal, dead, issued, used>>
    BY <2>4 DEF disk, server
  <2> QED
    BY <2>3, <2>4, <2>5, <2>6, ReadingGood
<1>3. CASE ~(r.left > 1)
  BY <1>1, <1>3, EndReadGood, Names DEF Retry, Reads
<1> QED
  BY <1>2, <1>3

LEMMA RejectedGood ==
  ASSUME IInv, NEW t \in Task, NEW r, Reads(t, r), NEW v \in Verdict, Rejected(t, r, v),
         v = "lasting" => r.cred.token \in dead, UNCHANGED <<profile, server, used>>
  PROVE  Turned(t) /\ (refusal' = refusal \/ refusal' \in dead)
<1>1. r \in Record
  BY DEF Reads
<1>2. CASE r.recovered
  BY <1>1, <1>2, EndReadGood, Names DEF Rejected, Remember, Reads
<1>3. CASE ~r.recovered
  <2> DEFINE a == Again(r)
             b == [a EXCEPT !.pc = "recover", !.recovered = TRUE, !.pending = v]
  <2>1. /\ a \in Record /\ a.cred = r.cred /\ a.kind = r.kind /\ a.verdict = "none"
        /\ a.doubt = {} /\ a.swallowed = {} /\ a.outcome = "none"
    BY <1>1, AgainFits DEF Reads
  <2>2. Set(t, b) /\ UNCHANGED <<lease, refusal>>
    BY <1>3 DEF Rejected
  <2> HIDE DEF a
  <2>3. "recover" \in Places
    BY Names
  <2>4. /\ b \in Record /\ b.pc = "recover" /\ b.cred = r.cred /\ b.kind = r.kind
        /\ b.verdict = "none" /\ b.pending = v
        /\ b.doubt = {} /\ b.swallowed = {} /\ b.outcome = "none"
    BY <2>1, <2>3 DEF Record
  <2> HIDE DEF b
  <2>5. Reads(t, b)
    BY <2>4 DEF Reads
  <2>6. UNCHANGED <<lease, profile, refusal, dead, issued, used>>
    BY <2>2 DEF server
  <2> QED
    BY <2>2, <2>4, <2>5, <2>6, ReadingGood
<1> QED
  BY <1>2, <1>3

(* What a read has to be told about itself.                                 *)
LEMMA InReadReads ==
  ASSUME IInv, NEW t \in Task, InRead(tasks[t])
  PROVE  /\ Reads(t, tasks[t]) /\ Reads(t, Opened(tasks[t]))
         /\ Opened(tasks[t]) = [tasks[t] EXCEPT !.net = "open"]
         /\ LET r == Opened(tasks[t])
                s == tasks[t]
            IN /\ r.cred = s.cred /\ r.verdict = s.verdict /\ r.pending = s.pending
               /\ r.recovered = s.recovered /\ r.purpose = s.purpose /\ r.pc = s.pc
               /\ r.kind = s.kind
<1> DEFINE s == tasks[t]
           r == [s EXCEPT !.net = "open"]
<1>1. /\ Shape(s) /\ Dated(s, issued) /\ Held(t, s, lease)
      /\ Fits(s, profile, refusal, dead, issued, used.rogue)
  BY DEF IInv, TaskGood, Good
<1> HIDE DEF s
<1>2. InRead(s)
  BY DEF s
<1>3. s.pc \notin Unleased /\ s.pc # "done"
  BY <1>2 DEF InRead, Unleased
<1>4. Reads(t, s)
  BY <1>1, <1>2, <1>3 DEF Shape, Dated, Held, Fits, Reads
<1>5. /\ r \in Record /\ r.cred = s.cred /\ r.verdict = s.verdict /\ r.pending = s.pending
      /\ r.recovered = s.recovered /\ r.purpose = s.purpose /\ r.pc = s.pc
      /\ r.kind = s.kind /\ r.doubt = s.doubt /\ r.swallowed = s.swallowed
      /\ r.outcome = s.outcome
  BY <1>4 DEF Reads, Record
<1>6. Reads(t, r)
  BY <1>4, <1>5 DEF Reads
<1> QED
  BY <1>4, <1>5, <1>6 DEF s, Opened

(* A step of a task that has begun.                                         *)
LEMMA QuietTurn ==
  ASSUME IInv, NEW t \in Task, tasks[t].pc \notin {"done", "save"}, Turned(t),
         tasks[t].swallowed \subseteq tasks'[t].swallowed,
         UNCHANGED <<profile, server, used>>,
         models' \in [Task -> SUBSET SUBSET Extra],
         lease = t \/ UNCHANGED refusal, refusal' = refusal \/ refusal' \in dead
  PROVE  IInv'
BY QuietStep DEF Turned

(* What every task that is not over knows of itself.                        *)
LEMMA Alive ==
  ASSUME IInv, NEW t \in Task
  PROVE  /\ tasks[t] \in Record
         /\ tasks[t].pc # "done" => tasks[t].doubt = {} /\ tasks[t].outcome = "none"
         /\ tasks[t].pc \notin Unleased => lease = t
         /\ tasks[t].pc \in {"candidates", "lease", "greet", "prepare"} => tasks[t].swallowed = {}
         /\ InRead(tasks[t]) => tasks[t].swallowed = {}
         /\ tasks[t].cred # NoCred => tasks[t].cred \in Cred /\ tasks[t].cred.token <= issued
         /\ models \in [Task -> SUBSET SUBSET Extra]
         /\ lease \in Task \cup {Nobody} /\ issued \in Nat /\ issued <= MaxIssued
BY Bounds DEF IInv, TypeOK, TaskGood, Good, Shape, Held, Dated, Record

(* The profile's credential.                                                *)
LEMMA ProfileIssued ==
  ASSUME IInv, profile # NoCred
  PROVE  profile \in Cred /\ profile.token \in Token /\ profile.owner \in Account
         /\ profile.token <= issued /\ profile.token # 0
         /\ (refusal = profile.token => profile.token \in dead)
BY Bounds DEF IInv, TypeOK, IssuedFirst, Cred

----------------------------------------------------------------------------
(* The usage read                                                           *)

LEMMA PrepareStep ==
  ASSUME IInv, NEW t \in Task, Prepare(t)
  PROVE  IInv'
<1> DEFINE r == [tasks[t] EXCEPT !.cred = profile]
<1>1. /\ tasks[t].pc = "prepare" /\ UNCHANGED <<profile, refusal, dead, issued, used>>
      /\ UNCHANGED <<profile, server, used>> /\ UNCHANGED models
  BY DEF Prepare, At, disk, server
<1>2. /\ tasks[t] \in Record /\ lease = t /\ tasks[t].swallowed = {}
      /\ tasks[t].doubt = {} /\ tasks[t].outcome = "none"
      /\ models \in [Task -> SUBSET SUBSET Extra]
  BY <1>1, Alive DEF Unleased
<1>3. CASE EndRead(t, tasks[t], "ended")
  BY <1>1, <1>2, <1>3, EndReadGood, Names, QuietTurn
<1>4. CASE /\ profile # NoCred
           /\ IF Known(r) THEN EndRead(t, r, "known")
              ELSE Set(t, Prepared(r)) /\ UNCHANGED lease
  <2>1. /\ r \in Record /\ r.cred = profile /\ r.kind = tasks[t].kind
        /\ r.doubt = {} /\ r.swallowed = {} /\ r.outcome = "none"
    BY <1>2, <1>4, ProfileIssued DEF Record
  <2> HIDE DEF r
  <2>2. CASE Known(r)
    <3>1. profile.token \in dead' /\ profile.token <= issued'
      BY <1>1, <1>4, <2>1, <2>2, ProfileIssued DEF Known
    <3>2. Turned(t)
      BY <1>2, <1>4, <2>1, <2>2, <3>1, EndReadGood, Names
    <3> QED
      BY <1>1, <1>2, <3>2, QuietTurn
  <2>3. CASE ~Known(r)
    <3> DEFINE a == Again(r)
               b == [a EXCEPT !.left = MaxRetries, !.recovered = FALSE]
    <3>1. /\ a \in Record /\ a.pc = "attempt" /\ a.cred = profile /\ a.kind = r.kind
          /\ a.verdict = "none" /\ a.pending = "none"
          /\ a.doubt = {} /\ a.swallowed = {} /\ a.outcome = "none"
      BY <2>1, AgainFits
    <3>2. Set(t, b) /\ UNCHANGED lease
      BY <1>4, <2>3 DEF Prepared
    <3> HIDE DEF a
    <3>3. MaxRetries \in 0..MaxRetries
      BY Bounds
    <3>4. /\ b \in Record /\ b.pc = "attempt" /\ b.cred = profile /\ b.kind = r.kind
          /\ b.verdict = "none" /\ b.pending = "none"
          /\ b.doubt = {} /\ b.swallowed = {} /\ b.outcome = "none"
      BY <3>1, <3>3 DEF Record
    <3> HIDE DEF b
    <3>5. Reads(t, b)
      BY <1>2, <1>4, <2>1, <2>3, <3>4, ProfileIssued DEF Reads, Known
    <3>6. UNCHANGED <<lease, profile, refusal, dead, issued, used>>
      BY <1>1, <3>2
    <3>7. Turned(t)
      BY <3>2, <3>4, <3>5, <3>6, ReadingGood
    <3> QED
      BY <1>1, <1>2, <3>7, QuietTurn
  <2> QED
    BY <2>2, <2>3
<1> QED
  BY <1>3, <1>4 DEF Prepare, Holds

LEMMA AttemptStep ==
  ASSUME IInv, NEW t \in Task, Attempt(t)
  PROVE  IInv'
<1> DEFINE s == tasks[t]
           a == [s EXCEPT !.pc = "present", !.purpose = "proactive"]
           b == [s EXCEPT !.pc = "get"]
<1>1. /\ s.pc = "attempt" /\ UNCHANGED <<lease, profile, refusal, dead, issued, used>>
      /\ UNCHANGED <<profile, server, used>> /\ UNCHANGED models
  BY DEF Attempt, At, disk, server
<1>2. s.verdict = "none" /\ s.pending = "none" /\ Shape(s) /\ Reads(t, s)
  BY <1>1, InReadReads DEF IInv, TaskGood, Good, Shape, InRead
<1>3. Set(t, a) \/ Set(t, b)
  BY DEF Attempt, Asks
<1> HIDE DEF s
<1>4. "present" \in Places /\ "get" \in Places /\ "proactive" \in Purpose /\ "proactive" \in Reading
  BY Names DEF Reading
<1>5. /\ a \in Record /\ a.pc = "present" /\ a.purpose = "proactive" /\ a.cred = s.cred
      /\ a.verdict = "none" /\ a.pending = "none" /\ a.kind = s.kind
      /\ a.doubt = s.doubt /\ a.swallowed = s.swallowed /\ a.outcome = s.outcome
  BY <1>2, <1>4 DEF Reads, Record
<1>6. /\ b \in Record /\ b.pc = "get" /\ b.cred = s.cred
      /\ b.verdict = "none" /\ b.pending = "none" /\ b.kind = s.kind
      /\ b.doubt = s.doubt /\ b.swallowed = s.swallowed /\ b.outcome = s.outcome
  BY <1>2, <1>4 DEF Reads, Record
<1> HIDE DEF a, b
<1>7. Reads(t, a) /\ Reads(t, b)
  BY <1>2, <1>5, <1>6 DEF Reads
<1>8. Turned(t)
  BY <1>1, <1>3, <1>4, <1>5, <1>6, <1>7, ReadingGood
<1>9. s.swallowed = {} /\ models \in [Task -> SUBSET SUBSET Extra]
  BY <1>2, Alive DEF Reads
<1> QED
  BY <1>1, <1>8, <1>9, QuietTurn DEF s

LEMMA RecoverStep ==
  ASSUME IInv, NEW t \in Task, Recover(t)
  PROVE  IInv'
<1> DEFINE s == tasks[t]
           a == Again(s)
           b == [a EXCEPT !.cred = profile]
<1>1. /\ s.pc = "recover" /\ UNCHANGED <<profile, dead, issued, used>>
      /\ UNCHANGED <<profile, server, used>> /\ UNCHANGED models
  BY DEF Recover, At, server
<1>2. /\ Reads(t, s) /\ s \in Record /\ s.swallowed = {}
      /\ s.pending = "lasting" => s.cred.token \in dead
  BY <1>1, InReadReads DEF IInv, TaskGood, Good, Judged, InRead, Reads
<1>3. models \in [Task -> SUBSET SUBSET Extra] /\ lease = t
  BY <1>2, Alive DEF Reads
<1>4. CASE Remember(s.pending, s.cred.token) /\ EndRead(t, s, "ended")
  <2>1. Turned(t)
    BY <1>2, <1>3, <1>4, EndReadGood, Names DEF Reads
  <2>2. refusal' = refusal \/ refusal' \in dead
    BY <1>2, <1>4 DEF Remember
  <2> QED
    BY <1>1, <1>2, <1>3, <2>1, <2>2, QuietTurn
<1>5. CASE profile # NoCred /\ Set(t, b) /\ UNCHANGED <<refusal, lease>>
  <2>1. /\ a \in Record /\ a.pc = "attempt" /\ a.kind = s.kind
        /\ a.verdict = "none" /\ a.pending = "none"
        /\ a.doubt = {} /\ a.swallowed = {} /\ a.outcome = "none"
    BY <1>2, AgainFits DEF Reads
  <2>2. Set(t, b)
    BY <1>5
  <2> HIDE DEF a
  <2>3. profile \in Cred \cup {NoCred} /\ profile.token <= issued
    BY <1>5, ProfileIssued
  <2>4. /\ b \in Record /\ b.pc = "attempt" /\ b.kind = s.kind /\ b.cred = profile
        /\ b.verdict = "none" /\ b.pending = "none"
        /\ b.doubt = {} /\ b.swallowed = {} /\ b.outcome = "none"
    BY <2>1, <2>3 DEF Record
  <2> HIDE DEF b, s
  <2>5. Reads(t, b)
    BY <1>2, <1>5, <2>3, <2>4 DEF Reads
  <2>6. UNCHANGED <<lease, profile, refusal, dead, issued, used>>
    BY <1>1, <1>5
  <2>7. Turned(t)
    BY <2>2, <2>4, <2>5, <2>6, ReadingGood
  <2> QED
    BY <1>1, <1>2, <1>3, <1>5, <2>7, QuietTurn DEF s
<1> QED
  BY <1>4, <1>5 DEF Recover

LEMMA GetStep ==
  ASSUME IInv, NEW t \in Task, Get(t)
  PROVE  IInv'
<1> DEFINE s == tasks[t]
           r == Opened(s)
           a == [r EXCEPT !.pc = "present", !.purpose = "reactive"]
<1>1. /\ s.pc = "get" /\ UNCHANGED <<profile, dead, issued, used>>
      /\ UNCHANGED <<profile, server, used>> /\ UNCHANGED models
  BY DEF Get, At, server
<1>2. /\ Reads(t, s) /\ Reads(t, r) /\ r.verdict = s.verdict /\ r.cred = s.cred
      /\ s.verdict = "lasting" => s.cred.token \in dead
      /\ s.verdict \in Verdict /\ s.pending = "none" /\ r.pending = "none"
  <2>1. InRead(s) /\ Shape(s) /\ Judged(s, dead)
    BY <1>1 DEF IInv, TaskGood, Good, InRead
  <2>2. /\ Reads(t, s) /\ Reads(t, r) /\ r.verdict = s.verdict /\ r.cred = s.cred
        /\ r.pending = s.pending
    BY <2>1, InReadReads
  <2>3. s.verdict \in Verdict /\ s.pending = "none"
    BY <1>1, <2>1 DEF Shape, Record
  <2> QED
    BY <2>1, <2>2, <2>3 DEF Judged
<1>3. models \in [Task -> SUBSET SUBSET Extra] /\ lease = t /\ s.swallowed = {}
  BY <1>2, Alive DEF Reads
<1>4. \/ EndRead(t, r, "ended") /\ UNCHANGED refusal
      \/ Retry(t, r) /\ UNCHANGED refusal
      \/ Rejected(t, r, r.verdict)
      \/ r.verdict = "none" /\ Set(t, a) /\ UNCHANGED <<lease, refusal>>
  BY DEF Get, Asks
<1> HIDE DEF r
<1>5. Turned(t) /\ (refusal' = refusal \/ refusal' \in dead)
  <2>1. CASE EndRead(t, r, "ended") /\ UNCHANGED refusal
    BY <1>2, <2>1, EndReadGood, Names DEF Reads
  <2>2. CASE Retry(t, r) /\ UNCHANGED refusal
    <3>1. UNCHANGED <<disk, server, used>>
      BY <1>1, <2>2 DEF disk
    <3> QED
      BY <1>2, <2>2, <3>1, RetryGood
  <2>3. CASE Rejected(t, r, r.verdict)
    BY <1>1, <1>2, <2>3, RejectedGood
  <2>4. CASE r.verdict = "none" /\ Set(t, a) /\ UNCHANGED <<lease, refusal>>
    <3>1. "present" \in Places /\ "reactive" \in Purpose /\ "reactive" \in Reading
      BY Names DEF Reading
    <3>2. r \in Record
      BY <1>2 DEF Reads
    <3>3. /\ a \in Record /\ a.pc = "present" /\ a.purpose = "reactive" /\ a.cred = r.cred
          /\ a.verdict = "none" /\ a.pending = "none" /\ a.kind = r.kind
          /\ a.doubt = r.doubt /\ a.swallowed = r.swallowed /\ a.outcome = r.outcome
      BY <1>2, <2>4, <3>1, <3>2 DEF Record
    <3>4. Set(t, a)
      BY <2>4
    <3> HIDE DEF a
    <3>5. Reads(t, a)
      BY <1>2, <3>3 DEF Reads
    <3>6. UNCHANGED <<lease, profile, refusal, dead, issued, used>>
      BY <1>1, <2>4
    <3> QED
      BY <2>4, <3>1, <3>3, <3>4, <3>5, <3>6, ReadingGood
  <2> QED
    BY <1>4, <2>1, <2>2, <2>3, <2>4
<1> QED
  BY <1>1, <1>3, <1>5, QuietTurn

LEMMA FollowStep ==
  ASSUME IInv, NEW t \in Task, Follow(t)
  PROVE  IInv'
<1> DEFINE s == tasks[t]
<1>1. /\ s.pc = "follow" /\ UNCHANGED refusal /\ UNCHANGED <<disk, server, used>>
      /\ UNCHANGED <<profile, server, used>> /\ UNCHANGED models
  BY DEF Follow, At, disk
<1>2. Reads(t, s)
  BY <1>1, InReadReads DEF InRead
<1>3. models \in [Task -> SUBSET SUBSET Extra] /\ lease = t /\ s.swallowed = {}
  BY <1>2, Alive DEF Reads
<1>4. Turned(t)
  BY <1>1, <1>2, EndReadGood, RetryGood, Names DEF Follow, Reads
<1> QED
  BY <1>1, <1>3, <1>4, QuietTurn

----------------------------------------------------------------------------
(* Presenting a token                                                       *)

(* A warm-up that has its credential.                                       *)
Warms(t, r) ==
  /\ r \in Record /\ r.cred # NoCred /\ r.cred.owner = r.wants
  /\ r.doubt = {} /\ r.outcome = "none" /\ r.verdict = "none" /\ r.pending = "none"

LEMMA WarmGood ==
  ASSUME IInv, NEW t \in Task, NEW r, Warms(t, r), Set(t, r),
         r.pc \in {"models", "fetch", "relock", "verify", "post", "ping"}
           \/ (r.pc = "present" /\ r.purpose \in {"warming", "warmed"}),
         r.pc \notin {"fetch", "relock"} => lease' = t,
         r.cred.token <= issued',
         r.pc \notin {"fetch", "relock", "verify"} /\ ~used'.rogue => profile' = r.cred,
         r.pc \in {"post", "ping"} \/ (r.pc = "present" /\ r.purpose = "warmed")
           => r.boundary = "committed"
  PROVE  TaskGood(t)' /\ tasks'[t] = r
<1>1. r.purpose \in {"warming", "warmed"} => r.purpose \notin Reading
  BY DEF Reading
<1>2. Shape(r)
  BY <1>1 DEF Warms, Shape, InRead, InWarm, ForMessage
<1>3. Dated(r, issued') /\ Judged(r, dead') /\ Held(t, r, lease')
  BY DEF Warms, Dated, Judged, Held, Unleased
<1>4. Fits(r, profile', refusal', dead', issued', used'.rogue)
  BY <1>1 DEF Fits, InRead, WarmHeld, ForMessage
<1>5. tasks'[t] = r
  BY DEF Set, IInv, TypeOK
<1> QED
  BY <1>2, <1>3, <1>4, <1>5 DEF TaskGood, Good

LEMMA WarmingGood ==
  ASSUME IInv, NEW t \in Task, NEW r, Warms(t, r), Set(t, r), UNCHANGED lease, lease = t,
         r.pc \in {"models", "verify", "post", "ping"}
           \/ (r.pc = "present" /\ r.purpose \in {"warming", "warmed"}),
         r.cred.token <= issued',
         r.pc # "verify" /\ ~used'.rogue => profile' = r.cred,
         r.pc \in {"post", "ping"} \/ (r.pc = "present" /\ r.purpose = "warmed")
           => r.boundary = "committed"
  PROVE  Turned(t) /\ tasks'[t] = r
<1>1. TaskGood(t)' /\ tasks'[t] = r
  BY WarmGood
<1> QED
  BY <1>1 DEF Turned, Set

(* Where a task presents its token, and with its first exchange admitted.   *)
LEMMA Presenting ==
  ASSUME IInv, NEW t \in Task, tasks[t].pc = "present",
         NEW r, r = tasks[t] \/ r = Opened(tasks[t])
  PROVE  /\ r \in Record /\ r.pc = "present" /\ lease = t /\ r.purpose = tasks[t].purpose
         /\ r.cred = tasks[t].cred /\ r.cred \in Cred /\ r.cred # NoCred
         /\ r.cred.token \in Token /\ r.cred.owner \in Account
         /\ r.cred.token <= issued
         /\ r.doubt = {} /\ r.outcome = "none" /\ r.verdict = "none" /\ r.pending = "none"
         /\ r.swallowed = tasks[t].swallowed
         /\ r.kind = tasks[t].kind /\ r.wants = tasks[t].wants
         /\ r.purpose \in Reading => Reads(t, r)
         /\ r.purpose \in {"warming", "warmed"} =>
              Warms(t, r) /\ (~used.rogue => profile = r.cred)
         /\ r.purpose = "warmed" => r.boundary = "committed"
<1> DEFINE s == tasks[t]
<1>1. /\ s \in Record /\ r \in Record /\ r.pc = "present" /\ r.purpose = s.purpose
      /\ r.cred = s.cred /\ r.boundary = s.boundary /\ r.verdict = s.verdict
      /\ r.pending = s.pending /\ r.doubt = s.doubt /\ r.outcome = s.outcome
      /\ r.swallowed = s.swallowed /\ r.kind = s.kind /\ r.wants = s.wants
  BY Alive DEF Opened, Record
<1>2. s.pc = "present" /\ Good(t, s, lease, profile, refusal, dead, issued, used.rogue)
  BY DEF IInv, TaskGood
<1>3. s.purpose \in Reading => Reads(t, r)
  <2>1. s.purpose \in Reading => Reads(t, s) /\ Reads(t, Opened(s))
    BY <1>2, InReadReads DEF InRead
  <2> QED
    BY <2>1
<1> HIDE DEF s
<1>4. /\ lease = t /\ s.cred # NoCred /\ s.cred.token <= issued
      /\ s.doubt = {} /\ s.outcome = "none" /\ s.verdict = "none" /\ s.pending = "none"
  BY <1>2 DEF Good, Shape, Dated, Held, Unleased
<1>5. s.purpose \in {"warming", "warmed"} =>
        s.cred.owner = s.wants /\ (~used.rogue => profile = s.cred)
  BY <1>2 DEF Good, Shape, Fits, InWarm, WarmHeld, ForMessage
<1>6. s.purpose = "warmed" => s.boundary = "committed"
  BY <1>2 DEF Good, Shape, ForMessage
<1>7. s.cred \in Cred /\ s.cred.token \in Token /\ s.cred.owner \in Account
  BY <1>1, <1>4 DEF Record, Cred
<1> QED
  BY <1>1, <1>3, <1>4, <1>5, <1>6, <1>7 DEF Warms, s

LEMMA UnauthorizedStep ==
  ASSUME IInv, NEW t \in Task, Unauthorized(t)
  PROVE  IInv'
<1> DEFINE s == tasks[t]
<1>1. /\ s.pc = "present" /\ UNCHANGED refusal
      /\ UNCHANGED <<profile, server, used>> /\ UNCHANGED models
  BY DEF Unauthorized, At, disk
<1>2. models \in [Task -> SUBSET SUBSET Extra]
  BY Alive
<1>3. s \in Record /\ lease = t /\ s.doubt = {} /\ (s.purpose \in Reading => s.swallowed = {})
  BY <1>1, Presenting DEF Reads
<1>4. CASE s.purpose \in Reading
  BY <1>1, <1>2, <1>3, <1>4, EndReadGood, Names, QuietTurn DEF Unauthorized
<1>5. CASE s.purpose \notin Reading
  <2>1. Finish(t, s, "ended")
    BY <1>5 DEF Unauthorized
  <2>2. Turned(t) /\ tasks'[t].swallowed = s.swallowed
    BY <1>3, <2>1, FinishGood, Names
  <2> QED
    BY <1>1, <1>2, <1>3, <2>2, QuietTurn
<1> QED
  BY <1>4, <1>5

(* A warm-up goes on to its models.                                         *)
LEMMA OnwardGood ==
  ASSUME IInv, NEW t \in Task, tasks[t].pc = "present", tasks[t].purpose = "warming",
         NEW r, r = tasks[t] \/ r = Opened(tasks[t]),
         Set(t, Onward(r, "models")), UNCHANGED <<lease, profile, issued, used>>
  PROVE  Turned(t) /\ tasks'[t].swallowed = tasks[t].swallowed
<1> DEFINE a == [r EXCEPT !.pc = "models", !.purpose = "proactive"]
<1>1. /\ Warms(t, r) /\ lease = t /\ (~used.rogue => profile = r.cred)
      /\ r.cred.token <= issued /\ r.swallowed = tasks[t].swallowed
  BY Presenting
<1>2. "models" \in Places /\ "proactive" \in Purpose
  BY Names DEF Reading
<1>3. /\ a \in Record /\ a.pc = "models" /\ a.cred = r.cred /\ a.wants = r.wants
      /\ a.doubt = r.doubt /\ a.outcome = r.outcome /\ a.verdict = r.verdict
      /\ a.pending = r.pending /\ a.swallowed = r.swallowed
  BY <1>1, <1>2 DEF Warms, Record
<1>4. Set(t, a)
  BY DEF Onward
<1> HIDE DEF a
<1>5. Warms(t, a)
  BY <1>1, <1>3 DEF Warms
<1> QED
  BY <1>1, <1>3, <1>4, <1>5, WarmingGood

(* A refusal, whatever the token was presented for.                         *)
LEMMA RefusedGood ==
  ASSUME IInv, NEW t \in Task, tasks[t].pc = "present",
         NEW r, r = Opened(tasks[t]), NEW v \in {"passing", "lasting"},
         v = "lasting" => tasks[t].cred.token \in dead,
         Refused(t, r, v), UNCHANGED <<profile, server, used>>
  PROVE  /\ Turned(t) /\ (refusal' = refusal \/ refusal' \in dead)
         /\ tasks[t].swallowed \subseteq tasks'[t].swallowed
<1>1. /\ r \in Record /\ r.doubt = {} /\ r.swallowed = tasks[t].swallowed
      /\ r.purpose = tasks[t].purpose /\ r.cred = tasks[t].cred /\ r.verdict = "none"
      /\ r.pending = "none" /\ lease = t
      /\ r.purpose \in Reading => Reads(t, r)
  BY Presenting
<1>2. v \in Verdict /\ "ended" \in Outcome /\ "get" \in Places
  BY Names
<1>3. CASE r.purpose = "proactive"
  <2> DEFINE a == [r EXCEPT !.pc = "get", !.verdict = v]
  <2>1. Set(t, a) /\ UNCHANGED <<refusal, lease>>
    BY <1>3 DEF Refused
  <2>2. /\ a \in Record /\ a.pc = "get" /\ a.verdict = v /\ a.cred = r.cred /\ a.kind = r.kind
        /\ a.pending = "none" /\ a.doubt = r.doubt /\ a.swallowed = r.swallowed
        /\ a.outcome = r.outcome
    BY <1>1, <1>2 DEF Record
  <2> HIDE DEF a
  <2>3. Reads(t, r) /\ Reads(t, a)
    BY <1>1, <1>3, <2>2 DEF Reads, Reading
  <2>4. UNCHANGED <<lease, profile, refusal, dead, issued, used>>
    BY <2>1 DEF server
  <2>5. Turned(t) /\ tasks'[t] = a
    BY <1>1, <2>1, <2>2, <2>3, <2>4, ReadingGood
  <2> QED
    BY <1>1, <2>1, <2>2, <2>5
<1>4. CASE r.purpose = "reactive"
  <2>1. Rejected(t, r, v) /\ Reads(t, r) /\ r.swallowed = {}
    BY <1>1, <1>4 DEF Refused, Reads, Reading
  <2> QED
    BY <1>1, <1>2, <2>1, RejectedGood
<1>5. CASE r.purpose = "opportune"
  <2>1. /\ Finish(t, r, "ended")
        /\ Remember(v, r.cred.token) \/ UNCHANGED refusal
    BY <1>5 DEF Refused
  <2>2. Turned(t) /\ tasks'[t].swallowed = r.swallowed
    BY <1>1, <1>2, <2>1, FinishGood
  <2>3. refusal' = refusal \/ refusal' \in dead
    BY <1>1, <2>1 DEF Remember
  <2> QED
    BY <1>1, <2>2, <2>3
<1>6. CASE r.purpose = "warming"
  <2>1. Set(t, Onward(r, "models")) /\ UNCHANGED <<lease, profile, issued, used>>
        /\ UNCHANGED refusal
    BY <1>6 DEF Refused, server
  <2> QED
    BY <1>1, <1>6, <2>1, OnwardGood
<1>7. CASE r.purpose \notin {"proactive", "reactive", "opportune", "warming"}
  <2>1. Finish(t, r, "ended") /\ UNCHANGED refusal
    BY <1>7 DEF Refused
  <2> QED
    BY <1>1, <1>2, <2>1, FinishGood
<1> QED
  BY <1>3, <1>4, <1>5, <1>6, <1>7

(* A token that is not rotated this time.                                   *)
LEMMA NotNowGood ==
  ASSUME IInv, NEW t \in Task, tasks[t].pc = "present",
         NEW r, r = Opened(tasks[t]), NEW again \in BOOLEAN,
         NotNow(t, r, again), UNCHANGED <<disk, server, used>>
  PROVE  Turned(t) /\ tasks[t].swallowed \subseteq tasks'[t].swallowed
<1>1. /\ r \in Record /\ r.doubt = {} /\ r.swallowed = tasks[t].swallowed
      /\ r.purpose = tasks[t].purpose /\ r.cred = tasks[t].cred /\ r.verdict = "none"
      /\ r.pending = "none" /\ lease = t
      /\ r.purpose \in Reading => Reads(t, r)
  BY Presenting
<1>2. "ended" \in Outcome /\ "get" \in Places
  BY Names
<1>3. CASE r.purpose = "proactive"
  <2> DEFINE a == [r EXCEPT !.pc = "get", !.busy = again]
  <2>1. Set(t, a) /\ UNCHANGED lease
    BY <1>3 DEF NotNow
  <2>2. /\ a \in Record /\ a.pc = "get" /\ a.verdict = "none" /\ a.cred = r.cred /\ a.kind = r.kind
        /\ a.pending = "none" /\ a.doubt = r.doubt /\ a.swallowed = r.swallowed
        /\ a.outcome = r.outcome
    BY <1>1, <1>2 DEF Record
  <2> HIDE DEF a
  <2>3. Reads(t, r) /\ Reads(t, a)
    BY <1>1, <1>3, <2>2 DEF Reads, Reading
  <2>4. UNCHANGED <<lease, profile, refusal, dead, issued, used>>
    BY <2>1 DEF server, disk
  <2>5. Turned(t) /\ tasks'[t] = a
    BY <1>1, <2>1, <2>2, <2>3, <2>4, ReadingGood
  <2> QED
    BY <1>1, <2>2, <2>5
<1>4. CASE r.purpose = "reactive"
  <2>1. Reads(t, r) /\ r.swallowed = {}
    BY <1>1, <1>4 DEF Reads, Reading
  <2>2. Retry(t, r) \/ EndRead(t, r, "ended")
    BY <1>4 DEF NotNow
  <2> QED
    BY <1>1, <1>2, <2>1, <2>2, RetryGood, EndReadGood
<1>5. CASE r.purpose = "warming"
  <2>1. Set(t, Onward(r, "models")) /\ UNCHANGED <<lease, profile, issued, used>>
    BY <1>5 DEF NotNow, server, disk
  <2> QED
    BY <1>1, <1>5, <2>1, OnwardGood
<1>6. CASE r.purpose \notin {"proactive", "reactive", "warming"}
  <2>1. Finish(t, r, "ended")
    BY <1>6 DEF NotNow
  <2> QED
    BY <1>1, <1>2, <2>1, FinishGood
<1> QED
  BY <1>3, <1>4, <1>5, <1>6

LEMMA DeclinedStep ==
  ASSUME IInv, NEW t \in Task, Declined(t)
  PROVE  IInv'
<1> DEFINE r == Opened(tasks[t])
<1>1. /\ tasks[t].pc = "present" /\ UNCHANGED models
      /\ UNCHANGED <<profile, server, used>>
  BY DEF Declined, At
<1>2. models \in [Task -> SUBSET SUBSET Extra] /\ lease = t
  BY <1>1, Alive DEF Unleased
<1>3. CASE \E v \in {"passing", "lasting"} :
             (v = "lasting" => tasks[t].cred.token \in dead) /\ Refused(t, r, v)
  BY <1>1, <1>2, <1>3, RefusedGood, QuietTurn
<1>4. CASE \E again \in BOOLEAN : NotNow(t, r, again) /\ UNCHANGED refusal
  <2>1. PICK again \in BOOLEAN : NotNow(t, r, again)
    BY <1>4
  <2>2. UNCHANGED <<disk, server, used>> /\ UNCHANGED refusal
    BY <1>1, <1>4 DEF disk
  <2>3. Turned(t) /\ tasks[t].swallowed \subseteq tasks'[t].swallowed
    BY <1>1, <2>1, <2>2, NotNowGood
  <2> QED
    BY <1>1, <1>2, <2>2, <2>3, QuietTurn
<1> QED
  BY <1>3, <1>4 DEF Declined

(* A token presented without a saved successor is not forgotten.            *)
LEMMA InDoubtGood ==
  ASSUME IInv, NEW t \in Task, NEW r \in Record, InDoubt(t, r), lease = t,
         r.doubt = {}, r.cred.token \in Token, r.purpose \in Reading => r.swallowed = {},
         tasks[t].swallowed = r.swallowed
  PROVE  /\ Turned(t) /\ tasks[t].swallowed \subseteq tasks'[t].swallowed
         /\ r.cred.token \in tasks'[t].doubt \cup tasks'[t].swallowed
<1> DEFINE d == [r EXCEPT !.doubt = @ \cup {r.cred.token}]
<1>1. /\ d \in Record /\ d.doubt = {r.cred.token} /\ d.swallowed = r.swallowed
  BY DEF Record
<1>2. IF r.purpose \in Reading THEN EndRead(t, d, "doubt") ELSE Finish(t, d, "doubt")
  BY DEF InDoubt
<1> HIDE DEF d
<1>3. "doubt" \in Outcome
  BY Names
<1>4. CASE r.purpose \in Reading
  BY <1>1, <1>2, <1>3, <1>4, EndReadGood
<1>5. CASE r.purpose \notin Reading
  <2>1. Turned(t) /\ tasks'[t].doubt = d.doubt /\ tasks'[t].swallowed = d.swallowed
    BY <1>1, <1>2, <1>3, <1>5, FinishGood
  <2> QED
    BY <1>1, <2>1
<1> QED
  BY <1>4, <1>5

(* The server retires the token, or has not seen it.                        *)
LEMMA ServerMoves ==
  ASSUME IInv, NEW c \in Cred, c.token <= issued, Rotates(c) \/ UNCHANGED server
  PROVE  /\ dead \subseteq dead' /\ dead' \subseteq dead \cup {c.token}
         /\ dead' \subseteq Token /\ dead' \subseteq 1..issued'
         /\ issued <= issued' /\ issued' \in 1..MaxIssued /\ age' = age
<1>1. c.token \in Token /\ c.token \in Nat /\ c.token >= 1
  BY Bounds DEF Cred
<1>2. /\ issued \in 1..MaxIssued /\ dead \subseteq 1..issued /\ dead \subseteq Token
  BY DEF IInv, TypeOK, IssuedFirst
<1>3. CASE Rotates(c)
  <2>1. /\ issued < MaxIssued /\ issued' = issued + 1 /\ dead' = dead \cup {c.token} /\ age' = age
    BY <1>3 DEF Rotates
  <2>2. issued \in Nat /\ issued + 1 \in 1..MaxIssued
    BY <1>2, <2>1, Bounds
  <2>3. 1..issued \subseteq 1..(issued + 1) /\ c.token \in 1..(issued + 1)
    BY <1>1, <2>2
  <2>4. dead' \subseteq Token /\ dead' \subseteq 1..issued'
    BY <1>1, <1>2, <2>1, <2>3
  <2> QED
    BY <2>1, <2>2, <2>4
<1>4. CASE UNCHANGED server
  BY <1>2, <1>4, Bounds DEF server
<1> QED
  BY <1>3, <1>4

(* One token more is dead, and the task that presented it explains it.      *)
LEMMA LossMoves ==
  ASSUME IInv, NEW t \in Task, tasks' = [tasks EXCEPT ![t] = tasks'[t]],
         tasks[t].pc # "done", UNCHANGED profile, NEW x, dead' \subseteq dead \cup {x},
         used'.abroad = used.abroad, tasks[t].swallowed \subseteq tasks'[t].swallowed,
         tasks[t].pc = "save" => tasks[t].cred.token = x,
         \/ x \in tasks'[t].doubt \cup tasks'[t].swallowed
         \/ tasks'[t].pc = "save" /\ tasks'[t].cred.token = x
  PROVE  LossExplained'
<1>1. tasks[t].doubt = {}
  BY DEF IInv, TaskGood, Good, Shape
<1>2. \A u \in Task : u # t => tasks'[u] = tasks[u]
  BY DEF IInv, TypeOK
<1> SUFFICES ASSUME profile # NoCred, profile.token \in dead', profile.token \notin used.abroad
             PROVE  \E u \in Task : \/ profile.token \in tasks'[u].doubt \cup tasks'[u].swallowed
                                    \/ /\ tasks'[u].pc = "save"
                                       /\ tasks'[u].cred.token = profile.token
  BY DEF LossExplained, At
<1>3. CASE profile.token = x
  BY <1>3
<1>4. CASE profile.token # x
  <2>1. profile.token \in dead
    BY <1>4
  <2>2. PICK u \in Task : \/ profile.token \in tasks[u].doubt \cup tasks[u].swallowed
                          \/ tasks[u].pc = "save" /\ tasks[u].cred.token = profile.token
    BY <2>1 DEF IInv, LossExplained, At
  <2>3. CASE u = t
    BY <1>1, <1>4, <2>2, <2>3
  <2>4. CASE u # t
    BY <1>2, <2>2, <2>4
  <2> QED
    BY <2>3, <2>4
<1> QED
  BY <1>3, <1>4

(* A step of the lease's holder at the server.                              *)
LEMMA ServerTurn ==
  ASSUME IInv, NEW t \in Task, tasks[t].pc # "done", lease = t, Turned(t),
         UNCHANGED <<disk, models, used>>, NEW c \in Cred, c.token <= issued,
         Rotates(c) \/ UNCHANGED server,
         tasks[t].swallowed \subseteq tasks'[t].swallowed,
         tasks[t].pc = "save" => tasks[t].cred.token = c.token,
         \/ c.token \in tasks'[t].doubt \cup tasks'[t].swallowed
         \/ tasks'[t].pc = "save" /\ tasks'[t].cred.token = c.token
  PROVE  IInv'
<1>1. /\ dead \subseteq dead' /\ dead' \subseteq dead \cup {c.token}
      /\ dead' \subseteq Token /\ dead' \subseteq 1..issued'
      /\ issued <= issued' /\ issued' \in 1..MaxIssued /\ age' = age
  BY ServerMoves
<1>2. /\ profile' = profile /\ refusal' = refusal /\ models' = models /\ used' = used
      /\ lease' \in {lease, Nobody} /\ lease \in Task \cup {Nobody}
      /\ tasks' = [tasks EXCEPT ![t] = tasks'[t]]
  BY Alive DEF disk, Turned
<1>3. Turn(t)
  BY <1>1, <1>2 DEF Turn, Turned
<1>4. WorldTyped'
  <2>1. WorldTyped
    BY DEF IInv, TypeOK, WorldTyped
  <2>2. lease' \in Task \cup {Nobody}
    BY <1>2
  <2> QED
    BY <1>1, <1>2, <2>1, <2>2, Zenon DEF WorldTyped
<1>5. IssuedFirst'
  <2>1. profile # NoCred => profile.token \in Nat /\ profile.token <= issued
    BY ProfileIssued, Bounds
  <2>2. refusal # 0 => refusal \in dead
    BY DEF IInv, IssuedFirst
  <2>3. issued \in Nat /\ issued' \in Nat
    BY <1>1, Alive, Bounds
  <2>4. profile # NoCred => profile.token <= issued'
    BY <1>1, <2>1, <2>3
  <2>5. refusal # 0 => refusal \in dead'
    BY <1>1, <2>2
  <2> QED
    BY <1>1, <1>2, <2>4, <2>5 DEF IssuedFirst
<1>6. LossExplained'
  BY <1>1, <1>2, LossMoves
<1> QED
  BY <1>3, <1>4, <1>5, <1>6, WholeStep DEF Turned

LEMMA UnansweredStep ==
  ASSUME IInv, NEW t \in Task, Unanswered(t)
  PROVE  IInv'
<1> DEFINE r == Opened(tasks[t])
           c == tasks[t].cred
<1>1. /\ tasks[t].pc = "present" /\ UNCHANGED <<disk, models, used>> /\ InDoubt(t, r)
      /\ Rotates(c) \/ UNCHANGED server
  BY DEF Unanswered, At
<1>2. /\ r \in Record /\ lease = t /\ r.doubt = {} /\ r.cred = c /\ c \in Cred
      /\ c.token \in Token /\ c.token <= issued /\ r.swallowed = tasks[t].swallowed
      /\ r.purpose \in Reading => r.swallowed = {}
  BY <1>1, Presenting DEF Reads
<1> HIDE DEF r, c
<1>3. /\ Turned(t) /\ tasks[t].swallowed \subseteq tasks'[t].swallowed
      /\ c.token \in tasks'[t].doubt \cup tasks'[t].swallowed
  BY <1>1, <1>2, InDoubtGood
<1> QED
  BY <1>1, <1>2, <1>3, ServerTurn

LEMMA AnsweredStep ==
  ASSUME IInv, NEW t \in Task, Answered(t)
  PROVE  IInv'
<1> DEFINE r == Opened(tasks[t])
           c == tasks[t].cred
           f == Issued(c.owner)
           a == [r EXCEPT !.pc = "save", !.fresh = f]
<1>1. /\ tasks[t].pc = "present" /\ UNCHANGED <<disk, models, used>> /\ UNCHANGED lease
      /\ UNCHANGED <<profile, refusal, used>> /\ Rotates(c) /\ Set(t, a)
  BY DEF Answered, At, disk
<1>2. /\ r \in Record /\ r.pc = "present" /\ lease = t /\ r.doubt = {} /\ r.cred = c /\ c \in Cred
      /\ c # NoCred /\ c.token \in Token /\ c.owner \in Account /\ c.token <= issued
      /\ r.swallowed = tasks[t].swallowed /\ r.outcome = "none"
      /\ r.verdict = "none" /\ r.pending = "none"
      /\ r.purpose \in Reading => Reads(t, r)
      /\ r.purpose \in {"warming", "warmed"} =>
              Warms(t, r) /\ (~used.rogue => profile = r.cred)
      /\ r.purpose = "warmed" => r.boundary = "committed"
  BY <1>1, Presenting
<1>3. /\ dead' \subseteq dead \cup {c.token} /\ dead \subseteq 1..issued
      /\ issued' = issued + 1 /\ issued \in Nat /\ issued + 1 \in Token
      /\ c.token \in Nat
  <2>1. /\ issued < MaxIssued /\ issued' = issued + 1 /\ dead' = dead \cup {c.token}
    BY <1>1 DEF Rotates
  <2>2. issued \in 1..MaxIssued /\ dead \subseteq 1..issued
    BY DEF IInv, TypeOK, IssuedFirst
  <2> QED
    BY <1>2, <2>1, <2>2, Bounds DEF Token
<1>4. /\ f \in Cred /\ f # NoCred /\ f.owner = c.owner /\ f.token = issued + 1
  BY <1>2, <1>3, Bounds DEF Issued, Cred
<1> HIDE DEF r, c, f
<1>5. /\ a \in Record /\ a.pc = "save" /\ a.fresh = f /\ a.cred = c /\ a.doubt = {}
      /\ a.swallowed = r.swallowed /\ a.outcome = "none" /\ a.verdict = "none"
      /\ a.pending = "none" /\ a.purpose = r.purpose /\ a.kind = r.kind
      /\ a.wants = r.wants /\ a.boundary = r.boundary
  BY <1>2, <1>4, Names DEF Record
<1> HIDE DEF a
<1>6. a.purpose \in {"warming", "warmed"} => a.purpose \notin Reading
  BY DEF Reading
<1>7. Shape(a)
  BY <1>2, <1>4, <1>5, <1>6 DEF Shape, InRead, InWarm, ForMessage, Reads, Warms
<1>8. Dated(a, issued') /\ Judged(a, dead') /\ Held(t, a, lease')
  BY <1>1, <1>2, <1>3, <1>5 DEF Dated, Judged, Held
<1>9. Fits(a, profile', refusal', dead', issued', used'.rogue)
  <2>1. a.fresh.token \notin dead' /\ a.fresh.token <= issued'
    BY <1>2, <1>3, <1>4, <1>5
  <2>2. profile # NoCred => profile.token # a.fresh.token
    BY <1>3, <1>4, <1>5, ProfileIssued, Bounds
  <2>3. a.purpose \in Reading /\ a.kind # "force" =>
          a.cred.token # refusal /\ (profile # NoCred => profile.token # refusal)
    BY <1>2, <1>5 DEF Reads
  <2>4. a.purpose \in {"warming", "warmed"} /\ ~used.rogue => profile = a.cred
    BY <1>2, <1>5
  <2> QED
    BY <1>1, <1>5, <2>1, <2>2, <2>3, <2>4 DEF Fits, InRead, WarmHeld, ForMessage
<1>10. Turned(t) /\ tasks'[t] = a
  BY <1>1, <1>7, <1>8, <1>9, SetGood DEF Good
<1> QED
  BY <1>1, <1>2, <1>5, <1>10, ServerTurn

(* A task without its answer.                                               *)
Emptied(t) == [tasks[t] EXCEPT !.fresh = NoCred]

(* An answer on its way to the profile.                                     *)
LEMMA Saving ==
  ASSUME IInv, NEW t \in Task, tasks[t].pc = "save",
         NEW r, r = Emptied(t), NEW c, c = tasks[t].fresh
  PROVE  /\ r \in Record /\ r.pc = "save" /\ lease = t /\ r.purpose = tasks[t].purpose
         /\ r.cred = tasks[t].cred /\ r.cred \in Cred /\ r.cred # NoCred
         /\ r.cred.token \in Token /\ r.cred.token <= issued
         /\ r.doubt = {} /\ r.outcome = "none" /\ r.verdict = "none" /\ r.pending = "none"
         /\ r.swallowed = tasks[t].swallowed
         /\ r.purpose \in Reading => r.swallowed = {}
         /\ c \in Cred /\ c # NoCred /\ c.token \in Token /\ c.token <= issued
         /\ c.token \notin dead /\ c.owner = r.cred.owner
         /\ c.token # refusal
         /\ r.purpose \in {"warming", "warmed"} => c.owner = r.wants
         /\ r.purpose = "warmed" => r.boundary = "committed"
<1> DEFINE s == tasks[t]
<1>1. /\ s \in Record /\ r \in Record /\ r.pc = "save" /\ r.purpose = s.purpose
      /\ r.cred = s.cred /\ r.boundary = s.boundary /\ r.verdict = s.verdict
      /\ r.pending = s.pending /\ r.doubt = s.doubt /\ r.outcome = s.outcome
      /\ r.swallowed = s.swallowed /\ r.kind = s.kind /\ r.wants = s.wants
  <2>1. s \in Record
    BY Alive
  <2> QED
    BY <2>1 DEF Emptied, Record
<1>2. s.pc = "save" /\ Good(t, s, lease, profile, refusal, dead, issued, used.rogue)
  BY DEF IInv, TaskGood
<1>3. c = s.fresh
  OBVIOUS
<1>4. refusal # 0 => refusal \in dead
  BY DEF IInv, IssuedFirst
<1> HIDE DEF s
<1>5. /\ lease = t /\ s.cred # NoCred /\ s.cred.token <= issued
      /\ s.doubt = {} /\ s.outcome = "none" /\ s.verdict = "none" /\ s.pending = "none"
      /\ s.fresh # NoCred /\ s.fresh.owner = s.cred.owner
  BY <1>2 DEF Good, Shape, Dated, Held, Unleased
<1>6. s.fresh.token \notin dead /\ s.fresh.token <= issued
  BY <1>2 DEF Good, Fits
<1>7. s.purpose \in Reading => s.swallowed = {}
  BY <1>2 DEF Good, Shape, InRead
<1>8. /\ s.purpose \in {"warming", "warmed"} => s.cred.owner = s.wants
      /\ s.purpose = "warmed" => s.boundary = "committed"
  BY <1>2 DEF Good, Shape, InWarm, ForMessage
<1>9. /\ s.cred \in Cred /\ s.cred.token \in Token
      /\ s.fresh \in Cred /\ s.fresh.token \in Token
  BY <1>1, <1>5 DEF Record, Cred
<1>10. c.token # 0
  BY <1>3, <1>9, Bounds
<1> QED
  BY <1>1, <1>3, <1>4, <1>5, <1>6, <1>7, <1>8, <1>9, <1>10 DEF s

(* The profile has the successor now, whatever becomes of the task.         *)
LEMMA ProfileMoves ==
  ASSUME IInv, NEW t \in Task, lease = t, Turned(t), NEW c \in Cred,
         profile' = c, c.token <= issued, c.token \notin dead,
         UNCHANGED <<refusal, server, models, used>>
  PROVE  IInv'
<1>1. /\ refusal' = refusal /\ dead' = dead /\ issued' = issued /\ age' = age
      /\ models' = models /\ used' = used
      /\ lease' \in {lease, Nobody} /\ lease \in Task \cup {Nobody} /\ issued \in Nat
      /\ tasks' = [tasks EXCEPT ![t] = tasks'[t]]
  BY Alive DEF server, Turned
<1>2. Turn(t)
  BY <1>1 DEF Turn, Turned
<1>3. WorldTyped'
  <2>1. WorldTyped
    BY DEF IInv, TypeOK, WorldTyped
  <2>2. lease' \in Task \cup {Nobody} /\ profile' \in Cred \cup {NoCred}
    BY <1>1
  <2> QED
    BY <1>1, <2>1, <2>2, Zenon DEF WorldTyped
<1>4. IssuedFirst'
  BY <1>1 DEF IInv, IssuedFirst
<1>5. LossExplained'
  BY <1>1 DEF LossExplained
<1> QED
  BY <1>2, <1>3, <1>4, <1>5, WholeStep DEF Turned

(* Going on with it.                                                        *)
LEMMA ContinueGood ==
  ASSUME IInv, NEW t \in Task, tasks[t].pc = "save",
         Continue(t, [Emptied(t) EXCEPT !.cred = tasks[t].fresh]),
         profile' = tasks[t].fresh, UNCHANGED <<refusal, dead, issued, used>>
  PROVE  Turned(t)
<1> DEFINE r == Emptied(t)
           c == tasks[t].fresh
           q == [r EXCEPT !.cred = c]
<1>1. /\ r \in Record /\ lease = t /\ r.doubt = {} /\ r.outcome = "none"
      /\ r.verdict = "none" /\ r.pending = "none"
      /\ r.purpose \in Reading => r.swallowed = {}
      /\ c \in Cred /\ c # NoCred /\ c.token <= issued
      /\ c.token # refusal
      /\ r.purpose \in {"warming", "warmed"} => c.owner = r.wants
      /\ r.purpose = "warmed" => r.boundary = "committed"
  BY Saving
<1>0. profile' = c
  OBVIOUS
<1> HIDE DEF c
<1>2. /\ q \in Record /\ q.cred = c /\ q.purpose = r.purpose /\ q.doubt = {}
      /\ q.outcome = "none" /\ q.verdict = "none" /\ q.pending = "none"
      /\ q.swallowed = r.swallowed /\ q.wants = r.wants /\ q.boundary = r.boundary
  BY <1>1 DEF Record
<1>3. Continue(t, q)
  BY DEF c
<1> HIDE DEF q, r
<1>4. {"follow", "models", "post"} \subseteq Places /\ "proactive" \in Purpose /\ "ended" \in Outcome
  BY Names DEF Reading
<1>5. CASE q.purpose \in Reading
  <2> DEFINE a == [q EXCEPT !.pc = "follow"]
  <2>1. Set(t, a) /\ UNCHANGED lease
    BY <1>3, <1>5 DEF Continue, Reading
  <2>2. /\ a \in Record /\ a.pc = "follow" /\ a.cred = c /\ a.doubt = {}
        /\ a.outcome = "none" /\ a.verdict = "none" /\ a.pending = "none"
        /\ a.swallowed = q.swallowed
    BY <1>2, <1>4 DEF Record
  <2> HIDE DEF a
  <2>3. Shape(a)
    BY <1>1, <1>2, <1>5, <2>2 DEF Shape, InRead, InWarm, ForMessage
  <2>4. Dated(a, issued') /\ Judged(a, dead') /\ Held(t, a, lease')
    BY <1>1, <2>1, <2>2 DEF Dated, Judged, Held
  <2>5. Fits(a, profile', refusal', dead', issued', used'.rogue)
    BY <1>0, <1>1, <2>2 DEF Fits, InRead, WarmHeld, ForMessage
  <2> QED
    BY <2>1, <2>3, <2>4, <2>5, SetGood DEF Good
<1>6. ASSUME NEW l \in {"models", "post"}, Set(t, Onward(q, l)), UNCHANGED lease,
             q.purpose \in {"warming", "warmed"}, l = "post" => q.purpose = "warmed"
      PROVE  Turned(t)
  <2> DEFINE a == [q EXCEPT !.pc = l, !.purpose = "proactive"]
  <2>1. Set(t, a)
    BY <1>6 DEF Onward
  <2>2. /\ a \in Record /\ a.pc = l /\ a.cred = c /\ a.doubt = {} /\ a.wants = q.wants
        /\ a.outcome = "none" /\ a.verdict = "none" /\ a.pending = "none"
        /\ a.boundary = q.boundary
    BY <1>2, <1>4 DEF Record
  <2> HIDE DEF a
  <2>3. Warms(t, a)
    BY <1>1, <1>2, <1>6, <2>2 DEF Warms
  <2> QED
    BY <1>0, <1>1, <1>2, <1>6, <2>1, <2>2, <2>3, WarmingGood
<1>7. CASE q.purpose = "warming"
  BY <1>3, <1>6, <1>7 DEF Continue, Reading
<1>8. CASE q.purpose = "warmed"
  BY <1>3, <1>6, <1>8 DEF Continue, Reading
<1>9. CASE q.purpose \notin Reading \cup {"warming", "warmed"}
  <2>1. Finish(t, q, "ended")
    BY <1>3, <1>9 DEF Continue
  <2> QED
    BY <1>2, <1>4, <2>1, FinishGood
<1> QED
  BY <1>5, <1>7, <1>8, <1>9

LEMMA SaveStep ==
  ASSUME IInv, NEW t \in Task, Save(t)
  PROVE  IInv'
<1> DEFINE r == Emptied(t)
           c == tasks[t].fresh
<1>1. /\ tasks[t].pc = "save" /\ UNCHANGED <<refusal, server, models, used>>
      /\ UNCHANGED <<refusal, dead, issued, used>> /\ UNCHANGED server
      /\ UNCHANGED <<refusal, models, used>>
  BY DEF Save, At, server
<1>2. /\ r \in Record /\ lease = t /\ r.doubt = {}
      /\ r.cred = tasks[t].cred /\ r.cred \in Cred
      /\ r.cred.token \in Token /\ r.cred.token <= issued
      /\ r.swallowed = tasks[t].swallowed
      /\ r.purpose \in Reading => r.swallowed = {}
      /\ c \in Cred /\ c.token <= issued /\ c.token \notin dead
  BY <1>1, Saving
<1>3. CASE profile' = c /\ Continue(t, [r EXCEPT !.cred = c])
  <2>1. Turned(t)
    BY <1>1, <1>3, ContinueGood
  <2> QED
    BY <1>1, <1>2, <1>3, <2>1, ProfileMoves
<1>4. CASE InDoubt(t, r) /\ profile' = c
  <2>1. Turned(t)
    BY <1>2, <1>4, InDoubtGood
  <2> QED
    BY <1>1, <1>2, <1>4, <2>1, ProfileMoves
<1>5. CASE InDoubt(t, r) /\ UNCHANGED profile
  <2>1. UNCHANGED <<disk, models, used>>
    BY <1>1, <1>5 DEF disk
  <2>2. /\ Turned(t) /\ tasks[t].swallowed \subseteq tasks'[t].swallowed
        /\ r.cred.token \in tasks'[t].doubt \cup tasks'[t].swallowed
    BY <1>2, <1>5, InDoubtGood
  <2> HIDE DEF r, c
  <2> QED
    BY <1>1, <1>2, <2>1, <2>2, ServerTurn
<1> QED
  BY <1>3, <1>4, <1>5 DEF Save, Emptied

----------------------------------------------------------------------------
(* The other refreshes                                                      *)

(* A task that neither reads nor warms up needs little.                     *)
LEMMA PlainGood ==
  ASSUME IInv, NEW t \in Task, NEW r \in Record, Set(t, r),
         r.pc \in {"lease", "recheck", "prepare", "greet", "bind"}
           \/ (r.pc = "present" /\ r.purpose \in {"opportune", "listing"} /\ r.cred # NoCred),
         r.pc # "lease" => lease' = t,
         r.doubt = {}, r.outcome = "none", r.verdict = "none", r.pending = "none",
         r.cred # NoCred => r.cred.token <= issued',
         r.pc \in {"lease", "greet", "prepare"} => r.swallowed = {}
  PROVE  TaskGood(t)' /\ tasks'[t] = r
<1>1. r.purpose \in {"opportune", "listing"} => r.purpose \notin Reading \cup {"warming", "warmed"}
  BY DEF Reading
<1>2. Shape(r)
  BY <1>1 DEF Shape, InRead, InWarm, ForMessage
<1>3. Dated(r, issued') /\ Judged(r, dead') /\ Held(t, r, lease')
  BY DEF Dated, Judged, Held, Unleased
<1>4. Fits(r, profile', refusal', dead', issued', used'.rogue)
  BY <1>1 DEF Fits, InRead, WarmHeld, ForMessage
<1>5. tasks'[t] = r
  BY DEF Set, IInv, TypeOK
<1> QED
  BY <1>2, <1>3, <1>4, <1>5 DEF TaskGood, Good

(* What a task knows between two exchanges.                                 *)
LEMMA Between ==
  ASSUME IInv, NEW t \in Task,
         tasks[t].pc \notin {"get", "recover", "done"}
  PROVE  /\ tasks[t] \in Record /\ tasks[t].doubt = {} /\ tasks[t].outcome = "none"
         /\ tasks[t].verdict = "none" /\ tasks[t].pending = "none"
         /\ tasks[t].wants \in Account
         /\ tasks[t].cred # NoCred => tasks[t].cred.token <= issued
BY DEF IInv, TaskGood, Good, Shape, Dated, Record

(* A task presents the profile's token for a refresh of its own.            *)
LEMMA AskedGood ==
  ASSUME IInv, NEW t \in Task, tasks[t].pc \in {"recheck", "bind"}, profile # NoCred,
         NEW why \in {"opportune", "listing"},
         Set(t, Asks([tasks[t] EXCEPT !.cred = profile], why)),
         UNCHANGED lease, UNCHANGED issued
  PROVE  Turned(t) /\ tasks'[t].swallowed = tasks[t].swallowed
<1> DEFINE s == tasks[t]
           a == [s EXCEPT !.cred = profile]
           b == [a EXCEPT !.pc = "present", !.purpose = why]
<1>1. /\ s \in Record /\ s.doubt = {} /\ s.outcome = "none" /\ s.verdict = "none"
      /\ s.pending = "none" /\ lease = t
  BY Between, Alive DEF Unleased
<1>2. Set(t, b)
  BY DEF Asks
<1> HIDE DEF s
<1>3. profile \in Cred /\ profile.token <= issued
  BY ProfileIssued
<1>4. "present" \in Places /\ why \in Purpose
  BY Names
<1>5. /\ a \in Record /\ a.cred = profile /\ a.doubt = {} /\ a.outcome = "none"
      /\ a.verdict = "none" /\ a.pending = "none" /\ a.swallowed = s.swallowed
  BY <1>1, <1>3 DEF Record
<1> HIDE DEF a
<1>6. /\ b \in Record /\ b.pc = "present" /\ b.purpose = why /\ b.cred = profile
      /\ b.doubt = {} /\ b.outcome = "none"
      /\ b.verdict = "none" /\ b.pending = "none" /\ b.swallowed = s.swallowed
  BY <1>4, <1>5 DEF Record
<1> HIDE DEF b
<1>7. TaskGood(t)' /\ tasks'[t] = b
  BY <1>1, <1>2, <1>3, <1>6, PlainGood
<1> QED
  BY <1>2, <1>6, <1>7 DEF Turned, Set, s

(* An operation simply ends.                                                *)
LEMMA EndsGood ==
  ASSUME IInv, NEW t \in Task, tasks[t].pc \notin {"done", "save"}, 
         NEW r, r = tasks[t] \/ r = Opened(tasks[t]), Finish(t, r, "ended"),
         UNCHANGED <<profile, server, used>>, UNCHANGED refusal,
         models' \in [Task -> SUBSET SUBSET Extra]
  PROVE  IInv'
<1>1. r \in Record /\ r.doubt = {} /\ r.swallowed = tasks[t].swallowed
  BY Alive DEF Opened, Record
<1>2. Turned(t) /\ tasks'[t].swallowed = r.swallowed
  BY <1>1, FinishGood, Names
<1> QED
  BY <1>1, <1>2, QuietTurn

LEMMA CandidatesStep ==
  ASSUME IInv, NEW t \in Task, Candidates(t)
  PROVE  IInv'
<1> DEFINE s == tasks[t]
           a == [s EXCEPT !.pc = "lease", !.cred = profile]
<1>1. /\ s.pc = "candidates" /\ UNCHANGED <<profile, server, used>> /\ UNCHANGED refusal
      /\ UNCHANGED models /\ issued' = issued
  BY DEF Candidates, At, disk, server
<1>2. models \in [Task -> SUBSET SUBSET Extra] /\ s.swallowed = {}
  BY <1>1, Alive
<1>3. CASE Finish(t, s, "ended")
  BY <1>1, <1>2, <1>3, EndsGood
<1>4. CASE profile # NoCred /\ Set(t, a) /\ UNCHANGED lease
  <2>1. /\ s \in Record /\ s.doubt = {} /\ s.outcome = "none" /\ s.verdict = "none"
        /\ s.pending = "none"
    BY <1>1, Between
  <2>2. profile \in Cred /\ profile.token <= issued
    BY <1>4, ProfileIssued
  <2>3. Set(t, a)
    BY <1>4
  <2> HIDE DEF s
  <2>4. /\ a \in Record /\ a.pc = "lease" /\ a.cred = profile /\ a.doubt = {}
        /\ a.outcome = "none" /\ a.verdict = "none" /\ a.pending = "none" /\ a.swallowed = {}
    BY <1>2, <2>1, <2>2, Names DEF Record
  <2> HIDE DEF a
  <2>5. TaskGood(t)' /\ tasks'[t] = a
    BY <1>1, <2>2, <2>3, <2>4, PlainGood
  <2>6. Turned(t)
    BY <1>4, <2>3, <2>5 DEF Turned, Set
  <2> QED
    BY <1>1, <1>2, <2>4, <2>5, <2>6, QuietTurn DEF s
<1> QED
  BY <1>3, <1>4 DEF Candidates

LEMMA RecheckStep ==
  ASSUME IInv, NEW t \in Task, Recheck(t)
  PROVE  IInv'
<1>1. /\ tasks[t].pc = "recheck" /\ UNCHANGED <<profile, server, used>> /\ UNCHANGED refusal
      /\ UNCHANGED models /\ UNCHANGED issued
  BY DEF Recheck, At, disk, server
<1>2. models \in [Task -> SUBSET SUBSET Extra]
  BY Alive
<1>3. CASE Finish(t, tasks[t], "ended")
  BY <1>1, <1>2, <1>3, EndsGood
<1>4. CASE /\ profile # NoCred /\ UNCHANGED lease
           /\ Set(t, Asks([tasks[t] EXCEPT !.cred = profile], "opportune"))
  BY <1>1, <1>2, <1>4, AskedGood, QuietTurn
<1> QED
  BY <1>3, <1>4 DEF Recheck

LEMMA BindStep ==
  ASSUME IInv, NEW t \in Task, Bind(t)
  PROVE  IInv'
<1>1. /\ tasks[t].pc = "bind" /\ UNCHANGED <<profile, server, used>> /\ UNCHANGED refusal
      /\ UNCHANGED models /\ UNCHANGED issued
  BY DEF Bind, At, disk, server
<1>2. models \in [Task -> SUBSET SUBSET Extra]
  BY Alive
<1>3. CASE Finish(t, tasks[t], "ended")
  BY <1>1, <1>2, <1>3, EndsGood
<1>4. CASE /\ profile # NoCred /\ UNCHANGED lease
           /\ Set(t, Asks([tasks[t] EXCEPT !.cred = profile], "listing"))
  BY <1>1, <1>2, <1>4, AskedGood, QuietTurn
<1> QED
  BY <1>3, <1>4 DEF Bind, Holds

----------------------------------------------------------------------------
(* The warm-up                                                              *)

(* Where a warm-up has its credential.                                      *)
LEMMA Warming ==
  ASSUME IInv, NEW t \in Task,
         tasks[t].pc \in {"models", "fetch", "relock", "verify", "post", "ping"},
         NEW r, r = tasks[t] \/ r = Opened(tasks[t])
  PROVE  /\ Warms(t, r) /\ r.cred.token <= issued /\ r.swallowed = tasks[t].swallowed
         /\ r.pc = tasks[t].pc /\ r.cred = tasks[t].cred /\ r.boundary = tasks[t].boundary
         /\ r.pc \notin {"fetch", "relock"} => lease = t
         /\ r.pc \notin {"fetch", "relock", "verify"} /\ ~used.rogue => profile = r.cred
         /\ r.pc \in {"post", "ping"} => r.boundary = "committed"
<1> DEFINE s == tasks[t]
<1>1. /\ s \in Record /\ s.doubt = {} /\ s.outcome = "none" /\ s.verdict = "none"
      /\ s.pending = "none"
  BY Between
<1>2. /\ r \in Record /\ r.doubt = s.doubt /\ r.outcome = s.outcome /\ r.verdict = s.verdict
      /\ r.pending = s.pending /\ r.swallowed = s.swallowed /\ r.pc = s.pc /\ r.cred = s.cred
      /\ r.wants = s.wants /\ r.boundary = s.boundary
  BY <1>1 DEF Opened, Record
<1>3. Good(t, s, lease, profile, refusal, dead, issued, used.rogue)
  BY DEF IInv, TaskGood
<1>4. s.pc \in {"models", "fetch", "relock", "verify", "post", "ping"}
  OBVIOUS
<1> HIDE DEF s
<1>5. s.cred # NoCred /\ s.cred.owner = s.wants /\ s.cred.token <= issued
  BY <1>3, <1>4 DEF Good, Shape, Dated, InWarm
<1>6. s.pc \notin {"fetch", "relock"} => lease = t
  BY <1>3, <1>4 DEF Good, Held, Unleased
<1>7. s.pc \notin {"fetch", "relock", "verify"} /\ ~used.rogue => profile = s.cred
  BY <1>3, <1>4 DEF Good, Fits, WarmHeld
<1>8. s.pc \in {"post", "ping"} => s.boundary = "committed"
  BY <1>3 DEF Good, Shape
<1> QED
  BY <1>1, <1>2, <1>5, <1>6, <1>7, <1>8 DEF Warms, s

(* A warm-up takes the profile's credential.                                *)
LEMMA SnappedGood ==
  ASSUME IInv, NEW t \in Task, tasks[t].pc \in {"greet", "snapshot"},
         Holds(tasks[t].wants), Set(t, Snapped(tasks[t])),
         UNCHANGED <<lease, profile, issued, used>>
  PROVE  Turned(t) /\ tasks'[t].swallowed = tasks[t].swallowed
<1> DEFINE s == tasks[t]
           a == [s EXCEPT !.cred = profile]
           b == [a EXCEPT !.pc = "present", !.purpose = "warming"]
           c == [a EXCEPT !.pc = "models"]
<1>1. /\ s \in Record /\ s.doubt = {} /\ s.outcome = "none" /\ s.verdict = "none"
      /\ s.pending = "none" /\ lease = t
  BY Between, Alive DEF Unleased
<1>2. /\ profile \in Cred /\ profile # NoCred /\ profile.owner = s.wants
      /\ profile.token <= issued
  BY ProfileIssued DEF Holds
<1>3. Set(t, b) \/ Set(t, c)
  BY DEF Snapped, Asks
<1> HIDE DEF s
<1>4. {"present", "models"} \subseteq Places /\ "warming" \in Purpose
  BY Names
<1>5. /\ a \in Record /\ a.cred = profile /\ a.doubt = {} /\ a.outcome = "none"
      /\ a.verdict = "none" /\ a.pending = "none" /\ a.swallowed = s.swallowed
      /\ a.wants = s.wants
  BY <1>1, <1>2 DEF Record
<1> HIDE DEF a
<1>6. /\ b \in Record /\ b.pc = "present" /\ b.purpose = "warming" /\ b.cred = profile
      /\ b.doubt = {} /\ b.outcome = "none" /\ b.wants = s.wants
      /\ b.verdict = "none" /\ b.pending = "none" /\ b.swallowed = s.swallowed
  BY <1>4, <1>5 DEF Record
<1>7. /\ c \in Record /\ c.pc = "models" /\ c.cred = profile
      /\ c.doubt = {} /\ c.outcome = "none" /\ c.wants = s.wants
      /\ c.verdict = "none" /\ c.pending = "none" /\ c.swallowed = s.swallowed
  BY <1>4, <1>5 DEF Record
<1> HIDE DEF b, c
<1>8. Warms(t, b) /\ Warms(t, c)
  BY <1>2, <1>6, <1>7 DEF Warms
<1>9. CASE Set(t, b)
  BY <1>1, <1>2, <1>6, <1>8, <1>9, WarmingGood DEF s
<1>10. CASE Set(t, c)
  BY <1>1, <1>2, <1>7, <1>8, <1>10, WarmingGood DEF s
<1> QED
  BY <1>3, <1>9, <1>10

LEMMA GreetStep ==
  ASSUME IInv, NEW t \in Task, Greet(t)
  PROVE  IInv'
<1> DEFINE s == tasks[t]
           a == [s EXCEPT !.pc = "prepare"]
<1>1. /\ s.pc = "greet" /\ UNCHANGED <<profile, server, used>> /\ UNCHANGED refusal
      /\ UNCHANGED models /\ issued' = issued /\ UNCHANGED <<profile, issued, used>>
  BY DEF Greet, At, disk, server
<1>2. models \in [Task -> SUBSET SUBSET Extra] /\ s.swallowed = {} /\ lease = t
  BY <1>1, Alive DEF Unleased
<1>3. CASE Finish(t, s, "ended")
  BY <1>1, <1>2, <1>3, EndsGood
<1>4. CASE Holds(s.wants) /\ Set(t, Snapped(s)) /\ UNCHANGED lease
  <2>1. UNCHANGED <<lease, profile, issued, used>>
    BY <1>1, <1>4
  <2>2. Turned(t) /\ tasks'[t].swallowed = s.swallowed
    BY <1>1, <1>4, <2>1, SnappedGood
  <2> QED
    BY <1>1, <1>2, <2>2, QuietTurn
<1>5. CASE Set(t, a) /\ UNCHANGED lease
  <2>1. /\ s \in Record /\ s.doubt = {} /\ s.outcome = "none" /\ s.verdict = "none"
        /\ s.pending = "none" /\ (s.cred # NoCred => s.cred.token <= issued)
    BY <1>1, Between
  <2>2. Set(t, a)
    BY <1>5
  <2> HIDE DEF s
  <2>3. /\ a \in Record /\ a.pc = "prepare" /\ a.cred = s.cred /\ a.doubt = {}
        /\ a.outcome = "none" /\ a.verdict = "none" /\ a.pending = "none" /\ a.swallowed = {}
    BY <1>2, <2>1, Names DEF Record
  <2> HIDE DEF a
  <2>4. TaskGood(t)' /\ tasks'[t] = a
    BY <1>1, <1>2, <1>5, <2>1, <2>2, <2>3, PlainGood
  <2>5. Turned(t)
    BY <1>5, <2>2, <2>4 DEF Turned, Set
  <2> QED
    BY <1>1, <1>2, <2>3, <2>4, <2>5, QuietTurn DEF s
<1> QED
  BY <1>3, <1>4, <1>5 DEF Greet

LEMMA SnapshotStep ==
  ASSUME IInv, NEW t \in Task, Snapshot(t)
  PROVE  IInv'
<1>1. /\ tasks[t].pc = "snapshot" /\ UNCHANGED <<profile, server, used>> /\ UNCHANGED refusal
      /\ UNCHANGED models /\ UNCHANGED <<profile, issued, used>>
  BY DEF Snapshot, At, disk, server
<1>2. models \in [Task -> SUBSET SUBSET Extra]
  BY Alive
<1>3. CASE Finish(t, tasks[t], "ended")
  BY <1>1, <1>2, <1>3, EndsGood
<1>4. CASE Holds(tasks[t].wants) /\ Set(t, Snapped(tasks[t])) /\ UNCHANGED lease
  <2>1. UNCHANGED <<lease, profile, issued, used>>
    BY <1>1, <1>4
  <2>2. Turned(t) /\ tasks'[t].swallowed = tasks[t].swallowed
    BY <1>1, <1>4, <2>1, SnappedGood
  <2> QED
    BY <1>1, <1>2, <2>2, QuietTurn
<1> QED
  BY <1>3, <1>4 DEF Snapshot

(* It commits to its messages.                                              *)
LEMMA CommittedGood ==
  ASSUME IInv, NEW t \in Task, tasks[t].pc \in {"models", "verify"},
         NEW found \in SUBSET Extra, Set(t, Committed(tasks[t], found)),
         ~used.rogue => profile = tasks[t].cred, UNCHANGED <<lease, profile, issued, used>>
  PROVE  Turned(t) /\ tasks'[t].swallowed = tasks[t].swallowed
<1> DEFINE s == tasks[t]
           l == IF s.again THEN "ping" ELSE "post"
           a == [s EXCEPT !.boundary = "committed", !.pc = l, !.todo = found \ s.pinged]
<1>1. Warms(t, s) /\ s.cred.token <= issued /\ lease = t
  BY Warming
<1>2. Set(t, a)
  BY DEF Committed
<1>3. ~used.rogue => profile = s.cred
  OBVIOUS
<1> HIDE DEF s
<1>4. l \in Places /\ l \in {"post", "ping"} /\ found \ s.pinged \in SUBSET Extra
  BY Names
<1> HIDE DEF l
<1>5. /\ a \in Record /\ a.pc = l /\ a.cred = s.cred /\ a.boundary = "committed"
      /\ a.doubt = s.doubt /\ a.outcome = s.outcome /\ a.wants = s.wants
      /\ a.verdict = s.verdict /\ a.pending = s.pending /\ a.swallowed = s.swallowed
  BY <1>1, <1>4 DEF Warms, Record
<1> HIDE DEF a
<1>6. Warms(t, a)
  BY <1>1, <1>5 DEF Warms
<1> QED
  BY <1>1, <1>2, <1>3, <1>4, <1>5, <1>6, WarmingGood DEF s

LEMMA ModelsStep ==
  ASSUME IInv, NEW t \in Task, Models(t)
  PROVE  IInv'
<1> DEFINE s == tasks[t]
           a == [s EXCEPT !.pc = "fetch"]
<1>1. /\ s.pc = "models" /\ UNCHANGED <<profile, server, used>> /\ UNCHANGED refusal
      /\ UNCHANGED models /\ issued' = issued /\ UNCHANGED <<profile, issued, used>>
  BY DEF Models, At, disk, server
<1>2. /\ Warms(t, s) /\ s.cred.token <= issued /\ lease = t
      /\ ~used.rogue => profile = s.cred
  BY <1>1, Warming
<1>3. models \in [Task -> SUBSET SUBSET Extra]
  BY Alive
<1>4. CASE Finish(t, s, "ended")
  BY <1>1, <1>3, <1>4, EndsGood
<1>5. CASE Set(t, a) /\ lease' = Nobody
  <2>1. Set(t, a)
    BY <1>5
  <2> HIDE DEF s
  <2>2. /\ a \in Record /\ a.pc = "fetch" /\ a.cred = s.cred
        /\ a.doubt = s.doubt /\ a.outcome = s.outcome /\ a.wants = s.wants
        /\ a.verdict = s.verdict /\ a.pending = s.pending /\ a.swallowed = s.swallowed
    BY <1>2, Names DEF Warms, Record
  <2> HIDE DEF a
  <2>3. Warms(t, a)
    BY <1>2, <2>2 DEF Warms
  <2>4. TaskGood(t)' /\ tasks'[t] = a
    BY <1>1, <1>2, <2>1, <2>2, <2>3, WarmGood
  <2>5. Turned(t)
    BY <1>2, <1>5, <2>1, <2>4 DEF Turned, Set
  <2> QED
    BY <1>1, <1>3, <2>2, <2>4, <2>5, QuietTurn DEF s
<1>6. CASE (\E found \in models[t] : Set(t, Committed(s, found))) /\ UNCHANGED lease
  <2>1. PICK found \in models[t] : Set(t, Committed(s, found))
    BY <1>6
  <2>2. found \in SUBSET Extra /\ UNCHANGED <<lease, profile, issued, used>>
    BY <1>1, <1>3, <1>6
  <2>3. Turned(t) /\ tasks'[t].swallowed = s.swallowed
    BY <1>1, <1>2, <2>1, <2>2, CommittedGood
  <2> QED
    BY <1>1, <1>3, <2>3, QuietTurn
<1> QED
  BY <1>4, <1>5, <1>6 DEF Models

LEMMA FetchStep ==
  ASSUME IInv, NEW t \in Task, Fetch(t)
  PROVE  IInv'
<1> DEFINE r == Opened(tasks[t])
           a == [r EXCEPT !.pc = "relock"]
<1>1. /\ tasks[t].pc = "fetch" /\ UNCHANGED <<profile, server, used>> /\ UNCHANGED refusal
      /\ UNCHANGED models /\ issued' = issued
  BY DEF Fetch, At, disk, server
<1>2. Warms(t, r) /\ r.cred.token <= issued /\ r.swallowed = tasks[t].swallowed
  BY <1>1, Warming
<1>3. models \in [Task -> SUBSET SUBSET Extra]
  BY Alive
<1>4. CASE Finish(t, tasks[t], "ended")
  BY <1>1, <1>3, <1>4, EndsGood
<1>5. CASE Set(t, a) /\ UNCHANGED lease
  <2>1. Set(t, a)
    BY <1>5
  <2> HIDE DEF r
  <2>2. /\ a \in Record /\ a.pc = "relock" /\ a.cred = r.cred
        /\ a.doubt = r.doubt /\ a.outcome = r.outcome /\ a.wants = r.wants
        /\ a.verdict = r.verdict /\ a.pending = r.pending /\ a.swallowed = r.swallowed
    BY <1>2, Names DEF Warms, Record
  <2> HIDE DEF a
  <2>3. Warms(t, a)
    BY <1>2, <2>2 DEF Warms
  <2>4. TaskGood(t)' /\ tasks'[t] = a
    BY <1>1, <1>2, <2>1, <2>2, <2>3, WarmGood
  <2>5. Turned(t)
    BY <1>5, <2>1, <2>4 DEF Turned, Set
  <2> QED
    BY <1>1, <1>2, <1>3, <2>2, <2>4, <2>5, QuietTurn
<1> QED
  BY <1>4, <1>5 DEF Fetch

LEMMA VerifyStep ==
  ASSUME IInv, NEW t \in Task, Verify(t)
  PROVE  IInv'
<1>1. /\ tasks[t].pc = "verify" /\ UNCHANGED <<profile, server, used>> /\ UNCHANGED refusal
      /\ UNCHANGED <<profile, issued, used>>
  BY DEF Verify, At, disk, server
<1>2. models \in [Task -> SUBSET SUBSET Extra]
  BY Alive
<1>3. CASE Finish(t, tasks[t], "ended") /\ UNCHANGED models
  BY <1>1, <1>2, <1>3, EndsGood
<1>4. CASE /\ profile = tasks[t].cred
           /\ \E found \in SUBSET Extra :
                /\ models' = [models EXCEPT ![t] = {found}]
                /\ Set(t, Committed(tasks[t], found))
           /\ UNCHANGED lease
  <2>1. PICK found \in SUBSET Extra : /\ models' = [models EXCEPT ![t] = {found}]
                                      /\ Set(t, Committed(tasks[t], found))
    BY <1>4
  <2>2. UNCHANGED <<lease, profile, issued, used>>
    BY <1>1, <1>4
  <2>3. Turned(t) /\ tasks'[t].swallowed = tasks[t].swallowed
    BY <1>1, <1>4, <2>1, <2>2, CommittedGood
  <2>4. models' \in [Task -> SUBSET SUBSET Extra]
    BY <1>2, <2>1
  <2> QED
    BY <1>1, <2>3, <2>4, QuietTurn
<1> QED
  BY <1>3, <1>4 DEF Verify

LEMMA AbandonStep ==
  ASSUME IInv, NEW t \in Task, Abandon(t)
  PROVE  IInv'
<1>1. /\ tasks[t].pc \in {"fetch", "relock", "verify"} /\ Finish(t, tasks[t], "ended")
      /\ UNCHANGED <<profile, server, used>> /\ UNCHANGED refusal /\ UNCHANGED models
  BY DEF Abandon, disk
<1>2. models \in [Task -> SUBSET SUBSET Extra]
  BY Alive
<1> QED
  BY <1>1, <1>2, EndsGood

LEMMA PostStep ==
  ASSUME IInv, NEW t \in Task, Post(t)
  PROVE  IInv'
<1> DEFINE r == Opened(tasks[t])
           a == [r EXCEPT !.pc = "ping"]
           b == [r EXCEPT !.pc = "models", !.retried = TRUE]
           c == [r EXCEPT !.retried = TRUE]
           d == [c EXCEPT !.pc = "present", !.purpose = "warmed"]
<1>1. /\ tasks[t].pc = "post" /\ UNCHANGED <<profile, server, used>> /\ UNCHANGED refusal
      /\ issued' = issued /\ used' = used /\ profile' = profile
  BY DEF Post, At, disk, server
<1>2. /\ Warms(t, r) /\ r.cred.token <= issued /\ lease = t
      /\ ~used.rogue => profile = r.cred
      /\ r.boundary = "committed" /\ r.swallowed = tasks[t].swallowed
  BY <1>1, Warming
<1>3. /\ models \in [Task -> SUBSET SUBSET Extra]
      /\ [models EXCEPT ![t] = {}] \in [Task -> SUBSET SUBSET Extra]
  BY Alive
<1>4. models' \in [Task -> SUBSET SUBSET Extra]
  BY <1>3 DEF Post, Forget
<1>5. CASE Finish(t, r, "ended")
  BY <1>1, <1>4, <1>5, EndsGood
<1>6. CASE (Set(t, a) \/ Set(t, b) \/ Set(t, d)) /\ UNCHANGED lease
  <2>1. Set(t, a) \/ Set(t, b) \/ Set(t, d)
    BY <1>6
  <2> HIDE DEF r
  <2>2. {"ping", "models", "present"} \subseteq Places /\ "warmed" \in Purpose
    BY Names
  <2>3. r \in Record
    BY <1>2 DEF Warms
  <2>4. /\ a \in Record /\ a.pc = "ping" /\ a.cred = r.cred /\ a.boundary = "committed"
        /\ a.doubt = r.doubt /\ a.outcome = r.outcome /\ a.wants = r.wants
        /\ a.verdict = r.verdict /\ a.pending = r.pending /\ a.swallowed = r.swallowed
    BY <1>2, <2>2, <2>3 DEF Record
  <2>5. /\ b \in Record /\ b.pc = "models" /\ b.cred = r.cred
        /\ b.doubt = r.doubt /\ b.outcome = r.outcome /\ b.wants = r.wants
        /\ b.verdict = r.verdict /\ b.pending = r.pending /\ b.swallowed = r.swallowed
    BY <2>2, <2>3 DEF Record
  <2>6. /\ c \in Record /\ c.cred = r.cred /\ c.boundary = "committed"
        /\ c.doubt = r.doubt /\ c.outcome = r.outcome /\ c.wants = r.wants
        /\ c.verdict = r.verdict /\ c.pending = r.pending /\ c.swallowed = r.swallowed
    BY <1>2, <2>3 DEF Record
  <2> HIDE DEF a, b, c
  <2>7. /\ d \in Record /\ d.pc = "present" /\ d.purpose = "warmed" /\ d.cred = r.cred
        /\ d.boundary = "committed"
        /\ d.doubt = r.doubt /\ d.outcome = r.outcome /\ d.wants = r.wants
        /\ d.verdict = r.verdict /\ d.pending = r.pending /\ d.swallowed = r.swallowed
    BY <2>2, <2>6 DEF Record
  <2> HIDE DEF d
  <2>8. Warms(t, a) /\ Warms(t, b) /\ Warms(t, d)
    BY <1>2, <2>4, <2>5, <2>7 DEF Warms
  <2>9. CASE Set(t, a)
    <3>1. Turned(t) /\ tasks'[t] = a
      BY <1>1, <1>2, <1>6, <2>4, <2>8, <2>9, WarmingGood
    <3> QED
      BY <1>1, <1>2, <1>4, <2>4, <3>1, QuietTurn
  <2>10. CASE Set(t, b)
    <3>1. Turned(t) /\ tasks'[t] = b
      BY <1>1, <1>2, <1>6, <2>5, <2>8, <2>10, WarmingGood
    <3> QED
      BY <1>1, <1>2, <1>4, <2>5, <3>1, QuietTurn
  <2>11. CASE Set(t, d)
    <3>1. Turned(t) /\ tasks'[t] = d
      BY <1>1, <1>2, <1>6, <2>7, <2>8, <2>11, WarmingGood
    <3> QED
      BY <1>1, <1>2, <1>4, <2>7, <3>1, QuietTurn
  <2> QED
    BY <2>1, <2>9, <2>10, <2>11
<1> QED
  BY <1>5, <1>6 DEF Post, Asks

LEMMA PingStep ==
  ASSUME IInv, NEW t \in Task, Ping(t)
  PROVE  IInv'
<1> DEFINE s == tasks[t]
           a(m) == [s EXCEPT !.todo = @ \ {m}, !.pinged = @ \cup {m}]
           b == [s EXCEPT !.pc = "models", !.again = TRUE, !.todo = {}]
<1>1. /\ s.pc = "ping" /\ UNCHANGED <<profile, server, used>> /\ UNCHANGED refusal
      /\ issued' = issued /\ used' = used /\ profile' = profile
  BY DEF Ping, At, disk, server
<1>2. /\ Warms(t, s) /\ s.cred.token <= issued /\ lease = t
      /\ ~used.rogue => profile = s.cred
      /\ s.boundary = "committed"
  BY <1>1, Warming
<1>3. /\ models \in [Task -> SUBSET SUBSET Extra]
      /\ [models EXCEPT ![t] = {}] \in [Task -> SUBSET SUBSET Extra]
  BY Alive
<1>4. models' \in [Task -> SUBSET SUBSET Extra]
  BY <1>3 DEF Ping, Forget
<1>5. CASE Finish(t, s, "ended")
  BY <1>1, <1>4, <1>5, EndsGood
<1>6. CASE (\E m \in s.todo : Set(t, a(m))) /\ UNCHANGED lease
  <2>1. PICK m \in s.todo : Set(t, a(m))
    BY <1>6
  <2> DEFINE c == a(m)
  <2>2. Set(t, c)
    BY <2>1
  <2>3. s \in Record /\ m \in Extra
    BY <1>2 DEF Warms, Record
  <2> HIDE DEF s
  <2>4. /\ c \in Record /\ c.pc = s.pc /\ c.cred = s.cred /\ c.boundary = s.boundary
        /\ c.doubt = s.doubt /\ c.outcome = s.outcome /\ c.wants = s.wants
        /\ c.verdict = s.verdict /\ c.pending = s.pending /\ c.swallowed = s.swallowed
    BY <2>3 DEF Record
  <2> HIDE DEF c, a
  <2>5. Warms(t, c)
    BY <1>2, <2>4 DEF Warms
  <2>6. Turned(t) /\ tasks'[t] = c
    BY <1>1, <1>2, <1>6, <2>2, <2>4, <2>5, WarmingGood
  <2> QED
    BY <1>1, <1>2, <1>4, <2>4, <2>6, QuietTurn DEF s
<1>7. CASE Set(t, b) /\ UNCHANGED lease
  <2>1. Set(t, b)
    BY <1>7
  <2>2. s \in Record
    BY <1>2 DEF Warms
  <2> HIDE DEF s
  <2>3. /\ b \in Record /\ b.pc = "models" /\ b.cred = s.cred
        /\ b.doubt = s.doubt /\ b.outcome = s.outcome /\ b.wants = s.wants
        /\ b.verdict = s.verdict /\ b.pending = s.pending /\ b.swallowed = s.swallowed
    BY <2>2, Names DEF Record
  <2> HIDE DEF b
  <2>4. Warms(t, b)
    BY <1>2, <2>3 DEF Warms
  <2>5. Turned(t) /\ tasks'[t] = b
    BY <1>1, <1>2, <1>7, <2>1, <2>3, <2>4, WarmingGood
  <2> QED
    BY <1>1, <1>2, <1>4, <2>3, <2>5, QuietTurn DEF s
<1> QED
  BY <1>5, <1>6, <1>7 DEF Ping

----------------------------------------------------------------------------
(* Leases, cancellation and death                                           *)

LEMMA TakeStep ==
  ASSUME IInv, NEW t \in Task, Take(t)
  PROVE  IInv'
<1> DEFINE s == tasks[t]
           e == Entry[s.kind]
           a == [s EXCEPT !.pc = e]
           b == [s EXCEPT !.pc = "verify"]
<1>1. /\ UNCHANGED <<profile, server, used>> /\ UNCHANGED refusal /\ UNCHANGED models
      /\ issued' = issued /\ lease = Nobody /\ lease' = t
  BY DEF Take, disk, server
<1>2. models \in [Task -> SUBSET SUBSET Extra] /\ s \in Record
  BY Alive
<1>3. CASE s.pc = "lease" /\ Set(t, a)
  <2>1. /\ s \in Record /\ s.doubt = {} /\ s.outcome = "none" /\ s.verdict = "none"
        /\ s.pending = "none" /\ (s.cred # NoCred => s.cred.token <= issued)
        /\ s.swallowed = {}
    BY <1>3, Between, Alive
  <2>2. s.kind \in Kind
    BY <1>2 DEF Record
  <2>3. e \in {"prepare", "recheck", "greet", "bind"}
    BY <2>2 DEF Kind, Entry
  <2>4. Set(t, a)
    BY <1>3
  <2> HIDE DEF e, s
  <2>5. e \in Places
    BY <2>3, Names
  <2>6. /\ a \in Record /\ a.pc = e /\ a.cred = s.cred /\ a.doubt = {}
        /\ a.outcome = "none" /\ a.verdict = "none" /\ a.pending = "none" /\ a.swallowed = {}
    BY <2>1, <2>5 DEF Record
  <2> HIDE DEF a
  <2>7. TaskGood(t)' /\ tasks'[t] = a
    BY <1>1, <2>1, <2>3, <2>4, <2>6, PlainGood
  <2>8. tasks' = [tasks EXCEPT ![t] = tasks'[t]]
    BY <2>4, <2>7 DEF Set
  <2> QED
    BY <1>1, <1>2, <1>3, <2>1, <2>6, <2>7, <2>8, QuietStep DEF s
<1>4. CASE s.pc = "relock" /\ Set(t, b)
  <2>1. Warms(t, s) /\ s.cred.token <= issued
    BY <1>4, Warming
  <2>2. Set(t, b)
    BY <1>4
  <2> HIDE DEF s
  <2>3. /\ b \in Record /\ b.pc = "verify" /\ b.cred = s.cred
        /\ b.doubt = s.doubt /\ b.outcome = s.outcome /\ b.wants = s.wants
        /\ b.verdict = s.verdict /\ b.pending = s.pending /\ b.swallowed = s.swallowed
    BY <1>2, Names DEF Record
  <2> HIDE DEF b
  <2>4. Warms(t, b)
    BY <2>1, <2>3 DEF Warms
  <2>5. TaskGood(t)' /\ tasks'[t] = b
    BY <1>1, <2>1, <2>2, <2>3, <2>4, WarmGood
  <2>6. tasks' = [tasks EXCEPT ![t] = tasks'[t]]
    BY <2>2, <2>5 DEF Set
  <2> QED
    BY <1>1, <1>2, <1>4, <2>3, <2>5, <2>6, QuietStep DEF s
<1> QED
  BY <1>3, <1>4 DEF Take, At

LEMMA WaiveStep ==
  ASSUME IInv, NEW t \in Task, Waive(t)
  PROVE  IInv'
<1>1. /\ tasks[t].pc = "lease" /\ Finish(t, tasks[t], "ended")
      /\ UNCHANGED <<profile, server, used>> /\ UNCHANGED refusal /\ UNCHANGED models
  BY DEF Waive, At, disk
<1>2. models \in [Task -> SUBSET SUBSET Extra]
  BY Alive
<1> QED
  BY <1>1, <1>2, EndsGood

LEMMA TurnedAwayStep ==
  ASSUME IInv, NEW t \in Task, TurnedAway(t)
  PROVE  IInv'
<1>1. /\ tasks[t].pc \in {"get", "present", "fetch", "post"}
      /\ UNCHANGED <<profile, server, used>> /\ UNCHANGED refusal /\ UNCHANGED models
      /\ UNCHANGED <<profile, issued, used>>
  BY DEF TurnedAway, disk, server
<1>2. models \in [Task -> SUBSET SUBSET Extra]
  BY Alive
<1>3. CASE Finish(t, tasks[t], "ended")
  BY <1>1, <1>2, <1>3, EndsGood
<1>4. CASE /\ tasks[t].pc = "present" /\ tasks[t].purpose = "warming"
           /\ Set(t, Onward(tasks[t], "models")) /\ UNCHANGED lease
  <2>1. UNCHANGED <<lease, profile, issued, used>>
    BY <1>1, <1>4
  <2>2. Turned(t) /\ tasks'[t].swallowed = tasks[t].swallowed
    BY <1>4, <2>1, OnwardGood
  <2> QED
    BY <1>1, <1>2, <2>2, QuietTurn
<1> QED
  BY <1>3, <1>4 DEF TurnedAway, At

LEMMA CancelStep ==
  ASSUME IInv, NEW t \in Task, Cancel(t)
  PROVE  IInv'
<1> DEFINE s == tasks[t]
           a == [s EXCEPT !.net = IF @ = "first" THEN "cancelled" ELSE @,
                          !.boundary = IF @ = "waiting" THEN "cancelled" ELSE @]
<1>1. /\ profile' = profile /\ refusal' = refusal /\ lease' = lease /\ dead' = dead
      /\ issued' = issued /\ age' = age /\ models' = models /\ used' = used
      /\ Set(t, a)
  BY DEF Cancel, disk, server
<1>2. Good(t, s, lease, profile, refusal, dead, issued, used.rogue) /\ s \in Record
  BY Alive DEF IInv, TaskGood
<1>3. tasks' = [tasks EXCEPT ![t] = a] /\ tasks'[t] = a
  BY <1>1 DEF Set, IInv, TypeOK
<1> HIDE DEF s
<1>4. /\ a \in Record /\ a.kind = s.kind /\ a.pc = s.pc /\ a.cred = s.cred
      /\ a.fresh = s.fresh /\ a.purpose = s.purpose /\ a.wants = s.wants
  BY <1>2 DEF Record
<1>5. /\ a.pending = s.pending /\ a.verdict = s.verdict /\ a.doubt = s.doubt
      /\ a.swallowed = s.swallowed /\ a.outcome = s.outcome
      /\ s.boundary = "committed" => a.boundary = "committed"
  BY <1>2 DEF Record
<1> HIDE DEF a
<1>6. Shape(a)
  <2>1. Shape(s)
    BY <1>2 DEF Good
  <2> QED
    BY <1>4, <1>5, <2>1 DEF Shape, InRead, InWarm, ForMessage
<1>7. Dated(a, issued) /\ Judged(a, dead) /\ Held(t, a, lease)
  BY <1>2, <1>4, <1>5 DEF Good, Dated, Judged, Held
<1>8. Fits(a, profile, refusal, dead, issued, used.rogue)
  BY <1>2, <1>4, <1>5 DEF Good, Fits, InRead, WarmHeld, ForMessage
<1>9. TaskGood(t)'
  BY <1>1, <1>3, <1>6, <1>7, <1>8 DEF TaskGood, Good
<1>10. WorldTyped' /\ IssuedFirst'
  BY <1>1, Zenon DEF IInv, TypeOK, WorldTyped, IssuedFirst
<1>11. LossExplained'
  <2>1. \A u \in Task : /\ tasks'[u].doubt = tasks[u].doubt /\ tasks'[u].swallowed = tasks[u].swallowed
                        /\ tasks'[u].pc = tasks[u].pc /\ tasks'[u].cred = tasks[u].cred
    BY <1>3, <1>4, <1>5 DEF IInv, TypeOK, s
  <2> QED
    BY <1>1, <2>1 DEF IInv, LossExplained, At
<1>12. Turn(t)
  <2>1. issued \in Nat
    BY Alive
  <2>2. tasks' = [tasks EXCEPT ![t] = tasks'[t]]
    BY <1>3
  <2>3. lease' = lease /\ issued <= issued' /\ dead \subseteq dead' /\ used'.rogue = used.rogue
    BY <1>1, <2>1
  <2> QED
    BY <1>1, <2>2, <2>3 DEF Turn
<1> QED
  BY <1>9, <1>10, <1>11, <1>12, WholeStep

(* The bounds on what others do.                                            *)
LEMMA UsedTyped ==
  ASSUME IInv, used' \in {used, [used EXCEPT !.moves = @ + 1],
                          [used EXCEPT !.moves = @ + 1, !.rogue = TRUE]},
         used' # used => used.moves < MaxMoves
  PROVE  /\ used' \in [moves : 0..MaxMoves, agings : 0..MaxAgings,
                       abroad : SUBSET Token, rogue : BOOLEAN]
         /\ used'.abroad = used.abroad
         /\ used'.rogue = used.rogue \/ used'.rogue = TRUE
         /\ used' = [used EXCEPT !.moves = @ + 1] => used'.rogue = used.rogue
<1>1. used \in [moves : 0..MaxMoves, agings : 0..MaxAgings,
                abroad : SUBSET Token, rogue : BOOLEAN]
  BY DEF IInv, TypeOK
<1>2. used.moves < MaxMoves => used.moves + 1 \in 0..MaxMoves
  BY <1>1, Bounds
<1> QED
  BY <1>1, <1>2

LEMMA CrashStep ==
  ASSUME IInv, NEW t \in Task, Crash(t)
  PROVE  IInv'
<1> DEFINE s == tasks[t]
           a == [s EXCEPT !.doubt = IF At(t, "save") THEN @ \cup {s.cred.token} ELSE @]
<1>1. /\ profile' = profile /\ refusal' = refusal /\ dead' = dead
      /\ issued' = issued /\ age' = age /\ models' = models
      /\ used' = [used EXCEPT !.moves = @ + 1] /\ used.moves < MaxMoves
      /\ s.pc # "done" /\ Finish(t, a, "crashed")
  BY DEF Crash, Moves, At, disk, server
<1>2. s \in Record /\ s.doubt = {} /\ lease \in Task \cup {Nobody} /\ issued \in Nat
  BY <1>1, Alive
<1>3. s.pc = "save" => s.cred.token \in Token
  <2>1. s.pc = "save" => s.cred # NoCred
    BY DEF IInv, TaskGood, Good, Shape
  <2> QED
    BY <1>2, <2>1 DEF Record, Cred
<1>4. At(t, "save") <=> s.pc = "save"
  BY DEF At
<1>5. /\ a \in Record /\ a.swallowed = s.swallowed
      /\ s.pc = "save" => a.doubt = {s.cred.token}
  BY <1>2, <1>3, <1>4 DEF Record
<1>6. /\ Turned(t) /\ tasks'[t].doubt = a.doubt /\ tasks'[t].swallowed = s.swallowed
  BY <1>1, <1>5, FinishGood, Names
<1> HIDE DEF a
<1>7. /\ used' \in [moves : 0..MaxMoves, agings : 0..MaxAgings,
                    abroad : SUBSET Token, rogue : BOOLEAN]
      /\ used'.abroad = used.abroad /\ used'.rogue = used.rogue
  BY <1>1, UsedTyped
<1>8. WorldTyped'
  <2>1. lease' \in Task \cup {Nobody}
    BY <1>2, <1>6 DEF Turned
  <2> QED
    BY <1>1, <1>7, <2>1, Zenon DEF IInv, TypeOK, WorldTyped
<1>9. IssuedFirst'
  BY <1>1 DEF IInv, IssuedFirst
<1>10. LossExplained'
  <2>1. CASE s.pc = "save"
    <3> DEFINE x == s.cred.token
    <3>1. /\ x \in tasks'[t].doubt /\ dead' \subseteq dead \cup {x}
          /\ tasks' = [tasks EXCEPT ![t] = tasks'[t]]
          /\ tasks[t].swallowed \subseteq tasks'[t].swallowed
      BY <1>1, <1>5, <1>6, <2>1 DEF Turned
    <3> QED
      BY <1>1, <1>7, <2>1, <3>1, LossMoves
  <2>2. CASE s.pc # "save"
    BY <1>1, <1>6, <1>7, <2>2, LossStays DEF Turned
  <2> QED
    BY <2>1, <2>2
<1>11. Turn(t)
  BY <1>1, <1>2, <1>6, <1>7 DEF Turn, Turned
<1> QED
  BY <1>6, <1>8, <1>9, <1>10, <1>11, WholeStep DEF Turned

----------------------------------------------------------------------------
(* The world outside                                                        *)

(* Nobody holds the lease, so nobody is disturbed.                          *)
LEMMA NobodyDisturbed ==
  ASSUME IInv, lease = Nobody, UNCHANGED tasks, issued' \in Nat,
         dead \subseteq dead', issued <= issued', NEW t \in Task
  PROVE  TaskGood(t)'
<1>1. Good(t, tasks[t], lease, profile, refusal, dead, issued, used.rogue) /\ issued \in Nat
  BY Alive DEF IInv, TaskGood
<1>2. tasks[t].pc \in Unleased
  BY <1>1, Bounds DEF Good, Held
<1> QED
  BY <1>1, <1>2, Waiting DEF TaskGood

LEMMA OutsideStep ==
  ASSUME IInv, UNCHANGED tasks, \A t \in Task : TaskGood(t)', WorldTyped', IssuedFirst',
         LossExplained'
  PROVE  IInv'
BY DEF IInv, TypeOK, WorldTyped

(* Somebody signs in.                                                       *)
LEMMA SignInStep ==
  ASSUME IInv, NEW x \in Account, SignIn(x)
  PROVE  IInv'
<1> DEFINE c == Issued(x)
<1>1. /\ profile' = c /\ refusal' = refusal /\ lease' = lease /\ dead' = dead
      /\ issued' = issued + 1 /\ age' = age /\ models' = models /\ UNCHANGED tasks
      /\ used' = [used EXCEPT !.moves = @ + 1] /\ used.moves < MaxMoves
      /\ lease = Nobody /\ issued < MaxIssued
  BY DEF SignIn, Moves
<1>2. /\ issued \in Nat /\ dead \subseteq 1..issued /\ issued + 1 \in 1..MaxIssued
      /\ 1..issued \subseteq 1..(issued + 1) /\ issued <= issued + 1
      /\ issued + 1 \notin dead
  <2>1. issued \in 1..MaxIssued /\ dead \subseteq 1..issued
    BY DEF IInv, TypeOK, IssuedFirst
  <2>2. issued \in Nat /\ issued + 1 \in 1..MaxIssued
    BY <1>1, <2>1, Bounds
  <2> QED
    BY <2>1, <2>2
<1>3. c \in Cred /\ c.token = issued + 1
  BY <1>2 DEF Issued, Cred, Token
<1> HIDE DEF c
<1>4. used' \in [moves : 0..MaxMoves, agings : 0..MaxAgings,
                 abroad : SUBSET Token, rogue : BOOLEAN]
  BY <1>1, UsedTyped
<1>5. \A t \in Task : TaskGood(t)'
  BY <1>1, <1>2, NobodyDisturbed
<1>6. WorldTyped'
  <2>1. issued' \in 1..MaxIssued /\ profile' \in Cred \cup {NoCred}
    BY <1>1, <1>2, <1>3
  <2> QED
    BY <1>1, <1>4, <2>1, Zenon DEF IInv, TypeOK, WorldTyped
<1>7. IssuedFirst'
  <2>1. dead' \subseteq 1..issued'
    BY <1>1, <1>2
  <2>2. profile'.token <= issued'
    BY <1>1, <1>2, <1>3
  <2>3. refusal' # 0 => refusal' \in dead'
    BY <1>1 DEF IInv, IssuedFirst
  <2> QED
    BY <2>1, <2>2, <2>3 DEF IssuedFirst
<1>8. LossExplained'
  <2>1. profile'.token \notin dead'
    BY <1>1, <1>2, <1>3
  <2> QED
    BY <2>1 DEF LossExplained
<1> QED
  BY <1>1, <1>5, <1>6, <1>7, <1>8, OutsideStep

(* The profile is deleted.                                                  *)
LEMMA DeleteStep ==
  ASSUME IInv, Delete
  PROVE  IInv'
<1>1. /\ profile' = NoCred /\ refusal' = 0 /\ lease' = lease /\ dead' = dead
      /\ issued' = issued /\ age' = age /\ models' = models /\ UNCHANGED tasks
      /\ used' = [used EXCEPT !.moves = @ + 1] /\ used.moves < MaxMoves
      /\ lease = Nobody
  BY DEF Delete, Moves, server
<1>2. issued \in 1..MaxIssued /\ issued \in Nat
  BY Bounds DEF IInv, TypeOK
<1>3. used' \in [moves : 0..MaxMoves, agings : 0..MaxAgings,
                 abroad : SUBSET Token, rogue : BOOLEAN]
  BY <1>1, UsedTyped
<1>4. \A t \in Task : TaskGood(t)'
  BY <1>1, <1>2, NobodyDisturbed
<1>5. WorldTyped'
  <2>1. refusal' \in 0..MaxIssued /\ profile' \in Cred \cup {NoCred}
    BY <1>1, Bounds
  <2> QED
    BY <1>1, <1>3, <2>1, Zenon DEF IInv, TypeOK, WorldTyped
<1>6. IssuedFirst' /\ LossExplained'
  BY <1>1 DEF IInv, IssuedFirst, LossExplained
<1> QED
  BY <1>1, <1>4, <1>5, <1>6, OutsideStep

(* The profile is refreshed under somebody's lease.                         *)
LEMMA RogueStep ==
  ASSUME IInv, Rogue
  PROVE  IInv'
<1> DEFINE c == Issued(profile.owner)
<1>1. /\ profile' = c /\ refusal' = refusal /\ lease' = lease
      /\ dead' = dead \cup {profile.token} /\ profile # NoCred
      /\ issued' = issued + 1 /\ age' = age /\ models' = models /\ UNCHANGED tasks
      /\ used' = [used EXCEPT !.moves = @ + 1, !.rogue = TRUE] /\ used.moves < MaxMoves
      /\ Rotates(profile) /\ issued < MaxIssued
  BY DEF Rogue, Rotates
<1>2. /\ profile \in Cred /\ profile.token \in Token /\ profile.token \in Nat
      /\ profile.token <= issued /\ profile.owner \in Account
  BY <1>1, ProfileIssued, Bounds
<1>3. /\ dead \subseteq dead' /\ dead' \subseteq dead \cup {profile.token}
      /\ dead' \subseteq Token /\ dead' \subseteq 1..issued' /\ issued' \in 1..MaxIssued
  BY <1>1, <1>2, ServerMoves
<1>4. /\ issued \in Nat /\ issued + 1 \in 1..MaxIssued /\ issued <= issued + 1
      /\ issued + 1 \notin dead' /\ refusal # issued + 1
  <2>1. issued \in 1..MaxIssued /\ dead \subseteq 1..issued /\ (refusal # 0 => refusal \in dead)
    BY DEF IInv, TypeOK, IssuedFirst
  <2> QED
    BY <1>1, <1>2, <1>3, <2>1, Bounds
<1>5. c \in Cred /\ c.token = issued + 1
  BY <1>2, <1>4 DEF Issued, Cred, Token
<1> HIDE DEF c
<1>6. /\ used' \in [moves : 0..MaxMoves, agings : 0..MaxAgings,
                    abroad : SUBSET Token, rogue : BOOLEAN]
      /\ used'.rogue = TRUE
  <2>1. used.rogue \in BOOLEAN /\ used \in [moves : 0..MaxMoves, agings : 0..MaxAgings,
                                            abroad : SUBSET Token, rogue : BOOLEAN]
    BY DEF IInv, TypeOK
  <2> QED
    BY <1>1, <2>1, UsedTyped
<1>7. ASSUME NEW t \in Task PROVE TaskGood(t)'
  <2> DEFINE s == tasks[t]
  <2>1. Good(t, s, lease, profile, refusal, dead, issued, used.rogue)
    BY DEF IInv, TaskGood
  <2>2. s.cred # NoCred => s.cred.token \in Nat
    BY Alive, Bounds DEF Cred
  <2>3. s.pc = "save" => s.fresh.token \in Nat
    BY <2>1, Bounds DEF Good, Shape, Record, Cred
  <2> HIDE DEF s
  <2>4. Dated(s, issued') /\ Judged(s, dead') /\ Held(t, s, lease') /\ Shape(s)
    BY <1>1, <1>3, <1>4, <2>1, <2>2 DEF Good, Dated, Judged, Held
  <2>5. s.pc = "save" =>
          /\ s.fresh.token \notin dead' /\ s.fresh.token <= issued'
          /\ profile'.token # s.fresh.token
    BY <1>1, <1>2, <1>3, <1>4, <1>5, <2>1, <2>3 DEF Good, Fits
  <2>6. InRead(s) /\ s.kind # "force" =>
          s.cred.token # refusal' /\ profile'.token # refusal'
    BY <1>1, <1>4, <1>5, <2>1 DEF Good, Fits
  <2>7. Fits(s, profile', refusal', dead', issued', used'.rogue)
    BY <1>6, <2>5, <2>6 DEF Fits
  <2> QED
    BY <1>1, <2>4, <2>7 DEF TaskGood, Good, s
<1>8. WorldTyped'
  <2>1. profile' \in Cred \cup {NoCred}
    BY <1>1, <1>5
  <2> QED
    BY <1>1, <1>3, <1>6, <2>1, Zenon DEF IInv, TypeOK, WorldTyped
<1>9. IssuedFirst'
  <2>1. profile'.token <= issued'
    BY <1>1, <1>4, <1>5
  <2>2. refusal' # 0 => refusal' \in dead'
    BY <1>1, <1>3 DEF IInv, IssuedFirst
  <2> QED
    BY <1>3, <2>1, <2>2 DEF IssuedFirst
<1>10. LossExplained'
  <2>1. profile'.token \notin dead'
    BY <1>1, <1>4, <1>5
  <2> QED
    BY <2>1 DEF LossExplained
<1> QED
  BY <1>1, <1>7, <1>8, <1>9, <1>10, OutsideStep


(* Codex, or another machine, presents its copy: nothing of ours moves.     *)
LEMMA SpendElsewhereStep ==
  ASSUME IInv, SpendElsewhere
  PROVE  IInv'
<1> DEFINE x == profile.token
<1>1. /\ profile' = profile /\ refusal' = refusal /\ lease' = lease
      /\ dead' = dead \cup {x} /\ profile # NoCred
      /\ issued' = issued /\ age' = age /\ models' = models /\ UNCHANGED tasks
      /\ used' = [used EXCEPT !.moves = @ + 1, !.abroad = @ \cup {x}]
      /\ used.moves < MaxMoves
  BY DEF SpendElsewhere, disk
<1>2. x \in Token /\ x <= issued /\ x \in 1..issued /\ issued \in 1..MaxIssued
  <2>1. x \in Token /\ x <= issued /\ issued \in 1..MaxIssued
    BY <1>1, ProfileIssued DEF IInv, TypeOK
  <2> QED
    BY <2>1, Bounds
<1>3. /\ used' \in [moves : 0..MaxMoves, agings : 0..MaxAgings,
                    abroad : SUBSET Token, rogue : BOOLEAN]
      /\ used'.abroad = used.abroad \cup {x} /\ used'.rogue = used.rogue
  <2>1. used \in [moves : 0..MaxMoves, agings : 0..MaxAgings,
                  abroad : SUBSET Token, rogue : BOOLEAN]
    BY DEF IInv, TypeOK
  <2>2. used.moves + 1 \in 0..MaxMoves
    BY <1>1, <2>1, Bounds
  <2>3. used.abroad \cup {x} \in SUBSET Token
    BY <1>2, <2>1
  <2> HIDE DEF x
  <2> QED
    BY <1>1, <2>1, <2>2, <2>3
<1>4. ASSUME NEW t \in Task PROVE TaskGood(t)'
  <2> DEFINE s == tasks[t]
  <2>1. Good(t, s, lease, profile, refusal, dead, issued, used.rogue)
    BY DEF IInv, TaskGood
  <2> HIDE DEF s
  <2>2. Judged(s, dead')
    BY <1>1, <2>1 DEF Good, Judged
  <2>3. Fits(s, profile, refusal, dead', issued, used.rogue)
    BY <1>1, <2>1 DEF Good, Fits
  <2>4. Good(t, s, lease', profile', refusal', dead', issued', used'.rogue)
    BY <1>1, <1>3, <2>1, <2>2, <2>3 DEF Good
  <2> QED
    BY <1>1, <2>4 DEF TaskGood, s
<1>5. WorldTyped'
  <2>1. dead' \subseteq Token
    BY <1>1, <1>2 DEF IInv, TypeOK
  <2> QED
    BY <1>1, <1>3, <2>1, Zenon DEF IInv, TypeOK, WorldTyped
<1>6. IssuedFirst'
  BY <1>1, <1>2 DEF IInv, IssuedFirst
<1>7. LossExplained'
  <2>1. x \in used'.abroad
    BY <1>3
  <2> QED
    BY <1>1, <2>1 DEF LossExplained
<1> QED
  BY <1>1, <1>4, <1>5, <1>6, <1>7, OutsideStep

(* Access tokens grow older, which changes what is done and not what holds. *)
LEMMA AgingStep ==
  ASSUME IInv, Aging
  PROVE  IInv'
<1>1. /\ profile' = profile /\ refusal' = refusal /\ lease' = lease /\ dead' = dead
      /\ issued' = issued /\ models' = models /\ UNCHANGED tasks
      /\ used' = [used EXCEPT !.agings = @ + 1] /\ used.agings < MaxAgings
  BY DEF Aging, disk
<1>2. age' \in [Token -> Age]
  <2>1. PICK c \in {profile} \cup {tasks[t].cred : t \in Task} :
          age' \in {[age EXCEPT ![c.access] = "soon"], [age EXCEPT ![c.access] = "expiring"]}
    BY DEF Aging
  <2>2. age \in [Token -> Age] /\ {"soon", "expiring"} \subseteq Age
    BY DEF IInv, TypeOK, Age
  <2> QED
    BY <2>1, <2>2
<1>3. /\ used' \in [moves : 0..MaxMoves, agings : 0..MaxAgings,
                    abroad : SUBSET Token, rogue : BOOLEAN]
      /\ used'.abroad = used.abroad /\ used'.rogue = used.rogue
  <2>1. used \in [moves : 0..MaxMoves, agings : 0..MaxAgings,
                  abroad : SUBSET Token, rogue : BOOLEAN]
    BY DEF IInv, TypeOK
  <2>2. used.agings + 1 \in 0..MaxAgings
    BY <1>1, <2>1, Bounds
  <2> QED
    BY <1>1, <2>1, <2>2
<1>4. ASSUME NEW t \in Task PROVE TaskGood(t)'
  BY <1>1, <1>3 DEF IInv, TaskGood
<1>5. WorldTyped'
  BY <1>1, <1>2, <1>3, Zenon DEF IInv, TypeOK, WorldTyped
<1>6. IssuedFirst' /\ LossExplained'
  BY <1>1, <1>3 DEF IInv, IssuedFirst, LossExplained, At
<1> QED
  BY <1>1, <1>4, <1>5, <1>6, OutsideStep

----------------------------------------------------------------------------
(* The invariant                                                            *)

(* It holds where the operations begin.                                     *)
LEMMA InitGood == Init => IInv
<1> SUFFICES ASSUME Init PROVE IInv
  OBVIOUS
<1>1. PICK x \in Account :
        /\ profile = [owner |-> x, token |-> 1, access |-> 1]
        /\ \E k \in Casts : tasks = [t \in Task |-> Start(k[t], x)]
  BY DEF Init
<1>2. PICK k \in Casts : tasks = [t \in Task |-> Start(k[t], x)]
  BY <1>1
<1>3. k \in [Task -> Kind]
  BY TokenRotationConstants
<1>4. /\ refusal = 0 /\ lease = Nobody /\ dead = {} /\ issued = 1
      /\ models \in [Task -> {{}, {Extra}}]
      /\ used = [moves |-> 0, agings |-> 0, abroad |-> {}, rogue |-> FALSE]
  BY DEF Init
<1>5. 1 \in Token /\ 1 \in 1..MaxIssued /\ 0 \in 0..MaxIssued /\ 0 \in 0..MaxMoves
      /\ 0 \in 0..MaxAgings
  BY Bounds DEF Token
<1>6. profile \in Cred /\ profile.token = 1
  BY <1>1, <1>5 DEF Cred
<1>7. age \in [Token -> Age]
  <2>1. PICK old \in Age : age = [a \in Token |-> IF a = 1 THEN old ELSE "young"]
    BY DEF Init
  <2> QED
    BY <2>1 DEF Age
<1>8. models \in [Task -> SUBSET SUBSET Extra]
  BY <1>4
<1>9. ASSUME NEW t \in Task PROVE tasks[t] \in Record /\ TaskGood(t)
  <2>1. tasks[t] = Start(k[t], x) /\ k[t] \in Kind
    BY <1>2, <1>3
  <2> DEFINE s == tasks[t]
  <2>2. /\ s \in Record /\ s.pc \in {"candidates", "lease"} /\ s.cred = NoCred
        /\ s.verdict = "none" /\ s.pending = "none" /\ s.doubt = {} /\ s.swallowed = {}
        /\ s.outcome = "none"
    BY <2>1, StartFits
  <2> HIDE DEF s
  <2>3. Shape(s) /\ Dated(s, issued) /\ Judged(s, dead) /\ Held(t, s, lease)
    BY <2>2 DEF Shape, Dated, Judged, Held, Unleased, InRead, InWarm, ForMessage
  <2>4. Fits(s, profile, refusal, dead, issued, used.rogue)
    BY <2>2 DEF Fits, InRead, WarmHeld, ForMessage
  <2> QED
    BY <2>2, <2>3, <2>4 DEF TaskGood, Good, s
<1>10. TypeOK
  <2>1. tasks \in [Task -> Record]
    BY <1>2, <1>9
  <2>2. used \in [moves : 0..MaxMoves, agings : 0..MaxAgings,
                  abroad : SUBSET Token, rogue : BOOLEAN]
    BY <1>4, <1>5
  <2> QED
    BY <1>4, <1>5, <1>6, <1>7, <1>8, <2>1, <2>2 DEF TypeOK
<1>11. IssuedFirst /\ LossExplained
  BY <1>4, <1>6 DEF IssuedFirst, LossExplained
<1> QED
  BY <1>9, <1>10, <1>11 DEF IInv

(* Every step of an operation preserves it.                                 *)
LEMMA StepGood ==
  ASSUME IInv, NEW t \in Task, Step(t)
  PROVE  IInv'
<1>1. CASE Prepare(t)
  BY <1>1, PrepareStep
<1>2. CASE Attempt(t)
  BY <1>2, AttemptStep
<1>3. CASE Recover(t)
  BY <1>3, RecoverStep
<1>4. CASE Get(t)
  BY <1>4, GetStep
<1>5. CASE Follow(t)
  BY <1>5, FollowStep
<1>6. CASE Unauthorized(t)
  BY <1>6, UnauthorizedStep
<1>7. CASE Answered(t)
  BY <1>7, AnsweredStep
<1>8. CASE Unanswered(t)
  BY <1>8, UnansweredStep
<1>9. CASE Declined(t)
  BY <1>9, DeclinedStep
<1>10. CASE Save(t)
  BY <1>10, SaveStep
<1>11. CASE Candidates(t)
  BY <1>11, CandidatesStep
<1>12. CASE Recheck(t)
  BY <1>12, RecheckStep
<1>13. CASE Bind(t)
  BY <1>13, BindStep
<1>14. CASE Greet(t)
  BY <1>14, GreetStep
<1>15. CASE Snapshot(t)
  BY <1>15, SnapshotStep
<1>16. CASE Models(t)
  BY <1>16, ModelsStep
<1>17. CASE Fetch(t)
  BY <1>17, FetchStep
<1>18. CASE Verify(t)
  BY <1>18, VerifyStep
<1>19. CASE Abandon(t)
  BY <1>19, AbandonStep
<1>20. CASE Post(t)
  BY <1>20, PostStep
<1>21. CASE Ping(t)
  BY <1>21, PingStep
<1>22. CASE Take(t)
  BY <1>22, TakeStep
<1>23. CASE Waive(t)
  BY <1>23, WaiveStep
<1>24. CASE TurnedAway(t)
  BY <1>24, TurnedAwayStep
<1> QED
  BY <1>1, <1>2, <1>3, <1>4, <1>5, <1>6, <1>7, <1>8, <1>9, <1>10, <1>11, <1>12, <1>13, <1>14,
     <1>15, <1>16, <1>17, <1>18, <1>19, <1>20, <1>21, <1>22, <1>23, <1>24 DEF Step

(* And so does every other step.                                            *)
LEMMA NextGood == IInv /\ [Next]_vars => IInv'
<1> SUFFICES ASSUME IInv, [Next]_vars PROVE IInv'
  OBVIOUS
<1>1. ASSUME NEW t \in Task, Step(t) \/ Cancel(t) \/ Crash(t) PROVE IInv'
  BY <1>1, StepGood, CancelStep, CrashStep
<1>2. CASE Outside
  BY <1>2, SignInStep, DeleteStep, RogueStep, SpendElsewhereStep, AgingStep DEF Outside
<1>3. CASE UNCHANGED vars
  <2>1. /\ profile' = profile /\ refusal' = refusal /\ lease' = lease /\ dead' = dead
        /\ issued' = issued /\ age' = age /\ models' = models /\ tasks' = tasks /\ used' = used
    BY <1>3 DEF vars, disk, server
  <2> QED
    BY <2>1, Zenon DEF IInv, TypeOK, IssuedFirst, LossExplained, TaskGood, At
<1> QED
  BY <1>1, <1>2, <1>3 DEF Next, Rest

(* In every state the lease is where the places of the tasks say, and what  *)
(* each task carries fits the profile, the server and the refusal.          *)
THEOREM Inductive == Spec => []IInv
BY InitGood, NextGood, PTL DEF Spec

(* Every variable and every local variable of an operation stays within its *)
(* type: no attempt counter runs below zero, no credential is presented     *)
(* that is not one.                                                         *)
THEOREM RotationTypeCorrect == Spec => []TypeOK
<1>1. IInv => TypeOK
  BY DEF IInv
<1> QED
  BY <1>1, Inductive, PTL

(* A recorded refusal, and every "sign in again" shown from one, is about a *)
(* token the server has retired; and no usage read but a forced one         *)
(* presents a token that stands refused.                                    *)
THEOREM RefusalsAreTrue == Spec => []RefusalsHold
<1>1. IInv => RefusalsHold
  <2> SUFFICES ASSUME IInv PROVE RefusalsHold
    OBVIOUS
  <2>1. refusal # 0 => refusal \in dead
    BY DEF IInv, IssuedFirst
  <2>2. ASSUME NEW t \in Task, tasks[t].outcome = "known" PROVE tasks[t].cred.token \in dead
    BY <2>2 DEF IInv, TaskGood, Good, Judged
  <2>3. ASSUME NEW t \in Task, tasks[t].pc = "present", tasks[t].purpose \in Reading,
               tasks[t].kind # "force"
        PROVE  tasks[t].cred.token # refusal
    BY <2>3 DEF IInv, TaskGood, Good, Fits, InRead
  <2> QED
    BY <2>1, <2>2, <2>3 DEF RefusalsHold, At, Is
<1> QED
  BY <1>1, Inductive, PTL

(* Whoever presents a token and does not save its successor says so, and a  *)
(* profile is left with a dead token only where that, or somebody who       *)
(* honours no lease, explains it.                                           *)
THEOREM LossesAreReported == Spec => []LossIsReported
<1>1. IInv => LossIsReported
  BY DEF IInv, LossExplained, TaskGood, Good, Shape, LossIsReported
<1> QED
  BY <1>1, Inductive, PTL

(* A warm-up's messages go out under the lease, with the credential the     *)
(* profile holds, for the account it was asked for, past the last moment to *)
(* call it off.                                                             *)
THEOREM MessagesAreGuarded == Spec => []PostsAreGuarded
<1>1. IInv => PostsAreGuarded
  <2> SUFFICES ASSUME IInv, NEW t \in Task, tasks[t].pc \in {"post", "ping"}
               PROVE  /\ lease = t /\ tasks[t].cred.owner = tasks[t].wants
                      /\ ~used.rogue => profile = tasks[t].cred
                      /\ tasks[t].boundary = "committed"
    BY DEF PostsAreGuarded
  <2>1. Good(t, tasks[t], lease, profile, refusal, dead, issued, used.rogue)
    BY DEF IInv, TaskGood
  <2> QED
    BY <2>1 DEF Good, Held, Unleased, Shape, InWarm, Fits, WarmHeld
<1> QED
  BY <1>1, Inductive, PTL
============================================================================
