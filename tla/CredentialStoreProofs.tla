------------------------ MODULE CredentialStoreProofs ------------------------
(***************************************************************************)
(* What CredentialStore promises, for every set of names, accounts and      *)
(* processes, every choice of operations and every bound: its types, that   *)
(* its saved profiles implement ProfileRegistry, that no account ever has   *)
(* two profiles, that an account keeps a usable token, that refreshing or   *)
(* re-authorizing a profile moves live only within its account and leaves   *)
(* no spent token live, and that a switch displaces only what was agreed.   *)
(*                                                                          *)
(* Two arguments.  The first rests on the auth transaction alone: profiles  *)
(* are written under it, by a process that compared what it writes with     *)
(* what is there.  The second adds the leases and the first one's result:   *)
(* an account has one profile, so the lease on its name guards the          *)
(* credential while the network or the user is slow.                        *)
(***************************************************************************)
EXTENDS CredentialStore, FiniteSetTheorems, TLAPS

(* Where the auth transaction is kept from one step to the next.            *)
InTxn == {"write", "swap", "mark", "unstage", "repair", "copy", "recheck", "validate",
          "install", "unmark", "archive", "move", "remark"}

TxnHeld == \A p \in Proc : tasks[p].pc \in InTxn => txn = p

(* The step a task is at, or will be at once it has its leases.             *)
Place(t) == IF t.pc = "lease" THEN t.then ELSE t.pc

(* Which operations pass where, and where leases are waited for.            *)
KindFits(t) ==
  /\ t.pc = "lease" => t.then \in {"authorize", "prepare", "switch", "consent", "relocate", "autoswitch",
                                  "adopt", "store", "bind", "reauth", "reserve", "delete", "rename"}
  /\ Place(t) \in {"authorize", "present", "stage", "commit", "unstage"} => Refreshes(t)
  /\ Place(t) \in {"prepare", "confirm"} => t.kind \in {"use", "revive"}
  /\ Place(t) = "switch" => t.kind = "use"
  /\ Place(t) \in {"consent", "activate"} => t.kind = "revive"
  /\ Place(t) \in {"locate", "relocate"} => t.kind \in {"auto", "mark"}
  /\ Place(t) = "autoswitch" => t.kind = "auto"
  /\ Place(t) \in {"adopt", "copy", "recheck"} => t.kind \in {"sync", "readback"}
  /\ Place(t) = "signin" => t.kind \in {"login", "reauth"}
  /\ Place(t) \in {"plan", "store"} => t.kind \in {"save", "login"}
  /\ Place(t) \in {"bind", "reauth"} => t.kind = "reauth"
  /\ Place(t) = "write" => Refreshes(t) \/ t.kind \in {"save", "login", "reauth"}

(* An operation that has not chosen its profile, or never has one.          *)
Nameless == {"idle", "lease", "locate", "signin", "plan", "scan", "reserve", "validate",
             "install", "rescue", "refile"}

Named(t) ==
  /\ Place(t) \notin Nameless \/ t.kind = "reauth" => t.alias \in Alias
  /\ \/ t.kind \in {"auto", "rename"}
     \/ Place(t) \in {"autoswitch", "rename", "move", "remark"}
     => t.other \in Alias

(* What a task has read or received, and how these compare.  While live     *)
(* follows, the live credential it will replace is of the same account.     *)
Snapshots(t) ==
  /\ Place(t) \in {"present", "stage", "commit", "confirm", "switch", "consent",
                   "validate"} => t.saved \in Cred
  /\ Place(t) \in {"stage", "commit", "write", "swap", "copy", "recheck", "reauth", "validate",
                   "install", "rescue", "refile"} => t.fresh \in Cred
  /\ Place(t) \in {"plan", "store"} /\ t.kind = "login" => t.fresh \in Cred
  /\ t.pc \in {"present", "stage", "commit"} /\ t.follow
       => t.live # NoCred /\ t.live.account = t.saved.account
  /\ t.pc \in {"stage", "commit"}
       => t.fresh.account = t.saved.account /\ t.fresh.gen > t.saved.gen
  /\ ((t.pc = "write" /\ t.follow) \/ t.pc = "swap") /\ (Refreshes(t) \/ t.kind = "reauth")
       => t.live # NoCred /\ t.live.account = t.fresh.account

Shape(t) == KindFits(t) /\ Named(t) /\ Snapshots(t)

(* What a task may rely on while it keeps the auth transaction, and that    *)
(* what it presented is spent.                                              *)
Renews(t) ==
  LET old == profiles[t.alias] IN
  IF old = NoCred THEN Holders(t.fresh.account) = {}
  ELSE /\ old.account = t.fresh.account
       /\ t.fresh.gen >= old.gen \/ t.kind \in {"login", "reauth"}

Fits(t) ==
  /\ t.pc \in {"stage", "commit"} => t.saved \in spent
  /\ t.pc = "write" => Renews(t)
  /\ t.pc = "write" /\ Refreshes(t) => profiles[t.alias] \in spent
  /\ t.pc \in {"swap", "mark", "unstage"} /\ Refreshes(t) => profiles[t.alias] = t.fresh
  /\ t.pc \in {"copy", "recheck", "unmark", "archive", "move"} => profiles[t.alias] # NoCred
  /\ t.pc = "move" => profiles[t.other] = NoCred
  /\ t.pc = "remark" => profiles[t.other] # NoCred /\ profiles[t.alias] = NoCred

(* A sign-in's credential is nowhere else until it is written: this is why  *)
(* it may replace one that looks newer.                                     *)
Bearing(t) == t.kind \in {"login", "reauth"} /\ Place(t) \in {"plan", "store", "reauth", "write"}

Elsewhere(p, c) ==
  \/ c \in {live, codex} \/ c \in spent
  \/ \E a \in Alias : c = profiles[a]
  \/ \E q \in Proc \ {p} : c \in {tasks[q].saved, tasks[q].fresh}

Private == \A p \in Proc : Bearing(tasks[p]) => ~Elsewhere(p, tasks[p].fresh)

(* Every credential in use was issued: the next one differs from them all.  *)
Old(c) == c # NoCred => c.gen <= issued[c.account]

AllOld ==
  /\ Old(live) /\ Old(codex)
  /\ \A c \in spent : Old(c)
  /\ \A a \in Alias : Old(profiles[a])
  /\ \A p \in Proc : Old(tasks[p].saved) /\ Old(tasks[p].fresh)

TasksFit == \A p \in Proc : Shape(tasks[p]) /\ Fits(tasks[p])

IInv == TypeOK /\ TxnHeld /\ TasksFit /\ Private /\ AllOld

----------------------------------------------------------------------------
(* Steps.  A step of p leaves the other tasks alone, writes profiles only   *)
(* under the transaction, and what it puts anywhere it had, read, or was    *)
(* issued.                                                                  *)

LockStep(p, u) ==
  /\ lease' \in [Alias -> Proc \cup {Nobody}]
  /\ txn' \in Proc \cup {Nobody}
  /\ txn' = txn \/ {txn, txn'} \subseteq {p, Nobody}
  /\ u.pc \in InTxn => txn' = p

HadOrRead(p, c) ==
  \/ c \in {NoCred, live, tasks[p].saved, tasks[p].fresh}
  \/ \E a \in Alias : c = profiles[a]

JustIssued(c) == c \in Cred /\ issued[c.account] < c.gen /\ c.gen <= issued'[c.account]

Found(c) == c \in Cred /\ Old(c) /\ c \notin InMemory

Traceable(p, c) == HadOrRead(p, c) \/ JustIssued(c) \/ Found(c)

StillPrivate(p, u) ==
  Bearing(u) =>
    /\ UNCHANGED <<profiles, live, spent>>
    /\ JustIssued(u.fresh) \/ (Bearing(tasks[p]) /\ u.fresh = tasks[p].fresh)

Turn(p, u) ==
  /\ u \in Task /\ Shape(u) /\ Fits(u)'
  /\ Set(p, u)
  /\ LockStep(p, u)
  /\ profiles' = profiles \/ txn \in {p, Nobody}
  /\ \A a \in Alias : HadOrRead(p, profiles'[a])
  /\ live' \in {live, tasks[p].fresh} /\ codex' = codex
  /\ spent \subseteq spent' /\ spent' \subseteq spent \cup {tasks[p].saved}
  /\ \A x \in Account : issued'[x] >= issued[x]
  /\ Traceable(p, u.saved) /\ Traceable(p, u.fresh)
  /\ StillPrivate(p, u)

----------------------------------------------------------------------------
(* Facts that every proof below uses.                                       *)

LEMMA Constants ==
  /\ IsFiniteSet(Alias) /\ NoAlias \notin Alias
  /\ NoCred \notin Cred
  /\ Nobody \notin Proc
  /\ MaxIssued \in Nat \ {0}
  /\ \A p \in Proc : \A r \in Requests[p] : WellFormed(r)
BY CredentialStoreConstants

LEMMA Creds ==
  ASSUME NEW c \in Cred
  PROVE  c.account \in Account /\ c.gen \in 1..MaxIssued /\ c \in CredOrNone
BY DEF Cred, CredOrNone

LEMMA Names ==
  /\ Entries \subseteq Locations
  /\ {"authorize", "commit", "prepare", "switch", "consent", "activate", "relocate", "autoswitch",
      "adopt", "store", "reauth", "reserve", "refile", "delete", "rename"} \subseteq Locations
  /\ {"idle", "lease", "present", "stage", "write", "swap", "mark", "unstage", "repair", "confirm",
      "locate", "copy", "recheck", "signin", "plan", "bind", "scan", "validate", "install",
      "rescue", "unmark", "archive", "move", "remark"} \subseteq Locations
BY DEF Locations, Entries

LEMMA IdleFits ==
  /\ Idle \in Task
  /\ Shape(Idle) /\ Fits(Idle) /\ Fits(Idle)'
  /\ Idle.kind = "none" /\ Idle.pc = "idle" /\ Idle.pc \notin InTxn /\ ~Bearing(Idle)
  /\ Idle.saved = NoCred /\ Idle.fresh = NoCred
  /\ ~Refreshes(Idle)
<1>1. Idle \in Task
  BY Names DEF Idle, Task, AliasOrNone, CredOrNone
<1>2. /\ Idle.kind = "none" /\ Idle.pc = "idle" /\ Idle.saved = NoCred /\ Idle.fresh = NoCred
  BY DEF Idle
<1>3. Idle.pc \notin InTxn /\ ~Bearing(Idle) /\ ~Refreshes(Idle)
  BY <1>2 DEF InTxn, Bearing, Refreshes
<1>4. Shape(Idle)
  BY <1>2, <1>3 DEF Shape, KindFits, Named, Snapshots, Place, Nameless
<1>5. Fits(Idle) /\ Fits(Idle)'
  BY <1>2, <1>3 DEF Fits
<1> QED
  BY <1>1, <1>2, <1>3, <1>4, <1>5

(* The types of a task's fields.                                            *)
LEMMA TaskTypes ==
  ASSUME NEW t \in Task
  PROVE  /\ t.kind \in Kinds \cup {"none"} /\ t.alias \in AliasOrNone /\ t.other \in AliasOrNone
         /\ t.pc \in Locations /\ t.then \in Locations /\ t.need \in SUBSET Alias
         /\ t.live \in CredOrNone /\ t.saved \in CredOrNone /\ t.fresh \in CredOrNone
         /\ t.agreed \in CredOrNone /\ t.marker \in AliasOrNone
         /\ t.follow \in BOOLEAN /\ t.asked \in BOOLEAN /\ t.ok \in BOOLEAN
BY DEF Task

(* Locks. *)
LEMMA ReturnLocks ==
  ASSUME TypeOK, NEW p \in Proc, Return(p)
  PROVE  Set(p, Idle) /\ LockStep(p, Idle)
<1>1. Set(p, Idle) /\ lease' = Released(p) /\ txn' = IF txn = p THEN Nobody ELSE txn
  BY DEF Return
<1>2. lease' \in [Alias -> Proc \cup {Nobody}]
  BY <1>1 DEF TypeOK, Released
<1> QED
  BY <1>1, <1>2, IdleFits DEF LockStep, TypeOK

LEMMA StayLocks ==
  ASSUME TypeOK, NEW p \in Proc, NEW u, UNCHANGED locks, u.pc \in InTxn => txn = p
  PROVE  LockStep(p, u)
BY DEF LockStep, TypeOK, locks

LEMMA KeepLocks ==
  ASSUME TypeOK, NEW p \in Proc, NEW u, txn = Nobody, Keep(p, u)
  PROVE  Set(p, u) /\ LockStep(p, u)
BY DEF LockStep, TypeOK, Keep

LEMMA AwaitLocks ==
  ASSUME TypeOK, NEW p \in Proc, NEW u, u.pc \notin InTxn, Await(p, u)
  PROVE  Set(p, u) /\ LockStep(p, u)
<1>1. Set(p, u) /\ lease' = Released(p) /\ txn' = txn
  BY DEF Await
<1>2. lease' \in [Alias -> Proc \cup {Nobody}]
  BY <1>1 DEF TypeOK, Released
<1> QED
  BY <1>1, <1>2 DEF LockStep, TypeOK

(* Waiting for leases changes neither the place nor what the task carries.  *)
LEMMA WaitingFits ==
  ASSUME NEW t \in Task, NEW need \in SUBSET Alias, NEW l \in Locations, NEW u,
         u = Waiting(t, need, l)
  PROVE  /\ u \in Task /\ Place(u) = l
         /\ u.pc \in {"lease", l} /\ u.then = l /\ (need = {} => u.pc = l)
         /\ u.kind = t.kind /\ u.alias = t.alias /\ u.other = t.other
         /\ u.live = t.live /\ u.saved = t.saved /\ u.fresh = t.fresh /\ u.follow = t.follow
<1>1. (IF need = {} THEN l ELSE "lease") \in Locations
  BY Names
<1>2. u = [t EXCEPT !.need = need, !.then = l, !.pc = IF need = {} THEN l ELSE "lease"]
  BY DEF Waiting
<1>3. u \in Task
  BY <1>1, <1>2 DEF Task
<1>4. /\ u.pc = (IF need = {} THEN l ELSE "lease") /\ u.then = l
      /\ u.kind = t.kind /\ u.alias = t.alias /\ u.other = t.other
      /\ u.live = t.live /\ u.saved = t.saved /\ u.fresh = t.fresh /\ u.follow = t.follow
  BY <1>2 DEF Task
<1>5. Place(u) = l
  BY <1>4 DEF Place
<1> QED
  BY <1>3, <1>4, <1>5

(* A task's claims outlive the steps of others.                             *)
LEMMA FitsStable ==
  ASSUME NEW t, Fits(t), spent \subseteq spent', t.pc \in InTxn => profiles' = profiles
  PROVE  Fits(t)'
<1>1. t.pc \in {"stage", "commit"} => t.saved \in spent'
  BY DEF Fits
<1>2. CASE t.pc \in InTxn
  <2>1. profiles' = profiles
    BY <1>2
  <2>2. \A x : Holders(x)' = Holders(x)
    BY <2>1 DEF Holders
  <2>3. t.pc = "write" => Renews(t)'
    BY <2>1, <2>2 DEF Renews, Fits
  <2> QED
    BY <1>1, <2>1, <2>3 DEF Fits
<1>3. CASE t.pc \notin InTxn
  BY <1>1, <1>3 DEF Fits, InTxn
<1> QED
  BY <1>2, <1>3

----------------------------------------------------------------------------
(* A step of a process keeps the invariant.                                 *)

LEMMA TurnKeepsTasks ==
  ASSUME IInv, NEW p \in Proc, NEW u, Turn(p, u)
  PROVE  TxnHeld' /\ TasksFit'
<1>1. tasks'[p] = u /\ \A q \in Proc \ {p} : tasks'[q] = tasks[q]
  BY DEF IInv, TypeOK, Turn, Set
<1>2. \A q \in Proc \ {p} : tasks[q].pc \in InTxn => txn = q /\ txn # p /\ txn # Nobody
  BY Constants DEF IInv, TxnHeld
<1>3. \A q \in Proc \ {p} : tasks[q].pc \in InTxn => txn' = txn /\ profiles' = profiles
  BY <1>2 DEF Turn, LockStep
<1>4. TxnHeld'
  BY <1>1, <1>2, <1>3 DEF Turn, LockStep, TxnHeld
<1>5. ASSUME NEW q \in Proc
      PROVE  Shape(tasks'[q]) /\ Fits(tasks[q])'
  <2>1. CASE q = p
    BY <1>1, <2>1 DEF Turn
  <2>2. CASE q # p
    <3>1. PICK t : t = tasks[q]
      OBVIOUS
    <3>2. Shape(t) /\ Fits(t) /\ (t.pc \in InTxn => profiles' = profiles)
      BY <1>3, <2>2, <3>1 DEF IInv, TasksFit
    <3>3. spent \subseteq spent'
      BY DEF Turn
    <3>4. Fits(t)'
      BY <3>2, <3>3, FitsStable
    <3> QED
      BY <1>1, <2>2, <3>1, <3>2, <3>4
  <2> QED
    BY <2>1, <2>2
<1>6. TasksFit'
  BY <1>5 DEF TasksFit
<1> QED
  BY <1>4, <1>6

(* What a step moves around is old, or new and issued by this step.         *)
LEMMA TracedIsOld ==
  ASSUME IInv, NEW p \in Proc, NEW c, Traceable(p, c),
         \A x \in Account : issued'[x] >= issued[x], issued' \in [Account -> 1..MaxIssued],
         c \in CredOrNone
  PROVE  Old(c)'
<1> SUFFICES ASSUME c # NoCred PROVE c.gen <= issued'[c.account]
  BY DEF Old
<1>1. c \in Cred /\ c.account \in Account /\ c.gen \in Nat
  BY DEF CredOrNone, Cred
<1>2. issued[c.account] \in Nat /\ issued'[c.account] \in Nat
      /\ issued[c.account] <= issued'[c.account]
  BY <1>1 DEF IInv, TypeOK
<1>3. CASE JustIssued(c)
  BY <1>3 DEF JustIssued
<1>4. CASE HadOrRead(p, c) \/ Found(c)
  <2>1. Old(c)
    BY <1>4 DEF HadOrRead, Found, IInv, AllOld
  <2> QED
    BY <1>1, <1>2, <2>1 DEF Old
<1> QED
  BY <1>3, <1>4 DEF Traceable

LEMMA TurnKeepsOld ==
  ASSUME IInv, NEW p \in Proc, NEW u, Turn(p, u), TypeOK'
  PROVE  AllOld'
<1>1. tasks'[p] = u /\ \A q \in Proc \ {p} : tasks'[q] = tasks[q]
  BY DEF IInv, TypeOK, Turn, Set
<1>2. \A x \in Account : issued'[x] >= issued[x]
  BY DEF Turn
<1>3. issued' \in [Account -> 1..MaxIssued]
  BY DEF TypeOK
<1>4. \A c \in CredOrNone : Traceable(p, c) => Old(c)'
  BY <1>2, <1>3, TracedIsOld
<1>5. \A c \in CredOrNone : Old(c) => Old(c)'
  <2> SUFFICES ASSUME NEW c \in CredOrNone, Old(c), c # NoCred
               PROVE  c.gen <= issued'[c.account]
    BY DEF Old
  <2>1. c.account \in Account /\ c.gen \in Nat
    BY DEF CredOrNone, Cred
  <2>2. issued[c.account] \in Nat /\ issued'[c.account] \in Nat
        /\ issued[c.account] <= issued'[c.account]
    BY <1>2, <1>3, <2>1 DEF IInv, TypeOK
  <2> QED
    BY <2>1, <2>2 DEF Old
<1>6. Old(live)'
  <2>1. Traceable(p, live') /\ live' \in CredOrNone
    BY DEF Turn, Traceable, HadOrRead, TypeOK
  <2> QED
    BY <1>4, <2>1 DEF Old
<1>7. Old(codex)'
  <2>1. codex' = codex /\ codex \in CredOrNone /\ Old(codex)
    BY DEF Turn, IInv, TypeOK, AllOld
  <2> QED
    BY <1>5, <2>1 DEF Old
<1>8. \A c \in spent' : Old(c)'
  <2> SUFFICES ASSUME NEW c \in spent' PROVE Old(c)'
    OBVIOUS
  <2>1. c \in CredOrNone
    BY DEF TypeOK, CredOrNone
  <2>2. Old(c)
    BY DEF Turn, IInv, AllOld
  <2> QED
    BY <1>5, <2>1, <2>2
<1>9. \A a \in Alias : Old(profiles[a])'
  <2> SUFFICES ASSUME NEW a \in Alias PROVE Old(profiles[a])'
    OBVIOUS
  <2>1. Traceable(p, profiles'[a]) /\ profiles'[a] \in CredOrNone
    BY DEF Turn, Traceable, TypeOK
  <2> QED
    BY <1>4, <2>1 DEF Old
<1>10. \A q \in Proc : Old(tasks[q].saved)' /\ Old(tasks[q].fresh)'
  <2> SUFFICES ASSUME NEW q \in Proc PROVE Old(tasks[q].saved)' /\ Old(tasks[q].fresh)'
    OBVIOUS
  <2>1. CASE q = p
    <3>1. /\ Traceable(p, u.saved) /\ Traceable(p, u.fresh)
          /\ u.saved \in CredOrNone /\ u.fresh \in CredOrNone
      BY TaskTypes DEF Turn
    <3> QED
      BY <1>1, <1>4, <2>1, <3>1 DEF Old
  <2>2. CASE q # p
    <3>1. /\ tasks[q].saved \in CredOrNone /\ tasks[q].fresh \in CredOrNone
          /\ Old(tasks[q].saved) /\ Old(tasks[q].fresh)
      BY TaskTypes DEF IInv, AllOld, TypeOK
    <3> QED
      BY <1>1, <1>5, <2>2, <3>1 DEF Old
  <2> QED
    BY <2>1, <2>2
<1> QED
  BY <1>6, <1>7, <1>8, <1>9, <1>10 DEF AllOld

(* Nothing that p could take up is another's private credential.            *)
LEMMA PrivateIsApart ==
  ASSUME IInv, NEW p \in Proc, NEW q \in Proc \ {p}, Bearing(tasks[q])
  PROVE  ~Traceable(p, tasks[q].fresh) /\ tasks[q].fresh \in Cred
<1>1. PICK t : t = tasks[q]
  OBVIOUS
<1>2. t.fresh \in Cred /\ t.fresh # NoCred
  BY <1>1, Constants DEF IInv, TasksFit, Shape, Snapshots, Bearing, KindFits, Place, Refreshes
<1>3. ~Elsewhere(q, t.fresh) /\ Old(t.fresh)
  BY <1>1 DEF IInv, Private, AllOld
<1>4. ~HadOrRead(p, t.fresh)
  BY <1>2, <1>3 DEF HadOrRead, Elsewhere
<1>5. ~JustIssued(t.fresh)
  <2>1. t.fresh.gen <= issued[t.fresh.account] /\ t.fresh.account \in Account
        /\ t.fresh.gen \in Nat
    BY <1>2, <1>3 DEF Old, Cred
  <2>2. issued[t.fresh.account] \in Nat
    BY <2>1 DEF IInv, TypeOK
  <2> QED
    BY <2>1, <2>2 DEF JustIssued
<1>6. ~Found(t.fresh)
  BY <1>1 DEF Found, InMemory, Bearing
<1> QED
  BY <1>1, <1>2, <1>4, <1>5, <1>6 DEF Traceable

LEMMA TurnKeepsPrivate ==
  ASSUME IInv, NEW p \in Proc, NEW u, Turn(p, u), TypeOK'
  PROVE  Private'
<1>1. tasks'[p] = u /\ \A q \in Proc \ {p} : tasks'[q] = tasks[q]
  BY DEF IInv, TypeOK, Turn, Set
<1> SUFFICES ASSUME NEW q \in Proc, Bearing(tasks'[q]) PROVE ~Elsewhere(q, tasks[q].fresh)'
  BY DEF Private
<1>2. CASE q # p
  <2>1. PICK c : c = tasks[q].fresh
    OBVIOUS
  <2>2. ~Elsewhere(q, c) /\ ~Traceable(p, c)
    BY <1>1, <1>2, <2>1, PrivateIsApart DEF IInv, Private
  <2>3. c # live' /\ c # codex' /\ c \notin spent'
    BY <2>2 DEF Turn, Traceable, HadOrRead, Elsewhere
  <2>4. \A a \in Alias : c # profiles'[a]
    BY <2>2 DEF Turn, Traceable
  <2>5. ASSUME NEW r \in Proc \ {q}
        PROVE  c # tasks'[r].saved /\ c # tasks'[r].fresh
    <3>1. CASE r = p
      BY <1>1, <2>2, <3>1 DEF Turn
    <3>2. CASE r # p
      BY <1>1, <2>2, <3>2 DEF Elsewhere
    <3> QED
      BY <3>1, <3>2
  <2>6. tasks'[q].fresh = c
    BY <1>1, <1>2, <2>1
  <2> QED
    BY <2>3, <2>4, <2>5, <2>6 DEF Elsewhere
<1>3. CASE q = p
  <2>1. Bearing(u)
    BY <1>1, <1>3
  <2>2. /\ profiles' = profiles /\ live' = live /\ spent' = spent /\ codex' = codex
        /\ JustIssued(u.fresh) \/ (Bearing(tasks[p]) /\ u.fresh = tasks[p].fresh)
    BY <2>1 DEF Turn, StillPrivate
  <2>3. ~Elsewhere(p, u.fresh)
    <3>1. CASE Bearing(tasks[p]) /\ u.fresh = tasks[p].fresh
      BY <3>1 DEF IInv, Private
    <3>2. CASE JustIssued(u.fresh)
      <4>1. u.fresh \in Cred /\ u.fresh # NoCred /\ ~Old(u.fresh)
        <5>1. u.fresh \in Cred /\ u.fresh.account \in Account /\ u.fresh.gen \in Nat
          BY <3>2 DEF JustIssued, Cred
        <5>2. issued[u.fresh.account] \in Nat /\ issued[u.fresh.account] < u.fresh.gen
          BY <3>2, <5>1 DEF JustIssued, IInv, TypeOK
        <5> QED
          BY <5>1, <5>2, Constants DEF Old
      <4> QED
        BY <4>1 DEF Elsewhere, IInv, AllOld
    <3> QED
      BY <2>2, <3>1, <3>2
  <2>4. PICK c : c = u.fresh
    OBVIOUS
  <2>5. \A r \in Proc \ {p} : tasks'[r] = tasks[r]
    BY <1>1
  <2>6. ~Elsewhere(p, c)'
    BY <2>2, <2>3, <2>4, <2>5 DEF Elsewhere
  <2> QED
    BY <1>1, <1>3, <2>4, <2>6 DEF Elsewhere
<1> QED
  BY <1>2, <1>3

LEMMA TurnKeeps ==
  ASSUME IInv, NEW p \in Proc, NEW u, Turn(p, u), TypeOK'
  PROVE  IInv'
BY TurnKeepsTasks, TurnKeepsOld, TurnKeepsPrivate DEF IInv

(* A step that changes neither profiles, live nor the server: locks, local  *)
(* variables, perhaps the marker.                                           *)
QuietTurn(p, u) ==
  /\ u \in Task /\ Shape(u) /\ Fits(u)
  /\ Set(p, u) /\ LockStep(p, u)
  /\ marker' \in AliasOrNone
  /\ used' \in [ops : Nat, moves : Nat, crashes : Nat]
  /\ UNCHANGED <<registry, live, backups, outside>>
  /\ Traceable(p, u.saved) /\ Traceable(p, u.fresh)
  /\ Bearing(u) => Bearing(tasks[p]) /\ u.fresh = tasks[p].fresh

LEMMA QuietKeeps ==
  ASSUME IInv, NEW p \in Proc, NEW u, QuietTurn(p, u)
  PROVE  IInv'
<1>1. /\ profiles' = profiles /\ stages' = stages /\ archive' = archive /\ live' = live
      /\ backups' = backups /\ codex' = codex /\ spent' = spent /\ issued' = issued
  BY DEF QuietTurn, registry, outside
<1>2. tasks' \in [Proc -> Task]
  BY DEF QuietTurn, Set, IInv, TypeOK
<1>3. TypeOK'
  BY <1>1, <1>2 DEF QuietTurn, LockStep, IInv, TypeOK
<1>4. Fits(u)'
  BY <1>1, FitsStable DEF QuietTurn
<1>5. \A a \in Alias : HadOrRead(p, profiles'[a])
  BY <1>1 DEF HadOrRead
<1>6. \A x \in Account : issued'[x] >= issued[x]
  BY <1>1 DEF IInv, TypeOK
<1>7. StillPrivate(p, u)
  BY <1>1 DEF StillPrivate, QuietTurn
<1>8. Turn(p, u)
  BY <1>1, <1>4, <1>5, <1>6, <1>7 DEF Turn, QuietTurn
<1> QED
  BY <1>3, <1>8, TurnKeeps

(* The end of an operation.                                                 *)
LEMMA QuietReturn ==
  ASSUME IInv, NEW p \in Proc, Return(p), UNCHANGED <<registry, live, backups, outside>>,
         marker' \in AliasOrNone, used' \in [ops : Nat, moves : Nat, crashes : Nat]
  PROVE  QuietTurn(p, Idle)
<1>1. Set(p, Idle) /\ LockStep(p, Idle)
  BY ReturnLocks DEF IInv
<1>2. Traceable(p, Idle.saved) /\ Traceable(p, Idle.fresh)
  BY IdleFits DEF Traceable, HadOrRead
<1> QED
  BY <1>1, <1>2, IdleFits DEF QuietTurn

(* What a task carries to its next step.                                    *)
LEMMA OwnFacts ==
  ASSUME IInv, NEW p \in Proc, NEW t, t = tasks[p]
  PROVE  /\ t \in Task /\ Shape(t) /\ Fits(t)
         /\ t.pc \in InTxn => txn = p
         /\ Traceable(p, t.saved) /\ Traceable(p, t.fresh)
         /\ Traceable(p, live) /\ Traceable(p, NoCred)
         /\ \A a \in Alias : Traceable(p, profiles[a]) /\ profiles[a] \in CredOrNone
         /\ live \in CredOrNone /\ marker \in AliasOrNone
         /\ used \in [ops : Nat, moves : Nat, crashes : Nat]
BY DEF IInv, TypeOK, TxnHeld, TasksFit, Traceable, HadOrRead

(* A step that changes nothing but local variables and locks.               *)
LEMMA LocalTurn ==
  ASSUME IInv, NEW p \in Proc, NEW u \in Task, Shape(u), Fits(u), Set(p, u), LockStep(p, u),
         UNCHANGED <<disk, outside, used>>,
         Traceable(p, u.saved), Traceable(p, u.fresh),
         Bearing(u) => Bearing(tasks[p]) /\ u.fresh = tasks[p].fresh
  PROVE  QuietTurn(p, u)
<1>1. used \in [ops : Nat, moves : Nat, crashes : Nat] /\ marker \in AliasOrNone
  BY DEF IInv, TypeOK
<1> QED
  BY <1>1 DEF QuietTurn, disk, registry, outside

LEMMA LocalReturn ==
  ASSUME IInv, NEW p \in Proc, Return(p), UNCHANGED <<disk, outside, used>>
  PROVE  QuietTurn(p, Idle)
<1>1. used' \in [ops : Nat, moves : Nat, crashes : Nat] /\ marker' \in AliasOrNone
      /\ UNCHANGED <<registry, live, backups, outside>>
  BY DEF IInv, TypeOK, disk, registry, outside
<1> QED
  BY <1>1, QuietReturn

----------------------------------------------------------------------------
(* Operations start, take leases, give up and die.                          *)

Quiet(p) == \E u : QuietTurn(p, u)

LEMMA Entry ==
  ASSUME NEW k \in Kinds, NEW e, e = FirstEntry[k]
  PROVE  \/ k = "refresh" /\ e = "authorize"
         \/ k \in {"use", "revive"} /\ e = "prepare"
         \/ k \in {"auto", "mark"} /\ e = "locate"
         \/ k \in {"sync", "readback"} /\ e = "adopt"
         \/ k = "save" /\ e = "plan"
         \/ k = "login" /\ e = "signin"
         \/ k = "reauth" /\ e = "bind"
         \/ k = "import" /\ e = "scan"
         \/ k = "delete" /\ e = "delete"
         \/ k = "rename" /\ e = "rename"
<1>1. k \in {"refresh", "use", "revive", "auto", "mark", "sync", "readback", "save", "login",
             "reauth", "import", "delete", "rename"}
  BY DEF Kinds
<1>2. /\ FirstEntry["refresh"] = "authorize" /\ FirstEntry["use"] = "prepare"
      /\ FirstEntry["revive"] = "prepare" /\ FirstEntry["auto"] = "locate"
      /\ FirstEntry["mark"] = "locate" /\ FirstEntry["sync"] = "adopt"
      /\ FirstEntry["readback"] = "adopt" /\ FirstEntry["save"] = "plan"
      /\ FirstEntry["login"] = "signin" /\ FirstEntry["reauth"] = "bind"
      /\ FirstEntry["import"] = "scan" /\ FirstEntry["delete"] = "delete"
      /\ FirstEntry["rename"] = "rename"
  BY DEF FirstEntry
<1> QED
  BY <1>1, <1>2

LEMMA BeginQuiet ==
  ASSUME IInv, NEW p \in Proc, NEW r \in Requests[p], Begin(p, r)
  PROVE  Quiet(p)
<1>1. /\ r.kind \in Kinds /\ r.alias \in AliasOrNone /\ r.other \in AliasOrNone
      /\ r.alias \notin Alias => r.kind \in {"auto", "mark", "save", "login", "import"}
      /\ r.kind \in {"auto", "rename"} => r.other \in Alias
  BY Constants DEF WellFormed, AliasOrNone
<1>2. PICK e : e = FirstEntry[r.kind]
  OBVIOUS
<1>3. \/ r.kind = "refresh" /\ e = "authorize"
      \/ r.kind \in {"use", "revive"} /\ e = "prepare"
      \/ r.kind \in {"auto", "mark"} /\ e = "locate"
      \/ r.kind \in {"sync", "readback"} /\ e = "adopt"
      \/ r.kind = "save" /\ e = "plan"
      \/ r.kind = "login" /\ e = "signin"
      \/ r.kind = "reauth" /\ e = "bind"
      \/ r.kind = "import" /\ e = "scan"
      \/ r.kind = "delete" /\ e = "delete"
      \/ r.kind = "rename" /\ e = "rename"
  BY <1>1, <1>2, Entry
<1>4. PICK s : s = [Idle EXCEPT !.kind = r.kind, !.alias = r.alias, !.other = r.other]
  OBVIOUS
<1>5. /\ s \in Task /\ s.kind = r.kind /\ s.alias = r.alias /\ s.other = r.other
      /\ s.saved = NoCred /\ s.fresh = NoCred
  BY <1>1, <1>4, IdleFits DEF Task
<1>6. /\ FirstLeases(r) \in SUBSET Alias
      /\ r.kind \in {"auto", "mark", "save", "login", "import"} => FirstLeases(r) = {}
  BY <1>1 DEF FirstLeases
<1>7. e \in Locations
  BY <1>3, Names
<1>8. PICK u : u = Waiting(s, FirstLeases(r), e)
  OBVIOUS
<1>9. /\ u \in Task /\ Place(u) = e /\ u.pc \in {"lease", e}
      /\ u.kind = r.kind /\ u.alias = r.alias /\ u.other = r.other
      /\ u.saved = NoCred /\ u.fresh = NoCred /\ u.then = e
      /\ FirstLeases(r) = {} => u.pc = e
  BY <1>5, <1>6, <1>7, <1>8, WaitingFits
<1>10. Shape(u)
  <2>1. KindFits(u)
    <3>1. u.pc = "lease" => e \in {"authorize", "prepare", "adopt", "bind", "delete", "rename"}
      BY <1>3, <1>6, <1>9
    <3> QED
      BY <1>3, <1>9, <3>1 DEF KindFits, Refreshes
  <2>2. Named(u)
    BY <1>1, <1>3, <1>9 DEF Named, Nameless
  <2>3. Snapshots(u)
    BY <1>3, <1>9 DEF Snapshots
  <2> QED
    BY <2>1, <2>2, <2>3 DEF Shape
<1>11. u.pc \notin InTxn /\ u.pc \notin {"stage", "commit"}
  BY <1>3, <1>9 DEF InTxn
<1>12. Fits(u)
  BY <1>11 DEF Fits, InTxn
<1>13. ~Bearing(u)
  BY <1>3, <1>9 DEF Bearing
<1>14. Set(p, u) /\ UNCHANGED <<disk, locks, outside>>
       /\ used' = [used EXCEPT !.ops = @ + 1]
  BY <1>2, <1>4, <1>8 DEF Begin
<1>15. LockStep(p, u)
  BY <1>11, <1>14, StayLocks DEF IInv
<1>16. used' \in [ops : Nat, moves : Nat, crashes : Nat]
  BY <1>14 DEF IInv, TypeOK
<1>17. Traceable(p, u.saved) /\ Traceable(p, u.fresh)
  BY <1>9 DEF Traceable, HadOrRead
<1>18. marker' \in AliasOrNone /\ UNCHANGED <<registry, live, backups, outside>>
  BY <1>14 DEF disk, registry, outside, IInv, TypeOK
<1> QED
  BY <1>9, <1>10, <1>12, <1>13, <1>14, <1>15, <1>16, <1>17, <1>18 DEF Quiet, QuietTurn

(* Waiting for a further lease leaves the place, and so all claims, alone.  *)
LEMMA TakeLeaseQuiet ==
  ASSUME IInv, NEW p \in Proc, TakeLease(p)
  PROVE  Quiet(p)
<1>1. PICK t : t = tasks[p]
  OBVIOUS
<1>2. PICK a : /\ a = Sorted(t) /\ lease[a] = Nobody
               /\ lease' = [lease EXCEPT ![a] = p]
               /\ Set(p, Waiting(t, t.need \ {a}, t.then))
  BY <1>1 DEF TakeLease
<1>3. PICK u : u = Waiting(t, t.need \ {a}, t.then)
  OBVIOUS
<1>4. t.pc = "lease" /\ UNCHANGED <<disk, txn, outside, used>>
  BY <1>1 DEF TakeLease, At
<1>5. t \in Task /\ Shape(t) /\ Fits(t) /\ Traceable(p, t.saved) /\ Traceable(p, t.fresh)
  BY <1>1, OwnFacts
<1>6. /\ u \in Task /\ Place(u) = t.then /\ u.then = t.then /\ u.pc \in {"lease", t.then}
      /\ u.kind = t.kind /\ u.alias = t.alias /\ u.other = t.other
      /\ u.live = t.live /\ u.saved = t.saved /\ u.fresh = t.fresh /\ u.follow = t.follow
  BY <1>3, <1>5, TaskTypes, WaitingFits
<1>7. /\ Place(t) = t.then
      /\ t.then \in {"authorize", "prepare", "switch", "consent", "relocate", "autoswitch",
                    "adopt", "store", "bind", "reauth", "reserve", "delete", "rename"}
  BY <1>4, <1>5 DEF Place, Shape, KindFits
<1>8. Shape(u)
  <2>1. Refreshes(u) <=> Refreshes(t)
    BY <1>6 DEF Refreshes
  <2>2. KindFits(u)
    BY <1>5, <1>6, <1>7, <2>1 DEF Shape, KindFits
  <2>3. Named(u)
    BY <1>5, <1>6, <1>7 DEF Shape, Named
  <2>4. Snapshots(u)
    BY <1>5, <1>6, <1>7 DEF Shape, Snapshots
  <2> QED
    BY <2>2, <2>3, <2>4 DEF Shape
<1>9. u.pc \notin InTxn /\ u.pc \notin {"stage", "commit"}
  BY <1>6, <1>7 DEF InTxn
<1>10. Fits(u)
  BY <1>9 DEF Fits, InTxn
<1>11. Bearing(u) => Bearing(t)
  BY <1>6, <1>7 DEF Bearing
<1>12. LockStep(p, u)
  BY <1>2, <1>4, <1>9 DEF LockStep, IInv, TypeOK
<1>13. UNCHANGED <<disk, outside, used>>
  BY <1>4
<1> QED
  BY <1>1, <1>2, <1>3, <1>5, <1>6, <1>8, <1>10, <1>11, <1>12, <1>13, LocalTurn DEF Quiet

(* Giving up a lock, and dying, end the operation.                          *)
LEMMA EndingQuiet ==
  ASSUME IInv, NEW p \in Proc, GiveUp(p) \/ Crash(p)
  PROVE  Quiet(p)
<1>1. CASE GiveUp(p)
  BY <1>1, LocalReturn DEF GiveUp, Quiet
<1>2. CASE Crash(p)
  <2>1. /\ Return(p) /\ UNCHANGED <<disk, outside>>
        /\ used' = [used EXCEPT !.crashes = @ + 1]
    BY <1>2 DEF Crash
  <2>2. /\ used' \in [ops : Nat, moves : Nat, crashes : Nat] /\ marker' \in AliasOrNone
        /\ UNCHANGED <<registry, live, backups, outside>>
    BY <2>1 DEF IInv, TypeOK, disk, registry, outside
  <2> QED
    BY <2>1, <2>2, QuietReturn DEF Quiet
<1> QED
  BY <1>1, <1>2

----------------------------------------------------------------------------
(* Steps that read the store and decide.                                    *)

LEMMA LocalPlain ==
  ASSUME IInv, NEW p \in Proc, NEW u \in Task, Shape(u), Set(p, u), LockStep(p, u),
         UNCHANGED <<disk, outside, used>>, u.pc \notin InTxn, u.pc \notin {"stage", "commit"},
         Traceable(p, u.saved), Traceable(p, u.fresh), ~Bearing(u)
  PROVE  Quiet(p)
<1>1. Fits(u)
  BY DEF Fits, InTxn
<1> QED
  BY <1>1, LocalTurn DEF Quiet

LEMMA LocalUnlocked ==
  ASSUME IInv, NEW p \in Proc, NEW u \in Task, Shape(u), Set(p, u),
         UNCHANGED <<disk, locks, outside, used>>,
         u.pc \notin InTxn, u.pc \notin {"stage", "commit"},
         Traceable(p, u.saved), Traceable(p, u.fresh), ~Bearing(u)
  PROVE  Quiet(p)
<1>1. LockStep(p, u)
  BY StayLocks DEF IInv
<1> QED
  BY <1>1, LocalPlain

(* A profile that live belongs to has its account.                          *)
LEMMA BelongsToAccount ==
  ASSUME NEW a, NEW c, Belongs(a, c)
  PROVE  c # NoCred /\ profiles[a] # NoCred /\ profiles[a].account = c.account
BY DEF Belongs, Bound, Exact, MarkerNames, Holders

LEMMA BelongsIsBoolean ==
  ASSUME NEW a, NEW c
  PROVE  Belongs(a, c) \in BOOLEAN
BY DEF Belongs

(* Refreshing a profile.                                                    *)
LEMMA AuthorizeQuiet ==
  ASSUME IInv, NEW p \in Proc, Authorize(p)
  PROVE  Quiet(p)
<1>1. PICK t : t = tasks[p]
  OBVIOUS
<1>2. t \in Task /\ Shape(t) /\ t.pc = "authorize"
  BY <1>1, OwnFacts DEF Authorize, Look, At
<1>3. t.alias \in Alias /\ Refreshes(t)
  BY <1>2 DEF Shape, KindFits, Named, Place, Nameless
<1>4. UNCHANGED <<disk, outside, used>>
  BY DEF Authorize
<1>5. CASE Return(p)
  BY <1>4, <1>5, LocalReturn DEF Quiet
<1>6. CASE ~Return(p)
  <2>1. PICK f : f = Belongs(t.alias, live)
    OBVIOUS
  <2>2. PICK c : c = profiles[t.alias]
    OBVIOUS
  <2>3. /\ f \in BOOLEAN /\ c # NoCred
        /\ f => live # NoCred /\ live.account = c.account
    BY <1>1, <1>6, <2>1, <2>2, BelongsIsBoolean, BelongsToAccount DEF Authorize
  <2>4. c \in Cred /\ live \in CredOrNone /\ marker \in AliasOrNone
        /\ Traceable(p, c) /\ Traceable(p, t.fresh)
    BY <1>1, <1>3, <2>2, <2>3, OwnFacts DEF CredOrNone
  <2>5. PICK u : u = [t EXCEPT !.pc = "present", !.saved = c, !.live = live,
                               !.marker = marker, !.follow = f]
    OBVIOUS
  <2>6. Set(p, u) /\ UNCHANGED locks
    BY <1>1, <1>6, <2>1, <2>2, <2>5 DEF Authorize
  <2>7. u \in Task
    BY <1>2, <2>3, <2>4, <2>5, Names, Creds DEF Task
  <2>8. /\ u.pc = "present" /\ u.kind = t.kind /\ u.alias = t.alias /\ u.other = t.other
        /\ u.then = t.then /\ u.saved = c /\ u.fresh = t.fresh /\ u.live = live
        /\ u.follow = f
    BY <1>2, <2>5 DEF Task
  <2>9. Shape(u)
    <3>1. Refreshes(u)
      BY <1>3, <2>8 DEF Refreshes
    <3>2. KindFits(u)
      BY <2>8, <3>1 DEF KindFits, Place
    <3>3. Named(u)
      BY <1>2, <1>3, <2>8 DEF Shape, Named, Place
    <3>4. Snapshots(u)
      BY <2>3, <2>4, <2>8 DEF Snapshots, Place
    <3> QED
      BY <3>2, <3>3, <3>4 DEF Shape
  <2>10. u.pc \notin InTxn /\ u.pc \notin {"stage", "commit"} /\ ~Bearing(u)
    BY <2>8 DEF InTxn, Bearing, Place
  <2> QED
    BY <1>4, <2>4, <2>6, <2>7, <2>8, <2>9, <2>10, LocalUnlocked
<1> QED
  BY <1>5, <1>6

LEMMA CommitQuiet ==
  ASSUME IInv, NEW p \in Proc, Commit(p)
  PROVE  Quiet(p)
<1>1. PICK t : t = tasks[p]
  OBVIOUS
<1>2. /\ t \in Task /\ Shape(t) /\ Fits(t) /\ t.pc = "commit" /\ txn = Nobody
      /\ Traceable(p, t.saved) /\ Traceable(p, t.fresh)
  BY <1>1, OwnFacts DEF Commit, Look, At
<1>3. /\ t.alias \in Alias /\ Refreshes(t) /\ t.saved \in Cred /\ t.fresh \in Cred
      /\ t.fresh.account = t.saved.account /\ t.fresh.gen > t.saved.gen
      /\ t.follow => t.live # NoCred /\ t.live.account = t.saved.account
      /\ t.saved \in spent /\ t.follow \in BOOLEAN
  BY <1>2, TaskTypes DEF Shape, KindFits, Named, Place, Nameless, Snapshots, Fits
<1>4. UNCHANGED <<disk, outside, used>>
  BY DEF Commit
<1>5. CASE Return(p)
  BY <1>4, <1>5, LocalReturn DEF Quiet
<1>6. CASE ~Return(p)
  <2>1. profiles[t.alias] = t.saved
    BY <1>1, <1>6 DEF Commit
  <2>2. PICK u : u = FollowPlan(t)
    OBVIOUS
  <2>3. Keep(p, u)
    BY <1>1, <1>6, <2>2 DEF Commit
  <2>4. Set(p, u) /\ LockStep(p, u)
    BY <1>2, <2>3, KeepLocks DEF IInv
  <2>5. /\ u \in Task
        /\ u.pc = "write" /\ u.kind = t.kind /\ u.alias = t.alias /\ u.other = t.other
        /\ u.then = t.then /\ u.saved = t.saved /\ u.fresh = t.fresh
        /\ u.follow => u.live # NoCred /\ u.live.account = t.saved.account
    <3>1. CASE t.follow /\ marker = t.marker
      <4>1. u = [t EXCEPT !.pc = "write"]
        BY <2>2, <3>1 DEF FollowPlan
      <4>2. u \in Task
        BY <1>2, <4>1, Names DEF Task
      <4>3. /\ u.pc = "write" /\ u.kind = t.kind /\ u.alias = t.alias /\ u.other = t.other
            /\ u.then = t.then /\ u.saved = t.saved /\ u.fresh = t.fresh
            /\ u.follow = t.follow /\ u.live = t.live
        BY <1>2, <4>1 DEF Task
      <4> QED
        BY <1>3, <4>2, <4>3
    <3>2. CASE ~(t.follow /\ marker = t.marker)
      <4>1. PICK f : f = (marker = t.alias /\ live = profiles[t.alias])
        OBVIOUS
      <4>2. PICK k : k = (marker # t.alias \/ live = profiles[t.alias])
        OBVIOUS
      <4>3. u = [t EXCEPT !.pc = "write", !.live = live, !.follow = f, !.ok = k]
        BY <2>2, <3>2, <4>1, <4>2 DEF FollowPlan
      <4>4. f \in BOOLEAN /\ k \in BOOLEAN /\ live \in CredOrNone /\ (f => live = t.saved)
        BY <1>1, <2>1, <4>1, <4>2, OwnFacts
      <4>5. u \in Task
        BY <1>2, <4>3, <4>4, Names DEF Task
      <4>6. /\ u.pc = "write" /\ u.kind = t.kind /\ u.alias = t.alias /\ u.other = t.other
            /\ u.then = t.then /\ u.saved = t.saved /\ u.fresh = t.fresh
            /\ u.follow = f /\ u.live = live
        BY <1>2, <4>3 DEF Task
      <4> QED
        BY <1>3, <4>4, <4>5, <4>6, Constants
    <3> QED
      BY <3>1, <3>2
  <2>6. Refreshes(u) /\ ~Bearing(u)
    BY <1>3, <2>5 DEF Refreshes, Bearing
  <2>7. Shape(u)
    <3>1. KindFits(u)
      BY <2>5, <2>6 DEF KindFits, Place
    <3>2. Named(u)
      BY <1>2, <1>3, <2>5 DEF Shape, Named, Place
    <3>3. Snapshots(u)
      BY <1>3, <2>5 DEF Snapshots, Place
    <3> QED
      BY <3>1, <3>2, <3>3 DEF Shape
  <2>8. Fits(u)
    <3>1. Renews(u)
      <4>1. t.fresh.gen \in Nat /\ t.saved.gen \in Nat /\ t.saved # NoCred
        BY <1>3, Constants DEF Cred
      <4> QED
        BY <1>3, <2>1, <2>5, <4>1 DEF Renews
    <3> QED
      BY <1>3, <2>1, <2>5, <3>1 DEF Fits
  <2> QED
    BY <1>2, <1>4, <2>4, <2>5, <2>6, <2>7, <2>8, LocalTurn DEF Quiet
<1> QED
  BY <1>5, <1>6

(* Switching: a decision, the user's answer, and the look before the swap.  *)
LEMMA PrepareQuiet ==
  ASSUME IInv, NEW p \in Proc, Prepare(p)
  PROVE  Quiet(p)
<1>1. PICK t : t = tasks[p]
  OBVIOUS
<1>2. t \in Task /\ Shape(t) /\ t.pc = "prepare" /\ Traceable(p, t.fresh)
  BY <1>1, OwnFacts DEF Prepare, Look, At
<1>3. t.alias \in Alias /\ t.kind \in {"use", "revive"}
  BY <1>2 DEF Shape, KindFits, Named, Place, Nameless
<1>4. UNCHANGED <<disk, outside, used>>
  BY DEF Prepare
<1>5. CASE Return(p)
  BY <1>4, <1>5, LocalReturn DEF Quiet
<1>6. CASE ~Return(p)
  <2>1. PICK c : c = profiles[t.alias]
    OBVIOUS
  <2>2. PICK g : g = IF t.kind = "revive" THEN live ELSE NoCred
    OBVIOUS
  <2>3. PICK k : k = RequiresConfirmation(live)
    OBVIOUS
  <2>4. k \in BOOLEAN
    BY <2>3 DEF RequiresConfirmation
  <2>5. c # NoCred
    BY <1>1, <1>6, <2>1 DEF Prepare
  <2>6. c \in Cred /\ live \in CredOrNone /\ g \in CredOrNone /\ Traceable(p, c)
    BY <1>1, <1>3, <2>1, <2>2, <2>5, OwnFacts DEF CredOrNone
  <2>7. PICK u : u = [t EXCEPT !.pc = "confirm", !.saved = c, !.live = live, !.agreed = g,
                               !.asked = k]
    OBVIOUS
  <2>8. Await(p, u)
    BY <1>1, <1>6, <2>1, <2>2, <2>3, <2>7 DEF Prepare
  <2>9. u \in Task
    BY <1>2, <2>4, <2>6, <2>7, Names, Creds DEF Task
  <2>10. /\ u.pc = "confirm" /\ u.kind = t.kind /\ u.alias = t.alias /\ u.other = t.other
         /\ u.saved = c /\ u.fresh = t.fresh
    BY <1>2, <2>7 DEF Task
  <2>11. Shape(u)
    <3>1. KindFits(u)
      BY <1>3, <2>10 DEF KindFits, Place
    <3>2. Named(u)
      BY <1>2, <1>3, <2>10 DEF Shape, Named, Place
    <3>3. Snapshots(u)
      BY <2>6, <2>10 DEF Snapshots, Place
    <3> QED
      BY <3>1, <3>2, <3>3 DEF Shape
  <2>12. u.pc \notin InTxn /\ u.pc \notin {"stage", "commit"} /\ ~Bearing(u)
    BY <2>10 DEF InTxn, Bearing, Place
  <2>13. Set(p, u) /\ LockStep(p, u)
    BY <2>8, <2>12, AwaitLocks DEF IInv
  <2> QED
    BY <1>2, <1>4, <2>6, <2>9, <2>10, <2>11, <2>12, <2>13, LocalPlain
<1> QED
  BY <1>5, <1>6

LEMMA ConfirmQuiet ==
  ASSUME IInv, NEW p \in Proc, Proceed(p) \/ Answer(p)
  PROVE  Quiet(p)
<1>1. PICK t : t = tasks[p]
  OBVIOUS
<1>2. t \in Task /\ Shape(t) /\ t.pc = "confirm" /\ Traceable(p, t.saved) /\ Traceable(p, t.fresh)
  BY <1>1, OwnFacts DEF Proceed, Answer, At
<1>3. t.alias \in Alias /\ t.kind \in {"use", "revive"} /\ t.saved \in Cred
  BY <1>2 DEF Shape, KindFits, Named, Snapshots, Place, Nameless
<1>4. UNCHANGED <<disk, outside, used>>
  BY DEF Proceed, Answer
<1>5. CASE Return(p)
  BY <1>4, <1>5, LocalReturn DEF Quiet
<1>6. CASE ~Return(p)
  <2>1. PICK l : l = IF t.kind = "revive" THEN "consent" ELSE "switch"
    OBVIOUS
  <2>2. PICK u : u = Waiting(t, {t.alias}, l)
    OBVIOUS
  <2>3. Set(p, u) /\ UNCHANGED locks
    BY <1>1, <1>6, <2>1, <2>2 DEF Proceed, Answer, Confirms
  <2>4. l \in Locations /\ l \in {"consent", "switch"}
    BY <2>1, Names
  <2>5. /\ u \in Task /\ Place(u) = l /\ u.pc \in {"lease", l} /\ u.then = l
        /\ u.kind = t.kind /\ u.alias = t.alias /\ u.other = t.other
        /\ u.saved = t.saved /\ u.fresh = t.fresh
    BY <1>2, <1>3, <2>2, <2>4, WaitingFits
  <2>6. Shape(u)
    <3>1. KindFits(u)
      BY <1>3, <2>1, <2>5 DEF KindFits
    <3>2. Named(u)
      BY <1>2, <1>3, <2>4, <2>5 DEF Shape, Named
    <3>3. Snapshots(u)
      BY <1>3, <2>4, <2>5 DEF Snapshots
    <3> QED
      BY <3>1, <3>2, <3>3 DEF Shape
  <2>7. u.pc \notin InTxn /\ u.pc \notin {"stage", "commit"} /\ ~Bearing(u)
    BY <2>4, <2>5 DEF InTxn, Bearing
  <2> QED
    BY <1>2, <1>4, <2>3, <2>5, <2>6, <2>7, LocalUnlocked
<1> QED
  BY <1>5, <1>6

(* The last look before live is replaced, for one who may replace it.       *)
LEMMA ToSwap ==
  ASSUME IInv, NEW p \in Proc, NEW t \in Task, t = tasks[p], Shape(t), txn = Nobody,
         NEW u \in Task, Keep(p, u), UNCHANGED <<disk, outside, used>>,
         u.pc = "swap", u.kind = t.kind, t.kind \in {"use", "revive", "auto"},
         u.alias \in Alias, u.kind = "auto" => u.other \in Alias, u.kind = "revive" => u.then = "idle",
         u.fresh \in Cred, Traceable(p, u.saved), Traceable(p, u.fresh)
  PROVE  Quiet(p)
<1>1. ~Refreshes(u) /\ ~Bearing(u) /\ Place(u) = "swap"
  BY DEF Refreshes, Bearing, Place
<1>2. Shape(u)
  BY <1>1 DEF Shape, KindFits, Named, Snapshots, Place, Nameless
<1>3. Fits(u)
  BY <1>1 DEF Fits
<1>4. Set(p, u) /\ LockStep(p, u)
  BY KeepLocks DEF IInv
<1> QED
  BY <1>1, <1>2, <1>3, <1>4, LocalTurn DEF Quiet

LEMMA SwitchQuiet ==
  ASSUME IInv, NEW p \in Proc, Switch(p)
  PROVE  Quiet(p)
<1>1. PICK t : t = tasks[p]
  OBVIOUS
<1>2. t \in Task /\ Shape(t) /\ t.pc = "switch" /\ Traceable(p, t.saved) /\ txn = Nobody
  BY <1>1, OwnFacts DEF Switch, Look, At
<1>3. t.alias \in Alias /\ t.kind = "use" /\ t.saved \in Cred
  BY <1>2 DEF Shape, KindFits, Named, Snapshots, Place, Nameless
<1>4. UNCHANGED <<disk, outside, used>>
  BY DEF Switch
<1>5. CASE Return(p)
  BY <1>4, <1>5, LocalReturn DEF Quiet
<1>6. CASE ~Return(p)
  <2>1. PICK u : u = [t EXCEPT !.pc = "swap", !.fresh = t.saved]
    OBVIOUS
  <2>2. Keep(p, u)
    BY <1>1, <1>6, <2>1 DEF Switch
  <2>3. u \in Task
    BY <1>2, <1>3, <2>1, Names, Creds DEF Task
  <2>4. /\ u.pc = "swap" /\ u.kind = t.kind /\ u.alias = t.alias
        /\ u.saved = t.saved /\ u.fresh = t.saved
    BY <1>2, <2>1 DEF Task
  <2> QED
    BY <1>1, <1>2, <1>3, <1>4, <2>2, <2>3, <2>4, ToSwap
<1> QED
  BY <1>5, <1>6

LEMMA ConsentQuiet ==
  ASSUME IInv, NEW p \in Proc, Consent(p)
  PROVE  Quiet(p)
<1>1. PICK t : t = tasks[p]
  OBVIOUS
<1>2. /\ t \in Task /\ Shape(t) /\ t.pc = "consent"
      /\ Traceable(p, t.saved) /\ Traceable(p, t.fresh)
  BY <1>1, OwnFacts DEF Consent, Look, At
<1>3. t.alias \in Alias /\ t.kind = "revive"
  BY <1>2 DEF Shape, KindFits, Named, Snapshots, Place, Nameless
<1>4. UNCHANGED <<disk, outside, used>>
  BY DEF Consent
<1>5. CASE Return(p)
  BY <1>4, <1>5, LocalReturn DEF Quiet
<1>6. CASE ~Return(p)
  <2>1. PICK l \in {"authorize", "activate"} : Set(p, [t EXCEPT !.pc = l, !.then = "activate"])
    BY <1>1, <1>6 DEF Consent
  <2>2. PICK u : u = [t EXCEPT !.pc = l, !.then = "activate"]
    OBVIOUS
  <2>3. Set(p, u) /\ UNCHANGED locks
    BY <1>1, <1>6, <2>1, <2>2 DEF Consent
  <2>4. u \in Task
    BY <1>2, <2>1, <2>2, Names DEF Task
  <2>5. /\ u.pc = l /\ u.kind = "revive" /\ u.alias = t.alias /\ u.other = t.other
        /\ u.saved = t.saved /\ u.fresh = t.fresh /\ u.then = "activate"
    BY <1>2, <1>3, <2>2 DEF Task
  <2>6. Shape(u)
    <3>1. Refreshes(u) /\ Place(u) = l
      BY <2>1, <2>5 DEF Refreshes, Place
    <3>2. KindFits(u)
      BY <2>1, <2>5, <3>1 DEF KindFits
    <3>3. Named(u)
      BY <1>3, <2>1, <2>5, <3>1 DEF Named
    <3>4. Snapshots(u)
      BY <2>1, <2>5, <3>1 DEF Snapshots
    <3> QED
      BY <3>2, <3>3, <3>4 DEF Shape
  <2>7. u.pc \notin InTxn /\ u.pc \notin {"stage", "commit"} /\ ~Bearing(u)
    BY <2>1, <2>5 DEF InTxn, Bearing
  <2> QED
    BY <1>2, <1>4, <2>3, <2>4, <2>5, <2>6, <2>7, LocalUnlocked
<1> QED
  BY <1>5, <1>6

LEMMA ActivateQuiet ==
  ASSUME IInv, NEW p \in Proc, Activate(p)
  PROVE  Quiet(p)
<1>1. PICK t : t = tasks[p]
  OBVIOUS
<1>2. t \in Task /\ Shape(t) /\ t.pc = "activate" /\ Traceable(p, t.saved) /\ txn = Nobody
  BY <1>1, OwnFacts DEF Activate, Look, At
<1>3. t.alias \in Alias /\ t.kind = "revive"
  BY <1>2 DEF Shape, KindFits, Named, Snapshots, Place, Nameless
<1>4. UNCHANGED <<disk, outside, used>>
  BY DEF Activate
<1>5. CASE Return(p)
  BY <1>4, <1>5, LocalReturn DEF Quiet
<1>6. CASE ~Return(p)
  <2>1. PICK c : c = profiles[t.alias]
    OBVIOUS
  <2>2. c # NoCred
    BY <1>1, <1>6, <2>1 DEF Activate, Revalidated, TargetRevalidated
  <2>3. c \in Cred /\ live \in CredOrNone /\ Traceable(p, c)
    BY <1>1, <1>3, <2>1, <2>2, OwnFacts DEF CredOrNone
  <2>4. PICK u : u = [t EXCEPT !.pc = "swap", !.then = "idle", !.live = live, !.fresh = c]
    OBVIOUS
  <2>5. Keep(p, u)
    BY <1>1, <1>6, <2>1, <2>4 DEF Activate
  <2>6. u \in Task
    BY <1>2, <2>3, <2>4, Names, Creds DEF Task
  <2>7. /\ u.pc = "swap" /\ u.kind = t.kind /\ u.alias = t.alias /\ u.then = "idle"
        /\ u.saved = t.saved /\ u.fresh = c
    BY <1>2, <2>4 DEF Task
  <2> QED
    BY <1>1, <1>2, <1>3, <1>4, <2>3, <2>5, <2>6, <2>7, ToSwap
<1> QED
  BY <1>5, <1>6

(* Bringing the marker in line with live, and the daemon's switch.          *)
LEMMA ActiveIsAlias ==
  ASSUME NEW c
  PROVE  Active(c) \subseteq Alias
BY DEF Active, Exact, Bound, MarkerNames, Holders

LEMMA RepairedMarkerType ==
  ASSUME ~Undecided(live)
  PROVE  RepairedMarker \in AliasOrNone
<1>1. CASE live = NoCred \/ Exact(live) = {}
  BY <1>1 DEF RepairedMarker, AliasOrNone
<1>2. CASE ~(live = NoCred \/ Exact(live) = {})
  <2>1. Bound(live) # {} /\ Bound(live) \subseteq Alias
    BY <1>2 DEF Undecided, Bound, Exact
  <2>2. RepairedMarker = CHOOSE a \in Bound(live) : TRUE
    BY <1>2 DEF RepairedMarker
  <2> QED
    BY <2>1, <2>2 DEF AliasOrNone
<1> QED
  BY <1>1, <1>2

LEMMA LocateQuiet ==
  ASSUME IInv, NEW p \in Proc, Locate(p)
  PROVE  Quiet(p)
<1>1. PICK t : t = tasks[p]
  OBVIOUS
<1>2. /\ t \in Task /\ Shape(t) /\ t.pc = "locate"
      /\ Traceable(p, t.saved) /\ Traceable(p, t.fresh)
  BY <1>1, OwnFacts DEF Locate, At
<1>3. t.kind \in {"auto", "mark"} /\ (t.kind = "auto" => t.other \in Alias)
  BY <1>2 DEF Shape, KindFits, Named, Place
<1>4. UNCHANGED <<disk, outside, used>>
  BY DEF Locate
<1>5. CASE Return(p)
  BY <1>4, <1>5, LocalReturn DEF Quiet
<1>6. CASE ~Return(p)
  <2>1. PICK a \in Active(live) :
          Set(p, Waiting([t EXCEPT !.alias = a], {a}, "relocate")) /\ UNCHANGED locks
    BY <1>1, <1>6 DEF Locate
  <2>2. a \in Alias /\ {a} \in SUBSET Alias
    BY <2>1, ActiveIsAlias
  <2>3. PICK s : s = [t EXCEPT !.alias = a]
    OBVIOUS
  <2>4. /\ s \in Task /\ s.alias = a /\ s.kind = t.kind /\ s.other = t.other
        /\ s.saved = t.saved /\ s.fresh = t.fresh
    BY <1>2, <2>2, <2>3 DEF Task, AliasOrNone
  <2>5. PICK u : u = Waiting(s, {a}, "relocate")
    OBVIOUS
  <2>6. /\ u \in Task /\ Place(u) = "relocate" /\ u.pc \in {"lease", "relocate"}
        /\ u.then = "relocate" /\ u.kind = t.kind /\ u.alias = a /\ u.other = t.other
        /\ u.saved = t.saved /\ u.fresh = t.fresh
    BY <2>2, <2>4, <2>5, Names, WaitingFits
  <2>7. Shape(u)
    BY <1>3, <2>2, <2>6 DEF Shape, KindFits, Named, Snapshots
  <2>8. u.pc \notin InTxn /\ u.pc \notin {"stage", "commit"} /\ ~Bearing(u)
    BY <2>6 DEF InTxn, Bearing
  <2> QED
    BY <1>2, <1>4, <2>1, <2>3, <2>5, <2>6, <2>7, <2>8, LocalUnlocked
<1> QED
  BY <1>5, <1>6

LEMMA RelocateQuiet ==
  ASSUME IInv, NEW p \in Proc, Relocate(p)
  PROVE  Quiet(p)
<1>1. PICK t : t = tasks[p]
  OBVIOUS
<1>2. /\ t \in Task /\ Shape(t) /\ t.pc = "relocate"
      /\ Traceable(p, t.saved) /\ Traceable(p, t.fresh) /\ Traceable(p, live)
      /\ live \in CredOrNone /\ marker \in AliasOrNone
      /\ used \in [ops : Nat, moves : Nat, crashes : Nat]
  BY <1>1, OwnFacts DEF Relocate, Look, At
<1>3. /\ t.alias \in Alias /\ t.kind \in {"auto", "mark"}
      /\ t.kind = "auto" => t.other \in Alias
  BY <1>2 DEF Shape, KindFits, Named, Place, Nameless
<1>4. /\ UNCHANGED <<registry, live, backups, outside, used>>
      /\ marker' \in {marker, t.alias}
  BY <1>1 DEF Relocate
<1>5. marker' \in AliasOrNone /\ used' \in [ops : Nat, moves : Nat, crashes : Nat]
      /\ UNCHANGED <<registry, live, backups, outside>>
  BY <1>2, <1>3, <1>4 DEF AliasOrNone
<1>6. CASE Return(p)
  BY <1>5, <1>6, QuietReturn DEF Quiet
<1>7. CASE ~Return(p)
  <2>1. PICK s : s = [t EXCEPT !.saved = live]
    OBVIOUS
  <2>2. PICK v : v = [t EXCEPT !.pc = "locate"]
    OBVIOUS
  <2>3. PICK u : /\ Await(p, u)
                 /\ \/ t.kind = "auto" /\ u = Waiting(s, {t.alias, t.other}, "autoswitch")
                    \/ u = v
    BY <1>1, <1>7, <2>1, <2>2 DEF Relocate
  <2>4. /\ u \in Task /\ u.kind = t.kind /\ u.alias = t.alias /\ u.other = t.other
        /\ u.fresh = t.fresh /\ u.saved \in {t.saved, live}
        /\ \/ /\ t.kind = "auto" /\ u.pc \in {"lease", "autoswitch"} /\ Place(u) = "autoswitch"
              /\ u.then = "autoswitch"
           \/ u.pc = "locate" /\ Place(u) = "locate"
    <3>1. CASE u = v
      <4>1. v \in Task
        BY <1>2, <2>2, Names DEF Task
      <4>2. /\ v.kind = t.kind /\ v.alias = t.alias /\ v.other = t.other
            /\ v.fresh = t.fresh /\ v.saved = t.saved /\ v.pc = "locate"
        BY <1>2, <2>2 DEF Task
      <4> QED
        BY <3>1, <4>1, <4>2 DEF Place
    <3>2. CASE t.kind = "auto" /\ u = Waiting(s, {t.alias, t.other}, "autoswitch")
      <4>1. s \in Task
        BY <1>2, <2>1 DEF Task
      <4>2. /\ s.kind = t.kind /\ s.alias = t.alias /\ s.other = t.other
            /\ s.fresh = t.fresh /\ s.saved = live
        BY <1>2, <2>1 DEF Task
      <4>3. {t.alias, t.other} \in SUBSET Alias
        BY <1>3, <3>2
      <4> QED
        BY <3>2, <4>1, <4>2, <4>3, Names, WaitingFits
    <3> QED
      BY <2>3, <3>1, <3>2
  <2>5. Shape(u)
    BY <1>3, <2>4 DEF Shape, KindFits, Named, Snapshots, Nameless
  <2>6. u.pc \notin InTxn /\ u.pc \notin {"stage", "commit"} /\ ~Bearing(u)
    BY <2>4 DEF InTxn, Bearing
  <2>7. Fits(u)
    BY <2>6 DEF Fits, InTxn
  <2>8. Set(p, u) /\ LockStep(p, u)
    BY <2>3, <2>6, AwaitLocks DEF IInv
  <2> QED
    BY <1>2, <1>5, <2>4, <2>5, <2>6, <2>7, <2>8 DEF Quiet, QuietTurn
<1> QED
  BY <1>6, <1>7

LEMMA AutoSwitchQuiet ==
  ASSUME IInv, NEW p \in Proc, AutoSwitch(p)
  PROVE  Quiet(p)
<1>1. PICK t : t = tasks[p]
  OBVIOUS
<1>2. t \in Task /\ Shape(t) /\ t.pc = "autoswitch" /\ Traceable(p, t.saved) /\ txn = Nobody
  BY <1>1, OwnFacts DEF AutoSwitch, Look, At
<1>3. t.alias \in Alias /\ t.other \in Alias /\ t.kind = "auto"
  BY <1>2 DEF Shape, KindFits, Named, Place, Nameless
<1>4. UNCHANGED <<disk, outside, used>>
  BY DEF AutoSwitch
<1>5. CASE Return(p)
  BY <1>4, <1>5, LocalReturn DEF Quiet
<1>6. CASE ~Return(p)
  <2>1. PICK c : c = profiles[t.other]
    OBVIOUS
  <2>2. c # NoCred
    BY <1>1, <1>6, <2>1 DEF AutoSwitch
  <2>3. c \in Cred /\ live \in CredOrNone /\ Traceable(p, c)
    BY <1>1, <1>3, <2>1, <2>2, OwnFacts DEF CredOrNone
  <2>4. PICK u : u = [t EXCEPT !.pc = "swap", !.alias = t.other, !.live = live, !.fresh = c]
    OBVIOUS
  <2>5. Keep(p, u)
    BY <1>1, <1>6, <2>1, <2>4 DEF AutoSwitch
  <2>6. u \in Task
    BY <1>2, <1>3, <2>3, <2>4, Names, Creds DEF Task, AliasOrNone
  <2>7. /\ u.pc = "swap" /\ u.kind = t.kind /\ u.alias = t.other /\ u.other = t.other
        /\ u.saved = t.saved /\ u.fresh = c
    BY <1>2, <2>4 DEF Task
  <2> QED
    BY <1>1, <1>2, <1>3, <1>4, <2>3, <2>5, <2>6, <2>7, ToSwap
<1> QED
  BY <1>5, <1>6

(* Reading live back.                                                       *)
LEMMA AdoptQuiet ==
  ASSUME IInv, NEW p \in Proc, Adopt(p)
  PROVE  Quiet(p)
<1>1. PICK t : t = tasks[p]
  OBVIOUS
<1>2. /\ t \in Task /\ Shape(t) /\ t.pc = "adopt" /\ Traceable(p, t.saved) /\ txn = Nobody
      /\ Traceable(p, live) /\ live \in CredOrNone
  BY <1>1, OwnFacts DEF Adopt, Look, At
<1>3. t.alias \in Alias /\ t.kind \in {"sync", "readback"}
  BY <1>2 DEF Shape, KindFits, Named, Place, Nameless
<1>4. UNCHANGED <<disk, outside, used>>
  BY DEF Adopt
<1>5. CASE Return(p)
  BY <1>4, <1>5, LocalReturn DEF Quiet
<1>6. CASE ~Return(p)
  <2>1. PICK u : u = [t EXCEPT !.pc = "copy", !.fresh = live]
    OBVIOUS
  <2>2. Keep(p, u) /\ profiles[t.alias] # NoCred /\ live # NoCred
    BY <1>1, <1>6, <2>1 DEF Adopt
  <2>3. u \in Task
    BY <1>2, <2>1, Names DEF Task
  <2>4. /\ u.pc = "copy" /\ u.kind = t.kind /\ u.alias = t.alias /\ u.other = t.other
        /\ u.saved = t.saved /\ u.fresh = live
    BY <1>2, <2>1 DEF Task
  <2>5. live \in Cred
    BY <1>2, <2>2 DEF CredOrNone
  <2>6. ~Refreshes(u) /\ ~Bearing(u) /\ Place(u) = "copy"
    BY <1>3, <2>4 DEF Refreshes, Bearing, Place
  <2>7. Shape(u)
    BY <1>3, <2>4, <2>5, <2>6 DEF Shape, KindFits, Named, Snapshots
  <2>8. Fits(u)
    BY <2>2, <2>4 DEF Fits
  <2>9. Set(p, u) /\ LockStep(p, u)
    BY <1>2, <2>2, KeepLocks DEF IInv
  <2> QED
    BY <1>2, <1>4, <2>3, <2>4, <2>6, <2>7, <2>8, <2>9, LocalTurn DEF Quiet
<1> QED
  BY <1>5, <1>6

LEMMA RecheckQuiet ==
  ASSUME IInv, NEW p \in Proc, Recheck(p)
  PROVE  Quiet(p)
<1>1. PICK t : t = tasks[p]
  OBVIOUS
<1>2. /\ t \in Task /\ Shape(t) /\ Fits(t) /\ t.pc = "recheck" /\ txn = p
      /\ Traceable(p, t.saved) /\ Traceable(p, t.fresh)
      /\ Traceable(p, live) /\ live \in CredOrNone
  BY <1>1, OwnFacts DEF Recheck, At, InTxn
<1>3. /\ t.alias \in Alias /\ t.kind \in {"sync", "readback"} /\ t.fresh \in Cred
      /\ profiles[t.alias] # NoCred
  BY <1>2 DEF Shape, KindFits, Named, Snapshots, Place, Nameless, Fits
<1>4. UNCHANGED <<disk, outside, used>>
  BY DEF Recheck
<1>5. CASE live = NoCred
  <2>1. Return(p)
    BY <1>1, <1>3, <1>5, Constants DEF Recheck
  <2> QED
    BY <1>4, <2>1, LocalReturn DEF Quiet
<1>6. CASE live # NoCred
  <2>1. PICK v : v = [t EXCEPT !.pc = "mark"]
    OBVIOUS
  <2>2. PICK w : w = [t EXCEPT !.pc = "copy", !.fresh = live]
    OBVIOUS
  <2>3. PICK u : Set(p, u) /\ UNCHANGED locks /\ u \in {v, w}
    BY <1>1, <1>6, <2>1, <2>2 DEF Recheck, Go
  <2>4. live \in Cred
    BY <1>2, <1>6 DEF CredOrNone
  <2>5. v \in Task /\ w \in Task
    BY <1>2, <2>1, <2>2, Names DEF Task
  <2>6. /\ v.pc = "mark" /\ v.kind = t.kind /\ v.alias = t.alias /\ v.other = t.other
        /\ v.saved = t.saved /\ v.fresh = t.fresh
    BY <1>2, <2>1 DEF Task
  <2>7. /\ w.pc = "copy" /\ w.kind = t.kind /\ w.alias = t.alias /\ w.other = t.other
        /\ w.saved = t.saved /\ w.fresh = live
    BY <1>2, <2>2 DEF Task
  <2>8. /\ u \in Task /\ u.pc \in {"mark", "copy"} /\ u.kind = t.kind /\ u.alias = t.alias
        /\ u.other = t.other /\ u.saved = t.saved /\ u.fresh \in {t.fresh, live}
    BY <2>3, <2>5, <2>6, <2>7
  <2>9. ~Refreshes(u) /\ ~Bearing(u) /\ Place(u) = u.pc
    BY <1>3, <2>8 DEF Refreshes, Bearing, Place
  <2>10. Shape(u)
    BY <1>3, <2>4, <2>8, <2>9 DEF Shape, KindFits, Named, Snapshots
  <2>11. Fits(u)
    BY <1>3, <2>8, <2>9 DEF Fits
  <2>12. LockStep(p, u)
    BY <1>2, <2>3, StayLocks DEF IInv
  <2> QED
    BY <1>2, <1>4, <2>3, <2>8, <2>9, <2>10, <2>11, <2>12, LocalTurn DEF Quiet
<1> QED
  BY <1>5, <1>6

(* Saving and signing in: the destination is looked for twice.              *)
LEMMA DestinationFits ==
  ASSUME NEW x, NEW hint \in AliasOrNone, NEW a \in Destinations(x, hint)
  PROVE  a \in Alias /\ (profiles[a] = NoCred => Holders(x) = {})
BY DEF Destinations, NewNames, Holders, AliasOrNone

LEMMA PlanQuiet ==
  ASSUME IInv, NEW p \in Proc, Plan(p)
  PROVE  Quiet(p)
<1>1. PICK t : t = tasks[p]
  OBVIOUS
<1>2. /\ t \in Task /\ Shape(t) /\ t.pc = "plan"
      /\ Traceable(p, t.saved) /\ Traceable(p, t.fresh)
  BY <1>1, OwnFacts DEF Plan, At
<1>3. /\ t.kind \in {"save", "login"} /\ t.other \in AliasOrNone
      /\ t.kind = "login" => t.fresh \in Cred
  BY <1>2, TaskTypes DEF Shape, KindFits, Snapshots, Place
<1>4. UNCHANGED <<disk, outside, used>>
  BY DEF Plan
<1>5. CASE Return(p)
  BY <1>4, <1>5, LocalReturn DEF Quiet
<1>6. CASE ~Return(p)
  <2>1. PICK a \in Homes(t) :
          Set(p, Waiting([t EXCEPT !.alias = a], {a}, "store")) /\ UNCHANGED locks
    BY <1>1, <1>6 DEF Plan
  <2>2. a \in Alias /\ {a} \in SUBSET Alias
    BY <1>3, <2>1, DestinationFits DEF Homes
  <2>3. PICK s : s = [t EXCEPT !.alias = a]
    OBVIOUS
  <2>4. /\ s \in Task /\ s.alias = a /\ s.kind = t.kind /\ s.other = t.other
        /\ s.saved = t.saved /\ s.fresh = t.fresh
    BY <1>2, <2>2, <2>3 DEF Task, AliasOrNone
  <2>5. PICK u : u = Waiting(s, {a}, "store")
    OBVIOUS
  <2>6. /\ u \in Task /\ Place(u) = "store" /\ u.pc \in {"lease", "store"}
        /\ u.then = "store" /\ u.kind = t.kind /\ u.alias = a /\ u.other = t.other
        /\ u.saved = t.saved /\ u.fresh = t.fresh
    BY <2>2, <2>4, <2>5, Names, WaitingFits
  <2>7. Shape(u)
    BY <1>3, <2>2, <2>6 DEF Shape, KindFits, Named, Snapshots
  <2>8. u.pc \notin InTxn /\ u.pc \notin {"stage", "commit"} /\ (Bearing(u) => Bearing(t))
    BY <1>2, <2>6 DEF InTxn, Bearing, Place
  <2>9. Fits(u)
    BY <2>8 DEF Fits, InTxn
  <2>10. Set(p, u) /\ LockStep(p, u)
    BY <2>1, <2>3, <2>5, <2>8, StayLocks DEF IInv
  <2> QED
    BY <1>1, <1>2, <1>4, <2>6, <2>7, <2>8, <2>9, <2>10, LocalTurn DEF Quiet
<1> QED
  BY <1>5, <1>6

LEMMA StoreQuiet ==
  ASSUME IInv, NEW p \in Proc, Store(p)
  PROVE  Quiet(p)
<1>1. PICK t : t = tasks[p]
  OBVIOUS
<1>2. /\ t \in Task /\ Shape(t) /\ t.pc = "store" /\ txn = Nobody
      /\ Traceable(p, t.saved) /\ Traceable(p, t.fresh) /\ Traceable(p, live)
      /\ live \in CredOrNone
  BY <1>1, OwnFacts DEF Store, Look, At
<1>3. /\ t.kind \in {"save", "login"} /\ t.other \in AliasOrNone /\ t.alias \in Alias
      /\ t.kind = "login" => t.fresh \in Cred
  BY <1>2, TaskTypes DEF Shape, KindFits, Named, Snapshots, Place, Nameless
<1>4. UNCHANGED <<disk, outside, used>>
  BY DEF Store
<1>5. PICK c : c = Incoming(t)
  OBVIOUS
<1>6. c = (IF t.kind = "save" THEN live ELSE t.fresh) /\ c \in CredOrNone /\ Traceable(p, c)
  BY <1>2, <1>5, TaskTypes DEF Incoming
<1>7. CASE Return(p)
  BY <1>4, <1>7, LocalReturn DEF Quiet
<1>8. CASE Await(p, [t EXCEPT !.pc = "plan"])
  <2>1. PICK u : u = [t EXCEPT !.pc = "plan"]
    OBVIOUS
  <2>2. u \in Task
    BY <1>2, <2>1, Names DEF Task
  <2>3. /\ u.pc = "plan" /\ u.kind = t.kind /\ u.alias = t.alias /\ u.other = t.other
        /\ u.saved = t.saved /\ u.fresh = t.fresh
    BY <1>2, <2>1 DEF Task
  <2>4. Shape(u)
    BY <1>3, <2>3 DEF Shape, KindFits, Named, Snapshots, Place, Nameless
  <2>5. u.pc \notin InTxn /\ u.pc \notin {"stage", "commit"} /\ (Bearing(u) => Bearing(t))
    BY <1>2, <2>3 DEF InTxn, Bearing, Place
  <2>6. Fits(u)
    BY <2>5 DEF Fits, InTxn
  <2>7. Set(p, u) /\ LockStep(p, u)
    BY <1>8, <2>1, <2>5, AwaitLocks DEF IInv
  <2> QED
    BY <1>1, <1>2, <1>4, <2>2, <2>3, <2>4, <2>5, <2>6, <2>7, LocalTurn DEF Quiet
<1>9. CASE ~Return(p) /\ ~Await(p, [t EXCEPT !.pc = "plan"])
  <2>1. PICK u : u = [t EXCEPT !.pc = "write", !.fresh = c, !.live = live, !.follow = TRUE]
    OBVIOUS
  <2>2. c # NoCred /\ Confirmed(t) /\ Accepted(t) /\ Keep(p, u)
    BY <1>1, <1>5, <1>9, <2>1 DEF Store
  <2>3. c \in Cred
    BY <1>6, <2>2 DEF CredOrNone
  <2>4. u \in Task
    BY <1>2, <1>6, <2>1, Names DEF Task
  <2>5. /\ u.pc = "write" /\ u.kind = t.kind /\ u.alias = t.alias /\ u.other = t.other
        /\ u.saved = t.saved /\ u.fresh = c
    BY <1>2, <2>1 DEF Task
  <2>6. ~Refreshes(u) /\ Place(u) = "write" /\ (Bearing(u) => Bearing(t) /\ u.fresh = t.fresh)
    BY <1>2, <1>3, <1>6, <2>5 DEF Refreshes, Bearing, Place
  <2>7. Shape(u)
    BY <1>3, <2>3, <2>5, <2>6 DEF Shape, KindFits, Named, Snapshots
  <2>8. Renews(u)
    <3>1. profiles[t.alias] = NoCred => Holders(c.account) = {}
      BY <1>3, <1>5, <2>2, DestinationFits DEF Confirmed, Homes
    <3>2. profiles[t.alias] # NoCred =>
            /\ profiles[t.alias].account = c.account
            /\ c.gen >= profiles[t.alias].gen \/ t.kind = "login"
      <4>1. profiles[t.alias] # NoCred => profiles[t.alias] \in Cred
        BY <1>1, <1>3, OwnFacts DEF CredOrNone
      <4> QED
        BY <1>3, <1>5, <2>2, <2>3, <4>1 DEF Accepted, Adoptable, AnyAge, Cred
    <3> QED
      BY <2>5, <3>1, <3>2 DEF Renews
  <2>9. Fits(u)
    BY <2>5, <2>6, <2>8 DEF Fits
  <2>10. Set(p, u) /\ LockStep(p, u)
    BY <1>2, <2>2, KeepLocks DEF IInv
  <2> QED
    BY <1>1, <1>2, <1>4, <1>6, <2>4, <2>5, <2>6, <2>7, <2>9, <2>10, LocalTurn DEF Quiet
<1> QED
  BY <1>7, <1>8, <1>9

(* Signing in again.                                                        *)
LEMMA BindQuiet ==
  ASSUME IInv, NEW p \in Proc, Bind(p)
  PROVE  Quiet(p)
<1>1. PICK t : t = tasks[p]
  OBVIOUS
<1>2. t \in Task /\ Shape(t) /\ t.pc = "bind" /\ Traceable(p, t.fresh)
  BY <1>1, OwnFacts DEF Bind, Look, At
<1>3. t.kind = "reauth" /\ t.alias \in Alias
  BY <1>2 DEF Shape, KindFits, Named, Place
<1>4. UNCHANGED <<disk, outside, used>>
  BY DEF Bind
<1>5. CASE Return(p)
  BY <1>4, <1>5, LocalReturn DEF Quiet
<1>6. CASE ~Return(p)
  <2>1. PICK c : c = profiles[t.alias]
    OBVIOUS
  <2>2. c \in CredOrNone /\ Traceable(p, c)
    BY <1>1, <1>3, <2>1, OwnFacts
  <2>3. PICK u : u = [t EXCEPT !.pc = "signin", !.saved = c]
    OBVIOUS
  <2>4. Await(p, u)
    BY <1>1, <1>6, <2>1, <2>3 DEF Bind
  <2>5. u \in Task
    BY <1>2, <2>2, <2>3, Names DEF Task
  <2>6. /\ u.pc = "signin" /\ u.kind = t.kind /\ u.alias = t.alias /\ u.other = t.other
        /\ u.saved = c /\ u.fresh = t.fresh
    BY <1>2, <2>3 DEF Task
  <2>7. Shape(u)
    BY <1>3, <2>6 DEF Shape, KindFits, Named, Snapshots, Place, Nameless
  <2>8. u.pc \notin InTxn /\ u.pc \notin {"stage", "commit"} /\ ~Bearing(u)
    BY <2>6 DEF InTxn, Bearing, Place
  <2>9. Set(p, u) /\ LockStep(p, u)
    BY <2>4, <2>8, AwaitLocks DEF IInv
  <2> QED
    BY <1>2, <1>4, <2>2, <2>5, <2>6, <2>7, <2>8, <2>9, LocalPlain
<1> QED
  BY <1>5, <1>6

LEMMA ReauthorizeQuiet ==
  ASSUME IInv, NEW p \in Proc, Reauthorize(p)
  PROVE  Quiet(p)
<1>1. PICK t : t = tasks[p]
  OBVIOUS
<1>2. /\ t \in Task /\ Shape(t) /\ t.pc = "reauth" /\ txn = Nobody
      /\ Traceable(p, t.saved) /\ Traceable(p, t.fresh) /\ live \in CredOrNone
  BY <1>1, OwnFacts DEF Reauthorize, Look, At
<1>3. t.kind = "reauth" /\ t.alias \in Alias /\ t.fresh \in Cred
  BY <1>2 DEF Shape, KindFits, Named, Snapshots, Place
<1>4. UNCHANGED <<disk, outside, used>>
  BY DEF Reauthorize
<1>5. CASE Return(p)
  BY <1>4, <1>5, LocalReturn DEF Quiet
<1>6. CASE ~Return(p)
  <2>1. PICK f : f = Belongs(t.alias, live)
    OBVIOUS
  <2>2. PICK u : u = [t EXCEPT !.pc = "write", !.live = live, !.follow = f]
    OBVIOUS
  <2>3. /\ Keep(p, u) /\ profiles[t.alias] # NoCred
        /\ profiles[t.alias].account = t.fresh.account
    BY <1>1, <1>6, <2>1, <2>2 DEF Reauthorize
  <2>4. f \in BOOLEAN /\ (f => live # NoCred /\ live.account = t.fresh.account)
    BY <2>1, <2>3, BelongsIsBoolean, BelongsToAccount
  <2>5. u \in Task
    BY <1>2, <2>2, <2>4, Names DEF Task
  <2>6. /\ u.pc = "write" /\ u.kind = t.kind /\ u.alias = t.alias /\ u.other = t.other
        /\ u.saved = t.saved /\ u.fresh = t.fresh /\ u.live = live /\ u.follow = f
    BY <1>2, <2>2 DEF Task
  <2>7. ~Refreshes(u) /\ Place(u) = "write" /\ Bearing(t)
    BY <1>2, <1>3, <2>6 DEF Refreshes, Bearing, Place
  <2>8. Shape(u)
    BY <1>3, <2>4, <2>6, <2>7 DEF Shape, KindFits, Named, Snapshots
  <2>9. Renews(u)
    BY <1>3, <2>3, <2>6 DEF Renews
  <2>10. Fits(u)
    BY <2>6, <2>7, <2>9 DEF Fits
  <2>11. Set(p, u) /\ LockStep(p, u)
    BY <1>2, <2>3, KeepLocks DEF IInv
  <2> QED
    BY <1>1, <1>2, <1>4, <2>5, <2>6, <2>7, <2>8, <2>10, <2>11, LocalTurn DEF Quiet
<1> QED
  BY <1>5, <1>6

(* Importing: the leases, and a credential from a file.                     *)
LEMMA ScanQuiet ==
  ASSUME IInv, NEW p \in Proc, Scan(p)
  PROVE  Quiet(p)
<1>1. PICK t : t = tasks[p]
  OBVIOUS
<1>2. /\ t \in Task /\ Shape(t) /\ t.pc = "scan"
      /\ Traceable(p, t.saved) /\ Traceable(p, t.fresh)
  BY <1>1, OwnFacts DEF Scan, At
<1>3. PICK n : n = {a \in Alias : profiles[a] # NoCred}
  OBVIOUS
<1>4. PICK u : u = Waiting(t, n, "reserve")
  OBVIOUS
<1>5. Set(p, u) /\ UNCHANGED locks /\ UNCHANGED <<disk, outside, used>>
  BY <1>1, <1>3, <1>4 DEF Scan
<1>6. n \in SUBSET Alias
  BY <1>3
<1>7. /\ u \in Task /\ Place(u) = "reserve" /\ u.pc \in {"lease", "reserve"}
      /\ u.then = "reserve" /\ u.kind = t.kind /\ u.alias = t.alias /\ u.other = t.other
      /\ u.saved = t.saved /\ u.fresh = t.fresh
  BY <1>2, <1>4, <1>6, Names, WaitingFits
<1>8. Shape(u)
  BY <1>2, <1>7 DEF Shape, KindFits, Named, Snapshots, Nameless
<1>9. u.pc \notin InTxn /\ u.pc \notin {"stage", "commit"} /\ ~Bearing(u)
  BY <1>7 DEF InTxn, Bearing
<1> QED
  BY <1>2, <1>5, <1>7, <1>8, <1>9, LocalUnlocked

LEMMA ReserveQuiet ==
  ASSUME IInv, NEW p \in Proc, Reserve(p)
  PROVE  Quiet(p)
<1>1. PICK t : t = tasks[p]
  OBVIOUS
<1>2. /\ t \in Task /\ Shape(t) /\ t.pc = "reserve" /\ txn = Nobody
      /\ Traceable(p, t.saved) /\ Traceable(p, t.fresh)
  BY <1>1, OwnFacts DEF Reserve, Look, At
<1>3. UNCHANGED <<disk, outside, used>>
  BY DEF Reserve
<1>4. (t.kind = "reauth" => t.alias \in Alias)
      /\ (t.kind \in {"auto", "rename"} => t.other \in Alias)
  BY <1>2 DEF Shape, Named
<1>5. CASE Return(p)
  BY <1>3, <1>5, LocalReturn DEF Quiet
<1>6. CASE Await(p, [t EXCEPT !.pc = "scan"])
  <2>1. PICK u : u = [t EXCEPT !.pc = "scan"]
    OBVIOUS
  <2>2. u \in Task
    BY <1>2, <2>1, Names DEF Task
  <2>3. /\ u.pc = "scan" /\ u.kind = t.kind /\ u.alias = t.alias /\ u.other = t.other
        /\ u.saved = t.saved /\ u.fresh = t.fresh
    BY <1>2, <2>1 DEF Task
  <2>4. Shape(u)
    BY <1>4, <2>3 DEF Shape, KindFits, Named, Snapshots, Place, Nameless
  <2>5. u.pc \notin InTxn /\ u.pc \notin {"stage", "commit"} /\ ~Bearing(u)
    BY <2>3 DEF InTxn, Bearing, Place
  <2>6. Set(p, u) /\ LockStep(p, u)
    BY <1>6, <2>1, <2>5, AwaitLocks DEF IInv
  <2> QED
    BY <1>2, <1>3, <2>2, <2>3, <2>4, <2>5, <2>6, LocalPlain
<1>7. CASE ~Return(p) /\ ~Await(p, [t EXCEPT !.pc = "scan"])
  <2>1. PICK c \in Cred :
          /\ c.gen <= issued[c.account] /\ c \notin InMemory
          /\ Keep(p, [t EXCEPT !.pc = "validate", !.saved = c, !.fresh = c])
    BY <1>1, <1>7 DEF Reserve
  <2>2. PICK u : u = [t EXCEPT !.pc = "validate", !.saved = c, !.fresh = c]
    OBVIOUS
  <2>3. u \in Task
    BY <1>2, <2>1, <2>2, Names, Creds DEF Task
  <2>4. /\ u.pc = "validate" /\ u.kind = t.kind /\ u.alias = t.alias /\ u.other = t.other
        /\ u.saved = c /\ u.fresh = c
    BY <1>2, <2>2 DEF Task
  <2>5. Traceable(p, c)
    BY <2>1 DEF Traceable, Found, Old
  <2>6. Place(u) = "validate" /\ ~Bearing(u)
    BY <2>4 DEF Bearing, Place
  <2>7. Shape(u)
    BY <1>4, <2>1, <2>4, <2>6 DEF Shape, KindFits, Named, Snapshots, Nameless
  <2>8. Fits(u)
    BY <2>4 DEF Fits
  <2>9. Set(p, u) /\ LockStep(p, u)
    BY <1>2, <2>1, <2>2, KeepLocks DEF IInv
  <2> QED
    BY <1>3, <2>3, <2>4, <2>5, <2>6, <2>7, <2>8, <2>9, LocalTurn DEF Quiet
<1> QED
  BY <1>5, <1>6, <1>7

(* Deleting and renaming, up to the step that does it.                      *)
LEMMA DeleteQuiet ==
  ASSUME IInv, NEW p \in Proc, Delete(p)
  PROVE  Quiet(p)
<1>1. PICK t : t = tasks[p]
  OBVIOUS
<1>2. /\ t \in Task /\ Shape(t) /\ t.pc = "delete" /\ txn = Nobody
      /\ Traceable(p, t.saved) /\ Traceable(p, t.fresh) /\ marker \in AliasOrNone
  BY <1>1, OwnFacts DEF Delete, Look, At
<1>3. /\ t.alias \in Alias /\ (t.kind \in {"auto", "rename"} => t.other \in Alias)
  BY <1>2 DEF Shape, Named, Place, Nameless
<1>4. UNCHANGED <<disk, outside, used>>
  BY DEF Delete
<1>5. CASE Return(p)
  BY <1>4, <1>5, LocalReturn DEF Quiet
<1>6. CASE ~Return(p)
  <2>1. PICK l : l = IF marker = t.alias THEN "unmark" ELSE "archive"
    OBVIOUS
  <2>2. PICK u : u = [t EXCEPT !.marker = marker, !.pc = l]
    OBVIOUS
  <2>3. Keep(p, u) /\ profiles[t.alias] # NoCred
    BY <1>1, <1>6, <2>1, <2>2 DEF Delete
  <2>4. l \in Locations /\ l \in {"unmark", "archive"}
    BY <2>1, Names
  <2>5. u \in Task
    BY <1>2, <2>2, <2>4 DEF Task
  <2>6. /\ u.pc = l /\ u.kind = t.kind /\ u.alias = t.alias /\ u.other = t.other
        /\ u.saved = t.saved /\ u.fresh = t.fresh
    BY <1>2, <2>2 DEF Task
  <2>7. Place(u) = l /\ ~Bearing(u)
    BY <2>4, <2>6 DEF Place, Bearing
  <2>8. Shape(u)
    BY <1>3, <2>4, <2>6, <2>7 DEF Shape, KindFits, Named, Snapshots
  <2>9. Fits(u)
    BY <2>3, <2>4, <2>6 DEF Fits
  <2>10. Set(p, u) /\ LockStep(p, u)
    BY <1>2, <2>3, KeepLocks DEF IInv
  <2> QED
    BY <1>2, <1>4, <2>5, <2>6, <2>7, <2>8, <2>9, <2>10, LocalTurn DEF Quiet
<1> QED
  BY <1>5, <1>6

LEMMA UnmarkQuiet ==
  ASSUME IInv, NEW p \in Proc, Unmark(p)
  PROVE  Quiet(p)
<1>1. PICK t : t = tasks[p]
  OBVIOUS
<1>2. /\ t \in Task /\ Shape(t) /\ Fits(t) /\ t.pc = "unmark" /\ txn = p
      /\ Traceable(p, t.saved) /\ Traceable(p, t.fresh) /\ marker \in AliasOrNone
      /\ used \in [ops : Nat, moves : Nat, crashes : Nat]
  BY <1>1, OwnFacts DEF Unmark, At, InTxn
<1>3. /\ t.alias \in Alias /\ (t.kind \in {"auto", "rename"} => t.other \in Alias)
      /\ profiles[t.alias] # NoCred
  BY <1>2 DEF Shape, Named, Place, Nameless, Fits
<1>4. /\ marker' \in AliasOrNone /\ used' \in [ops : Nat, moves : Nat, crashes : Nat]
      /\ UNCHANGED <<registry, live, backups, outside>>
  <2>1. UNCHANGED <<registry, live, backups, outside, used>>
    BY DEF Unmark
  <2>2. (~Undecided(live) /\ marker' = RepairedMarker) \/ marker' = marker
    BY DEF Unmark
  <2> QED
    BY <1>2, <2>1, <2>2, RepairedMarkerType
<1>5. CASE Return(p)
  BY <1>4, <1>5, QuietReturn DEF Quiet
<1>6. CASE ~Return(p)
  <2>1. PICK u : u = [t EXCEPT !.pc = "archive"]
    OBVIOUS
  <2>2. Set(p, u) /\ UNCHANGED locks
    BY <1>1, <1>6, <2>1 DEF Unmark, Go
  <2>3. u \in Task
    BY <1>2, <2>1, Names DEF Task
  <2>4. /\ u.pc = "archive" /\ u.kind = t.kind /\ u.alias = t.alias /\ u.other = t.other
        /\ u.saved = t.saved /\ u.fresh = t.fresh
    BY <1>2, <2>1 DEF Task
  <2>5. Place(u) = "archive" /\ ~Bearing(u)
    BY <2>4 DEF Place, Bearing
  <2>6. Shape(u)
    BY <1>3, <2>4, <2>5 DEF Shape, KindFits, Named, Snapshots
  <2>7. Fits(u)
    BY <1>3, <2>4 DEF Fits
  <2>8. LockStep(p, u)
    BY <1>2, <2>2, StayLocks DEF IInv
  <2> QED
    BY <1>2, <1>4, <2>2, <2>3, <2>4, <2>5, <2>6, <2>7, <2>8 DEF Quiet, QuietTurn
<1> QED
  BY <1>5, <1>6

LEMMA RenameQuiet ==
  ASSUME IInv, NEW p \in Proc, Rename(p)
  PROVE  Quiet(p)
<1>1. PICK t : t = tasks[p]
  OBVIOUS
<1>2. /\ t \in Task /\ Shape(t) /\ t.pc = "rename" /\ txn = Nobody
      /\ Traceable(p, t.saved) /\ Traceable(p, t.fresh) /\ marker \in AliasOrNone
  BY <1>1, OwnFacts DEF Rename, Look, At
<1>3. t.alias \in Alias /\ t.other \in Alias
  BY <1>2 DEF Shape, Named, Place, Nameless
<1>4. UNCHANGED <<disk, outside, used>>
  BY DEF Rename
<1>5. CASE Return(p)
  BY <1>4, <1>5, LocalReturn DEF Quiet
<1>6. CASE ~Return(p)
  <2>1. PICK f : f = Belongs(t.alias, live)
    OBVIOUS
  <2>2. PICK u : u = [t EXCEPT !.pc = "move", !.marker = marker, !.follow = f]
    OBVIOUS
  <2>3. Keep(p, u) /\ profiles[t.alias] # NoCred /\ profiles[t.other] = NoCred
    BY <1>1, <1>6, <2>1, <2>2 DEF Rename
  <2>4. u \in Task
    BY <1>2, <2>1, <2>2, Names, BelongsIsBoolean DEF Task
  <2>5. /\ u.pc = "move" /\ u.kind = t.kind /\ u.alias = t.alias /\ u.other = t.other
        /\ u.saved = t.saved /\ u.fresh = t.fresh
    BY <1>2, <2>2 DEF Task
  <2>6. Place(u) = "move" /\ ~Bearing(u)
    BY <2>5 DEF Place, Bearing
  <2>7. Shape(u)
    BY <1>3, <2>5, <2>6 DEF Shape, KindFits, Named, Snapshots
  <2>8. Fits(u)
    BY <2>3, <2>5 DEF Fits
  <2>9. Set(p, u) /\ LockStep(p, u)
    BY <1>2, <2>3, KeepLocks DEF IInv
  <2> QED
    BY <1>2, <1>4, <2>4, <2>5, <2>6, <2>7, <2>8, <2>9, LocalTurn DEF Quiet
<1> QED
  BY <1>5, <1>6

(* The end of a write: a refresh still removes its preserved rotation.      *)
LEMMA FinishFits ==
  ASSUME IInv, NEW p \in Proc, NEW t, t = tasks[p], t.pc \in {"swap", "mark"},
         NEW v \in {t, Failed(t)}, Finish(p, v)
  PROVE  \E u \in Task : /\ Shape(u) /\ Fits(u) /\ Set(p, u) /\ LockStep(p, u) /\ ~Bearing(u)
                         /\ Traceable(p, u.saved) /\ Traceable(p, u.fresh)
<1>1. /\ t \in Task /\ Shape(t) /\ Fits(t) /\ txn = p
      /\ Traceable(p, t.saved) /\ Traceable(p, t.fresh)
  BY OwnFacts DEF InTxn
<1>2. t.alias \in Alias /\ (t.kind \in {"auto", "rename"} => t.other \in Alias)
  BY <1>1 DEF Shape, Named, Place, Nameless
<1>3. /\ v \in Task /\ v.kind = t.kind /\ v.alias = t.alias /\ v.other = t.other
      /\ v.then = t.then /\ v.saved = t.saved /\ v.fresh = t.fresh
  BY <1>1 DEF Failed, Task
<1>4. CASE Refreshes(v)
  <2>1. PICK u : u = [v EXCEPT !.pc = "unstage"]
    OBVIOUS
  <2>2. Set(p, u) /\ UNCHANGED locks
    BY <1>4, <2>1 DEF Finish
  <2>3. u \in Task
    BY <1>3, <2>1, Names DEF Task
  <2>4. /\ u.pc = "unstage" /\ u.kind = t.kind /\ u.alias = t.alias /\ u.other = t.other
        /\ u.then = t.then /\ u.saved = t.saved /\ u.fresh = t.fresh
    BY <1>3, <2>1 DEF Task
  <2>5. Refreshes(t) /\ Refreshes(u) /\ Place(u) = "unstage" /\ ~Bearing(u)
    BY <1>3, <1>4, <2>4 DEF Refreshes, Place, Bearing
  <2>6. Shape(u)
    BY <1>2, <2>4, <2>5 DEF Shape, KindFits, Named, Snapshots
  <2>7. Fits(u)
    BY <1>1, <2>4, <2>5 DEF Fits
  <2>8. LockStep(p, u)
    BY <1>1, <2>2, StayLocks DEF IInv
  <2> QED
    BY <1>1, <2>2, <2>3, <2>4, <2>5, <2>6, <2>7, <2>8
<1>5. CASE ~Refreshes(v)
  <2>1. Return(p)
    BY <1>5 DEF Finish
  <2>2. Set(p, Idle) /\ LockStep(p, Idle)
    BY <2>1, ReturnLocks DEF IInv
  <2>3. Traceable(p, Idle.saved) /\ Traceable(p, Idle.fresh)
    BY IdleFits DEF Traceable, HadOrRead
  <2> QED
    BY <2>2, <2>3, IdleFits
<1> QED
  BY <1>4, <1>5

LEMMA MarkQuiet ==
  ASSUME IInv, NEW p \in Proc, Mark(p)
  PROVE  Quiet(p)
<1>1. PICK t : t = tasks[p]
  OBVIOUS
<1>2. t.pc = "mark" /\ \E v \in {t, Failed(t)} : Finish(p, v)
  BY <1>1 DEF Mark, At
<1>3. t \in Task /\ Shape(t) /\ marker \in AliasOrNone
      /\ used \in [ops : Nat, moves : Nat, crashes : Nat]
  BY <1>1, OwnFacts
<1>4. t.alias \in Alias
  BY <1>2, <1>3 DEF Shape, Named, Place, Nameless
<1>5. PICK u \in Task : /\ Shape(u) /\ Fits(u) /\ Set(p, u) /\ LockStep(p, u) /\ ~Bearing(u)
                        /\ Traceable(p, u.saved) /\ Traceable(p, u.fresh)
  BY <1>1, <1>2, FinishFits
<1>6. /\ UNCHANGED <<registry, live, backups, outside, used>>
      /\ marker' \in {marker, t.alias}
  BY <1>1 DEF Mark
<1>7. /\ marker' \in AliasOrNone /\ used' \in [ops : Nat, moves : Nat, crashes : Nat]
      /\ UNCHANGED <<registry, live, backups, outside>>
  BY <1>3, <1>4, <1>6 DEF AliasOrNone
<1> QED
  BY <1>5, <1>7 DEF Quiet, QuietTurn

LEMMA RepairQuiet ==
  ASSUME IInv, NEW p \in Proc, Repair(p)
  PROVE  Quiet(p)
<1>1. Return(p) /\ UNCHANGED <<registry, live, backups, outside, used>>
  BY DEF Repair
<1>2. (~Undecided(live) /\ marker' = RepairedMarker) \/ marker' = marker
  BY DEF Repair
<1>3. marker \in AliasOrNone /\ used \in [ops : Nat, moves : Nat, crashes : Nat]
  BY DEF IInv, TypeOK
<1>4. marker' \in AliasOrNone /\ used' \in [ops : Nat, moves : Nat, crashes : Nat]
  BY <1>1, <1>2, <1>3, RepairedMarkerType
<1> QED
  BY <1>1, <1>4, QuietReturn DEF Quiet

----------------------------------------------------------------------------
(* Steps that write.                                                        *)

Sound(p) == TypeOK' /\ \E u : Turn(p, u)

LEMMA WriteSound ==
  ASSUME IInv, NEW p \in Proc, NEW u \in Task, Shape(u), Fits(u)', Set(p, u), LockStep(p, u),
         profiles' = profiles \/ txn \in {p, Nobody},
         profiles' \in [Alias -> CredOrNone], \A a \in Alias : HadOrRead(p, profiles'[a]),
         live' \in {live, tasks[p].fresh}, live' \in CredOrNone, marker' \in AliasOrNone,
         stages' \subseteq Cred, backups' \subseteq Cred, archive' \subseteq Cred,
         UNCHANGED <<outside, used>>,
         Traceable(p, u.saved), Traceable(p, u.fresh), ~Bearing(u)
  PROVE  Sound(p)
<1>1. codex' = codex /\ spent' = spent /\ issued' = issued /\ used' = used
  BY DEF outside
<1>2. tasks' \in [Proc -> Task]
  BY DEF Set, IInv, TypeOK
<1>3. TypeOK'
  BY <1>1, <1>2 DEF LockStep, IInv, TypeOK
<1>4. \A x \in Account : issued'[x] >= issued[x]
  BY <1>1 DEF IInv, TypeOK
<1>5. Turn(p, u)
  BY <1>1, <1>4 DEF Turn, StillPrivate
<1> QED
  BY <1>3, <1>5 DEF Sound

LEMMA WriteReturns ==
  ASSUME IInv, NEW p \in Proc, Return(p),
         profiles' = profiles \/ txn \in {p, Nobody},
         profiles' \in [Alias -> CredOrNone], \A a \in Alias : HadOrRead(p, profiles'[a]),
         live' \in {live, tasks[p].fresh}, live' \in CredOrNone, marker' \in AliasOrNone,
         stages' \subseteq Cred, backups' \subseteq Cred, archive' \subseteq Cred,
         UNCHANGED <<outside, used>>
  PROVE  Sound(p)
<1>1. Set(p, Idle) /\ LockStep(p, Idle)
  BY ReturnLocks DEF IInv
<1>2. Traceable(p, Idle.saved) /\ Traceable(p, Idle.fresh)
  BY IdleFits DEF Traceable, HadOrRead
<1> QED
  BY <1>1, <1>2, IdleFits, WriteSound

(* The store between two steps.                                             *)
LEMMA Store0 ==
  ASSUME IInv, NEW p \in Proc
  PROVE  /\ profiles \in [Alias -> CredOrNone] /\ \A a \in Alias : HadOrRead(p, profiles[a])
         /\ live \in CredOrNone /\ marker \in AliasOrNone /\ codex \in CredOrNone
         /\ stages \subseteq Cred /\ backups \subseteq Cred /\ archive \subseteq Cred
         /\ spent \subseteq Cred /\ issued \in [Account -> 1..MaxIssued]
BY DEF IInv, TypeOK, HadOrRead

LEMMA StageSound ==
  ASSUME IInv, NEW p \in Proc, Stage(p)
  PROVE  Sound(p)
<1>1. PICK t : t = tasks[p]
  OBVIOUS
<1>2. /\ t \in Task /\ Shape(t) /\ Fits(t) /\ t.pc = "stage"
      /\ Traceable(p, t.saved) /\ Traceable(p, t.fresh)
  BY <1>1, OwnFacts DEF Stage, At
<1>3. t.fresh \in Cred /\ t.alias \in Alias /\ Refreshes(t)
      /\ (t.kind \in {"auto", "rename"} => t.other \in Alias)
      /\ t.fresh.account = t.saved.account /\ t.fresh.gen > t.saved.gen /\ t.saved \in Cred
      /\ (t.follow => t.live # NoCred /\ t.live.account = t.saved.account)
      /\ t.saved \in spent
  BY <1>2 DEF Shape, KindFits, Named, Snapshots, Place, Nameless, Fits
<1>4. UNCHANGED <<profiles, archive, live, marker, backups, outside, used>>
  BY DEF Stage
<1>5. stages' \in {stages, stages \cup {t.fresh}}
  BY <1>1 DEF Stage
<1>6. /\ profiles' = profiles /\ archive' = archive /\ live' = live /\ marker' = marker
      /\ backups' = backups /\ spent' = spent
  BY <1>4 DEF outside
<1>7. stages' \subseteq Cred
  BY <1>3, <1>5, Store0
<1>8. CASE Return(p)
  BY <1>4, <1>6, <1>7, <1>8, Store0, WriteReturns
<1>9. CASE ~Return(p)
  <2>1. PICK u : u = [t EXCEPT !.pc = "commit"]
    OBVIOUS
  <2>2. Set(p, u) /\ UNCHANGED locks
    BY <1>1, <1>9, <2>1 DEF Stage, Go
  <2>3. u \in Task
    BY <1>2, <2>1, Names DEF Task
  <2>4. /\ u.pc = "commit" /\ u.kind = t.kind /\ u.alias = t.alias /\ u.other = t.other
        /\ u.then = t.then /\ u.saved = t.saved /\ u.fresh = t.fresh /\ u.live = t.live
        /\ u.follow = t.follow
    BY <1>2, <2>1 DEF Task
  <2>5. Refreshes(u) /\ Place(u) = "commit" /\ ~Bearing(u) /\ u.pc \notin InTxn
    BY <1>3, <2>4 DEF Refreshes, Place, Bearing, InTxn
  <2>6. Shape(u)
    <3>1. KindFits(u) /\ Named(u)
      BY <1>3, <2>4, <2>5 DEF KindFits, Named
    <3>2. Snapshots(u)
      BY <1>3, <2>4, <2>5 DEF Snapshots
    <3> QED
      BY <3>1, <3>2 DEF Shape
  <2>7. Fits(u)'
    BY <1>3, <1>6, <2>4, <2>5 DEF Fits
  <2>8. LockStep(p, u)
    BY <2>2, <2>5, StayLocks DEF IInv
  <2> QED
    BY <1>2, <1>4, <1>6, <1>7, <2>2, <2>3, <2>4, <2>5, <2>6, <2>7, <2>8, Store0, WriteSound
<1> QED
  BY <1>8, <1>9

LEMMA UnstageSound ==
  ASSUME IInv, NEW p \in Proc, Unstage(p)
  PROVE  Sound(p)
<1>1. PICK t : t = tasks[p]
  OBVIOUS
<1>2. /\ t \in Task /\ Shape(t) /\ t.pc = "unstage" /\ txn = p
      /\ Traceable(p, t.saved) /\ Traceable(p, t.fresh)
  BY <1>1, OwnFacts DEF Unstage, At, InTxn
<1>3. t.alias \in Alias
  BY <1>2 DEF Shape, Named, Place, Nameless
<1>4. UNCHANGED <<profiles, archive, live, marker, backups, outside, used>>
      /\ stages' \subseteq stages
  BY DEF Unstage
<1>5. /\ profiles' = profiles /\ archive' = archive /\ live' = live /\ marker' = marker
      /\ backups' = backups /\ stages' \subseteq Cred
  BY <1>4, Store0
<1>6. CASE Return(p)
  BY <1>4, <1>5, <1>6, Store0, WriteReturns
<1>7. CASE ~Return(p)
  <2>1. PICK u : u = [t EXCEPT !.pc = "activate"]
    OBVIOUS
  <2>2. Set(p, u) /\ txn' = Nobody /\ lease' = lease /\ t.kind = "revive"
    BY <1>1, <1>7, <2>1 DEF Unstage, Go
  <2>3. u \in Task
    BY <1>2, <2>1, Names DEF Task
  <2>4. /\ u.pc = "activate" /\ u.kind = "revive" /\ u.alias = t.alias /\ u.other = t.other
        /\ u.saved = t.saved /\ u.fresh = t.fresh
    BY <1>2, <2>1, <2>2 DEF Task
  <2>5. Place(u) = "activate" /\ ~Bearing(u) /\ u.pc \notin InTxn
    BY <2>4 DEF Place, Bearing, InTxn
  <2>6. Shape(u)
    BY <1>3, <2>4, <2>5 DEF Shape, KindFits, Named, Snapshots
  <2>7. Fits(u)'
    BY <2>4 DEF Fits
  <2>8. LockStep(p, u)
    BY <1>2, <2>2, <2>5 DEF LockStep, IInv, TypeOK
  <2> QED
    BY <1>2, <1>4, <1>5, <2>2, <2>3, <2>4, <2>5, <2>6, <2>7, <2>8, Store0, WriteSound
<1> QED
  BY <1>6, <1>7

RegistryStep == [Registry!Next]_(Registry!vars)

LEMMA RegistryRests ==
  ASSUME UNCHANGED <<profiles, archive, spent>>
  PROVE  RegistryStep
BY DEF RegistryStep, Registry!vars

(* A credential that renews a profile, or begins one for a new account.     *)
LEMMA RegistryWrite ==
  ASSUME TypeOK, NEW a \in Alias, NEW c \in Cred,
         profiles' = [profiles EXCEPT ![a] = c], UNCHANGED <<archive, spent>>,
         \/ profiles[a] = NoCred /\ Holders(c.account) = {}
         \/ /\ profiles[a] # NoCred /\ c.account = profiles[a].account
            /\ c.gen >= profiles[a].gen \/ c \notin spent
  PROVE  RegistryStep
<1>1. c \in Registry!Cred
  BY DEF Registry!Cred, Cred
<1>2. CASE profiles[a] = NoCred /\ Holders(c.account) = {}
  <2>1. \A b \in Alias : profiles[b] # NoCred => profiles[b].account # c.account
    BY <1>2 DEF Holders
  <2>2. Registry!Create(a, c)
    BY <1>2, <2>1 DEF Registry!Create, Registry!Saved
  <2> QED
    BY <1>1, <2>2 DEF RegistryStep, Registry!Next
<1>3. CASE /\ profiles[a] # NoCred /\ c.account = profiles[a].account
           /\ c.gen >= profiles[a].gen \/ c \notin spent
  <2>1. Registry!Renew(a, c)
    BY <1>3 DEF Registry!Renew, Registry!Saved
  <2> QED
    BY <1>1, <2>1 DEF RegistryStep, Registry!Next
<1> QED
  BY <1>2, <1>3

LEMMA ProfileWritten ==
  ASSUME IInv, NEW p \in Proc, NEW t, t = tasks[p], NEW a \in Alias, t.fresh \in Cred,
         profiles' = [profiles EXCEPT ![a] = t.fresh]
  PROVE  /\ profiles' \in [Alias -> CredOrNone] /\ profiles'[a] = t.fresh
         /\ \A b \in Alias : b # a => profiles'[b] = profiles[b]
         /\ \A b \in Alias : HadOrRead(p, profiles'[b])
<1>1. profiles \in [Alias -> CredOrNone] /\ t.fresh \in CredOrNone
  BY Store0, Creds
<1>2. /\ profiles' \in [Alias -> CredOrNone] /\ profiles'[a] = t.fresh
      /\ \A b \in Alias : b # a => profiles'[b] = profiles[b]
  BY <1>1
<1>3. HadOrRead(p, t.fresh) /\ \A b \in Alias : HadOrRead(p, profiles[b])
  BY DEF HadOrRead
<1> QED
  BY <1>2, <1>3

(* The facts a writer may rely on.                                          *)
LEMMA AtWrite ==
  ASSUME IInv, NEW p \in Proc, NEW t, t = tasks[p], t.pc = "write"
  PROVE  /\ t \in Task /\ Shape(t) /\ Fits(t) /\ Renews(t) /\ txn = p
         /\ t.alias \in Alias /\ t.fresh \in Cred
         /\ Refreshes(t) \/ t.kind \in {"save", "login", "reauth"}
         /\ t.follow /\ (Refreshes(t) \/ t.kind = "reauth")
              => t.live # NoCred /\ t.live.account = t.fresh.account
         /\ t.kind \in {"login", "reauth"} => t.fresh \notin spent
<1>1. t \in Task /\ Shape(t) /\ Fits(t) /\ txn = p
  BY OwnFacts DEF InTxn
<1>2. /\ t.alias \in Alias /\ t.fresh \in Cred /\ Renews(t)
      /\ Refreshes(t) \/ t.kind \in {"save", "login", "reauth"}
      /\ t.follow /\ (Refreshes(t) \/ t.kind = "reauth")
              => t.live # NoCred /\ t.live.account = t.fresh.account
  BY <1>1 DEF Shape, KindFits, Named, Snapshots, Place, Nameless, Fits
<1>3. t.kind \in {"login", "reauth"} => t.fresh \notin spent
  <2> HAVE t.kind \in {"login", "reauth"}
  <2>1. Bearing(t)
    BY DEF Bearing, Place
  <2> QED
    BY <2>1 DEF IInv, Private, Elsewhere
<1> QED
  BY <1>1, <1>2, <1>3

LEMMA WriteStep ==
  ASSUME IInv, NEW p \in Proc, Write(p)
  PROVE  Sound(p) /\ RegistryStep
<1>1. PICK t : t = tasks[p]
  OBVIOUS
<1>2. t.pc = "write"
  BY <1>1 DEF Write, At
<1>3. /\ t \in Task /\ Shape(t) /\ Fits(t) /\ Renews(t) /\ txn = p
      /\ t.alias \in Alias /\ t.fresh \in Cred
      /\ Refreshes(t) \/ t.kind \in {"save", "login", "reauth"}
      /\ t.follow /\ (Refreshes(t) \/ t.kind = "reauth")
           => t.live # NoCred /\ t.live.account = t.fresh.account
      /\ t.kind \in {"login", "reauth"} => t.fresh \notin spent
  BY <1>1, <1>2, AtWrite
<1>4. UNCHANGED <<stages, archive, live, marker, backups, outside, used>>
  BY DEF Write
<1>5. /\ stages' = stages /\ archive' = archive /\ live' = live /\ marker' = marker
      /\ backups' = backups /\ spent' = spent
  BY <1>4 DEF outside
<1>6. CASE profiles' = [profiles EXCEPT ![t.alias] = t.fresh]
  <2>1. /\ profiles' \in [Alias -> CredOrNone] /\ profiles'[t.alias] = t.fresh
        /\ \A b \in Alias : HadOrRead(p, profiles'[b])
    BY <1>1, <1>3, <1>6, ProfileWritten
  <2>2. RegistryStep
    <3>1. \/ profiles[t.alias] = NoCred /\ Holders(t.fresh.account) = {}
          \/ /\ profiles[t.alias] # NoCred /\ t.fresh.account = profiles[t.alias].account
             /\ t.fresh.gen >= profiles[t.alias].gen \/ t.fresh \notin spent
      BY <1>3 DEF Renews
    <3> QED
      BY <1>3, <1>5, <1>6, <3>1, RegistryWrite DEF IInv
  <2>3. CASE Return(p)
    BY <1>3, <1>4, <1>5, <2>1, <2>2, <2>3, Store0, WriteReturns
  <2>4. CASE ~Return(p)
    <3>1. PICK l : l = AfterWrite(t)
      OBVIOUS
    <3>2. PICK u : u = [t EXCEPT !.pc = l]
      OBVIOUS
    <3>3. Set(p, u) /\ UNCHANGED locks
      <4>1. Go(p, AfterWrite(t)) /\ UNCHANGED locks
        BY <1>1, <1>3, <1>6, <2>1, <2>4 DEF Write
      <4> QED
        BY <1>1, <3>1, <3>2, <4>1 DEF Go
    <3>4. /\ l \in {"swap", "unstage", "repair"} /\ l \in Locations
          /\ l = "swap" => t.follow
          /\ l = "unstage" => Refreshes(t)
      BY <3>1, Names DEF AfterWrite
    <3>5. u \in Task
      BY <1>3, <3>2, <3>4 DEF Task
    <3>6. /\ u.pc = l /\ u.kind = t.kind /\ u.alias = t.alias /\ u.other = t.other
          /\ u.then = t.then /\ u.saved = t.saved /\ u.fresh = t.fresh /\ u.live = t.live
          /\ u.follow = t.follow
      BY <1>3, <3>2 DEF Task
    <3>7. (Refreshes(u) <=> Refreshes(t)) /\ Place(u) = l /\ ~Bearing(u)
      BY <3>4, <3>6 DEF Refreshes, Place, Bearing
    <3>8. Shape(u)
      <4>1. KindFits(u)
        BY <3>4, <3>6, <3>7 DEF KindFits
      <4>2. Named(u)
        BY <1>3, <3>4, <3>6, <3>7 DEF Named, Shape
      <4>3. Snapshots(u)
        BY <1>3, <3>4, <3>6, <3>7 DEF Snapshots
      <4> QED
        BY <4>1, <4>2, <4>3 DEF Shape
    <3>9. Fits(u)'
      BY <2>1, <3>4, <3>6 DEF Fits
    <3>10. LockStep(p, u)
      BY <1>3, <3>3, StayLocks DEF IInv
    <3>11. Traceable(p, u.saved) /\ Traceable(p, u.fresh)
      BY <1>1, <3>6, OwnFacts
    <3> QED
      BY <1>3, <1>4, <1>5, <2>1, <2>2, <3>3, <3>5, <3>7, <3>8, <3>9, <3>10, <3>11, Store0,
         WriteSound
  <2> QED
    BY <2>3, <2>4
<1>7. CASE ~(profiles' = [profiles EXCEPT ![t.alias] = t.fresh])
  <2>1. Return(p) /\ profiles' = profiles
    BY <1>1, <1>7 DEF Write
  <2>2. Sound(p)
    BY <1>4, <1>5, <2>1, Store0, WriteReturns
  <2> QED
    BY <1>5, <2>1, <2>2, RegistryRests
<1> QED
  BY <1>6, <1>7

LEMMA SwapStep ==
  ASSUME IInv, NEW p \in Proc, Swap(p)
  PROVE  Sound(p) /\ RegistryStep
<1>1. PICK t : t = tasks[p]
  OBVIOUS
<1>2. /\ t \in Task /\ Shape(t) /\ Fits(t) /\ t.pc = "swap" /\ txn = p
      /\ Traceable(p, t.saved) /\ Traceable(p, t.fresh)
  BY <1>1, OwnFacts DEF Swap, At, InTxn
<1>3. t.alias \in Alias /\ t.fresh \in Cred /\ t.fresh \in CredOrNone
      /\ (t.kind \in {"auto", "rename"} => t.other \in Alias)
  BY <1>2, Creds DEF Shape, Named, Snapshots, Place, Nameless
<1>4. UNCHANGED <<registry, marker, outside, used>>
  BY DEF Swap
<1>5. /\ profiles' = profiles /\ stages' = stages /\ archive' = archive /\ marker' = marker
      /\ spent' = spent /\ UNCHANGED <<outside, used>>
  BY <1>4 DEF registry, outside
<1>6. /\ live' \in {live, t.fresh} /\ live' \in CredOrNone
      /\ backups' \subseteq Cred
  <2>1. live' \in {live, t.fresh} /\ backups' \in {backups, backups \cup Retained(live)}
    BY <1>1 DEF Swap
  <2>2. Retained(live) \subseteq Cred
    BY Store0 DEF Retained, CredOrNone
  <2> QED
    BY <1>3, <2>1, <2>2, Store0
<1>7. PICK u \in Task : /\ Shape(u) /\ Fits(u) /\ Set(p, u) /\ LockStep(p, u) /\ ~Bearing(u)
                        /\ Traceable(p, u.saved) /\ Traceable(p, u.fresh)
  <2>1. CASE \E v \in {t, Failed(t)} : Finish(p, v)
    BY <1>1, <1>2, <2>1, FinishFits
  <2>2. CASE Go(p, "mark") /\ UNCHANGED locks
    <3>1. PICK u : u = [t EXCEPT !.pc = "mark"]
      OBVIOUS
    <3>2. Set(p, u) /\ UNCHANGED locks
      BY <1>1, <2>2, <3>1 DEF Go
    <3>3. u \in Task
      BY <1>2, <3>1, Names DEF Task
    <3>4. /\ u.pc = "mark" /\ u.kind = t.kind /\ u.alias = t.alias /\ u.other = t.other
          /\ u.then = t.then /\ u.saved = t.saved /\ u.fresh = t.fresh
      BY <1>2, <3>1 DEF Task
    <3>5. (Refreshes(u) <=> Refreshes(t)) /\ Place(u) = "mark" /\ ~Bearing(u)
      BY <3>4 DEF Refreshes, Place, Bearing
    <3>6. Shape(u)
      BY <1>3, <3>4, <3>5 DEF Shape, KindFits, Named, Snapshots
    <3>7. Fits(u)
      BY <1>2, <3>4, <3>5 DEF Fits
    <3>8. LockStep(p, u)
      BY <1>2, <3>2, StayLocks DEF IInv
    <3> QED
      BY <1>2, <3>2, <3>3, <3>4, <3>5, <3>6, <3>7, <3>8
  <2> QED
    BY <1>1, <2>1, <2>2 DEF Swap
<1>8. Fits(u)'
  BY <1>5, <1>7, FitsStable
<1>9. Sound(p)
  BY <1>1, <1>5, <1>6, <1>7, <1>8, Store0, WriteSound
<1> QED
  BY <1>5, <1>9, RegistryRests

LEMMA CopyStep ==
  ASSUME IInv, NEW p \in Proc, Copy(p)
  PROVE  Sound(p) /\ RegistryStep
<1>1. PICK t : t = tasks[p]
  OBVIOUS
<1>2. /\ t \in Task /\ Shape(t) /\ Fits(t) /\ t.pc = "copy" /\ txn = p
      /\ Traceable(p, t.saved) /\ Traceable(p, t.fresh)
  BY <1>1, OwnFacts DEF Copy, At, InTxn
<1>3. /\ t.alias \in Alias /\ t.fresh \in Cred /\ t.kind \in {"sync", "readback"}
      /\ profiles[t.alias] # NoCred
  BY <1>2 DEF Shape, KindFits, Named, Snapshots, Place, Nameless, Fits
<1>4. UNCHANGED <<stages, archive, live, marker, backups, outside, used>>
  BY DEF Copy
<1>5. /\ stages' = stages /\ archive' = archive /\ live' = live /\ marker' = marker
      /\ backups' = backups /\ spent' = spent
  BY <1>4 DEF outside
<1>6. CASE Adoptable(profiles[t.alias], t.fresh)
           /\ profiles' = [profiles EXCEPT ![t.alias] = t.fresh]
  <2>1. /\ profiles' \in [Alias -> CredOrNone] /\ profiles'[t.alias] = t.fresh
        /\ \A b \in Alias : HadOrRead(p, profiles'[b])
    BY <1>1, <1>3, <1>6, ProfileWritten
  <2>2. RegistryStep
    <3>1. profiles[t.alias] \in Cred
      BY <1>3, Store0 DEF CredOrNone
    <3>2. /\ profiles[t.alias] # NoCred /\ t.fresh.account = profiles[t.alias].account
          /\ t.fresh.gen >= profiles[t.alias].gen
      BY <1>3, <1>6, <3>1 DEF Adoptable, Cred
    <3> QED
      BY <1>3, <1>5, <1>6, <3>2, RegistryWrite DEF IInv
  <2>3. CASE Return(p)
    BY <1>2, <1>4, <1>5, <2>1, <2>2, <2>3, Store0, WriteReturns
  <2>4. CASE ~Return(p)
    <3>1. PICK u : u = [t EXCEPT !.pc = "recheck"]
      OBVIOUS
    <3>2. Set(p, u) /\ UNCHANGED locks
      BY <1>1, <2>4, <3>1 DEF Copy, Go
    <3>3. u \in Task
      BY <1>2, <3>1, Names DEF Task
    <3>4. /\ u.pc = "recheck" /\ u.kind = t.kind /\ u.alias = t.alias /\ u.other = t.other
          /\ u.saved = t.saved /\ u.fresh = t.fresh
      BY <1>2, <3>1 DEF Task
    <3>5. ~Refreshes(u) /\ Place(u) = "recheck" /\ ~Bearing(u)
      BY <1>3, <3>4 DEF Refreshes, Place, Bearing
    <3>6. Shape(u)
      BY <1>3, <3>4, <3>5 DEF Shape, KindFits, Named, Snapshots
    <3>7. Fits(u)'
      BY <1>3, <2>1, <3>4, Constants DEF Fits
    <3>8. LockStep(p, u)
      BY <1>2, <3>2, StayLocks DEF IInv
    <3> QED
      BY <1>2, <1>4, <1>5, <2>1, <2>2, <3>2, <3>3, <3>4, <3>5, <3>6, <3>7, <3>8, Store0,
         WriteSound
  <2> QED
    BY <2>3, <2>4
<1>7. CASE ~(Adoptable(profiles[t.alias], t.fresh)
             /\ profiles' = [profiles EXCEPT ![t.alias] = t.fresh])
  <2>1. Return(p) /\ profiles' = profiles
    BY <1>1, <1>7 DEF Copy
  <2>2. Sound(p)
    BY <1>4, <1>5, <2>1, Store0, WriteReturns
  <2> QED
    BY <1>5, <2>1, <2>2, RegistryRests
<1> QED
  BY <1>6, <1>7

(* Deleting: the profile and its credential go to the archive.              *)
LEMMA ArchiveStep ==
  ASSUME IInv, NEW p \in Proc, Archive(p)
  PROVE  Sound(p) /\ RegistryStep
<1>1. PICK t : t = tasks[p]
  OBVIOUS
<1>2. t \in Task /\ Shape(t) /\ Fits(t) /\ t.pc = "archive" /\ txn = p
  BY <1>1, OwnFacts DEF Archive, At, InTxn
<1>3. t.alias \in Alias /\ profiles[t.alias] # NoCred /\ t.marker \in AliasOrNone
  BY <1>2, TaskTypes DEF Shape, Named, Place, Nameless, Fits
<1>4. Return(p) /\ UNCHANGED <<stages, live, backups, outside, used>>
      /\ stages' = stages /\ live' = live /\ backups' = backups /\ spent' = spent
  BY DEF Archive, outside
<1>5. marker' \in AliasOrNone
  <2>1. marker' \in {marker, t.marker}
    BY <1>1 DEF Archive
  <2> QED
    BY <1>3, <2>1, Store0
<1>6. CASE /\ archive' = archive \cup {profiles[t.alias]}
           /\ profiles' = [profiles EXCEPT ![t.alias] = NoCred]
  <2>1. profiles' \in [Alias -> CredOrNone] /\ archive' \subseteq Cred
    BY <1>3, <1>6, Store0 DEF CredOrNone
  <2>2. \A b \in Alias : HadOrRead(p, profiles'[b])
    BY <1>6, Store0 DEF HadOrRead
  <2>3. Registry!Archive(t.alias)
    BY <1>3, <1>4, <1>6 DEF Registry!Archive, Registry!Saved
  <2>4. RegistryStep
    BY <1>3, <2>3 DEF RegistryStep, Registry!Next
  <2> QED
    BY <1>2, <1>4, <1>5, <2>1, <2>2, <2>4, Store0, WriteReturns
<1>7. CASE profiles' = profiles /\ archive' = archive
  BY <1>4, <1>5, <1>7, Store0, WriteReturns, RegistryRests
<1> QED
  BY <1>1, <1>6, <1>7 DEF Archive

(* Renaming, and taking a name back.                                        *)
LEMMA MovedFits ==
  ASSUME IInv, NEW p \in Proc, NEW a \in Alias, NEW b \in Alias, profiles[a] # NoCred,
         profiles[b] = NoCred, profiles' = Moved(a, b)
  PROVE  /\ profiles' \in [Alias -> CredOrNone] /\ profiles'[a] = NoCred
         /\ profiles'[b] = profiles[a]
         /\ \A c \in Alias : HadOrRead(p, profiles'[c])
         /\ UNCHANGED <<archive, spent>> => RegistryStep
<1>1. profiles' = [profiles EXCEPT ![b] = profiles[a], ![a] = NoCred] /\ a # b
  BY DEF Moved
<1>2. profiles \in [Alias -> CredOrNone] /\ NoCred \in CredOrNone
  BY Store0 DEF CredOrNone
<1>3. /\ profiles' \in [Alias -> CredOrNone] /\ profiles'[a] = NoCred
      /\ profiles'[b] = profiles[a]
      /\ \A c \in Alias : c # a /\ c # b => profiles'[c] = profiles[c]
  BY <1>1, <1>2
<1>4. \A c \in Alias : HadOrRead(p, profiles'[c])
  BY <1>3 DEF HadOrRead
<1>5. ASSUME UNCHANGED <<archive, spent>> PROVE RegistryStep
  <2>1. Registry!Move(a, b)
    BY <1>1, <1>5 DEF Registry!Move, Registry!Saved
  <2> QED
    BY <2>1 DEF RegistryStep, Registry!Next
<1> QED
  BY <1>3, <1>4, <1>5

LEMMA MoveStep ==
  ASSUME IInv, NEW p \in Proc, Move(p)
  PROVE  Sound(p) /\ RegistryStep
<1>1. PICK t : t = tasks[p]
  OBVIOUS
<1>2. /\ t \in Task /\ Shape(t) /\ Fits(t) /\ t.pc = "move" /\ txn = p
      /\ Traceable(p, t.saved) /\ Traceable(p, t.fresh)
  BY <1>1, OwnFacts DEF Move, At, InTxn
<1>3. /\ t.alias \in Alias /\ t.other \in Alias
      /\ profiles[t.alias] # NoCred /\ profiles[t.other] = NoCred
  BY <1>2 DEF Shape, Named, Place, Nameless, Fits
<1>4. UNCHANGED <<stages, archive, live, marker, backups, outside, used>>
  BY DEF Move
<1>5. /\ stages' = stages /\ archive' = archive /\ live' = live /\ marker' = marker
      /\ backups' = backups /\ spent' = spent
  BY <1>4 DEF outside
<1>6. CASE profiles' = Moved(t.alias, t.other)
  <2>1. /\ profiles' \in [Alias -> CredOrNone] /\ profiles'[t.alias] = NoCred
        /\ profiles'[t.other] # NoCred
        /\ \A c \in Alias : HadOrRead(p, profiles'[c])
        /\ RegistryStep
    BY <1>3, <1>5, <1>6, MovedFits
  <2>2. CASE Return(p)
    BY <1>2, <1>4, <1>5, <2>1, <2>2, Store0, WriteReturns
  <2>3. CASE ~Return(p)
    <3>1. PICK u : u = [t EXCEPT !.pc = "remark"]
      OBVIOUS
    <3>2. Set(p, u) /\ UNCHANGED locks
      BY <1>1, <2>3, <3>1 DEF Move, Go
    <3>3. u \in Task
      BY <1>2, <3>1, Names DEF Task
    <3>4. /\ u.pc = "remark" /\ u.kind = t.kind /\ u.alias = t.alias /\ u.other = t.other
          /\ u.saved = t.saved /\ u.fresh = t.fresh
      BY <1>2, <3>1 DEF Task
    <3>5. Place(u) = "remark" /\ ~Bearing(u)
      BY <3>4 DEF Place, Bearing
    <3>6. Shape(u)
      BY <1>3, <3>4, <3>5 DEF Shape, KindFits, Named, Snapshots
    <3>7. Fits(u)'
      BY <2>1, <3>4 DEF Fits
    <3>8. LockStep(p, u)
      BY <1>2, <3>2, StayLocks DEF IInv
    <3> QED
      BY <1>2, <1>4, <1>5, <2>1, <3>2, <3>3, <3>4, <3>5, <3>6, <3>7, <3>8, Store0, WriteSound
  <2> QED
    BY <2>2, <2>3
<1>7. CASE profiles' # Moved(t.alias, t.other)
  <2>1. Return(p) /\ profiles' = profiles
    BY <1>1, <1>7 DEF Move
  <2>2. Sound(p)
    BY <1>4, <1>5, <2>1, Store0, WriteReturns
  <2> QED
    BY <1>5, <2>1, <2>2, RegistryRests
<1> QED
  BY <1>6, <1>7

LEMMA RemarkStep ==
  ASSUME IInv, NEW p \in Proc, Remark(p)
  PROVE  Sound(p) /\ RegistryStep
<1>1. PICK t : t = tasks[p]
  OBVIOUS
<1>2. t \in Task /\ Shape(t) /\ Fits(t) /\ t.pc = "remark" /\ txn = p
  BY <1>1, OwnFacts DEF Remark, At, InTxn
<1>3. /\ t.alias \in Alias /\ t.other \in Alias /\ t.marker \in AliasOrNone
      /\ profiles[t.other] # NoCred /\ profiles[t.alias] = NoCred
  BY <1>2, TaskTypes DEF Shape, Named, Place, Nameless, Fits
<1>4. /\ Return(p) /\ UNCHANGED <<stages, archive, live, backups, outside, used>>
      /\ stages' = stages /\ archive' = archive /\ live' = live /\ backups' = backups
      /\ spent' = spent
  BY DEF Remark, outside
<1>5. marker' \in AliasOrNone
  <2>1. \/ marker' \in {t.other, marker, t.marker}
        \/ ~Undecided(live) /\ marker' = RepairedMarker
    BY <1>1 DEF Remark
  <2> QED
    BY <1>3, <2>1, Store0, RepairedMarkerType DEF AliasOrNone
<1>6. CASE profiles' = profiles
  BY <1>4, <1>5, <1>6, Store0, WriteReturns, RegistryRests
<1>7. CASE profiles' = Moved(t.other, t.alias)
  <2>1. /\ profiles' \in [Alias -> CredOrNone]
        /\ \A c \in Alias : HadOrRead(p, profiles'[c])
        /\ RegistryStep
    BY <1>3, <1>4, <1>7, MovedFits
  <2> QED
    BY <1>2, <1>4, <1>5, <2>1, Store0, WriteReturns
<1> QED
  BY <1>1, <1>6, <1>7 DEF Remark

(* Filing a credential as a new profile.                                    *)
LEMMA FileNewStep ==
  ASSUME IInv, NEW p \in Proc, NEW t, t = tasks[p], t.fresh \in Cred, t.other \in AliasOrNone,
         txn \in {p, Nobody}, FileNew(p)
  PROVE  Sound(p) /\ RegistryStep
<1>1. /\ Return(p) /\ UNCHANGED <<archive, live, marker, backups, outside, used>>
      /\ archive' = archive /\ live' = live /\ marker' = marker /\ backups' = backups
      /\ spent' = spent
  BY DEF FileNew, outside
<1>2. stages' \subseteq Cred
  <2>1. stages' \subseteq stages
    BY DEF FileNew
  <2> QED
    BY <2>1, Store0
<1>3. CASE profiles' = profiles
  BY <1>1, <1>2, <1>3, Store0, WriteReturns, RegistryRests
<1>4. CASE profiles' # profiles
  <2>1. PICK a \in Unnamed(t.other) : profiles' = [profiles EXCEPT ![a] = t.fresh]
    BY <1>4 DEF FileNew
  <2>2. Holders(t.fresh.account) = {}
    BY <1>4 DEF FileNew, Unheld
  <2>3. a \in Alias /\ profiles[a] = NoCred
    BY <2>1 DEF Unnamed
  <2>4. /\ profiles' \in [Alias -> CredOrNone]
        /\ \A b \in Alias : HadOrRead(p, profiles'[b])
    BY <2>1, <2>3, ProfileWritten
  <2>5. RegistryStep
    BY <1>1, <2>1, <2>2, <2>3, RegistryWrite DEF IInv
  <2> QED
    BY <1>1, <1>2, <2>4, <2>5, Store0, WriteReturns
<1> QED
  BY <1>3, <1>4

LEMMA FilingStep ==
  ASSUME IInv, NEW p \in Proc, Install(p) \/ Refile(p)
  PROVE  Sound(p) /\ RegistryStep
<1>1. PICK t : t = tasks[p]
  OBVIOUS
<1>2. t \in Task /\ Shape(t) /\ t.pc \in {"install", "refile"} /\ FileNew(p)
  BY <1>1, OwnFacts DEF Install, Refile, Look, At
<1>3. txn \in {p, Nobody}
  BY <1>1, OwnFacts DEF Install, Refile, Look, At, InTxn
<1>4. t.fresh \in Cred /\ t.other \in AliasOrNone
  BY <1>2, TaskTypes DEF Shape, Snapshots, Place
<1> QED
  BY <1>1, <1>2, <1>3, <1>4, FileNewStep

LEMMA RescueStep ==
  ASSUME IInv, NEW p \in Proc, Rescue(p)
  PROVE  Sound(p) /\ RegistryStep
<1>1. PICK t : t = tasks[p]
  OBVIOUS
<1>2. /\ t \in Task /\ Shape(t) /\ t.pc = "rescue"
      /\ Traceable(p, t.saved) /\ Traceable(p, t.fresh)
  BY <1>1, OwnFacts DEF Rescue, At
<1>3. /\ t.fresh \in Cred
      /\ (t.kind = "reauth" => t.alias \in Alias)
      /\ (t.kind \in {"auto", "rename"} => t.other \in Alias)
  BY <1>2 DEF Shape, Named, Snapshots, Place
<1>4. UNCHANGED <<profiles, archive, live, marker, backups, outside, used>>
  BY DEF Rescue
<1>5. /\ profiles' = profiles /\ archive' = archive /\ live' = live /\ marker' = marker
      /\ backups' = backups /\ spent' = spent
  BY <1>4 DEF outside
<1>6. stages' \subseteq Cred
  BY <1>1, <1>3, Store0 DEF Rescue
<1>7. Sound(p)
  <2>1. CASE Return(p)
    BY <1>4, <1>5, <1>6, <2>1, Store0, WriteReturns
  <2>2. CASE ~Return(p)
    <3>1. PICK u : u = [t EXCEPT !.pc = "refile"]
      OBVIOUS
    <3>2. Set(p, u) /\ UNCHANGED locks
      BY <1>1, <2>2, <3>1 DEF Rescue, Go
    <3>3. u \in Task
      BY <1>2, <3>1, Names DEF Task
    <3>4. /\ u.pc = "refile" /\ u.kind = t.kind /\ u.alias = t.alias /\ u.other = t.other
          /\ u.saved = t.saved /\ u.fresh = t.fresh
      BY <1>2, <3>1 DEF Task
    <3>5. Place(u) = "refile" /\ ~Bearing(u) /\ u.pc \notin InTxn
      BY <3>4 DEF Place, Bearing, InTxn
    <3>6. Shape(u)
      BY <1>3, <3>4, <3>5 DEF Shape, KindFits, Named, Snapshots, Nameless
    <3>7. Fits(u)'
      BY <3>4 DEF Fits
    <3>8. LockStep(p, u)
      BY <3>2, <3>5, StayLocks DEF IInv
    <3> QED
      BY <1>2, <1>4, <1>5, <1>6, <3>2, <3>3, <3>4, <3>5, <3>6, <3>7, <3>8, Store0, WriteSound
  <2> QED
    BY <2>1, <2>2
<1> QED
  BY <1>5, <1>7, RegistryRests

(* The authorization server: a token is presented, a credential issued.     *)
LEMMA ServerSound ==
  ASSUME IInv, NEW p \in Proc, NEW u \in Task, Shape(u), Fits(u)', Set(p, u), LockStep(p, u),
         UNCHANGED <<profiles, archive, live, marker, backups, codex, used>>,
         stages' \subseteq Cred, spent \subseteq spent', spent' \subseteq Cred,
         spent' \subseteq spent \cup {tasks[p].saved},
         issued' \in [Account -> 1..MaxIssued], \A x \in Account : issued'[x] >= issued[x],
         Traceable(p, u.saved), Traceable(p, u.fresh),
         Bearing(u) => spent' = spent /\ JustIssued(u.fresh)
  PROVE  Sound(p)
<1>1. /\ profiles' = profiles /\ archive' = archive /\ live' = live /\ marker' = marker
      /\ backups' = backups /\ codex' = codex /\ used' = used
  OBVIOUS
<1>2. tasks' \in [Proc -> Task]
  BY DEF Set, IInv, TypeOK
<1>3. TypeOK'
  BY <1>1, <1>2 DEF LockStep, IInv, TypeOK
<1>4. \A a \in Alias : HadOrRead(p, profiles'[a])
  BY <1>1, Store0
<1>5. StillPrivate(p, u)
  BY <1>1 DEF StillPrivate
<1>6. Turn(p, u)
  BY <1>1, <1>4, <1>5 DEF Turn
<1> QED
  BY <1>3, <1>6 DEF Sound

LEMMA IssueFits ==
  ASSUME IInv, NEW x \in Account, Issues(x), NEW c, c = Issue(x)
  PROVE  /\ c \in Cred /\ JustIssued(c) /\ c.account = x /\ c.gen = issued[x] + 1
         /\ issued' \in [Account -> 1..MaxIssued] /\ \A y \in Account : issued'[y] >= issued[y]
<1>1. issued \in [Account -> 1..MaxIssued] /\ MaxIssued \in Nat
  BY Constants DEF IInv, TypeOK
<1>2. issued[x] < MaxIssued /\ issued' = [issued EXCEPT ![x] = issued[x] + 1]
  BY DEF Issues, CanIssue
<1>3. issued[x] \in 1..MaxIssued /\ issued[x] + 1 \in 1..MaxIssued
  BY <1>1, <1>2
<1>4. issued'[x] = issued[x] + 1 /\ \A y \in Account : y # x => issued'[y] = issued[y]
  BY <1>1, <1>2
<1>5. issued' \in [Account -> 1..MaxIssued]
  BY <1>1, <1>2, <1>3
<1>6. \A y \in Account : issued'[y] >= issued[y]
  BY <1>1, <1>3, <1>4
<1>7. c \in Cred /\ c.account = x /\ c.gen = issued[x] + 1
  BY <1>3 DEF Issue, Cred
<1>8. JustIssued(c)
  BY <1>3, <1>4, <1>7 DEF JustIssued
<1> QED
  BY <1>5, <1>6, <1>7, <1>8

LEMMA IssuedStays ==
  ASSUME IInv, issued' = issued
  PROVE  issued' \in [Account -> 1..MaxIssued] /\ \A y \in Account : issued'[y] >= issued[y]
BY DEF IInv, TypeOK

LEMMA RegistrySpend ==
  ASSUME NEW c \in Cred, spent' = spent \cup {c}, UNCHANGED <<profiles, archive>>
  PROVE  RegistryStep
<1>1. c \in Registry!Cred /\ Registry!Spend(c)
  BY DEF Registry!Cred, Cred, Registry!Spend
<1> QED
  BY <1>1 DEF RegistryStep, Registry!Next

LEMMA IdleTraceable ==
  ASSUME NEW p \in Proc
  PROVE  Traceable(p, Idle.saved) /\ Traceable(p, Idle.fresh)
BY IdleFits DEF Traceable, HadOrRead

LEMMA PresentStep ==
  ASSUME IInv, NEW p \in Proc, Present(p)
  PROVE  Sound(p) /\ RegistryStep
<1>1. PICK t : t = tasks[p]
  OBVIOUS
<1>2. /\ t \in Task /\ Shape(t) /\ t.pc = "present"
      /\ Traceable(p, t.saved) /\ Traceable(p, t.fresh)
  BY <1>1, OwnFacts DEF Present, At
<1>3. /\ t.alias \in Alias /\ Refreshes(t) /\ t.saved \in Cred /\ t.saved.account \in Account
      /\ t.follow => t.live # NoCred /\ t.live.account = t.saved.account
      /\ t.kind \in {"auto", "rename"} => t.other \in Alias
  BY <1>2, Creds DEF Shape, KindFits, Named, Snapshots, Place, Nameless
<1>4. UNCHANGED <<disk, codex, used>>
  BY DEF Present
<1>5. /\ UNCHANGED <<profiles, archive, live, marker, backups, codex, used>>
      /\ stages' = stages
  BY <1>4 DEF disk, registry
<1>6. stages' \subseteq Cred /\ spent \subseteq Cred
  BY <1>5, Store0
<1>7. CASE Return(p) /\ spent' = spent /\ issued' = issued
  <2>1. Set(p, Idle) /\ LockStep(p, Idle)
    BY <1>7, ReturnLocks DEF IInv
  <2>2. Sound(p)
    BY <1>5, <1>6, <1>7, <2>1, IdleFits, IdleTraceable, IssuedStays, ServerSound
  <2> QED
    BY <1>5, <1>7, <2>2, RegistryRests
<1>8. CASE spent' = spent \cup {t.saved} /\ Issues(t.saved.account)
  <2>1. PICK c : c = Issue(t.saved.account)
    OBVIOUS
  <2>2. /\ c \in Cred /\ JustIssued(c) /\ c.account = t.saved.account
        /\ c.gen = issued[t.saved.account] + 1
        /\ issued' \in [Account -> 1..MaxIssued] /\ \A y \in Account : issued'[y] >= issued[y]
    BY <1>3, <1>8, <2>1, IssueFits
  <2>3. c.gen > t.saved.gen
    <3>1. Old(t.saved)
      BY <1>1 DEF IInv, AllOld
    <3>2. t.saved.gen <= issued[t.saved.account] /\ t.saved.gen \in Nat
      BY <1>3, <3>1, Constants DEF Old, Cred
    <3>3. issued[t.saved.account] \in Nat
      BY <1>3, Store0
    <3> QED
      BY <2>2, <3>2, <3>3
  <2>4. /\ spent \subseteq spent' /\ spent' \subseteq Cred /\ spent' \subseteq spent \cup {tasks[p].saved}
        /\ RegistryStep
    BY <1>1, <1>3, <1>5, <1>6, <1>8, RegistrySpend
  <2>5. CASE Return(p)
    <3>1. Set(p, Idle) /\ LockStep(p, Idle)
      BY <2>5, ReturnLocks DEF IInv
    <3>2. Sound(p)
      BY <1>5, <1>6, <2>2, <2>4, <3>1, IdleFits, IdleTraceable, ServerSound
    <3> QED
      BY <2>4, <3>2
  <2>6. CASE ~Return(p)
    <3>1. PICK u : u = [t EXCEPT !.pc = "stage", !.fresh = c]
      OBVIOUS
    <3>2. Set(p, u) /\ UNCHANGED locks
      BY <1>1, <2>1, <2>6, <3>1 DEF Present
    <3>3. u \in Task
      BY <1>2, <2>2, <3>1, Names, Creds DEF Task
    <3>4. /\ u.pc = "stage" /\ u.kind = t.kind /\ u.alias = t.alias /\ u.other = t.other
          /\ u.then = t.then /\ u.saved = t.saved /\ u.fresh = c /\ u.live = t.live
          /\ u.follow = t.follow
      BY <1>2, <3>1 DEF Task
    <3>5. Refreshes(u) /\ Place(u) = "stage" /\ ~Bearing(u) /\ u.pc \notin InTxn
      BY <1>3, <3>4 DEF Refreshes, Place, Bearing, InTxn
    <3>6. Shape(u)
      <4>1. KindFits(u) /\ Named(u)
        BY <1>3, <3>4, <3>5 DEF KindFits, Named
      <4>2. Snapshots(u)
        BY <1>3, <2>2, <2>3, <3>4, <3>5 DEF Snapshots
      <4> QED
        BY <4>1, <4>2 DEF Shape
    <3>7. Fits(u)'
      BY <1>8, <3>4 DEF Fits
    <3>8. LockStep(p, u)
      BY <3>2, <3>5, StayLocks DEF IInv
    <3>9. Traceable(p, u.saved) /\ Traceable(p, u.fresh)
      BY <1>2, <2>2, <3>4 DEF Traceable
    <3>10. Sound(p)
      BY <1>5, <1>6, <2>2, <2>4, <3>2, <3>3, <3>5, <3>6, <3>7, <3>8, <3>9, ServerSound
    <3> QED
      BY <2>4, <3>10
  <2> QED
    BY <2>5, <2>6
<1> QED
  BY <1>1, <1>7, <1>8 DEF Present

LEMMA SignInStep ==
  ASSUME IInv, NEW p \in Proc, SignIn(p)
  PROVE  Sound(p) /\ RegistryStep
<1>1. PICK t : t = tasks[p]
  OBVIOUS
<1>2. t \in Task /\ Shape(t) /\ t.pc = "signin" /\ Traceable(p, t.saved)
  BY <1>1, OwnFacts DEF SignIn, At
<1>3. /\ t.kind \in {"login", "reauth"} /\ (t.kind = "reauth" => t.alias \in Alias)
  BY <1>2 DEF Shape, KindFits, Named, Place
<1>4. UNCHANGED <<disk, codex, spent, used>>
  BY DEF SignIn
<1>5. /\ UNCHANGED <<profiles, archive, live, marker, backups, codex, used>>
      /\ stages' = stages /\ spent' = spent
  BY <1>4 DEF disk, registry
<1>6. stages' \subseteq Cred /\ spent' \subseteq Cred /\ spent \subseteq spent'
      /\ spent' \subseteq spent \cup {tasks[p].saved}
  BY <1>5, Store0
<1>7. RegistryStep
  BY <1>5, RegistryRests
<1>8. CASE Return(p) /\ issued' = issued
  <2>1. Set(p, Idle) /\ LockStep(p, Idle)
    BY <1>8, ReturnLocks DEF IInv
  <2>2. Sound(p)
    BY <1>5, <1>6, <1>8, <2>1, IdleFits, IdleTraceable, IssuedStays, ServerSound
  <2> QED
    BY <1>7, <2>2
<1>9. CASE ~(Return(p) /\ issued' = issued)
  <2>1. PICK x \in Account :
          /\ Issues(x)
          /\ Set(p, IF t.kind = "login"
                    THEN [t EXCEPT !.pc = "plan", !.fresh = Issue(x)]
                    ELSE Waiting([t EXCEPT !.fresh = Issue(x)], {t.alias}, "reauth"))
          /\ UNCHANGED locks
    BY <1>1, <1>9 DEF SignIn
  <2>2. PICK c : c = Issue(x)
    OBVIOUS
  <2>3. /\ c \in Cred /\ JustIssued(c)
        /\ issued' \in [Account -> 1..MaxIssued] /\ \A y \in Account : issued'[y] >= issued[y]
    BY <2>1, <2>2, IssueFits
  <2>4. PICK v : v = [t EXCEPT !.pc = "plan", !.fresh = c]
    OBVIOUS
  <2>5. PICK s : s = [t EXCEPT !.fresh = c]
    OBVIOUS
  <2>6. PICK u : u = IF t.kind = "login" THEN v ELSE Waiting(s, {t.alias}, "reauth")
    OBVIOUS
  <2>7. Set(p, u) /\ UNCHANGED locks
    BY <2>1, <2>2, <2>4, <2>5, <2>6
  <2>8. /\ u \in Task /\ u.kind = t.kind /\ u.alias = t.alias /\ u.other = t.other
        /\ u.saved = t.saved /\ u.fresh = c
        /\ IF t.kind = "login" THEN u.pc = "plan" /\ Place(u) = "plan"
           ELSE Place(u) = "reauth" /\ u.pc \in {"lease", "reauth"} /\ u.then = "reauth"
    <3>1. CASE t.kind = "login"
      <4>1. v \in Task
        BY <1>2, <2>3, <2>4, Names, Creds DEF Task
      <4>2. /\ v.kind = t.kind /\ v.alias = t.alias /\ v.other = t.other
            /\ v.saved = t.saved /\ v.fresh = c /\ v.pc = "plan"
        BY <1>2, <2>4 DEF Task
      <4> QED
        BY <2>6, <3>1, <4>1, <4>2 DEF Place
    <3>2. CASE t.kind # "login"
      <4>1. s \in Task
        BY <1>2, <2>3, <2>5, Creds DEF Task
      <4>2. /\ s.kind = t.kind /\ s.alias = t.alias /\ s.other = t.other
            /\ s.saved = t.saved /\ s.fresh = c
        BY <1>2, <2>5 DEF Task
      <4>3. {t.alias} \in SUBSET Alias
        BY <1>3, <3>2
      <4> QED
        BY <2>6, <3>2, <4>1, <4>2, <4>3, Names, WaitingFits
    <3> QED
      BY <3>1, <3>2
  <2>9. u.pc \notin InTxn /\ u.pc \notin {"stage", "commit"}
    BY <2>8 DEF InTxn
  <2>10. Fits(u)'
    BY <2>9 DEF Fits, InTxn
  <2>11. LockStep(p, u)
    BY <2>7, <2>9, StayLocks DEF IInv
  <2>12. Traceable(p, u.saved) /\ Traceable(p, u.fresh)
    BY <1>2, <2>3, <2>8 DEF Traceable
  <2>13. Shape(u)
    <3>2. KindFits(u)
      BY <1>3, <2>8 DEF KindFits
    <3>3. Named(u)
      BY <1>3, <2>8 DEF Named, Nameless
    <3>4. Snapshots(u)
      BY <1>3, <2>3, <2>8 DEF Snapshots
    <3> QED
      BY <3>2, <3>3, <3>4 DEF Shape
  <2>14. Sound(p)
    BY <1>5, <1>6, <2>3, <2>7, <2>8, <2>10, <2>11, <2>12, <2>13, ServerSound
  <2> QED
    BY <1>7, <2>14
<1> QED
  BY <1>8, <1>9

LEMMA ValidateStep ==
  ASSUME IInv, NEW p \in Proc, Validate(p)
  PROVE  Sound(p) /\ RegistryStep
<1>1. PICK t : t = tasks[p]
  OBVIOUS
<1>2. /\ t \in Task /\ Shape(t) /\ t.pc = "validate" /\ txn = p
      /\ Traceable(p, t.saved) /\ Traceable(p, t.fresh)
  BY <1>1, OwnFacts DEF Validate, At, InTxn
<1>3. /\ t.saved \in Cred /\ t.fresh \in Cred /\ t.saved.account \in Account
      /\ t.kind = "reauth" => t.alias \in Alias
      /\ t.kind \in {"auto", "rename"} => t.other \in Alias
  BY <1>2, Creds DEF Shape, Named, Snapshots, Place
<1>4. UNCHANGED <<profiles, archive, live, marker, backups, codex, used>>
  BY DEF Validate
<1>5. /\ stages \subseteq Cred /\ spent \subseteq Cred
      /\ lease \in [Alias -> Proc \cup {Nobody}]
  BY Store0 DEF IInv, TypeOK
(* The ways out: on to the next step, to the rescue, or back.               *)
<1>6. ASSUME NEW c \in Cred, Traceable(p, c), NEW l \in {"install", "rescue"}, NEW u,
             u = [t EXCEPT !.pc = l, !.fresh = c]
      PROVE  /\ u \in Task /\ Shape(u) /\ Fits(u)' /\ ~Bearing(u) /\ u.pc = l
             /\ Traceable(p, u.saved) /\ Traceable(p, u.fresh)
  <2>1. l \in Locations
    BY Names
  <2>2. u \in Task
    BY <1>2, <1>6, <2>1, Creds DEF Task
  <2>3. /\ u.pc = l /\ u.kind = t.kind /\ u.alias = t.alias /\ u.other = t.other
        /\ u.saved = t.saved /\ u.fresh = c
    BY <1>2, <1>6 DEF Task
  <2>4. Place(u) = l /\ ~Bearing(u)
    BY <2>3 DEF Place, Bearing
  <2>5. Shape(u)
    BY <1>3, <2>3, <2>4 DEF Shape, KindFits, Named, Snapshots, Nameless
  <2>6. Fits(u)'
    BY <2>3 DEF Fits
  <2> QED
    BY <1>2, <1>6, <2>2, <2>3, <2>4, <2>5, <2>6
<1>7. ASSUME Return(p) PROVE Set(p, Idle) /\ LockStep(p, Idle)
  BY <1>7, ReturnLocks DEF IInv
<1>8. ASSUME NEW u, u.pc \notin InTxn, Leave(p, u) PROVE Set(p, u) /\ LockStep(p, u)
  <2>1. Set(p, u) /\ txn' = Nobody /\ lease' = Released(p)
    BY <1>8 DEF Leave
  <2>2. lease' \in [Alias -> Proc \cup {Nobody}]
    BY <1>5, <2>1 DEF Released
  <2> QED
    BY <1>2, <1>8, <2>1, <2>2 DEF LockStep
<1>9. ASSUME NEW u, UNCHANGED locks PROVE LockStep(p, u)
  BY <1>2, <1>9, StayLocks DEF IInv
<1>10. CASE spent' = spent /\ issued' = issued /\ stages' = stages
  <2>1. RegistryStep
    BY <1>4, <1>10, RegistryRests
  <2>2. CASE Return(p)
    <3>1. Sound(p)
      BY <1>4, <1>5, <1>7, <1>10, <2>2, IdleFits, IdleTraceable, IssuedStays, ServerSound
    <3> QED
      BY <2>1, <3>1
  <2>3. CASE Go(p, "install") /\ UNCHANGED locks
    <3>1. PICK u : u = [t EXCEPT !.pc = "install", !.fresh = t.fresh]
      OBVIOUS
    <3>2. u = [t EXCEPT !.pc = "install"]
      BY <1>2, <3>1 DEF Task
    <3>3. Set(p, u) /\ LockStep(p, u)
      BY <1>1, <1>9, <2>3, <3>2 DEF Go
    <3>4. /\ u \in Task /\ Shape(u) /\ Fits(u)' /\ ~Bearing(u)
          /\ Traceable(p, u.saved) /\ Traceable(p, u.fresh)
      BY <1>2, <1>3, <1>6, <3>1
    <3>5. Sound(p)
      BY <1>4, <1>5, <1>10, <3>3, <3>4, IssuedStays, ServerSound
    <3> QED
      BY <2>1, <3>5
  <2> QED
    <3>1. \/ Return(p)
          \/ Go(p, "install") /\ UNCHANGED locks
          \/ t.saved \notin spent /\ spent' = spent \cup {t.saved}
      BY <1>1 DEF Validate
    <3>2. ~(t.saved \notin spent /\ spent' = spent \cup {t.saved})
      BY <1>10
    <3> QED
      BY <2>2, <2>3, <3>1, <3>2
<1>11. CASE spent' = spent \cup {t.saved} /\ Issues(t.saved.account)
  <2>1. PICK c : c = Issue(t.saved.account)
    OBVIOUS
  <2>2. /\ c \in Cred /\ JustIssued(c)
        /\ issued' \in [Account -> 1..MaxIssued] /\ \A y \in Account : issued'[y] >= issued[y]
    BY <1>3, <1>11, <2>1, IssueFits
  <2>3. PICK r : r = [t EXCEPT !.fresh = c]
    OBVIOUS
  <2>4. PICK u : u = [t EXCEPT !.pc = "install", !.fresh = c]
    OBVIOUS
  <2>5. PICK v : v = [t EXCEPT !.pc = "rescue", !.fresh = c]
    OBVIOUS
  <2>6. u = [r EXCEPT !.pc = "install"] /\ v = [r EXCEPT !.pc = "rescue"]
    BY <1>2, <2>3, <2>4, <2>5 DEF Task
  <2>7. /\ u \in Task /\ Shape(u) /\ Fits(u)' /\ ~Bearing(u)
        /\ Traceable(p, u.saved) /\ Traceable(p, u.fresh)
    BY <1>6, <2>2, <2>4 DEF Traceable
  <2>8. /\ v \in Task /\ Shape(v) /\ Fits(v)' /\ ~Bearing(v) /\ v.pc = "rescue"
        /\ Traceable(p, v.saved) /\ Traceable(p, v.fresh)
    BY <1>6, <2>2, <2>5 DEF Traceable
  <2>9. /\ spent \subseteq spent' /\ spent' \subseteq Cred
        /\ spent' \subseteq spent \cup {tasks[p].saved} /\ RegistryStep
    BY <1>1, <1>3, <1>4, <1>5, <1>11, RegistrySpend
  <2>10. /\ stages' \in {stages, stages \cup {c}}
         /\ \/ Set(p, u) /\ UNCHANGED locks
            \/ Leave(p, v)
            \/ Return(p)
    <3>1. t.saved \notin spent \/ spent' = spent
      BY <1>11
    <3>2. \/ Go(p, "install") /\ UNCHANGED <<locks, stages, spent, issued>>
          \/ Return(p) /\ UNCHANGED <<stages, spent, issued>>
          \/ \/ /\ stages' = stages \cup {c}
                /\ \/ Set(p, u) /\ UNCHANGED locks
                   \/ Leave(p, v)
             \/ (Leave(p, v) \/ Return(p)) /\ UNCHANGED stages
      BY <1>1, <2>1, <2>3, <2>6 DEF Validate
    <3>3. issued' # issued
      <4>1. issued'[t.saved.account] = issued[t.saved.account] + 1
        BY <1>3, <1>11, Store0 DEF Issues
      <4>2. issued[t.saved.account] \in Nat
        BY <1>3, Store0
      <4> QED
        BY <4>1, <4>2
    <3> QED
      BY <3>2, <3>3
  <2>11. stages' \subseteq Cred
    BY <1>5, <2>2, <2>10
  <2>12. CASE Return(p)
    <3>1. Sound(p)
      BY <1>4, <1>7, <2>2, <2>9, <2>11, <2>12, IdleFits, IdleTraceable, ServerSound
    <3> QED
      BY <2>9, <3>1
  <2>13. CASE Set(p, u) /\ UNCHANGED locks
    <3>1. Sound(p)
      BY <1>4, <1>9, <2>2, <2>7, <2>9, <2>11, <2>13, ServerSound
    <3> QED
      BY <2>9, <3>1
  <2>14. CASE Leave(p, v)
    <3>1. Set(p, v) /\ LockStep(p, v)
      BY <1>8, <2>8, <2>14 DEF InTxn
    <3>2. Sound(p)
      BY <1>4, <2>2, <2>8, <2>9, <2>11, <3>1, ServerSound
    <3> QED
      BY <2>9, <3>2
  <2> QED
    BY <2>10, <2>12, <2>13, <2>14
<1> QED
  <2>1. \/ spent' = spent /\ issued' = issued /\ stages' = stages
        \/ spent' = spent \cup {t.saved} /\ Issues(t.saved.account)
    BY <1>1 DEF Validate
  <2> QED
    BY <1>10, <1>11, <2>1

----------------------------------------------------------------------------
(* Codex: it moves live to what it was issued, and spends what it had.      *)
CodexTurn ==
  /\ UNCHANGED <<registry, marker, backups, locks, tasks>>
  /\ used' \in [ops : Nat, moves : Nat, crashes : Nat]
  /\ \A c \in {live', codex'} : c \in {NoCred, live, codex} \/ JustIssued(c)
  /\ spent' \in {spent, spent \cup {codex}}
  /\ spent' # spent => codex \in Cred
  /\ issued' \in [Account -> 1..MaxIssued] /\ \A x \in Account : issued'[x] >= issued[x]

LEMMA CodexKeeps ==
  ASSUME IInv, CodexTurn
  PROVE  IInv' /\ RegistryStep
<1>1. /\ profiles' = profiles /\ stages' = stages /\ archive' = archive /\ marker' = marker
      /\ backups' = backups /\ lease' = lease /\ txn' = txn /\ tasks' = tasks
  BY DEF CodexTurn, registry, locks
<1>2. PICK l : l = live'
  OBVIOUS
<1>3. PICK x : x = codex'
  OBVIOUS
<1>4. /\ l \in {NoCred, live, codex} \/ JustIssued(l)
      /\ x \in {NoCred, live, codex} \/ JustIssued(x)
  BY <1>2, <1>3 DEF CodexTurn
<1>5. l \in CredOrNone /\ x \in CredOrNone
  BY <1>4 DEF JustIssued, CredOrNone, IInv, TypeOK
<1>6. spent \subseteq spent' /\ spent' \subseteq Cred /\ spent' \subseteq spent \cup {codex}
  BY DEF CodexTurn, IInv, TypeOK
<1>7. TypeOK'
  BY <1>1, <1>2, <1>3, <1>5, <1>6 DEF CodexTurn, IInv, TypeOK
<1>8. TxnHeld'
  BY <1>1 DEF IInv, TxnHeld
<1>9. TasksFit'
  <2> SUFFICES ASSUME NEW q \in Proc PROVE Shape(tasks[q])' /\ Fits(tasks[q])'
    BY DEF TasksFit
  <2>1. PICK t : t = tasks[q]
    OBVIOUS
  <2>2. Shape(t) /\ Fits(t)
    BY <2>1 DEF IInv, TasksFit
  <2>3. Fits(t)'
    BY <1>1, <1>6, <2>2, FitsStable
  <2> QED
    BY <1>1, <2>1, <2>2, <2>3
<1>10. \A y \in Account : issued'[y] >= issued[y] /\ issued[y] \in Nat /\ issued'[y] \in Nat
  BY DEF CodexTurn, IInv, TypeOK
<1>11. ASSUME NEW c \in CredOrNone, Old(c) \/ JustIssued(c) PROVE Old(c)'
  <2> SUFFICES ASSUME c # NoCred PROVE c.gen <= issued'[c.account]
    BY DEF Old
  <2>1. c.account \in Account /\ c.gen \in Nat
    BY DEF CredOrNone, Cred
  <2> QED
    BY <1>10, <1>11, <2>1 DEF Old, JustIssued
<1>12. AllOld'
  <2>1. Old(NoCred) /\ Old(live) /\ Old(codex)
    BY DEF Old, IInv, AllOld
  <2>2. Old(l)' /\ Old(x)'
    BY <1>4, <1>5, <1>11, <2>1
  <2>3. Old(live)' /\ Old(codex)'
    BY <1>2, <1>3, <2>2 DEF Old
  <2>4. \A c \in spent' : Old(c)'
    <3> SUFFICES ASSUME NEW c \in spent' PROVE Old(c)'
      OBVIOUS
    <3>1. c \in CredOrNone /\ Old(c)
      BY <1>6, <2>1 DEF IInv, AllOld, CredOrNone
    <3> QED
      BY <1>11, <3>1
  <2>5. \A a \in Alias : Old(profiles[a])'
    <3> SUFFICES ASSUME NEW a \in Alias PROVE Old(profiles[a])'
      OBVIOUS
    <3>1. PICK c : c = profiles[a]
      OBVIOUS
    <3>2. c \in CredOrNone /\ Old(c)
      BY <3>1 DEF IInv, TypeOK, AllOld
    <3>3. Old(c)'
      BY <1>11, <3>2
    <3> QED
      BY <1>1, <3>1, <3>3 DEF Old
  <2>6. \A q \in Proc : Old(tasks[q].saved)' /\ Old(tasks[q].fresh)'
    <3> SUFFICES ASSUME NEW q \in Proc PROVE Old(tasks[q].saved)' /\ Old(tasks[q].fresh)'
      OBVIOUS
    <3>1. PICK c : c = tasks[q].saved
      OBVIOUS
    <3>2. PICK d : d = tasks[q].fresh
      OBVIOUS
    <3>3. c \in CredOrNone /\ d \in CredOrNone /\ Old(c) /\ Old(d)
      BY <3>1, <3>2, TaskTypes DEF IInv, TypeOK, AllOld
    <3>4. Old(c)' /\ Old(d)'
      BY <1>11, <3>3
    <3> QED
      BY <1>1, <3>1, <3>2, <3>4 DEF Old
  <2> QED
    BY <2>3, <2>4, <2>5, <2>6 DEF AllOld
<1>13. Private'
  <2> SUFFICES ASSUME NEW q \in Proc, Bearing(tasks[q]) PROVE ~Elsewhere(q, tasks[q].fresh)'
    BY <1>1 DEF Private
  <2>1. PICK c : c = tasks[q].fresh
    OBVIOUS
  <2>2. ~Elsewhere(q, c) /\ Old(c)
    BY <2>1 DEF IInv, Private, AllOld
  <2>3. c \in Cred /\ c # NoCred
    BY <2>1, Constants DEF IInv, TasksFit, Shape, Snapshots, Bearing, KindFits, Place, Refreshes
  <2>4. ~JustIssued(c)
    <3>1. c.gen <= issued[c.account] /\ c.account \in Account /\ c.gen \in Nat
      BY <2>2, <2>3 DEF Old, Cred
    <3> QED
      BY <1>10, <3>1 DEF JustIssued
  <2>5. c # live' /\ c # codex' /\ c \notin spent'
    BY <1>2, <1>3, <1>4, <1>6, <2>2, <2>3, <2>4 DEF Elsewhere
  <2>6. ~Elsewhere(q, c)'
    BY <1>1, <2>2, <2>5 DEF Elsewhere
  <2> QED
    BY <1>1, <2>1, <2>6 DEF Elsewhere
<1>14. RegistryStep
  <2>1. CASE spent' = spent
    BY <1>1, <2>1, RegistryRests
  <2>2. CASE spent' = spent \cup {codex} /\ codex \in Cred
    BY <1>1, <2>2, RegistrySpend
  <2> QED
    BY <2>1, <2>2 DEF CodexTurn
<1> QED
  BY <1>7, <1>8, <1>9, <1>12, <1>13, <1>14 DEF IInv

LEMMA CodexStep ==
  ASSUME IInv, Codex
  PROVE  CodexTurn
<1>1. /\ used \in [ops : Nat, moves : Nat, crashes : Nat] /\ codex \in CredOrNone
      /\ issued \in [Account -> 1..MaxIssued] /\ \A y \in Account : issued[y] >= issued[y]
  BY DEF IInv, TypeOK
<1>2. CodexMoves => /\ UNCHANGED <<registry, marker, backups, locks, tasks>>
                    /\ used' \in [ops : Nat, moves : Nat, crashes : Nat]
  BY <1>1 DEF CodexMoves
<1>3. CASE CodexLoads
  <2>1. /\ UNCHANGED <<registry, marker, backups, locks, tasks>> /\ used' = used
        /\ live' = live /\ codex' = live /\ spent' = spent /\ issued' = issued
    BY <1>3 DEF CodexLoads, disk
  <2> QED
    BY <1>1, <2>1 DEF CodexTurn
<1>4. CASE CodexLogsOut
  <2>1. /\ CodexMoves /\ live' = NoCred /\ codex' = NoCred /\ spent' = spent
        /\ issued' = issued
    BY <1>4 DEF CodexLogsOut
  <2> QED
    BY <1>1, <1>2, <2>1 DEF CodexTurn
<1>5. ASSUME NEW x \in Account, Issues(x), CodexMoves, codex' = Issue(x), live' = codex',
             spent' = spent \/ (codex \in Cred /\ spent' = spent \cup {codex})
      PROVE  CodexTurn
  <2>1. PICK c : c = Issue(x)
    OBVIOUS
  <2>2. /\ JustIssued(c)
        /\ issued' \in [Account -> 1..MaxIssued] /\ \A y \in Account : issued'[y] >= issued[y]
    BY <1>5, <2>1, IssueFits
  <2>3. live' = c /\ codex' = c
    BY <1>5, <2>1
  <2> QED
    BY <1>2, <1>5, <2>2, <2>3 DEF CodexTurn
<1>6. CASE CodexRotates
  <2>1. codex \in Cred /\ codex.account \in Account
    BY <1>1, <1>6, Creds DEF CodexRotates, CredOrNone
  <2> QED
    BY <1>5, <1>6, <2>1 DEF CodexRotates
<1>7. ASSUME NEW x \in Account, CodexLogsIn(x) PROVE CodexTurn
  BY <1>5, <1>7 DEF CodexLogsIn
<1> QED
  BY <1>3, <1>4, <1>6, <1>7 DEF Codex


----------------------------------------------------------------------------
(* All steps together: those that are quiet, and those that are not.        *)
Writes(p) ==
  \/ Present(p) \/ Stage(p) \/ Unstage(p) \/ Write(p) \/ Swap(p) \/ Copy(p) \/ SignIn(p)
  \/ Validate(p) \/ Install(p) \/ Rescue(p) \/ Refile(p) \/ Archive(p) \/ Move(p) \/ Remark(p)

LEMMA StepSorts ==
  ASSUME IInv, [Next]_vars
  PROVE  (\E p \in Proc : Quiet(p) \/ Writes(p)) \/ Codex \/ UNCHANGED vars
<1>1. ASSUME NEW p \in Proc, Step(p) \/ Answer(p)
      PROVE  Quiet(p) \/ Writes(p)
  <2>1. CASE \/ TakeLease(p) \/ Authorize(p) \/ Commit(p) \/ Mark(p) \/ Repair(p)
             \/ Prepare(p) \/ Proceed(p) \/ Answer(p) \/ Switch(p) \/ Consent(p) \/ Activate(p)
    BY <2>1, TakeLeaseQuiet, AuthorizeQuiet, CommitQuiet, MarkQuiet, RepairQuiet,
       PrepareQuiet, ConfirmQuiet, SwitchQuiet, ConsentQuiet, ActivateQuiet
  <2>2. CASE \/ Locate(p) \/ Relocate(p) \/ AutoSwitch(p) \/ Adopt(p) \/ Recheck(p)
             \/ Plan(p) \/ Store(p) \/ Bind(p) \/ Reauthorize(p)
    BY <2>2, LocateQuiet, RelocateQuiet, AutoSwitchQuiet, AdoptQuiet, RecheckQuiet,
       PlanQuiet, StoreQuiet, BindQuiet, ReauthorizeQuiet
  <2>3. CASE \/ Scan(p) \/ Reserve(p) \/ Delete(p) \/ Unmark(p) \/ Rename(p)
    BY <2>3, ScanQuiet, ReserveQuiet, DeleteQuiet, UnmarkQuiet, RenameQuiet
  <2> QED
    BY <1>1, <2>1, <2>2, <2>3 DEF Step, Writes
<1>2. ASSUME NEW p \in Proc, \/ \E r \in Requests[p] : Begin(p, r)
                             \/ GiveUp(p) \/ Crash(p)
      PROVE  Quiet(p)
  BY <1>2, BeginQuiet, EndingQuiet
<1> QED
  BY <1>1, <1>2 DEF Next, Rest, Writes

LEMMA StepKeeps ==
  ASSUME IInv, [Next]_vars
  PROVE  IInv' /\ RegistryStep
<1>1. ASSUME NEW p \in Proc, Quiet(p)
      PROVE  IInv' /\ RegistryStep
  <2>1. PICK u : QuietTurn(p, u)
    BY <1>1 DEF Quiet
  <2>2. UNCHANGED <<profiles, archive, spent>>
    BY <2>1 DEF QuietTurn, registry, outside
  <2> QED
    BY <2>1, <2>2, QuietKeeps, RegistryRests
<1>2. ASSUME NEW p \in Proc, Writes(p)
      PROVE  IInv' /\ RegistryStep
  <2>1. Sound(p) /\ RegistryStep
    <3>1. CASE Stage(p) \/ Unstage(p)
      <4>1. UNCHANGED <<profiles, archive, spent>>
        BY <3>1 DEF Stage, Unstage, outside
      <4> QED
        BY <3>1, <4>1, StageSound, UnstageSound, RegistryRests
    <3>2. CASE \/ Present(p) \/ Write(p) \/ Swap(p) \/ Copy(p) \/ SignIn(p)
               \/ Validate(p) \/ Install(p) \/ Refile(p)
      BY <3>2, PresentStep, WriteStep, SwapStep, CopyStep, SignInStep, ValidateStep, FilingStep
    <3>3. CASE Rescue(p) \/ Archive(p) \/ Move(p) \/ Remark(p)
      BY <3>3, RescueStep, ArchiveStep, MoveStep, RemarkStep
    <3> QED
      BY <1>2, <3>1, <3>2, <3>3 DEF Writes
  <2> QED
    BY <2>1, TurnKeeps DEF Sound
<1>3. CASE Codex
  BY <1>3, CodexStep, CodexKeeps
<1>4. CASE UNCHANGED vars
  <2>1. /\ profiles' = profiles /\ stages' = stages /\ archive' = archive /\ live' = live
        /\ marker' = marker /\ backups' = backups /\ lease' = lease /\ txn' = txn
        /\ tasks' = tasks /\ codex' = codex /\ spent' = spent /\ issued' = issued /\ used' = used
    BY <1>4 DEF vars, disk, registry, locks, outside
  <2>2. issued' \in [Account -> 1..MaxIssued] /\ used' \in [ops : Nat, moves : Nat, crashes : Nat]
        /\ \A x \in Account : issued'[x] >= issued[x]
    BY <2>1 DEF IInv, TypeOK
  <2>3. CodexTurn
    BY <2>1, <2>2 DEF CodexTurn, registry, locks
  <2> QED
    BY <2>3, CodexKeeps
<1> QED
  BY <1>1, <1>2, <1>3, <1>4, StepSorts

(* Sets of profiles with at most one element.                               *)
LEMMA AtMostOne ==
  ASSUME NEW S \in SUBSET Alias
  PROVE  Cardinality(S) <= 1 <=> \A a, b \in S : a = b
<1>1. IsFiniteSet(S)
  BY Constants, FS_Subset
<1>2. ASSUME NEW a \in S, NEW b \in S, a # b
      PROVE  Cardinality(S) > 1
  <2>1. Cardinality({a} \cup {b}) = 2 /\ {a} \cup {b} \in SUBSET S
    <3>1. IsFiniteSet({a}) /\ Cardinality({a}) = 1
      BY FS_Singleton
    <3>2. Cardinality({a} \cup {b}) = IF b \in {a} THEN Cardinality({a}) ELSE Cardinality({a}) + 1
      BY <3>1, FS_AddElement
    <3> QED
      BY <1>2, <3>1, <3>2
  <2>2. Cardinality({a} \cup {b}) <= Cardinality(S) /\ Cardinality(S) \in Nat
    BY <1>1, <2>1, FS_Subset, FS_CardinalityType
  <2> QED
    BY <2>1, <2>2
<1>3. ASSUME \A a, b \in S : a = b
      PROVE  Cardinality(S) <= 1
  <2>1. S = {} \/ \E a : S = {a}
    BY <1>3
  <2>2. CASE S = {}
    BY <2>2, FS_EmptySet
  <2>3. ASSUME NEW a, S = {a} PROVE Cardinality(S) <= 1
    <3>1. Cardinality({a}) = 1
      BY FS_Singleton
    <3> QED
      BY <2>3, <3>1
  <2> QED
    BY <2>1, <2>2, <2>3
<1>4. Cardinality(S) \in Nat
  BY <1>1, FS_CardinalityType
<1> QED
  BY <1>2, <1>3, <1>4

LEMMA InitKeeps ==
  ASSUME Init
  PROVE  IInv /\ Registry!Init
<1>1. /\ profiles \in [Alias -> CredOrNone] /\ live \in CredOrNone /\ codex \in CredOrNone
      /\ \A a \in Alias : profiles[a] # NoCred => profiles[a].gen = 1
      /\ live # NoCred => live.gen = 1
      /\ codex = NoCred /\ spent = {} /\ archive = {} /\ stages = {} /\ backups = {}
  BY DEF Init, CredOrNone
<1>2. issued \in [Account -> 1..MaxIssued] /\ \A x \in Account : issued[x] = 1
  BY Constants DEF Init
<1>3. \A p \in Proc : tasks[p] = Idle
  BY DEF Init
<1>4. \A x \in Account : \A a, b \in Holders(x) : a = b
  BY AtMostOne DEF Init, Holders
<1>5. ~Undecided(live)
  <2> SUFFICES ASSUME live # NoCred, Exact(live) # {} PROVE Bound(live) # {}
    BY DEF Undecided
  <2>1. live \in Cred /\ live.account \in Account
    BY <1>1, Creds DEF CredOrNone
  <2>2. Exact(live) \subseteq Holders(live.account)
    BY DEF Exact, Holders
  <2>3. \E a : Exact(live) = {a}
    <3>1. PICK a : a \in Exact(live)
      OBVIOUS
    <3>2. \A b \in Exact(live) : b = a
      BY <1>4, <2>1, <2>2, <3>1
    <3> QED
      BY <3>1, <3>2
  <2> QED
    BY <2>3, FS_Singleton DEF Bound
<1>6. marker \in AliasOrNone
  BY <1>5, RepairedMarkerType DEF Init
<1>7. TypeOK
  <2>1. tasks \in [Proc -> Task]
    BY IdleFits DEF Init
  <2>2. lease \in [Alias -> Proc \cup {Nobody}] /\ txn \in Proc \cup {Nobody}
        /\ used \in [ops : Nat, moves : Nat, crashes : Nat]
    BY DEF Init
  <2> QED
    BY <1>1, <1>2, <1>6, <2>1, <2>2 DEF TypeOK
<1>8. TxnHeld /\ TasksFit /\ Private
  BY <1>3, IdleFits DEF TxnHeld, TasksFit, Private
<1>9. AllOld
  <2>1. ASSUME NEW c \in CredOrNone, c # NoCred => c.gen = 1
        PROVE  Old(c)
    BY <1>2, <2>1 DEF Old, CredOrNone, Cred
  <2>2. Old(live) /\ Old(codex) /\ \A a \in Alias : Old(profiles[a])
    BY <1>1, <2>1
  <2>3. Old(NoCred)
    BY DEF Old
  <2> QED
    BY <1>1, <1>3, <2>2, <2>3, IdleFits DEF AllOld
<1>10. Registry!Init
  <2>1. \A a, b \in Alias : /\ profiles[a] # NoCred /\ profiles[b] # NoCred
                            /\ profiles[a].account = profiles[b].account
                            => a = b
    <3> SUFFICES ASSUME NEW a \in Alias, NEW b \in Alias, profiles[a] # NoCred, profiles[b] # NoCred,
                        profiles[a].account = profiles[b].account
                 PROVE  a = b
      OBVIOUS
    <3>1. profiles[a].account \in Account
      BY <1>1, Creds DEF CredOrNone
    <3> QED
      BY <1>4, <3>1 DEF Holders
  <2> QED
    BY <1>1, <2>1 DEF Registry!Init, Registry!Saved, Registry!Cred, Cred, CredOrNone
<1> QED
  BY <1>7, <1>8, <1>9, <1>10 DEF IInv

(* The store's invariant: whatever writes profiles keeps the transaction,   *)
(* each operation is where its leases and answers have brought it, what a   *)
(* sign-in received is nowhere else, and no credential is ahead of the      *)
(* server.                                                                  *)
THEOREM StoreInductive == Spec => []IInv
<1>1. Init => IInv
  BY InitKeeps
<1>2. IInv /\ [Next]_vars => IInv'
  BY StepKeeps
<1> QED
  BY <1>1, <1>2, PTL DEF Spec

(* The types of the store's state.                                          *)
THEOREM StoreTypeCorrect == Spec => []TypeOK
<1>1. IInv => TypeOK
  BY DEF IInv
<1> QED
  BY <1>1, StoreInductive, PTL

(* The saved profiles behave as ProfileRegistry says, whatever the          *)
(* processes, their locks and failures, and Codex do: the commands of       *)
(* profile.rs create a profile only for an account without one, renew it    *)
(* only by a credential at least as new or never presented, and let it go   *)
(* only into the archive or to another name.                                *)
THEOREM StoreImplementsRegistry == Spec => RegistrySpec
<1>1. Init => Registry!Init
  BY InitKeeps
<1>2. IInv /\ [Next]_vars => [Registry!Next]_(Registry!vars)
  BY StepKeeps DEF RegistryStep
<1> QED
  BY <1>1, <1>2, StoreInductive, PTL DEF Spec, RegistrySpec, Registry!Spec

(* The types of the registry's state.                                       *)
THEOREM RegistryTypeCorrect == Registry!Spec => []Registry!TypeOK
<1>1. Registry!Init => Registry!TypeOK
  BY DEF Registry!Init, Registry!TypeOK
<1>2. Registry!TypeOK /\ [Registry!Next]_(Registry!vars) => Registry!TypeOK'
  <2> SUFFICES ASSUME Registry!TypeOK, [Registry!Next]_(Registry!vars) PROVE Registry!TypeOK'
    OBVIOUS
  <2> USE DEF Registry!TypeOK
  <2>1. ASSUME NEW a \in Alias, NEW c \in Registry!Cred,
               Registry!Create(a, c) \/ Registry!Renew(a, c)
        PROVE  Registry!TypeOK'
    BY <2>1 DEF Registry!Create, Registry!Renew
  <2>2. ASSUME NEW a \in Alias, Registry!Archive(a)
        PROVE  Registry!TypeOK'
    BY <2>2 DEF Registry!Archive, Registry!Saved
  <2>3. ASSUME NEW a \in Alias, NEW b \in Alias, Registry!Move(a, b)
        PROVE  Registry!TypeOK'
    BY <2>3 DEF Registry!Move
  <2>4. ASSUME NEW c \in Registry!Cred, Registry!Spend(c)
        PROVE  Registry!TypeOK'
    BY <2>4 DEF Registry!Spend
  <2>5. CASE UNCHANGED Registry!vars
    BY <2>5 DEF Registry!vars
  <2> QED
    BY <2>1, <2>2, <2>3, <2>4, <2>5 DEF Registry!Next
<1> QED
  BY <1>1, <1>2, PTL DEF Registry!Spec

(* The registry never gives an account two profiles: only Create can give   *)
(* an account a second one, and it looks at every name; Renew keeps the     *)
(* account of its name, and Move empties the name it leaves.                *)
THEOREM AccountHasOneProfile == Registry!Spec => []Registry!OneProfilePerAccount
<1>1. Registry!Init => Registry!OneProfilePerAccount
  BY DEF Registry!Init, Registry!OneProfilePerAccount
<1>2. Registry!TypeOK /\ Registry!OneProfilePerAccount /\ [Registry!Next]_(Registry!vars)
        => Registry!OneProfilePerAccount'
  <2> SUFFICES ASSUME Registry!TypeOK, Registry!OneProfilePerAccount,
                      [Registry!Next]_(Registry!vars),
                      NEW d \in Alias, NEW e \in Alias,
                      profiles'[d] # NoCred, profiles'[e] # NoCred,
                      profiles'[d].account = profiles'[e].account
               PROVE  d = e
    BY DEF Registry!OneProfilePerAccount, Registry!Saved
  <2> USE DEF Registry!Saved
  <2>0. /\ profiles \in [Alias -> Registry!Cred \cup {NoCred}]
        /\ \A a, b \in Alias : /\ profiles[a] # NoCred /\ profiles[b] # NoCred
                              /\ profiles[a].account = profiles[b].account
                              => a = b
    BY DEF Registry!TypeOK, Registry!OneProfilePerAccount
  <2>1. ASSUME NEW a \in Alias, NEW c \in Registry!Cred,
               Registry!Create(a, c) \/ Registry!Renew(a, c)
        PROVE  d = e
    <3>1. /\ profiles' = [profiles EXCEPT ![a] = c]
          /\ \A b \in Alias : b # a /\ profiles[b] # NoCred => profiles[b].account # c.account
      BY <2>0, <2>1 DEF Registry!Create, Registry!Renew
    <3>2. profiles'[a] = c /\ \A b \in Alias : b # a => profiles'[b] = profiles[b]
      BY <2>0, <3>1
    <3> QED
      BY <2>0, <3>1, <3>2
  <2>2. ASSUME NEW a \in Alias, Registry!Archive(a)
        PROVE  d = e
    <3>1. profiles'[a] = NoCred /\ \A b \in Alias : b # a => profiles'[b] = profiles[b]
      BY <2>0, <2>2 DEF Registry!Archive
    <3> QED
      BY <2>0, <3>1
  <2>3. ASSUME NEW a \in Alias, NEW b \in Alias, Registry!Move(a, b)
        PROVE  d = e
    <3>1. /\ profiles[a] # NoCred /\ profiles[b] = NoCred
          /\ profiles' = [profiles EXCEPT ![b] = profiles[a], ![a] = NoCred]
      BY <2>3 DEF Registry!Move
    <3>2. /\ profiles'[a] = NoCred /\ profiles'[b] = profiles[a]
          /\ \A f \in Alias : f # a /\ f # b => profiles'[f] = profiles[f]
      BY <2>0, <3>1
    <3> QED
      BY <2>0, <3>1, <3>2
  <2>4. CASE UNCHANGED profiles
    BY <2>0, <2>4
  <2> QED
    BY <2>1, <2>2, <2>3, <2>4 DEF Registry!Next, Registry!Spend, Registry!vars
<1> QED
  BY <1>1, <1>2, RegistryTypeCorrect, PTL DEF Registry!Spec

(* No account ever has two profiles: two commands that chose different      *)
(* names for it meet again under the auth transaction (plan_profile_write,  *)
(* create_import_profile), and the registry the store implements never      *)
(* gives an account a second one.                                           *)
THEOREM OneProfileKept == Spec => []OneProfilePerAccount
<1>1. Registry!Spec => []Registry!OneProfilePerAccount
  BY AccountHasOneProfile
<1>2. TypeOK /\ Registry!OneProfilePerAccount => OneProfilePerAccount
  <2> SUFFICES ASSUME Registry!OneProfilePerAccount, NEW x \in Account
               PROVE  Cardinality(Holders(x)) <= 1
    BY DEF OneProfilePerAccount
  <2>1. \A a, b \in Holders(x) : a = b
    BY DEF Holders, Registry!OneProfilePerAccount, Registry!Saved
  <2>2. Holders(x) \in SUBSET Alias
    BY DEF Holders
  <2> QED
    BY <2>1, <2>2, AtMostOne
<1> QED
  BY <1>1, <1>2, StoreTypeCorrect, StoreImplementsRegistry, PTL DEF RegistrySpec

----------------------------------------------------------------------------
(* Live.  Of the steps that leave Codex's moves alone, only Swap moves it.  *)
LEMMA OnlySwapMovesLive ==
  ASSUME IInv, [Next]_vars, used'.moves = used.moves, live' # live
  PROVE  \E p \in Proc : Swap(p)
<1>1. ASSUME NEW p \in Proc, Quiet(p) PROVE FALSE
  BY <1>1 DEF Quiet, QuietTurn
<1>2. ASSUME NEW p \in Proc, Writes(p) PROVE Swap(p)
  BY <1>2 DEF Writes, Present, Stage, Unstage, Write, Copy, SignIn, Validate, Install, Refile,
              FileNew, Rescue, Archive, Move, Remark, disk
<1>3. CASE Codex
  <2>1. used \in [ops : Nat, moves : Nat, crashes : Nat]
    BY DEF IInv, TypeOK
  <2>2. ~CodexMoves
    BY <2>1 DEF CodexMoves
  <2> QED
    BY <1>3, <2>2 DEF Codex, CodexLoads, CodexRotates, CodexLogsIn, CodexLogsOut, disk
<1>4. CASE UNCHANGED vars
  BY <1>4 DEF vars, disk
<1> QED
  BY <1>1, <1>2, <1>3, <1>4, StepSorts

LEMMA SwapIsOwn ==
  ASSUME IInv, NEW p \in Proc, Swap(p)
  PROVE  /\ \A q \in Proc \ {p} : tasks'[q] = tasks[q]
         /\ live' # live => live = tasks[p].live
<1>1. PICK t : t = tasks[p]
  OBVIOUS
<1>2. \E v : Finish(p, v) \/ Go(p, "mark")
  BY DEF Swap
<1>3. \E u : Set(p, u)
  BY <1>2 DEF Finish, Go, Return
<1>4. \A q \in Proc \ {p} : tasks'[q] = tasks[q]
  BY <1>3 DEF Set, IInv, TypeOK
<1>5. live' # live => live = t.live
  BY <1>1 DEF Swap
<1> QED
  BY <1>1, <1>4, <1>5

(* Refreshing or re-authorizing a profile replaces live only when what is   *)
(* there belongs to the same account, however long the network took and     *)
(* whoever switched meanwhile (plan_fresh_live_activation and               *)
(* commit_activation_if_live_unchanged): live followed the profile when the *)
(* refresh was authorized, and is still what it was then.                   *)
THEOREM OnlyOwnLiveKept == Spec => OnlyOwnLive
<1>1. IInv /\ [Next]_vars =>
        [\A p \in Proc : (Refreshes(tasks[p]) \/ tasks[p].kind = "reauth") /\ At(p, "swap")
                           /\ used'.moves = used.moves /\ live' # live /\ tasks'[p] # tasks[p]
           => live # NoCred /\ live.account = tasks[p].fresh.account]_vars
  <2> SUFFICES ASSUME IInv, [Next]_vars, NEW p \in Proc,
                      Refreshes(tasks[p]) \/ tasks[p].kind = "reauth", At(p, "swap"),
                      used'.moves = used.moves, live' # live, tasks'[p] # tasks[p]
               PROVE  live # NoCred /\ live.account = tasks[p].fresh.account
    OBVIOUS
  <2>1. PICK q \in Proc : Swap(q)
    BY OnlySwapMovesLive
  <2>2. q = p
    BY <2>1, SwapIsOwn
  <2>3. live = tasks[p].live
    BY <2>1, <2>2, SwapIsOwn
  <2>4. PICK t : t = tasks[p]
    OBVIOUS
  <2>5. Shape(t) /\ t.pc = "swap" /\ (Refreshes(t) \/ t.kind = "reauth")
    BY <2>4, OwnFacts DEF At
  <2>6. t.live # NoCred /\ t.live.account = t.fresh.account
    BY <2>5 DEF Shape, Snapshots
  <2> QED
    BY <2>3, <2>4, <2>6
<1> QED
  BY <1>1, StoreInductive, PTL DEF Spec, OnlyOwnLive

----------------------------------------------------------------------------
(* Usable tokens.  What a step takes off the disk it replaces by one of the *)
(* same account that is no worse.                                           *)
Stays(c) == \E d \in OnDisk' \ spent : d.account = c.account

LEMMA UsableStays ==
  ASSUME TypeOK, spent' = spent, \A c \in OnDisk \ spent : Stays(c)
  PROVE  Usable \subseteq Usable'
BY DEF Usable, Stays

LEMMA DiskMembers ==
  ASSUME TypeOK
  PROVE  /\ \A c \in OnDisk : \/ c \in stages \cup backups \cup archive
                              \/ c = live
                              \/ \E a \in Alias : c = profiles[a]
         /\ \A c \in OnDisk : c \in Cred /\ c # NoCred
BY Constants DEF TypeOK, OnDisk, CredOrNone

LEMMA DiskMembersNext ==
  ASSUME NEW c, c # NoCred
  PROVE  /\ c \in stages' \cup backups' \cup archive' => c \in OnDisk'
         /\ c = live' => c \in OnDisk'
         /\ \A a \in Alias : c = profiles'[a] => c \in OnDisk'
BY DEF OnDisk

(* Steps that add to the disk, or only move a credential about on it.       *)
LEMMA DiskGrows ==
  ASSUME TypeOK, spent' = spent,
         \A c \in stages : c # NoCred => c \in stages' \/ \E a \in Alias : c = profiles'[a],
         backups \subseteq backups', archive \subseteq archive',
         live # NoCred => live = live' \/ live \in backups',
         \A a \in Alias : profiles[a] # NoCred =>
            profiles[a] \in archive' \/ \E b \in Alias : profiles[a] = profiles'[b]
  PROVE  Usable \subseteq Usable'
<1>1. ASSUME NEW c \in OnDisk PROVE c \in OnDisk'
  BY <1>1, DiskMembers, DiskMembersNext
<1> QED
  BY <1>1, UsableStays DEF Stays

(* A step that gives one profile another credential of its account.         *)
LEMMA DiskRenewed ==
  ASSUME TypeOK, spent' = spent, NEW a \in Alias, NEW c \in Cred,
         profiles' = [profiles EXCEPT ![a] = c],
         UNCHANGED <<stages, archive, live, backups>>,
         \/ profiles[a] = NoCred \/ profiles[a] \in spent
         \/ profiles[a].account = c.account /\ c \notin spent
  PROVE  Usable \subseteq Usable'
<1>1. /\ profiles'[a] = c /\ c # NoCred
      /\ \A b \in Alias : b # a => profiles'[b] = profiles[b]
  BY Constants DEF TypeOK
<1>2. ASSUME NEW d \in OnDisk \ spent, d # profiles[a] PROVE d \in OnDisk'
  BY <1>1, <1>2, DiskMembers, DiskMembersNext
<1>3. c \in OnDisk'
  BY <1>1, DiskMembersNext
<1>4. ASSUME NEW d \in OnDisk \ spent PROVE Stays(d)
  <2>1. CASE d # profiles[a]
    BY <1>2, <2>1 DEF Stays
  <2>2. CASE d = profiles[a]
    <3>1. d # NoCred
      BY DiskMembers
    <3> QED
      BY <1>3, <2>2, <3>1 DEF Stays
  <2> QED
    BY <2>1, <2>2
<1> QED
  BY <1>4, UsableStays

LEMMA MovedKeepsUsable ==
  ASSUME TypeOK, spent' = spent, NEW a \in Alias, NEW b \in Alias, profiles[b] = NoCred,
         profiles' \in {profiles, Moved(a, b)}, UNCHANGED <<stages, archive, live, backups>>
  PROVE  Usable \subseteq Usable'
<1>1. CASE profiles' = profiles
  BY <1>1, DiskGrows
<1>2. CASE profiles' = Moved(a, b)
  <2>1. CASE a = b
    <3>1. \A d \in Alias : profiles[d] # NoCred => profiles'[d] = profiles[d]
      BY <1>2, <2>1 DEF Moved, TypeOK
    <3> QED
      BY <3>1, DiskGrows
  <2>2. CASE a # b
    <3>1. /\ profiles'[b] = profiles[a]
          /\ \A d \in Alias : d # a /\ d # b => profiles'[d] = profiles[d]
      BY <1>2, <2>2 DEF Moved, TypeOK
    <3>2. ASSUME NEW d \in Alias, profiles[d] # NoCred
          PROVE  \E e \in Alias : profiles[d] = profiles'[e]
      BY <3>1, <3>2
    <3> QED
      BY <3>2, DiskGrows
  <2> QED
    BY <2>1, <2>2
<1> QED
  BY <1>1, <1>2

(* A write under the transaction: what is written is unspent, or what is    *)
(* overwritten is spent, unless Codex overtook what was read from live.     *)
LEMMA WriteKeepsUsable ==
  ASSUME IInv, NEW p \in Proc, Write(p) \/ Copy(p), spent' = spent,
         Overtaken(tasks[p]) => tasks'[p] = tasks[p]
  PROVE  Usable \subseteq Usable'
<1>1. PICK t : t = tasks[p]
  OBVIOUS
<1>2. UNCHANGED <<stages, archive, live, backups>>
  BY DEF Write, Copy
<1>3. TypeOK
  BY DEF IInv
<1>4. CASE profiles' = profiles
  BY <1>2, <1>3, <1>4, DiskGrows
<1>5. tasks'[p] # t
  <2>1. t.pc \in {"write", "copy"}
    BY <1>1 DEF Write, Copy, At
  <2>2. \/ Return(p)
        \/ \E l \in {"swap", "unstage", "repair", "recheck"} : Go(p, l)
    BY DEF Write, Copy, AfterWrite
  <2>3. CASE Return(p)
    <3>1. tasks'[p] = Idle
      BY <1>3, <2>3 DEF Return, Set, TypeOK
    <3> QED
      BY <2>1, <3>1, IdleFits
  <2>4. ASSUME NEW l \in {"swap", "unstage", "repair", "recheck"}, Go(p, l) PROVE tasks'[p] # t
    <3>1. t \in Task
      BY <1>1, OwnFacts
    <3>2. tasks'[p] = [t EXCEPT !.pc = l]
      BY <1>1, <1>3, <2>4 DEF Go, Set, TypeOK
    <3>3. tasks'[p].pc = l
      BY <3>1, <3>2 DEF Task
    <3> QED
      BY <2>1, <2>4, <3>3
  <2> QED
    BY <2>2, <2>3, <2>4
<1>6. ~Overtaken(t)
  BY <1>1, <1>5
<1>7. CASE Write(p) /\ profiles' # profiles
  <2>1. t.pc = "write" /\ profiles' = [profiles EXCEPT ![t.alias] = t.fresh]
    BY <1>1, <1>7 DEF Write, At
  <2>2. /\ t \in Task /\ Shape(t) /\ Fits(t) /\ Renews(t) /\ t.alias \in Alias /\ t.fresh \in Cred
        /\ Refreshes(t) \/ t.kind \in {"save", "login", "reauth"}
    BY <1>1, <2>1, AtWrite
  <2>3. \/ profiles[t.alias] = NoCred
        \/ profiles[t.alias].account = t.fresh.account
    BY <2>2 DEF Renews
  <2>4. CASE Refreshes(t)
    <3>1. profiles[t.alias] \in spent
      BY <2>1, <2>2, <2>4 DEF Fits
    <3> QED
      BY <1>2, <1>3, <2>1, <2>2, <3>1, DiskRenewed
  <2>5. CASE t.kind = "save"
    <3>1. t.fresh \notin spent
      BY <1>6, <2>1, <2>5 DEF Overtaken
    <3> QED
      BY <1>2, <1>3, <2>1, <2>2, <2>3, <3>1, DiskRenewed
  <2>6. CASE t.kind \in {"login", "reauth"}
    <3>1. Bearing(t)
      BY <2>1, <2>6 DEF Bearing, Place
    <3>2. t.fresh \notin spent
      BY <1>1, <3>1 DEF IInv, Private, Elsewhere
    <3> QED
      BY <1>2, <1>3, <2>1, <2>2, <2>3, <3>2, DiskRenewed
  <2> QED
    BY <2>2, <2>4, <2>5, <2>6
<1>8. CASE Copy(p) /\ profiles' # profiles
  <2>1. /\ t.pc = "copy" /\ profiles' = [profiles EXCEPT ![t.alias] = t.fresh]
        /\ Adoptable(profiles[t.alias], t.fresh)
    BY <1>1, <1>8 DEF Copy, At
  <2>2. t \in Task /\ Shape(t)
    BY <1>1, OwnFacts
  <2>3. t.alias \in Alias /\ t.fresh \in Cred /\ t.kind \in {"sync", "readback"}
    BY <2>1, <2>2 DEF Shape, Named, Snapshots, KindFits, Place, Nameless
  <2>4. t.fresh \notin spent
    BY <1>6, <2>1, <2>3 DEF Overtaken
  <2>5. profiles[t.alias] = NoCred \/ profiles[t.alias].account = t.fresh.account
    BY <2>1 DEF Adoptable
  <2> QED
    BY <1>2, <1>3, <2>1, <2>3, <2>4, <2>5, DiskRenewed
<1> QED
  BY <1>4, <1>7, <1>8

LEMMA FilingKeepsUsable ==
  ASSUME IInv, NEW p \in Proc, FileNew(p), tasks[p].fresh \in Cred, spent' = spent
  PROVE  Usable \subseteq Usable'
<1>1. PICK c : c = tasks[p].fresh
  OBVIOUS
<1>2. TypeOK /\ UNCHANGED <<archive, live, backups>> /\ c \in Cred
  BY <1>1 DEF IInv, FileNew
<1>3. CASE UNCHANGED <<profiles, stages>>
  BY <1>2, <1>3, DiskGrows
<1>4. CASE ~UNCHANGED <<profiles, stages>>
  <2>1. PICK a \in Unnamed(tasks[p].other) : profiles' = [profiles EXCEPT ![a] = c]
    BY <1>1, <1>4 DEF FileNew
  <2>2. \A d \in stages : d \in stages' \/ d = c
    BY <1>1, <1>4 DEF FileNew
  <2>3. a \in Alias /\ profiles[a] = NoCred
    BY <2>1 DEF Unnamed
  <2>4. profiles'[a] = c /\ \A b \in Alias : b # a => profiles'[b] = profiles[b]
    BY <1>2, <2>1, <2>3 DEF TypeOK
  <2>5. \A d \in stages : d \in stages' \/ \E b \in Alias : d = profiles'[b]
    BY <2>2, <2>3, <2>4
  <2>6. \A b \in Alias : profiles[b] # NoCred => profiles[b] = profiles'[b]
    BY <2>3, <2>4
  <2> QED
    BY <1>2, <2>5, <2>6, DiskGrows
<1> QED
  BY <1>3, <1>4

LEMMA WritesKeepUsable ==
  ASSUME IInv, NEW p \in Proc, Writes(p), spent' = spent,
         Overtaken(tasks[p]) => tasks'[p] = tasks[p]
  PROVE  Usable \subseteq Usable'
<1>1. PICK t : t = tasks[p]
  OBVIOUS
<1>2. TypeOK /\ t \in Task /\ Shape(t) /\ Fits(t)
  BY <1>1, OwnFacts DEF IInv
<1>3. CASE Present(p) \/ SignIn(p) \/ Validate(p) \/ Rescue(p)
  <2>1. UNCHANGED <<profiles, archive, live, backups>> /\ stages \subseteq stages'
    BY <1>3 DEF Present, SignIn, Validate, Rescue, disk, registry
  <2> QED
    BY <1>2, <2>1, DiskGrows
<1>4. CASE Stage(p)
  <2>1. UNCHANGED <<profiles, archive, live, backups>> /\ stages \subseteq stages'
    BY <1>4 DEF Stage
  <2> QED
    BY <1>2, <2>1, DiskGrows
<1>5. CASE Unstage(p)
  <2>1. /\ UNCHANGED <<profiles, archive, live, backups>> /\ t.pc = "unstage"
        /\ stages' \in {stages, stages \ {t.fresh}}
    BY <1>1, <1>5 DEF Unstage, At
  <2>2. Refreshes(t) /\ t.alias \in Alias
    BY <1>2, <2>1 DEF Shape, KindFits, Named, Place, Nameless
  <2>3. profiles[t.alias] = t.fresh
    BY <1>2, <2>1, <2>2 DEF Fits
  <2>4. \A c \in stages : c \in stages' \/ \E a \in Alias : c = profiles'[a]
    BY <2>1, <2>2, <2>3
  <2>5. profiles' = profiles /\ archive' = archive /\ live' = live /\ backups' = backups
    BY <2>1
  <2> QED
    BY <1>2, <2>4, <2>5, DiskGrows
<1>6. CASE Write(p) \/ Copy(p)
  BY <1>6, WriteKeepsUsable
<1>7. CASE Swap(p)
  <2>1. UNCHANGED <<profiles, stages, archive>>
    BY <1>7 DEF Swap, registry
  <2>2. \/ UNCHANGED <<live, backups>>
        \/ backups' = backups \cup Retained(live)
    BY <1>7 DEF Swap
  <2>3. backups \subseteq backups' /\ (live # NoCred => live = live' \/ live \in backups')
    BY <2>2 DEF Retained
  <2> QED
    BY <1>2, <2>1, <2>3, DiskGrows
<1>8. CASE Install(p) \/ Refile(p)
  <2>1. t.pc \in {"install", "refile"}
    BY <1>1, <1>8 DEF Install, Refile, Look, At
  <2>2. t.fresh \in Cred
    BY <1>2, <2>1 DEF Shape, Snapshots, Place
  <2> QED
    BY <1>1, <1>8, <2>2, FilingKeepsUsable DEF Install, Refile
<1>9. CASE Archive(p)
  <2>1. t.pc = "archive" /\ UNCHANGED <<stages, live, backups>>
    BY <1>1, <1>9 DEF Archive, At
  <2>2. \/ profiles' = profiles /\ archive' = archive
        \/ /\ archive' = archive \cup {profiles[t.alias]}
           /\ profiles' = [profiles EXCEPT ![t.alias] = NoCred]
    BY <1>1, <1>9 DEF Archive
  <2>3. ASSUME NEW a \in Alias, profiles[a] # NoCred
        PROVE  profiles[a] \in archive' \/ \E b \in Alias : profiles[a] = profiles'[b]
    BY <1>2, <2>2, <2>3 DEF TypeOK
  <2>4. archive \subseteq archive'
    BY <2>2
  <2> QED
    BY <1>2, <2>1, <2>3, <2>4, DiskGrows
<1>10. CASE Move(p)
  <2>1. /\ t.pc = "move" /\ UNCHANGED <<stages, archive, live, backups>>
        /\ profiles' \in {profiles, Moved(t.alias, t.other)}
    BY <1>1, <1>10 DEF Move, At
  <2>2. t.alias \in Alias /\ t.other \in Alias
    BY <1>2, <2>1 DEF Shape, Named, Place, Nameless
  <2>3. profiles[t.other] = NoCred
    BY <1>2, <2>1 DEF Fits
  <2> QED
    BY <1>2, <2>1, <2>2, <2>3, MovedKeepsUsable
<1>11. CASE Remark(p)
  <2>1. /\ t.pc = "remark" /\ UNCHANGED <<stages, archive, live, backups>>
        /\ profiles' \in {profiles, Moved(t.other, t.alias)}
    BY <1>1, <1>11 DEF Remark, At
  <2>2. t.alias \in Alias /\ t.other \in Alias
    BY <1>2, <2>1 DEF Shape, Named, Place, Nameless
  <2>3. profiles[t.alias] = NoCred
    BY <1>2, <2>1 DEF Fits
  <2> QED
    BY <1>2, <2>1, <2>2, <2>3, MovedKeepsUsable
<1> QED
  BY <1>3, <1>4, <1>5, <1>6, <1>7, <1>8, <1>9, <1>10, <1>11 DEF Writes

(* An account that still has a usable refresh token on disk keeps one,      *)
(* through every failure and crash: a refresh overwrites only what it has   *)
(* spent, a rotation is staged until its profile has it, what a switch      *)
(* displaces is retained, and a deleted profile is archived.  The exception *)
(* is a copy of live that Codex has rotated since it was read.              *)
THEOREM UsableIsKept == Spec => UsableKept
<1>1. IInv /\ [Next]_vars =>
        [/\ used'.moves = used.moves /\ spent' = spent
         /\ \A p \in Proc : Overtaken(tasks[p]) => tasks'[p] = tasks[p]
         => Usable \subseteq Usable']_vars
  <2> SUFFICES ASSUME IInv, [Next]_vars, used'.moves = used.moves, spent' = spent,
                      \A p \in Proc : Overtaken(tasks[p]) => tasks'[p] = tasks[p]
               PROVE  Usable \subseteq Usable'
    OBVIOUS
  <2>1. TypeOK /\ used \in [ops : Nat, moves : Nat, crashes : Nat]
    BY DEF IInv, TypeOK
  <2>2. ASSUME UNCHANGED <<registry, live, backups>>
        PROVE  Usable \subseteq Usable'
    <3>1. /\ profiles' = profiles /\ stages' = stages /\ archive' = archive /\ live' = live
          /\ backups' = backups
      BY <2>2 DEF registry
    <3> QED
      BY <2>1, <3>1, DiskGrows
  <2>3. ASSUME NEW p \in Proc, Quiet(p)
        PROVE  Usable \subseteq Usable'
    BY <2>2, <2>3 DEF Quiet, QuietTurn
  <2>4. ASSUME NEW p \in Proc, Writes(p)
        PROVE  Usable \subseteq Usable'
    BY <2>4, WritesKeepUsable
  <2>5. CASE Codex
    <3>1. ~CodexMoves
      BY <2>1 DEF CodexMoves
    <3>2. CodexLoads
      BY <2>5, <3>1 DEF Codex, CodexRotates, CodexLogsIn, CodexLogsOut
    <3> QED
      BY <2>2, <3>2 DEF CodexLoads, disk
  <2>6. CASE UNCHANGED vars
    BY <2>2, <2>6 DEF vars, disk
  <2> QED
    BY <2>3, <2>4, <2>5, <2>6, StepSorts
<1> QED
  BY <1>1, StoreInductive, PTL DEF Spec, UsableKept

----------------------------------------------------------------------------
(* Leases.  A profile changes only under its lease, so what an operation    *)
(* read of it before the network or the user was asked still holds after.   *)

(* The leases an operation holds, or is still waiting for.                  *)
One == {"authorize", "present", "stage", "commit", "write", "swap", "mark", "unstage", "repair",
        "prepare", "switch", "consent", "activate", "relocate", "adopt", "copy", "recheck",
        "store", "bind", "reauth", "delete", "unmark", "archive"}
Both == {"autoswitch", "rename", "move", "remark"}

Has(p, t, a) == lease[a] = p \/ (t.pc = "lease" /\ a \in t.need)

Leased(p, t) ==
  /\ Place(t) \in One \cup Both => Has(p, t, t.alias)
  /\ Place(t) \in Both => Has(p, t, t.other)

Networking == {"present", "stage", "commit"}
Undoing    == {"unmark", "archive", "move", "remark"}

(* What the profile and live hold while an operation relies on them.        *)
Backed(t) ==
  /\ t.pc \in Networking => profiles[t.alias] = t.saved
  /\ t.pc \in {"swap", "recheck"} => profiles[t.alias] = t.fresh
  /\ t.pc = "mark" /\ live # NoCred => Exact(live) \subseteq {t.alias}

(* While the token that a refresh presents is live, live follows it, and    *)
(* the marker is where it was or names the profile; once it is replaced, no *)
(* refresh that reports success leaves it live.                             *)
Follows(t) ==
  /\ t.pc \in Networking /\ live = t.saved => t.follow /\ marker \in {t.marker, t.alias}
  /\ t.pc \in {"write", "swap", "mark", "unstage"} /\ Refreshes(t)
       => /\ t.saved # NoCred /\ t.fresh # t.saved /\ t.saved \in spent
          /\ \/ t.pc = "write" /\ t.ok /\ ~t.follow
             \/ t.pc = "mark"
             \/ t.pc = "unstage" /\ t.ok
             => live # t.saved

(* An operation that may put the marker back does not take it from a        *)
(* refresh whose token is live.                                             *)
Reverts(t) ==
  t.pc \in Undoing =>
    \A q \in Proc : tasks[q].pc \in Networking /\ live = tasks[q].saved
      => /\ t.marker \in {tasks[q].marker, tasks[q].alias}
         /\ t.pc \in {"move", "remark"} => ~t.follow

(* What a switch displaces is what was agreed to, or for the daemon what    *)
(* belongs to the profile marked active.                                    *)
Decided(t) ==
  t.pc = "swap" =>
    /\ t.kind = "revive" /\ ~Refreshes(t) => t.live \in {t.agreed, t.fresh}
    /\ t.kind = "auto" /\ t.live # NoCred => marker \in Exact(t.live) \cup Holders(t.live.account)

(* A live credential the user was not asked about was a profile's, and its  *)
(* account's profiles only go forward.                                      *)
Grounded(t) ==
  /\ t.kind \in {"login", "reauth"} => SignIns
  /\ t.kind = "use" /\ ~t.asked /\ t.live # NoCred => Superseded(t.live)
  /\ t.kind = "revive" /\ ~t.asked /\ t.agreed # NoCred => Superseded(t.agreed)
  /\ Decided(t)

Standing(p, t) == Leased(p, t) /\ Backed(t) /\ Follows(t) /\ Reverts(t) /\ Grounded(t)

JInv == \A p \in Proc : Standing(p, tasks[p])

(* What the registry guarantees, used at every step.                        *)
Distinct == Registry!OneProfilePerAccount

LEMMA TheOne ==
  ASSUME TypeOK, Distinct, NEW a \in Alias, NEW c, c # NoCred, profiles[a] = c
  PROVE  /\ Exact(c) = {a} /\ Bound(c) = {a} /\ ~Undecided(c) /\ Active(c) = {a}
         /\ \A b \in Alias : Belongs(b, c) <=> b = a
         /\ live = c => RepairedMarker = a
<1>1. Exact(c) = {a}
  BY DEF Exact, Distinct, Registry!OneProfilePerAccount, Registry!Saved
<1>2. Cardinality(Exact(c)) = 1
  BY <1>1, FS_Singleton
<1>3. Bound(c) = {a}
  BY <1>1, <1>2 DEF Bound
<1>4. ~Undecided(c) /\ Active(c) = {a} /\ \A b \in Alias : Belongs(b, c) <=> b = a
  BY <1>1, <1>3 DEF Undecided, Active, Belongs
<1>5. ASSUME live = c PROVE RepairedMarker = a
  <2>1. RepairedMarker = CHOOSE b \in Bound(c) : TRUE
    BY <1>1, <1>5 DEF RepairedMarker
  <2>2. (CHOOSE b \in Bound(c) : TRUE) \in Bound(c)
    BY <1>3
  <2> QED
    BY <1>3, <2>1, <2>2
<1> QED
  BY <1>1, <1>3, <1>4, <1>5

----------------------------------------------------------------------------
(* A step of a process spares the others: their leases, the profiles they   *)
(* have leased, and all they keep the auth transaction for.                 *)
SparesLeases(p) ==
  /\ \A a \in Alias : lease[a] \notin {p, Nobody} => lease'[a] = lease[a]
  /\ lease' \in [Alias -> Proc \cup {Nobody}]

SparesProfiles(p) ==
  /\ \A a \in Alias : lease[a] \notin {p, Nobody} /\ profiles[a] # NoCred
       => profiles'[a] = profiles[a]
  /\ \A c \in Cred : Superseded(c) => Superseded(c)'

SparesLocked(p) ==
  txn \notin {p, Nobody} => profiles' = profiles /\ marker' = marker /\ live' = live

SparesRefreshed(p) ==
  \A q \in Proc \ {p} : tasks[q].pc \in Networking /\ live' = tasks[q].saved
    => live' = live /\ marker' \in {tasks[q].marker, tasks[q].alias}

Spares(p) ==
  /\ SparesLeases(p) /\ SparesProfiles(p) /\ SparesLocked(p) /\ SparesRefreshed(p)
  /\ spent \subseteq spent'

(* A refresh begins when nobody keeps the transaction, and keeps what it    *)
(* read.                                                                    *)
Joins(t, u) ==
  u.pc \in Networking =>
    \/ txn = Nobody
    \/ t.pc \in Networking /\ u.saved = t.saved /\ u.marker = t.marker /\ u.alias = t.alias

Own(p) == \E u : u \in Task /\ Set(p, u) /\ Joins(tasks[p], u) /\ Standing(p, u)'

(* Where leases are held the operation has its profiles.                    *)
LEMMA LeasedNames ==
  ASSUME NEW t \in Task, Shape(t)
  PROVE  /\ Place(t) \in One \cup Both => t.alias \in Alias
         /\ Place(t) \in Both => t.other \in Alias
         /\ t.pc \in Networking \cup Undoing \cup {"swap", "recheck", "mark", "write", "unstage"}
              => t.alias \in Alias /\ Place(t) \in One \cup Both
         /\ t.pc \in Networking => t.saved \in Cred
BY DEF Shape, Named, Snapshots, Place, Nameless, One, Both, Networking, Undoing

LEMMA OthersStand ==
  ASSUME IInv, NEW p \in Proc, Spares(p), NEW u, Set(p, u), Joins(tasks[p], u),
         NEW q \in Proc \ {p}, NEW t, t = tasks[q], Standing(q, t)
  PROVE  Standing(q, t)'
<1>1. /\ t \in Task /\ Shape(t) /\ (t.pc \in InTxn => txn = q)
      /\ p # Nobody /\ q # Nobody /\ q # p
  BY OwnFacts, Constants
<1>2. /\ Place(t) \in One \cup Both => t.alias \in Alias
      /\ Place(t) \in Both => t.other \in Alias
      /\ t.pc \in Networking \cup Undoing \cup {"swap", "recheck", "mark", "write", "unstage"}
           => t.alias \in Alias /\ Place(t) \in One \cup Both
      /\ t.pc \in Networking => t.saved \in Cred
  BY <1>1, LeasedNames
<1>3. t.pc \in InTxn => profiles' = profiles /\ marker' = marker /\ live' = live
  BY <1>1 DEF Spares, SparesLocked
<1>4. tasks'[p] = u /\ \A r \in Proc \ {p} : tasks'[r] = tasks[r]
  BY DEF Set, IInv, TypeOK
<1>5. Leased(q, t)'
  <2>1. Leased(q, t)
    BY DEF Standing
  <2>2. \A a \in Alias : Has(q, t, a) => Has(q, t, a)'
    BY <1>1 DEF Has, Spares, SparesLeases
  <2> QED
    BY <1>2, <2>1, <2>2 DEF Leased
<1>6. Backed(t)'
  <2>1. Backed(t)
    BY DEF Standing
  <2>2. t.pc \in Networking => profiles'[t.alias] = t.saved
    <3> HAVE t.pc \in Networking
    <3>1. t.alias \in Alias /\ t.saved \in Cred /\ Has(q, t, t.alias) /\ t.pc # "lease"
      BY <1>2 DEF Standing, Leased, Networking
    <3>2. lease[t.alias] = q /\ profiles[t.alias] = t.saved
      BY <2>1, <3>1 DEF Has, Backed
    <3> QED
      BY <1>1, <3>1, <3>2, Constants DEF Spares, SparesProfiles
  <2>3. CASE t.pc \in {"swap", "recheck", "mark"}
    <3>1. profiles' = profiles /\ live' = live
      BY <1>3, <2>3 DEF InTxn
    <3>2. Exact(live)' = Exact(live)
      BY <3>1 DEF Exact
    <3> QED
      BY <2>1, <2>2, <3>1, <3>2 DEF Backed
  <2>4. CASE t.pc \notin {"swap", "recheck", "mark"}
    BY <2>2, <2>4 DEF Backed
  <2> QED
    BY <2>3, <2>4
<1>7. Follows(t)'
  <2>1. Follows(t)
    BY DEF Standing
  <2>2. t.pc \in Networking /\ live' = t.saved => t.follow /\ marker' \in {t.marker, t.alias}
    BY <1>1, <2>1 DEF Spares, SparesRefreshed, Follows
  <2>3. spent \subseteq spent' /\ (t.pc \in {"write", "swap", "mark", "unstage"} => live' = live)
    BY <1>3 DEF Spares, InTxn
  <2> QED
    BY <2>1, <2>2, <2>3 DEF Follows
<1>8. Reverts(t)'
  <2> SUFFICES ASSUME t.pc \in Undoing, NEW r \in Proc, tasks'[r].pc \in Networking,
                      live' = tasks'[r].saved
               PROVE  /\ t.marker \in {tasks'[r].marker, tasks'[r].alias}
                      /\ t.pc \in {"move", "remark"} => ~t.follow
    BY DEF Reverts
  <2>1. txn = q /\ live' = live
    BY <1>1, <1>3 DEF Undoing, InTxn
  <2>2. /\ tasks[r].pc \in Networking /\ tasks[r].saved = tasks'[r].saved
        /\ tasks[r].marker = tasks'[r].marker /\ tasks[r].alias = tasks'[r].alias
    BY <1>1, <1>4, <2>1 DEF Joins
  <2> QED
    BY <2>1, <2>2 DEF Standing, Reverts
<1>9. Grounded(t)'
  <2>1. Grounded(t) /\ t.live \in CredOrNone /\ t.agreed \in CredOrNone
    BY <1>1, TaskTypes DEF Standing
  <2>2. \A c \in CredOrNone : c # NoCred /\ Superseded(c) => Superseded(c)'
    BY DEF Spares, SparesProfiles, CredOrNone
  <2>3. CASE t.pc = "swap"
    <3>1. profiles' = profiles /\ marker' = marker
      BY <1>3, <2>3 DEF InTxn
    <3>2. Exact(t.live)' = Exact(t.live) /\ Holders(t.live.account)' = Holders(t.live.account)
      BY <3>1 DEF Exact, Holders
    <3> QED
      BY <2>1, <2>2, <3>1, <3>2 DEF Grounded, Decided
  <2>4. CASE t.pc # "swap"
    BY <2>1, <2>2, <2>4 DEF Grounded, Decided
  <2> QED
    BY <2>3, <2>4
<1> QED
  BY <1>5, <1>6, <1>7, <1>8, <1>9 DEF Standing

(* A step that spares the others and leaves its own task standing.          *)
LEMMA StandingKept ==
  ASSUME IInv, JInv, NEW p \in Proc, Spares(p), Own(p)
  PROVE  JInv'
<1>1. PICK u : u \in Task /\ Set(p, u) /\ Joins(tasks[p], u) /\ Standing(p, u)'
  BY DEF Own
<1>2. tasks'[p] = u /\ \A q \in Proc \ {p} : tasks'[q] = tasks[q]
  BY <1>1 DEF Set, IInv, TypeOK
<1>3. ASSUME NEW q \in Proc PROVE Standing(q, tasks[q])'
  <2>1. CASE q = p
    BY <1>1, <1>2, <2>1
  <2>2. CASE q # p
    <3>1. PICK t : t = tasks[q]
      OBVIOUS
    <3>2. Standing(q, t)'
      BY <1>1, <2>2, <3>1, OthersStand DEF JInv
    <3> QED
      BY <1>2, <2>2, <3>1, <3>2
  <2> QED
    BY <2>1, <2>2
<1> QED
  BY <1>3 DEF JInv

----------------------------------------------------------------------------
(* Every step spares the others.  First their leases.                       *)
LEMMA ReturnSpares ==
  ASSUME TypeOK, NEW p \in Proc, lease' \in {lease, Released(p)}
  PROVE  SparesLeases(p)
<1>1. lease' = lease \/ lease' = [a \in Alias |-> IF lease[a] = p THEN Nobody ELSE lease[a]]
  BY DEF Released
<1> QED
  BY <1>1 DEF SparesLeases, TypeOK

LEMMA TakeLeaseSpares ==
  ASSUME IInv, NEW p \in Proc, TakeLease(p)
  PROVE  SparesLeases(p)
<1>1. PICK a : lease[a] = Nobody /\ lease' = [lease EXCEPT ![a] = p]
  BY DEF TakeLease
<1> QED
  BY <1>1 DEF SparesLeases, IInv, TypeOK

LEMMA LeasesSpared ==
  ASSUME IInv, NEW p \in Proc,
         Step(p) \/ GiveUp(p) \/ Answer(p) \/ SignIn(p) \/ Crash(p) \/ \E r \in Requests[p] : Begin(p, r)
  PROVE  SparesLeases(p)
<1> USE DEF Return, Keep, Await, Leave, locks
<1>1. CASE TakeLease(p)
  BY <1>1, TakeLeaseSpares
<1>2. CASE \/ Authorize(p) \/ Present(p) \/ Stage(p) \/ Commit(p) \/ Unstage(p)
           \/ Prepare(p) \/ Proceed(p) \/ Switch(p) \/ Consent(p) \/ Activate(p)
  <2>1. lease' \in {lease, Released(p)}
    BY <1>2 DEF Authorize, Present, Stage, Commit, Unstage, Prepare, Proceed, Switch, Consent, Activate
  <2> QED
    BY <2>1, ReturnSpares DEF IInv
<1>3. CASE Write(p) \/ Swap(p) \/ Mark(p) \/ Repair(p)
  <2>1. lease' \in {lease, Released(p)}
    BY <1>3 DEF Write, Swap, Mark, Repair, Finish
  <2> QED
    BY <2>1, ReturnSpares DEF IInv
<1>4. CASE \/ Locate(p) \/ Relocate(p) \/ AutoSwitch(p) \/ Adopt(p) \/ Copy(p) \/ Recheck(p)
           \/ Plan(p) \/ Store(p) \/ Bind(p) \/ Reauthorize(p)
  <2>1. lease' \in {lease, Released(p)}
    BY <1>4 DEF Locate, Relocate, AutoSwitch, Adopt, Copy, Recheck, Plan, Store, Bind, Reauthorize
  <2> QED
    BY <2>1, ReturnSpares DEF IInv
<1>5. CASE \/ Scan(p) \/ Reserve(p) \/ Validate(p) \/ Install(p) \/ Rescue(p) \/ Refile(p)
           \/ Delete(p) \/ Unmark(p) \/ Archive(p) \/ Rename(p) \/ Move(p) \/ Remark(p)
  <2>1. lease' \in {lease, Released(p)}
    BY <1>5 DEF Scan, Reserve, Validate, Install, Rescue, Refile, FileNew, Delete, Unmark, Archive,
                Rename, Move, Remark
  <2> QED
    BY <2>1, ReturnSpares DEF IInv
<1>6. CASE GiveUp(p) \/ Answer(p) \/ SignIn(p) \/ Crash(p) \/ \E r \in Requests[p] : Begin(p, r)
  <2>1. lease' \in {lease, Released(p)}
    BY <1>6 DEF GiveUp, Answer, SignIn, Crash, Begin
  <2> QED
    BY <2>1, ReturnSpares DEF IInv
<1> QED
  BY <1>1, <1>2, <1>3, <1>4, <1>5, <1>6 DEF Step

(* What holds of a refresh while the network is slow.                       *)
LEMMA Refreshing ==
  ASSUME IInv, JInv, Distinct, NEW q \in Proc, NEW t, t = tasks[q], t.pc \in Networking
  PROVE  /\ t.alias \in Alias /\ lease[t.alias] = q /\ profiles[t.alias] = t.saved
         /\ t.saved \in Cred /\ t.saved # NoCred
         /\ Exact(t.saved) = {t.alias} /\ ~Undecided(t.saved) /\ Active(t.saved) = {t.alias}
         /\ \A b \in Alias : Belongs(b, t.saved) <=> b = t.alias
         /\ live = t.saved =>
              RepairedMarker = t.alias /\ t.follow /\ marker \in {t.marker, t.alias}
<1>1. t \in Task /\ Shape(t) /\ TypeOK
  BY OwnFacts DEF IInv
<1>2. Standing(q, t)
  BY DEF JInv
<1>3. t.alias \in Alias /\ t.saved \in Cred /\ Place(t) \in One /\ t.saved # NoCred
  BY <1>1, LeasedNames, Constants DEF Networking, Place, One
<1>4. lease[t.alias] = q /\ profiles[t.alias] = t.saved
  BY <1>2, <1>3 DEF Standing, Leased, Has, Backed, Networking
<1>5. /\ Exact(t.saved) = {t.alias} /\ ~Undecided(t.saved) /\ Active(t.saved) = {t.alias}
      /\ \A b \in Alias : Belongs(b, t.saved) <=> b = t.alias
      /\ live = t.saved => RepairedMarker = t.alias
  BY <1>1, <1>3, <1>4, TheOne
<1>6. live = t.saved => t.follow /\ marker \in {t.marker, t.alias}
  BY <1>2 DEF Standing, Follows
<1> QED
  BY <1>3, <1>4, <1>5, <1>6

LEMMA SupersededStays ==
  ASSUME TypeOK, archive \subseteq archive', archive' \subseteq Cred,
         \A a \in Alias : profiles[a] # NoCred =>
           \E d \in archive' \cup ({profiles'[b] : b \in Alias} \ {NoCred}) :
             /\ d \in Cred
             /\ d.account = profiles[a].account /\ (d.gen >= profiles[a].gen \/ SignIns)
  PROVE  \A c \in Cred : Superseded(c) => Superseded(c)'
<1> SUFFICES ASSUME NEW c \in Cred, Superseded(c)
             PROVE  \E d \in archive' \cup ({profiles'[b] : b \in Alias} \ {NoCred}) :
                      d.account = c.account /\ (d.gen >= c.gen \/ SignIns)
  BY DEF Superseded, SignIns
<1>1. PICK e \in archive \cup ({profiles[b] : b \in Alias} \ {NoCred}) :
        e.account = c.account /\ (e.gen >= c.gen \/ SignIns)
  BY DEF Superseded
<1>2. CASE e \in archive
  BY <1>1, <1>2
<1>3. CASE e \notin archive
  <2>1. PICK a \in Alias : e = profiles[a] /\ e # NoCred
    BY <1>1, <1>3
  <2>2. PICK d \in archive' \cup ({profiles'[b] : b \in Alias} \ {NoCred}) :
          /\ d \in Cred
          /\ d.account = e.account /\ (d.gen >= e.gen \/ SignIns)
    BY <2>1
  <2>3. e \in Cred
    BY <2>1 DEF TypeOK, CredOrNone
  <2>4. d.gen \in Nat /\ e.gen \in Nat /\ c.gen \in Nat
    BY <2>2, <2>3, Constants DEF Cred
  <2>5. d.account = c.account /\ (d.gen >= c.gen \/ SignIns)
    BY <1>1, <2>2, <2>4
  <2> QED
    BY <2>2, <2>5
<1> QED
  BY <1>2, <1>3

(* Steps that leave profiles, live and the marker alone.                    *)
LEMMA CalmSpares ==
  ASSUME IInv, JInv, NEW p \in Proc, SparesLeases(p), spent \subseteq spent',
         UNCHANGED <<profiles, archive, live, marker>>
  PROVE  Spares(p)
<1>1. SparesProfiles(p)
  BY DEF SparesProfiles, Superseded, SignIns
<1>2. SparesLocked(p)
  BY DEF SparesLocked
<1>3. ASSUME NEW q \in Proc \ {p}, tasks[q].pc \in Networking, live' = tasks[q].saved
      PROVE  live' = live /\ marker' \in {tasks[q].marker, tasks[q].alias}
  <2>1. PICK t : t = tasks[q]
    OBVIOUS
  <2>2. Follows(t)
    BY <2>1 DEF JInv, Standing
  <2> QED
    BY <1>3, <2>1, <2>2 DEF Follows
<1> QED
  BY <1>1, <1>2, <1>3 DEF Spares, SparesRefreshed

(* Steps that move the marker.                                              *)
LEMMA MarkerSpares ==
  ASSUME IInv, JInv, NEW p \in Proc, SparesLeases(p), spent \subseteq spent',
         UNCHANGED <<profiles, archive, live>>, txn \in {p, Nobody},
         \A q \in Proc \ {p} : tasks[q].pc \in Networking /\ live = tasks[q].saved
           => marker' \in {tasks[q].marker, tasks[q].alias}
  PROVE  Spares(p)
<1>1. SparesProfiles(p)
  BY DEF SparesProfiles, Superseded, SignIns
<1> QED
  BY <1>1 DEF Spares, SparesLocked, SparesRefreshed

(* Steps that write a profile.                                              *)
LEMMA ProfilesSpare ==
  ASSUME IInv, JInv, NEW p \in Proc, SparesLeases(p), SparesProfiles(p), spent \subseteq spent',
         UNCHANGED <<live, marker>>, txn \in {p, Nobody}
  PROVE  Spares(p)
<1>1. ASSUME NEW q \in Proc \ {p}, tasks[q].pc \in Networking, live' = tasks[q].saved
      PROVE  live' = live /\ marker' \in {tasks[q].marker, tasks[q].alias}
  <2>1. PICK t : t = tasks[q]
    OBVIOUS
  <2>2. Follows(t)
    BY <2>1 DEF JInv, Standing
  <2> QED
    BY <1>1, <2>1, <2>2 DEF Follows
<1> QED
  BY <1>1 DEF Spares, SparesLocked, SparesRefreshed

LEMMA StoreSpares ==
  ASSUME IInv, NEW p \in Proc, SparesLeases(p), SparesProfiles(p), spent \subseteq spent',
         live' = live, txn \in {p, Nobody},
         \A q \in Proc \ {p} : tasks[q].pc \in Networking /\ live = tasks[q].saved
           => marker' \in {tasks[q].marker, tasks[q].alias}
  PROVE  Spares(p)
BY DEF Spares, SparesLocked, SparesRefreshed

(* What a task under the transaction knows of its own profile: no refresh   *)
(* of another process is of it.                                             *)
LEMMA OwnProfile ==
  ASSUME IInv, JInv, Distinct, NEW p \in Proc, NEW t, t = tasks[p], t.pc # "lease",
         Place(t) \in One \cup Both,
         NEW q \in Proc \ {p}, tasks[q].pc \in Networking
  PROVE  /\ tasks[q].alias # t.alias /\ tasks[q].saved # profiles[t.alias]
         /\ Place(t) \in Both => tasks[q].alias # t.other /\ tasks[q].saved # profiles[t.other]
<1>1. PICK s : s = tasks[q]
  OBVIOUS
<1>2. s.alias \in Alias /\ lease[s.alias] = q /\ Exact(s.saved) = {s.alias}
  BY <1>1, Refreshing
<1>3. t \in Task /\ Shape(t)
  BY OwnFacts
<1>4. /\ t.alias \in Alias /\ lease[t.alias] = p
      /\ Place(t) \in Both => t.other \in Alias /\ lease[t.other] = p
  BY <1>3, LeasedNames DEF JInv, Standing, Leased, Has
<1>5. \A a \in Alias : s.saved = profiles[a] => a = s.alias
  BY <1>2 DEF Exact
<1> QED
  BY <1>1, <1>2, <1>4, <1>5

LEMMA MarkSpares ==
  ASSUME IInv, JInv, Distinct, NEW p \in Proc, Mark(p), SparesLeases(p)
  PROVE  Spares(p)
<1>1. PICK t : t = tasks[p]
  OBVIOUS
<1>2. /\ t.pc = "mark" /\ txn = p /\ Place(t) \in One
      /\ UNCHANGED <<profiles, archive, live>> /\ spent' = spent
      /\ marker' \in {marker, t.alias}
  BY <1>1, OwnFacts DEF Mark, At, InTxn, Place, One, registry, outside
<1>3. ASSUME NEW q \in Proc \ {p}, tasks[q].pc \in Networking, live = tasks[q].saved
      PROVE  marker' \in {tasks[q].marker, tasks[q].alias}
  <2>1. PICK s : s = tasks[q]
    OBVIOUS
  <2>2. /\ s.saved # NoCred /\ Exact(s.saved) = {s.alias}
        /\ marker \in {s.marker, s.alias}
    BY <1>3, <2>1, Refreshing
  <2>3. Exact(live) \subseteq {t.alias}
    BY <1>1, <1>2, <1>3, <2>1, <2>2 DEF JInv, Standing, Backed
  <2>4. s.alias # t.alias
    BY <1>1, <1>2, <1>3, <2>1, OwnProfile
  <2> QED
    BY <1>3, <2>1, <2>2, <2>3, <2>4
<1> QED
  BY <1>2, <1>3, MarkerSpares

LEMMA RepairSpares ==
  ASSUME IInv, JInv, Distinct, NEW p \in Proc, Repair(p) \/ Unmark(p), SparesLeases(p)
  PROVE  Spares(p)
<1>1. /\ txn = p /\ UNCHANGED <<profiles, archive, live>> /\ spent' = spent
      /\ marker' \in {marker, RepairedMarker}
  BY OwnFacts DEF Repair, Unmark, At, InTxn, registry, outside
<1>2. ASSUME NEW q \in Proc \ {p}, tasks[q].pc \in Networking, live = tasks[q].saved
      PROVE  marker' \in {tasks[q].marker, tasks[q].alias}
  BY <1>1, <1>2, Refreshing
<1> QED
  BY <1>1, <1>2, MarkerSpares

LEMMA RelocateSpares ==
  ASSUME IInv, JInv, Distinct, NEW p \in Proc, Relocate(p), SparesLeases(p)
  PROVE  Spares(p)
<1>1. PICK t : t = tasks[p]
  OBVIOUS
<1>2. /\ txn = Nobody /\ UNCHANGED <<profiles, archive, live>> /\ spent' = spent
      /\ marker' = marker \/ (t.alias \in Active(live) /\ marker' = t.alias)
  BY <1>1 DEF Relocate, Look, registry, outside
<1>3. ASSUME NEW q \in Proc \ {p}, tasks[q].pc \in Networking, live = tasks[q].saved
      PROVE  marker' \in {tasks[q].marker, tasks[q].alias}
  BY <1>2, <1>3, Refreshing
<1> QED
  BY <1>2, <1>3, MarkerSpares

LEMMA SwapSpares ==
  ASSUME IInv, JInv, Distinct, NEW p \in Proc, Swap(p), SparesLeases(p)
  PROVE  Spares(p)
<1>1. PICK t : t = tasks[p]
  OBVIOUS
<1>2. /\ t.pc = "swap" /\ txn = p /\ Place(t) \in One
      /\ UNCHANGED <<profiles, archive, marker>> /\ spent' = spent
      /\ live' \in {live, t.fresh}
  BY <1>1, OwnFacts DEF Swap, At, InTxn, Place, One, registry, outside
<1>3. CASE live' = live
  BY <1>2, <1>3, CalmSpares
<1>4. CASE live' = t.fresh
  <2>1. profiles[t.alias] = t.fresh
    BY <1>1, <1>2 DEF JInv, Standing, Backed
  <2>2. \A q \in Proc \ {p} : tasks[q].pc \in Networking => live' # tasks[q].saved
    BY <1>1, <1>2, <1>4, <2>1, OwnProfile
  <2>3. SparesProfiles(p)
    BY <1>2 DEF SparesProfiles, Superseded, SignIns
  <2> QED
    BY <1>2, <2>2, <2>3 DEF Spares, SparesLocked, SparesRefreshed
<1> QED
  BY <1>2, <1>3, <1>4

(* Writing a profile.                                                       *)
LEMMA RenewedSpares ==
  ASSUME IInv, JInv, NEW p \in Proc, NEW a \in Alias, NEW c \in Cred,
         lease[a] = p \/ profiles[a] = NoCred,
         profiles' = [profiles EXCEPT ![a] = c], archive' = archive,
         profiles[a] # NoCred =>
           profiles[a].account = c.account /\ (c.gen >= profiles[a].gen \/ SignIns)
  PROVE  SparesProfiles(p)
<1>1. TypeOK /\ profiles'[a] = c /\ c # NoCred
      /\ \A b \in Alias : b # a => profiles'[b] = profiles[b]
  BY Constants DEF IInv, TypeOK
<1>2. ASSUME NEW b \in Alias, profiles[b] # NoCred
      PROVE  \E d \in archive' \cup ({profiles'[e] : e \in Alias} \ {NoCred}) :
               /\ d \in Cred
               /\ d.account = profiles[b].account /\ (d.gen >= profiles[b].gen \/ SignIns)
  <2>1. CASE b = a
    BY <1>1, <1>2, <2>1
  <2>2. CASE b # a
    <3>1. profiles'[b] = profiles[b] /\ profiles[b] \in Cred
      BY <1>1, <1>2, <2>2 DEF TypeOK, CredOrNone
    <3>2. profiles[b].gen >= profiles[b].gen
      BY <3>1, Constants DEF Cred
    <3> QED
      BY <1>2, <3>1, <3>2
  <2> QED
    BY <2>1, <2>2
<1>3. \A d \in Cred : Superseded(d) => Superseded(d)'
  <2>1. archive \subseteq archive' /\ archive' \subseteq Cred
    BY <1>1 DEF TypeOK
  <2> QED
    BY <1>1, <1>2, <2>1, SupersededStays
<1>4. \A b \in Alias : lease[b] \notin {p, Nobody} /\ profiles[b] # NoCred
         => profiles'[b] = profiles[b]
  BY <1>1
<1> QED
  BY <1>3, <1>4 DEF SparesProfiles

LEMMA WriteSpares ==
  ASSUME IInv, JInv, NEW p \in Proc, Write(p) \/ Copy(p), SparesLeases(p)
  PROVE  Spares(p)
<1>1. PICK t : t = tasks[p]
  OBVIOUS
<1>2. /\ t.pc \in {"write", "copy"} /\ txn = p /\ Place(t) \in One /\ t.pc # "lease"
      /\ t \in Task /\ Shape(t) /\ Fits(t)
      /\ UNCHANGED <<archive, live, marker>> /\ spent' = spent
      /\ profiles' = profiles \/ profiles' = [profiles EXCEPT ![t.alias] = t.fresh]
  BY <1>1, OwnFacts DEF Write, Copy, At, InTxn, Place, One, outside
<1>3. CASE profiles' = profiles
  BY <1>2, <1>3, CalmSpares
<1>4. CASE profiles' # profiles
  <2>1. t.alias \in Alias /\ t.fresh \in Cred
    BY <1>2, LeasedNames DEF Shape, Snapshots, Place
  <2>2. lease[t.alias] = p /\ Grounded(t)
    BY <1>1, <1>2 DEF JInv, Standing, Leased, Has
  <2>3. profiles[t.alias] # NoCred =>
          profiles[t.alias].account = t.fresh.account
          /\ (t.fresh.gen >= profiles[t.alias].gen \/ SignIns)
    <3>1. CASE Write(p)
      <4>1. t.pc = "write"
        BY <1>1, <3>1 DEF Write, At
      <4> QED
        BY <1>2, <2>2, <4>1 DEF Fits, Renews, Grounded
    <3>2. CASE Copy(p)
      <4>1. Adoptable(profiles[t.alias], t.fresh)
        BY <1>1, <1>4, <3>2 DEF Copy
      <4>2. profiles[t.alias] # NoCred => profiles[t.alias].gen \in Nat /\ t.fresh.gen \in Nat
        BY <2>1, Constants DEF IInv, TypeOK, CredOrNone, Cred
      <4> QED
        BY <4>1, <4>2 DEF Adoptable
    <3> QED
      BY <3>1, <3>2, <1>1, <1>2 DEF Write, Copy, At
  <2>4. SparesProfiles(p)
    BY <1>2, <1>4, <2>1, <2>2, <2>3, RenewedSpares
  <2> QED
    BY <1>2, <2>4, ProfilesSpare
<1> QED
  BY <1>3, <1>4

LEMMA FilingSpares ==
  ASSUME IInv, JInv, NEW p \in Proc, Install(p) \/ Refile(p), SparesLeases(p)
  PROVE  Spares(p)
<1>1. PICK t : t = tasks[p]
  OBVIOUS
<1>2. /\ t.pc \in {"install", "refile"} /\ txn \in {p, Nobody}
      /\ t \in Task /\ Shape(t) /\ FileNew(p)
  BY <1>1, OwnFacts DEF Install, Refile, Look, At, InTxn
<1>3. /\ UNCHANGED <<archive, live, marker>> /\ spent' = spent
      /\ \/ profiles' = profiles
         \/ \E a \in Unnamed(t.other) : profiles' = [profiles EXCEPT ![a] = t.fresh]
  BY <1>1, <1>2 DEF FileNew, outside
<1>4. CASE profiles' = profiles
  BY <1>3, <1>4, CalmSpares
<1>5. ASSUME NEW a \in Unnamed(t.other), profiles' = [profiles EXCEPT ![a] = t.fresh]
      PROVE  Spares(p)
  <2>1. a \in Alias /\ profiles[a] = NoCred
    BY DEF Unnamed
  <2>2. t.fresh \in Cred
    BY <1>2 DEF Shape, Snapshots, Place
  <2>3. SparesProfiles(p)
    BY <1>3, <1>5, <2>1, <2>2, RenewedSpares
  <2> QED
    BY <1>2, <1>3, <2>3, ProfilesSpare
<1> QED
  BY <1>3, <1>4, <1>5

LEMMA ShiftedSpares ==
  ASSUME IInv, JInv, NEW p \in Proc, NEW a \in Alias, NEW b \in Alias,
         lease[a] = p, lease[b] = p, profiles[b] = NoCred,
         profiles' \in {profiles, Moved(a, b)}, archive' = archive
  PROVE  SparesProfiles(p)
<1>1. CASE profiles' = profiles
  BY <1>1 DEF SparesProfiles, Superseded, SignIns
<1>2. CASE profiles' = Moved(a, b) /\ a = b
  <2>1. \A e \in Alias : profiles'[e] = profiles[e]
    BY <1>2 DEF Moved, IInv, TypeOK
  <2>2. profiles' = profiles
    BY <1>2, <2>1 DEF Moved, IInv, TypeOK
  <2> QED
    BY <1>1, <2>2
<1>3. CASE profiles' = Moved(a, b) /\ a # b
  <2>1. /\ profiles'[b] = profiles[a]
        /\ \A e \in Alias : e # a /\ e # b => profiles'[e] = profiles[e]
    BY <1>3 DEF Moved, IInv, TypeOK
  <2>2. \A e \in Alias : lease[e] \notin {p, Nobody} => profiles'[e] = profiles[e]
    BY <2>1
  <2>3. ASSUME NEW e \in Alias, profiles[e] # NoCred
        PROVE  \E d \in archive' \cup ({profiles'[f] : f \in Alias} \ {NoCred}) :
                 /\ d \in Cred
                 /\ d.account = profiles[e].account /\ (d.gen >= profiles[e].gen \/ SignIns)
    <3>1. profiles[e] \in Cred
      BY <2>3 DEF IInv, TypeOK, CredOrNone
    <3>2. profiles[e].gen >= profiles[e].gen
      BY <3>1, Constants DEF Cred
    <3>3. \E f \in Alias : profiles'[f] = profiles[e]
      BY <2>1, <2>3
    <3> QED
      BY <2>3, <3>1, <3>2, <3>3
  <2>4. archive \subseteq archive' /\ archive' \subseteq Cred /\ TypeOK
    BY DEF IInv, TypeOK
  <2> QED
    BY <2>2, <2>3, <2>4, SupersededStays DEF SparesProfiles
<1> QED
  BY <1>1, <1>2, <1>3

LEMMA ArchiveSpares ==
  ASSUME IInv, JInv, Distinct, NEW p \in Proc, Archive(p), SparesLeases(p)
  PROVE  Spares(p)
<1>1. PICK t : t = tasks[p]
  OBVIOUS
<1>2. /\ t.pc = "archive" /\ txn = p /\ Place(t) \in One /\ t.pc # "lease"
      /\ t \in Task /\ Shape(t) /\ Fits(t) /\ live' = live /\ spent' = spent
  BY <1>1, OwnFacts DEF Archive, At, InTxn, Place, One, outside
<1>3. t.alias \in Alias /\ lease[t.alias] = p /\ profiles[t.alias] # NoCred /\ Reverts(t)
  <2>1. t.alias \in Alias /\ profiles[t.alias] # NoCred
    BY <1>2, LeasedNames DEF Fits
  <2> QED
    BY <1>1, <1>2, <2>1 DEF JInv, Standing, Leased, Has
<1>4. CASE /\ archive' = archive \cup {profiles[t.alias]}
           /\ profiles' = [profiles EXCEPT ![t.alias] = NoCred]
           /\ marker' = marker
  <2>1. /\ TypeOK /\ profiles[t.alias] \in Cred /\ archive' \subseteq Cred
        /\ \A b \in Alias : b # t.alias => profiles'[b] = profiles[b]
    BY <1>3, <1>4 DEF IInv, TypeOK, CredOrNone
  <2>2. ASSUME NEW e \in Alias, profiles[e] # NoCred
        PROVE  \E d \in archive' \cup ({profiles'[f] : f \in Alias} \ {NoCred}) :
                 /\ d \in Cred
                 /\ d.account = profiles[e].account /\ (d.gen >= profiles[e].gen \/ SignIns)
    <3>1. profiles[e] \in Cred
      BY <2>1, <2>2 DEF TypeOK, CredOrNone
    <3>2. profiles[e].gen >= profiles[e].gen
      BY <3>1, Constants DEF Cred
    <3>3. profiles[e] \in archive' \cup ({profiles'[f] : f \in Alias} \ {NoCred})
      BY <1>4, <2>1, <2>2
    <3> QED
      BY <3>1, <3>2, <3>3
  <2>3. archive \subseteq archive'
    BY <1>4
  <2>4. SparesProfiles(p)
    BY <1>3, <2>1, <2>2, <2>3, SupersededStays DEF SparesProfiles
  <2> QED
    BY <1>2, <1>4, <2>4, ProfilesSpare
<1>5. CASE marker' \in {marker, t.marker} /\ UNCHANGED <<profiles, archive>>
  <2>1. ASSUME NEW q \in Proc \ {p}, tasks[q].pc \in Networking, live = tasks[q].saved
        PROVE  marker' \in {tasks[q].marker, tasks[q].alias}
    <3>1. marker \in {tasks[q].marker, tasks[q].alias}
      BY <2>1, Refreshing
    <3>2. t.marker \in {tasks[q].marker, tasks[q].alias}
      BY <1>2, <1>3, <2>1 DEF Reverts, Undoing
    <3> QED
      BY <1>5, <3>1, <3>2
  <2> QED
    BY <1>2, <1>5, <2>1, MarkerSpares
<1> QED
  BY <1>1, <1>4, <1>5 DEF Archive

LEMMA MoveSpares ==
  ASSUME IInv, JInv, NEW p \in Proc, Move(p), SparesLeases(p)
  PROVE  Spares(p)
<1>1. PICK t : t = tasks[p]
  OBVIOUS
<1>2. /\ t.pc = "move" /\ txn = p /\ Place(t) \in Both /\ t.pc # "lease"
      /\ t \in Task /\ Shape(t) /\ Fits(t)
      /\ UNCHANGED <<archive, live, marker>> /\ spent' = spent
      /\ profiles' \in {profiles, Moved(t.alias, t.other)}
  BY <1>1, OwnFacts DEF Move, At, InTxn, Place, Both, outside
<1>3. /\ t.alias \in Alias /\ t.other \in Alias /\ profiles[t.other] = NoCred
  BY <1>2, LeasedNames DEF Fits
<1>4. lease[t.alias] = p /\ lease[t.other] = p
  BY <1>1, <1>2 DEF JInv, Standing, Leased, Has
<1>5. SparesProfiles(p)
  BY <1>2, <1>3, <1>4, ShiftedSpares
<1> QED
  BY <1>2, <1>5, ProfilesSpare

LEMMA RemarkSpares ==
  ASSUME IInv, JInv, Distinct, NEW p \in Proc, Remark(p), SparesLeases(p)
  PROVE  Spares(p)
<1>1. PICK t : t = tasks[p]
  OBVIOUS
<1>2. /\ t.pc = "remark" /\ txn = p /\ Place(t) \in Both /\ t.pc # "lease"
      /\ t \in Task /\ Shape(t) /\ Fits(t)
      /\ UNCHANGED <<archive, live>> /\ spent' = spent
      /\ profiles' \in {profiles, Moved(t.other, t.alias)}
      /\ marker' \in {marker, RepairedMarker, t.marker} \/ t.follow
  BY <1>1, OwnFacts DEF Remark, At, InTxn, Place, Both, outside
<1>3. /\ t.alias \in Alias /\ t.other \in Alias /\ profiles[t.alias] = NoCred
  BY <1>2, LeasedNames DEF Fits
<1>4. lease[t.alias] = p /\ lease[t.other] = p /\ Reverts(t)
  BY <1>1, <1>2 DEF JInv, Standing, Leased, Has
<1>5. SparesProfiles(p)
  BY <1>2, <1>3, <1>4, ShiftedSpares
<1>6. ASSUME NEW q \in Proc \ {p}, tasks[q].pc \in Networking, live = tasks[q].saved
      PROVE  marker' \in {tasks[q].marker, tasks[q].alias}
  <2>1. /\ marker \in {tasks[q].marker, tasks[q].alias} /\ RepairedMarker = tasks[q].alias
    BY <1>6, Refreshing
  <2>2. t.marker \in {tasks[q].marker, tasks[q].alias} /\ ~t.follow
    BY <1>2, <1>4, <1>6 DEF Reverts, Undoing
  <2> QED
    BY <1>2, <2>1, <2>2
<1> QED
  BY <1>2, <1>5, <1>6, StoreSpares

(* Every step of a process spares the others.                               *)
LEMMA StepSpares ==
  ASSUME IInv, JInv, Distinct, NEW p \in Proc,
         Step(p) \/ GiveUp(p) \/ Answer(p) \/ SignIn(p) \/ Crash(p) \/ \E r \in Requests[p] : Begin(p, r)
  PROVE  Spares(p)
<1>1. SparesLeases(p)
  BY LeasesSpared
<1> USE <1>1 DEF disk, registry, outside
<1>2. CASE \/ TakeLease(p) \/ Authorize(p) \/ Present(p) \/ Stage(p) \/ Commit(p) \/ Unstage(p)
           \/ Prepare(p) \/ Proceed(p) \/ Switch(p) \/ Consent(p) \/ Activate(p)
  <2>1. UNCHANGED <<profiles, archive, live, marker>> /\ spent \subseteq spent'
    BY <1>2 DEF TakeLease, Authorize, Present, Stage, Commit, Unstage, Prepare, Proceed, Switch,
                Consent, Activate
  <2> QED
    BY <2>1, CalmSpares
<1>3. CASE \/ Locate(p) \/ AutoSwitch(p) \/ Adopt(p) \/ Recheck(p) \/ Plan(p) \/ Store(p) \/ Bind(p)
           \/ Reauthorize(p) \/ Scan(p) \/ Reserve(p) \/ Validate(p) \/ Rescue(p) \/ Delete(p)
           \/ Rename(p)
  <2>1. UNCHANGED <<profiles, archive, live, marker>> /\ spent \subseteq spent'
    BY <1>3 DEF Locate, AutoSwitch, Adopt, Recheck, Plan, Store, Bind, Reauthorize, Scan, Reserve,
                Validate, Rescue, Delete, Rename
  <2> QED
    BY <2>1, CalmSpares
<1>4. CASE GiveUp(p) \/ Answer(p) \/ SignIn(p) \/ Crash(p) \/ \E r \in Requests[p] : Begin(p, r)
  <2>1. UNCHANGED <<profiles, archive, live, marker>> /\ spent \subseteq spent'
    BY <1>4 DEF GiveUp, Answer, SignIn, Crash, Begin
  <2> QED
    BY <2>1, CalmSpares
<1>5. CASE \/ Write(p) \/ Copy(p) \/ Swap(p) \/ Mark(p) \/ Repair(p) \/ Unmark(p) \/ Relocate(p)
           \/ Install(p) \/ Refile(p) \/ Archive(p) \/ Move(p) \/ Remark(p)
  BY <1>5, WriteSpares, SwapSpares, MarkSpares, RepairSpares, RelocateSpares, FilingSpares,
     ArchiveSpares, MoveSpares, RemarkSpares
<1> QED
  BY <1>2, <1>3, <1>4, <1>5 DEF Step

----------------------------------------------------------------------------
(* Every step leaves its own task standing.                                 *)
Busy == Networking \cup Undoing \cup {"swap", "recheck", "mark", "write", "unstage"}

Alike(t, u) ==
  /\ u.kind = t.kind /\ u.asked = t.asked /\ u.agreed = t.agreed
  /\ u.live = t.live \/ t.kind # "use"

LEMMA GroundKept ==
  ASSUME NEW p \in Proc, Spares(p), NEW t \in Task, Grounded(t),
         NEW u, Alike(t, u), u.pc = "swap" => Decided(u)'
  PROVE  Grounded(u)'
<1>1. t.live \in CredOrNone /\ t.agreed \in CredOrNone
  BY TaskTypes
<1>2. \A c \in CredOrNone : c # NoCred /\ Superseded(c) => Superseded(c)'
  BY DEF Spares, SparesProfiles, CredOrNone
<1>3. Decided(u)'
  BY DEF Decided
<1> QED
  BY <1>1, <1>2, <1>3 DEF Grounded, Alike, SignIns

LEMMA OwnReturns ==
  ASSUME IInv, NEW p \in Proc, Return(p)
  PROVE  Own(p)
<1>1. Idle \in Task /\ Set(p, Idle) /\ Idle.pc = "idle" /\ Idle.kind = "none"
  BY IdleFits DEF Return
<1>2. Standing(p, Idle)'
  BY <1>1 DEF Standing, Leased, Place, One, Both, Backed, Follows, Reverts, Grounded, Decided,
              Networking, Undoing
<1> QED
  BY <1>1, <1>2 DEF Own, Joins, Networking

(* At most places nothing but leases and grounds is claimed.                *)
LEMMA OwnCalm ==
  ASSUME IInv, JInv, NEW p \in Proc, Spares(p), NEW t, t = tasks[p],
         NEW u \in Task, Set(p, u), Alike(t, u), u.pc \notin Busy, Leased(p, u)'
  PROVE  Own(p)
<1>1. t \in Task /\ Grounded(t)
  BY OwnFacts DEF JInv, Standing
<1>2. Grounded(u)'
  BY <1>1, GroundKept DEF Busy
<1>3. Backed(u)' /\ Follows(u)' /\ Reverts(u)'
  BY DEF Busy, Backed, Follows, Reverts
<1> QED
  BY <1>2, <1>3 DEF Own, Standing, Joins, Busy

(* Leases that were held are still held.                                    *)
LEMMA LeasedStill ==
  ASSUME NEW p, NEW t, Leased(p, t), t.pc # "lease", lease' = lease,
         NEW u, u.alias = t.alias, u.other = t.other,
         Place(u) \in One \cup Both => Place(t) \in One \cup Both,
         Place(u) \in Both => Place(t) \in Both
  PROVE  Leased(p, u)'
BY DEF Leased, Has

LEMMA LeasedWaiting ==
  ASSUME NEW t \in Task, NEW need \in SUBSET Alias, NEW l \in Locations, NEW u,
         u = Waiting(t, need, l),
         l \in One \cup Both => t.alias \in need,
         l \in Both => t.other \in need,
         NEW p
  PROVE  Leased(p, u)' /\ Alike(t, u) /\ u.need = need
<1>1. /\ u.pc = (IF need = {} THEN l ELSE "lease") /\ u.need = need
      /\ u.kind = t.kind /\ u.asked = t.asked /\ u.agreed = t.agreed /\ u.live = t.live
      /\ u.alias = t.alias /\ u.other = t.other
  BY DEF Waiting, Task
<1>2. Place(u) = l
  BY WaitingFits
<1> QED
  BY <1>1, <1>2 DEF Leased, Has, Alike

LEMMA BeginOwn ==
  ASSUME IInv, JInv, NEW p \in Proc, NEW r \in Requests[p], Begin(p, r)
  PROVE  Own(p)
<1>1. /\ r.kind \in Kinds /\ r.alias \in AliasOrNone /\ r.other \in AliasOrNone
      /\ r.alias \notin Alias => r.kind \in {"auto", "mark", "save", "login", "import"}
      /\ r.kind \in {"auto", "rename"} => r.other \in Alias
  BY Constants DEF WellFormed, AliasOrNone
<1>2. PICK e : e = FirstEntry[r.kind]
  OBVIOUS
<1>3. \/ r.kind = "refresh" /\ e = "authorize"
      \/ r.kind \in {"use", "revive"} /\ e = "prepare"
      \/ r.kind \in {"auto", "mark"} /\ e = "locate"
      \/ r.kind \in {"sync", "readback"} /\ e = "adopt"
      \/ r.kind = "save" /\ e = "plan"
      \/ r.kind = "login" /\ e = "signin"
      \/ r.kind = "reauth" /\ e = "bind"
      \/ r.kind = "import" /\ e = "scan"
      \/ r.kind = "delete" /\ e = "delete"
      \/ r.kind = "rename" /\ e = "rename"
  BY <1>1, <1>2, Entry
<1>4. PICK s : s = [Idle EXCEPT !.kind = r.kind, !.alias = r.alias, !.other = r.other]
  OBVIOUS
<1>5. /\ s \in Task /\ s.kind = r.kind /\ s.alias = r.alias /\ s.other = r.other
      /\ s.live = NoCred /\ s.agreed = NoCred
  <2>1. s \in Task
    BY <1>1, <1>4, IdleFits DEF Task
  <2>2. Idle.live = NoCred /\ Idle.agreed = NoCred
    BY DEF Idle
  <2> QED
    BY <1>4, <2>1, <2>2, IdleFits DEF Task
<1>6. /\ FirstLeases(r) \in SUBSET Alias
      /\ e \in One \cup Both => r.alias \in FirstLeases(r)
      /\ e \in Both => r.other \in FirstLeases(r)
  BY <1>1, <1>3 DEF FirstLeases, One, Both
<1>7. e \in Locations
  BY <1>3, Names
<1>8. PICK u : u = Waiting(s, FirstLeases(r), e)
  OBVIOUS
<1>9. /\ u \in Task /\ u.pc \in {"lease", e} /\ Leased(p, u)' /\ Alike(s, u) /\ u.live = NoCred
  <2>1. u \in Task /\ u.pc \in {"lease", e} /\ u.live = s.live
    BY <1>5, <1>6, <1>7, <1>8, WaitingFits
  <2>2. /\ e \in One \cup Both => s.alias \in FirstLeases(r)
        /\ e \in Both => s.other \in FirstLeases(r)
    BY <1>5, <1>6
  <2>3. Leased(p, u)' /\ Alike(s, u)
    BY <1>5, <1>6, <1>7, <1>8, <2>2, LeasedWaiting
  <2> QED
    BY <1>5, <2>1, <2>3
<1>10. u.pc \notin Busy
  BY <1>3, <1>9 DEF Busy, Networking, Undoing
<1>11. Backed(u)' /\ Follows(u)' /\ Reverts(u)'
  BY <1>10 DEF Busy, Backed, Follows, Reverts
<1>12. Grounded(u)'
  BY <1>5, <1>9, <1>10 DEF Grounded, Decided, Alike, Busy, SignIns
<1>13. Set(p, u)
  BY <1>2, <1>4, <1>8 DEF Begin
<1> QED
  BY <1>9, <1>10, <1>11, <1>12, <1>13 DEF Own, Standing, Joins, Busy

LEMMA TakeLeaseOwn ==
  ASSUME IInv, JInv, NEW p \in Proc, TakeLease(p), Spares(p)
  PROVE  Own(p)
<1>1. PICK t : t = tasks[p]
  OBVIOUS
<1>2. PICK a : /\ lease' = [lease EXCEPT ![a] = p]
               /\ Set(p, Waiting(t, t.need \ {a}, t.then))
  BY <1>1 DEF TakeLease
<1>3. PICK u : u = Waiting(t, t.need \ {a}, t.then)
  OBVIOUS
<1>4. t.pc = "lease" /\ t \in Task /\ Shape(t) /\ Leased(p, t)
  BY <1>1, OwnFacts DEF TakeLease, At, JInv, Standing
<1>5. t.need \in SUBSET Alias /\ t.then \in Locations
  BY <1>4, TaskTypes
<1>6. /\ u \in Task /\ Place(u) = t.then /\ u.pc \in {"lease", t.then}
      /\ (t.need \ {a} = {} => u.pc = t.then)
      /\ u.alias = t.alias /\ u.other = t.other
  BY <1>3, <1>4, <1>5, WaitingFits
<1>7. /\ u.pc = (IF t.need \ {a} = {} THEN t.then ELSE "lease") /\ u.need = t.need \ {a}
      /\ Alike(t, u)
  <2>1. u = [t EXCEPT !.need = t.need \ {a}, !.then = t.then,
                      !.pc = IF t.need \ {a} = {} THEN t.then ELSE "lease"]
    BY <1>3 DEF Waiting
  <2> QED
    BY <1>4, <2>1 DEF Task, Alike
<1>8. Place(t) = t.then
  BY <1>4 DEF Place
<1>9. /\ Place(t) \in One \cup Both => t.alias \in Alias
      /\ Place(t) \in Both => t.other \in Alias
      /\ u.pc \notin Busy
  BY <1>4, <1>6, <1>8, LeasedNames DEF Shape, KindFits, Busy, Networking, Undoing
<1>10. \A b \in Alias : Has(p, t, b) => Has(p, u, b)'
  <2> SUFFICES ASSUME NEW b \in Alias, Has(p, t, b)
               PROVE  lease'[b] = p \/ (u.pc = "lease" /\ b \in u.need)
    BY DEF Has
  <2>1. CASE b = a \/ lease[b] = p
    BY <1>2, <2>1 DEF IInv, TypeOK
  <2>2. CASE b # a /\ b \in t.need
    BY <1>7, <2>2
  <2> QED
    BY <2>1, <2>2 DEF Has
<1>11. Leased(p, u)'
  BY <1>4, <1>6, <1>8, <1>9, <1>10 DEF Leased
<1> QED
  BY <1>1, <1>2, <1>3, <1>6, <1>7, <1>9, <1>11, OwnCalm

(* Refreshing.                                                              *)
LEMMA AuthorizeOwn ==
  ASSUME IInv, JInv, Distinct, NEW p \in Proc, Authorize(p), Spares(p)
  PROVE  Own(p)
<1>1. PICK t : t = tasks[p]
  OBVIOUS
<1>2. /\ t \in Task /\ Shape(t) /\ t.pc = "authorize" /\ txn = Nobody /\ Place(t) = "authorize"
      /\ Leased(p, t) /\ Grounded(t) /\ TypeOK
  BY <1>1, OwnFacts DEF Authorize, Look, At, Place, JInv, Standing, IInv
<1>3. t.alias \in Alias /\ Refreshes(t)
  BY <1>2 DEF Shape, KindFits, Named, Nameless
<1>4. CASE Return(p)
  BY <1>4, OwnReturns
<1>5. CASE ~Return(p)
  <2>1. PICK f : f = Belongs(t.alias, live)
    OBVIOUS
  <2>2. PICK c : c = profiles[t.alias]
    OBVIOUS
  <2>3. PICK u : u = [t EXCEPT !.pc = "present", !.saved = c, !.live = live,
                               !.marker = marker, !.follow = f]
    OBVIOUS
  <2>4. /\ Set(p, u) /\ c # NoCred
        /\ profiles' = profiles /\ live' = live /\ marker' = marker /\ lease' = lease
    BY <1>1, <1>5, <2>1, <2>2, <2>3 DEF Authorize, disk, registry, locks
  <2>5. f \in BOOLEAN /\ c \in CredOrNone /\ live \in CredOrNone /\ marker \in AliasOrNone
    BY <1>2, <1>3, <2>1, <2>2, BelongsIsBoolean DEF TypeOK
  <2>6. u \in Task
    BY <1>2, <2>3, <2>5, Names DEF Task
  <2>7. /\ u.pc = "present" /\ u.kind = t.kind /\ u.alias = t.alias /\ u.other = t.other
        /\ u.asked = t.asked /\ u.agreed = t.agreed
        /\ u.saved = c /\ u.marker = marker /\ u.follow = f
    BY <1>2, <2>3 DEF Task
  <2>8. Leased(p, u)'
    BY <1>2, <2>4, <2>7, LeasedStill DEF Place, One, Both
  <2>9. Backed(u)'
    BY <2>2, <2>4, <2>7 DEF Backed, Networking
  <2>10. live = c => f
    BY <1>2, <1>3, <2>1, <2>2, <2>4, TheOne
  <2>11. Follows(u)'
    BY <2>4, <2>7, <2>10 DEF Follows
  <2>12. Reverts(u)'
    BY <2>7 DEF Reverts, Undoing
  <2>13. Grounded(u)'
    <3>1. Alike(t, u)
      BY <1>3, <2>7 DEF Alike, Refreshes
    <3> QED
      BY <1>2, <2>7, <3>1, GroundKept
  <2> QED
    BY <1>2, <2>4, <2>6, <2>8, <2>9, <2>11, <2>12, <2>13 DEF Own, Standing, Joins
<1> QED
  BY <1>4, <1>5

LEMMA NetworkOwn ==
  ASSUME IInv, JInv, NEW p \in Proc, Spares(p), NEW t, t = tasks[p], t.pc \in Networking,
         UNCHANGED <<profiles, live, marker, lease>>,
         NEW u \in Task, Set(p, u), u.pc \in Networking, Alike(t, u),
         u.alias = t.alias, u.other = t.other, u.saved = t.saved, u.marker = t.marker,
         u.follow = t.follow
  PROVE  Own(p)
<1>1. t \in Task /\ Standing(p, t)
  BY OwnFacts DEF JInv
<1>2. Leased(p, u)'
  BY <1>1, LeasedStill DEF Standing, Place, One, Both, Networking
<1>3. Backed(u)' /\ Follows(u)' /\ Reverts(u)'
  BY <1>1 DEF Standing, Backed, Follows, Reverts, Networking, Undoing
<1>4. Grounded(u)'
  BY <1>1, GroundKept DEF Standing, Networking
<1> QED
  BY <1>2, <1>3, <1>4 DEF Own, Standing, Joins

LEMMA PresentOwn ==
  ASSUME IInv, JInv, NEW p \in Proc, Present(p), Spares(p)
  PROVE  Own(p)
<1>1. PICK t : t = tasks[p]
  OBVIOUS
<1>2. PICK x : x = t.saved.account
  OBVIOUS
<1>3. /\ t \in Task /\ Shape(t) /\ t.pc = "present" /\ TypeOK
      /\ UNCHANGED <<profiles, live, marker>>
  BY <1>1, OwnFacts DEF Present, At, IInv, disk, registry
<1>4. CASE Return(p)
  BY <1>4, OwnReturns
<1>5. CASE ~Return(p)
  <2>1. PICK c : c = Issue(x)
    OBVIOUS
  <2>2. PICK u : u = [t EXCEPT !.pc = "stage", !.fresh = c]
    OBVIOUS
  <2>3. Set(p, u) /\ lease' = lease /\ CanIssue(x)
    BY <1>1, <1>2, <1>5, <2>1, <2>2 DEF Present, Issues, locks
  <2>4. x \in Account
    BY <1>2, <1>3, Creds DEF Shape, Snapshots, Place
  <2>5. c \in CredOrNone
    BY <1>3, <2>1, <2>3, <2>4, Constants DEF Issue, CanIssue, TypeOK, CredOrNone, Cred
  <2>6. u \in Task
    BY <1>3, <2>2, <2>5, Names DEF Task
  <2>7. /\ u.pc = "stage" /\ u.alias = t.alias /\ u.other = t.other /\ u.saved = t.saved
        /\ u.marker = t.marker /\ u.follow = t.follow /\ Alike(t, u)
    BY <1>3, <2>2 DEF Task, Alike
  <2> QED
    BY <1>1, <1>3, <2>3, <2>6, <2>7, NetworkOwn DEF Networking
<1> QED
  BY <1>4, <1>5

LEMMA StageOwn ==
  ASSUME IInv, JInv, NEW p \in Proc, Stage(p), Spares(p)
  PROVE  Own(p)
<1>1. PICK t : t = tasks[p]
  OBVIOUS
<1>2. t \in Task /\ t.pc = "stage" /\ UNCHANGED <<profiles, live, marker>>
  BY <1>1, OwnFacts DEF Stage, At
<1>3. CASE Return(p)
  BY <1>3, OwnReturns
<1>4. CASE ~Return(p)
  <2>1. PICK u : u = [t EXCEPT !.pc = "commit"]
    OBVIOUS
  <2>2. Set(p, u) /\ lease' = lease
    BY <1>1, <1>4, <2>1 DEF Stage, Go, locks
  <2>3. u \in Task
    BY <1>2, <2>1, Names DEF Task
  <2>4. /\ u.pc = "commit" /\ u.alias = t.alias /\ u.other = t.other /\ u.saved = t.saved
        /\ u.marker = t.marker /\ u.follow = t.follow /\ Alike(t, u)
    BY <1>2, <2>1 DEF Task, Alike
  <2> QED
    BY <1>1, <1>2, <2>2, <2>3, <2>4, NetworkOwn DEF Networking
<1> QED
  BY <1>3, <1>4

LEMMA CommitOwn ==
  ASSUME IInv, JInv, NEW p \in Proc, Commit(p), Spares(p)
  PROVE  Own(p)
<1>1. PICK t : t = tasks[p]
  OBVIOUS
<1>2. /\ t \in Task /\ Shape(t) /\ Fits(t) /\ t.pc = "commit" /\ txn = Nobody /\ TypeOK
      /\ Leased(p, t) /\ Follows(t) /\ Grounded(t)
      /\ live' = live /\ marker' = marker /\ spent' = spent
  BY <1>1, OwnFacts DEF Commit, Look, At, IInv, JInv, Standing, disk, outside
<1>3. /\ t.alias \in Alias /\ Refreshes(t) /\ t.saved \in Cred /\ t.fresh \in Cred
      /\ t.fresh.gen > t.saved.gen /\ t.saved \in spent /\ t.kind # "use"
  BY <1>2, TaskTypes DEF Shape, KindFits, Named, Place, Nameless, Snapshots, Fits, Refreshes
<1>4. t.saved # NoCred /\ t.fresh # t.saved
  BY <1>3, Constants DEF Cred
<1>5. CASE Return(p)
  BY <1>5, OwnReturns
<1>6. CASE ~Return(p)
  <2>1. profiles[t.alias] = t.saved
    BY <1>1, <1>6 DEF Commit
  <2>2. PICK u : u = FollowPlan(t)
    OBVIOUS
  <2>3. Set(p, u) /\ lease' = lease
    BY <1>1, <1>6, <2>2 DEF Commit, Keep
  <2>4. /\ u \in Task
        /\ u.pc = "write" /\ u.kind = t.kind /\ u.alias = t.alias /\ u.other = t.other
        /\ u.then = t.then /\ u.saved = t.saved /\ u.fresh = t.fresh
        /\ u.asked = t.asked /\ u.agreed = t.agreed
        /\ u.ok /\ ~u.follow => live # t.saved
    <3>1. CASE t.follow /\ marker = t.marker
      <4>1. u = [t EXCEPT !.pc = "write"]
        BY <2>2, <3>1 DEF FollowPlan
      <4>2. u \in Task
        BY <1>2, <4>1, Names DEF Task
      <4>3. /\ u.pc = "write" /\ u.kind = t.kind /\ u.alias = t.alias /\ u.other = t.other
            /\ u.then = t.then /\ u.saved = t.saved /\ u.fresh = t.fresh
            /\ u.asked = t.asked /\ u.agreed = t.agreed /\ u.follow = t.follow
        BY <1>2, <4>1 DEF Task
      <4> QED
        BY <3>1, <4>2, <4>3
    <3>2. CASE ~(t.follow /\ marker = t.marker)
      <4>1. PICK f : f = (marker = t.alias /\ live = profiles[t.alias])
        OBVIOUS
      <4>2. PICK k : k = (marker # t.alias \/ live = profiles[t.alias])
        OBVIOUS
      <4>3. u = [t EXCEPT !.pc = "write", !.live = live, !.follow = f, !.ok = k]
        BY <2>2, <3>2, <4>1, <4>2 DEF FollowPlan
      <4>4. f \in BOOLEAN /\ k \in BOOLEAN /\ live \in CredOrNone
        BY <1>1, <4>1, <4>2, OwnFacts
      <4>5. u \in Task
        BY <1>2, <4>3, <4>4, Names DEF Task
      <4>6. /\ u.pc = "write" /\ u.kind = t.kind /\ u.alias = t.alias /\ u.other = t.other
            /\ u.then = t.then /\ u.saved = t.saved /\ u.fresh = t.fresh
            /\ u.asked = t.asked /\ u.agreed = t.agreed /\ u.follow = f
        BY <1>2, <4>3 DEF Task
      <4>7. live = t.saved => f
        BY <1>2, <2>1, <3>2, <4>1 DEF Follows, Networking
      <4> QED
        BY <4>5, <4>6, <4>7
    <3> QED
      BY <3>1, <3>2
  <2>5. Leased(p, u)'
    BY <1>2, <2>3, <2>4, LeasedStill DEF Place, One, Both
  <2>6. Backed(u)' /\ Reverts(u)'
    BY <2>4 DEF Backed, Reverts, Networking, Undoing
  <2>7. Follows(u)'
    BY <1>2, <1>3, <1>4, <2>4 DEF Follows, Networking
  <2>8. Grounded(u)'
    <3>1. Alike(t, u)
      BY <1>3, <2>4 DEF Alike
    <3> QED
      BY <1>2, <2>4, <3>1, GroundKept
  <2> QED
    BY <2>3, <2>4, <2>5, <2>6, <2>7, <2>8 DEF Own, Standing, Joins, Networking
<1> QED
  BY <1>5, <1>6

LEMMA UnstageOwn ==
  ASSUME IInv, JInv, NEW p \in Proc, Unstage(p), Spares(p)
  PROVE  Own(p)
<1>1. PICK t : t = tasks[p]
  OBVIOUS
<1>2. t \in Task /\ t.pc = "unstage" /\ Leased(p, t)
  BY <1>1, OwnFacts DEF Unstage, At, JInv, Standing
<1>3. CASE Return(p)
  BY <1>3, OwnReturns
<1>4. CASE ~Return(p)
  <2>1. PICK u : u = [t EXCEPT !.pc = "activate"]
    OBVIOUS
  <2>2. Set(p, u) /\ lease' = lease
    BY <1>1, <1>4, <2>1 DEF Unstage, Go
  <2>3. u \in Task
    BY <1>2, <2>1, Names DEF Task
  <2>4. u.pc = "activate" /\ u.alias = t.alias /\ u.other = t.other /\ Alike(t, u)
    BY <1>2, <2>1 DEF Task, Alike
  <2>5. Leased(p, u)'
    BY <1>2, <2>2, <2>4, LeasedStill DEF Place, One, Both
  <2>6. u.pc \notin Busy
    BY <2>4 DEF Busy, Networking, Undoing
  <2> QED
    BY <1>1, <2>2, <2>3, <2>4, <2>5, <2>6, OwnCalm
<1> QED
  BY <1>3, <1>4

(* What the tail of a refresh knows.                                        *)
LEMMA AtTail ==
  ASSUME IInv, JInv, NEW p \in Proc, NEW t, t = tasks[p], t.pc \in {"write", "swap", "mark"}
  PROVE  /\ t \in Task /\ Shape(t) /\ Standing(p, t) /\ t.alias \in Alias /\ txn = p
         /\ t.pc \in {"write", "swap"} => t.fresh \in Cred /\ t.fresh # NoCred
         /\ Refreshes(t) => t.saved # NoCred /\ t.fresh # t.saved /\ t.saved \in spent
<1>1. t \in Task /\ Shape(t) /\ Standing(p, t) /\ txn = p
  BY OwnFacts DEF JInv, InTxn
<1>2. t.alias \in Alias /\ (t.pc \in {"write", "swap"} => t.fresh \in Cred)
  BY <1>1, LeasedNames DEF Shape, Snapshots, Place
<1>3. Refreshes(t) => t.saved # NoCred /\ t.fresh # t.saved /\ t.saved \in spent
  BY <1>1 DEF Standing, Follows
<1> QED
  BY <1>1, <1>2, <1>3, Constants

LEMMA FinishOwn ==
  ASSUME IInv, JInv, NEW p \in Proc, Spares(p), NEW t, t = tasks[p], t.pc \in {"swap", "mark"},
         NEW v \in {t, Failed(t)}, Finish(p, v), spent' = spent,
         Refreshes(t) /\ v.ok => live' # t.saved
  PROVE  Own(p)
<1>1. /\ t \in Task /\ Shape(t) /\ Standing(p, t) /\ t.alias \in Alias
      /\ Refreshes(t) => t.saved # NoCred /\ t.fresh # t.saved /\ t.saved \in spent
  BY AtTail
<1>2. /\ v \in Task /\ v.kind = t.kind /\ v.alias = t.alias /\ v.other = t.other /\ v.then = t.then
      /\ v.saved = t.saved /\ v.fresh = t.fresh /\ Alike(t, v)
  BY <1>1 DEF Failed, Task, Alike
<1>3. CASE Refreshes(v)
  <2>1. PICK u : u = [v EXCEPT !.pc = "unstage"]
    OBVIOUS
  <2>2. Set(p, u) /\ lease' = lease
    BY <1>3, <2>1 DEF Finish, locks
  <2>3. u \in Task
    BY <1>2, <2>1, Names DEF Task
  <2>4. /\ u.pc = "unstage" /\ u.kind = t.kind /\ u.alias = t.alias /\ u.other = t.other
        /\ u.saved = t.saved /\ u.fresh = t.fresh /\ Alike(t, u) /\ u.ok = v.ok
    BY <1>2, <2>1 DEF Task, Alike
  <2>5. Refreshes(t)
    BY <1>2, <1>3 DEF Refreshes
  <2>6. Leased(p, u)'
    BY <1>1, <2>2, <2>4, LeasedStill DEF Standing, Place, One, Both
  <2>7. Backed(u)' /\ Reverts(u)'
    BY <2>4 DEF Backed, Reverts, Networking, Undoing
  <2>8. Follows(u)'
    BY <1>1, <1>2, <2>4, <2>5 DEF Follows, Networking
  <2>9. Grounded(u)'
    BY <1>1, <2>4, GroundKept DEF Standing
  <2> QED
    BY <2>2, <2>3, <2>4, <2>6, <2>7, <2>8, <2>9 DEF Own, Standing, Joins, Networking
<1>4. CASE ~Refreshes(v)
  BY <1>4, OwnReturns DEF Finish
<1> QED
  BY <1>3, <1>4

LEMMA WriteOwn ==
  ASSUME IInv, JInv, NEW p \in Proc, Write(p), Spares(p)
  PROVE  Own(p)
<1>1. PICK t : t = tasks[p]
  OBVIOUS
<1>2. t.pc = "write" /\ TypeOK /\ live' = live /\ spent' = spent
  BY <1>1 DEF Write, At, IInv, outside
<1>3. /\ t \in Task /\ Shape(t) /\ Standing(p, t) /\ t.alias \in Alias /\ t.fresh \in Cred
      /\ Refreshes(t) => t.saved # NoCred /\ t.fresh # t.saved /\ t.saved \in spent
      /\ Refreshes(t) \/ t.kind \in {"save", "login", "reauth"}
  BY <1>1, <1>2, AtTail, AtWrite
<1>4. CASE Return(p)
  BY <1>4, OwnReturns
<1>5. CASE ~Return(p)
  <2>1. PICK l : l = AfterWrite(t)
    OBVIOUS
  <2>2. PICK u : u = [t EXCEPT !.pc = l]
    OBVIOUS
  <2>3. Set(p, u) /\ lease' = lease /\ profiles' = [profiles EXCEPT ![t.alias] = t.fresh]
    <3>1. Go(p, AfterWrite(t)) /\ UNCHANGED locks /\ profiles' = [profiles EXCEPT ![t.alias] = t.fresh]
      BY <1>1, <1>5 DEF Write
    <3> QED
      BY <1>1, <2>1, <2>2, <3>1 DEF Go, locks
  <2>4. /\ l \in {"swap", "unstage", "repair"} /\ l \in Locations
        /\ l = "unstage" => Refreshes(t) /\ ~t.follow
    BY <2>1, Names DEF AfterWrite
  <2>5. u \in Task
    BY <1>3, <2>2, <2>4 DEF Task
  <2>6. /\ u.pc = l /\ u.kind = t.kind /\ u.alias = t.alias /\ u.other = t.other /\ u.then = t.then
        /\ u.saved = t.saved /\ u.fresh = t.fresh /\ u.ok = t.ok /\ Alike(t, u)
    BY <1>3, <2>2 DEF Task, Alike
  <2>7. Leased(p, u)'
    BY <1>2, <1>3, <2>3, <2>4, <2>6, LeasedStill DEF Standing, Place, One, Both
  <2>8. Backed(u)'
    <3>1. profiles'[t.alias] = t.fresh
      BY <1>2, <1>3, <2>3 DEF TypeOK
    <3> QED
      BY <2>4, <2>6, <3>1 DEF Backed, Networking
  <2>9. Follows(u)'
    <3>1. Refreshes(u) <=> Refreshes(t)
      BY <2>6 DEF Refreshes
    <3>2. Follows(t)
      BY <1>3 DEF Standing
    <3> QED
      BY <1>2, <1>3, <2>4, <2>6, <3>1, <3>2 DEF Follows, Networking
  <2>10. Reverts(u)'
    BY <2>4, <2>6 DEF Reverts, Undoing
  <2>11. Grounded(u)'
    <3>1. Decided(u)'
      BY <1>3, <2>6 DEF Decided, Refreshes
    <3> QED
      BY <1>3, <2>6, <3>1, GroundKept DEF Standing
  <2> QED
    BY <2>3, <2>4, <2>5, <2>6, <2>7, <2>8, <2>9, <2>10, <2>11 DEF Own, Standing, Joins, Networking
<1> QED
  BY <1>4, <1>5

LEMMA SwapOwn ==
  ASSUME IInv, JInv, Distinct, NEW p \in Proc, Swap(p), Spares(p)
  PROVE  Own(p)
<1>1. PICK t : t = tasks[p]
  OBVIOUS
<1>2. /\ t.pc = "swap" /\ TypeOK /\ spent' = spent /\ profiles' = profiles
  BY <1>1 DEF Swap, At, IInv, outside, registry
<1>3. /\ t \in Task /\ Shape(t) /\ Standing(p, t) /\ t.alias \in Alias
      /\ t.fresh \in Cred /\ t.fresh # NoCred
      /\ Refreshes(t) => t.saved # NoCred /\ t.fresh # t.saved /\ t.saved \in spent
  BY <1>1, <1>2, AtTail
<1>4. CASE Finish(p, t) /\ live = t.fresh /\ live' = live
  BY <1>1, <1>2, <1>3, <1>4, FinishOwn
<1>5. CASE Finish(p, Failed(t))
  <2>1. ~Failed(t).ok
    BY <1>3 DEF Failed, Task
  <2> QED
    BY <1>1, <1>2, <1>5, <2>1, FinishOwn
<1>6. CASE Go(p, "mark") /\ UNCHANGED locks /\ live' = t.fresh
  <2>1. PICK u : u = [t EXCEPT !.pc = "mark"]
    OBVIOUS
  <2>2. Set(p, u) /\ lease' = lease
    BY <1>1, <1>6, <2>1 DEF Go, locks
  <2>3. u \in Task
    BY <1>3, <2>1, Names DEF Task
  <2>4. /\ u.pc = "mark" /\ u.kind = t.kind /\ u.alias = t.alias /\ u.other = t.other
        /\ u.then = t.then /\ u.saved = t.saved /\ u.fresh = t.fresh /\ Alike(t, u)
    BY <1>3, <2>1 DEF Task, Alike
  <2>5. Leased(p, u)'
    BY <1>2, <1>3, <2>2, <2>4, LeasedStill DEF Standing, Place, One, Both
  <2>6. Backed(u)'
    <3>1. profiles[t.alias] = t.fresh
      BY <1>2, <1>3 DEF Standing, Backed
    <3>2. Exact(t.fresh) = {t.alias}
      BY <1>2, <1>3, <3>1, TheOne
    <3>3. Exact(live)' = {t.alias}
      BY <1>2, <1>6, <3>2 DEF Exact
    <3> QED
      BY <2>4, <3>3 DEF Backed, Networking
  <2>7. Follows(u)'
    <3>1. Refreshes(u) <=> Refreshes(t)
      BY <2>4 DEF Refreshes
    <3> QED
      BY <1>2, <1>3, <1>6, <2>4, <3>1 DEF Follows, Networking
  <2>8. Reverts(u)'
    BY <2>4 DEF Reverts, Undoing
  <2>9. Grounded(u)'
    BY <1>3, <2>4, GroundKept DEF Standing
  <2> QED
    BY <2>2, <2>3, <2>4, <2>5, <2>6, <2>7, <2>8, <2>9 DEF Own, Standing, Joins, Networking
<1> QED
  BY <1>1, <1>4, <1>5, <1>6 DEF Swap

LEMMA MarkOwn ==
  ASSUME IInv, JInv, NEW p \in Proc, Mark(p), Spares(p)
  PROVE  Own(p)
<1>1. PICK t : t = tasks[p]
  OBVIOUS
<1>2. /\ t.pc = "mark" /\ spent' = spent /\ live' = live
      /\ \E v \in {t, Failed(t)} : Finish(p, v)
  BY <1>1 DEF Mark, At, outside
<1>3. Refreshes(t) => live' # t.saved
  BY <1>1, <1>2 DEF JInv, Standing, Follows
<1> QED
  BY <1>1, <1>2, <1>3, FinishOwn

(* Switching.                                                               *)
LEMMA SavedIsSuperseded ==
  ASSUME TypeOK, NEW c \in Cred, Exact(c) # {}
  PROVE  Superseded(c)
<1>1. PICK a \in Alias : profiles[a] = c
  BY DEF Exact
<1>2. c # NoCred /\ c.gen >= c.gen
  BY Constants DEF Cred
<1> QED
  BY <1>1, <1>2 DEF Superseded

LEMMA PrepareOwn ==
  ASSUME IInv, JInv, NEW p \in Proc, Prepare(p), Spares(p)
  PROVE  Own(p)
<1>1. PICK t : t = tasks[p]
  OBVIOUS
<1>2. /\ t \in Task /\ Shape(t) /\ t.pc = "prepare" /\ TypeOK /\ Grounded(t) /\ live \in CredOrNone
  BY <1>1, OwnFacts DEF Prepare, Look, At, IInv, JInv, Standing
<1>3. t.alias \in Alias /\ t.kind \in {"use", "revive"}
  BY <1>2 DEF Shape, KindFits, Named, Nameless, Place
<1>4. CASE Return(p)
  BY <1>4, OwnReturns
<1>5. CASE ~Return(p)
  <2>1. PICK c : c = profiles[t.alias]
    OBVIOUS
  <2>2. PICK g : g = IF t.kind = "revive" THEN live ELSE NoCred
    OBVIOUS
  <2>3. PICK k : k = RequiresConfirmation(live)
    OBVIOUS
  <2>4. PICK u : u = [t EXCEPT !.pc = "confirm", !.saved = c, !.live = live,
                               !.agreed = g, !.asked = k]
    OBVIOUS
  <2>5. Set(p, u)
    BY <1>1, <1>5, <2>1, <2>2, <2>3, <2>4 DEF Prepare, Await
  <2>6. k \in BOOLEAN /\ c \in CredOrNone /\ g \in CredOrNone
    BY <1>2, <1>3, <2>1, <2>2, <2>3 DEF RequiresConfirmation, TypeOK, CredOrNone
  <2>7. u \in Task
    BY <1>2, <2>4, <2>6, Names DEF Task
  <2>8. u.pc = "confirm" /\ u.kind = t.kind /\ u.live = live /\ u.agreed = g /\ u.asked = k
    BY <1>2, <2>4 DEF Task
  <2>9. Leased(p, u)' /\ Backed(u)' /\ Follows(u)' /\ Reverts(u)' /\ Decided(u)'
    BY <2>8 DEF Leased, Place, One, Both, Backed, Follows, Reverts, Decided, Networking, Undoing
  <2>10. ASSUME NEW d, d = live, ~k, d # NoCred PROVE Superseded(d)'
    <3>1. d \in Cred /\ Exact(d) # {}
      BY <1>2, <2>3, <2>10 DEF RequiresConfirmation, CredOrNone
    <3>2. Superseded(d)
      BY <1>2, <3>1, SavedIsSuperseded
    <3> QED
      BY <3>1, <3>2 DEF Spares, SparesProfiles
  <2>11. Grounded(u)'
    BY <1>3, <2>2, <2>8, <2>9, <2>10 DEF Grounded
  <2> QED
    BY <2>5, <2>7, <2>8, <2>9, <2>11 DEF Own, Standing, Joins, Networking
<1> QED
  BY <1>4, <1>5

LEMMA ConfirmOwn ==
  ASSUME IInv, JInv, NEW p \in Proc, Proceed(p) \/ Answer(p), Spares(p)
  PROVE  Own(p)
<1>1. PICK t : t = tasks[p]
  OBVIOUS
<1>2. t \in Task /\ Shape(t) /\ t.pc = "confirm"
  BY <1>1, OwnFacts DEF Proceed, Answer, At
<1>3. t.alias \in Alias
  BY <1>2 DEF Shape, Named, Nameless, Place
<1>4. CASE Return(p)
  BY <1>4, OwnReturns
<1>5. CASE ~Return(p)
  <2>1. PICK l : l = IF t.kind = "revive" THEN "consent" ELSE "switch"
    OBVIOUS
  <2>2. PICK u : u = Waiting(t, {t.alias}, l)
    OBVIOUS
  <2>3. Set(p, u)
    BY <1>1, <1>5, <2>1, <2>2 DEF Proceed, Answer, Confirms
  <2>4. /\ l \in Locations /\ l \in {"consent", "switch"} /\ {t.alias} \in SUBSET Alias
        /\ l \notin Both
    BY <1>3, <2>1, Names DEF Both
  <2>5. u \in Task /\ u.pc \in {"lease", l}
    BY <1>2, <2>2, <2>4, WaitingFits
  <2>6. Leased(p, u)' /\ Alike(t, u)
    BY <1>2, <2>2, <2>4, LeasedWaiting
  <2>7. u.pc \notin Busy
    BY <2>4, <2>5 DEF Busy, Networking, Undoing
  <2> QED
    BY <1>1, <2>3, <2>5, <2>6, <2>7, OwnCalm
<1> QED
  BY <1>4, <1>5

LEMMA SwitchOwn ==
  ASSUME IInv, JInv, NEW p \in Proc, Switch(p), Spares(p)
  PROVE  Own(p)
<1>1. PICK t : t = tasks[p]
  OBVIOUS
<1>2. /\ t \in Task /\ Shape(t) /\ t.pc = "switch" /\ Grounded(t) /\ Leased(p, t)
      /\ profiles' = profiles
  BY <1>1, OwnFacts DEF Switch, Look, At, JInv, Standing, disk, registry
<1>3. t.kind = "use" /\ t.saved \in CredOrNone
  BY <1>2, TaskTypes DEF Shape, KindFits, Place
<1>4. CASE Return(p)
  BY <1>4, OwnReturns
<1>5. CASE ~Return(p)
  <2>1. PICK u : u = [t EXCEPT !.pc = "swap", !.fresh = t.saved]
    OBVIOUS
  <2>2. Set(p, u) /\ lease' = lease /\ profiles[t.alias] = t.saved
    BY <1>1, <1>5, <2>1 DEF Switch, Keep
  <2>3. u \in Task
    BY <1>2, <1>3, <2>1, Names DEF Task
  <2>4. /\ u.pc = "swap" /\ u.kind = "use" /\ u.alias = t.alias /\ u.other = t.other
        /\ u.fresh = t.saved /\ Alike(t, u)
    BY <1>2, <1>3, <2>1 DEF Task, Alike
  <2>5. Leased(p, u)'
    BY <1>2, <2>2, <2>4, LeasedStill DEF Place, One, Both
  <2>6. Backed(u)' /\ Follows(u)' /\ Reverts(u)' /\ Decided(u)'
    BY <1>2, <2>2, <2>4 DEF Backed, Follows, Reverts, Decided, Refreshes, Networking, Undoing
  <2>7. Grounded(u)'
    BY <1>2, <2>4, <2>6, GroundKept
  <2> QED
    BY <2>2, <2>3, <2>4, <2>5, <2>6, <2>7 DEF Own, Standing, Joins, Networking
<1> QED
  BY <1>4, <1>5

LEMMA ConsentOwn ==
  ASSUME IInv, JInv, NEW p \in Proc, Consent(p), Spares(p)
  PROVE  Own(p)
<1>1. PICK t : t = tasks[p]
  OBVIOUS
<1>2. t \in Task /\ t.pc = "consent" /\ Leased(p, t)
  BY <1>1, OwnFacts DEF Consent, Look, At, JInv, Standing
<1>3. CASE Return(p)
  BY <1>3, OwnReturns
<1>4. CASE ~Return(p)
  <2>1. PICK l \in {"authorize", "activate"} : Set(p, [t EXCEPT !.pc = l, !.then = "activate"])
    BY <1>1, <1>4 DEF Consent
  <2>2. PICK u : u = [t EXCEPT !.pc = l, !.then = "activate"]
    OBVIOUS
  <2>3. u \in Task
    BY <1>2, <2>2, Names DEF Task
  <2>4. u.pc = l /\ u.alias = t.alias /\ u.other = t.other /\ Alike(t, u)
    BY <1>2, <2>2 DEF Task, Alike
  <2>5. lease' = lease
    BY <1>4 DEF Consent, locks
  <2>6. Leased(p, u)'
    BY <1>2, <2>4, <2>5, LeasedStill DEF Place, One, Both
  <2>7. u.pc \notin Busy
    BY <2>4 DEF Busy, Networking, Undoing
  <2> QED
    BY <1>1, <2>1, <2>2, <2>3, <2>4, <2>6, <2>7, OwnCalm
<1> QED
  BY <1>3, <1>4

LEMMA ActivateOwn ==
  ASSUME IInv, JInv, NEW p \in Proc, Activate(p), Spares(p)
  PROVE  Own(p)
<1>1. PICK t : t = tasks[p]
  OBVIOUS
<1>2. /\ t \in Task /\ Shape(t) /\ t.pc = "activate" /\ TypeOK /\ Grounded(t) /\ Leased(p, t)
      /\ profiles' = profiles /\ live \in CredOrNone
  BY <1>1, OwnFacts DEF Activate, Look, At, IInv, JInv, Standing, disk, registry
<1>3. t.kind = "revive" /\ t.alias \in Alias
  BY <1>2 DEF Shape, KindFits, Named, Nameless, Place
<1>4. CASE Return(p)
  BY <1>4, OwnReturns
<1>5. CASE ~Return(p)
  <2>1. PICK c : c = profiles[t.alias]
    OBVIOUS
  <2>2. PICK u : u = [t EXCEPT !.pc = "swap", !.then = "idle", !.live = live, !.fresh = c]
    OBVIOUS
  <2>3. Set(p, u) /\ lease' = lease /\ live \in {t.agreed, c}
    BY <1>1, <1>5, <2>1, <2>2 DEF Activate, Keep, Revalidated
  <2>4. c \in CredOrNone
    BY <1>2, <1>3, <2>1 DEF TypeOK
  <2>5. u \in Task
    BY <1>2, <2>2, <2>4, Names DEF Task
  <2>6. /\ u.pc = "swap" /\ u.kind = "revive" /\ u.then = "idle" /\ u.alias = t.alias
        /\ u.other = t.other /\ u.live = live /\ u.fresh = c /\ u.agreed = t.agreed /\ Alike(t, u)
    BY <1>2, <1>3, <2>2 DEF Task, Alike
  <2>7. Leased(p, u)'
    BY <1>2, <2>3, <2>6, LeasedStill DEF Place, One, Both
  <2>8. Backed(u)' /\ Follows(u)' /\ Reverts(u)' /\ Decided(u)'
    BY <1>2, <2>1, <2>3, <2>6 DEF Backed, Follows, Reverts, Decided, Refreshes, Networking, Undoing
  <2>9. Grounded(u)'
    BY <1>2, <2>6, <2>8, GroundKept
  <2> QED
    BY <2>3, <2>5, <2>6, <2>7, <2>8, <2>9 DEF Own, Standing, Joins, Networking
<1> QED
  BY <1>4, <1>5

(* The marker, and the daemon's poll.                                       *)
LEMMA LocateOwn ==
  ASSUME IInv, JInv, NEW p \in Proc, Locate(p), Spares(p)
  PROVE  Own(p)
<1>1. PICK t : t = tasks[p]
  OBVIOUS
<1>2. t \in Task
  BY <1>1, OwnFacts
<1>3. CASE Return(p)
  BY <1>3, OwnReturns
<1>4. CASE ~Return(p)
  <2>1. PICK a \in Active(live) : Set(p, Waiting([t EXCEPT !.alias = a], {a}, "relocate"))
    BY <1>1, <1>4 DEF Locate
  <2>2. PICK s : s = [t EXCEPT !.alias = a]
    OBVIOUS
  <2>3. a \in Alias
    BY ActiveIsAlias
  <2>4. s \in Task /\ s.alias = a /\ Alike(t, s)
    BY <1>2, <2>2, <2>3 DEF Task, Alike, AliasOrNone
  <2>5. PICK u : u = Waiting(s, {a}, "relocate")
    OBVIOUS
  <2>6. {a} \in SUBSET Alias /\ "relocate" \in Locations
    BY <2>3, Names
  <2>7. u \in Task /\ u.pc \in {"lease", "relocate"}
    BY <2>4, <2>5, <2>6, WaitingFits
  <2>8. Leased(p, u)' /\ Alike(s, u)
    BY <2>4, <2>5, <2>6, LeasedWaiting DEF Both
  <2>9. u.pc \notin Busy /\ Alike(t, u)
    BY <2>4, <2>7, <2>8 DEF Busy, Networking, Undoing, Alike
  <2> QED
    BY <1>1, <2>1, <2>2, <2>5, <2>7, <2>8, <2>9, OwnCalm
<1> QED
  BY <1>3, <1>4

LEMMA RelocateOwn ==
  ASSUME IInv, JInv, NEW p \in Proc, Relocate(p), Spares(p)
  PROVE  Own(p)
<1>1. PICK t : t = tasks[p]
  OBVIOUS
<1>2. t \in Task /\ Shape(t) /\ t.pc = "relocate" /\ live \in CredOrNone
  BY <1>1, OwnFacts DEF Relocate, Look, At
<1>3. t.kind \in {"auto", "mark"} /\ t.alias \in Alias /\ (t.kind = "auto" => t.other \in Alias)
  BY <1>2 DEF Shape, KindFits, Named, Nameless, Place
<1>4. CASE Return(p)
  BY <1>4, OwnReturns
<1>5. CASE t.kind = "auto" /\ Await(p, Waiting([t EXCEPT !.saved = live], {t.alias, t.other}, "autoswitch"))
  <2>1. PICK s : s = [t EXCEPT !.saved = live]
    OBVIOUS
  <2>2. s \in Task /\ s.alias = t.alias /\ s.other = t.other /\ Alike(t, s)
    BY <1>2, <2>1 DEF Task, Alike
  <2>3. PICK u : u = Waiting(s, {t.alias, t.other}, "autoswitch")
    OBVIOUS
  <2>4. {t.alias, t.other} \in SUBSET Alias /\ "autoswitch" \in Locations
    BY <1>3, <1>5, Names
  <2>5. u \in Task /\ u.pc \in {"lease", "autoswitch"}
    BY <2>2, <2>3, <2>4, WaitingFits
  <2>6. Leased(p, u)' /\ Alike(s, u)
    BY <2>2, <2>3, <2>4, LeasedWaiting
  <2>7. u.pc \notin Busy /\ Alike(t, u)
    BY <2>2, <2>5, <2>6 DEF Busy, Networking, Undoing, Alike
  <2>8. Set(p, u)
    BY <1>5, <2>1, <2>3 DEF Await
  <2> QED
    BY <1>1, <2>5, <2>6, <2>7, <2>8, OwnCalm
<1>6. CASE Await(p, [t EXCEPT !.pc = "locate"])
  <2>1. PICK u : u = [t EXCEPT !.pc = "locate"]
    OBVIOUS
  <2>2. u \in Task /\ u.pc = "locate" /\ Alike(t, u)
    BY <1>2, <2>1, Names DEF Task, Alike
  <2>3. Leased(p, u)' /\ u.pc \notin Busy
    BY <2>2 DEF Leased, Place, One, Both, Busy, Networking, Undoing
  <2>4. Set(p, u)
    BY <1>6, <2>1 DEF Await
  <2> QED
    BY <1>1, <2>2, <2>3, <2>4, OwnCalm
<1> QED
  BY <1>1, <1>4, <1>5, <1>6 DEF Relocate

LEMMA AutoSwitchOwn ==
  ASSUME IInv, JInv, NEW p \in Proc, AutoSwitch(p), Spares(p)
  PROVE  Own(p)
<1>1. PICK t : t = tasks[p]
  OBVIOUS
<1>2. /\ t \in Task /\ Shape(t) /\ t.pc = "autoswitch" /\ TypeOK /\ Grounded(t) /\ Leased(p, t)
      /\ profiles' = profiles /\ marker' = marker /\ live \in CredOrNone
  BY <1>1, OwnFacts DEF AutoSwitch, Look, At, IInv, JInv, Standing, disk, registry
<1>3. t.kind = "auto" /\ t.alias \in Alias /\ t.other \in Alias
  BY <1>2 DEF Shape, KindFits, Named, Nameless, Place
<1>4. CASE Return(p)
  BY <1>4, OwnReturns
<1>5. CASE ~Return(p)
  <2>1. PICK c : c = profiles[t.other]
    OBVIOUS
  <2>2. PICK u : u = [t EXCEPT !.pc = "swap", !.alias = t.other, !.live = live, !.fresh = c]
    OBVIOUS
  <2>3. Set(p, u) /\ lease' = lease /\ marker = t.alias /\ Belongs(t.alias, live)
    BY <1>1, <1>5, <2>1, <2>2 DEF AutoSwitch, Keep
  <2>4. c \in CredOrNone
    BY <1>2, <1>3, <2>1 DEF TypeOK
  <2>5. u \in Task
    BY <1>2, <1>3, <2>2, <2>4, Names DEF Task, AliasOrNone
  <2>6. /\ u.pc = "swap" /\ u.kind = "auto" /\ u.alias = t.other
        /\ u.live = live /\ u.fresh = c /\ Alike(t, u)
    BY <1>2, <1>3, <2>2 DEF Task, Alike
  <2>7. Leased(p, u)'
    BY <1>2, <2>3, <2>6 DEF Leased, Has, Place, One, Both
  <2>8. marker \in Exact(live) \cup Holders(live.account)
    BY <2>3 DEF Belongs, Bound, MarkerNames
  <2>9. Backed(u)' /\ Follows(u)' /\ Reverts(u)'
    BY <1>2, <2>1, <2>6 DEF Backed, Follows, Reverts, Refreshes, Networking, Undoing
  <2>10. Decided(u)'
    BY <1>2, <2>6, <2>8 DEF Decided, Exact, Holders
  <2>11. Grounded(u)'
    BY <1>2, <2>6, <2>10, GroundKept
  <2> QED
    BY <2>3, <2>5, <2>6, <2>7, <2>9, <2>11 DEF Own, Standing, Joins, Networking
<1> QED
  BY <1>4, <1>5

(* Reading live back.                                                       *)
LEMMA AdoptOwn ==
  ASSUME IInv, JInv, NEW p \in Proc, Adopt(p), Spares(p)
  PROVE  Own(p)
<1>1. PICK t : t = tasks[p]
  OBVIOUS
<1>2. /\ t \in Task /\ Shape(t) /\ t.pc = "adopt" /\ Leased(p, t) /\ live \in CredOrNone
  BY <1>1, OwnFacts DEF Adopt, Look, At, JInv, Standing
<1>3. CASE Return(p)
  BY <1>3, OwnReturns
<1>4. CASE ~Return(p)
  <2>1. PICK u : u = [t EXCEPT !.pc = "copy", !.fresh = live]
    OBVIOUS
  <2>2. Set(p, u) /\ lease' = lease
    BY <1>1, <1>4, <2>1 DEF Adopt, Keep
  <2>3. u \in Task
    BY <1>2, <2>1, Names DEF Task
  <2>4. u.pc = "copy" /\ u.alias = t.alias /\ u.other = t.other /\ Alike(t, u)
    BY <1>2, <2>1 DEF Task, Alike
  <2>5. Leased(p, u)' /\ u.pc \notin Busy
    BY <1>2, <2>2, <2>4, LeasedStill DEF Place, One, Both, Busy, Networking, Undoing
  <2> QED
    BY <1>1, <2>2, <2>3, <2>4, <2>5, OwnCalm
<1> QED
  BY <1>3, <1>4

LEMMA CopyOwn ==
  ASSUME IInv, JInv, NEW p \in Proc, Copy(p), Spares(p)
  PROVE  Own(p)
<1>1. PICK t : t = tasks[p]
  OBVIOUS
<1>2. /\ t \in Task /\ Shape(t) /\ t.pc = "copy" /\ Leased(p, t) /\ Grounded(t) /\ TypeOK
  BY <1>1, OwnFacts DEF Copy, At, JInv, Standing, IInv
<1>3. t.alias \in Alias
  BY <1>2, LeasedNames DEF Place, One
<1>4. CASE Return(p)
  BY <1>4, OwnReturns
<1>5. CASE ~Return(p)
  <2>1. PICK u : u = [t EXCEPT !.pc = "recheck"]
    OBVIOUS
  <2>2. Set(p, u) /\ lease' = lease /\ profiles' = [profiles EXCEPT ![t.alias] = t.fresh]
    BY <1>1, <1>5, <2>1 DEF Copy, Go, locks
  <2>3. u \in Task
    BY <1>2, <2>1, Names DEF Task
  <2>4. u.pc = "recheck" /\ u.alias = t.alias /\ u.other = t.other /\ u.fresh = t.fresh /\ Alike(t, u)
    BY <1>2, <2>1 DEF Task, Alike
  <2>5. Leased(p, u)'
    BY <1>2, <2>2, <2>4, LeasedStill DEF Place, One, Both
  <2>6. profiles'[t.alias] = t.fresh
    BY <1>2, <1>3, <2>2 DEF TypeOK
  <2>7. Backed(u)' /\ Follows(u)' /\ Reverts(u)'
    BY <2>4, <2>6 DEF Backed, Follows, Reverts, Networking, Undoing
  <2>8. Grounded(u)'
    BY <1>2, <2>4, GroundKept
  <2> QED
    BY <2>2, <2>3, <2>4, <2>5, <2>7, <2>8 DEF Own, Standing, Joins, Networking
<1> QED
  BY <1>4, <1>5

LEMMA RecheckOwn ==
  ASSUME IInv, JInv, Distinct, NEW p \in Proc, Recheck(p), Spares(p)
  PROVE  Own(p)
<1>1. PICK t : t = tasks[p]
  OBVIOUS
<1>2. /\ t \in Task /\ Shape(t) /\ t.pc = "recheck" /\ Leased(p, t) /\ Grounded(t) /\ Backed(t)
      /\ TypeOK /\ live' = live /\ profiles' = profiles /\ live \in CredOrNone
  BY <1>1, OwnFacts DEF Recheck, At, JInv, Standing, IInv, disk, registry
<1>3. t.alias \in Alias /\ t.kind \in {"sync", "readback"}
  BY <1>2, LeasedNames DEF Place, One, Shape, KindFits
<1>4. CASE Return(p)
  BY <1>4, OwnReturns
<1>5. CASE live = t.fresh /\ ~Return(p)
  <2>1. PICK u : u = [t EXCEPT !.pc = "mark"]
    OBVIOUS
  <2>2. Set(p, u) /\ lease' = lease
    BY <1>1, <1>5, <2>1 DEF Recheck, Go, locks
  <2>3. u \in Task
    BY <1>2, <2>1, Names DEF Task
  <2>4. u.pc = "mark" /\ u.kind = t.kind /\ u.alias = t.alias /\ u.other = t.other /\ Alike(t, u)
    BY <1>2, <2>1 DEF Task, Alike
  <2>5. Leased(p, u)'
    BY <1>2, <2>2, <2>4, LeasedStill DEF Place, One, Both
  <2>6. live # NoCred => Exact(live) = {t.alias}
    BY <1>2, <1>3, <1>5, TheOne DEF Backed
  <2>7. Backed(u)' /\ Follows(u)' /\ Reverts(u)'
    BY <1>2, <1>3, <2>4, <2>6 DEF Backed, Exact, Follows, Reverts, Refreshes, Networking, Undoing
  <2>8. Grounded(u)'
    BY <1>2, <2>4, GroundKept
  <2> QED
    BY <2>2, <2>3, <2>4, <2>5, <2>7, <2>8 DEF Own, Standing, Joins, Networking
<1>6. CASE live # t.fresh /\ ~Return(p)
  <2>1. PICK u : u = [t EXCEPT !.pc = "copy", !.fresh = live]
    OBVIOUS
  <2>2. Set(p, u) /\ lease' = lease
    BY <1>1, <1>6, <2>1 DEF Recheck, locks
  <2>3. u \in Task
    BY <1>2, <2>1, Names DEF Task
  <2>4. u.pc = "copy" /\ u.alias = t.alias /\ u.other = t.other /\ Alike(t, u)
    BY <1>2, <2>1 DEF Task, Alike
  <2>5. Leased(p, u)' /\ u.pc \notin Busy
    BY <1>2, <2>2, <2>4, LeasedStill DEF Place, One, Both, Busy, Networking, Undoing
  <2> QED
    BY <1>1, <2>2, <2>3, <2>4, <2>5, OwnCalm
<1> QED
  BY <1>4, <1>5, <1>6

(* Signing in and saving.                                                   *)
LEMMA SignInOwn ==
  ASSUME IInv, JInv, NEW p \in Proc, SignIn(p), Spares(p)
  PROVE  Own(p)
<1>1. PICK t : t = tasks[p]
  OBVIOUS
<1>2. t \in Task /\ Shape(t) /\ t.pc = "signin" /\ TypeOK
  BY <1>1, OwnFacts DEF SignIn, At, IInv
<1>3. t.kind \in {"login", "reauth"} /\ (t.kind = "reauth" => t.alias \in Alias)
  BY <1>2 DEF Shape, KindFits, Named, Place
<1>4. CASE Return(p)
  BY <1>4, OwnReturns
<1>5. CASE ~Return(p)
  <2>1. PICK x \in Account :
          /\ CanIssue(x)
          /\ Set(p, IF t.kind = "login"
                    THEN [t EXCEPT !.pc = "plan", !.fresh = Issue(x)]
                    ELSE Waiting([t EXCEPT !.fresh = Issue(x)], {t.alias}, "reauth"))
    BY <1>1, <1>5 DEF SignIn, Issues
  <2>2. PICK c : c = Issue(x)
    OBVIOUS
  <2>3. c \in CredOrNone
    BY <1>2, <2>1, <2>2, Constants DEF Issue, CanIssue, TypeOK, CredOrNone, Cred
  <2>4. CASE t.kind = "login"
    <3>1. PICK u : u = [t EXCEPT !.pc = "plan", !.fresh = c]
      OBVIOUS
    <3>2. u \in Task /\ u.pc = "plan" /\ Alike(t, u)
      BY <1>2, <2>3, <3>1, Names DEF Task, Alike
    <3>3. Leased(p, u)' /\ u.pc \notin Busy
      BY <3>2 DEF Leased, Place, One, Both, Busy, Networking, Undoing
    <3>4. Set(p, u)
      BY <2>1, <2>2, <2>4, <3>1
    <3> QED
      BY <1>1, <3>2, <3>3, <3>4, OwnCalm
  <2>5. CASE t.kind # "login"
    <3>1. PICK s : s = [t EXCEPT !.fresh = c]
      OBVIOUS
    <3>2. s \in Task /\ s.alias = t.alias /\ Alike(t, s)
      BY <1>2, <2>3, <3>1 DEF Task, Alike
    <3>3. PICK u : u = Waiting(s, {t.alias}, "reauth")
      OBVIOUS
    <3>4. {t.alias} \in SUBSET Alias /\ "reauth" \in Locations /\ "reauth" \notin Both
      BY <1>3, <2>5, Names DEF Both
    <3>5. u \in Task /\ u.pc \in {"lease", "reauth"}
      BY <3>2, <3>3, <3>4, WaitingFits
    <3>6. Leased(p, u)' /\ Alike(s, u)
      BY <3>2, <3>3, <3>4, LeasedWaiting
    <3>7. u.pc \notin Busy /\ Alike(t, u)
      BY <3>2, <3>5, <3>6 DEF Busy, Networking, Undoing, Alike
    <3>8. Set(p, u)
      BY <2>1, <2>2, <2>5, <3>1, <3>3
    <3> QED
      BY <1>1, <3>5, <3>6, <3>7, <3>8, OwnCalm
  <2> QED
    BY <2>4, <2>5
<1> QED
  BY <1>4, <1>5

LEMMA PlanOwn ==
  ASSUME IInv, JInv, NEW p \in Proc, Plan(p), Spares(p)
  PROVE  Own(p)
<1>1. PICK t : t = tasks[p]
  OBVIOUS
<1>2. t \in Task /\ t.other \in AliasOrNone /\ TypeOK
  BY <1>1, OwnFacts, TaskTypes DEF IInv
<1>3. CASE Return(p)
  BY <1>3, OwnReturns
<1>4. CASE ~Return(p)
  <2>1. PICK a \in Homes(t) : Set(p, Waiting([t EXCEPT !.alias = a], {a}, "store"))
    BY <1>1, <1>4 DEF Plan
  <2>2. a \in Alias
    BY <1>2, <2>1, Constants DEF Homes, Destinations, NewNames, Holders, AliasOrNone
  <2>3. PICK s : s = [t EXCEPT !.alias = a]
    OBVIOUS
  <2>4. s \in Task /\ s.alias = a /\ Alike(t, s)
    BY <1>2, <2>2, <2>3 DEF Task, Alike, AliasOrNone
  <2>5. PICK u : u = Waiting(s, {a}, "store")
    OBVIOUS
  <2>6. {a} \in SUBSET Alias /\ "store" \in Locations /\ "store" \notin Both
    BY <2>2, Names DEF Both
  <2>7. u \in Task /\ u.pc \in {"lease", "store"}
    BY <2>4, <2>5, <2>6, WaitingFits
  <2>8. Leased(p, u)' /\ Alike(s, u)
    BY <2>4, <2>5, <2>6, LeasedWaiting
  <2>9. u.pc \notin Busy /\ Alike(t, u)
    BY <2>4, <2>7, <2>8 DEF Busy, Networking, Undoing, Alike
  <2> QED
    BY <1>1, <2>1, <2>3, <2>5, <2>7, <2>8, <2>9, OwnCalm
<1> QED
  BY <1>3, <1>4

(* A write that no refresh asked for.                                       *)
LEMMA ToWriteOwn ==
  ASSUME IInv, JInv, NEW p \in Proc, Spares(p), NEW t, t = tasks[p],
         t.pc \in {"store", "reauth"}, lease' = lease,
         NEW u \in Task, Set(p, u), u.pc = "write", u.kind \in {"save", "login", "reauth"},
         u.alias = t.alias, u.other = t.other, Alike(t, u)
  PROVE  Own(p)
<1>1. t \in Task /\ Leased(p, t) /\ Grounded(t)
  BY OwnFacts DEF JInv, Standing
<1>2. Leased(p, u)'
  BY <1>1, LeasedStill DEF Place, One, Both
<1>3. Backed(u)' /\ Follows(u)' /\ Reverts(u)'
  BY DEF Backed, Follows, Reverts, Refreshes, Networking, Undoing
<1>4. Grounded(u)'
  BY <1>1, GroundKept
<1> QED
  BY <1>2, <1>3, <1>4 DEF Own, Standing, Joins, Networking

LEMMA StoreOwn ==
  ASSUME IInv, JInv, NEW p \in Proc, Store(p), Spares(p)
  PROVE  Own(p)
<1>1. PICK t : t = tasks[p]
  OBVIOUS
<1>2. /\ t \in Task /\ Shape(t) /\ t.pc = "store" /\ live \in CredOrNone /\ t.fresh \in CredOrNone
  BY <1>1, OwnFacts, TaskTypes DEF Store, Look, At
<1>3. t.kind \in {"save", "login"}
  BY <1>2 DEF Shape, KindFits, Place
<1>4. PICK c : c = Incoming(t)
  OBVIOUS
<1>5. c \in CredOrNone
  BY <1>2, <1>4 DEF Incoming
<1>6. CASE Return(p)
  BY <1>6, OwnReturns
<1>7. CASE Await(p, [t EXCEPT !.pc = "plan"])
  <2>1. PICK u : u = [t EXCEPT !.pc = "plan"]
    OBVIOUS
  <2>2. u \in Task /\ u.pc = "plan" /\ Alike(t, u)
    BY <1>2, <2>1, Names DEF Task, Alike
  <2>3. Leased(p, u)' /\ u.pc \notin Busy
    BY <2>2 DEF Leased, Place, One, Both, Busy, Networking, Undoing
  <2>4. Set(p, u)
    BY <1>7, <2>1 DEF Await
  <2> QED
    BY <1>1, <2>2, <2>3, <2>4, OwnCalm
<1>8. CASE Keep(p, [t EXCEPT !.pc = "write", !.fresh = c, !.live = live, !.follow = TRUE])
  <2>1. PICK u : u = [t EXCEPT !.pc = "write", !.fresh = c, !.live = live, !.follow = TRUE]
    OBVIOUS
  <2>2. u \in Task
    BY <1>2, <1>5, <2>1, Names DEF Task
  <2>3. u.pc = "write" /\ u.kind = t.kind /\ u.alias = t.alias /\ u.other = t.other /\ Alike(t, u)
    BY <1>2, <1>3, <2>1 DEF Task, Alike
  <2>4. Set(p, u) /\ lease' = lease
    BY <1>8, <2>1 DEF Keep
  <2> QED
    BY <1>1, <1>2, <1>3, <2>2, <2>3, <2>4, ToWriteOwn
<1> QED
  BY <1>1, <1>4, <1>6, <1>7, <1>8 DEF Store

LEMMA BindOwn ==
  ASSUME IInv, JInv, NEW p \in Proc, Bind(p), Spares(p)
  PROVE  Own(p)
<1>1. PICK t : t = tasks[p]
  OBVIOUS
<1>2. t \in Task /\ Shape(t) /\ t.pc = "bind" /\ TypeOK
  BY <1>1, OwnFacts DEF Bind, At, IInv
<1>3. t.alias \in Alias /\ t.kind = "reauth"
  BY <1>2 DEF Shape, KindFits, Named, Place
<1>4. CASE Return(p)
  BY <1>4, OwnReturns
<1>5. CASE ~Return(p)
  <2>1. PICK c : c = profiles[t.alias]
    OBVIOUS
  <2>2. PICK u : u = [t EXCEPT !.pc = "signin", !.saved = c]
    OBVIOUS
  <2>3. Set(p, u) /\ c \in CredOrNone
    BY <1>1, <1>2, <1>3, <1>5, <2>1, <2>2 DEF Bind, Await, TypeOK
  <2>4. u \in Task /\ u.pc = "signin" /\ Alike(t, u)
    BY <1>2, <2>2, <2>3, Names DEF Task, Alike
  <2>5. Leased(p, u)' /\ u.pc \notin Busy
    BY <2>4 DEF Leased, Place, One, Both, Busy, Networking, Undoing
  <2> QED
    BY <1>1, <2>3, <2>4, <2>5, OwnCalm
<1> QED
  BY <1>4, <1>5

LEMMA ReauthorizeOwn ==
  ASSUME IInv, JInv, NEW p \in Proc, Reauthorize(p), Spares(p)
  PROVE  Own(p)
<1>1. PICK t : t = tasks[p]
  OBVIOUS
<1>2. t \in Task /\ Shape(t) /\ t.pc = "reauth" /\ live \in CredOrNone
  BY <1>1, OwnFacts DEF Reauthorize, Look, At
<1>3. t.kind = "reauth"
  BY <1>2 DEF Shape, KindFits, Place
<1>4. CASE Return(p)
  BY <1>4, OwnReturns
<1>5. CASE ~Return(p)
  <2>1. PICK f : f = Belongs(t.alias, live)
    OBVIOUS
  <2>2. PICK u : u = [t EXCEPT !.pc = "write", !.live = live, !.follow = f]
    OBVIOUS
  <2>3. Set(p, u) /\ lease' = lease /\ f \in BOOLEAN
    BY <1>1, <1>5, <2>1, <2>2, BelongsIsBoolean DEF Reauthorize, Keep
  <2>4. u \in Task
    BY <1>2, <2>2, <2>3, Names DEF Task
  <2>5. u.pc = "write" /\ u.kind = t.kind /\ u.alias = t.alias /\ u.other = t.other /\ Alike(t, u)
    BY <1>2, <1>3, <2>2 DEF Task, Alike
  <2> QED
    BY <1>1, <1>2, <1>3, <2>3, <2>4, <2>5, ToWriteOwn
<1> QED
  BY <1>4, <1>5

(* Importing: nothing is claimed before the file is filed.                  *)
LEMMA UnclaimedOwn ==
  ASSUME IInv, JInv, NEW p \in Proc, Spares(p), NEW t, t = tasks[p],
         NEW u \in Task, Set(p, u), Alike(t, u),
         Place(u) \in {"scan", "reserve", "validate", "install", "rescue", "refile"}
  PROVE  Own(p)
<1>1. Leased(p, u)'
  BY DEF Leased, One, Both
<1>2. u.pc \notin Busy
  BY DEF Place, Busy, Networking, Undoing
<1> QED
  BY <1>1, <1>2, OwnCalm

LEMMA ScanOwn ==
  ASSUME IInv, JInv, NEW p \in Proc, Scan(p), Spares(p)
  PROVE  Own(p)
<1>1. PICK t : t = tasks[p]
  OBVIOUS
<1>2. t \in Task
  BY <1>1, OwnFacts
<1>3. PICK n : n = {a \in Alias : profiles[a] # NoCred}
  OBVIOUS
<1>4. PICK u : u = Waiting(t, n, "reserve")
  OBVIOUS
<1>5. n \in SUBSET Alias /\ "reserve" \in Locations /\ "reserve" \notin One \cup Both
  BY <1>3, Names DEF One, Both
<1>6. Set(p, u)
  BY <1>1, <1>3, <1>4 DEF Scan
<1>7. u \in Task /\ Place(u) = "reserve"
  BY <1>2, <1>4, <1>5, WaitingFits
<1>8. Alike(t, u)
  BY <1>2, <1>4, <1>5, LeasedWaiting
<1> QED
  BY <1>1, <1>6, <1>7, <1>8, UnclaimedOwn

LEMMA ReserveOwn ==
  ASSUME IInv, JInv, NEW p \in Proc, Reserve(p), Spares(p)
  PROVE  Own(p)
<1>1. PICK t : t = tasks[p]
  OBVIOUS
<1>2. t \in Task
  BY <1>1, OwnFacts
<1>3. CASE Return(p)
  BY <1>3, OwnReturns
<1>4. CASE Set(p, [t EXCEPT !.pc = "scan"])
  <2>1. PICK u : u = [t EXCEPT !.pc = "scan"]
    OBVIOUS
  <2>2. u \in Task /\ u.pc = "scan" /\ Alike(t, u)
    BY <1>2, <2>1, Names DEF Task, Alike
  <2>3. Set(p, u) /\ Place(u) = "scan"
    BY <1>4, <2>1, <2>2 DEF Place
  <2> QED
    BY <1>1, <2>2, <2>3, UnclaimedOwn
<1>5. ASSUME NEW c \in Cred, Set(p, [t EXCEPT !.pc = "validate", !.saved = c, !.fresh = c])
      PROVE  Own(p)
  <2>1. PICK u : u = [t EXCEPT !.pc = "validate", !.saved = c, !.fresh = c]
    OBVIOUS
  <2>2. u \in Task /\ u.pc = "validate" /\ Alike(t, u)
    BY <1>2, <2>1, Names, Creds DEF Task, Alike
  <2>3. Set(p, u) /\ Place(u) = "validate"
    BY <1>5, <2>1, <2>2 DEF Place
  <2> QED
    BY <1>1, <2>2, <2>3, UnclaimedOwn
<1> QED
  BY <1>1, <1>3, <1>4, <1>5 DEF Reserve, Await, Keep

LEMMA ValidateOwn ==
  ASSUME IInv, JInv, NEW p \in Proc, Validate(p), Spares(p)
  PROVE  Own(p)
<1>1. PICK t : t = tasks[p]
  OBVIOUS
<1>2. /\ t \in Task /\ Shape(t) /\ t.pc = "validate" /\ TypeOK
  BY <1>1, OwnFacts DEF Validate, At, IInv
<1>3. t.saved \in Cred /\ t.saved.account \in Account /\ t.fresh \in Cred
  BY <1>2, Creds DEF Shape, Snapshots, Place
<1>4. ASSUME NEW c \in Cred, NEW l \in {"install", "rescue"},
             Set(p, [t EXCEPT !.pc = l, !.fresh = c])
      PROVE  Own(p)
  <2>1. PICK u : u = [t EXCEPT !.pc = l, !.fresh = c]
    OBVIOUS
  <2>2. u \in Task /\ u.pc = l /\ Alike(t, u)
    BY <1>2, <2>1, Names, Creds DEF Task, Alike
  <2>3. Set(p, u) /\ Place(u) = l
    BY <1>4, <2>1, <2>2 DEF Place
  <2> QED
    BY <1>1, <2>2, <2>3, UnclaimedOwn
<1>5. PICK c : c = Issue(t.saved.account)
  OBVIOUS
<1>6. CanIssue(t.saved.account) => c \in Cred
  BY <1>2, <1>3, <1>5, Constants DEF Issue, CanIssue, TypeOK, Cred
<1>7. CASE Return(p)
  BY <1>7, OwnReturns
<1>8. CASE Go(p, "install")
  <2>1. [t EXCEPT !.pc = "install", !.fresh = t.fresh] = [t EXCEPT !.pc = "install"]
    BY <1>2 DEF Task
  <2> QED
    BY <1>1, <1>3, <1>4, <1>8, <2>1 DEF Go
<1>9. CASE ~Return(p) /\ ~Go(p, "install")
  <2>1. PICK r : r = [t EXCEPT !.fresh = c]
    OBVIOUS
  <2>2. /\ CanIssue(t.saved.account)
        /\ Set(p, [r EXCEPT !.pc = "install"]) \/ Set(p, [r EXCEPT !.pc = "rescue"])
    BY <1>1, <1>5, <1>9, <2>1 DEF Validate, Issues, Leave
  <2>3. /\ [r EXCEPT !.pc = "install"] = [t EXCEPT !.pc = "install", !.fresh = c]
        /\ [r EXCEPT !.pc = "rescue"] = [t EXCEPT !.pc = "rescue", !.fresh = c]
    BY <1>2, <2>1 DEF Task
  <2> QED
    BY <1>4, <1>6, <2>2, <2>3
<1> QED
  BY <1>7, <1>8, <1>9

LEMMA RescueOwn ==
  ASSUME IInv, JInv, NEW p \in Proc, Rescue(p), Spares(p)
  PROVE  Own(p)
<1>1. PICK t : t = tasks[p]
  OBVIOUS
<1>2. t \in Task
  BY <1>1, OwnFacts
<1>3. CASE Return(p)
  BY <1>3, OwnReturns
<1>4. CASE ~Return(p)
  <2>1. PICK u : u = [t EXCEPT !.pc = "refile"]
    OBVIOUS
  <2>2. u \in Task /\ u.pc = "refile" /\ Alike(t, u)
    BY <1>2, <2>1, Names DEF Task, Alike
  <2>3. Set(p, u) /\ Place(u) = "refile"
    BY <1>1, <1>4, <2>1, <2>2 DEF Rescue, Go, Place
  <2> QED
    BY <1>1, <2>2, <2>3, UnclaimedOwn
<1> QED
  BY <1>3, <1>4

(* Deleting and renaming: the marker they may put back is the one a refresh *)
(* of the live token read, or names its profile.                            *)
LEMMA UndoOwn ==
  ASSUME IInv, JInv, NEW p \in Proc, Spares(p), NEW t, t = tasks[p],
         NEW u \in Task, Set(p, u), Alike(t, u), u.pc \in Undoing, Leased(p, u)', live' = live,
         \A q \in Proc \ {p} : tasks[q].pc \in Networking /\ live = tasks[q].saved
           => /\ u.marker \in {tasks[q].marker, tasks[q].alias}
              /\ u.pc \in {"move", "remark"} => ~u.follow
  PROVE  Own(p)
<1>1. t \in Task /\ Grounded(t)
  BY OwnFacts DEF JInv, Standing
<1>2. Backed(u)' /\ Follows(u)' /\ Grounded(u)'
  <2>1. u.pc \notin Networking \cup {"swap", "recheck", "mark", "write", "unstage"}
    BY DEF Undoing, Networking
  <2>2. Grounded(u)'
    BY <1>1, <2>1, GroundKept
  <2> QED
    BY <2>1, <2>2 DEF Backed, Follows
<1>3. Reverts(u)'
  <2>1. tasks'[p] = u /\ \A q \in Proc \ {p} : tasks'[q] = tasks[q]
    BY DEF Set, IInv, TypeOK
  <2>2. u.pc \notin Networking
    BY DEF Undoing, Networking
  <2> QED
    BY <2>1, <2>2 DEF Reverts
<1>4. Joins(t, u)
  BY DEF Joins, Undoing, Networking
<1> QED
  BY <1>2, <1>3, <1>4 DEF Own, Standing

LEMMA DeleteOwn ==
  ASSUME IInv, JInv, Distinct, NEW p \in Proc, Delete(p), Spares(p)
  PROVE  Own(p)
<1>1. PICK t : t = tasks[p]
  OBVIOUS
<1>2. /\ t \in Task /\ t.pc = "delete" /\ Leased(p, t) /\ marker \in AliasOrNone /\ live' = live
  BY <1>1, OwnFacts DEF Delete, Look, At, JInv, Standing, disk
<1>3. CASE Return(p)
  BY <1>3, OwnReturns
<1>4. CASE ~Return(p)
  <2>1. PICK l : l = IF marker = t.alias THEN "unmark" ELSE "archive"
    OBVIOUS
  <2>2. PICK u : u = [t EXCEPT !.marker = marker, !.pc = l]
    OBVIOUS
  <2>3. Set(p, u) /\ lease' = lease
    BY <1>1, <1>4, <2>1, <2>2 DEF Delete, Keep
  <2>4. l \in Locations /\ l \in {"unmark", "archive"}
    BY <2>1, Names
  <2>5. /\ u \in Task /\ u.pc = l /\ u.alias = t.alias /\ u.other = t.other /\ u.marker = marker
        /\ Alike(t, u)
    BY <1>2, <2>2, <2>4 DEF Task, Alike
  <2>6. Leased(p, u)' /\ u.pc \in Undoing /\ u.pc \notin {"move", "remark"}
    BY <1>2, <2>3, <2>4, <2>5, LeasedStill DEF Place, One, Both, Undoing
  <2>7. \A q \in Proc \ {p} : tasks[q].pc \in Networking /\ live = tasks[q].saved
          => u.marker \in {tasks[q].marker, tasks[q].alias}
    BY <2>5, Refreshing
  <2> QED
    BY <1>1, <1>2, <2>3, <2>5, <2>6, <2>7, UndoOwn
<1> QED
  BY <1>3, <1>4

(* The second step of each keeps what the first one read.                   *)
LEMMA NextUndoOwn ==
  ASSUME IInv, JInv, NEW p \in Proc, Unmark(p) \/ Move(p), Spares(p)
  PROVE  Own(p)
<1>1. PICK t : t = tasks[p]
  OBVIOUS
<1>2. /\ t \in Task /\ Leased(p, t) /\ Reverts(t) /\ live' = live
      /\ t.pc = "unmark" \/ t.pc = "move"
  BY <1>1, OwnFacts DEF Unmark, Move, At, JInv, Standing
<1>3. CASE Return(p)
  BY <1>3, OwnReturns
<1>4. CASE ~Return(p)
  <2>1. PICK l : l = IF t.pc = "unmark" THEN "archive" ELSE "remark"
    OBVIOUS
  <2>2. PICK u : u = [t EXCEPT !.pc = l]
    OBVIOUS
  <2>3. Set(p, u) /\ lease' = lease
    BY <1>1, <1>2, <1>4, <2>1, <2>2 DEF Unmark, Move, At, Go, locks
  <2>4. l \in Locations
    BY <2>1, Names
  <2>5. /\ u \in Task /\ u.pc = l /\ u.alias = t.alias /\ u.other = t.other /\ u.marker = t.marker
        /\ u.follow = t.follow /\ Alike(t, u)
    BY <1>2, <2>2, <2>4 DEF Task, Alike
  <2>6. Leased(p, u)' /\ u.pc \in Undoing
    BY <1>2, <2>1, <2>3, <2>5, LeasedStill DEF Place, One, Both, Undoing
  <2>7. \A q \in Proc \ {p} : tasks[q].pc \in Networking /\ live = tasks[q].saved
          => /\ u.marker \in {tasks[q].marker, tasks[q].alias}
             /\ u.pc \in {"move", "remark"} => ~u.follow
    BY <1>2, <2>1, <2>5 DEF Reverts, Undoing
  <2> QED
    BY <1>1, <1>2, <2>3, <2>5, <2>6, <2>7, UndoOwn
<1> QED
  BY <1>3, <1>4

LEMMA RenameOwn ==
  ASSUME IInv, JInv, Distinct, NEW p \in Proc, Rename(p), Spares(p)
  PROVE  Own(p)
<1>1. PICK t : t = tasks[p]
  OBVIOUS
<1>2. /\ t \in Task /\ t.pc = "rename" /\ Leased(p, t) /\ marker \in AliasOrNone /\ live' = live
      /\ Shape(t)
  BY <1>1, OwnFacts DEF Rename, Look, At, JInv, Standing, disk
<1>3. Place(t) \in Both /\ t.alias \in Alias
  BY <1>2, LeasedNames DEF Place, Both
<1>4. CASE Return(p)
  BY <1>4, OwnReturns
<1>5. CASE ~Return(p)
  <2>1. PICK f : f = Belongs(t.alias, live)
    OBVIOUS
  <2>2. PICK u : u = [t EXCEPT !.pc = "move", !.marker = marker, !.follow = f]
    OBVIOUS
  <2>3. Set(p, u) /\ lease' = lease
    BY <1>1, <1>5, <2>1, <2>2 DEF Rename, Keep
  <2>4. /\ u \in Task /\ u.pc = "move" /\ u.alias = t.alias /\ u.other = t.other
        /\ u.marker = marker /\ u.follow = f /\ Alike(t, u)
    BY <1>2, <2>1, <2>2, Names, BelongsIsBoolean DEF Task, Alike
  <2>5. Leased(p, u)' /\ u.pc \in Undoing
    BY <1>2, <2>3, <2>4, LeasedStill DEF Place, One, Both, Undoing
  <2>6. ASSUME NEW q \in Proc \ {p}, tasks[q].pc \in Networking, live = tasks[q].saved
        PROVE  u.marker \in {tasks[q].marker, tasks[q].alias} /\ ~u.follow
    <3>1. PICK s : s = tasks[q]
      OBVIOUS
    <3>2. /\ marker \in {s.marker, s.alias}
          /\ \A b \in Alias : Belongs(b, s.saved) <=> b = s.alias
      BY <2>6, <3>1, Refreshing
    <3>3. s.alias # t.alias
      BY <1>1, <1>2, <1>3, <2>6, <3>1, OwnProfile
    <3>4. ~Belongs(t.alias, s.saved)
      BY <1>3, <3>2, <3>3
    <3> QED
      BY <2>1, <2>4, <2>6, <3>1, <3>2, <3>4
  <2> QED
    BY <1>1, <1>2, <2>3, <2>4, <2>5, <2>6, UndoOwn
<1> QED
  BY <1>4, <1>5

(* All steps together.                                                      *)
LEMMA StepOwn ==
  ASSUME IInv, JInv, Distinct, NEW p \in Proc, Spares(p),
         Step(p) \/ GiveUp(p) \/ Answer(p) \/ SignIn(p) \/ Crash(p) \/ \E r \in Requests[p] : Begin(p, r)
  PROVE  Own(p)
<1>1. CASE TakeLease(p) \/ Authorize(p) \/ Present(p) \/ Stage(p) \/ Commit(p) \/ Unstage(p)
  BY <1>1, TakeLeaseOwn, AuthorizeOwn, PresentOwn, StageOwn, CommitOwn, UnstageOwn
<1>2. CASE Write(p) \/ Swap(p) \/ Mark(p)
  BY <1>2, WriteOwn, SwapOwn, MarkOwn
<1>3. CASE \/ Prepare(p) \/ Proceed(p) \/ Answer(p) \/ Switch(p) \/ Consent(p) \/ Activate(p)
           \/ Locate(p) \/ Relocate(p) \/ AutoSwitch(p)
  BY <1>3, PrepareOwn, ConfirmOwn, SwitchOwn, ConsentOwn, ActivateOwn, LocateOwn, RelocateOwn,
     AutoSwitchOwn
<1>4. CASE \/ Adopt(p) \/ Copy(p) \/ Recheck(p) \/ SignIn(p) \/ Plan(p) \/ Store(p) \/ Bind(p)
           \/ Reauthorize(p)
  BY <1>4, AdoptOwn, CopyOwn, RecheckOwn, SignInOwn, PlanOwn, StoreOwn, BindOwn, ReauthorizeOwn
<1>5. CASE \/ Scan(p) \/ Reserve(p) \/ Validate(p) \/ Rescue(p)
           \/ Delete(p) \/ Unmark(p) \/ Rename(p) \/ Move(p)
  BY <1>5, ScanOwn, ReserveOwn, ValidateOwn, RescueOwn, DeleteOwn, NextUndoOwn, RenameOwn
<1>6. CASE Repair(p) \/ Install(p) \/ Refile(p) \/ Archive(p) \/ Remark(p) \/ GiveUp(p) \/ Crash(p)
  <2>1. Return(p)
    BY <1>6 DEF Repair, Install, Refile, FileNew, Archive, Remark, GiveUp, Crash
  <2> QED
    BY <2>1, OwnReturns
<1>7. CASE \E r \in Requests[p] : Begin(p, r)
  BY <1>7, BeginOwn
<1> QED
  BY <1>1, <1>2, <1>3, <1>4, <1>5, <1>6, <1>7 DEF Step

(* What Codex was just issued is nowhere yet.                               *)
LEMMA IssuedIsNew ==
  ASSUME IInv, NEW c, JustIssued(c)
  PROVE  c # NoCred /\ Exact(c) = {} /\ \A q \in Proc : tasks[q].saved # c
<1>1. c \in Cred /\ c # NoCred /\ ~Old(c)
  BY Constants DEF JustIssued, Old, Cred, IInv, TypeOK
<1> QED
  BY <1>1 DEF Exact, IInv, AllOld

(* Codex's steps, and none.                                                 *)
LEMMA OthersMove ==
  ASSUME IInv, JInv,
         UNCHANGED <<profiles, archive, marker, lease, tasks>>, spent \subseteq spent',
         live' \in {live, NoCred} \/ JustIssued(live')
  PROVE  JInv'
<1>1. PICK l : l = live'
  OBVIOUS
<1>2. \/ l = live
      \/ /\ l = NoCred \/ (l # NoCred /\ Exact(l) = {})
         /\ \A q \in Proc : tasks[q].saved = l => l = NoCred
  BY <1>1, IssuedIsNew
<1>3. ASSUME NEW q \in Proc, NEW t, t = tasks[q] PROVE Standing(q, t)'
  <2>1. Standing(q, t) /\ t \in Task /\ Shape(t)
    BY <1>3, OwnFacts DEF JInv
  <2>2. \A r \in Proc : tasks[r].pc \in Networking => tasks[r].saved # NoCred
    <3> SUFFICES ASSUME NEW r \in Proc, tasks[r].pc \in Networking PROVE tasks[r].saved # NoCred
      OBVIOUS
    <3>1. PICK s : s = tasks[r]
      OBVIOUS
    <3>2. s \in Task /\ Shape(s)
      BY <3>1, OwnFacts
    <3>3. s.saved \in Cred
      BY <3>1, <3>2, LeasedNames
    <3> QED
      BY <3>1, <3>3, Constants
  <2>3. Leased(q, t)'
    BY <2>1 DEF Standing, Leased, Has
  <2>4. Backed(t)'
    <3>1. Exact(live)' = Exact(l)
      BY <1>1 DEF Exact
    <3> QED
      BY <1>1, <1>2, <2>1, <3>1 DEF Standing, Backed
  <2>5. Follows(t)'
    BY <1>1, <1>2, <1>3, <2>1, <2>2 DEF Standing, Follows
  <2>6. Reverts(t)'
    BY <1>1, <1>2, <2>1, <2>2 DEF Standing, Reverts
  <2>7. Grounded(t)'
    <3>1. \A c : Superseded(c)' <=> Superseded(c)
      BY DEF Superseded, SignIns
    <3>2. Decided(t)'
      <4>1. Exact(t.live)' = Exact(t.live) /\ Holders(t.live.account)' = Holders(t.live.account)
        BY DEF Exact, Holders
      <4> QED
        BY <2>1, <4>1 DEF Standing, Grounded, Decided
    <3> QED
      BY <2>1, <3>1, <3>2 DEF Standing, Grounded, SignIns
  <2> QED
    BY <2>3, <2>4, <2>5, <2>6, <2>7 DEF Standing
<1>4. ASSUME NEW q \in Proc PROVE Standing(q, tasks[q])'
  <2>1. PICK t : t = tasks[q]
    OBVIOUS
  <2>2. Standing(q, t)'
    BY <1>3, <2>1
  <2> QED
    BY <2>1, <2>2
<1> QED
  BY <1>4 DEF JInv

LEMMA CodexSpares ==
  ASSUME IInv, Codex
  PROVE  /\ UNCHANGED <<profiles, archive, marker, lease, tasks>> /\ spent \subseteq spent'
         /\ live' \in {live, NoCred} \/ JustIssued(live')
<1>1. UNCHANGED <<profiles, archive, marker, lease, tasks>> /\ spent \subseteq spent'
  BY CodexStep DEF CodexTurn, registry, locks
<1>2. CASE CodexLoads \/ CodexLogsOut
  BY <1>1, <1>2 DEF CodexLoads, CodexLogsOut, disk
<1>3. ASSUME NEW x \in Account, Issues(x), live' = Issue(x)
      PROVE  JustIssued(live')
  <2>1. PICK c : c = Issue(x)
    OBVIOUS
  <2>2. JustIssued(c)
    BY <1>3, <2>1, IssueFits
  <2> QED
    BY <1>3, <2>1, <2>2 DEF JustIssued
<1>4. CASE CodexRotates
  <2>1. codex \in Cred /\ codex.account \in Account
    BY <1>4, Creds DEF CodexRotates, CredOrNone, IInv, TypeOK
  <2>2. Issues(codex.account) /\ live' = Issue(codex.account)
    BY <1>4 DEF CodexRotates
  <2> QED
    BY <1>1, <1>3, <2>1, <2>2
<1>5. ASSUME NEW x \in Account, CodexLogsIn(x) PROVE JustIssued(live')
  <2>1. Issues(x) /\ live' = Issue(x)
    BY <1>5 DEF CodexLogsIn
  <2> QED
    BY <1>3, <2>1
<1> QED
  BY <1>1, <1>2, <1>4, <1>5 DEF Codex

LEMMA StandingKeeps ==
  ASSUME IInv, JInv, Distinct, [Next]_vars
  PROVE  JInv'
<1>1. ASSUME NEW p \in Proc,
             \/ Step(p) \/ GiveUp(p) \/ Answer(p) \/ SignIn(p) \/ Crash(p)
             \/ \E r \in Requests[p] : Begin(p, r)
      PROVE  JInv'
  <2>1. Spares(p)
    BY <1>1, StepSpares
  <2>2. Own(p)
    BY <1>1, <2>1, StepOwn
  <2> QED
    BY <2>1, <2>2, StandingKept
<1>2. CASE Codex
  BY <1>2, CodexSpares, OthersMove
<1>3. CASE UNCHANGED vars
  <2>1. UNCHANGED <<profiles, archive, marker, lease, tasks>> /\ spent' = spent /\ live' = live
    BY <1>3 DEF vars, disk, registry, locks, outside
  <2> QED
    BY <2>1, OthersMove
<1> QED
  BY <1>1, <1>2, <1>3 DEF Next, Rest

LEMMA StandingStarts ==
  ASSUME Init
  PROVE  JInv
<1>1. Idle.pc = "idle" /\ Idle.kind = "none"
  BY IdleFits
<1>2. \A p \in Proc : Standing(p, Idle)
  BY <1>1 DEF Standing, Leased, Place, One, Both, Backed, Follows, Reverts, Grounded, Decided,
              Networking, Undoing
<1> QED
  BY <1>2 DEF Init, JInv

(* What operations rely on outside the auth transaction: their leases, the  *)
(* profiles under them, that live follows a refresh, and what a switch was  *)
(* decided on.  It is inductive only together with the registry's promise   *)
(* that an account has one profile: a lease on a name would otherwise not   *)
(* guard the credential.                                                    *)
THEOREM StandingInductive == Spec => []JInv
<1>1. Init => JInv
  BY StandingStarts
<1>2. IInv /\ JInv /\ Distinct /\ [Next]_vars => JInv'
  BY StandingKeeps
<1>3. Spec => []Distinct
  BY StoreImplementsRegistry, AccountHasOneProfile, PTL DEF RegistrySpec, Distinct
<1> QED
  BY <1>1, <1>2, <1>3, StoreInductive, PTL DEF Spec

(* A refresh that reports success leaves Codex no spent token: a credential *)
(* that was live when it was presented had the lease and the marker of its  *)
(* profile then, and neither another command's repair of the marker nor a   *)
(* switch, a rename or a deletion elsewhere takes them from it while the    *)
(* network is slow (authorize_profile_refresh, plan_fresh_live_activation). *)
THEOREM SavedIsNeverSpentLive == Spec => SavedLeavesNoSpentLive
<1>1. IInv /\ JInv /\ [Next]_vars =>
        [\A p \in Proc : At(p, "unstage") /\ tasks[p].ok /\ tasks'[p] # tasks[p]
           => live' # tasks[p].saved]_vars
  <2> SUFFICES ASSUME IInv, JInv, [Next]_vars, NEW p \in Proc, At(p, "unstage"), tasks[p].ok,
                      tasks'[p] # tasks[p]
               PROVE  live' # tasks[p].saved
    OBVIOUS
  <2>1. live' = live
    <3>1. ASSUME NEW q \in Proc, Quiet(q) PROVE live' = live
      BY <3>1 DEF Quiet, QuietTurn
    <3>2. ASSUME NEW q \in Proc, Writes(q) PROVE live' = live
      <4>1. CASE Swap(q)
        <5>1. q # p
          BY <4>1 DEF Swap, At
        <5> QED
          BY <4>1, <5>1, SwapIsOwn
      <4>2. CASE ~Swap(q)
        BY <3>2, <4>2 DEF Writes, Present, Stage, Unstage, Write, Copy, SignIn, Validate, Install,
                          Refile, FileNew, Rescue, Archive, Move, Remark, disk
      <4> QED
        BY <4>1, <4>2
    <3>3. ~Codex
      BY CodexSpares
    <3>4. ~UNCHANGED vars
      BY DEF vars
    <3> QED
      BY <3>1, <3>2, <3>3, <3>4, StepSorts
  <2>2. PICK t : t = tasks[p]
    OBVIOUS
  <2>3. t.pc = "unstage" /\ t.ok /\ Shape(t) /\ Follows(t)
    BY <2>2, OwnFacts DEF At, JInv, Standing
  <2>4. Refreshes(t)
    BY <2>3 DEF Shape, KindFits, Place
  <2> QED
    BY <2>1, <2>2, <2>3, <2>4 DEF Follows
<1> QED
  BY <1>1, StoreInductive, StandingInductive, PTL DEF Spec, SavedLeavesNoSpentLive

(* A switch displaces no live credential the user would miss: what was      *)
(* shown is what is replaced, however long the user and the network took    *)
(* and whoever switched, refreshed, renamed or deleted meanwhile            *)
(* (validate_authorized_profile_switch_locked, switch_profile_if_current).  *)
THEOREM SwitchesAreAgreed == Spec => SwitchIsAgreed
<1>1. IInv /\ JInv /\ Distinct /\ [Next]_vars =>
        [\A p \in Proc : At(p, "swap") /\ tasks[p].kind \in {"use", "revive", "auto"}
                           /\ ~Refreshes(tasks[p]) /\ used'.moves = used.moves
                           /\ live # NoCred /\ live' # live /\ tasks'[p] # tasks[p]
           => Agreed(tasks[p])]_vars
  <2> SUFFICES ASSUME IInv, JInv, Distinct, [Next]_vars, NEW p \in Proc, At(p, "swap"),
                      tasks[p].kind \in {"use", "revive", "auto"}, ~Refreshes(tasks[p]),
                      used'.moves = used.moves, live # NoCred, live' # live,
                      tasks'[p] # tasks[p]
               PROVE  Agreed(tasks[p])
    OBVIOUS
  <2>1. PICK q \in Proc : Swap(q)
    BY OnlySwapMovesLive
  <2>2. q = p
    BY <2>1, SwapIsOwn
  <2>3. PICK t : t = tasks[p]
    OBVIOUS
  <2>4. live = t.live /\ live' = t.fresh
    BY <2>1, <2>2, <2>3 DEF Swap
  <2>5. /\ t.pc = "swap" /\ t.kind \in {"use", "revive", "auto"} /\ ~Refreshes(t)
        /\ Grounded(t) /\ Decided(t)
    BY <2>3 DEF At, JInv, Standing, Grounded
  <2>6. t.kind = "revive" => live = t.agreed
    BY <2>4, <2>5 DEF Decided
  <2>7. Agreed(t)
    <3>1. CASE t.kind = "auto"
      BY <2>4, <2>5, <3>1 DEF Decided, Agreed
    <3>2. CASE t.kind # "auto"
      BY <2>4, <2>5, <2>6, <3>2 DEF Grounded, Agreed
    <3> QED
      BY <3>1, <3>2
  <2> QED
    BY <2>3, <2>7
<1>2. Spec => []Distinct
  BY StoreImplementsRegistry, AccountHasOneProfile, PTL DEF RegistrySpec, Distinct
<1> QED
  BY <1>1, <1>2, StoreInductive, StandingInductive, PTL DEF Spec, SwitchIsAgreed
=============================================================================
