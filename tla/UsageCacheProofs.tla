---------------------------- MODULE UsageCacheProofs ----------------------------
(***************************************************************************)
(* What UsageCache promises for any profiles, accounts and operations, any *)
(* number of processes: once the invalidation of a redemption has run the  *)
(* cache never shows what it was before it, no profile inherits the usage  *)
(* of an account that had its alias before, and a card that is reported    *)
(* unused is unused.                                                       *)
(***************************************************************************)
EXTENDS UsageCache, TLAPS

(* Where the cache keeps the entry of an account: at its profile's alias,   *)
(* or, while a rename has moved the profile alone, where it came from.      *)
Between(p) == tasks[p].step \in {"migrate", "unmove"}

Home(x, a) ==
  \/ owner[a] = x /\ ~Ahead(a)
  \/ \E p \in Proc : Between(p) /\ tasks[p].at = a /\ owner[tasks[p].other] = x

OneOwner == \A a, b \in Alias : owner[a] = owner[b] /\ owner[a] # None => a = b

(* The steps of a renaming, and all that are made under a lease.            *)
Renaming == {"move", "migrate", "mark", "unmigrate", "unmove"}
UnderLease == Renaming \cup {"query", "put", "complete", "consume", "drop", "save", "purge",
                             "archive"}

LeaseFits(p) ==
  tasks[p].step \in UnderLease =>
    /\ holder[tasks[p].at] = p
    /\ tasks[p].step \in Renaming => tasks[p].kind = "rename" /\ holder[tasks[p].other] = p

(* What an operation is about.                                              *)
TaskFits(p) ==
  LET t == tasks[p] IN
  /\ t.kind \in {"select", "panel", "panelRedeem", "save"} => t.by # None
  /\ t.step \in {"baseline", "publish", "details", "complete"} => t.kind = "select"
  /\ t.step \in {"put", "consume", "drop"} => t.by = owner[t.at]
  /\ t.step \in {"put", "enrich", "merge", "consume", "drop", "dropBound", "save"} => t.by # None
  /\ t.step \in {"migrate", "mark", "unmigrate", "unmove"} =>
       owner[t.at] = None /\ owner[t.other] # None
  /\ t.step \in {"details", "complete"} =>
       /\ t.base.entry # None /\ t.base.entry.by = t.by
       /\ t.seen.quota = t.base.entry.quota

(* A redemption that an attempt has made is in doubt.                       *)
ActedIsDoubted(p) == tasks[p].card.acted => tasks[p].card.doubt

(* Entries, and publications that may still write one, are at home; nothing *)
(* comes to an alias between the end of its entry and of its profile.       *)
EntryAtHome == \A a \in Alias : entries[a] # None => Home(entries[a].by, a)

Publishing(p) == At(p, "publish") /\ Unchanged(p)

PublishesAtHome(p) == Publishing(p) => Home(tasks[p].by, tasks[p].at)

Purged(p) ==
  At(p, "archive") =>
    /\ entries[tasks[p].at] = None
    /\ \A q \in Proc : tasks[q].at = tasks[p].at => ~Publishing(q)

(* What is on its way into the cache is no older than the redemptions that  *)
(* the cache was told of.                                                   *)
Reading(p) ==
  At(p, "put") => /\ tasks[p].seen.quota = used[tasks[p].by]
                  /\ tasks[p].seen.cards \in {NotRead, used[tasks[p].by]}

PublishesRecent(p) == Publishing(p) => tasks[p].seen.quota >= dropped[tasks[p].by]

MergesRecent(p) ==
  At(p, "merge") =>
    /\ tasks[p].seen.cards # NotRead
    /\ \A a \in Alias : Holds(a, tasks[p].by) /\ entries[a].rev = tasks[p].seen.rev =>
         tasks[p].seen.cards >= dropped[tasks[p].by]

DropsAreMade == \A x \in Account : dropped[x] <= used[x]

Control == /\ TypeOK /\ OneOwner
           /\ \A p \in Proc : LeaseFits(p) /\ TaskFits(p) /\ ActedIsDoubted(p)

Recent == /\ EntryAtHome /\ DropsAreMade /\ RedeemedNeverReturns
          /\ \A p \in Proc : /\ PublishesAtHome(p) /\ Purged(p)
                             /\ Reading(p) /\ PublishesRecent(p) /\ MergesRecent(p)

IInv == Control /\ Recent

----------------------------------------------------------------------------
(* Types and frames                                                         *)

USE UsageCacheConstants

LEMMA IdleIsTask == Idle \in Task /\ Unread \in Usage /\ NoBase \in Baseline /\ Unsent \in Redemption
<1>1. 0 \in Moment /\ 0 \in 0..(MaxRetries - 1)
  BY DEF Moment
<1>2. Unread \in Usage /\ NoBase \in Baseline /\ Unsent \in Redemption
  BY <1>1 DEF Unread, Usage, NoBase, Baseline, Unsent, Redemption
<1>3. SomeAlias \in Alias
  BY DEF SomeAlias
<1>4. "idle" \in Steps /\ "list" \in AllKinds
  BY DEF Steps, AllKinds, Kinds
<1> QED
  BY <1>2, <1>3, <1>4 DEF Idle, Task

(* A step of p leaves the other tasks alone.                                *)
Others(p) == \A q \in Proc : q # p => tasks'[q] = tasks[q]

Typed == tasks' \in [Proc -> Task]

LEMMA Becomes ==
  ASSUME TypeOK, NEW p \in Proc, NEW t \in Task, tasks' = [tasks EXCEPT ![p] = t]
  PROVE  Typed /\ Others(p) /\ tasks'[p] = t
BY DEF TypeOK, Typed, Others

LEMMA Goes ==
  ASSUME TypeOK, NEW p \in Proc, NEW s \in Steps, Goto(p, s)
  PROVE  Typed /\ Others(p) /\ tasks'[p] = [tasks[p] EXCEPT !.step = s]
<1>1. tasks[p] \in Task
  BY DEF TypeOK
<1>2. [tasks[p] EXCEPT !.step = s] \in Task
  BY <1>1 DEF Task
<1>3. tasks' = [tasks EXCEPT ![p] = [tasks[p] EXCEPT !.step = s]]
  BY DEF Goto, TypeOK
<1> QED
  BY <1>2, <1>3, Becomes

LEMMA Returns ==
  ASSUME TypeOK, NEW p \in Proc, Return(p)
  PROVE  /\ Typed /\ Others(p) /\ tasks'[p] = Idle
         /\ holder' = Released(p)
BY IdleIsTask, Becomes DEF Return

LEMMA ReleasedTyped ==
  ASSUME TypeOK, NEW p \in Proc
  PROVE  Released(p) \in [Alias -> Proc \cup {Nobody}]
BY DEF TypeOK, Released

LEMMA Entries ==
  ASSUME TypeOK, NEW a \in Alias, NEW e \in Entry \cup {None}, NEW r \in Stamp, Put(a, e, r)
  PROVE  /\ entries' \in [Alias -> Entry \cup {None}] /\ mutation' \in [Alias -> Stamp \cup {None}]
         /\ entries'[a] = e /\ mutation'[a] = r
         /\ \A b \in Alias : b # a => entries'[b] = entries[b] /\ mutation'[b] = mutation[b]
BY DEF TypeOK, Put

LEMMA EntryTyped ==
  ASSUME NEW x \in Account, NEW u \in Usage, NEW done \in BOOLEAN, NEW r \in Stamp
  PROVE  NewEntry(x, u, done, r) \in Entry /\ NewEntry(x, u, done, r) # None
BY DEF NewEntry, Usage, Entry

LEMMA FreshTyped == \A r : Fresh(r) => r \in Stamp
BY DEF Fresh

(* Scoring takes the entry over, or ends the selection.                     *)
LEMMA Scores ==
  ASSUME TypeOK, NEW p \in Proc, NEW b \in Baseline, b.entry # None, Score(p, b)
  PROVE  /\ Typed /\ Others(p) /\ holder' \in {holder, Released(p)}
         /\ \/ tasks'[p] = Idle /\ holder' = Released(p)
            \/ /\ tasks'[p] = [tasks[p] EXCEPT !.step = "details", !.base = b,
                                               !.seen = AsUsage(b.entry)]
               /\ holder' = holder
<1>1. CASE Return(p)
  BY <1>1, Returns
<1>2. CASE ~Return(p)
  <2>1. PICK t : t = [tasks[p] EXCEPT !.step = "details", !.base = b, !.seen = AsUsage(b.entry)]
    OBVIOUS
  <2>2. tasks' = [tasks EXCEPT ![p] = t] /\ holder' = holder
    BY <1>2, <2>1 DEF Score, TypeOK
  <2>3. tasks[p] \in Task /\ AsUsage(b.entry) \in Usage
    BY DEF TypeOK, Baseline, Entry, AsUsage, Usage
  <2>4. t \in Task
    BY <2>1, <2>3 DEF Task, Steps
  <2> QED
    BY <2>1, <2>2, <2>4, Becomes
<1> QED
  BY <1>1, <1>2

----------------------------------------------------------------------------
(* Leases and tasks                                                         *)

(* A step changes the owners under its own leases only, and takes none away *)
(* from others.                                                             *)
OwnLeases(p) ==
  \A a \in Alias : /\ owner'[a] # owner[a] => holder[a] = p
                   /\ \A q \in Proc : q # p /\ holder[a] = q => holder'[a] = q

LEMMA Keeps ==
  ASSUME TypeOK, NEW p \in Proc, UNCHANGED owner, holder' \in {holder, Released(p)}
  PROVE  OwnLeases(p)
BY DEF TypeOK, OwnLeases, Released

LEMMA ControlKept ==
  ASSUME Control, NEW p \in Proc, TypeOK', Others(p), OwnLeases(p), OneOwner',
         (LeaseFits(p) /\ TaskFits(p) /\ ActedIsDoubted(p))'
  PROVE  Control'
<1> SUFFICES ASSUME NEW q \in Proc, q # p
             PROVE  (LeaseFits(q) /\ TaskFits(q) /\ ActedIsDoubted(q))'
  BY DEF Control
<1>1. /\ tasks'[q] = tasks[q] /\ tasks[q].at \in Alias /\ tasks[q].other \in Alias
      /\ LeaseFits(q) /\ TaskFits(q) /\ ActedIsDoubted(q)
  BY DEF Others, Control, TypeOK, Task
<1>2. LeaseFits(q)'
  BY <1>1 DEF LeaseFits, OwnLeases, UnderLease
<1>3. tasks[q].step \in UnderLease => owner'[tasks[q].at] = owner[tasks[q].at]
  BY <1>1 DEF LeaseFits, OwnLeases
<1>4. tasks[q].step \in Renaming => owner'[tasks[q].other] = owner[tasks[q].other]
  BY <1>1 DEF LeaseFits, OwnLeases, UnderLease
<1>5. TaskFits(q)'
  BY <1>1, <1>3, <1>4 DEF TaskFits, UnderLease, Renaming
<1>6. ActedIsDoubted(q)'
  BY <1>1 DEF ActedIsDoubted, At
<1> QED
  BY <1>2, <1>5, <1>6

(* A task that returns has nothing left to fit.                             *)
LEMMA ReturnFits ==
  ASSUME Control, NEW p \in Proc, Return(p)
  PROVE  /\ (LeaseFits(p) /\ TaskFits(p) /\ ActedIsDoubted(p))'
         /\ Typed /\ Others(p) /\ holder' \in [Alias -> Proc \cup {Nobody}]
         /\ holder' = Released(p) /\ tasks'[p] = Idle
<1>1. /\ tasks'[p] = Idle /\ holder' = Released(p) /\ Typed /\ Others(p)
      /\ holder' \in [Alias -> Proc \cup {Nobody}]
  BY Returns, ReleasedTyped DEF Control
<1>2. Idle.step = "idle" /\ Idle.kind = "list" /\ ~Idle.card.acted
  BY DEF Idle, Unsent
<1> QED
  BY <1>1, <1>2 DEF LeaseFits, TaskFits, ActedIsDoubted, At, UnderLease, Renaming

LEMMA ReturnControl ==
  ASSUME Control, NEW p \in Proc, Return(p), UNCHANGED owner,
         entries' \in [Alias -> Entry \cup {None}], mutation' \in [Alias -> Stamp \cup {None}],
         used' \in [Account -> Moment], dropped' \in [Account -> Moment], UNCHANGED started
  PROVE  Control'
<1>1. TypeOK'
  BY ReturnFits DEF Control, TypeOK, Typed
<1> QED
  BY <1>1, ReturnFits, Keeps, ControlKept DEF Control, OneOwner

(* A task that goes on keeps its aliases, and its leases or needs none.     *)
LEMMA GoesOn ==
  ASSUME Control, NEW p \in Proc, NEW t \in Task, tasks' = [tasks EXCEPT ![p] = t],
         UNCHANGED <<owner, started>>, holder' \in {holder, Released(p)},
         entries' \in [Alias -> Entry \cup {None}], mutation' \in [Alias -> Stamp \cup {None}],
         used' \in [Account -> Moment], dropped' \in [Account -> Moment],
         t.at = tasks[p].at, t.other = tasks[p].other,
         t.step \in UnderLease =>
           /\ holder' = holder /\ tasks[p].step \in UnderLease
           /\ t.step \in Renaming => tasks[p].step \in Renaming /\ t.kind = tasks[p].kind,
         (TaskFits(p) /\ ActedIsDoubted(p))'
  PROVE  Control' /\ Others(p) /\ tasks'[p] = t
<1>1. Typed /\ Others(p) /\ tasks'[p] = t
  BY Becomes DEF Control
<1>2. TypeOK'
  BY <1>1, ReleasedTyped DEF Control, TypeOK, Typed
<1>3. LeaseFits(p)'
  BY <1>1 DEF Control, LeaseFits
<1> QED
  BY <1>1, <1>2, <1>3, Keeps, ControlKept DEF Control, OneOwner

LEMMA LeaseTaken ==
  ASSUME Control, NEW p \in Proc, TakeLease(p), UNCHANGED started
  PROVE  Control' /\ Others(p) /\ tasks'[p] = [tasks[p] EXCEPT !.step = FirstStep(p)]
<1>1. tasks[p] \in Task /\ FirstStep(p) \in Steps /\ FirstStep(p) \in UnderLease
  BY DEF Control, TypeOK, FirstStep, Steps, UnderLease, Renaming
<1>2. Typed /\ Others(p) /\ tasks'[p] = [tasks[p] EXCEPT !.step = FirstStep(p)]
  BY <1>1, Goes DEF TakeLease, Control
<1>3. /\ tasks'[p].step = FirstStep(p) /\ tasks'[p].at = tasks[p].at
      /\ tasks'[p].other = tasks[p].other /\ tasks'[p].kind = tasks[p].kind
      /\ tasks'[p].by = tasks[p].by /\ tasks'[p].base = tasks[p].base
      /\ tasks'[p].seen = tasks[p].seen /\ tasks'[p].card = tasks[p].card
  BY <1>1, <1>2 DEF Task
<1>4. /\ UNCHANGED <<owner, cache, used, dropped>>
      /\ holder' = [a \in Alias |-> IF a \in Needed(p) THEN p ELSE holder[a]]
      /\ \A a \in Needed(p) : holder[a] = Nobody
      /\ tasks[p].step \in {"lease", "details"}
  BY DEF TakeLease
<1>5. TypeOK'
  BY <1>2, <1>4 DEF Control, TypeOK, Typed, cache
<1>6. OwnLeases(p)
  BY <1>4 DEF OwnLeases
<1>7. FirstStep(p) \in Renaming => FirstStep(p) = "move" /\ tasks[p].kind = "rename"
  BY DEF FirstStep, Renaming
<1>8. LeaseFits(p)'
  BY <1>1, <1>3, <1>4, <1>7 DEF LeaseFits, Needed, Task
<1>9. TaskFits(p) /\ ActedIsDoubted(p)
  BY DEF Control
<1>10. TaskFits(p)' /\ ActedIsDoubted(p)'
  <2>1. FirstStep(p) \in {"complete", "save", "move", "purge", "query"}
    BY DEF FirstStep
  <2>2. FirstStep(p) = "complete" <=> tasks[p].step = "details"
    <3>1. CASE tasks[p].step = "details"
      <4>1. tasks[p].kind = "select"
        BY <1>9, <3>1 DEF TaskFits
      <4> QED
        BY <3>1, <4>1 DEF FirstStep, At
    <3>2. CASE tasks[p].step # "details"
      BY <3>2 DEF FirstStep, At
    <3> QED
      BY <3>1, <3>2
  <2>3. FirstStep(p) = "save" => tasks[p].kind = "save"
    BY DEF FirstStep
  <2> QED
    BY <1>3, <1>4, <1>9, <2>1, <2>2, <2>3 DEF TaskFits, ActedIsDoubted, At
<1> QED
  BY <1>2, <1>5, <1>6, <1>8, <1>10, <1>4, ControlKept DEF OneOwner, Control

(* What each step makes of its task.                                        *)
Idles(p) == tasks'[p] = Idle

LEMMA Queried ==
  ASSUME Control, NEW p \in Proc, Query(p), UNCHANGED started
  PROVE  /\ Control' /\ Others(p)
         /\ Idles(p) \/ tasks'[p].step \in {"publish", "put"}
         /\ tasks'[p].step \in {"publish", "put"} =>
              /\ tasks'[p].at = tasks[p].at /\ tasks'[p].by = owner[tasks[p].at]
              /\ tasks'[p].by # None /\ tasks'[p].seen.quota = used[tasks'[p].by]
              /\ tasks'[p].seen.cards \in {NotRead, used[tasks'[p].by]}
<1>1. PICK x : x = owner[tasks[p].at]
  OBVIOUS
<1>2. /\ tasks[p] \in Task /\ tasks[p].at \in Alias /\ x \in Account \cup {None}
      /\ At(p, "query") /\ tasks[p].step = "query" /\ UNCHANGED <<owner, cache, used, dropped>>
      /\ TaskFits(p) /\ ActedIsDoubted(p)
  BY <1>1 DEF Query, Control, TypeOK, Task, At
<1>3. CASE Return(p)
  BY <1>2, <1>3, ReturnControl, ReturnFits DEF Control, TypeOK, cache, Idles, Idle
<1>4. CASE ~Return(p)
  <2>1. Verified(p) /\ x # None /\ x \in Account /\ tasks[p].by \in {None, x}
    BY <1>1, <1>2, <1>4 DEF Query, Verified
  <2>2. PICK u : u = Answer(p, x)
    OBVIOUS
  <2>3. u \in Usage /\ u.quota = used[x] /\ u.cards \in {NotRead, used[x]}
    BY <2>1, <2>2 DEF Answer, Control, TypeOK, Usage
  <2>4. CASE tasks[p].kind = "select"
    <3>1. PICK t : t = [tasks[p] EXCEPT !.step = "publish", !.seen = u]
      OBVIOUS
    <3>2. tasks' = [tasks EXCEPT ![p] = t] /\ holder' = Released(p)
      BY <1>1, <1>2, <2>1, <2>2, <2>4, <3>1 DEF Query, Control, TypeOK
    <3>3. t \in Task
      BY <1>2, <2>3, <3>1 DEF Task, Steps
    <3>4. /\ t.step = "publish" /\ t.at = tasks[p].at /\ t.other = tasks[p].other
          /\ t.card = tasks[p].card /\ t.by = tasks[p].by /\ t.seen = u /\ t.kind = "select"
      BY <1>2, <2>4, <3>1 DEF Task
    <3>5. tasks[p].by = x
      BY <1>2, <2>1, <2>4 DEF TaskFits
    <3>6. tasks'[p] = t
      BY <3>2, <3>3, Becomes DEF Control
    <3>7. (TaskFits(p) /\ ActedIsDoubted(p))'
      BY <1>2, <2>1, <3>4, <3>5, <3>6 DEF TaskFits, ActedIsDoubted, At
    <3>8. t.step \notin UnderLease
      BY <3>4 DEF UnderLease, Renaming
    <3>9. Control' /\ Others(p)
      BY <1>2, <3>2, <3>3, <3>4, <3>7, <3>8, GoesOn DEF Control, TypeOK, cache
    <3> QED
      BY <1>1, <2>1, <2>3, <3>4, <3>5, <3>6, <3>9
  <2>5. CASE tasks[p].kind # "select"
    <3>1. PICK t : t = [tasks[p] EXCEPT !.step = "put", !.by = x, !.seen = u]
      OBVIOUS
    <3>2. tasks' = [tasks EXCEPT ![p] = t] /\ holder' = holder
      BY <1>1, <1>2, <2>1, <2>2, <2>5, <3>1 DEF Query, Identity, Control, TypeOK
    <3>3. t \in Task
      BY <1>2, <2>1, <2>3, <3>1 DEF Task, Steps
    <3>4. /\ t.step = "put" /\ t.at = tasks[p].at /\ t.other = tasks[p].other
          /\ t.card = tasks[p].card /\ t.by = x /\ t.seen = u /\ t.kind = tasks[p].kind
      BY <1>2, <3>1 DEF Task
    <3>6. tasks'[p] = t
      BY <3>2, <3>3, Becomes DEF Control
    <3>7. (TaskFits(p) /\ ActedIsDoubted(p))'
      BY <1>1, <1>2, <2>1, <3>4, <3>6 DEF TaskFits, ActedIsDoubted, At
    <3>8. t.step \notin Renaming /\ tasks[p].step \in UnderLease
      BY <1>2, <3>4 DEF UnderLease, Renaming
    <3>9. Control' /\ Others(p)
      BY <1>2, <3>2, <3>3, <3>4, <3>7, <3>8, GoesOn DEF Control, TypeOK, cache
    <3> QED
      BY <1>1, <2>1, <2>3, <3>4, <3>6, <3>9
  <2> QED
    BY <2>4, <2>5
<1> QED
  BY <1>3, <1>4

(* A step that only goes on to the next.                                    *)
LEMMA GoesOnTo ==
  ASSUME Control, NEW p \in Proc, NEW s \in Steps, Goto(p, s),
         UNCHANGED <<owner, started>>, holder' = holder,
         entries' \in [Alias -> Entry \cup {None}], mutation' \in [Alias -> Stamp \cup {None}],
         used' \in [Account -> Moment], dropped' \in [Account -> Moment],
         s \in UnderLease =>
           /\ tasks[p].step \in UnderLease
           /\ s \in Renaming => tasks[p].step \in Renaming,
         (TaskFits(p) /\ ActedIsDoubted(p))'
  PROVE  Control' /\ Others(p) /\ tasks'[p] = [tasks[p] EXCEPT !.step = s]
<1>1. PICK t : t = [tasks[p] EXCEPT !.step = s]
  OBVIOUS
<1>2. tasks[p] \in Task
  BY DEF Control, TypeOK
<1>3. t \in Task /\ t.at = tasks[p].at /\ t.other = tasks[p].other /\ t.kind = tasks[p].kind
      /\ t.step = s
  BY <1>1, <1>2 DEF Task
<1>4. tasks' = [tasks EXCEPT ![p] = t]
  BY <1>1 DEF Goto, Control, TypeOK
<1> QED
  BY <1>1, <1>3, <1>4, GoesOn

LEMMA Fields ==
  ASSUME TypeOK, NEW p \in Proc, NEW s \in Steps, Goto(p, s)
  PROVE  /\ tasks'[p].step = s /\ tasks'[p].at = tasks[p].at
         /\ tasks'[p].other = tasks[p].other /\ tasks'[p].kind = tasks[p].kind
         /\ tasks'[p].by = tasks[p].by /\ tasks'[p].base = tasks[p].base
         /\ tasks'[p].seen = tasks[p].seen /\ tasks'[p].card = tasks[p].card
<1>1. PICK t : t = tasks[p]
  OBVIOUS
<1>2. t \in Task /\ tasks'[p] = [t EXCEPT !.step = s]
  BY <1>1, Goes DEF TypeOK
<1> QED
  BY <1>1, <1>2 DEF Task

LEMMA Stored ==
  ASSUME Control, NEW p \in Proc, Store(p), UNCHANGED started
  PROVE  /\ Control' /\ Others(p)
         /\ tasks'[p].step \in {"idle", "enrich", "consume"}
<1>1. PICK x : x = tasks[p]
  OBVIOUS
<1>2. /\ x \in Task /\ x.at \in Alias /\ x.by \in Account /\ x.step = "put" /\ x.seen \in Usage
      /\ UNCHANGED <<owner, used, dropped>> /\ TaskFits(p)
  BY <1>1 DEF Store, Control, TypeOK, Task, At, TaskFits
<1>3. x.by = owner[x.at]
  BY <1>1, <1>2 DEF TaskFits
<1>4. used' \in [Account -> Moment] /\ dropped' \in [Account -> Moment]
  BY <1>2 DEF Control, TypeOK
<1>5. ASSUME Goto(p, "consume"), holder' = holder, entries' \in [Alias -> Entry \cup {None}],
             mutation' \in [Alias -> Stamp \cup {None}], x.kind \in {"redeem", "panelRedeem"}
      PROVE  Control' /\ Others(p) /\ tasks'[p].step \in {"idle", "enrich", "consume"}
  <2>1. "consume" \in Steps /\ "consume" \in UnderLease \ Renaming /\ "put" \in UnderLease
    BY DEF Steps, UnderLease, Renaming
  <2>2. tasks'[p].step = "consume" /\ tasks'[p].by = x.by /\ tasks'[p].at = x.at
        /\ tasks'[p].kind = x.kind /\ tasks'[p].card = x.card
    BY <1>1, <1>5, <2>1, Fields DEF Control
  <2>3. TaskFits(p)'
    BY <1>2, <1>3, <1>5, <2>2 DEF TaskFits
  <2>4. ActedIsDoubted(p)'
    BY <1>1, <2>2 DEF Control, ActedIsDoubted
  <2> QED
    BY <1>1, <1>2, <1>4, <1>5, <2>1, <2>2, <2>3, <2>4, GoesOnTo
<1>6. ASSUME NEW r \in Stamp, Put(x.at, NewEntry(x.by, x.seen, TRUE, r), r),
             x.kind = "panel", holder' = Released(p),
             tasks' = [tasks EXCEPT ![p].step = "enrich", ![p].seen.rev = r]
      PROVE  Control' /\ Others(p) /\ tasks'[p].step \in {"idle", "enrich", "consume"}
  <2>1. PICK t : t = [x EXCEPT !.step = "enrich", !.seen.rev = r]
    OBVIOUS
  <2>2. tasks' = [tasks EXCEPT ![p] = t]
    BY <1>1, <1>2, <1>6, <2>1 DEF Control, TypeOK, Task, Usage
  <2>3. [x.seen EXCEPT !.rev = r] \in Usage
    BY <1>2 DEF Usage
  <2>4. t \in Task /\ t.step = "enrich" /\ t.at = x.at /\ t.other = x.other /\ t.by = x.by
        /\ t.kind = x.kind /\ t.card = x.card
    BY <1>2, <2>1, <2>3 DEF Task, Steps
  <2>5. tasks'[p] = t
    BY <2>2, <2>4, Becomes DEF Control
  <2>6. TaskFits(p)' /\ ActedIsDoubted(p)'
    BY <1>1, <1>2, <2>4, <2>5 DEF TaskFits, ActedIsDoubted, Control
  <2>7. t.step \notin UnderLease
    BY <2>4 DEF UnderLease, Renaming
  <2>8. entries' \in [Alias -> Entry \cup {None}] /\ mutation' \in [Alias -> Stamp \cup {None}]
    BY <1>2, <1>6, EntryTyped, Entries DEF Control
  <2> QED
    BY <1>1, <1>2, <1>4, <1>6, <2>2, <2>4, <2>5, <2>6, <2>7, <2>8, GoesOn
<1>7. ASSUME Return(p), entries' \in [Alias -> Entry \cup {None}],
             mutation' \in [Alias -> Stamp \cup {None}]
      PROVE  Control' /\ Others(p) /\ tasks'[p].step \in {"idle", "enrich", "consume"}
  BY <1>2, <1>4, <1>7, ReturnControl, ReturnFits DEF Idle
<1>8. CASE \E r \in Stamp :
             /\ Fresh(r)
             /\ Put(x.at, NewEntry(x.by, x.seen, TRUE, r), r)
             /\ CASE x.kind = "panel" ->
                       /\ tasks' = [tasks EXCEPT ![p].step = "enrich", ![p].seen.rev = r]
                       /\ holder' = Released(p)
                  [] x.kind \in {"redeem", "panelRedeem"} ->
                       Goto(p, "consume") /\ UNCHANGED holder
                  [] OTHER -> Return(p)
  <2>1. PICK r \in Stamp :
             /\ Put(x.at, NewEntry(x.by, x.seen, TRUE, r), r)
             /\ CASE x.kind = "panel" ->
                       /\ tasks' = [tasks EXCEPT ![p].step = "enrich", ![p].seen.rev = r]
                       /\ holder' = Released(p)
                  [] x.kind \in {"redeem", "panelRedeem"} ->
                       Goto(p, "consume") /\ UNCHANGED holder
                  [] OTHER -> Return(p)
    BY <1>8
  <2>2. entries' \in [Alias -> Entry \cup {None}] /\ mutation' \in [Alias -> Stamp \cup {None}]
    BY <1>2, <2>1, EntryTyped, Entries DEF Control
  <2>3. CASE x.kind = "panel"
    BY <1>6, <2>1, <2>3
  <2>4. CASE x.kind \in {"redeem", "panelRedeem"}
    BY <1>5, <2>1, <2>2, <2>4
  <2>5. CASE x.kind \notin {"panel", "redeem", "panelRedeem"}
    BY <1>7, <2>1, <2>2, <2>5
  <2> QED
    BY <2>3, <2>4, <2>5
<1>9. CASE /\ x.kind \in {"redeem", "panelRedeem"}
           /\ Goto(p, "consume")
           /\ UNCHANGED <<holder, cache>>
  BY <1>5, <1>9 DEF Control, TypeOK, cache
<1> QED
  BY <1>1, <1>8, <1>9 DEF Store


LEMMA Scored ==
  ASSUME Control, NEW p \in Proc, NEW b \in Baseline, b.entry # None,
         b.entry.by = tasks[p].by, tasks[p].kind = "select", Score(p, b),
         UNCHANGED <<owner, started>>,
         entries' \in [Alias -> Entry \cup {None}], mutation' \in [Alias -> Stamp \cup {None}],
         used' \in [Account -> Moment], dropped' \in [Account -> Moment]
  PROVE  /\ Control' /\ Others(p)
         /\ tasks'[p].step \in {"idle", "details"}
<1>1. CASE Return(p)
  BY <1>1, ReturnControl, ReturnFits DEF Idle
<1>2. CASE ~Return(p)
  <2>1. PICK x : x = tasks[p]
    OBVIOUS
  <2>2. PICK t : t = [x EXCEPT !.step = "details", !.base = b, !.seen = AsUsage(b.entry)]
    OBVIOUS
  <2>3. tasks' = [tasks EXCEPT ![p] = t] /\ holder' = holder
    BY <1>2, <2>1, <2>2 DEF Score, TypeOK, Control
  <2>4. x \in Task /\ AsUsage(b.entry) \in Usage /\ AsUsage(b.entry).quota = b.entry.quota
    BY <2>1 DEF Control, TypeOK, Baseline, Entry, AsUsage, Usage
  <2>5. /\ t \in Task /\ t.step = "details" /\ t.at = x.at /\ t.other = x.other /\ t.by = x.by
        /\ t.kind = "select" /\ t.card = x.card /\ t.base = b /\ t.seen = AsUsage(b.entry)
    BY <2>1, <2>2, <2>4 DEF Task, Steps
  <2>6. tasks'[p] = t
    BY <2>3, <2>5, Becomes DEF Control
  <2>7. TaskFits(p)' /\ ActedIsDoubted(p)'
    BY <2>1, <2>4, <2>5, <2>6 DEF TaskFits, ActedIsDoubted, Control
  <2>8. t.step \notin UnderLease
    BY <2>5 DEF UnderLease, Renaming
  <2>9. Control' /\ Others(p)
    BY <2>1, <2>3, <2>5, <2>7, <2>8, GoesOn
  <2> QED
    BY <2>5, <2>6, <2>9
<1> QED
  BY <1>1, <1>2

LEMMA SnapshotTyped ==
  ASSUME TypeOK, NEW a \in Alias
  PROVE  /\ Snapshot(a) \in Baseline
         /\ Snapshot(a).entry = entries[a] /\ Snapshot(a).mutation = mutation[a]
BY DEF TypeOK, Snapshot, Baseline

LEMMA BaselineTaken ==
  ASSUME Control, NEW p \in Proc, TakeBaseline(p), UNCHANGED started
  PROVE  /\ Control' /\ Others(p)
         /\ tasks'[p].step \in {"idle", "details", "lease"}
<1>1. PICK x : x = tasks[p]
  OBVIOUS
<1>2. /\ x \in Task /\ x.at \in Alias /\ x.step = "baseline" /\ x.kind = "select"
      /\ UNCHANGED <<owner, cache, used, dropped>>
  BY <1>1 DEF TakeBaseline, Control, TypeOK, Task, At, TaskFits
<1>3. PICK b \in Baseline : /\ b = Snapshot(x.at) /\ b.entry = entries[x.at]
  BY <1>2, SnapshotTyped DEF Control
<1>4. /\ entries' \in [Alias -> Entry \cup {None}] /\ mutation' \in [Alias -> Stamp \cup {None}]
      /\ used' \in [Account -> Moment] /\ dropped' \in [Account -> Moment]
  BY <1>2 DEF Control, TypeOK, cache
<1>5. CASE Holds(x.at, x.by) /\ Score(p, b)
  BY <1>1, <1>2, <1>3, <1>4, <1>5, Scored DEF Holds
<1>6. CASE /\ tasks' = [tasks EXCEPT ![p].step = "lease", ![p].base = b]
           /\ UNCHANGED holder
  <2>1. PICK t : t = [x EXCEPT !.step = "lease", !.base = b]
    OBVIOUS
  <2>2. tasks' = [tasks EXCEPT ![p] = t]
    BY <1>1, <1>6, <2>1 DEF Control, TypeOK
  <2>3. /\ t \in Task /\ t.step = "lease" /\ t.at = x.at /\ t.other = x.other /\ t.by = x.by
        /\ t.kind = "select" /\ t.card = x.card
    BY <1>2, <2>1 DEF Task, Steps
  <2>4. tasks'[p] = t
    BY <2>2, <2>3, Becomes DEF Control
  <2>5. TaskFits(p)' /\ ActedIsDoubted(p)'
    BY <1>1, <1>2, <2>3, <2>4 DEF TaskFits, ActedIsDoubted, Control
  <2>6. t.step \notin UnderLease
    BY <2>3 DEF UnderLease, Renaming
  <2>7. Control' /\ Others(p)
    BY <1>1, <1>2, <1>4, <1>6, <2>2, <2>3, <2>5, <2>6, GoesOn
  <2> QED
    BY <2>3, <2>4, <2>7
<1> QED
  BY <1>1, <1>3, <1>5, <1>6 DEF TakeBaseline

(* What a publication writes.                                               *)
LEMMA QuotaOnlyTyped ==
  ASSUME TypeOK, NEW p \in Proc, tasks[p].by \in Account, NEW r \in Stamp
  PROVE  /\ QuotaOnly(p, r) \in Entry /\ QuotaOnly(p, r) # None
         /\ QuotaOnly(p, r).by = tasks[p].by /\ QuotaOnly(p, r).rev = r
         /\ QuotaOnly(p, r).quota = tasks[p].seen.quota
         /\ QuotaOnly(p, r).cards # NotRead =>
              /\ Holds(tasks[p].at, tasks[p].by)
              /\ QuotaOnly(p, r).cards = entries[tasks[p].at].cards
<1>1. PICK t : t = tasks[p]
  OBVIOUS
<1>2. t \in Task /\ t.at \in Alias /\ t.seen \in Usage /\ t.by \in Account
  BY <1>1 DEF TypeOK, Task
<1>3. PICK c : c = IF Holds(t.at, t.by) THEN entries[t.at].cards ELSE NotRead
  OBVIOUS
<1>4. PICK done : done = IF Holds(t.at, t.by) THEN entries[t.at].complete ELSE FALSE
  OBVIOUS
<1>5. c \in Moment \cup {NotRead} /\ done \in BOOLEAN
  BY <1>2, <1>3, <1>4 DEF TypeOK, Holds, Entry
<1>6. PICK u : u = [t.seen EXCEPT !.cards = c]
  OBVIOUS
<1>7. u \in Usage /\ u.cards = c /\ u.quota = t.seen.quota
  BY <1>2, <1>5, <1>6 DEF Usage
<1>8. QuotaOnly(p, r) = NewEntry(t.by, u, done, r)
  BY <1>1, <1>3, <1>4, <1>6 DEF QuotaOnly
<1>9. NewEntry(t.by, u, done, r) \in Entry /\ NewEntry(t.by, u, done, r) # None
  BY <1>2, <1>5, <1>7, EntryTyped
<1>10. /\ NewEntry(t.by, u, done, r).by = t.by /\ NewEntry(t.by, u, done, r).rev = r
       /\ NewEntry(t.by, u, done, r).quota = u.quota /\ NewEntry(t.by, u, done, r).cards = u.cards
  BY DEF NewEntry
<1> QED
  BY <1>1, <1>3, <1>7, <1>8, <1>9, <1>10

LEMMA Published ==
  ASSUME Control, NEW p \in Proc, Publish(p), UNCHANGED started
  PROVE  /\ Control' /\ Others(p)
         /\ tasks'[p].step \in {"idle", "details"}
<1>1. PICK x : x = tasks[p]
  OBVIOUS
<1>2. /\ x \in Task /\ x.at \in Alias /\ x.kind = "select" /\ x.by \in Account
      /\ UNCHANGED <<owner, used, dropped>>
  BY <1>1 DEF Publish, Control, TypeOK, Task, At, TaskFits
<1>4. used' \in [Account -> Moment] /\ dropped' \in [Account -> Moment]
  BY <1>2 DEF Control, TypeOK
<1>5. CASE Unchanged(p)
  <2>1. PICK r \in Stamp : LET e == QuotaOnly(p, r) IN
                             /\ Fresh(r)
                             /\ Put(tasks[p].at, e, r)
                             /\ Score(p, [entry |-> e, mutation |-> r])
    BY <1>5 DEF Publish, Overtaken
  <2>2. PICK e : e = QuotaOnly(p, r)
    OBVIOUS
  <2>3. e \in Entry /\ e # None /\ e.by = x.by
    BY <1>1, <1>2, <2>2, QuotaOnlyTyped DEF Control
  <2>4. PICK b : b = [entry |-> e, mutation |-> r]
    OBVIOUS
  <2>5. b \in Baseline /\ b.entry = e
    BY <2>3, <2>4 DEF Baseline
  <2>6. entries' \in [Alias -> Entry \cup {None}] /\ mutation' \in [Alias -> Stamp \cup {None}]
    BY <1>1, <1>2, <2>1, <2>2, <2>3, Entries DEF Control
  <2> QED
    BY <1>1, <1>2, <1>4, <2>1, <2>2, <2>3, <2>4, <2>5, <2>6, Scored
<1>6. CASE ~Unchanged(p)
  <2>1. UNCHANGED cache
    BY <1>6 DEF Publish
  <2>2. entries' \in [Alias -> Entry \cup {None}] /\ mutation' \in [Alias -> Stamp \cup {None}]
    BY <2>1 DEF Control, TypeOK, cache
  <2>3. CASE Overtaken(p)
    <3>1. Score(p, Snapshot(x.at)) /\ Holds(x.at, x.by)
      BY <1>1, <1>6, <2>3 DEF Publish, Overtaken
    <3>2. PICK b \in Baseline : b = Snapshot(x.at) /\ b.entry = entries[x.at]
      BY <1>2, SnapshotTyped DEF Control
    <3> QED
      BY <1>1, <1>2, <1>4, <2>2, <3>1, <3>2, Scored DEF Holds
  <2>4. CASE ~Overtaken(p)
    <3>1. Return(p)
      BY <1>6, <2>4 DEF Publish
    <3> QED
      BY <1>2, <1>4, <2>2, <3>1, ReturnControl, ReturnFits DEF Idle
  <2> QED
    BY <2>3, <2>4
<1> QED
  BY <1>5, <1>6

(* What returns: the cards published, merged, or given up.                  *)
LEMMA Completed ==
  ASSUME Control, NEW p \in Proc, Complete(p), UNCHANGED started
  PROVE  Control' /\ Others(p) /\ tasks'[p].step = "idle"
<1>1. PICK x : x = tasks[p]
  OBVIOUS
<1>2. /\ x \in Task /\ x.at \in Alias /\ x.kind = "select" /\ x.by \in Account
      /\ UNCHANGED <<owner, used, dropped>> /\ Return(p)
  BY <1>1 DEF Complete, Control, TypeOK, Task, At, TaskFits
<1>3. used' \in [Account -> Moment] /\ dropped' \in [Account -> Moment]
  BY <1>2 DEF Control, TypeOK
<1>4. entries' \in [Alias -> Entry \cup {None}] /\ mutation' \in [Alias -> Stamp \cup {None}]
  <2>1. CASE UNCHANGED cache
    BY <2>1 DEF Control, TypeOK, cache
  <2>2. CASE ~UNCHANGED cache
    <3>1. PICK u : u = [x.seen EXCEPT !.cards = used[x.by]]
      OBVIOUS
    <3>2. u \in Usage
      BY <1>2, <3>1 DEF Task, Usage, Control, TypeOK
    <3>3. PICK r \in Stamp : Put(x.at, NewEntry(x.by, u, TRUE, r), r)
      BY <1>1, <2>2, <3>1 DEF Complete
    <3> QED
      BY <1>2, <3>2, <3>3, EntryTyped, Entries DEF Control
  <2> QED
    BY <2>1, <2>2
<1> QED
  BY <1>2, <1>3, <1>4, ReturnControl, ReturnFits DEF Idle

LEMMA MergedTyped ==
  ASSUME TypeOK, NEW p \in Proc, At(p, "merge"), Mergeable(p), tasks[p].by \in Account,
         NEW e, e = [entries[tasks[p].at] EXCEPT !.cards = tasks[p].seen.cards,
                                                 !.complete = TRUE]
  PROVE  /\ e \in Entry /\ e # None /\ e.by = tasks[p].by /\ e.rev = entries[tasks[p].at].rev
         /\ e.quota = entries[tasks[p].at].quota /\ e.cards = tasks[p].seen.cards
<1>1. PICK f : f = entries[tasks[p].at]
  OBVIOUS
<1>2. f \in Entry /\ f.by = tasks[p].by
  BY <1>1 DEF Mergeable, Holds, TypeOK, Task
<1>3. tasks[p].seen.cards \in Moment \cup {NotRead}
  BY DEF TypeOK, Task, Usage
<1> QED
  BY <1>1, <1>2, <1>3 DEF Entry

LEMMA Merged ==
  ASSUME Control, NEW p \in Proc, Merge(p), UNCHANGED started
  PROVE  Control' /\ Others(p) /\ tasks'[p].step = "idle"
<1>2. /\ tasks[p] \in Task /\ tasks[p].at \in Alias /\ tasks[p].by \in Account
      /\ UNCHANGED <<owner, used, dropped>> /\ Return(p) /\ At(p, "merge")
  BY DEF Merge, Control, TypeOK, Task, At, TaskFits
<1>3. used' \in [Account -> Moment] /\ dropped' \in [Account -> Moment]
  BY <1>2 DEF Control, TypeOK
<1>4. entries' \in [Alias -> Entry \cup {None}] /\ mutation' \in [Alias -> Stamp \cup {None}]
  <2>1. CASE UNCHANGED cache
    BY <2>1 DEF Control, TypeOK, cache
  <2>2. CASE ~UNCHANGED cache
    <3>1. PICK e : e = [entries[tasks[p].at] EXCEPT !.cards = tasks[p].seen.cards,
                                                    !.complete = TRUE]
      OBVIOUS
    <3>2. Mergeable(p)
      BY <2>2 DEF Merge
    <3>3. PICK r \in Stamp : Put(tasks[p].at, e, r)
      BY <2>2, <3>1 DEF Merge
    <3>4. e \in Entry
      BY <1>2, <3>1, <3>2, MergedTyped DEF Control
    <3> QED
      BY <1>2, <3>3, <3>4, Entries DEF Control
  <2> QED
    BY <2>1, <2>2
<1> QED
  BY <1>2, <1>3, <1>4, ReturnControl, ReturnFits DEF Idle

LEMMA GivenUp ==
  ASSUME Control, NEW p \in Proc, GiveUp(p) \/ Hit(p), UNCHANGED started
  PROVE  Control' /\ Others(p) /\ tasks'[p].step = "idle"
BY ReturnControl, ReturnFits DEF GiveUp, Hit, Control, TypeOK, cache, Idle

LEMMA Enriched ==
  ASSUME Control, NEW p \in Proc, Enrich(p), UNCHANGED started
  PROVE  /\ Control' /\ Others(p) /\ tasks'[p].step = "merge"
         /\ tasks'[p].by = tasks[p].by /\ tasks[p].by \in Account
         /\ tasks'[p].seen.cards = used[tasks[p].by]
<1>1. PICK x : x = tasks[p]
  OBVIOUS
<1>2. /\ x \in Task /\ x.at \in Alias /\ x.by \in Account /\ x.step = "enrich"
      /\ UNCHANGED <<owner, holder, cache, used, dropped>>
  BY <1>1 DEF Enrich, Control, TypeOK, Task, At, TaskFits
<1>3. /\ entries' \in [Alias -> Entry \cup {None}] /\ mutation' \in [Alias -> Stamp \cup {None}]
      /\ used' \in [Account -> Moment] /\ dropped' \in [Account -> Moment]
  BY <1>2 DEF Control, TypeOK, cache
<1>4. PICK t : t = [x EXCEPT !.step = "merge", !.seen.cards = used[x.by]]
  OBVIOUS
<1>5. tasks' = [tasks EXCEPT ![p] = t]
  BY <1>1, <1>2, <1>4 DEF Enrich, Control, TypeOK, Task, Usage
<1>6. PICK u : u = [x.seen EXCEPT !.cards = used[x.by]]
  OBVIOUS
<1>7. u \in Usage /\ u.cards = used[x.by]
  BY <1>2, <1>6 DEF Task, Usage, Control, TypeOK
<1>8. t = [x EXCEPT !.step = "merge", !.seen = u]
  BY <1>2, <1>4, <1>6 DEF Task, Usage
<1>9. /\ t \in Task /\ t.step = "merge" /\ t.at = x.at /\ t.other = x.other /\ t.by = x.by
      /\ t.kind = x.kind /\ t.card = x.card /\ t.seen = u
  BY <1>2, <1>7, <1>8 DEF Task, Steps
<1>10. tasks'[p] = t
  BY <1>5, <1>9, Becomes DEF Control
<1>11. TaskFits(p)' /\ ActedIsDoubted(p)'
  BY <1>1, <1>2, <1>9, <1>10 DEF TaskFits, ActedIsDoubted, Control
<1>12. t.step \notin UnderLease
  BY <1>9 DEF UnderLease, Renaming
<1>13. Control' /\ Others(p)
  BY <1>1, <1>2, <1>3, <1>5, <1>9, <1>11, <1>12, GoesOn
<1> QED
  BY <1>1, <1>2, <1>7, <1>9, <1>10, <1>13

(* Attempts at a redemption. *)
CardGood(c) == c.acted => c.doubt

LEMMA CardGoesOn ==
  ASSUME Control, NEW p \in Proc, At(p, "consume"), NEW s \in {"consume", "drop", "dropBound"},
         NEW c \in Redemption, CardGood(c),
         tasks' = [tasks EXCEPT ![p].step = s, ![p].card = c],
         holder' \in {holder, Released(p)}, s # "dropBound" => holder' = holder,
         UNCHANGED <<owner, cache, dropped, started>>, used' \in [Account -> Moment]
  PROVE  Control' /\ Others(p) /\ tasks'[p].step = s
<1>1. PICK x : x = tasks[p]
  OBVIOUS
<1>2. /\ x \in Task /\ x.at \in Alias /\ x.by \in Account /\ x.step = "consume"
      /\ x.by = owner[x.at]
  BY <1>1 DEF Control, TypeOK, Task, At, TaskFits
<1>3. /\ entries' \in [Alias -> Entry \cup {None}] /\ mutation' \in [Alias -> Stamp \cup {None}]
      /\ dropped' \in [Account -> Moment]
  BY DEF Control, TypeOK, cache
<1>4. PICK t : t = [x EXCEPT !.step = s, !.card = c]
  OBVIOUS
<1>5. tasks' = [tasks EXCEPT ![p] = t]
  BY <1>1, <1>4 DEF Control, TypeOK
<1>6. /\ t \in Task /\ t.step = s /\ t.at = x.at /\ t.other = x.other /\ t.by = x.by
      /\ t.kind = x.kind /\ t.card = c
  BY <1>2, <1>4 DEF Task, Steps
<1>7. tasks'[p] = t
  BY <1>5, <1>6, Becomes DEF Control
<1>8. TaskFits(p)' /\ ActedIsDoubted(p)'
  BY <1>1, <1>2, <1>6, <1>7 DEF TaskFits, ActedIsDoubted, Control, CardGood
<1>9. s \notin Renaming /\ (s \in UnderLease => s # "dropBound") /\ x.step \in UnderLease
  BY <1>2 DEF UnderLease, Renaming
<1>10. Control' /\ Others(p)
  BY <1>1, <1>3, <1>5, <1>6, <1>8, <1>9, GoesOn
<1> QED
  BY <1>6, <1>7, <1>10

LEMMA RedeemedFits ==
  ASSUME Control, NEW p \in Proc, At(p, "consume"), Redeemed(p),
         UNCHANGED <<owner, cache, dropped, started>>, used' \in [Account -> Moment]
  PROVE  Control' /\ Others(p) /\ tasks'[p].step \in {"drop", "dropBound"}
<1>1. Unsent \in Redemption /\ CardGood(Unsent)
  BY IdleIsTask DEF Unsent, CardGood
<1>2. CASE KeepsLease(p)
  BY <1>1, <1>2, CardGoesOn DEF Redeemed
<1>3. CASE ~KeepsLease(p)
  BY <1>1, <1>3, CardGoesOn DEF Redeemed
<1> QED
  BY <1>2, <1>3

LEMMA Acts ==
  ASSUME Control, NEW p \in Proc, At(p, "consume"), used' = used \/ Act(p)
  PROVE  /\ used' \in [Account -> Moment]
         /\ \A x \in Account : used'[x] >= used[x]
         /\ \A x \in Account : used'[x] # used[x] => x = tasks[p].by
<1>1. PICK x : x = tasks[p].by
  OBVIOUS
<1>2. x \in Account /\ used \in [Account -> 0..MaxUsed]
  BY <1>1 DEF Control, TypeOK, Task, TaskFits, At, Moment
<1>3. CASE used' = used
  BY <1>2, <1>3 DEF Moment
<1>4. CASE used' = [used EXCEPT ![x] = @ + 1] /\ used[x] < MaxUsed
  BY <1>1, <1>2, <1>4 DEF Moment
<1> QED
  BY <1>1, <1>3, <1>4 DEF Act

LEMMA Attempted ==
  ASSUME Control, NEW p \in Proc, Consume(p) \/ Unanswered(p) \/ Refused(p), UNCHANGED started
  PROVE  /\ Control' /\ Others(p)
         /\ tasks'[p].step \in {"idle", "consume", "drop", "dropBound"}
<1>1. At(p, "consume") /\ UNCHANGED <<owner, cache, dropped>> /\ (used' = used \/ Act(p))
  BY DEF Consume, Unanswered, Refused
<1>2. used' \in [Account -> Moment]
  BY <1>1, Acts
<1>3. CASE Redeemed(p)
  BY <1>1, <1>2, <1>3, RedeemedFits
<1>4. CASE Return(p)
  <2>1. /\ entries' \in [Alias -> Entry \cup {None}] /\ mutation' \in [Alias -> Stamp \cup {None}]
        /\ dropped' \in [Account -> Moment]
    BY <1>1 DEF Control, TypeOK, cache
  <2> QED
    BY <1>1, <1>2, <1>4, <2>1, ReturnControl, ReturnFits DEF Idle
<1>5. ASSUME Unanswered(p), NEW acted \in BOOLEAN, Retry(p, acted),
             tasks[p].card.attempts + 1 < MaxRetries
      PROVE  Control' /\ Others(p) /\ tasks'[p].step \in {"idle", "consume", "drop", "dropBound"}
  <2>1. PICK x : x = tasks[p]
    OBVIOUS
  <2>2. x \in Task /\ x.card \in Redemption /\ x.step = "consume" /\ x.card.attempts \in Nat
    BY <1>1, <2>1 DEF Control, TypeOK, Task, At, Redemption
  <2>3. PICK c : c = [attempts |-> x.card.attempts + 1, doubt |-> TRUE, acted |-> acted]
    OBVIOUS
  <2>4. c \in Redemption /\ CardGood(c)
    BY <1>5, <2>1, <2>2, <2>3 DEF Redemption, CardGood
  <2>5. tasks' = [tasks EXCEPT ![p] = [x EXCEPT !.card = c]] /\ holder' = holder
    BY <1>5, <2>1, <2>3 DEF Retry, Control, TypeOK
  <2>6. [x EXCEPT !.card = c] = [x EXCEPT !.step = "consume", !.card = c]
    BY <2>2 DEF Task
  <2>7. tasks' = [tasks EXCEPT ![p].step = "consume", ![p].card = c]
    BY <2>1, <2>5, <2>6 DEF Control, TypeOK
  <2> QED
    BY <1>1, <1>2, <2>4, <2>5, <2>7, CardGoesOn
<1>6. CASE Unanswered(p)
  <2>1. PICK acted : acted = (tasks[p].card.acted \/ used' # used)
    OBVIOUS
  <2>2. tasks[p].card.acted \in BOOLEAN
    BY DEF Control, TypeOK, Task, Redemption
  <2>3. acted \in BOOLEAN
    BY <2>1, <2>2
  <2> QED
    BY <1>3, <1>5, <1>6, <2>1, <2>3 DEF Unanswered
<1> QED
  BY <1>3, <1>4, <1>6 DEF Consume, Refused

LEMMA DropTyped ==
  ASSUME TypeOK, NEW a \in Alias, NEW r \in Stamp, Drop(a, r)
  PROVE  /\ entries' \in [Alias -> Entry \cup {None}] /\ mutation' \in [Alias -> Stamp \cup {None}]
         /\ entries'[a] = None /\ mutation'[a] = r
         /\ \A b \in Alias : b # a => entries'[b] = entries[b] /\ mutation'[b] = mutation[b]
BY Entries DEF Drop

LEMMA NotedTyped ==
  ASSUME TypeOK, NEW p \in Proc, tasks[p].by \in Account, Noted(p)
  PROVE  /\ dropped' \in [Account -> Moment]
         /\ dropped'[tasks[p].by] = used[tasks[p].by]
         /\ \A x \in Account : x # tasks[p].by => dropped'[x] = dropped[x]
BY DEF TypeOK, Noted

LEMMA Invalidated ==
  ASSUME Control, NEW p \in Proc, Invalidate(p) \/ InvalidateBound(p), UNCHANGED started
  PROVE  Control' /\ Others(p) /\ tasks'[p].step \in {"idle", "query"}
<1>1. PICK x : x = tasks[p]
  OBVIOUS
<1>2. /\ x \in Task /\ x.at \in Alias /\ x.by \in Account /\ x.step \in {"drop", "dropBound"}
      /\ UNCHANGED <<owner, used>>
  BY <1>1 DEF Invalidate, InvalidateBound, Control, TypeOK, Task, At, TaskFits
<1>3. used' \in [Account -> Moment] /\ dropped' \in [Account -> Moment]
  BY <1>1, <1>2, NotedTyped DEF Invalidate, InvalidateBound, Control, TypeOK
<1>4. entries' \in [Alias -> Entry \cup {None}] /\ mutation' \in [Alias -> Stamp \cup {None}]
  <2>1. CASE UNCHANGED cache
    BY <2>1 DEF Control, TypeOK, cache
  <2>2. CASE ~UNCHANGED cache
    <3>1. PICK r \in Stamp : Drop(x.at, r)
      BY <1>1, <2>2 DEF Invalidate, InvalidateBound
    <3> QED
      BY <1>2, <3>1, DropTyped DEF Control
  <2> QED
    BY <2>1, <2>2
<1>5. CASE Return(p)
  BY <1>2, <1>3, <1>4, <1>5, ReturnControl, ReturnFits DEF Idle
<1>6. CASE ~Return(p)
  <2>1. PICK t : t = [x EXCEPT !.step = "query", !.kind = "reread", !.seen = Unread]
    OBVIOUS
  <2>2. tasks' = [tasks EXCEPT ![p] = t] /\ holder' = holder /\ x.step = "drop"
    BY <1>1, <1>6, <2>1 DEF Invalidate, InvalidateBound, Control, TypeOK, At
  <2>3. /\ t \in Task /\ t.step = "query" /\ t.at = x.at /\ t.other = x.other /\ t.by = x.by
        /\ t.kind = "reread" /\ t.card = x.card
    BY <1>2, <2>1, IdleIsTask DEF Task, Steps, AllKinds
  <2>4. tasks'[p] = t
    BY <2>2, <2>3, Becomes DEF Control
  <2>5. TaskFits(p)' /\ ActedIsDoubted(p)'
    BY <1>1, <1>2, <2>3, <2>4 DEF TaskFits, ActedIsDoubted, Control
  <2>6. t.step \notin Renaming /\ x.step \in UnderLease
    BY <2>2, <2>3 DEF UnderLease, Renaming
  <2>7. Control' /\ Others(p)
    BY <1>1, <1>2, <1>3, <1>4, <2>2, <2>3, <2>5, <2>6, GoesOn
  <2> QED
    BY <2>3, <2>4, <2>7
<1> QED
  BY <1>5, <1>6

(* Steps that change who has which alias, and the renaming's own.           *)
LEMMA ReturnOwner ==
  ASSUME Control, NEW p \in Proc, Return(p), UNCHANGED <<cache, used, dropped, started>>,
         owner' \in [Alias -> Account \cup {None}], OneOwner',
         \A a \in Alias : owner'[a] # owner[a] => holder[a] = p
  PROVE  Control' /\ Others(p) /\ tasks'[p].step = "idle"
<1>1. TypeOK'
  BY ReturnFits DEF Control, TypeOK, Typed, cache
<1>2. OwnLeases(p)
  BY ReturnFits DEF OwnLeases, Released, Control, TypeOK
<1> QED
  BY <1>1, <1>2, ReturnFits, ControlKept DEF Idle

LEMMA OneMore ==
  ASSUME TypeOK, OneOwner, NEW a \in Alias, NEW x \in Account, x \notin Saved,
         owner' = [owner EXCEPT ![a] = x]
  PROVE  OneOwner' /\ owner' \in [Alias -> Account \cup {None}]
BY DEF TypeOK, OneOwner, Saved

LEMMA OneLess ==
  ASSUME TypeOK, OneOwner, NEW a \in Alias, owner' = [owner EXCEPT ![a] = None]
  PROVE  OneOwner' /\ owner' \in [Alias -> Account \cup {None}]
BY DEF TypeOK, OneOwner

LEMMA OneMoved ==
  ASSUME TypeOK, OneOwner, NEW a \in Alias, NEW b \in Alias, owner[a] # None, owner[b] = None,
         owner' = [owner EXCEPT ![b] = owner[a], ![a] = None]
  PROVE  /\ OneOwner' /\ owner' \in [Alias -> Account \cup {None}]
         /\ a # b /\ owner'[b] = owner[a] /\ owner'[a] = None
         /\ \A c \in Alias : c \notin {a, b} => owner'[c] = owner[c]
<1>1. a # b
  OBVIOUS
<1>2. owner' \in [Alias -> Account \cup {None}] /\ owner'[b] = owner[a] /\ owner'[a] = None
      /\ \A c \in Alias : c \notin {a, b} => owner'[c] = owner[c]
  BY <1>1 DEF TypeOK
<1> QED
  BY <1>1, <1>2 DEF OneOwner

LEMMA SavedFits ==
  ASSUME Control, NEW p \in Proc, Save(p) \/ Archive(p), UNCHANGED started
  PROVE  Control' /\ Others(p) /\ tasks'[p].step = "idle"
<1>1. PICK x : x = tasks[p]
  OBVIOUS
<1>2. /\ x \in Task /\ x.at \in Alias /\ x.step \in {"save", "archive"} /\ holder[x.at] = p
      /\ Return(p) /\ UNCHANGED <<cache, used, dropped>>
      /\ x.step = "save" => x.by \in Account
  BY <1>1 DEF Save, Archive, Control, TypeOK, Task, At, TaskFits, LeaseFits, UnderLease
<1>3. CASE owner' = owner
  BY <1>2, <1>3, ReturnOwner DEF Control, TypeOK, OneOwner
<1>4. CASE owner' = [owner EXCEPT ![x.at] = None]
  <2>1. \A a \in Alias : owner'[a] # owner[a] => holder[a] = p
    BY <1>2, <1>4 DEF Control, TypeOK
  <2> QED
    BY <1>2, <1>4, <2>1, OneLess, ReturnOwner DEF Control
<1>5. CASE owner' = [owner EXCEPT ![x.at] = x.by] /\ x.by \notin Saved /\ x.step = "save"
  <2>1. \A a \in Alias : owner'[a] # owner[a] => holder[a] = p
    BY <1>2, <1>5 DEF Control, TypeOK
  <2> QED
    BY <1>2, <1>5, <2>1, OneMore, ReturnOwner DEF Control
<1> QED
  BY <1>1, <1>3, <1>4, <1>5 DEF Save, Archive, At

LEMMA MovedFits ==
  ASSUME Control, NEW p \in Proc, Move(p), UNCHANGED started
  PROVE  /\ Control' /\ Others(p)
         /\ tasks'[p].step \in {"idle", "migrate"}
<1>1. PICK x : x = tasks[p]
  OBVIOUS
<1>2. /\ x \in Task /\ x.at \in Alias /\ x.other \in Alias /\ x.step = "move"
      /\ holder[x.at] = p /\ holder[x.other] = p /\ x.kind = "rename"
      /\ UNCHANGED <<cache, used, dropped>>
  BY <1>1 DEF Move, Control, TypeOK, Task, At, LeaseFits, UnderLease, Renaming
<1>3. CASE owner[x.at] # None /\ owner[x.other] = None
  <2>1. /\ owner' = [owner EXCEPT ![x.other] = owner[x.at], ![x.at] = None]
        /\ Goto(p, "migrate") /\ holder' = holder
    BY <1>1, <1>3 DEF Move
  <2>2. /\ OneOwner' /\ owner' \in [Alias -> Account \cup {None}]
        /\ owner'[x.other] # None /\ owner'[x.at] = None
        /\ \A c \in Alias : c \notin {x.at, x.other} => owner'[c] = owner[c]
    BY <1>2, <1>3, <2>1, OneMoved DEF Control
  <2>3. "migrate" \in Steps /\ "migrate" \in Renaming
    BY DEF Steps, Renaming
  <2>4. Typed /\ Others(p)
    BY <2>1, <2>3, Goes DEF Control
  <2>5. /\ tasks'[p].step = "migrate" /\ tasks'[p].at = x.at /\ tasks'[p].other = x.other
        /\ tasks'[p].kind = "rename" /\ tasks'[p].by = x.by /\ tasks'[p].card = x.card
    BY <1>1, <1>2, <2>1, <2>3, Fields DEF Control
  <2>6. TypeOK'
    BY <1>2, <2>1, <2>2, <2>4 DEF Control, TypeOK, Typed, cache
  <2>7. OwnLeases(p)
    BY <1>2, <2>1, <2>2 DEF OwnLeases
  <2>8. (LeaseFits(p) /\ TaskFits(p) /\ ActedIsDoubted(p))'
    BY <1>1, <1>2, <2>1, <2>2, <2>5 DEF LeaseFits, TaskFits, ActedIsDoubted, Control
  <2> QED
    BY <2>2, <2>4, <2>5, <2>6, <2>7, <2>8, ControlKept
<1>4. CASE ~(owner[x.at] # None /\ owner[x.other] = None)
  <2>1. Return(p) /\ UNCHANGED owner
    BY <1>1, <1>4 DEF Move
  <2> QED
    BY <1>2, <2>1, ReturnOwner DEF Control, TypeOK, OneOwner
<1> QED
  BY <1>3, <1>4

LEMMA MovedBackFits ==
  ASSUME Control, NEW p \in Proc, MoveBack(p), UNCHANGED started
  PROVE  Control' /\ Others(p) /\ tasks'[p].step = "idle"
<1>1. PICK x : x = tasks[p]
  OBVIOUS
<1>2. /\ x \in Task /\ x.at \in Alias /\ x.other \in Alias /\ x.step = "unmove"
      /\ holder[x.at] = p /\ holder[x.other] = p
      /\ owner[x.at] = None /\ owner[x.other] # None
      /\ UNCHANGED <<cache, used, dropped>> /\ Return(p)
      /\ owner' = [owner EXCEPT ![x.at] = owner[x.other], ![x.other] = None]
  BY <1>1 DEF MoveBack, Control, TypeOK, Task, At, LeaseFits, UnderLease, Renaming, TaskFits
<1>3. /\ OneOwner' /\ owner' \in [Alias -> Account \cup {None}]
      /\ \A c \in Alias : c \notin {x.at, x.other} => owner'[c] = owner[c]
  BY <1>2, OneMoved DEF Control
<1> QED
  BY <1>2, <1>3, ReturnOwner

LEMMA Migrates ==
  ASSUME TypeOK, NEW from \in Alias, NEW to \in Alias, from # to, NEW r \in Stamp,
         entries'  = [entries EXCEPT ![to] = entries[from], ![from] = None],
         mutation' = [mutation EXCEPT ![to] = r, ![from] = r]
  PROVE  /\ entries' \in [Alias -> Entry \cup {None}] /\ mutation' \in [Alias -> Stamp \cup {None}]
         /\ entries'[to] = entries[from] /\ entries'[from] = None
         /\ mutation'[to] = r /\ mutation'[from] = r
         /\ \A b \in Alias : b \notin {from, to} =>
              entries'[b] = entries[b] /\ mutation'[b] = mutation[b]
BY DEF TypeOK

LEMMA RenamingFits ==
  ASSUME Control, NEW p \in Proc, Migrate(p) \/ Mark(p) \/ MigrateBack(p), UNCHANGED started
  PROVE  /\ Control' /\ Others(p)
         /\ tasks'[p].step \in {"idle", "mark", "unmigrate", "unmove"}
<1>1. PICK x : x = tasks[p]
  OBVIOUS
<1>2. /\ x \in Task /\ x.at \in Alias /\ x.other \in Alias
      /\ x.step \in {"migrate", "mark", "unmigrate"} /\ x.kind = "rename"
      /\ owner[x.at] = None /\ owner[x.other] # None /\ x.at # x.other
      /\ UNCHANGED <<owner, used, dropped>>
  BY <1>1 DEF Migrate, Mark, MigrateBack, Control, TypeOK, Task, At, LeaseFits, UnderLease,
              Renaming, TaskFits
<1>3. used' \in [Account -> Moment] /\ dropped' \in [Account -> Moment]
  BY <1>2 DEF Control, TypeOK
<1>4. entries' \in [Alias -> Entry \cup {None}] /\ mutation' \in [Alias -> Stamp \cup {None}]
  <2>1. CASE UNCHANGED cache
    BY <2>1 DEF Control, TypeOK, cache
  <2>2. CASE MigrateAlias(x.at, x.other)
    <3>1. PICK r \in Stamp :
            /\ entries'  = [entries EXCEPT ![x.other] = entries[x.at], ![x.at] = None]
            /\ mutation' = [mutation EXCEPT ![x.other] = r, ![x.at] = r]
      BY <2>2 DEF MigrateAlias
    <3> QED
      BY <1>2, <3>1, Migrates DEF Control
  <2>3. CASE MigrateAlias(x.other, x.at)
    <3>1. PICK r \in Stamp :
            /\ entries'  = [entries EXCEPT ![x.at] = entries[x.other], ![x.other] = None]
            /\ mutation' = [mutation EXCEPT ![x.at] = r, ![x.other] = r]
      BY <2>3 DEF MigrateAlias
    <3> QED
      BY <1>2, <3>1, Migrates DEF Control
  <2> QED
    BY <1>1, <2>1, <2>2, <2>3 DEF Migrate, Mark, MigrateBack
<1>5. CASE Return(p)
  BY <1>2, <1>3, <1>4, <1>5, ReturnControl, ReturnFits DEF Idle
<1>6. ASSUME NEW s \in {"mark", "unmigrate", "unmove"}, Goto(p, s), holder' = holder
      PROVE  Control' /\ Others(p) /\ tasks'[p].step \in {"idle", "mark", "unmigrate", "unmove"}
  <2>1. s \in Steps /\ s \in Renaming /\ x.step \in Renaming /\ x.step \in UnderLease
    BY <1>2, <1>6 DEF Steps, Renaming, UnderLease
  <2>2. /\ tasks'[p].step = s /\ tasks'[p].at = x.at /\ tasks'[p].other = x.other
        /\ tasks'[p].kind = "rename" /\ tasks'[p].by = x.by /\ tasks'[p].card = x.card
    BY <1>1, <1>2, <1>6, <2>1, Fields DEF Control
  <2>3. TaskFits(p)' /\ ActedIsDoubted(p)'
    BY <1>1, <1>2, <1>6, <2>2 DEF TaskFits, ActedIsDoubted, Control
  <2>4. Control' /\ Others(p)
    BY <1>1, <1>2, <1>3, <1>4, <1>6, <2>1, <2>3, GoesOnTo
  <2> QED
    BY <2>2, <2>4
<1> QED
  BY <1>5, <1>6 DEF Migrate, Mark, MigrateBack

LEMMA PurgedFits ==
  ASSUME Control, NEW p \in Proc, Purge(p), UNCHANGED started
  PROVE  /\ Control' /\ Others(p)
         /\ tasks'[p].step \in {"idle", "archive"}
<1>1. PICK x : x = tasks[p]
  OBVIOUS
<1>2. /\ x \in Task /\ x.at \in Alias /\ x.step = "purge" /\ UNCHANGED <<owner, used, dropped>>
  BY <1>1 DEF Purge, Control, TypeOK, Task, At
<1>3. used' \in [Account -> Moment] /\ dropped' \in [Account -> Moment]
  BY <1>2 DEF Control, TypeOK
<1>4. CASE owner[x.at] = None
  <2>1. Return(p) /\ UNCHANGED cache
    BY <1>1, <1>4 DEF Purge
  <2>2. entries' \in [Alias -> Entry \cup {None}] /\ mutation' \in [Alias -> Stamp \cup {None}]
    BY <2>1 DEF Control, TypeOK, cache
  <2> QED
    BY <1>2, <1>3, <2>1, <2>2, ReturnControl, ReturnFits DEF Idle
<1>5. CASE owner[x.at] # None
  <2>1. Goto(p, "archive") /\ holder' = holder /\ \E r \in Stamp : Drop(x.at, r)
    BY <1>1, <1>5 DEF Purge
  <2>2. entries' \in [Alias -> Entry \cup {None}] /\ mutation' \in [Alias -> Stamp \cup {None}]
    BY <1>2, <2>1, DropTyped DEF Control
  <2>3. "archive" \in Steps /\ "archive" \notin Renaming /\ x.step \in UnderLease
    BY <1>2 DEF Steps, Renaming, UnderLease
  <2>4. /\ tasks'[p].step = "archive" /\ tasks'[p].at = x.at /\ tasks'[p].other = x.other
        /\ tasks'[p].kind = x.kind /\ tasks'[p].by = x.by /\ tasks'[p].card = x.card
    BY <1>1, <1>2, <2>1, <2>3, Fields DEF Control
  <2>5. TaskFits(p)' /\ ActedIsDoubted(p)'
    BY <1>1, <1>2, <2>4 DEF TaskFits, ActedIsDoubted, Control
  <2>6. Control' /\ Others(p)
    BY <1>1, <1>2, <1>3, <2>1, <2>2, <2>3, <2>5, GoesOnTo
  <2> QED
    BY <2>4, <2>6
<1> QED
  BY <1>4, <1>5

LEMMA Begun ==
  ASSUME Control, NEW p \in Proc, NEW q \in Requests, Begin(p, q)
  PROVE  /\ Control' /\ Others(p)
         /\ tasks'[p].step \in {"baseline", "lease"}
<1>1. q \in Request
  OBVIOUS
<1>2. /\ tasks[p] \in Task /\ started \in Nat /\ started < MaxOps /\ started' = started + 1
      /\ UNCHANGED <<owner, holder, cache, used, dropped>>
      /\ Listed(q) => owner[q.alias] # None
  BY DEF Begin, Control, TypeOK
<1>3. /\ q.kind \in Kinds /\ q.alias \in Alias /\ q.other \in Alias /\ q.account \in Account
  BY <1>1 DEF Request
<1>4. PICK x : x = IF q.kind = "save" THEN q.account
                   ELSE IF Listed(q) THEN owner[q.alias] ELSE None
  OBVIOUS
<1>5. PICK s : s = IF q.kind = "select" THEN "baseline" ELSE "lease"
  OBVIOUS
<1>6. /\ x \in Account \cup {None} /\ s \in {"baseline", "lease"}
      /\ q.kind \in {"select", "panel", "panelRedeem", "save"} => x # None
      /\ s = "baseline" => q.kind = "select"
  BY <1>2, <1>3, <1>4, <1>5 DEF Listed, Control, TypeOK
<1>7. PICK t : t = [step |-> s, kind |-> q.kind, at |-> q.alias, other |-> q.other, by |-> x,
                    base |-> NoBase, seen |-> Unread, card |-> Unsent]
  OBVIOUS
<1>8. t \in Task
  BY <1>3, <1>6, <1>7, IdleIsTask DEF Task, Steps, AllKinds
<1>9. tasks' = [tasks EXCEPT ![p] = t]
  BY <1>4, <1>5, <1>7 DEF Begin
<1>10. Typed /\ Others(p) /\ tasks'[p] = t
  BY <1>8, <1>9, Becomes DEF Control
<1>11. /\ t.step = s /\ t.kind = q.kind /\ t.by = x /\ ~t.card.acted
  BY <1>7 DEF Unsent
<1>12. TypeOK'
  BY <1>2, <1>10 DEF Control, TypeOK, Typed, cache
<1>13. OwnLeases(p)
  BY <1>2 DEF OwnLeases
<1>14. s \notin UnderLease
  BY <1>6 DEF UnderLease, Renaming
<1>15. (LeaseFits(p) /\ TaskFits(p) /\ ActedIsDoubted(p))'
  BY <1>6, <1>10, <1>11, <1>14 DEF LeaseFits, TaskFits, ActedIsDoubted
<1>16. OneOwner'
  BY <1>2 DEF Control, OneOwner
<1> QED
  BY <1>6, <1>10, <1>11, <1>12, <1>13, <1>15, <1>16, ControlKept

----------------------------------------------------------------------------
(* Homes                                                                    *)

LEMMA Apart ==
  ASSUME Control, NEW p \in Proc, NEW q \in Proc, p # q,
         tasks[p].step \in UnderLease, tasks[q].step \in UnderLease
  PROVE  /\ tasks[p].at # tasks[q].at
         /\ tasks[p].step \in Renaming => tasks[p].other # tasks[q].at
         /\ tasks[p].step \in Renaming /\ tasks[q].step \in Renaming =>
              tasks[p].other # tasks[q].other
BY DEF Control, LeaseFits

LEMMA BetweenFits ==
  ASSUME Control, NEW p \in Proc, Between(p)
  PROVE  /\ tasks[p].step \in UnderLease /\ tasks[p].step \in Renaming
         /\ tasks[p].at \in Alias /\ tasks[p].other \in Alias
         /\ owner[tasks[p].at] = None /\ owner[tasks[p].other] # None
BY DEF Control, TypeOK, Task, Between, UnderLease, Renaming, TaskFits

LEMMA OwnerHome ==
  ASSUME Control, NEW a \in Alias, owner[a] # None, NEW y, Home(y, a)
  PROVE  y = owner[a]
BY BetweenFits DEF Home

LEMMA HomeUnique ==
  ASSUME Control, NEW x \in Account, NEW a \in Alias, NEW b \in Alias, Home(x, a), Home(x, b)
  PROVE  a = b
<1>1. CASE owner[a] = x /\ ~Ahead(a) /\ owner[b] = x
  BY <1>1 DEF Control, OneOwner
<1>2. ASSUME NEW c \in Alias, NEW d \in Alias, owner[c] = x, ~Ahead(c),
             NEW q \in Proc, Between(q), tasks[q].at = d, owner[tasks[q].other] = x
      PROVE  FALSE
  <2>1. tasks[q].other = c
    BY <1>2, BetweenFits DEF Control, OneOwner
  <2> QED
    BY <1>2, <2>1 DEF Between, Ahead
<1>3. ASSUME NEW p \in Proc, Between(p), tasks[p].at = a, owner[tasks[p].other] = x,
             NEW q \in Proc, Between(q), tasks[q].at = b, owner[tasks[q].other] = x
      PROVE  a = b
  <2>1. tasks[p].other = tasks[q].other
    BY <1>3, BetweenFits DEF Control, OneOwner
  <2>2. p = q
    BY <1>3, <2>1, BetweenFits, Apart
  <2> QED
    BY <1>3, <2>2
<1> QED
  BY <1>1, <1>2, <1>3 DEF Home

LEMMA LeasedHome ==
  ASSUME Control, NEW p \in Proc, tasks[p].step \in UnderLease, ~Between(p)
  PROVE  Home(owner[tasks[p].at], tasks[p].at)
<1> SUFFICES ASSUME NEW q \in Proc, Between(q), tasks[q].other = tasks[p].at
             PROVE  FALSE
  BY DEF Home, Ahead, Between
<1> QED
  BY BetweenFits, Apart

(* What a new revision is.                                                  *)
LEMMA FreshIs ==
  ASSUME NEW r, Fresh(r)
  PROVE  /\ r \in Stamp
         /\ \A q \in Proc : tasks[q].base.mutation # r /\ tasks[q].seen.rev # r
BY DEF Fresh, Remembered

----------------------------------------------------------------------------
(* What a step must leave true for the others                               *)

Good(e) == /\ e.quota >= dropped[e.by]
           /\ e.cards # NotRead => e.cards >= dropped[e.by]

HomesKept(p) ==
  \A x \in Account, a \in Alias : Home(x, a) =>
    \/ Home(x, a)'
    \/ entries'[a] = None /\ \A q \in Proc : q # p /\ tasks[q].at = a => ~Publishing(q)'

Advances ==
  \A a \in Alias : \/ entries'[a] = entries[a] /\ mutation'[a] = mutation[a]
                   \/ \A q \in Proc : tasks[q].base.mutation # mutation'[a]

Descends ==
  \A a \in Alias : entries'[a] # None =>
    \/ \E b \in Alias : /\ entries[b] # None /\ entries[b].by = entries'[a].by
                        /\ entries[b].rev = entries'[a].rev
    \/ \A q \in Proc : tasks[q].seen.rev # entries'[a].rev

Born ==
  \A a \in Alias, x \in Account :
    entries'[a] # None /\ entries'[a].by = x => entries'[a] = entries[a] \/ Home(x, a)'

Sound ==
  \A a \in Alias : entries'[a] # None =>
    (\E b \in Alias : entries[b] = entries'[a]) \/ Good(entries'[a])

Written(p) == HomesKept(p) /\ Advances /\ Descends /\ Born /\ Sound

Drops(p) ==
  \A x \in Account : dropped'[x] # dropped[x] =>
    /\ dropped'[x] <= used'[x]
    /\ \A a \in Alias : entries'[a] # None => entries'[a].by # x
    /\ \A q \in Proc : q # p /\ Publishing(q)' => tasks[q].by # x

Uses(p) ==
  /\ \A x \in Account : used'[x] >= used[x]
  /\ \A q \in Proc : q # p /\ At(q, "put") => used'[tasks[q].by] = used[tasks[q].by]

Spares(p) ==
  \A q \in Proc : q # p /\ At(q, "archive") =>
    /\ entries'[tasks[q].at] = None
    /\ tasks'[p].at = tasks[q].at => ~Publishing(p)'

Own(p) == PublishesAtHome(p) /\ Purged(p) /\ Reading(p) /\ PublishesRecent(p) /\ MergesRecent(p)

LEMMA StillPublishing ==
  ASSUME NEW p \in Proc, NEW q \in Proc, q # p, Others(p), TypeOK, Advances, Publishing(q)'
  PROVE  Publishing(q) /\ entries'[tasks[q].at] = entries[tasks[q].at]
<1>1. tasks'[q] = tasks[q] /\ tasks[q].at \in Alias
  BY DEF Others, TypeOK, Task
<1>2. /\ tasks[q].step = "publish"
      /\ [entry |-> entries'[tasks[q].at], mutation |-> mutation'[tasks[q].at]] = tasks[q].base
  BY <1>1 DEF Publishing, At, Unchanged, Snapshot
<1>3. tasks[q].base.mutation = mutation'[tasks[q].at]
  BY <1>2
<1>4. entries'[tasks[q].at] = entries[tasks[q].at] /\ mutation'[tasks[q].at] = mutation[tasks[q].at]
  BY <1>1, <1>3 DEF Advances
<1> QED
  BY <1>2, <1>4 DEF Publishing, At, Unchanged, Snapshot

LEMMA Kept ==
  ASSUME IInv, Control', NEW p \in Proc, Others(p), Written(p), Drops(p), Uses(p), Spares(p), Own(p)'
  PROVE  Recent'
<1> USE DEF Written
<1>1. EntryAtHome'
  <2>1. ASSUME NEW a \in Alias, NEW x \in Account, entries'[a] # None, entries'[a].by = x
        PROVE  Home(x, a)'
    <3>1. CASE Home(x, a)'
      BY <3>1
    <3>2. CASE entries'[a] = entries[a]
      <4>1. Home(x, a)
        BY <2>1, <3>2 DEF IInv, Recent, EntryAtHome
      <4> QED
        BY <2>1, <4>1 DEF HomesKept
    <3> QED
      BY <2>1, <3>1, <3>2 DEF Born
  <2>2. \A a \in Alias : entries'[a] # None => entries'[a].by \in Account
    BY DEF Control, TypeOK, Entry
  <2> QED
    BY <2>1, <2>2 DEF EntryAtHome, Home
<1>2. DropsAreMade'
  <2> SUFFICES ASSUME NEW x \in Account
               PROVE  dropped'[x] <= used'[x]
    BY DEF DropsAreMade
  <2>1. /\ used[x] \in Nat /\ used'[x] \in Nat /\ dropped[x] \in Nat /\ dropped'[x] \in Nat
        /\ dropped[x] <= used[x] /\ used'[x] >= used[x]
    BY DEF IInv, Recent, DropsAreMade, Control, TypeOK, Moment, Uses
  <2> QED
    BY <2>1 DEF Drops
<1>3. RedeemedNeverReturns'
  <2> SUFFICES ASSUME NEW a \in Alias, entries'[a] # None
               PROVE  /\ entries'[a].quota >= dropped'[entries'[a].by]
                      /\ entries'[a].cards # NotRead => entries'[a].cards >= dropped'[entries'[a].by]
    BY DEF RedeemedNeverReturns
  <2>1. PICK e : e = entries'[a]
    OBVIOUS
  <2>2. e \in Entry /\ e.by \in Account
    BY <2>1 DEF Control, TypeOK, Entry
  <2>3. dropped'[e.by] = dropped[e.by]
    BY <2>1, <2>2 DEF Drops
  <2>4. Good(e)
    BY <2>1 DEF Sound, IInv, Recent, RedeemedNeverReturns, Good
  <2> QED
    BY <2>1, <2>3, <2>4 DEF Good
<1>4. ASSUME NEW q \in Proc, q # p
      PROVE  Own(q)'
  <2>1. PICK t : t = tasks[q]
    OBVIOUS
  <2>2. /\ tasks'[q] = t /\ t \in Task /\ t.at \in Alias /\ t.by \in Account \cup {None}
        /\ Own(q) /\ TaskFits(q)
    BY <1>4, <2>1 DEF Others, IInv, Control, TypeOK, Task, Recent, Own
  <2>3. ASSUME Publishing(q)'
        PROVE  /\ Publishing(q) /\ entries'[t.at] = entries[t.at] /\ t.by \in Account
               /\ Home(t.by, t.at)
    <3>1. Publishing(q) /\ entries'[t.at] = entries[t.at]
      BY <1>4, <2>1, <2>3, StillPublishing DEF IInv, Control
    <3> QED
      BY <2>1, <2>2, <3>1 DEF Publishing, At, TaskFits, Own, PublishesAtHome
  <2>4. PublishesAtHome(q)'
    <3> SUFFICES ASSUME Publishing(q)'
                 PROVE  Home(t.by, t.at)'
      BY <2>2 DEF PublishesAtHome, Home
    <3>1. Home(t.by, t.at) /\ t.by \in Account
      BY <2>3
    <3> QED
      BY <1>4, <2>1, <2>2, <3>1 DEF HomesKept
  <2>5. Purged(q)'
    <3> SUFFICES ASSUME t.step = "archive"
                 PROVE  /\ entries'[t.at] = None
                        /\ \A s \in Proc : tasks'[s].at = t.at => ~Publishing(s)'
      BY <2>2 DEF Purged, At
    <3>1. entries'[t.at] = None /\ (tasks'[p].at = t.at => ~Publishing(p)')
      BY <1>4, <2>1 DEF Spares, At
    <3>2. ASSUME NEW s \in Proc, s # p, tasks'[s].at = t.at, Publishing(s)'
          PROVE  FALSE
      <4>1. Publishing(s) /\ tasks[s].at = t.at
        BY <3>2, StillPublishing DEF IInv, Control, Others
      <4> QED
        BY <2>1, <2>2, <4>1 DEF Own, Purged, At
    <3> QED
      BY <3>1, <3>2
  <2>6. Reading(q)'
    BY <1>4, <2>1, <2>2 DEF Own, Reading, Uses, At
  <2>7. PublishesRecent(q)'
    <3> SUFFICES ASSUME Publishing(q)'
                 PROVE  t.seen.quota >= dropped'[t.by]
      BY <2>2 DEF PublishesRecent
    <3>1. dropped'[t.by] = dropped[t.by]
      BY <1>4, <2>1, <2>3 DEF Drops
    <3> QED
      BY <2>1, <2>2, <2>3, <3>1 DEF Own, PublishesRecent
  <2>8. MergesRecent(q)'
    <3> SUFFICES ASSUME t.step = "merge"
                 PROVE  /\ t.seen.cards # NotRead
                        /\ \A a \in Alias :
                             Holds(a, t.by)' /\ entries'[a].rev = t.seen.rev =>
                               t.seen.cards >= dropped'[t.by]
      BY <2>2 DEF MergesRecent, At, Holds
    <3>1. t.seen.cards # NotRead
      BY <2>1, <2>2 DEF Own, MergesRecent, At
    <3>2. ASSUME NEW a \in Alias, Holds(a, t.by)', entries'[a].rev = t.seen.rev
          PROVE  t.seen.cards >= dropped'[t.by]
      <4>1. t.by \in Account
        BY <2>1, <2>2 DEF TaskFits
      <4>2. entries'[a] # None /\ entries'[a].by = t.by
        BY <3>2 DEF Holds
      <4>3. dropped'[t.by] = dropped[t.by]
        BY <4>1, <4>2 DEF Drops
      <4>4. PICK b \in Alias : entries[b] # None /\ entries[b].by = t.by /\ entries[b].rev = t.seen.rev
        BY <2>1, <3>2, <4>2 DEF Descends
      <4> QED
        BY <2>1, <2>2, <4>3, <4>4 DEF Own, MergesRecent, At, Holds
    <3> QED
      BY <3>1, <3>2
  <2> QED
    BY <2>4, <2>5, <2>6, <2>7, <2>8 DEF Own
<1> QED
  BY <1>1, <1>2, <1>3, <1>4 DEF Recent, Own

----------------------------------------------------------------------------
(* Steps that leave the homes alone                                         *)

SameHomes(p) ==
  /\ owner' = owner /\ (Between(p)' <=> Between(p))
  /\ Between(p) => tasks'[p].at = tasks[p].at /\ tasks'[p].other = tasks[p].other

LEMMA HomesStay ==
  ASSUME NEW p \in Proc, Others(p), SameHomes(p)
  PROVE  (\A x, a : Home(x, a) => Home(x, a)') /\ HomesKept(p)
<1>1. \A q \in Proc : /\ Between(q)' <=> Between(q)
                      /\ Between(q) => /\ tasks'[q].at = tasks[q].at
                                       /\ tasks'[q].other = tasks[q].other
  BY DEF SameHomes, Others, Between
<1>2. \A a : Ahead(a)' <=> Ahead(a)
  BY <1>1 DEF Ahead, Between
<1>3. \A x, a : Home(x, a) => Home(x, a)'
  BY <1>1, <1>2 DEF SameHomes, Home
<1> QED
  BY <1>3 DEF HomesKept

LEMMA SameCache ==
  ASSUME IInv, NEW p \in Proc, UNCHANGED cache, tasks'[p].step # "publish"
  PROVE  Advances /\ Descends /\ Born /\ Sound /\ Spares(p)
<1>1. entries' = entries /\ mutation' = mutation
  BY DEF cache
<1>2. \A q \in Proc : At(q, "archive") => entries[tasks[q].at] = None
  BY DEF IInv, Recent, Purged
<1> QED
  BY <1>1, <1>2 DEF Advances, Descends, Born, Sound, Spares, Publishing, At

LEMMA SameCounts ==
  ASSUME IInv, NEW p \in Proc, UNCHANGED <<used, dropped>>
  PROVE  Drops(p) /\ Uses(p)
<1>1. \A x \in Account : used[x] \in Nat
  BY DEF IInv, Control, TypeOK, Moment
<1> QED
  BY <1>1 DEF Drops, Uses

Watched == {"put", "publish", "merge", "archive"}

LEMMA OwnFree ==
  ASSUME NEW p \in Proc, tasks'[p].step \notin Watched
  PROVE  Own(p)'
BY DEF Watched, Own, PublishesAtHome, Publishing, Purged, Reading, PublishesRecent, MergesRecent, At

(* A step that only moves its own task.                                     *)
LEMMA Quiet ==
  ASSUME IInv, Control', NEW p \in Proc, Others(p), SameHomes(p),
         UNCHANGED <<cache, used, dropped>>, tasks'[p].step \notin Watched
  PROVE  Recent'
BY HomesStay, SameCache, SameCounts, OwnFree, Kept DEF Written, Watched

(* A step that puts an entry, or an absence, under its alias.               *)
LEMMA Writes ==
  ASSUME IInv, Control', NEW p \in Proc, Others(p), SameHomes(p),
         NEW e \in Entry \cup {None}, NEW r \in Stamp, Put(tasks[p].at, e, r), Fresh(r),
         e # None =>
           /\ Home(e.by, tasks[p].at) /\ Good(e)
           /\ \/ e.rev = r
              \/ /\ entries[tasks[p].at] # None
                 /\ e.by = entries[tasks[p].at].by /\ e.rev = entries[tasks[p].at].rev
           /\ \/ entries[tasks[p].at] # None
              \/ Publishing(p)
              \/ tasks[p].step \in UnderLease,
         tasks'[p].step # "publish"
  PROVE  /\ Written(p) /\ Spares(p)
         /\ entries'[tasks[p].at] = e /\ mutation'[tasks[p].at] = r
         /\ \A b \in Alias : b # tasks[p].at => entries'[b] = entries[b]
<1>1. PICK a \in Alias : a = tasks[p].at
  BY DEF IInv, Control, TypeOK, Task
<1>2. /\ entries'[a] = e /\ mutation'[a] = r
      /\ \A b \in Alias : b # a => entries'[b] = entries[b] /\ mutation'[b] = mutation[b]
  BY <1>1, Entries DEF IInv, Control
<1>3. HomesKept(p) /\ \A x, b : Home(x, b) => Home(x, b)'
  BY HomesStay
<1>4. Advances
  BY <1>1, <1>2, FreshIs DEF Advances
<1>5. Descends
  <2> SUFFICES ASSUME NEW b \in Alias, entries'[b] # None,
                      \E q \in Proc : tasks[q].seen.rev = entries'[b].rev
               PROVE  \E c \in Alias : /\ entries[c] # None /\ entries[c].by = entries'[b].by
                                       /\ entries[c].rev = entries'[b].rev
    BY DEF Descends
  <2>1. CASE b # a
    BY <1>2, <2>1
  <2>2. CASE b = a
    BY <1>1, <1>2, <2>2, FreshIs
  <2> QED
    BY <2>1, <2>2
<1>6. Born
  BY <1>1, <1>2, <1>3 DEF Born
<1>7. Sound
  BY <1>1, <1>2 DEF Sound
<1>8. Spares(p)
  <2> SUFFICES ASSUME NEW q \in Proc, q # p, At(q, "archive")
               PROVE  entries'[tasks[q].at] = None
    BY DEF Spares, Publishing, At
  <2>1. /\ entries[tasks[q].at] = None /\ tasks[q].at \in Alias
        /\ \A s \in Proc : tasks[s].at = tasks[q].at => ~Publishing(s)
    BY DEF IInv, Control, TypeOK, Task, Recent, Purged
  <2>2. tasks[q].step \in UnderLease
    BY DEF At, UnderLease
  <2>3. CASE tasks[q].at # a
    BY <1>2, <2>1, <2>3
  <2>4. CASE tasks[q].at = a
    <3>1. tasks[p].step \notin UnderLease
      BY <1>1, <2>2, <2>4, Apart DEF IInv
    <3> QED
      BY <1>1, <1>2, <2>1, <2>4, <3>1
  <2> QED
    BY <2>3, <2>4
<1> QED
  BY <1>1, <1>2, <1>3, <1>4, <1>5, <1>6, <1>7, <1>8 DEF Written

LEMMA Quiets ==
  ASSUME IInv, NEW p \in Proc, UNCHANGED started,
         TakeLease(p) \/ GiveUp(p) \/ Hit(p) \/ TakeBaseline(p) \/ Mark(p)
  PROVE  IInv'
<1>1. Control
  BY DEF IInv
<1>2. CASE TakeLease(p)
  <2>1. Control' /\ Others(p) /\ tasks'[p] = [tasks[p] EXCEPT !.step = FirstStep(p)]
    BY <1>1, <1>2, LeaseTaken
  <2>2. tasks'[p].step = FirstStep(p)
    BY <1>1, <2>1 DEF Control, TypeOK, Task
  <2>3. FirstStep(p) \in {"complete", "save", "move", "purge", "query"}
    BY DEF FirstStep
  <2>4. SameHomes(p) /\ UNCHANGED <<cache, used, dropped>>
    BY <1>2, <2>2, <2>3 DEF TakeLease, SameHomes, Between
  <2> QED
    BY <2>1, <2>2, <2>3, <2>4, Quiet DEF Watched, IInv
<1>3. CASE GiveUp(p) \/ Hit(p)
  <2>1. Control' /\ Others(p) /\ tasks'[p].step = "idle"
    BY <1>1, <1>3, GivenUp
  <2>2. SameHomes(p) /\ UNCHANGED <<cache, used, dropped>>
    BY <1>3, <2>1 DEF GiveUp, Hit, SameHomes, Between, At
  <2> QED
    BY <2>1, <2>2, Quiet DEF Watched, IInv
<1>4. CASE TakeBaseline(p)
  <2>1. Control' /\ Others(p) /\ tasks'[p].step \in {"idle", "details", "lease"}
    BY <1>1, <1>4, BaselineTaken
  <2>2. SameHomes(p) /\ UNCHANGED <<cache, used, dropped>>
    BY <1>4, <2>1 DEF TakeBaseline, SameHomes, Between, At
  <2> QED
    BY <2>1, <2>2, Quiet DEF Watched, IInv
<1>5. CASE Mark(p)
  <2>1. Control' /\ Others(p) /\ tasks'[p].step \in {"idle", "mark", "unmigrate", "unmove"}
    BY <1>1, <1>5, RenamingFits
  <2>2. tasks'[p].step \in {"idle", "unmigrate"}
    <3>1. CASE Return(p)
      BY <1>1, <3>1, ReturnFits DEF Idle
    <3>2. CASE Goto(p, "unmigrate")
      BY <1>1, <3>2, Fields DEF Control, Steps
    <3> QED
      BY <1>5, <3>1, <3>2 DEF Mark
  <2>3. SameHomes(p) /\ UNCHANGED <<cache, used, dropped>>
    BY <1>5, <2>2 DEF Mark, SameHomes, Between, At
  <2> QED
    BY <2>1, <2>2, <2>3, Quiet DEF Watched, IInv
<1> QED
  BY <1>2, <1>3, <1>4, <1>5

LEMMA QueryRecent ==
  ASSUME IInv, NEW p \in Proc, UNCHANGED started, Query(p)
  PROVE  IInv'
<1>0. /\ Control /\ At(p, "query") /\ UNCHANGED <<owner, cache, used, dropped>>
  BY DEF Query, IInv
<1>10. Idle.step = "idle"
  BY DEF Idle
<1>1. /\ Control /\ Control' /\ Others(p) /\ At(p, "query")
      /\ UNCHANGED <<owner, cache, used, dropped>>
      /\ tasks'[p].step \in {"idle", "publish", "put"}
      /\ tasks'[p].step \in {"publish", "put"} =>
              /\ tasks'[p].at = tasks[p].at /\ tasks'[p].by = owner[tasks[p].at]
              /\ tasks'[p].by # None /\ tasks'[p].seen.quota = used[tasks'[p].by]
              /\ tasks'[p].seen.cards \in {NotRead, used[tasks'[p].by]}
  BY <1>0, <1>10, Queried DEF Idles
<1>2. SameHomes(p)
  BY <1>1 DEF SameHomes, Between, At
<1>3. CASE tasks'[p].step = "idle"
  BY <1>1, <1>2, <1>3, Quiet DEF Watched, IInv
<1>4. CASE tasks'[p].step = "put"
  <2>1. Own(p)'
    BY <1>1, <1>4 DEF Own, PublishesAtHome, Publishing, Purged, Reading, PublishesRecent,
                      MergesRecent, At
  <2> QED
    BY <1>1, <1>2, <1>4, <2>1, HomesStay, SameCache, SameCounts, Kept DEF Written, IInv
<1>5. CASE tasks'[p].step = "publish"
  <2>1. PICK a \in Alias : a = tasks[p].at
    BY <1>1 DEF Control, TypeOK, Task
  <2>2. PICK x \in Account : x = owner[a]
    BY <1>1, <1>5, <2>1 DEF Control, TypeOK, Task
  <2>3. Home(x, a)
    BY <1>1, <2>1, <2>2, LeasedHome DEF At, UnderLease, Between
  <2>4. Home(x, a)'
    BY <1>2, <1>1, <2>3, HomesStay
  <2>5. PublishesAtHome(p)'
    BY <1>1, <1>5, <2>1, <2>2, <2>4 DEF PublishesAtHome, Home
  <2>6. dropped[x] <= used[x] /\ dropped[x] \in Nat /\ used[x] \in Nat
    BY <1>1 DEF IInv, Recent, DropsAreMade, Control, TypeOK, Moment
  <2>7. PublishesRecent(p)'
    BY <1>1, <1>5, <2>1, <2>2, <2>6 DEF PublishesRecent
  <2>8. Own(p)'
    BY <1>5, <2>5, <2>7 DEF Own, Purged, Reading, MergesRecent, At
  <2>9. Written(p)
    BY <1>1, <1>2, HomesStay DEF cache, Advances, Descends, Born, Sound, Written
  <2>10. Spares(p)
    <3> SUFFICES ASSUME NEW q \in Proc, q # p, At(q, "archive")
                 PROVE  entries'[tasks[q].at] = None /\ tasks'[p].at # tasks[q].at
      BY DEF Spares
    <3>1. entries[tasks[q].at] = None
      BY DEF IInv, Recent, Purged
    <3>2. tasks[p].at # tasks[q].at
      BY <1>1, Apart DEF At, UnderLease
    <3> QED
      BY <1>1, <1>5, <3>1, <3>2 DEF cache
  <2> QED
    BY <1>1, <2>8, <2>9, <2>10, SameCounts, Kept DEF IInv
<1> QED
  BY <1>1, <1>3, <1>4, <1>5

LEMMA StoreRecent ==
  ASSUME IInv, NEW p \in Proc, UNCHANGED started, Store(p)
  PROVE  IInv'
<1>1. /\ Control /\ Control' /\ Others(p) /\ tasks[p].step = "put"
      /\ UNCHANGED <<owner, used, dropped>>
      /\ tasks'[p].step \in {"idle", "enrich", "consume"}
  BY Stored DEF Store, IInv, At
<1>2. SameHomes(p)
  BY <1>1 DEF SameHomes, Between
<1>3. CASE UNCHANGED cache
  BY <1>1, <1>2, <1>3, Quiet DEF Watched, IInv
<1>4. CASE ~UNCHANGED cache
  <2>1. PICK t \in Task : t = tasks[p]
    BY <1>1 DEF Control, TypeOK
  <2>2. PICK r \in Stamp : Fresh(r) /\ Put(t.at, NewEntry(t.by, t.seen, TRUE, r), r)
    BY <1>4, <2>1 DEF Store
  <2>3. t.at \in Alias /\ t.by \in Account /\ t.by = owner[t.at] /\ t.seen \in Usage
    BY <1>1, <2>1 DEF Control, TaskFits, Task
  <2>4. PICK e \in Entry : /\ e = NewEntry(t.by, t.seen, TRUE, r)
                           /\ e.by = t.by /\ e.rev = r /\ e.quota = t.seen.quota
                           /\ e.cards = t.seen.cards
    BY <2>3, EntryTyped DEF NewEntry
  <2>5. Home(e.by, t.at) /\ t.step \in UnderLease
    BY <1>1, <2>1, <2>3, <2>4, LeasedHome DEF UnderLease, Between
  <2>6. dropped[t.by] <= used[t.by] /\ dropped[t.by] \in Nat /\ used[t.by] \in Nat
    BY <1>1, <2>3 DEF IInv, Recent, DropsAreMade, Control, TypeOK, Moment
  <2>7. t.seen.quota = used[t.by] /\ t.seen.cards \in {NotRead, used[t.by]}
    BY <1>1, <2>1 DEF IInv, Recent, Reading, At
  <2>8. Good(e)
    BY <2>4, <2>6, <2>7 DEF Good
  <2>9. Written(p) /\ Spares(p)
    BY <1>1, <1>2, <2>1, <2>2, <2>4, <2>5, <2>8, Writes
  <2> QED
    BY <1>1, <2>9, SameCounts, OwnFree, Kept DEF IInv, Watched
<1> QED
  BY <1>3, <1>4

LEMMA PublishRecent ==
  ASSUME IInv, NEW p \in Proc, UNCHANGED started, Publish(p)
  PROVE  IInv'
<1>1. /\ Control /\ Control' /\ Others(p) /\ tasks[p].step = "publish" /\ At(p, "publish")
      /\ UNCHANGED <<owner, used, dropped>>
      /\ tasks'[p].step \in {"idle", "details"}
  BY Published DEF Publish, IInv, At
<1>2. SameHomes(p)
  BY <1>1 DEF SameHomes, Between
<1>3. CASE ~Unchanged(p)
  <2>1. UNCHANGED cache
    BY <1>3 DEF Publish
  <2> QED
    BY <1>1, <1>2, <2>1, Quiet DEF Watched, IInv
<1>4. CASE Unchanged(p)
  <2>1. PICK r \in Stamp : LET e == QuotaOnly(p, r) IN
                             /\ Fresh(r)
                             /\ Put(tasks[p].at, e, r)
                             /\ Score(p, [entry |-> e, mutation |-> r])
    BY <1>4 DEF Publish, Overtaken
  <2>2. PICK t \in Task : t = tasks[p]
    BY <1>1 DEF Control, TypeOK
  <2>3. t.at \in Alias /\ t.by \in Account /\ Publishing(p)
    BY <1>1, <1>4, <2>2 DEF Control, TaskFits, Task, Publishing
  <2>4. PICK e \in Entry : /\ e = QuotaOnly(p, r)
                           /\ e.by = t.by /\ e.rev = r /\ e.quota = t.seen.quota
                           /\ e.cards # NotRead =>
                                Holds(t.at, t.by) /\ e.cards = entries[t.at].cards
    BY <1>1, <2>2, <2>3, QuotaOnlyTyped DEF Control
  <2>5. Home(e.by, t.at) /\ t.seen.quota >= dropped[t.by]
    BY <2>2, <2>3, <2>4 DEF IInv, Recent, PublishesAtHome, PublishesRecent
  <2>6. Holds(t.at, t.by) /\ entries[t.at].cards # NotRead => entries[t.at].cards >= dropped[t.by]
    BY <2>3 DEF IInv, Recent, RedeemedNeverReturns, Holds
  <2>7. Good(e)
    BY <2>4, <2>5, <2>6 DEF Good
  <2>8. Written(p) /\ Spares(p)
    BY <1>1, <1>2, <2>1, <2>2, <2>3, <2>4, <2>5, <2>7, Writes
  <2> QED
    BY <1>1, <2>8, SameCounts, OwnFree, Kept DEF IInv, Watched
<1> QED
  BY <1>3, <1>4

LEMMA CompleteRecent ==
  ASSUME IInv, NEW p \in Proc, UNCHANGED started, Complete(p)
  PROVE  IInv'
<1>1. /\ Control /\ Control' /\ Others(p) /\ tasks[p].step = "complete"
      /\ UNCHANGED <<owner, used, dropped>> /\ tasks'[p].step = "idle"
  BY Completed DEF Complete, IInv, At
<1>2. SameHomes(p)
  BY <1>1 DEF SameHomes, Between
<1>3. CASE UNCHANGED cache
  BY <1>1, <1>2, <1>3, Quiet DEF Watched, IInv
<1>4. CASE ~UNCHANGED cache
  <2>1. PICK t \in Task : t = tasks[p]
    BY <1>1 DEF Control, TypeOK
  <2>2. PICK u : u = [t.seen EXCEPT !.cards = used[t.by]]
    OBVIOUS
  <2>3. PICK r \in Stamp : Fresh(r) /\ Put(t.at, NewEntry(t.by, u, TRUE, r), r) /\ Unchanged(p)
    BY <1>4, <2>1, <2>2 DEF Complete
  <2>4. /\ t.at \in Alias /\ t.seen \in Usage /\ t.base.entry # None
        /\ t.base.entry.by = t.by /\ t.seen.quota = t.base.entry.quota
        /\ t.kind = "select" /\ t.by \in Account
    BY <1>1, <2>1 DEF Control, TaskFits, Task
  <2>5. u \in Usage /\ u.quota = t.seen.quota /\ u.cards = used[t.by]
    BY <1>1, <2>2, <2>4 DEF Usage, Control, TypeOK
  <2>6. PICK e \in Entry : /\ e = NewEntry(t.by, u, TRUE, r)
                           /\ e.by = t.by /\ e.rev = r /\ e.quota = t.seen.quota
                           /\ e.cards = used[t.by]
    BY <2>4, <2>5, EntryTyped DEF NewEntry
  <2>7. entries[t.at] = t.base.entry
    BY <1>1, <2>1, <2>3, <2>4, SnapshotTyped DEF Unchanged, Control
  <2>8. Home(e.by, t.at) /\ e.quota >= dropped[e.by]
    BY <2>4, <2>6, <2>7 DEF IInv, Recent, EntryAtHome, RedeemedNeverReturns
  <2>9. dropped[t.by] <= used[t.by] /\ dropped[t.by] \in Nat /\ used[t.by] \in Nat
    BY <1>1, <2>4 DEF IInv, Recent, DropsAreMade, Control, TypeOK, Moment
  <2>10. Good(e)
    BY <2>6, <2>8, <2>9 DEF Good
  <2>11. Written(p) /\ Spares(p)
    BY <1>1, <1>2, <2>1, <2>3, <2>4, <2>6, <2>7, <2>8, <2>10, Writes
  <2> QED
    BY <1>1, <2>11, SameCounts, OwnFree, Kept DEF IInv, Watched
<1> QED
  BY <1>3, <1>4

LEMMA MergeRecent ==
  ASSUME IInv, NEW p \in Proc, UNCHANGED started, Merge(p)
  PROVE  IInv'
<1>1. /\ Control /\ Control' /\ Others(p) /\ tasks[p].step = "merge" /\ At(p, "merge")
      /\ UNCHANGED <<owner, used, dropped>> /\ tasks'[p].step = "idle"
  BY Merged DEF Merge, IInv, At
<1>2. SameHomes(p)
  BY <1>1 DEF SameHomes, Between
<1>3. CASE UNCHANGED cache
  BY <1>1, <1>2, <1>3, Quiet DEF Watched, IInv
<1>4. CASE ~UNCHANGED cache
  <2>1. PICK e : e = [entries[tasks[p].at] EXCEPT !.cards = tasks[p].seen.cards,
                                                  !.complete = TRUE]
    OBVIOUS
  <2>2. Mergeable(p)
    BY <1>4 DEF Merge
  <2>3. PICK r \in Stamp : Fresh(r) /\ Put(tasks[p].at, e, r)
    BY <1>4, <2>1 DEF Merge
  <2>4. tasks[p].by \in Account /\ tasks[p].at \in Alias
    BY <1>1 DEF Control, TaskFits, TypeOK, Task
  <2>5. /\ e \in Entry /\ e.by = tasks[p].by /\ e.rev = entries[tasks[p].at].rev
        /\ e.quota = entries[tasks[p].at].quota /\ e.cards = tasks[p].seen.cards
    BY <1>1, <2>1, <2>2, <2>4, MergedTyped DEF Control
  <2>6. /\ entries[tasks[p].at] # None /\ entries[tasks[p].at].by = tasks[p].by
        /\ entries[tasks[p].at].rev = tasks[p].seen.rev
    BY <2>2 DEF Mergeable, Holds
  <2>7. Home(e.by, tasks[p].at) /\ e.quota >= dropped[e.by]
    BY <2>4, <2>5, <2>6 DEF IInv, Recent, EntryAtHome, RedeemedNeverReturns
  <2>8. e.cards >= dropped[e.by]
    BY <1>1, <2>2, <2>4, <2>5, <2>6 DEF IInv, Recent, MergesRecent, Holds
  <2>9. Good(e)
    BY <2>7, <2>8 DEF Good
  <2>10. Written(p) /\ Spares(p)
    BY <1>1, <1>2, <2>3, <2>5, <2>6, <2>7, <2>9, Writes
  <2> QED
    BY <1>1, <2>10, SameCounts, OwnFree, Kept DEF IInv, Watched
<1> QED
  BY <1>3, <1>4

LEMMA EnrichRecent ==
  ASSUME IInv, NEW p \in Proc, UNCHANGED started, Enrich(p)
  PROVE  IInv'
<1>1. /\ Control /\ Control' /\ Others(p) /\ tasks[p].step = "enrich"
      /\ UNCHANGED <<owner, holder, cache, used, dropped>> /\ tasks'[p].step = "merge"
      /\ tasks'[p].by = tasks[p].by /\ tasks[p].by \in Account
      /\ tasks'[p].seen.cards = used[tasks[p].by]
  BY Enriched DEF Enrich, IInv, At
<1>2. SameHomes(p)
  BY <1>1 DEF SameHomes, Between
<1>3. /\ dropped[tasks[p].by] <= used[tasks[p].by] /\ used[tasks[p].by] \in Nat
      /\ dropped[tasks[p].by] \in Nat
  BY <1>1 DEF IInv, Recent, DropsAreMade, Control, TypeOK, Moment
<1>4. MergesRecent(p)'
  BY <1>1, <1>3 DEF MergesRecent, Holds
<1>5. Own(p)'
  BY <1>1, <1>4 DEF Own, PublishesAtHome, Publishing, Purged, Reading, PublishesRecent, At
<1> QED
  BY <1>1, <1>2, <1>5, HomesStay, SameCache, SameCounts, Kept DEF Written, IInv

(* A redemption takes no reading with it: they are made under the lease of  *)
(* the one profile of its account.                                          *)
LEMMA AttemptRecent ==
  ASSUME IInv, NEW p \in Proc, UNCHANGED started, Consume(p) \/ Unanswered(p) \/ Refused(p)
  PROVE  IInv'
<1>1. /\ Control /\ Control' /\ Others(p) /\ tasks[p].step = "consume" /\ At(p, "consume")
      /\ UNCHANGED <<owner, cache, dropped>> /\ (used' = used \/ Act(p))
      /\ tasks'[p].step \in {"idle", "consume", "drop", "dropBound"}
  BY Attempted DEF Consume, Unanswered, Refused, IInv, At
<1>2. SameHomes(p)
  BY <1>1 DEF SameHomes, Between
<1>3. /\ \A x \in Account : used'[x] >= used[x]
      /\ \A x \in Account : used'[x] # used[x] => x = tasks[p].by
  BY <1>1, Acts
<1>4. ASSUME NEW q \in Proc, q # p, At(q, "put")
      PROVE  used'[tasks[q].by] = used[tasks[q].by]
  <2>1. /\ tasks[q].at # tasks[p].at /\ tasks[q].at \in Alias /\ tasks[p].at \in Alias
        /\ tasks[q].by = owner[tasks[q].at] /\ tasks[p].by = owner[tasks[p].at]
        /\ tasks[q].by \in Account
    BY <1>1, <1>4, Apart DEF At, UnderLease, Control, TypeOK, Task, TaskFits
  <2>2. tasks[q].by # tasks[p].by
    BY <1>1, <2>1 DEF Control, OneOwner
  <2> QED
    BY <1>3, <2>1, <2>2
<1>5. Uses(p)
  BY <1>3, <1>4 DEF Uses
<1>6. Drops(p)
  BY <1>1 DEF Drops
<1>7. Own(p)'
  BY <1>1, OwnFree DEF Watched
<1> QED
  BY <1>1, <1>2, <1>5, <1>6, <1>7, HomesStay, SameCache, Kept DEF Written, IInv

LEMMA NotPublishing ==
  ASSUME NEW p \in Proc, Others(p), NEW q \in Proc, q # p, NEW a, tasks[q].at = a,
         NEW r, Fresh(r), mutation'[a] = r
  PROVE  ~Publishing(q)'
<1> SUFFICES ASSUME Publishing(q)'
             PROVE  FALSE
  OBVIOUS
<1>1. tasks'[q] = tasks[q]
  BY DEF Others
<1>2. [entry |-> entries'[a], mutation |-> mutation'[a]] = tasks[q].base
  BY <1>1 DEF Publishing, Unchanged, Snapshot
<1>3. tasks[q].base.mutation = r
  BY <1>2
<1> QED
  BY <1>3, FreshIs

(* An invalidation that counts has found the one home of its account.       *)
LEMMA DropsOf ==
  ASSUME IInv, NEW p \in Proc, Others(p), Advances, NEW x \in Account, NEW a \in Alias,
         Home(x, a), entries'[a] = None, NEW r, Fresh(r), mutation'[a] = r,
         \A b \in Alias : b # a => entries'[b] = entries[b],
         dropped'[x] = used[x], \A y \in Account : y # x => dropped'[y] = dropped[y],
         UNCHANGED used
  PROVE  Drops(p) /\ Uses(p)
<1>1. used[x] \in Nat /\ Control /\ \A y \in Account : used[y] \in Nat
  BY DEF IInv, Control, TypeOK, Moment
<1>2. ASSUME NEW b \in Alias, entries'[b] # None, entries'[b].by = x
      PROVE  FALSE
  <2>1. b # a /\ entries[b] # None /\ entries[b].by = x
    BY <1>2
  <2>2. Home(x, b)
    BY <2>1 DEF IInv, Recent, EntryAtHome
  <2> QED
    BY <1>1, <2>1, <2>2, HomeUnique
<1>3. ASSUME NEW q \in Proc, q # p, Publishing(q)', tasks[q].by = x
      PROVE  FALSE
  <2>1. Publishing(q) /\ tasks[q].at \in Alias
    BY <1>1, <1>3, StillPublishing DEF Control, TypeOK, Task
  <2>2. Home(x, tasks[q].at)
    BY <1>3, <2>1 DEF IInv, Recent, PublishesAtHome
  <2>3. tasks[q].at = a
    BY <1>1, <2>1, <2>2, HomeUnique
  <2> QED
    BY <1>3, <2>3, NotPublishing
<1>4. Drops(p)
  BY <1>1, <1>2, <1>3 DEF Drops
<1> QED
  BY <1>1, <1>4 DEF Uses

LEMMA InvalidateRecent ==
  ASSUME IInv, NEW p \in Proc, UNCHANGED started, Invalidate(p) \/ InvalidateBound(p)
  PROVE  IInv'
<1>1. /\ Control /\ Control' /\ Others(p) /\ tasks[p].step \in {"drop", "dropBound"}
      /\ UNCHANGED <<owner, used>>
      /\ tasks'[p].step \in {"idle", "query"}
  BY Invalidated DEF Invalidate, InvalidateBound, IInv, At
<1>2. SameHomes(p)
  BY <1>1 DEF SameHomes, Between
<1>3. PICK t \in Task : t = tasks[p]
  BY <1>1 DEF Control, TypeOK
<1>4. t.at \in Alias /\ t.by \in Account
  BY <1>1, <1>3 DEF Control, TaskFits, Task
<1>5. Own(p)'
  BY <1>1, OwnFree DEF Watched
<1>6. CASE UNCHANGED <<cache, dropped>>
  BY <1>1, <1>2, <1>6, Quiet DEF Watched, IInv
<1>7. ASSUME NEW r \in Stamp, Fresh(r), Drop(t.at, r),
             dropped' = dropped \/ (Noted(p) /\ Home(t.by, t.at))
      PROVE  IInv'
  <2>1. Put(tasks[p].at, None, r)
    BY <1>3, <1>7 DEF Drop
  <2>2. /\ Written(p) /\ Spares(p) /\ entries'[t.at] = None /\ mutation'[t.at] = r
        /\ \A b \in Alias : b # t.at => entries'[b] = entries[b]
    <3>1. None \in Entry \cup {None}
      OBVIOUS
    <3> QED
      BY <1>1, <1>2, <1>3, <1>7, <2>1, <3>1, Writes
  <2>3. CASE dropped' = dropped
    BY <1>1, <1>5, <2>2, <2>3, SameCounts, Kept DEF IInv
  <2>4. CASE Noted(p) /\ Home(t.by, t.at)
    <3>1. /\ dropped'[t.by] = used[t.by]
          /\ \A y \in Account : y # t.by => dropped'[y] = dropped[y]
      BY <1>1, <1>3, <1>4, <2>4, NotedTyped DEF Control
    <3>2. Drops(p) /\ Uses(p)
      BY <1>1, <1>4, <1>7, <2>2, <2>4, <3>1, DropsOf DEF Written
    <3> QED
      BY <1>1, <1>5, <2>2, <3>2, Kept DEF IInv
  <2> QED
    BY <1>7, <2>3, <2>4
<1>8. CASE Invalidate(p)
  <2>1. t.by = owner[t.at] /\ Home(t.by, t.at)
    <3>1. t.step = "drop" /\ t.by = owner[t.at]
      BY <1>1, <1>3, <1>8 DEF Invalidate, At, Control, TaskFits
    <3> QED
      BY <1>1, <1>3, <3>1, LeasedHome DEF UnderLease, Between
  <2> QED
    BY <1>3, <1>6, <1>7, <1>8, <2>1 DEF Invalidate
<1>9. CASE InvalidateBound(p)
  <2>1. owner[t.at] = t.by /\ ~Ahead(t.at) => Home(t.by, t.at)
    BY DEF Home
  <2>2. CASE entries[t.at] = None \/ Holds(t.at, t.by)
    BY <1>3, <1>7, <1>9, <2>1, <2>2 DEF InvalidateBound
  <2>3. CASE ~(entries[t.at] = None \/ Holds(t.at, t.by))
    <3>1. Home(entries[t.at].by, t.at) /\ entries[t.at].by # t.by
      BY <1>4, <2>3 DEF IInv, Recent, EntryAtHome, Holds
    <3>2. owner[t.at] # t.by
      BY <1>1, <1>4, <3>1, OwnerHome
    <3> QED
      BY <1>3, <1>6, <1>9, <2>3, <3>2 DEF InvalidateBound
  <2> QED
    BY <2>2, <2>3
<1> QED
  BY <1>8, <1>9

LEMMA PurgeRecent ==
  ASSUME IInv, NEW p \in Proc, UNCHANGED started, Purge(p)
  PROVE  IInv'
<1>1. /\ Control /\ Control' /\ Others(p) /\ tasks[p].step = "purge"
      /\ UNCHANGED <<owner, used, dropped>>
      /\ tasks'[p].step \in {"idle", "archive"}
  BY PurgedFits DEF Purge, IInv, At
<1>2. SameHomes(p)
  BY <1>1 DEF SameHomes, Between
<1>3. PICK t \in Task : t = tasks[p]
  BY <1>1 DEF Control, TypeOK
<1>4. CASE owner[t.at] = None
  <2>1. Return(p) /\ UNCHANGED cache
    BY <1>3, <1>4 DEF Purge
  <2>2. tasks'[p].step = "idle"
    BY <1>1, <2>1, ReturnFits DEF Idle
  <2> QED
    BY <1>1, <1>2, <2>1, <2>2, Quiet DEF Watched, IInv
<1>5. CASE owner[t.at] # None
  <2>1. Goto(p, "archive")
    BY <1>3, <1>5 DEF Purge
  <2>2. PICK r \in Stamp : Fresh(r) /\ Put(t.at, None, r)
    BY <1>3, <1>5 DEF Purge, Drop
  <2>3. tasks'[p].step = "archive" /\ tasks'[p].at = t.at
    BY <1>1, <1>3, <2>1, Fields DEF Control, Steps
  <2>4. /\ Written(p) /\ Spares(p) /\ entries'[t.at] = None /\ mutation'[t.at] = r
    <3>1. None \in Entry \cup {None}
      OBVIOUS
    <3> QED
      BY <1>1, <1>2, <1>3, <2>2, <2>3, <3>1, Writes
  <2>5. Purged(p)'
    <3> SUFFICES ASSUME NEW q \in Proc, tasks'[q].at = t.at, Publishing(q)'
                 PROVE  FALSE
      BY <2>3, <2>4 DEF Purged
    <3>1. q # p
      BY <2>3 DEF Publishing, At
    <3>2. tasks[q].at = t.at
      BY <1>1, <3>1 DEF Others
    <3> QED
      BY <1>1, <2>2, <2>4, <3>1, <3>2, NotPublishing
  <2>6. Own(p)'
    BY <2>3, <2>5 DEF Own, PublishesAtHome, Publishing, Reading, PublishesRecent, MergesRecent, At
  <2> QED
    BY <1>1, <2>4, <2>6, SameCounts, Kept DEF IInv
<1> QED
  BY <1>4, <1>5

----------------------------------------------------------------------------
(* Steps that move homes                                                    *)

LEMMA MovesHomes ==
  ASSUME IInv, Control', NEW p \in Proc, Others(p), HomesKept(p),
         UNCHANGED <<cache, used, dropped>>, tasks'[p].step \notin Watched
  PROVE  Recent'
BY SameCache, SameCounts, OwnFree, Kept DEF Written, Watched

LEMMA SaveRecent ==
  ASSUME IInv, NEW p \in Proc, UNCHANGED started, Save(p)
  PROVE  IInv'
<1>1. /\ Control /\ Control' /\ Others(p) /\ tasks[p].step = "save"
      /\ UNCHANGED <<cache, used, dropped>>
      /\ tasks'[p].step = "idle"
  BY SavedFits DEF Save, IInv, At
<1>2. \A a \in Alias : owner[a] # None => owner'[a] = owner[a]
  BY <1>1 DEF Save, Control, TypeOK
<1>3. \A q \in Proc : /\ Between(q)' <=> Between(q)
                      /\ Between(q) => tasks'[q] = tasks[q] /\ tasks[q].other \in Alias
  BY <1>1, BetweenFits DEF Others, Between
<1>4. \A a : Ahead(a)' <=> Ahead(a)
  BY <1>3 DEF Ahead, Between
<1>5. HomesKept(p)
  <2> SUFFICES ASSUME NEW x \in Account, NEW a \in Alias, Home(x, a)
               PROVE  Home(x, a)'
    BY DEF HomesKept
  <2>1. x # None
    OBVIOUS
  <2>2. CASE owner[a] = x /\ ~Ahead(a)
    BY <1>2, <1>4, <2>1, <2>2 DEF Home
  <2>3. CASE \E q \in Proc : Between(q) /\ tasks[q].at = a /\ owner[tasks[q].other] = x
    BY <1>2, <1>3, <2>1, <2>3 DEF Home
  <2> QED
    BY <2>2, <2>3 DEF Home
<1> QED
  BY <1>1, <1>5, MovesHomes DEF Watched, IInv

LEMMA ArchiveRecent ==
  ASSUME IInv, NEW p \in Proc, UNCHANGED started, Archive(p)
  PROVE  IInv'
<1>1. /\ Control /\ Control' /\ Others(p) /\ tasks[p].step = "archive" /\ At(p, "archive")
      /\ UNCHANGED <<cache, used, dropped>>
      /\ tasks'[p].step = "idle"
  BY SavedFits DEF Archive, IInv, At
<1>2. \A a \in Alias : a # tasks[p].at => owner'[a] = owner[a]
  BY <1>1 DEF Archive, Control, TypeOK
<1>3. \A q \in Proc : /\ Between(q)' <=> Between(q)
                      /\ Between(q) => tasks'[q] = tasks[q] /\ tasks[q].other \in Alias
  BY <1>1, BetweenFits DEF Others, Between
<1>4. \A a : Ahead(a)' <=> Ahead(a)
  BY <1>3 DEF Ahead, Between
<1>5. \A q \in Proc : Between(q) => tasks[q].other # tasks[p].at
  <2> SUFFICES ASSUME NEW q \in Proc, Between(q)
               PROVE  tasks[q].other # tasks[p].at
    OBVIOUS
  <2>1. q # p
    BY <1>1 DEF Between
  <2> QED
    BY <1>1, <2>1, BetweenFits, Apart DEF UnderLease
<1>6. Advances /\ TypeOK
  BY <1>1 DEF Advances, cache, Control
<1>7. HomesKept(p)
  <2> SUFFICES ASSUME NEW x \in Account, NEW a \in Alias, Home(x, a)
               PROVE  \/ Home(x, a)'
                      \/ /\ entries'[a] = None
                         /\ \A q \in Proc : q # p /\ tasks[q].at = a => ~Publishing(q)'
    BY DEF HomesKept
  <2>1. CASE a = tasks[p].at
    <3>1. /\ entries[a] = None
          /\ \A q \in Proc : tasks[q].at = a => ~Publishing(q)
      BY <1>1, <2>1 DEF IInv, Recent, Purged
    <3>2. entries'[a] = None
      BY <1>1, <3>1 DEF cache
    <3> QED
      BY <1>1, <1>6, <3>1, <3>2, StillPublishing
  <2>2. CASE a # tasks[p].at /\ owner[a] = x /\ ~Ahead(a)
    BY <1>2, <1>4, <2>2 DEF Home
  <2>3. CASE \E q \in Proc : Between(q) /\ tasks[q].at = a /\ owner[tasks[q].other] = x
    BY <1>2, <1>3, <1>5, <2>3 DEF Home
  <2> QED
    BY <2>1, <2>2, <2>3 DEF Home
<1> QED
  BY <1>1, <1>7, MovesHomes DEF Watched, IInv

(* The other renamings are elsewhere.                                       *)
LEMMA Elsewhere ==
  ASSUME Control, NEW p \in Proc, tasks[p].step \in Renaming, NEW q \in Proc, q # p, Between(q),
         Others(p)
  PROVE  /\ tasks[q].at \notin {tasks[p].at, tasks[p].other}
         /\ tasks[q].other \notin {tasks[p].at, tasks[p].other}
         /\ tasks[q].other \in Alias /\ tasks'[q] = tasks[q] /\ Between(q)'
<1>1. tasks[p].step \in UnderLease
  BY DEF UnderLease
<1>2. tasks'[q] = tasks[q]
  BY DEF Others
<1> QED
  BY <1>1, <1>2, BetweenFits, Apart DEF Between

LEMMA MoveRecent ==
  ASSUME IInv, NEW p \in Proc, UNCHANGED started, Move(p)
  PROVE  IInv'
<1>1. /\ Control /\ Control' /\ Others(p) /\ tasks[p].step = "move"
      /\ UNCHANGED <<cache, used, dropped>>
      /\ tasks'[p].step \in {"idle", "migrate"}
  BY MovedFits DEF Move, IInv, At
<1>2. PICK t \in Task : t = tasks[p]
  BY <1>1 DEF Control, TypeOK
<1>3. t.at \in Alias /\ t.other \in Alias /\ t.step \in Renaming
  BY <1>1, <1>2 DEF Task, Renaming
<1>4. CASE ~(owner[t.at] # None /\ owner[t.other] = None)
  <2>1. Return(p) /\ UNCHANGED owner
    BY <1>2, <1>4 DEF Move
  <2>2. tasks'[p].step = "idle"
    BY <1>1, <2>1, ReturnFits DEF Idle
  <2>3. SameHomes(p)
    BY <1>1, <2>1, <2>2 DEF SameHomes, Between
  <2> QED
    BY <1>1, <2>2, <2>3, Quiet DEF Watched, IInv
<1>5. CASE owner[t.at] # None /\ owner[t.other] = None
  <2>1. /\ owner' = [owner EXCEPT ![t.other] = owner[t.at], ![t.at] = None]
        /\ Goto(p, "migrate")
    BY <1>2, <1>5 DEF Move
  <2>2. /\ owner'[t.other] = owner[t.at] /\ owner'[t.at] = None
        /\ \A c \in Alias : c \notin {t.at, t.other} => owner'[c] = owner[c]
    BY <1>1, <1>3, <1>5, <2>1, OneMoved DEF Control
  <2>3. tasks'[p].step = "migrate" /\ tasks'[p].at = t.at /\ tasks'[p].other = t.other
    BY <1>1, <1>2, <2>1, Fields DEF Control, Steps
  <2>4. HomesKept(p)
    <3> SUFFICES ASSUME NEW x \in Account, NEW a \in Alias, Home(x, a)
                 PROVE  Home(x, a)'
      BY DEF HomesKept
    <3>1. CASE owner[a] = x /\ ~Ahead(a) /\ a = t.at
      BY <2>2, <2>3, <3>1 DEF Home, Between
    <3>2. CASE owner[a] = x /\ ~Ahead(a) /\ a # t.at
      <4>1. a # t.other /\ owner'[a] = x
        BY <1>5, <2>2, <3>2
      <4>2. ~Ahead(a)'
        BY <1>1, <2>3, <3>2, <4>1 DEF Ahead, Others
      <4> QED
        BY <4>1, <4>2 DEF Home
    <3>3. CASE \E q \in Proc : Between(q) /\ tasks[q].at = a /\ owner[tasks[q].other] = x
      <4>1. PICK q \in Proc : Between(q) /\ tasks[q].at = a /\ owner[tasks[q].other] = x
        BY <3>3
      <4>2. q # p
        BY <1>1, <4>1 DEF Between
      <4> QED
        BY <1>1, <1>2, <1>3, <2>2, <4>1, <4>2, Elsewhere DEF Home
    <3> QED
      BY <3>1, <3>2, <3>3 DEF Home
  <2> QED
    BY <1>1, <2>3, <2>4, MovesHomes DEF Watched, IInv
<1> QED
  BY <1>4, <1>5

LEMMA MoveBackRecent ==
  ASSUME IInv, NEW p \in Proc, UNCHANGED started, MoveBack(p)
  PROVE  IInv'
<1>1. /\ Control /\ Control' /\ Others(p) /\ tasks[p].step = "unmove"
      /\ UNCHANGED <<cache, used, dropped>>
      /\ tasks'[p].step = "idle"
  BY MovedBackFits DEF MoveBack, IInv, At
<1>2. PICK t \in Task : t = tasks[p]
  BY <1>1 DEF Control, TypeOK
<1>3. /\ t.at \in Alias /\ t.other \in Alias /\ t.step \in Renaming /\ Between(p)
      /\ owner[t.at] = None /\ owner[t.other] # None
  BY <1>1, <1>2 DEF Task, Renaming, Between, Control, TaskFits
<1>4. /\ owner'[t.at] = owner[t.other] /\ owner'[t.other] = None
      /\ \A c \in Alias : c \notin {t.at, t.other} => owner'[c] = owner[c]
  <2>1. owner' = [owner EXCEPT ![t.at] = owner[t.other], ![t.other] = None]
    BY <1>2 DEF MoveBack
  <2> QED
    BY <1>1, <1>3, <2>1, OneMoved DEF Control
<1>5. \A a : Ahead(a)' => Ahead(a)
  BY <1>1 DEF Ahead, Others
<1>6. HomesKept(p)
  <2> SUFFICES ASSUME NEW x \in Account, NEW a \in Alias, Home(x, a)
               PROVE  Home(x, a)'
    BY DEF HomesKept
  <2>1. CASE owner[a] = x /\ ~Ahead(a)
    <3>1. a # t.at /\ a # t.other
      BY <1>2, <1>3, <2>1 DEF Ahead, Between
    <3> QED
      BY <1>4, <1>5, <2>1, <3>1 DEF Home
  <2>2. ASSUME NEW q \in Proc, q # p, Between(q), tasks[q].at = a, owner[tasks[q].other] = x
        PROVE  Home(x, a)'
    BY <1>1, <1>2, <1>3, <1>4, <2>2, Elsewhere DEF Home
  <2>3. CASE t.at = a /\ owner[t.other] = x
    <3>1. ~Ahead(a)'
      <4> SUFFICES ASSUME NEW q \in Proc, tasks'[q].step \in {"migrate", "unmove"},
                          tasks'[q].other = a
                   PROVE  FALSE
        BY DEF Ahead
      <4>1. q # p
        BY <1>1
      <4>2. Between(q) /\ tasks[q].other = a
        BY <1>1, <4>1 DEF Others, Between
      <4> QED
        BY <1>1, <1>2, <1>3, <2>3, <4>1, <4>2, Elsewhere
    <3> QED
      BY <1>4, <2>3, <3>1 DEF Home
  <2> QED
    BY <1>2, <2>1, <2>2, <2>3 DEF Home
<1> QED
  BY <1>1, <1>6, MovesHomes DEF Watched, IInv

LEMMA MigrateKept ==
  ASSUME IInv, Control', NEW p \in Proc, Others(p), tasks[p].step \in Renaming,
         NEW from \in {tasks[p].at, tasks[p].other}, NEW to \in {tasks[p].at, tasks[p].other},
         from # to, NEW r \in Stamp, Fresh(r),
         entries'  = [entries EXCEPT ![to] = entries[from], ![from] = None],
         mutation' = [mutation EXCEPT ![to] = r, ![from] = r],
         UNCHANGED <<used, dropped>>, tasks'[p].step \notin Watched,
         \A x \in Account, a \in Alias : Home(x, a) /\ a # from => Home(x, a)',
         \A x \in Account : Home(x, from) => Home(x, to)'
  PROVE  Recent'
<1>1. from \in Alias /\ to \in Alias /\ TypeOK /\ Control
  BY DEF IInv, Control, TypeOK, Task
<1>2. /\ entries'[to] = entries[from] /\ entries'[from] = None
      /\ mutation'[to] = r /\ mutation'[from] = r
      /\ \A b \in Alias : b \notin {from, to} =>
           entries'[b] = entries[b] /\ mutation'[b] = mutation[b]
  BY <1>1 DEF TypeOK
<1>3. HomesKept(p)
  <2> SUFFICES ASSUME NEW x \in Account, Home(x, from)
               PROVE  /\ entries'[from] = None
                      /\ \A q \in Proc : q # p /\ tasks[q].at = from => ~Publishing(q)'
    BY DEF HomesKept
  <2> QED
    BY <1>2, NotPublishing
<1>4. Advances
  <2>1. \A q \in Proc : tasks[q].base.mutation # r
    BY FreshIs
  <2> QED
    BY <1>2, <2>1 DEF Advances
<1>5. \A b \in Alias : entries'[b] # None => \E c \in Alias : entries[c] = entries'[b]
  BY <1>1, <1>2
<1>6. Descends /\ Sound
  BY <1>5 DEF Descends, Sound
<1>7. Born
  <2> SUFFICES ASSUME NEW x \in Account, entries'[to] # None, entries'[to].by = x
               PROVE  Home(x, to)'
    BY <1>2 DEF Born
  <2>1. Home(x, from)
    BY <1>1, <1>2 DEF IInv, Recent, EntryAtHome
  <2> QED
    BY <2>1
<1>8. Spares(p)
  <2> SUFFICES ASSUME NEW q \in Proc, q # p, At(q, "archive")
               PROVE  entries'[tasks[q].at] = None
    BY DEF Spares, Publishing, At, Watched
  <2>1. entries[tasks[q].at] = None /\ tasks[q].at \in Alias
    BY <1>1 DEF IInv, Recent, Purged, TypeOK, Task
  <2>2. tasks[q].at \notin {from, to}
    BY <1>1, Apart DEF At, UnderLease
  <2> QED
    BY <1>2, <2>1, <2>2
<1> QED
  BY <1>3, <1>4, <1>6, <1>7, <1>8, SameCounts, OwnFree, Kept DEF Written

LEMMA MigrateRecent ==
  ASSUME IInv, NEW p \in Proc, UNCHANGED started, Migrate(p)
  PROVE  IInv'
<1>1. /\ Control /\ Control' /\ Others(p) /\ tasks[p].step = "migrate"
      /\ UNCHANGED <<owner, holder, used, dropped>>
      /\ tasks'[p].step \in {"idle", "mark", "unmigrate", "unmove"}
  BY RenamingFits DEF Migrate, IInv, At
<1>2. PICK t \in Task : t = tasks[p]
  BY <1>1 DEF Control, TypeOK
<1>3. /\ t.at \in Alias /\ t.other \in Alias /\ t.step \in Renaming /\ Between(p)
      /\ owner[t.at] = None /\ owner[t.other] # None
  BY <1>1, <1>2 DEF Task, Renaming, Between, Control, TaskFits
<1>4. CASE Goto(p, "unmove") /\ UNCHANGED cache
  <2>1. tasks'[p].step = "unmove" /\ tasks'[p].at = t.at /\ tasks'[p].other = t.other
    BY <1>1, <1>2, <1>4, Fields DEF Control, Steps
  <2>2. SameHomes(p)
    BY <1>1, <1>2, <2>1 DEF SameHomes, Between
  <2> QED
    BY <1>1, <1>4, <2>1, <2>2, Quiet DEF Watched, IInv
<1>5. CASE MigrateAlias(t.at, t.other) /\ Goto(p, "mark")
  <2>1. tasks'[p].step = "mark"
    BY <1>1, <1>2, <1>5, Fields DEF Control, Steps
  <2>2. PICK r \in Stamp :
          /\ Fresh(r)
          /\ entries'  = [entries EXCEPT ![t.other] = entries[t.at], ![t.at] = None]
          /\ mutation' = [mutation EXCEPT ![t.other] = r, ![t.at] = r]
    BY <1>5 DEF MigrateAlias
  <2>3. \A q \in Proc : q # p => tasks'[q] = tasks[q]
    BY <1>1 DEF Others
  <2>4. \A a : Ahead(a)' => Ahead(a)
    BY <2>1, <2>3 DEF Ahead
  <2>5. ASSUME NEW x \in Account, NEW a \in Alias, Home(x, a), a # t.at
        PROVE  Home(x, a)'
    <3>1. CASE owner[a] = x /\ ~Ahead(a)
      BY <1>1, <2>4, <3>1 DEF Home
    <3>2. CASE \E q \in Proc : Between(q) /\ tasks[q].at = a /\ owner[tasks[q].other] = x
      BY <1>1, <1>2, <2>3, <2>5, <3>2 DEF Home, Between
    <3> QED
      BY <2>5, <3>1, <3>2 DEF Home
  <2>6. ASSUME NEW x \in Account, Home(x, t.at)
        PROVE  Home(x, t.other)'
    <3>1. PICK q \in Proc : Between(q) /\ tasks[q].at = t.at /\ owner[tasks[q].other] = x
      BY <1>3, <2>6 DEF Home
    <3>2. q = p
      BY <1>1, <1>2, <1>3, <3>1, Elsewhere
    <3>3. owner'[t.other] = x
      BY <1>1, <1>2, <3>1, <3>2
    <3>4. ~Ahead(t.other)'
      <4> SUFFICES ASSUME NEW s \in Proc, tasks'[s].step \in {"migrate", "unmove"},
                          tasks'[s].other = t.other
                   PROVE  FALSE
        BY <1>1 DEF Ahead
      <4>1. s # p
        BY <2>1
      <4>2. Between(s) /\ tasks[s].other = t.other
        BY <2>3, <4>1 DEF Between
      <4> QED
        BY <1>1, <1>2, <1>3, <4>1, <4>2, Elsewhere
    <3> QED
      BY <3>3, <3>4 DEF Home
  <2>7. t.at # t.other
    BY <1>3
  <2> QED
    BY <1>1, <1>2, <1>3, <2>1, <2>2, <2>5, <2>6, <2>7, MigrateKept DEF Watched, IInv
<1> QED
  BY <1>2, <1>4, <1>5 DEF Migrate

LEMMA MigrateBackRecent ==
  ASSUME IInv, NEW p \in Proc, UNCHANGED started, MigrateBack(p)
  PROVE  IInv'
<1>1. /\ Control /\ Control' /\ Others(p) /\ tasks[p].step = "unmigrate"
      /\ UNCHANGED <<owner, holder, used, dropped>>
  BY RenamingFits DEF MigrateBack, IInv, At
<1>2. PICK t \in Task : t = tasks[p]
  BY <1>1 DEF Control, TypeOK
<1>3. /\ t.at \in Alias /\ t.other \in Alias /\ t.step \in Renaming /\ ~Between(p)
      /\ owner[t.at] = None /\ owner[t.other] # None /\ t.at # t.other
  BY <1>1, <1>2 DEF Task, Renaming, Between, Control, TaskFits
<1>4. tasks'[p].step = "unmove" /\ tasks'[p].at = t.at /\ tasks'[p].other = t.other
  BY <1>1, <1>2, Fields DEF Control, Steps, MigrateBack
<1>5. PICK r \in Stamp :
        /\ Fresh(r)
        /\ entries'  = [entries EXCEPT ![t.at] = entries[t.other], ![t.other] = None]
        /\ mutation' = [mutation EXCEPT ![t.at] = r, ![t.other] = r]
  BY <1>2 DEF MigrateBack, MigrateAlias
<1>6. \A q \in Proc : q # p => tasks'[q] = tasks[q]
  BY <1>1 DEF Others
<1>7. ASSUME NEW x \in Account, NEW a \in Alias, Home(x, a), a # t.other
      PROVE  Home(x, a)'
  <2>1. CASE owner[a] = x /\ ~Ahead(a)
    <3>1. ~Ahead(a)'
      BY <1>4, <1>6, <1>7, <2>1 DEF Ahead
    <3> QED
      BY <1>1, <2>1, <3>1 DEF Home
  <2>2. CASE \E q \in Proc : Between(q) /\ tasks[q].at = a /\ owner[tasks[q].other] = x
    BY <1>1, <1>3, <1>6, <2>2 DEF Home, Between
  <2> QED
    BY <1>7, <2>1, <2>2 DEF Home
<1>8. ASSUME NEW x \in Account, Home(x, t.other)
      PROVE  Home(x, t.at)'
  <2>1. x = owner[t.other]
    BY <1>1, <1>3, <1>8, OwnerHome
  <2> QED
    BY <1>1, <1>4, <2>1 DEF Home, Between
<1> QED
  BY <1>1, <1>2, <1>3, <1>4, <1>5, <1>7, <1>8, MigrateKept DEF Watched, IInv

LEMMA BeginRecent ==
  ASSUME IInv, NEW p \in Proc, NEW q \in Requests, Begin(p, q)
  PROVE  IInv'
<1>1. /\ Control /\ Control' /\ Others(p) /\ tasks[p].step = "idle"
      /\ UNCHANGED <<owner, cache, used, dropped>>
      /\ tasks'[p].step \in {"baseline", "lease"}
  BY Begun DEF Begin, IInv, At
<1>2. SameHomes(p)
  BY <1>1 DEF SameHomes, Between
<1> QED
  BY <1>1, <1>2, Quiet DEF Watched, IInv

----------------------------------------------------------------------------
(* The invariant and what follows from it                                   *)

LEMMA InitIInv == Init => IInv
<1> SUFFICES ASSUME Init
             PROVE  IInv
  OBVIOUS
<1>1. /\ Idle \in Task /\ Idle.step = "idle" /\ Idle.kind = "list" /\ ~Idle.card.acted
  BY IdleIsTask DEF Idle, Unsent
<1>2. \A p \in Proc : tasks[p] = Idle
  BY DEF Init
<1>3. TypeOK
  <2>1. 0 \in Moment /\ 0 \in 0..MaxOps
    BY DEF Moment
  <2> QED
    BY <1>1, <2>1 DEF Init, TypeOK
<1>4. OneOwner
  BY DEF Init, OneOwner
<1>5. \A p \in Proc : LeaseFits(p) /\ TaskFits(p) /\ ActedIsDoubted(p)
  BY <1>1, <1>2 DEF LeaseFits, TaskFits, ActedIsDoubted, UnderLease, Renaming
<1>6. EntryAtHome /\ DropsAreMade /\ RedeemedNeverReturns
  BY DEF Init, EntryAtHome, DropsAreMade, RedeemedNeverReturns
<1>7. \A p \in Proc : /\ PublishesAtHome(p) /\ Purged(p)
                      /\ Reading(p) /\ PublishesRecent(p) /\ MergesRecent(p)
  BY <1>1, <1>2 DEF PublishesAtHome, Publishing, Purged, Reading, PublishesRecent, MergesRecent, At
<1> QED
  BY <1>3, <1>4, <1>5, <1>6, <1>7 DEF IInv, Control, Recent

LEMMA StepIInv ==
  ASSUME IInv, NEW p \in Proc, Step(p), UNCHANGED started
  PROVE  IInv'
<1>1. CASE TakeLease(p) \/ GiveUp(p) \/ Hit(p) \/ TakeBaseline(p) \/ Mark(p)
  BY <1>1, Quiets
<1>2. CASE Query(p)
  BY <1>2, QueryRecent
<1>3. CASE Store(p)
  BY <1>3, StoreRecent
<1>4. CASE Publish(p)
  BY <1>4, PublishRecent
<1>5. CASE Complete(p)
  BY <1>5, CompleteRecent
<1>6. CASE Enrich(p)
  BY <1>6, EnrichRecent
<1>7. CASE Merge(p)
  BY <1>7, MergeRecent
<1>8. CASE Consume(p) \/ Unanswered(p) \/ Refused(p)
  BY <1>8, AttemptRecent
<1>9. CASE Invalidate(p) \/ InvalidateBound(p)
  BY <1>9, InvalidateRecent
<1>10. CASE Save(p)
  BY <1>10, SaveRecent
<1>11. CASE Move(p)
  BY <1>11, MoveRecent
<1>12. CASE Migrate(p)
  BY <1>12, MigrateRecent
<1>13. CASE MigrateBack(p)
  BY <1>13, MigrateBackRecent
<1>14. CASE MoveBack(p)
  BY <1>14, MoveBackRecent
<1>15. CASE Purge(p)
  BY <1>15, PurgeRecent
<1>16. CASE Archive(p)
  BY <1>16, ArchiveRecent
<1> QED
  BY <1>1, <1>2, <1>3, <1>4, <1>5, <1>6, <1>7, <1>8, <1>9, <1>10, <1>11, <1>12, <1>13, <1>14,
     <1>15, <1>16 DEF Step

LEMMA NextIInv == IInv /\ [Next]_vars => IInv'
<1> SUFFICES ASSUME IInv, [Next]_vars
             PROVE  IInv'
  OBVIOUS
<1>1. CASE UNCHANGED vars
  BY <1>1 DEF vars, cache, IInv, Control, Recent, TypeOK, OneOwner, LeaseFits, TaskFits,
     ActedIsDoubted, EntryAtHome, DropsAreMade, RedeemedNeverReturns, PublishesAtHome, Purged,
     Reading, PublishesRecent, MergesRecent, Home, Ahead, Between, Publishing, At, Unchanged,
     Snapshot, Holds
<1>2. CASE Next /\ ~UNCHANGED vars
  BY <1>2, StepIInv, BeginRecent DEF Next, Rest
<1> QED
  BY <1>1, <1>2

THEOREM Invariant == Spec => []IInv
<1>1. Init => IInv
  BY InitIInv
<1>2. IInv /\ [Next]_vars => IInv'
  BY NextIInv
<1> QED
  BY <1>1, <1>2, PTL DEF Spec

(* The variables stay in their types: whatever is published, merged or      *)
(* migrated is an entry of an account, and every task keeps to its steps.   *)
THEOREM TypesAreKept == Spec => []TypeOK
BY Invariant, PTL DEF IInv, Control

(* Once a redemption's invalidation has run, no selection, merge, listing   *)
(* or renaming under way brings back what the cache said before it.         *)
THEOREM RedemptionsAreFinal == Spec => []RedeemedNeverReturns
BY Invariant, PTL DEF IInv, Recent

(* No saved profile has a usage of another account: where a profile is, no  *)
(* entry but its own is at home.                                            *)
THEOREM EntriesNameTheirOwners == Spec => []EntryNamesItsOwner
<1>1. IInv => EntryNamesItsOwner
  BY OwnerHome DEF IInv, Recent, EntryAtHome, EntryNamesItsOwner
<1> QED
  BY <1>1, Invariant, PTL

----------------------------------------------------------------------------
(* The end of a redemption                                                  *)

LEMMA StepMoves ==
  ASSUME Control, NEW p \in Proc, Step(p), UNCHANGED started
  PROVE  Others(p)
<1>1. CASE TakeLease(p) \/ GiveUp(p) \/ Hit(p) \/ TakeBaseline(p) \/ Query(p) \/ Store(p)
  BY <1>1, LeaseTaken, GivenUp, BaselineTaken, Queried, Stored
<1>2. CASE Publish(p) \/ Complete(p) \/ Enrich(p) \/ Merge(p) \/ Purge(p)
  BY <1>2, Published, Completed, Enriched, Merged, PurgedFits
<1>3. CASE \/ Consume(p) \/ Unanswered(p) \/ Refused(p)
           \/ Invalidate(p) \/ InvalidateBound(p)
  BY <1>3, Attempted, Invalidated
<1>4. CASE \/ Save(p) \/ Archive(p) \/ Move(p) \/ MoveBack(p)
           \/ Migrate(p) \/ Mark(p) \/ MigrateBack(p)
  BY <1>4, SavedFits, MovedFits, MovedBackFits, RenamingFits
<1> QED
  BY <1>1, <1>2, <1>3, <1>4 DEF Step

LEMMA OnlyAttempts ==
  ASSUME NEW p \in Proc, Step(p), At(p, "consume")
  PROVE  Consume(p) \/ Unanswered(p) \/ Refused(p)
<1>1. tasks[p].step = "consume"
  BY DEF At
<1>2. ~TakeLease(p) /\ ~GiveUp(p) /\ ~Query(p) /\ ~Hit(p) /\ ~Store(p) /\ ~TakeBaseline(p)
  BY <1>1 DEF TakeLease, GiveUp, Query, Hit, Store, TakeBaseline, At
<1>3. ~Publish(p) /\ ~Complete(p) /\ ~Enrich(p) /\ ~Merge(p)
  BY <1>1 DEF Publish, Complete, Enrich, Merge, At
<1>4. ~Invalidate(p) /\ ~InvalidateBound(p)
  BY <1>1 DEF Invalidate, InvalidateBound, At
<1>5. /\ ~Save(p) /\ ~Move(p) /\ ~Migrate(p) /\ ~Mark(p) /\ ~MigrateBack(p) /\ ~MoveBack(p)
      /\ ~Purge(p) /\ ~Archive(p)
  BY <1>1 DEF Save, Move, Migrate, Mark, MigrateBack, MoveBack, Purge, Archive, At
<1> QED
  BY <1>2, <1>3, <1>4, <1>5 DEF Step

LEMMA RedeemedMoves ==
  ASSUME Control, NEW p \in Proc, Redeemed(p)
  PROVE  tasks'[p].step \in {"drop", "dropBound"}
<1>1. PICK t : t = tasks[p]
  OBVIOUS
<1>2. t \in Task
  BY <1>1 DEF Control, TypeOK
<1>3. PICK s \in {"drop", "dropBound"} :
        tasks' = [tasks EXCEPT ![p].step = s, ![p].card = Unsent]
  BY DEF Redeemed
<1>4. tasks'[p] = [t EXCEPT !.step = s, !.card = Unsent]
  BY <1>1, <1>3 DEF Control, TypeOK
<1> QED
  BY <1>2, <1>4 DEF Task

LEMMA RetryMoves ==
  ASSUME Control, NEW p \in Proc, NEW acted, Retry(p, acted)
  PROVE  tasks'[p].step = tasks[p].step
<1>1. PICK t : t = tasks[p]
  OBVIOUS
<1>2. t \in Task
  BY <1>1 DEF Control, TypeOK
<1>3. PICK c : c = [attempts |-> t.card.attempts + 1, doubt |-> TRUE, acted |-> acted]
  OBVIOUS
<1>4. tasks'[p] = [t EXCEPT !.card = c]
  BY <1>1, <1>3 DEF Retry, Control, TypeOK
<1> QED
  BY <1>1, <1>2, <1>4 DEF Task

LEMMA EndsUnacted ==
  ASSUME IInv, NEW p \in Proc, Next, At(p, "consume"), At(p, "idle")'
  PROVE  ~tasks[p].card.acted
<1>1. Control /\ tasks[p].step = "consume" /\ tasks'[p].step = "idle"
  BY DEF IInv, At
<1>2. ASSUME NEW q \in Proc, q # p, tasks'[p] = tasks[p]
      PROVE  FALSE
  BY <1>1, <1>2
<1>3. CASE Rest
  BY <1>1, <1>3 DEF Rest, At
<1>4. ASSUME NEW q \in Proc, NEW s \in Requests, Begin(q, s)
      PROVE  FALSE
  <2>1. Others(q) /\ tasks[q].step = "idle"
    BY <1>1, <1>4, Begun DEF Begin, At
  <2> QED
    BY <1>1, <2>1 DEF Others
<1>5. ASSUME NEW q \in Proc, Step(q), UNCHANGED started
      PROVE  ~tasks[p].card.acted
  <2>1. CASE q # p
    <3>1. tasks'[p] = tasks[p]
      BY <1>1, <1>5, <2>1, StepMoves DEF Others
    <3> QED
      BY <1>1, <3>1
  <2>2. CASE q = p
    <3>1. Consume(p) \/ Unanswered(p) \/ Refused(p)
      BY <1>1, <1>5, <2>2, OnlyAttempts
    <3>2. Redeemed(p) => tasks'[p].step \in {"drop", "dropBound"}
      BY <1>1, RedeemedMoves
    <3>3. ASSUME NEW acted, Retry(p, acted)
          PROVE  FALSE
      BY <1>1, <3>3, RetryMoves
    <3>4. Refused(p) /\ ~InDoubt(p)
      BY <1>1, <3>1, <3>2, <3>3 DEF Consume, Unanswered, Refused
    <3> QED
      BY <1>1, <3>4 DEF InDoubt, Control, ActedIsDoubted
  <2> QED
    BY <2>1, <2>2
<1> QED
  BY <1>3, <1>4, <1>5 DEF Next

(* Who is told that a card was not used may use it again: a redemption ends *)
(* there only when no attempt of it can have been heard.                    *)
THEOREM UnusedIsUnused == Spec => NotConsumedIsTrue
<1>1. IInv /\ [Next]_vars =>
        [\A p \in Proc : At(p, "consume") /\ At(p, "idle")' => ~tasks[p].card.acted]_vars
  BY EndsUnacted
<1> QED
  BY <1>1, Invariant, PTL DEF Spec, NotConsumedIsTrue
=============================================================================
