------------------------------ MODULE UsageCache ------------------------------
(***************************************************************************)
(* The usage cache of src/src/cache.rs, one file shared by every process    *)
(* of the application, and the operations that read and write it.           *)
(*                                                                          *)
(* Each access is atomic under the cache lock; the network lies between     *)
(* accesses.  Some writers hold the lease of their profile meanwhile, some  *)
(* do not and prove instead, by the exact entry and mutation they started   *)
(* from or by the revision they wrote, that nothing came in between.        *)
(*                                                                          *)
(* What a usage says is reduced to how many reset cards of the account had  *)
(* been redeemed when the quota and the cards were read: an older usage is  *)
(* one a redemption has made wrong.  Expiry is a choice of the reader.      *)
(***************************************************************************)
EXTENDS Naturals, FiniteSets

CONSTANTS
  Alias,     \* profile names
  Account,   \* accounts, an account id together with an email
  Proc,      \* processes, and tasks of the interface
  Stamp,     \* revisions and mutation identities
  None, NotRead, Nobody,
  Requests,  \* the operations that may be started
  MaxOps,    \* bound: operations started
  MaxUsed,   \* bound: reset cards redeemed per account
  MaxRetries \* attempts to send one redemption (MAX_RETRIES)

Kinds == {"list", "select", "panel", "redeem", "panelRedeem", "save", "rename",
          "delete"}

(* A redemption on the command line ends by reading the usage once more.    *)
AllKinds == Kinds \cup {"reread"}

Steps == {"idle", "lease", "baseline", "query", "put", "publish", "details",
          "complete", "enrich", "merge", "consume", "drop", "dropBound", "save",
          "move", "migrate", "mark", "unmigrate", "unmove", "purge", "archive"}

Moment  == 0..MaxUsed
Request == [kind : Kinds, alias : Alias, other : Alias, account : Account]

Usage == [quota : Moment, cards : Moment \cup {NotRead}, rev : Stamp \cup {None}]
Entry == [by : Account, rev : Stamp, quota : Moment,
          cards : Moment \cup {NotRead}, complete : BOOLEAN]
Baseline == [entry : Entry \cup {None}, mutation : Stamp \cup {None}]

ASSUME UsageCacheConstants ==
  /\ Alias # {}
  /\ Stamp \subseteq Nat /\ None \notin Stamp
  /\ None \notin Account /\ Nobody \notin Proc
  /\ None \notin Entry
  /\ NotRead \notin Nat /\ MaxOps \in Nat /\ MaxUsed \in Nat
  /\ MaxRetries \in Nat \ {0}
  /\ Requests \subseteq Request

VARIABLES
  owner,     \* the account saved under each alias
  holder,    \* the holder of each profile lease
  entries,   \* CacheFile::entries
  mutation,  \* CacheFile::usage_mutations
  used,      \* reset cards redeemed, at the server
  dropped,   \* history: the redemptions whose invalidation has run
  started,   \* operations started
  tasks      \* the operation each process is in, with its local variables

cache == <<entries, mutation>>
vars  == <<owner, holder, cache, used, dropped, started, tasks>>

Unread == [quota |-> 0, cards |-> NotRead, rev |-> None]
NoBase == [entry |-> None, mutation |-> None]

(* A redemption: its attempts so far, whether one of them may have changed  *)
(* something, and, which only the server knows, whether one has.            *)
Redemption == [attempts : 0..(MaxRetries - 1), doubt : BOOLEAN, acted : BOOLEAN]
Unsent == [attempts |-> 0, doubt |-> FALSE, acted |-> FALSE]

Task == [step : Steps, kind : AllKinds, at : Alias, other : Alias,
         by : Account \cup {None}, base : Baseline, seen : Usage, card : Redemption]

At(p, step) == tasks[p].step = step

Holds(a, x) == entries[a] # None /\ entries[a].by = x

Snapshot(a) == [entry |-> entries[a], mutation |-> mutation[a]]

AsUsage(e) == [quota |-> e.quota, cards |-> e.cards, rev |-> e.rev]

-------------------------------------------------------------------------------
(* Revisions and mutation identities are 128 random bits, so a new one      *)
(* differs from every one still remembered; of those the least is taken.    *)

Revisions(es) == {e.rev : e \in es \ {None}}

Remembered ==
  UNION {Revisions({entries[a] : a \in Alias}),
         {mutation[a] : a \in Alias},
         Revisions({tasks[p].base.entry : p \in Proc}),
         {tasks[p].base.mutation : p \in Proc},
         {tasks[p].seen.rev : p \in Proc}}

Fresh(r) == /\ r \in Stamp \ Remembered
            /\ \A s \in Stamp : s < r => s \in Remembered

NewEntry(x, u, done, r) ==
  [by |-> x, rev |-> r, quota |-> u.quota, cards |-> u.cards, complete |-> done]

Put(a, e, r) ==
  /\ entries'  = [entries EXCEPT ![a] = e]
  /\ mutation' = [mutation EXCEPT ![a] = r]

(* Mutation kept. *)
DropOnly(a, r) == entries' = [entries EXCEPT ![a] = None] /\ UNCHANGED mutation

(* An absence is marked as well.                                            *)
Drop(a, r) == Put(a, None, r)

-------------------------------------------------------------------------------
(* Control of a task. *)

SomeAlias == CHOOSE a \in Alias : TRUE

Idle == [step |-> "idle", kind |-> "list", at |-> SomeAlias, other |-> SomeAlias,
         by |-> None, base |-> NoBase, seen |-> Unread, card |-> Unsent]

Released(p) == [a \in Alias |-> IF holder[a] = p THEN Nobody ELSE holder[a]]

Goto(p, step) == tasks' = [tasks EXCEPT ![p].step = step]

Return(p) ==
  /\ tasks' = [tasks EXCEPT ![p] = Idle]
  /\ holder' = Released(p)

(* The listing an operation starts from names the account of each alias.    *)
(* The plain listing and the command line's redemption learn it later.      *)
Listed(q) == q.kind \in {"select", "panel", "panelRedeem"}

Begin(p, q) ==
  /\ At(p, "idle")
  /\ started < MaxOps /\ started' = started + 1
  /\ Listed(q) => owner[q.alias] # None
  /\ tasks' = [tasks EXCEPT ![p] =
       [step |-> IF q.kind = "select" THEN "baseline" ELSE "lease",
        kind |-> q.kind, at |-> q.alias, other |-> q.other,
        by   |-> IF q.kind = "save" THEN q.account
                 ELSE IF Listed(q) THEN owner[q.alias] ELSE None,
        base |-> NoBase, seen |-> Unread, card |-> Unsent]]
  /\ UNCHANGED <<owner, holder, cache, used, dropped>>

Needed(p) == IF tasks[p].kind = "rename" THEN {tasks[p].at, tasks[p].other}
             ELSE {tasks[p].at}

FirstStep(p) ==
  CASE At(p, "details") -> "complete"
    [] tasks[p].kind = "save"   -> "save"
    [] tasks[p].kind = "rename" -> "move"
    [] tasks[p].kind = "delete" -> "purge"
    [] OTHER -> "query"

TakeLease(p) ==
  /\ tasks[p].step \in {"lease", "details"}
  /\ \A a \in Needed(p) : holder[a] = Nobody
  /\ holder' = [a \in Alias |-> IF a \in Needed(p) THEN p ELSE holder[a]]
  /\ Goto(p, FirstStep(p))
  /\ UNCHANGED <<owner, cache, used, dropped>>

(* Cancelled, timed out, refused by the network, or unable to write.        *)
GiveUp(p) ==
  /\ tasks[p].step \in {"lease", "query", "put", "publish", "details", "complete",
                        "enrich", "merge", "dropBound", "purge"}
  /\ Return(p)
  /\ UNCHANGED <<owner, cache, used, dropped>>

-------------------------------------------------------------------------------
(* Reading usage under the lease. *)

Verified(p) == /\ owner[tasks[p].at] # None
               /\ tasks[p].by \in {None, owner[tasks[p].at]}

(* The selection and the panel leave the cards for later.                   *)
Answer(p, x) ==
  [quota |-> used[x],
   cards |-> IF tasks[p].kind \in {"select", "panel"} THEN NotRead ELSE used[x],
   rev   |-> None]

(* The account read, recorded with the usage.                               *)
Identity(p) == owner[tasks[p].at]

Query(p) ==
  /\ At(p, "query")
  /\ LET x == owner[tasks[p].at] IN
     IF Verified(p) /\ tasks[p].kind = "select"
     THEN /\ tasks' = [tasks EXCEPT ![p].step = "publish", ![p].seen = Answer(p, x)]
          /\ holder' = Released(p)
     ELSE IF Verified(p)
     THEN /\ tasks' = [tasks EXCEPT ![p].step = "put", ![p].by = Identity(p),
                                    ![p].seen = Answer(p, x)]
          /\ UNCHANGED holder
     ELSE Return(p)
  /\ UNCHANGED <<owner, cache, used, dropped>>

(* The listing is content with a complete entry that has not expired.       *)
Hit(p) ==
  /\ At(p, "query") /\ tasks[p].kind = "list"
  /\ LET a == tasks[p].at IN
     owner[a] # None /\ Holds(a, owner[a]) /\ entries[a].complete
  /\ Return(p)
  /\ UNCHANGED <<owner, cache, used, dropped>>

(* put_bound_versioned marks every entry complete.  A redemption goes on    *)
(* although the write failed.                                               *)
Store(p) ==
  /\ At(p, "put")
  /\ LET t == tasks[p] IN
     \/ \E r \in Stamp :
          /\ Fresh(r)
          /\ Put(t.at, NewEntry(t.by, t.seen, TRUE, r), r)
          /\ CASE t.kind = "panel" ->
                    /\ tasks' = [tasks EXCEPT ![p].step = "enrich", ![p].seen.rev = r]
                    /\ holder' = Released(p)
               [] t.kind \in {"redeem", "panelRedeem"} ->
                    Goto(p, "consume") /\ UNCHANGED holder
               [] OTHER -> Return(p)
     \/ /\ t.kind \in {"redeem", "panelRedeem"}
        /\ Goto(p, "consume")
        /\ UNCHANGED <<holder, cache>>
  /\ UNCHANGED <<owner, used, dropped>>

-------------------------------------------------------------------------------
(* Automatic selection: a probe that publishes without the lease.           *)

(* A complete candidate is final; of a quota-only one the cards may follow. *)
Score(p, b) ==
  IF b.entry.complete THEN Return(p)
  ELSE /\ tasks' = [tasks EXCEPT ![p].step = "details", ![p].base = b,
                                 ![p].seen = AsUsage(b.entry)]
       /\ UNCHANGED holder

(* get_auto_select_usage_snapshot.  An entry of the account is a hit until  *)
(* it expires.                                                              *)
TakeBaseline(p) ==
  /\ At(p, "baseline")
  /\ LET a == tasks[p].at IN
     \/ /\ tasks' = [tasks EXCEPT ![p].step = "lease", ![p].base = Snapshot(a)]
        /\ UNCHANGED holder
     \/ Holds(a, tasks[p].by) /\ Score(p, Snapshot(a))
  /\ UNCHANGED <<owner, cache, used, dropped>>

(* Mutation not compared. *)
SameEntry(p) == entries[tasks[p].at] = tasks[p].base.entry

(* complete_core_probe_bound_at.  The exact entry and mutation the probe    *)
(* started from must still be there; else another generation of the same    *)
(* account wins, and a rebound or invalidated alias is an error.            *)
Unchanged(p) == Snapshot(tasks[p].at) = tasks[p].base

Overtaken(p) == ~Unchanged(p) /\ Holds(tasks[p].at, tasks[p].by)

(* A quota-only publication keeps the cards of an entry of the same account.*)
QuotaOnly(p, r) ==
  LET t    == tasks[p]
      kept == Holds(t.at, t.by)
      u    == [t.seen EXCEPT !.cards = IF kept THEN entries[t.at].cards ELSE NotRead]
  IN NewEntry(t.by, u, IF kept THEN entries[t.at].complete ELSE FALSE, r)

Publish(p) ==
  /\ At(p, "publish")
  /\ LET a == tasks[p].at IN
     CASE Unchanged(p) ->
            \E r \in Stamp :
              LET e == QuotaOnly(p, r) IN
              /\ Fresh(r)
              /\ Put(a, e, r)
              /\ Score(p, [entry |-> e, mutation |-> r])
       [] Overtaken(p) -> Score(p, Snapshot(a)) /\ UNCHANGED cache
       [] OTHER -> Return(p) /\ UNCHANGED cache
  /\ UNCHANGED <<owner, used, dropped>>

(* The cards are read and published under a lease taken anew.               *)
Complete(p) ==
  /\ At(p, "complete")
  /\ LET t == tasks[p]
         u == [t.seen EXCEPT !.cards = used[t.by]] IN
     IF Verified(p) /\ Unchanged(p)
     THEN \E r \in Stamp : Fresh(r) /\ Put(t.at, NewEntry(t.by, u, TRUE, r), r)
     ELSE UNCHANGED cache
  /\ Return(p)
  /\ UNCHANGED <<owner, used, dropped>>

-------------------------------------------------------------------------------
(* The panel reads the cards without the lease and merges them into the     *)
(* revision it wrote.  It never reads the cache first: no caller asks it to *)
(* be content with an entry.                                                *)

Enrich(p) ==
  /\ At(p, "enrich")
  /\ tasks' = [tasks EXCEPT ![p].step = "merge", ![p].seen.cards = used[tasks[p].by]]
  /\ UNCHANGED <<owner, holder, cache, used, dropped>>

Mergeable(p) ==
  LET t == tasks[p] IN Holds(t.at, t.by) /\ entries[t.at].rev = t.seen.rev

Merge(p) ==
  /\ At(p, "merge")
  /\ LET t == tasks[p] IN
     IF Mergeable(p)
     THEN \E r \in Stamp :
            /\ Fresh(r)
            /\ Put(t.at, [entries[t.at] EXCEPT !.cards = t.seen.cards,
                                               !.complete = TRUE], r)
     ELSE UNCHANGED cache
  /\ Return(p)
  /\ UNCHANGED <<owner, used, dropped>>

-------------------------------------------------------------------------------
(* Redeeming a reset card. *)

(* The panel reports a redemption after its lease is gone.                  *)
KeepsLease(p) == tasks[p].kind = "redeem"

(* The server takes every attempt of a redemption for the same one.         *)
Act(p) ==
  LET t == tasks[p] IN
  IF ~t.card.acted /\ used[t.by] < MaxUsed
  THEN used' = [used EXCEPT ![t.by] = @ + 1] ELSE UNCHANGED used

Retry(p, acted) ==
  /\ tasks' = [tasks EXCEPT ![p].card = [attempts |-> @.attempts + 1, doubt |-> TRUE,
                                         acted |-> acted]]
  /\ UNCHANGED holder

(* Redeemed, or perhaps redeemed: the usage in the cache is worth nothing.  *)
Redeemed(p) ==
  IF KeepsLease(p)
  THEN /\ tasks' = [tasks EXCEPT ![p].step = "drop", ![p].card = Unsent]
       /\ UNCHANGED holder
  ELSE /\ tasks' = [tasks EXCEPT ![p].step = "dropBound", ![p].card = Unsent]
       /\ holder' = Released(p)

(* An attempt without a readable answer is made again; the last one leaves  *)
(* the outcome open.                                                        *)
Unanswered(p) ==
  /\ At(p, "consume")
  /\ used' = used \/ Act(p)
  /\ IF tasks[p].card.attempts + 1 < MaxRetries
     THEN Retry(p, tasks[p].card.acted \/ used' # used)
     ELSE Redeemed(p)
  /\ UNCHANGED <<owner, cache, dropped>>

(* Mutant: what an earlier attempt may have done is forgotten.              *)
NeverInDoubt(p) == FALSE

InDoubt(p) == tasks[p].card.doubt

(* A refusal, or an attempt that is not even sent, means that nothing was   *)
(* redeemed, unless an earlier attempt may have been heard.                 *)
Refused(p) ==
  /\ At(p, "consume")
  /\ IF InDoubt(p) THEN Redeemed(p) ELSE Return(p)
  /\ UNCHANGED <<owner, cache, used, dropped>>

(* A success; one that does not say `reset' leaves the outcome open.        *)
Consume(p) ==
  /\ At(p, "consume")
  /\ Act(p)
  /\ Redeemed(p)
  /\ UNCHANGED <<owner, cache, dropped>>

Noted(p) == dropped' = [dropped EXCEPT ![tasks[p].by] = used[tasks[p].by]]

(* invalidate, and the usage read once more unless the outcome is open.     *)
(* A cache that cannot be written is only warned about.                     *)
Invalidate(p) ==
  /\ At(p, "drop")
  /\ \/ (\E r \in Stamp : Fresh(r) /\ Drop(tasks[p].at, r)) /\ Noted(p)
     \/ UNCHANGED <<cache, dropped>>
  /\ \/ /\ tasks' = [tasks EXCEPT ![p].step = "query", ![p].kind = "reread",
                                  ![p].seen = Unread]
        /\ UNCHANGED holder
     \/ Return(p)
  /\ UNCHANGED <<owner, used>>

(* invalidate_bound spares an entry of another account.  It misses the entry *)
(* of a profile that was renamed after the redemption, and one that a rename *)
(* under way has yet to bring after its profile, so only an invalidation     *)
(* that found its profile, and the entry with it, counts.                    *)
Ahead(a) == \E p \in Proc : tasks[p].step \in {"migrate", "unmove"} /\ tasks[p].other = a

InvalidateBound(p) ==
  /\ At(p, "dropBound")
  /\ LET a == tasks[p].at IN
     IF entries[a] = None \/ Holds(a, tasks[p].by)
     THEN \E r \in Stamp : Fresh(r) /\ Drop(a, r)
     ELSE UNCHANGED cache
  /\ IF owner[tasks[p].at] = tasks[p].by /\ ~Ahead(tasks[p].at)
       THEN Noted(p) ELSE UNCHANGED dropped
  /\ Return(p)
  /\ UNCHANGED <<owner, used>>

-------------------------------------------------------------------------------
(* Profiles that come, go and change their names. *)

Saved == {owner[a] : a \in Alias}

Save(p) ==
  /\ At(p, "save")
  /\ LET t == tasks[p] IN
     owner' = IF owner[t.at] = None /\ t.by \notin Saved
              THEN [owner EXCEPT ![t.at] = t.by] ELSE owner
  /\ Return(p)
  /\ UNCHANGED <<cache, used, dropped>>

Move(p) ==
  /\ At(p, "move")
  /\ LET t == tasks[p] IN
     IF owner[t.at] # None /\ owner[t.other] = None
     THEN /\ owner' = [owner EXCEPT ![t.other] = owner[t.at], ![t.at] = None]
          /\ Goto(p, "migrate")
          /\ UNCHANGED holder
     ELSE Return(p) /\ UNCHANGED owner
  /\ UNCHANGED <<cache, used, dropped>>

(* migrate_alias clears the destination and advances both mutations.        *)
MigrateAlias(from, to) ==
  \E r \in Stamp :
    /\ Fresh(r)
    /\ entries'  = [entries EXCEPT ![to] = entries[from], ![from] = None]
    /\ mutation' = [mutation EXCEPT ![to] = r, ![from] = r]

Migrate(p) ==
  /\ At(p, "migrate")
  /\ \/ MigrateAlias(tasks[p].at, tasks[p].other) /\ Goto(p, "mark")
     \/ Goto(p, "unmove") /\ UNCHANGED cache
  /\ UNCHANGED <<owner, holder, used, dropped>>

Mark(p) ==
  /\ At(p, "mark")
  /\ \/ Return(p)
     \/ Goto(p, "unmigrate") /\ UNCHANGED holder
  /\ UNCHANGED <<owner, cache, used, dropped>>

MigrateBack(p) ==
  /\ At(p, "unmigrate")
  /\ MigrateAlias(tasks[p].other, tasks[p].at)
  /\ Goto(p, "unmove")
  /\ UNCHANGED <<owner, holder, used, dropped>>

MoveBack(p) ==
  /\ At(p, "unmove")
  /\ LET t == tasks[p] IN
     owner' = [owner EXCEPT ![t.at] = owner[t.other], ![t.other] = None]
  /\ Return(p)
  /\ UNCHANGED <<cache, used, dropped>>

Purge(p) ==
  /\ At(p, "purge")
  /\ IF owner[tasks[p].at] = None THEN Return(p) /\ UNCHANGED cache
     ELSE /\ \E r \in Stamp : Fresh(r) /\ Drop(tasks[p].at, r)
          /\ Goto(p, "archive")
          /\ UNCHANGED holder
  /\ UNCHANGED <<owner, used, dropped>>

Archive(p) ==
  /\ At(p, "archive")
  /\ owner' \in {owner, [owner EXCEPT ![tasks[p].at] = None]}
  /\ Return(p)
  /\ UNCHANGED <<cache, used, dropped>>

-------------------------------------------------------------------------------
(* Some profiles are saved, each account once; the cache is new.            *)
Init ==
  /\ owner \in [Alias -> Account \cup {None}]
  /\ \A a, b \in Alias : owner[a] = owner[b] /\ owner[a] # None => a = b
  /\ holder = [a \in Alias |-> Nobody]
  /\ entries = [a \in Alias |-> None]
  /\ mutation = [a \in Alias |-> None]
  /\ used = [x \in Account |-> 0]
  /\ dropped = [x \in Account |-> 0]
  /\ started = 0
  /\ tasks = [p \in Proc |-> Idle]

Step(p) ==
  \/ TakeLease(p) \/ GiveUp(p)
  \/ Query(p) \/ Hit(p) \/ Store(p)
  \/ TakeBaseline(p) \/ Publish(p) \/ Complete(p)
  \/ Enrich(p) \/ Merge(p)
  \/ Consume(p) \/ Unanswered(p) \/ Refused(p)
  \/ Invalidate(p) \/ InvalidateBound(p)
  \/ Save(p) \/ Move(p) \/ Migrate(p) \/ Mark(p) \/ MigrateBack(p) \/ MoveBack(p)
  \/ Purge(p) \/ Archive(p)

Rest ==
  /\ \A p \in Proc : At(p, "idle")
  /\ UNCHANGED vars

Next ==
  \/ \E p \in Proc : \/ Step(p) /\ UNCHANGED started
                    \/ \E q \in Requests : Begin(p, q)
  \/ Rest

Spec == Init /\ [][Next]_vars

-------------------------------------------------------------------------------
(* Types: entries, baselines and tasks hold values of their sets.           *)
TypeOK ==
  /\ owner \in [Alias -> Account \cup {None}]
  /\ holder \in [Alias -> Proc \cup {Nobody}]
  /\ entries \in [Alias -> Entry \cup {None}]
  /\ mutation \in [Alias -> Stamp \cup {None}]
  /\ used \in [Account -> Moment]
  /\ dropped \in [Account -> Moment]
  /\ started \in 0..MaxOps
  /\ tasks \in [Proc -> Task]

(* Once a redemption's invalidation has run, the cache never again shows    *)
(* the quota or the cards of the account from before it, whatever probe,    *)
(* merge or listing was under way: "do not keep showing already-used reset  *)
(* cards until the cache TTL expires" (docs/CHANGELOG.md:764).              *)
RedeemedNeverReturns ==
  \A a \in Alias : entries[a] # None =>
    LET e == entries[a] IN
    /\ e.quota >= dropped[e.by]
    /\ e.cards # NotRead => e.cards >= dropped[e.by]

(* No saved profile inherits the usage of an account that had its alias     *)
(* before (purge_profile: "the same alias may later be assigned to a        *)
(* different account"), although a selection publishes without the lease.   *)
EntryNamesItsOwner ==
  \A a \in Alias :
    entries[a] # None /\ owner[a] # None => entries[a].by = owner[a]

(* Who is told that a reset card was not used may use it again: it was not, *)
(* although an earlier attempt's answer was lost and a later one refused.   *)
NotConsumedIsTrue ==
  [][\A p \in Proc : At(p, "consume") /\ At(p, "idle")' => ~tasks[p].card.acted]_vars

===============================================================================
