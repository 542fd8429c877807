--------------------------- MODULE CredentialStore ---------------------------
(***************************************************************************)
(* The credential transactions of src/src/profile.rs: saved profiles, the   *)
(* live credential of Codex and the marker naming the active profile, under *)
(* the commands, the daemon and the interface of several processes.         *)
(*                                                                          *)
(* A refresh token is single use.  Whoever presents it receives its         *)
(* successor and the presented one is dead, so losing the successor, or     *)
(* putting a predecessor back, costs the user the account.  Profiles are    *)
(* guarded by one lease each, taken in sorted order; live, marker and       *)
(* registry by the auth transaction, taken after the leases.  Codex honours *)
(* neither.                                                                 *)
(*                                                                          *)
(* Publishing live is one step here; AuthPublication is its detail.         *)
(***************************************************************************)
EXTENDS Naturals, FiniteSets, FiniteSetsExt

CONSTANTS
  Alias,          \* profile names, in the order leases are taken
  Account,        \* accounts, an account id together with an email
  Proc,           \* processes of the application
  NoAlias, NoCred, Nobody,
  Requests,       \* the operations each process may start
  MaxOps,         \* bound: operations started
  MaxIssued,      \* bound: credentials issued per account
  MaxCodexMoves,  \* bound: changes Codex makes to live
  MaxCrashes      \* bound: processes that die

Kinds == {"refresh", "use", "revive", "auto", "mark", "sync", "readback", "save", "login",
          "reauth", "import", "delete", "rename"}

Cred        == [account : Account, gen : 1..MaxIssued]
CredOrNone  == Cred \cup {NoCred}
AliasOrNone == Alias \cup {NoAlias}

(* A request names the profiles its operation is about.                     *)
WellFormed(r) ==
  /\ r \in [kind : Kinds, alias : AliasOrNone, other : AliasOrNone]
  /\ r.alias = NoAlias => r.kind \in {"auto", "mark", "save", "login", "import"}
  /\ r.kind \in {"auto", "rename"} => r.other # NoAlias

ASSUME CredentialStoreConstants ==
  /\ Alias \subseteq Nat /\ IsFiniteSet(Alias) /\ NoAlias \notin Alias
  /\ NoCred \notin Cred
  /\ Nobody \notin Proc
  /\ \A p \in Proc : \A r \in Requests[p] : WellFormed(r)
  /\ {MaxOps, MaxCodexMoves, MaxCrashes} \subseteq Nat
  /\ MaxIssued \in Nat \ {0}

VARIABLES
  profiles,  \* the credential saved under each alias
  live,      \* $CODEX_HOME/auth.json
  marker,    \* the file `current'
  stages,    \* rotations preserved in the recovery directory
  backups,   \* retained copies of displaced live credentials
  archive,   \* profiles moved to deleted-profiles
  lease,     \* the holder of each profile lease
  txn,       \* the holder of the auth transaction
  tasks,     \* the operation each process is in, with its local variables
  codex,     \* the credential Codex has loaded
  spent,     \* refresh tokens the server has accepted once
  issued,    \* how many credentials each account was issued
  used       \* how much of each bound is used

registry == <<profiles, stages, archive>>
disk     == <<registry, live, marker, backups>>
locks    == <<lease, txn>>
outside  == <<codex, spent, issued>>
vars     == <<disk, locks, tasks, outside, used>>

----------------------------------------------------------------------------
(* Local variables.                                                         *)

Entries == {"authorize", "commit", "prepare", "switch", "consent", "activate", "relocate",
            "autoswitch", "adopt", "store", "reauth", "reserve", "refile", "delete", "rename"}

Locations == Entries \cup
             {"idle", "lease", "present", "stage", "write", "swap", "mark", "unstage", "repair",
              "confirm", "locate", "copy", "recheck", "signin", "plan", "bind",
              "scan", "validate", "install", "rescue", "unmark", "archive", "move", "remark"}

Task == [kind   : Kinds \cup {"none"},
         alias  : AliasOrNone,
         other  : AliasOrNone,       \* the target, new name or requested alias
         pc     : Locations,
         need   : SUBSET Alias,      \* leases still to take
         then   : Locations,
         live   : CredOrNone,        \* the snapshot of live the decision rests on
         saved  : CredOrNone,        \* the snapshot of the profile
         fresh  : CredOrNone,        \* the credential to write
         agreed : CredOrNone,        \* the live a revival was authorized against
         marker : AliasOrNone,
         follow : BOOLEAN,           \* live follows the profile
         asked  : BOOLEAN,           \* the user was asked to confirm
         ok     : BOOLEAN]           \* nothing to report as incomplete

Idle == [kind |-> "none", alias |-> NoAlias, other |-> NoAlias, pc |-> "idle", need |-> {},
         then |-> "idle", live |-> NoCred, saved |-> NoCred, fresh |-> NoCred,
         agreed |-> NoCred, marker |-> NoAlias, follow |-> FALSE, asked |-> FALSE, ok |-> TRUE]

At(p, l)  == tasks[p].pc = l
Set(p, t) == tasks' = [tasks EXCEPT ![p] = t]
Go(p, l)  == Set(p, [tasks[p] EXCEPT !.pc = l])

Released(p) == [a \in Alias |-> IF lease[a] = p THEN Nobody ELSE lease[a]]

Waiting(t, need, then) == [t EXCEPT !.need = need, !.then = then,
                                    !.pc = IF need = {} THEN then ELSE "lease"]

Return(p) ==
  /\ Set(p, Idle)
  /\ lease' = Released(p)
  /\ txn' = IF txn = p THEN Nobody ELSE txn

----------------------------------------------------------------------------
(* Whose credential is live.  Identity alone never chooses an alias: an     *)
(* exact copy does, and only without one the marker together with identity. *)

Exact(c)     == {a \in Alias : profiles[a] = c}
Bound(c)     == IF Cardinality(Exact(c)) = 1 THEN Exact(c) ELSE Exact(c) \cap {marker}
Undecided(c) == c # NoCred /\ Exact(c) # {} /\ Bound(c) = {}

Holders(x) == {a \in Alias : profiles[a] # NoCred /\ profiles[a].account = x}

MarkerNames(c) == {marker} \cap Holders(c.account)

AsMarked(a, c) == c # NoCred /\ a = marker

Belongs(a, c) ==
  /\ c # NoCred
  /\ a \in IF Exact(c) # {} THEN Bound(c) ELSE MarkerNames(c)

(* Detection may also fall back to the only profile of the account.         *)
Active(c) ==
  IF c = NoCred THEN {}
  ELSE IF Exact(c) # {} THEN Bound(c)
  ELSE IF MarkerNames(c) # {} THEN MarkerNames(c)
  ELSE IF Cardinality(Holders(c.account)) = 1 THEN Holders(c.account) ELSE {}

RepairedMarker ==
  IF live = NoCred \/ Exact(live) = {} THEN NoAlias ELSE CHOOSE a \in Bound(live) : TRUE

(* The one gate into an existing profile: same account, provably newer.     *)
AnyAge(old, new)    == old # NoCred => old.account = new.account
Adoptable(old, new) == old # NoCred => old.account = new.account /\ old.gen <= new.gen

(* plan_profile_write: a saved alias that was asked for, else the account's *)
(* own profile, else a new name.                                            *)
NewNames(hint) == IF hint # NoAlias THEN {hint} ELSE {a \in Alias : profiles[a] = NoCred}

Destinations(x, hint) ==
  IF hint # NoAlias /\ profiles[hint] # NoCred THEN {hint}
  ELSE IF Holders(x) = {} THEN NewNames(hint)
  ELSE IF Cardinality(Holders(x)) = 1 THEN Holders(x) ELSE {}

Issue(x)    == [account |-> x, gen |-> issued[x] + 1]
CanIssue(x) == issued[x] < MaxIssued
Issues(x)   == CanIssue(x) /\ issued' = [issued EXCEPT ![x] = @ + 1]

----------------------------------------------------------------------------
Init ==
  /\ issued = [x \in Account |-> 1]
  /\ profiles \in [Alias -> CredOrNone]
  /\ \A a \in Alias : profiles[a] # NoCred => profiles[a].gen = 1
  /\ \A x \in Account : Cardinality(Holders(x)) <= 1
  /\ live \in {NoCred} \cup {c \in Cred : c.gen = 1}
  /\ marker = RepairedMarker
  /\ stages = {} /\ backups = {} /\ archive = {}
  /\ lease = [a \in Alias |-> Nobody]
  /\ txn = Nobody
  /\ tasks = [p \in Proc |-> Idle]
  /\ codex = NoCred
  /\ spent = {}
  /\ used = [ops |-> 0, moves |-> 0, crashes |-> 0]

----------------------------------------------------------------------------
(* Starting, and taking leases.                                             *)

FirstLeases(r) ==
  CASE r.kind \in {"refresh", "use", "revive", "sync", "readback", "reauth", "delete"} -> {r.alias}
    [] r.kind = "rename" -> {r.alias, r.other}
    [] OTHER -> {}

FirstEntry == [refresh |-> "authorize", use |-> "prepare", revive |-> "prepare", auto |-> "locate",
               mark |-> "locate", sync |-> "adopt", readback |-> "adopt", save |-> "plan",
               login |-> "signin", reauth |-> "bind", import |-> "scan", delete |-> "delete",
               rename |-> "rename"]

Begin(p, r) ==
  /\ At(p, "idle")
  /\ r.kind = "login" => r.other \notin {a \in Alias : profiles[a] # NoCred}   \* else reauth
  /\ used.ops < MaxOps
  /\ used' = [used EXCEPT !.ops = @ + 1]
  /\ Set(p, Waiting([Idle EXCEPT !.kind = r.kind, !.alias = r.alias, !.other = r.other],
                    FirstLeases(r), FirstEntry[r.kind]))
  /\ UNCHANGED <<disk, locks, outside>>

(* AsNamed, and other operators that name a slip, are the defect their      *)
(* neighbour is checked against; Next does not use them.                    *)
AsNamed(t) == IF t.alias \in t.need THEN t.alias ELSE Min(t.need)
Sorted(t)  == Min(t.need)

TakeLease(p) ==
  /\ At(p, "lease")
  /\ LET t == tasks[p]
         a == Sorted(t)
     IN /\ lease[a] = Nobody
        /\ lease' = [lease EXCEPT ![a] = p]
        /\ Set(p, Waiting(t, t.need \ {a}, t.then))
  /\ UNCHANGED <<disk, txn, outside, used>>

(* A lock held by another process: the wait times out or is cancelled.      *)
GiveUp(p) ==
  /\ \/ At(p, "lease") /\ lease[Sorted(tasks[p])] # Nobody
     \/ tasks[p].pc \in Entries /\ txn # Nobody
  /\ Return(p)
  /\ UNCHANGED <<disk, outside, used>>

(* The auth transaction is taken for one look at the state, or kept.        *)
Look(p, l)  == At(p, l) /\ txn = Nobody
Keep(p, t)  == txn' = p /\ Set(p, t) /\ UNCHANGED lease
Await(p, t) == Set(p, t) /\ lease' = Released(p) /\ UNCHANGED txn

----------------------------------------------------------------------------
(* Refreshing a profile; a revival refreshes its target on the way.         *)

Refreshes(t) == t.kind = "refresh" \/ (t.kind = "revive" /\ t.then = "activate")

Authorize(p) ==
  /\ Look(p, "authorize")
  /\ LET t == tasks[p] IN
     IF profiles[t.alias] = NoCred \/ Undecided(live)
     THEN Return(p)
     ELSE /\ Set(p, [t EXCEPT !.pc = "present", !.saved = profiles[t.alias], !.live = live,
                              !.marker = marker, !.follow = Belongs(t.alias, live)])
          /\ UNCHANGED locks
  /\ UNCHANGED <<disk, outside, used>>

Present(p) ==
  /\ At(p, "present")
  /\ LET t == tasks[p]
         x == t.saved.account
     IN \/ /\ t.saved \notin spent
           /\ Issues(x)
           /\ spent' = spent \cup {t.saved}
           /\ \/ /\ Set(p, [t EXCEPT !.pc = "stage", !.fresh = Issue(x)])
                 /\ UNCHANGED locks
              \/ Return(p)                                   \* the answer is lost
        \/ Return(p) /\ UNCHANGED <<spent, issued>>          \* refused, or never sent
  /\ UNCHANGED <<disk, codex, used>>

Stage(p) ==
  /\ At(p, "stage")
  /\ \/ stages' = stages \cup {tasks[p].fresh} /\ Go(p, "commit") /\ UNCHANGED locks
     \/ Return(p) /\ UNCHANGED stages
  /\ UNCHANGED <<profiles, archive, live, marker, backups, outside, used>>

(* plan_fresh_live_activation: the authorization stands while the marker    *)
(* does; a profile that became active meanwhile takes only its own copy.    *)
OnlyAsAuthorized(t) == [t EXCEPT !.pc = "write", !.follow = t.follow /\ marker = t.marker]

FollowPlan(t) ==
  IF t.follow /\ marker = t.marker
  THEN [t EXCEPT !.pc = "write"]
  ELSE [t EXCEPT !.pc = "write", !.live = live,
                 !.follow = marker = t.alias /\ live = profiles[t.alias],
                 !.ok = marker # t.alias \/ live = profiles[t.alias]]

Commit(p) ==
  /\ Look(p, "commit")
  /\ IF profiles[tasks[p].alias] = tasks[p].saved
     THEN Keep(p, FollowPlan(tasks[p]))
     ELSE Return(p)                                          \* superseded, stage kept
  /\ UNCHANGED <<disk, outside, used>>

Unstage(p) ==
  /\ At(p, "unstage")
  /\ stages' \in {stages, stages \ {tasks[p].fresh}}
  /\ \/ Return(p)
     \/ /\ tasks[p].kind = "revive"
        /\ Go(p, "activate") /\ txn' = Nobody /\ UNCHANGED lease
  /\ UNCHANGED <<profiles, archive, live, marker, backups, outside, used>>

----------------------------------------------------------------------------
(* Writing a profile and letting live and marker follow.                    *)

Finish(p, t) ==
  IF Refreshes(t) THEN Set(p, [t EXCEPT !.pc = "unstage"]) /\ UNCHANGED locks
                  ELSE Return(p)

Failed(t) == [t EXCEPT !.ok = FALSE]

AfterWrite(t) ==
  IF t.follow THEN "swap" ELSE IF Refreshes(t) THEN "unstage" ELSE "repair"

Write(p) ==
  /\ At(p, "write")
  /\ LET t == tasks[p] IN
     \/ /\ profiles' = [profiles EXCEPT ![t.alias] = t.fresh]
        /\ \/ Go(p, AfterWrite(t)) /\ UNCHANGED locks
           \/ Return(p)                                      \* visible, not durable
     \/ Return(p) /\ UNCHANGED profiles
  /\ UNCHANGED <<stages, archive, live, marker, backups, outside, used>>

NotRetained(c) == {}

Retained(c) == {c} \ {NoCred}

(* commit_activation_if_live_unchanged.  What AuthPublication returns:      *)
(* Written; published with recovery to complete; or live is not ours.       *)
Swap(p) ==
  /\ At(p, "swap")
  /\ LET t == tasks[p] IN
     \/ /\ t.live = live /\ live = t.fresh /\ marker = t.alias
        /\ Finish(p, t)
        /\ UNCHANGED <<live, backups>>
     \/ /\ live = t.live
        /\ live' = t.fresh
        /\ backups' = backups \cup Retained(live)
        /\ \/ Go(p, "mark") /\ UNCHANGED locks
           \/ Finish(p, Failed(t))
     \/ Finish(p, Failed(t)) /\ UNCHANGED <<live, backups>>
  /\ UNCHANGED <<registry, marker, outside, used>>

Mark(p) ==
  /\ At(p, "mark")
  /\ \/ marker' = tasks[p].alias /\ Finish(p, tasks[p])
     \/ marker' \in {marker, tasks[p].alias} /\ Finish(p, Failed(tasks[p]))
  /\ UNCHANGED <<registry, live, backups, outside, used>>

Repair(p) ==
  /\ At(p, "repair")
  /\ \/ marker = tasks[p].alias /\ ~Undecided(live) /\ marker' = RepairedMarker
     \/ UNCHANGED marker
  /\ Return(p)
  /\ UNCHANGED <<registry, live, backups, outside, used>>

----------------------------------------------------------------------------
(* `use': a decision prepared against one observation, perhaps confirmed by *)
(* the user while no lease is held, then revalidated.  A revival redeems a  *)
(* card for its target (UsageCache) between authorization and activation.   *)

RequiresConfirmation(c) == c # NoCred /\ Exact(c) = {}

Prepare(p) ==
  /\ Look(p, "prepare")
  /\ LET t == tasks[p] IN
     IF profiles[t.alias] = NoCred
     THEN Return(p)
     ELSE Await(p, [t EXCEPT !.pc = "confirm", !.saved = profiles[t.alias], !.live = live,
                             !.agreed = IF t.kind = "revive" THEN live ELSE NoCred,
                             !.asked = RequiresConfirmation(live)])
  /\ UNCHANGED <<disk, outside, used>>

Confirms(t) == Waiting(t, {t.alias}, IF t.kind = "revive" THEN "consent" ELSE "switch")

Proceed(p) ==
  /\ At(p, "confirm") /\ ~tasks[p].asked
  /\ Set(p, Confirms(tasks[p]))
  /\ UNCHANGED <<disk, locks, outside, used>>

Answer(p) ==
  /\ At(p, "confirm") /\ tasks[p].asked
  /\ \/ Set(p, Confirms(tasks[p])) /\ UNCHANGED locks
     \/ Return(p)
  /\ UNCHANGED <<disk, outside, used>>

Switch(p) ==
  /\ Look(p, "switch")
  /\ LET t == tasks[p] IN
     IF profiles[t.alias] = t.saved
     THEN Keep(p, [t EXCEPT !.pc = "swap", !.fresh = t.saved])
     ELSE Return(p)
  /\ UNCHANGED <<disk, outside, used>>

(* authorize_confirmed_profile_switch_before_side_effect; the quota is then *)
(* read again, with or without a refresh of the target's token.             *)
Consent(p) ==
  /\ Look(p, "consent")
  /\ LET t == tasks[p] IN
     IF profiles[t.alias] = t.saved /\ live = t.agreed
     THEN /\ \E next \in {"authorize", "activate"} :
               Set(p, [t EXCEPT !.pc = next, !.then = "activate"])
          /\ UNCHANGED locks
     ELSE Return(p)
  /\ UNCHANGED <<disk, outside, used>>

TargetRevalidated(t) ==
  profiles[t.alias] # NoCred /\ profiles[t.alias].account = t.saved.account

(* validate_authorized_profile_switch_locked: live is what was agreed to,   *)
(* or the target itself, which the refresh above had follow.                *)
Revalidated(t) ==
  /\ TargetRevalidated(t)
  /\ live = t.agreed \/ (marker = t.alias /\ live = profiles[t.alias])

Activate(p) ==
  /\ Look(p, "activate")
  /\ LET t == tasks[p] IN
     IF Revalidated(t)
     THEN Keep(p, [t EXCEPT !.pc = "swap", !.then = "idle", !.live = live,
                            !.fresh = profiles[t.alias]])
     ELSE Return(p)
  /\ UNCHANGED <<disk, outside, used>>

----------------------------------------------------------------------------
(* Bringing the marker in line with live, and the daemon's poll, which      *)
(* starts with it and may end in a switch.                                  *)

Locate(p) ==
  /\ At(p, "locate")
  /\ \/ Active(live) = {} /\ Return(p)
     \/ \E a \in Active(live) :
          /\ Set(p, Waiting([tasks[p] EXCEPT !.alias = a], {a}, "relocate"))
          /\ UNCHANGED locks
  /\ UNCHANGED <<disk, outside, used>>

Relocate(p) ==
  /\ Look(p, "relocate")
  /\ LET t == tasks[p] IN
     \/ /\ t.alias \in Active(live)
        /\ marker' = t.alias
        /\ \/ /\ t.kind = "auto" /\ t.other # t.alias
              /\ Await(p, Waiting([t EXCEPT !.saved = live], {t.alias, t.other}, "autoswitch"))
           \/ Return(p)
     \/ t.alias \notin Active(live) /\ Await(p, [t EXCEPT !.pc = "locate"]) /\ UNCHANGED marker
     \/ Return(p) /\ UNCHANGED marker
  /\ UNCHANGED <<registry, live, backups, outside, used>>

(* switch_profile_if_current.  `saved' is the credential the poll saw live; *)
(* the code does not carry it.                                              *)
AutoSwitch(p) ==
  /\ Look(p, "autoswitch")
  /\ LET t == tasks[p] IN
     IF /\ marker = t.alias
        /\ Belongs(t.alias, live)
        /\ profiles[t.alias] # NoCred
        /\ profiles[t.other] # NoCred
     THEN Keep(p, [t EXCEPT !.pc = "swap", !.alias = t.other, !.live = live,
                            !.fresh = profiles[t.other]])
     ELSE Return(p)
  /\ UNCHANGED <<disk, outside, used>>

----------------------------------------------------------------------------
(* Reading live back into its profile: before a switch of the interface     *)
(* ("sync"), or on startup and on request ("readback").                     *)

Adopt(p) ==
  /\ Look(p, "adopt")
  /\ LET t == tasks[p] IN
     IF \/ profiles[t.alias] = NoCred \/ live = NoCred
        \/ t.kind = "sync" /\ profiles[t.alias] = live
     THEN Return(p)
     ELSE Keep(p, [t EXCEPT !.pc = "copy", !.fresh = live])
  /\ UNCHANGED <<disk, outside, used>>

Copy(p) ==
  /\ At(p, "copy")
  /\ LET t == tasks[p] IN
     \/ /\ Adoptable(profiles[t.alias], t.fresh)
        /\ profiles' = [profiles EXCEPT ![t.alias] = t.fresh]
        /\ \/ Go(p, "recheck") /\ UNCHANGED locks
           \/ Return(p)
     \/ Return(p) /\ UNCHANGED profiles
  /\ UNCHANGED <<stages, archive, live, marker, backups, outside, used>>

Recheck(p) ==
  /\ At(p, "recheck")
  /\ LET t == tasks[p] IN
     CASE live = t.fresh -> Go(p, "mark") /\ UNCHANGED locks
       [] live = NoCred  -> Return(p)
       [] OTHER          -> Set(p, [t EXCEPT !.pc = "copy", !.fresh = live]) /\ UNCHANGED locks
  /\ UNCHANGED <<disk, outside, used>>

----------------------------------------------------------------------------
(* `save' and `login'.  The destination is planned, its lease taken, and    *)
(* planned again inside the transaction.                                    *)

SignIn(p) ==
  /\ At(p, "signin")
  /\ LET t == tasks[p] IN
     \/ \E x \in Account :
          /\ Issues(x)
          /\ Set(p, IF t.kind = "login"
                    THEN [t EXCEPT !.pc = "plan", !.fresh = Issue(x)]
                    ELSE Waiting([t EXCEPT !.fresh = Issue(x)], {t.alias}, "reauth"))
          /\ UNCHANGED locks
     \/ Return(p) /\ UNCHANGED issued
  /\ UNCHANGED <<disk, codex, spent, used>>

Incoming(t) == IF t.kind = "save" THEN live ELSE t.fresh

Homes(t) ==
  IF Incoming(t) = NoCred THEN {} ELSE Destinations(Incoming(t).account, t.other)

Plan(p) ==
  /\ At(p, "plan")
  /\ LET t == tasks[p] IN
     \/ /\ \E a \in Homes(t) : Set(p, Waiting([t EXCEPT !.alias = a], {a}, "store"))
        /\ UNCHANGED locks
     \/ Homes(t) = {} /\ Return(p)
  /\ UNCHANGED <<disk, outside, used>>

AsPlanned(t) == TRUE
Confirmed(t) == t.alias \in Homes(t)

Accepted(t) ==
  IF t.kind = "save" THEN Adoptable(profiles[t.alias], Incoming(t))
                     ELSE AnyAge(profiles[t.alias], Incoming(t))

Store(p) ==
  /\ Look(p, "store")
  /\ LET t == tasks[p]
         c == Incoming(t)
     IN IF c # NoCred /\ ~Confirmed(t)
        THEN Await(p, [t EXCEPT !.pc = "plan"])
        ELSE \/ /\ c # NoCred
                /\ Accepted(t)
                /\ Keep(p, [t EXCEPT !.pc = "write", !.fresh = c, !.live = live, !.follow = TRUE])
             \/ Return(p)                                 \* refused, or not provably newer
  /\ UNCHANGED <<disk, outside, used>>

----------------------------------------------------------------------------
(* Signing in again for a known profile.                                    *)

Bind(p) ==
  /\ At(p, "bind")
  /\ LET t == tasks[p] IN
     IF profiles[t.alias] = NoCred
     THEN Return(p)
     ELSE Await(p, [t EXCEPT !.pc = "signin", !.saved = profiles[t.alias]])
  /\ UNCHANGED <<disk, outside, used>>

Reauthorize(p) ==
  /\ Look(p, "reauth")
  /\ LET t   == tasks[p]
         old == profiles[t.alias]
     IN IF /\ old # NoCred
           /\ old.account = t.saved.account /\ old.account = t.fresh.account
           /\ ~Undecided(live)
        THEN Keep(p, [t EXCEPT !.pc = "write", !.live = live, !.follow = Belongs(t.alias, live)])
        ELSE Return(p)
  /\ UNCHANGED <<disk, outside, used>>

----------------------------------------------------------------------------
(* `import': a credential file becomes a new profile.  Every saved profile  *)
(* is leased and the transaction kept while the server looks at it.         *)

Scan(p) ==
  /\ At(p, "scan")
  /\ Set(p, Waiting(tasks[p], {a \in Alias : profiles[a] # NoCred}, "reserve"))
  /\ UNCHANGED <<disk, locks, outside, used>>

ScanHolds(p) == {a \in Alias : profiles[a] # NoCred} = {a \in Alias : lease[a] = p}

(* reserve_import_credential_for_validation.  The file may hold any         *)
(* credential ever issued that is neither live nor saved, nor still in the  *)
(* memory of the process that signed in for it.                             *)
InMemory == {tasks[q].fresh : q \in {r \in Proc : tasks[r].kind \in {"login", "reauth"}}}

Reserve(p) ==
  /\ Look(p, "reserve")
  /\ IF ~ScanHolds(p) THEN Await(p, [tasks[p] EXCEPT !.pc = "scan"])
     ELSE \/ \E c \in Cred :
               /\ c.gen <= issued[c.account] /\ c # live /\ Exact(c) = {} /\ c \notin InMemory
               /\ Keep(p, [tasks[p] EXCEPT !.pc = "validate", !.saved = c, !.fresh = c])
          \/ Return(p)
  /\ UNCHANGED <<disk, outside, used>>

(* validate_import_auth: the access token is enough, or the refresh token   *)
(* is spent.  From then on even a failure has a credential to file.         *)
Leave(p, t) == Set(p, t) /\ lease' = Released(p) /\ txn' = Nobody

Validate(p) ==
  /\ At(p, "validate")
  /\ LET t == tasks[p]
         x == t.saved.account
         rotated == [t EXCEPT !.fresh = Issue(x)]
         Rescues == Leave(p, [rotated EXCEPT !.pc = "rescue"])
     IN \/ Go(p, "install") /\ UNCHANGED <<locks, stages, spent, issued>>
        \/ Return(p) /\ UNCHANGED <<stages, spent, issued>>
        \/ /\ t.saved \notin spent
           /\ Issues(x)
           /\ spent' = spent \cup {t.saved}
           /\ \/ /\ stages' = stages \cup {Issue(x)}
                 /\ \/ Set(p, [rotated EXCEPT !.pc = "install"]) /\ UNCHANGED locks
                    \/ Rescues
              \/ (Rescues \/ Return(p)) /\ UNCHANGED stages   \* not staged; answer lost
  /\ UNCHANGED <<profiles, archive, live, marker, backups, codex, used>>

(* create_import_profile: only for an account without a profile, under a    *)
(* name nobody has; the stage is promoted and then removed.                 *)
Unnamed(hint) ==
  IF {hint} \cap {a \in Alias : profiles[a] = NoCred} # {} THEN {hint}
  ELSE {a \in Alias : profiles[a] = NoCred}

Unheld(x) == Holders(x) = {}

FileNew(p) ==
  /\ LET t == tasks[p] IN
     \/ /\ Unheld(t.fresh.account)
        /\ \E a \in Unnamed(t.other) : profiles' = [profiles EXCEPT ![a] = t.fresh]
        /\ stages' \in {stages, stages \ ({t.fresh} \ {t.saved})}
     \/ UNCHANGED <<profiles, stages>>
  /\ Return(p)
  /\ UNCHANGED <<archive, live, marker, backups, outside, used>>

Install(p) == At(p, "install") /\ FileNew(p)

(* save_recovered_import_auth_value_with_stage: durable before any wait.    *)
Rescue(p) ==
  /\ At(p, "rescue")
  /\ LET t == tasks[p] IN
     \/ stages' = stages \cup {t.fresh} /\ Go(p, "refile") /\ UNCHANGED locks
     \/ t.fresh \notin stages /\ Return(p) /\ UNCHANGED stages
  /\ UNCHANGED <<profiles, archive, live, marker, backups, outside, used>>

Refile(p) == Look(p, "refile") /\ FileNew(p)

----------------------------------------------------------------------------
(* Deleting and renaming.                                                   *)

Delete(p) ==
  /\ Look(p, "delete")
  /\ LET t == tasks[p] IN
     IF profiles[t.alias] = NoCred \/ Undecided(live) \/ Belongs(t.alias, live)
     THEN Return(p)
     ELSE Keep(p, [t EXCEPT !.marker = marker,
                            !.pc = IF marker = t.alias THEN "unmark" ELSE "archive"])
  /\ UNCHANGED <<disk, outside, used>>

Unmark(p) ==
  /\ At(p, "unmark")
  /\ \/ /\ ~Undecided(live)
        /\ marker' = RepairedMarker
        /\ \/ Go(p, "archive") /\ UNCHANGED locks
           \/ Return(p)
     \/ Return(p) /\ UNCHANGED marker
  /\ UNCHANGED <<registry, live, backups, outside, used>>

Archive(p) ==
  /\ At(p, "archive")
  /\ LET t == tasks[p] IN
     \/ /\ archive' = archive \cup {profiles[t.alias]}
        /\ profiles' = [profiles EXCEPT ![t.alias] = NoCred]
        /\ UNCHANGED marker
     \/ marker' \in {marker, t.marker} /\ UNCHANGED <<profiles, archive>>
  /\ Return(p)
  /\ UNCHANGED <<stages, live, backups, outside, used>>

Rename(p) ==
  /\ Look(p, "rename")
  /\ LET t == tasks[p] IN
     IF profiles[t.alias] # NoCred /\ profiles[t.other] = NoCred /\ ~Undecided(live)
     THEN Keep(p, [t EXCEPT !.pc = "move", !.marker = marker, !.follow = Belongs(t.alias, live)])
     ELSE Return(p)
  /\ UNCHANGED <<disk, outside, used>>

Moved(a, b) == [profiles EXCEPT ![b] = profiles[a], ![a] = NoCred]

Move(p) ==
  /\ At(p, "move")
  /\ LET t == tasks[p] IN
     \/ /\ profiles' = Moved(t.alias, t.other)
        /\ \/ Go(p, "remark") /\ UNCHANGED locks
           \/ Return(p)                                      \* cache and rollback failed
     \/ Return(p) /\ UNCHANGED profiles
  /\ UNCHANGED <<stages, archive, live, marker, backups, outside, used>>

Remark(p) ==
  /\ At(p, "remark")
  /\ LET t == tasks[p] IN
     \/ /\ t.follow \/ ~Undecided(live)
        /\ marker' = IF t.follow THEN t.other
                     ELSE IF marker = t.alias THEN RepairedMarker ELSE marker
        /\ UNCHANGED profiles
     \/ /\ t.follow \/ marker = t.alias
        /\ profiles' \in {profiles, Moved(t.other, t.alias)}
        /\ marker' \in {t.marker} \cup (IF t.follow THEN {t.other} ELSE {})
  /\ Return(p)
  /\ UNCHANGED <<stages, archive, live, backups, outside, used>>

----------------------------------------------------------------------------
(* A process dies; its locks are the operating system's to release.         *)

Crash(p) ==
  /\ ~At(p, "idle")
  /\ used.crashes < MaxCrashes
  /\ used' = [used EXCEPT !.crashes = @ + 1]
  /\ Return(p)
  /\ UNCHANGED <<disk, outside>>

----------------------------------------------------------------------------
(* Codex.  It rotates what it has loaded, whatever is live by then.         *)

CodexMoves ==
  /\ used.moves < MaxCodexMoves
  /\ used' = [used EXCEPT !.moves = @ + 1]
  /\ UNCHANGED <<registry, marker, backups, locks, tasks>>

CodexLoads ==
  /\ live # NoCred /\ codex # live
  /\ codex' = live
  /\ UNCHANGED <<disk, locks, tasks, spent, issued, used>>

CodexRotates ==
  /\ codex # NoCred /\ codex \notin spent
  /\ Issues(codex.account)
  /\ spent' = spent \cup {codex}
  /\ codex' = Issue(codex.account)
  /\ live' = codex'
  /\ CodexMoves

CodexLogsIn(x) ==
  /\ Issues(x)
  /\ codex' = Issue(x)
  /\ live' = codex'
  /\ CodexMoves
  /\ UNCHANGED spent

CodexLogsOut ==
  /\ live # NoCred
  /\ live' = NoCred
  /\ codex' = NoCred
  /\ CodexMoves
  /\ UNCHANGED <<spent, issued>>

----------------------------------------------------------------------------
(* Steps a process takes by itself, without waiting for the user.           *)
Step(p) ==
  \/ TakeLease(p)
  \/ Authorize(p) \/ Present(p) \/ Stage(p) \/ Commit(p) \/ Unstage(p)
  \/ Write(p) \/ Swap(p) \/ Mark(p) \/ Repair(p)
  \/ Prepare(p) \/ Proceed(p) \/ Switch(p) \/ Consent(p) \/ Activate(p)
  \/ Locate(p) \/ Relocate(p) \/ AutoSwitch(p)
  \/ Adopt(p) \/ Copy(p) \/ Recheck(p)
  \/ Plan(p) \/ Store(p) \/ Bind(p) \/ Reauthorize(p)
  \/ Scan(p) \/ Reserve(p) \/ Validate(p) \/ Install(p) \/ Rescue(p) \/ Refile(p)
  \/ Delete(p) \/ Unmark(p) \/ Archive(p) \/ Rename(p) \/ Move(p) \/ Remark(p)

Codex == CodexLoads \/ CodexRotates \/ (\E x \in Account : CodexLogsIn(x)) \/ CodexLogsOut

(* With every process idle nothing more need be started.                    *)
Rest == (\A p \in Proc : At(p, "idle")) /\ UNCHANGED vars

Next ==
  \/ \E p \in Proc :
       \/ \E r \in Requests[p] : Begin(p, r)
       \/ Step(p) \/ GiveUp(p) \/ Answer(p) \/ SignIn(p) \/ Crash(p)
  \/ Codex
  \/ Rest

Spec == Init /\ [][Next]_vars

(* A process that can go on does, and the user answers; nobody is owed a    *)
(* timeout, a crash or a request.                                           *)
FairSpec == Spec /\ \A p \in Proc : WF_vars(Step(p)) /\ WF_vars(Answer(p) \/ SignIn(p))

----------------------------------------------------------------------------
(* Properties.                                                              *)

TypeOK ==
  /\ profiles \in [Alias -> CredOrNone]
  /\ {live, codex} \subseteq CredOrNone
  /\ marker \in AliasOrNone
  /\ stages \cup backups \cup archive \cup spent \subseteq Cred
  /\ lease \in [Alias -> Proc \cup {Nobody}]
  /\ txn \in Proc \cup {Nobody}
  /\ tasks \in [Proc -> Task]
  /\ issued \in [Account -> 1..MaxIssued]
  /\ used \in [ops : Nat, moves : Nat, crashes : Nat]

(* No two profiles ever hold the same account, so an account has one        *)
(* refresh token in use: two saves or logins planned at the same time for   *)
(* different names meet again inside the auth transaction.                  *)
OneProfilePerAccount == \A x \in Account : Cardinality(Holders(x)) <= 1

OnDisk == stages \cup backups \cup archive \cup ({profiles[a] : a \in Alias} \ {NoCred})
            \cup ({live} \ {NoCred})

Usable == {c.account : c \in OnDisk \ spent}

(* An account that still has a usable refresh token on disk keeps one       *)
(* through every step of the application, crash or failure, except the      *)
(* presentation of the token itself, and except that a copy of live which   *)
(* Codex has rotated since it was read is still written: that credential is *)
(* newer than the profile's, but spent.                                     *)
Overtaken(t) ==
  t.pc \in {"copy", "write"} /\ t.kind \in {"sync", "readback", "save"} /\ t.fresh \in spent

UsableKept ==
  [][used'.moves = used.moves /\ spent' = spent
       /\ (\A p \in Proc : Overtaken(tasks[p]) => tasks'[p] = tasks[p])
     => Usable \subseteq Usable']_vars

(* A switch displaces no live credential the user would miss: one the user  *)
(* was asked about is the one that was shown, whatever came between (for a  *)
(* revival the network, and a refresh that moved live itself); for one the  *)
(* user was not asked about, its account's profile, which may have been     *)
(* deleted since, holds it or a newer one; the daemon's is of the profile   *)
(* marked active, whoever signed in since it decided.  A sign-in replaces   *)
(* what its profile holds whatever the age (AnyAge): where users sign in,   *)
(* the account is still saved, but what is saved need not be newer.         *)
SignIns == \E p \in Proc : \E r \in Requests[p] : r.kind \in {"login", "reauth"}

Superseded(c) ==
  \E d \in archive \cup ({profiles[a] : a \in Alias} \ {NoCred}) :
    d.account = c.account /\ (d.gen >= c.gen \/ SignIns)

Agreed(t) ==
  IF t.kind = "auto" THEN marker \in Exact(live) \cup Holders(live.account)
  ELSE IF ~t.asked   THEN Superseded(live)
  ELSE live = IF t.kind = "revive" THEN t.agreed ELSE t.live

SwitchIsAgreed ==
  [][\A p \in Proc : At(p, "swap") /\ tasks[p].kind \in {"use", "revive", "auto"}
                       /\ ~Refreshes(tasks[p]) /\ used'.moves = used.moves
                       /\ live # NoCred /\ live' # live /\ tasks'[p] # tasks[p]
       => Agreed(tasks[p])]_vars

(* Refreshing or re-authorizing a profile replaces live only when what is   *)
(* there belongs to the same account: the network took arbitrarily long and *)
(* the user may have switched meanwhile.                                    *)
OnlyOwnLive ==
  [][\A p \in Proc : (Refreshes(tasks[p]) \/ tasks[p].kind = "reauth") /\ At(p, "swap")
                       /\ used'.moves = used.moves /\ live' # live /\ tasks'[p] # tasks[p]
       => live # NoCred /\ live.account = tasks[p].fresh.account]_vars

(* RefreshTokenUpdate::Saved: the new credential is durable and, when its   *)
(* profile is active, live as well; Codex is never left with the token that *)
(* was just spent.                                                          *)
SavedLeavesNoSpentLive ==
  [][\A p \in Proc : At(p, "unstage") /\ tasks[p].ok /\ tasks'[p] # tasks[p]
       => live' # tasks[p].saved]_vars

(* The saved profiles behave as ProfileRegistry says: in particular a stale *)
(* live credential is never copied back over a rotated profile.             *)
Registry == INSTANCE ProfileRegistry WITH Gen <- 1..MaxIssued

RegistrySpec == Registry!Spec

(* No operation needs the timeout of a lock to return: leases are taken in  *)
(* one order and the auth transaction after them.                           *)
EveryOperationReturns == \A p \in Proc : ~At(p, "idle") ~> At(p, "idle")

=============================================================================
