---------------------------- MODULE TokenRotation ----------------------------
(***************************************************************************)
(* The single-use refresh token of one saved profile at the auth server:    *)
(* the usage read and its retry loop, the opportunistic refresh, the        *)
(* warm-up and the model list (src/src/usage/api.rs, src/src/warmup.rs),    *)
(* and the refusals remembered in the cache (src/src/cache.rs).             *)
(*                                                                          *)
(* Whoever presents a token spends it: the successor exists only in the     *)
(* answer.  An answer that is lost, or that cannot be saved, leaves the     *)
(* profile with a token that may be dead, and the operation in doubt.  All  *)
(* of this happens under the profile's lease, but candidates are chosen,    *)
(* and model lists read, without it; Codex and other machines honour no     *)
(* lease at all.  Each task runs in a process of its own.  Staging and      *)
(* saving a successor is one step here; CredentialStore is its detail.      *)
(***************************************************************************)
EXTENDS Naturals

CONSTANTS
  Account, Task,
  Casts,        \* which operations the tasks may be
  Extra,        \* models of additional quota pools
  NoCred, Nobody,
  MaxRetries,   \* attempts of a usage read
  MaxIssued,    \* bound: tokens issued
  MaxMoves,     \* bound: changes made by others, and tasks whose process dies
  MaxAgings     \* bound: access tokens growing older

Kind == {"read", "force", "opportune", "warm", "list"}

Token == 1..MaxIssued
Age   == {"young", "soon", "expiring"}

Cred == [owner : Account, token : Token, access : Token]

ASSUME TokenRotationConstants ==
  /\ Casts \subseteq [Task -> Kind]
  /\ Nobody \notin Task
  /\ NoCred \notin Cred
  /\ MaxRetries \in Nat \ {0} /\ MaxIssued \in Nat \ {0}
  /\ {MaxMoves, MaxAgings} \subseteq Nat

VARIABLES
  profile,  \* the saved credential
  refusal,  \* the token named by the alias's entry in auth_failures, or 0
  lease,    \* the holder of the profile lease
  dead,     \* tokens the server no longer accepts
  issued,   \* how many tokens, of either sort, the server has issued
  age,      \* of each access token
  models,   \* MODEL_CACHE of each task's process: the pools' models, or nothing
  tasks,    \* the operations, with their local variables
  used      \* how much of each bound is used

server == <<dead, issued, age>>
disk   == <<profile, refusal>>
vars   == <<disk, lease, server, models, tasks, used>>

----------------------------------------------------------------------------
(* Local variables.                                                         *)

Verdict == {"none", "passing", "lasting"}  \* of the server, on a token: lasting ones
                                           \* are remembered
Purpose == {"proactive", "reactive", "opportune", "warming", "warmed", "listing"}

Places == {"candidates", "lease", "recheck", "prepare", "attempt", "get", "follow", "recover",
           "present", "save", "greet", "snapshot", "models", "fetch", "relock", "verify",
           "post", "ping", "bind", "done"}

(* Any other end is one the caller may simply come back from.               *)
Outcome == {"none", "ended", "known", "doubt", "crashed"}

Record ==
  [kind      : Kind,
   pc        : Places,
   wants     : Account,              \* the account the caller asked for
   cred      : Cred \cup {NoCred},   \* the credential in use
   fresh     : Cred \cup {NoCred},   \* its successor, from the answer
   purpose   : Purpose,              \* why the token is presented
   left      : 0..MaxRetries,        \* attempts left
   recovered : BOOLEAN,              \* recovery_round_used
   pending   : Verdict,              \* pending_terminal
   verdict   : Verdict,              \* rejected_refresh
   busy      : BOOLEAN,              \* retryable_proactive_refresh
   net       : {"first", "open", "cancelled"},         \* the network_wait control
   boundary  : {"waiting", "committed", "cancelled"},  \* the model_discovery control
   retried   : BOOLEAN,              \* the first message has been sent twice
   again     : BOOLEAN,              \* the models were read anew for a pool
   todo      : SUBSET Extra,         \* pools still to warm
   pinged    : SUBSET Extra,         \* pools warmed
   doubt     : SUBSET Token,         \* tokens presented without a saved successor
   swallowed : SUBSET Token,         \* those of the usage read inside a warm-up
   outcome   : Outcome]

Start(k, x) ==
  [kind |-> k, pc |-> IF k = "opportune" THEN "candidates" ELSE "lease", wants |-> x,
   cred |-> NoCred, fresh |-> NoCred, purpose |-> "proactive",
   left |-> 0, recovered |-> FALSE, pending |-> "none", verdict |-> "none",
   busy |-> FALSE, net |-> IF k \in {"warm", "list"} THEN "first" ELSE "open",
   boundary |-> IF k = "warm" THEN "waiting" ELSE "committed", retried |-> FALSE,
   again |-> FALSE, todo |-> {}, pinged |-> {}, doubt |-> {}, swallowed |-> {},
   outcome |-> "none"]

At(t, l)   == tasks[t].pc = l
Is(t, k)   == tasks[t].kind = k
Set(t, r)  == tasks' = [tasks EXCEPT ![t] = r]

(* What a finished operation is remembered for.                             *)
Ended(r, o) == [Start(r.kind, r.wants) EXCEPT
  !.pc = "done", !.cred = IF o = "known" THEN r.cred ELSE NoCred, !.net = "open", !.boundary = "committed",
  !.doubt = r.doubt, !.swallowed = r.swallowed, !.outcome = o]

Finish(t, r, o) ==
  /\ Set(t, Ended(r, o))
  /\ lease' = IF lease = t THEN Nobody ELSE lease

Asks(r, why) == [r EXCEPT !.pc = "present", !.purpose = why]
Onward(r, l) == [r EXCEPT !.pc = l, !.purpose = "proactive"]

(* The first exchange waits for network capacity, and until it has it the   *)
(* user may call it off.                                                    *)
Admitted(t) == tasks[t].net # "cancelled"
Opened(r)   == [r EXCEPT !.net = "open"]

Expiring(c) == age[c.access] = "expiring"   \* within a minute
Soon(c)     == age[c.access] # "young"      \* within half an hour

Holds(x) == profile # NoCred /\ profile.owner = x

----------------------------------------------------------------------------
(* The usage read, by itself or inside a warm-up, which keeps its lease and *)
(* only logs the error.                                                     *)

EndRead(t, r, o) ==
  IF r.kind = "warm"
  THEN /\ Set(t, [Start(r.kind, r.wants) EXCEPT
                   !.pc = "snapshot", !.net = r.net, !.boundary = r.boundary,
                   !.swallowed = r.doubt])
       /\ UNCHANGED lease
  ELSE Finish(t, r, o)

(* The next attempt knows nothing of the last.                              *)
Again(r) == [r EXCEPT !.pc = "attempt", !.verdict = "none", !.busy = FALSE,
                      !.purpose = "proactive", !.pending = "none"]

(* Mutant: a failed attempt is not counted.                                 *)
RetryUncounted(t, r) == Set(t, Again(r)) /\ UNCHANGED lease

(* A failed attempt is made again while attempts remain.                    *)
Retry(t, r) ==
  IF r.left > 1
  THEN Set(t, [Again(r) EXCEPT !.left = @ - 1]) /\ UNCHANGED lease
  ELSE EndRead(t, r, "ended")

(* Only a lasting verdict outlives the call, and only if it can be written. *)
Remember(v, token) ==
  \/ v = "lasting" /\ refusal' = token
  \/ UNCHANGED refusal

(* The first refusal buys one more round, which tries what the profile then *)
(* holds; a second one is final.                                            *)
Rejected(t, r, v) ==
  IF r.recovered
  THEN Remember(v, r.cred.token) /\ EndRead(t, r, "ended")
  ELSE /\ Set(t, [Again(r) EXCEPT !.pc = "recover", !.recovered = TRUE, !.pending = v])
       /\ UNCHANGED <<refusal, lease>>

(* Mutant: a refusal is remembered for the alias, not for the token.        *)
KnownForAlias(r) == r.kind # "force" /\ refusal # 0

(* A standing refusal of exactly this token ends every read but a forced    *)
(* one.                                                                     *)
Known(r) == r.kind # "force" /\ refusal = r.cred.token

Prepared(r) == [Again(r) EXCEPT !.left = MaxRetries, !.recovered = FALSE]

Prepare(t) ==
  /\ At(t, "prepare")
  /\ \/ EndRead(t, tasks[t], "ended")
     \/ /\ IF Is(t, "warm") THEN Holds(tasks[t].wants) ELSE profile # NoCred
        /\ LET r == [tasks[t] EXCEPT !.cred = profile]
           IN IF Known(r) THEN EndRead(t, r, "known")
              ELSE Set(t, Prepared(r)) /\ UNCHANGED lease
  /\ UNCHANGED <<disk, server, models, used>>

Attempt(t) ==
  /\ At(t, "attempt")
  /\ LET r == tasks[t]
     IN Set(t, IF Expiring(r.cred) THEN Asks(r, "proactive") ELSE [r EXCEPT !.pc = "get"])
  /\ UNCHANGED <<disk, lease, server, models, used>>

(* After the delay: the profile may hold what a concurrent refresh stored.  *)
(* Unchanged, or unreadable, it leaves the refusal standing.                *)
Recover(t) ==
  /\ At(t, "recover")
  /\ LET r == tasks[t]
     IN \/ /\ profile # NoCred /\ profile.token # r.cred.token
           /\ Set(t, [Again(r) EXCEPT !.cred = profile])
           /\ UNCHANGED <<refusal, lease>>
        \/ Remember(r.pending, r.cred.token) /\ EndRead(t, r, "ended")
  /\ UNCHANGED <<profile, server, models, used>>

(* The usage request with the bearer at hand.  A transport failure ends the *)
(* attempt before the verdict of the proactive refresh is looked at.        *)
Get(t) ==
  /\ At(t, "get")
  /\ Admitted(t)
  /\ LET r == Opened(tasks[t])
     IN \/ EndRead(t, r, "ended") /\ UNCHANGED refusal   \* usage, or an unusable body
        \/ Retry(t, r) /\ UNCHANGED refusal               \* lost on the way
        \/ r.verdict # "none" /\ Rejected(t, r, r.verdict)
        \/ /\ r.verdict = "none"
           /\ IF r.busy THEN Retry(t, r)                  \* 401 or 403
              ELSE Set(t, Asks(r, "reactive")) /\ UNCHANGED lease
           /\ UNCHANGED refusal
  /\ UNCHANGED <<profile, server, models, used>>

(* The usage request after a rotation: a 401 is final now.                  *)
Follow(t) ==
  /\ At(t, "follow")
  /\ \/ EndRead(t, tasks[t], "ended")
     \/ Retry(t, tasks[t])
  /\ UNCHANGED <<disk, server, models, used>>

----------------------------------------------------------------------------
(* Presenting a token, for whichever purpose.                               *)

Reading == {"proactive", "reactive"}

(* The server refuses the credential.                                       *)
Refused(t, r, v) ==
  CASE r.purpose = "proactive" -> /\ Set(t, [r EXCEPT !.pc = "get", !.verdict = v])
                                  /\ UNCHANGED <<refusal, lease>>
    [] r.purpose = "reactive"  -> Rejected(t, r, v)
    [] r.purpose = "opportune" -> /\ IF profile # NoCred /\ profile.token = r.cred.token
                                     THEN Remember(v, r.cred.token) ELSE UNCHANGED refusal
                                  /\ Finish(t, r, "ended")
    [] r.purpose = "warming"   -> Set(t, Onward(r, "models")) /\ UNCHANGED <<refusal, lease>>
    [] OTHER                   -> Finish(t, r, "ended") /\ UNCHANGED refusal

(* The server did not rotate the token, this time.                          *)
NotNow(t, r, retryable) ==
  CASE r.purpose = "proactive" -> /\ Set(t, [r EXCEPT !.pc = "get", !.busy = retryable])
                                  /\ UNCHANGED lease
    [] r.purpose = "reactive"  -> IF retryable THEN Retry(t, r) ELSE EndRead(t, r, "ended")
    [] r.purpose = "warming"   -> Set(t, Onward(r, "models")) /\ UNCHANGED lease
    [] OTHER                   -> Finish(t, r, "ended")

(* Mutant: a lost answer is taken for a lost request.                       *)
InDoubtRetried(t, r) ==
  LET d == [r EXCEPT !.doubt = @ \cup {r.cred.token}]
  IN IF r.purpose \in Reading THEN Retry(t, d) ELSE Finish(t, d, "doubt")

(* No word at all, or a successor that did not reach its place.             *)
InDoubt(t, r) ==
  LET d == [r EXCEPT !.doubt = @ \cup {r.cred.token}]
  IN IF r.purpose \in Reading THEN EndRead(t, d, "doubt") ELSE Finish(t, d, "doubt")

(* The successor is the profile's.                                          *)
Continue(t, r) ==
  CASE r.purpose \in Reading  -> Set(t, [r EXCEPT !.pc = "follow"]) /\ UNCHANGED lease
    [] r.purpose = "warming"  -> Set(t, Onward(r, "models")) /\ UNCHANGED lease
    [] r.purpose = "warmed"   -> Set(t, Onward(r, "post")) /\ UNCHANGED lease
    [] OTHER                  -> Finish(t, r, "ended")

(* The server's side.                                                       *)
Issued(x) == [owner |-> x, token |-> issued + 1, access |-> issued + 1]

Rotates(c) ==
  /\ c.token \notin dead
  /\ issued < MaxIssued
  /\ issued' = issued + 1
  /\ dead' = dead \cup {c.token}
  /\ UNCHANGED age

(* What live and the marker say could not be recorded first: nothing is     *)
(* presented.                                                               *)
Unauthorized(t) ==
  /\ At(t, "present")
  /\ IF tasks[t].purpose \in Reading THEN EndRead(t, tasks[t], "ended")
     ELSE Finish(t, tasks[t], "ended")
  /\ UNCHANGED <<disk, server, models, used>>

Answered(t) ==
  /\ At(t, "present")
  /\ Admitted(t)
  /\ Rotates(tasks[t].cred)
  /\ Set(t, [Opened(tasks[t]) EXCEPT !.pc = "save", !.fresh = Issued(tasks[t].cred.owner)])
  /\ UNCHANGED <<disk, lease, models, used>>

Unanswered(t) ==
  /\ At(t, "present")
  /\ Admitted(t)
  /\ InDoubt(t, Opened(tasks[t]))
  /\ Rotates(tasks[t].cred) \/ UNCHANGED server
  /\ UNCHANGED <<disk, models, used>>

Declined(t) ==
  /\ At(t, "present")
  /\ Admitted(t)
  /\ \/ \E v \in {"passing", "lasting"} :
          /\ v = "lasting" => tasks[t].cred.token \in dead
          /\ Refused(t, Opened(tasks[t]), v)
     \/ \E retryable \in BOOLEAN : NotNow(t, Opened(tasks[t]), retryable) /\ UNCHANGED refusal
  /\ UNCHANGED <<profile, server, models, used>>

(* persist_refresh_resolution: over the token that was presented and no     *)
(* other.  A successor that was stored but not confirmed, or kept aside     *)
(* because the answer was incomplete, the profile moved or the write        *)
(* failed, ends the operation.                                              *)
Save(t) ==
  /\ At(t, "save")
  /\ LET r == [tasks[t] EXCEPT !.fresh = NoCred]
         c == tasks[t].fresh
     IN \/ /\ profile # NoCred /\ profile.token = r.cred.token
           /\ profile' = c
           /\ Continue(t, [r EXCEPT !.cred = c]) \/ InDoubt(t, r)
        \/ InDoubt(t, r) /\ UNCHANGED profile
  /\ UNCHANGED <<refusal, server, models, used>>

----------------------------------------------------------------------------
(* The opportunistic refresh: candidates are chosen without a lease, from   *)
(* one look at the cache.                                                   *)

Candidates(t) ==
  /\ At(t, "candidates")
  /\ \/ /\ profile # NoCred /\ Soon(profile) /\ refusal # profile.token
        /\ Set(t, [tasks[t] EXCEPT !.pc = "lease", !.cred = profile])
        /\ UNCHANGED lease
     \/ Finish(t, tasks[t], "ended")
  /\ UNCHANGED <<disk, server, models, used>>

(* Under the lease the token must be the one chosen, and old still; the     *)
(* budget may have run out meanwhile.                                       *)
Recheck(t) ==
  /\ At(t, "recheck")
  /\ \/ /\ profile # NoCred /\ profile.token = tasks[t].cred.token /\ Soon(profile)
        /\ Set(t, Asks([tasks[t] EXCEPT !.cred = profile], "opportune"))
        /\ UNCHANGED lease
     \/ Finish(t, tasks[t], "ended")
  /\ UNCHANGED <<disk, server, models, used>>

(* The interface's model list refreshes the credential it is about to use.  *)
Bind(t) ==
  /\ At(t, "bind")
  /\ \/ /\ Holds(tasks[t].wants)
        /\ IF Expiring(profile)
           THEN /\ Set(t, Asks([tasks[t] EXCEPT !.cred = profile], "listing"))
                /\ UNCHANGED lease
           ELSE Finish(t, tasks[t], "ended")
     \/ Finish(t, tasks[t], "ended")
  /\ UNCHANGED <<disk, server, models, used>>

----------------------------------------------------------------------------
(* The warm-up.                                                             *)

(* The credential of the warm-up: what the profile holds now.               *)
Snapped(r) ==
  LET s == [r EXCEPT !.cred = profile]
  IN IF Expiring(profile) THEN Asks(s, "warming") ELSE [s EXCEPT !.pc = "models"]

(* Usage that the caller found in the cache spares the read.                *)
Greet(t) ==
  /\ At(t, "greet")
  /\ \/ /\ Holds(tasks[t].wants)
        /\ \E r \in {[tasks[t] EXCEPT !.pc = "prepare"], Snapped(tasks[t])} : Set(t, r)
        /\ UNCHANGED lease
     \/ Finish(t, tasks[t], "ended")
  /\ UNCHANGED <<disk, server, models, used>>

Snapshot(t) ==
  /\ At(t, "snapshot")
  /\ \/ /\ Holds(tasks[t].wants)
        /\ Set(t, Snapped(tasks[t]))
        /\ UNCHANGED lease
     \/ Finish(t, tasks[t], "ended")
  /\ UNCHANGED <<disk, server, models, used>>

Fit(t) == ~Expiring(tasks[t].cred) /\ tasks[t].boundary # "cancelled"

(* Past the commit nothing is called off any more.                          *)
Committed(r, found) ==
  [r EXCEPT !.boundary = "committed",
            !.pc = IF r.again THEN "ping" ELSE "post",
            !.todo = found \ r.pinged]

Models(t) ==
  /\ At(t, "models")
  /\ IF models[t] = {}
     THEN /\ Set(t, [tasks[t] EXCEPT !.pc = "fetch"])
          /\ lease' = Nobody
     ELSE IF Fit(t)
     THEN (\E found \in models[t] : Set(t, Committed(tasks[t], found))) /\ UNCHANGED lease
     ELSE Finish(t, tasks[t], "ended")
  /\ UNCHANGED <<disk, server, models, used>>

(* The list is read without the lease.                                      *)
Fetch(t) ==
  /\ At(t, "fetch")
  /\ Admitted(t)
  /\ \/ Set(t, [Opened(tasks[t]) EXCEPT !.pc = "relock"]) /\ UNCHANGED lease
     \/ Finish(t, tasks[t], "ended")
  /\ UNCHANGED <<disk, server, models, used>>

(* Mutant: after the lookup only the account is compared.                   *)
VerifyAccount(t) ==
  /\ At(t, "verify")
  /\ IF Holds(tasks[t].wants) /\ Fit(t)
     THEN /\ \E found \in SUBSET Extra :
               /\ models' = [models EXCEPT ![t] = {found}]
               /\ Set(t, Committed(tasks[t], found))
          /\ UNCHANGED lease
     ELSE Finish(t, tasks[t], "ended") /\ UNCHANGED models
  /\ UNCHANGED <<disk, server, used>>

(* The credential must be the one the lookup was made for, whole.           *)
Verify(t) ==
  /\ At(t, "verify")
  /\ IF profile = tasks[t].cred /\ Fit(t)
     THEN /\ \E found \in SUBSET Extra :
               /\ models' = [models EXCEPT ![t] = {found}]
               /\ Set(t, Committed(tasks[t], found))
          /\ UNCHANGED lease
     ELSE Finish(t, tasks[t], "ended") /\ UNCHANGED models
  /\ UNCHANGED <<disk, server, used>>

Abandon(t) ==
  /\ tasks[t].pc \in {"fetch", "relock", "verify"}
  /\ tasks[t].boundary = "cancelled"
  /\ Finish(t, tasks[t], "ended")
  /\ UNCHANGED <<disk, server, models, used>>

(* A model that is no longer offered is forgotten, and the list read anew   *)
(* once.                                                                    *)
Forget(t) == models' = [models EXCEPT ![t] = {}]

Post(t) ==
  /\ At(t, "post")
  /\ Admitted(t)
  /\ LET r == Opened(tasks[t])
     IN \/ /\ Set(t, [r EXCEPT !.pc = "ping"])
           /\ UNCHANGED <<lease, models>>
        \/ /\ IF r.retried THEN Finish(t, r, "ended")
              ELSE Set(t, [r EXCEPT !.pc = "models", !.retried = TRUE]) /\ UNCHANGED lease
           /\ Forget(t)
        \/ /\ ~r.retried
           /\ Set(t, Asks([r EXCEPT !.retried = TRUE], "warmed"))
           /\ UNCHANGED <<lease, models>>
        \/ Finish(t, r, "ended") /\ UNCHANGED models
  /\ UNCHANGED <<disk, server, used>>

Ping(t) ==
  /\ At(t, "ping")
  /\ IF tasks[t].todo = {} THEN Finish(t, tasks[t], "ended") /\ UNCHANGED models
     ELSE \/ /\ \E m \in tasks[t].todo :
                  Set(t, [tasks[t] EXCEPT !.todo = @ \ {m}, !.pinged = @ \cup {m}])
             /\ UNCHANGED <<lease, models>>
          \/ /\ IF tasks[t].again THEN Finish(t, tasks[t], "ended")
                ELSE /\ Set(t, [tasks[t] EXCEPT !.pc = "models", !.again = TRUE, !.todo = {}])
                     /\ UNCHANGED lease
             /\ Forget(t)
          \/ Finish(t, tasks[t], "ended") /\ UNCHANGED models
  /\ UNCHANGED <<disk, server, used>>

----------------------------------------------------------------------------
(* Leases and cancellation.                                                 *)

Entry == [read |-> "prepare", force |-> "prepare", opportune |-> "recheck",
          warm |-> "greet", list |-> "bind"]

Take(t) ==
  /\ lease = Nobody
  /\ \/ At(t, "lease") /\ Set(t, [tasks[t] EXCEPT !.pc = Entry[tasks[t].kind]])
     \/ At(t, "relock") /\ Set(t, [tasks[t] EXCEPT !.pc = "verify"])
  /\ lease' = t
  /\ UNCHANGED <<disk, server, models, used>>

(* The budget is spent, or the user has gone on.                            *)
Waive(t) ==
  /\ At(t, "lease")
  /\ tasks[t].kind \in {"opportune", "warm", "list"}
  /\ Finish(t, tasks[t], "ended")
  /\ UNCHANGED <<disk, server, models, used>>

(* The first wait for the network was called off.                           *)
TurnedAway(t) ==
  /\ ~Admitted(t)
  /\ tasks[t].pc \in {"get", "present", "fetch", "post"}
  /\ IF At(t, "present") /\ tasks[t].purpose = "warming"
     THEN Set(t, Onward(tasks[t], "models")) /\ UNCHANGED lease
     ELSE Finish(t, tasks[t], "ended")
  /\ UNCHANGED <<disk, server, models, used>>

Cancel(t) ==
  /\ ~At(t, "lease")
  /\ tasks[t].net = "first" \/ tasks[t].boundary = "waiting"
  /\ Set(t, [tasks[t] EXCEPT !.net = IF @ = "first" THEN "cancelled" ELSE @,
                             !.boundary = IF @ = "waiting" THEN "cancelled" ELSE @])
  /\ UNCHANGED <<disk, lease, server, models, used>>

----------------------------------------------------------------------------
(* The world outside these operations.                                      *)

Moves == used.moves < MaxMoves /\ used' = [used EXCEPT !.moves = @ + 1]

SignIn(x) ==
  /\ Moves
  /\ lease = Nobody
  /\ profile = NoCred \/ Holds(x)
  /\ issued < MaxIssued
  /\ profile' = Issued(x)
  /\ issued' = issued + 1
  /\ UNCHANGED <<refusal, lease, dead, age, models, tasks>>

Delete ==
  /\ Moves
  /\ lease = Nobody
  /\ profile # NoCred
  /\ profile' = NoCred
  /\ refusal' = 0
  /\ UNCHANGED <<lease, server, models, tasks>>

(* Something that knows of no lease, such as an older release, refreshes    *)
(* the profile.                                                             *)
Rogue ==
  /\ used.moves < MaxMoves
  /\ lease # Nobody
  /\ profile # NoCred
  /\ Rotates(profile)
  /\ profile' = Issued(profile.owner)
  /\ used' = [used EXCEPT !.moves = @ + 1, !.rogue = TRUE]
  /\ UNCHANGED <<refusal, lease, models, tasks>>

(* Codex, or another machine, presents its copy of the token.               *)
SpendElsewhere ==
  /\ used.moves < MaxMoves
  /\ profile # NoCred /\ profile.token \notin dead
  /\ dead' = dead \cup {profile.token}
  /\ used' = [used EXCEPT !.moves = @ + 1, !.abroad = @ \cup {profile.token}]
  /\ UNCHANGED <<disk, lease, issued, age, models, tasks>>

Aging ==
  /\ used.agings < MaxAgings
  /\ \E c \in {profile} \cup {tasks[t].cred : t \in Task} :
       /\ c # NoCred
       /\ \/ age[c.access] = "young" /\ age' = [age EXCEPT ![c.access] = "soon"]
          \/ age[c.access] = "soon"  /\ age' = [age EXCEPT ![c.access] = "expiring"]
  /\ used' = [used EXCEPT !.agings = @ + 1]
  /\ UNCHANGED <<disk, lease, dead, issued, models, tasks>>

Crash(t) ==
  /\ Moves
  /\ ~At(t, "done")
  /\ Finish(t, [tasks[t] EXCEPT !.doubt = IF At(t, "save") THEN @ \cup {tasks[t].cred.token} ELSE @],
            "crashed")
  /\ UNCHANGED <<disk, server, models>>

----------------------------------------------------------------------------

Init ==
  /\ \E x \in Account :
       /\ profile = [owner |-> x, token |-> 1, access |-> 1]
       /\ \E k \in Casts : tasks = [t \in Task |-> Start(k[t], x)]
  /\ refusal = 0
  /\ lease = Nobody
  /\ dead = {}
  /\ issued = 1
  /\ \E old \in Age : age = [a \in Token |-> IF a = 1 THEN old ELSE "young"]
  /\ models \in [Task -> {{}, {Extra}}]
  /\ \A t \in Task : ~Is(t, "warm") => models[t] = {}
  /\ used = [moves |-> 0, agings |-> 0, abroad |-> {}, rogue |-> FALSE]

Step(t) ==
  \/ Prepare(t) \/ Attempt(t) \/ Recover(t) \/ Get(t) \/ Follow(t)
  \/ Unauthorized(t) \/ Answered(t) \/ Unanswered(t) \/ Declined(t) \/ Save(t)
  \/ Candidates(t) \/ Recheck(t) \/ Bind(t)
  \/ Greet(t) \/ Snapshot(t) \/ Models(t) \/ Fetch(t) \/ Verify(t) \/ Abandon(t)
  \/ Post(t) \/ Ping(t)
  \/ Take(t) \/ Waive(t) \/ TurnedAway(t)

Done == \A t \in Task : At(t, "done")

Rest == Done /\ UNCHANGED vars

Outside ==
  \/ \E x \in Account : SignIn(x)
  \/ Delete \/ Rogue \/ SpendElsewhere \/ Aging

(* What happens after the last operation is nobody's concern.               *)
Next ==
  \/ \E t \in Task : Step(t) \/ Cancel(t) \/ Crash(t)
  \/ ~Done /\ Outside
  \/ Rest

Spec == Init /\ [][Next]_vars

FairSpec == Spec /\ WF_vars(\E t \in Task : Step(t))

----------------------------------------------------------------------------
(* Properties.                                                              *)

TypeOK ==
  /\ profile \in Cred \cup {NoCred}
  /\ refusal \in 0..MaxIssued
  /\ lease \in Task \cup {Nobody}
  /\ dead \subseteq Token
  /\ issued \in 1..MaxIssued
  /\ age \in [Token -> Age]
  /\ models \in [Task -> SUBSET SUBSET Extra]
  /\ tasks \in [Task -> Record]
  /\ used \in [moves : 0..MaxMoves, agings : 0..MaxAgings,
              abroad : SUBSET Token, rogue : BOOLEAN]

(* A refusal recorded for the profile, and every "sign in again" shown from *)
(* it, is about a token the server has really retired, never about one that *)
(* a concurrent refresh, a sign-in or another machine put in its place; and *)
(* a usage read that was not forced presents no token that stands refused.  *)
(* (The warm-up, the model list and a candidate chosen before the refusal   *)
(* was recorded do not ask.)                                                *)
RefusalsHold ==
  /\ refusal # 0 => refusal \in dead
  /\ \A t \in Task : tasks[t].outcome = "known" => tasks[t].cred.token \in dead
  /\ \A t \in Task : At(t, "present") /\ tasks[t].purpose \in Reading /\ ~Is(t, "force")
                      => tasks[t].cred.token # refusal

(* An operation that spent a token and did not save its successor says so;  *)
(* and a profile left with a dead token can be explained: it was spent by   *)
(* somebody else, its successor is being saved, or an operation reported or *)
(* (the usage read inside a warm-up) at least logged the doubt.             *)
LossIsReported ==
  /\ \A t \in Task : tasks[t].doubt # {} => tasks[t].outcome \in {"doubt", "crashed"}
  /\ profile # NoCred /\ profile.token \in dead =>
       \/ profile.token \in used.abroad
       \/ \E t \in Task : \/ profile.token \in tasks[t].doubt \cup tasks[t].swallowed
                          \/ At(t, "save") /\ tasks[t].cred.token = profile.token

(* A warm-up sends a message, which starts the account's quota window, only *)
(* under the lease it gave back for the lookup of the models, for the       *)
(* account it was asked for, with exactly the credential the profile then   *)
(* holds, and after the last moment at which the user could call it off.    *)
PostsAreGuarded ==
  \A t \in Task : tasks[t].pc \in {"post", "ping"} =>
    /\ lease = t
    /\ tasks[t].cred.owner = tasks[t].wants
    /\ ~used.rogue => profile = tasks[t].cred
    /\ tasks[t].boundary = "committed"

(* Every operation ends: retries, recovery rounds and renewed lookups are   *)
(* counted, and nobody waits for a lease that he holds himself.             *)
EveryOperationEnds == <>Done

=============================================================================
