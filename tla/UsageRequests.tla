--------------------------- MODULE UsageRequests ---------------------------
(* The interface's usage requests (tui/app.rs): the event loop starts one   *)
(* worker per request, hears of it over channels, and must be able to take  *)
(* a profile's lease back for a switch and to leave without abandoning a    *)
(* worker that may have spent a single-use token.                           *)
(*                                                                          *)
(* Each worker carries three controls: of its wait for the lease            *)
(* (ProfileLeaseAcquireControl), of its read-only work                      *)
(* (UsageTaskCancellation) and of its follow-ups (two                       *)
(* CacheLockAcquireControl, always cancelled together).  Request ids come   *)
(* from one counter in the code and are only ever compared within an alias: *)
(* here every alias counts its own.                                         *)
EXTENDS Naturals, FiniteSets

CONSTANTS Alias,
          Watched,      \* the aliases whose requests are followed: the others
                        \* only take part in switches
          Level,        \* the refreshes asked for: "unattended", "forced"
          MaxRequests,  \* requests per alias
          MaxAsks,      \* refreshes the user or a timer asks for
          MaxRotations, \* token refreshes of one request (bounded by the retries)
          MaxSwitches,  \* switches, and whatever else may come in between:
          MaxEvents,    \* logins, leases taken by other processes, failures;
          MaxTotal,     \* and how much of all that in one behaviour
          Free, Other  \* who holds a lease, if no request

ASSUME RequestsAssumption ==
  /\ Alias # {} /\ Watched \subseteq Alias /\ Level \subseteq {"unattended", "forced"}
  /\ {MaxRequests, MaxAsks, MaxRotations, MaxSwitches, MaxEvents, MaxTotal} \subseteq Nat
  /\ Free # Other /\ {Free, Other} \cap (1..MaxRequests) = {}

VARIABLES rows,      \* what the event loop keeps for each alias
          tasks,     \* account_tasks of kind Usage: a worker per alias and request
          results, enriched, releases,  \* the messages in the three channels
          lease,     \* the holder of each profile's lease
          switch,    \* the profile switch in flight, and its worker
          live,      \* the alias of the live credential
          phase,     \* "running", "draining", "exited"
          asked, switches, events \* how often so far: bounds

bounds == <<asked, switches, events>>
vars == <<rows, tasks, results, enriched, releases, lease, switch, live, phase, bounds>>

Requests == 1..MaxRequests

(* A level of refresh: of a row's request, of the follow-up queued behind   *)
(* it, or of what waits for the switch to end.  Workspace lookups, the      *)
(* other half of an AccountRefreshPlan, are left out, and a cached refresh  *)
(* differs from an unattended one only in where the answer comes from.      *)
Levels == {"none", "unattended", "forced"}

Stronger(x, y) == IF "forced" \in {x, y} THEN "forced"
                  ELSE IF "unattended" \in {x, y} THEN "unattended" ELSE "none"

(* A row shows the usage read `by` a request and was loaded, or loaded anew *)
(* after a login, `since` a request.  Those and refreshing, latest,         *)
(* released and metadata are requests, 0 for none.  The account a row is    *)
(* bound to only changes when it is loaded anew, which forgets its          *)
(* requests: that an answer names the account again is a second guard.      *)
Row == [shown : {"idle", "loading", "loaded", "error"},
        by : 0..MaxRequests, since : 1..(MaxRequests + 1),
        refreshing : 0..MaxRequests, level : Levels, latest : 0..MaxRequests,
        released : 0..MaxRequests, metadata : 0..MaxRequests,
        pending : Levels, deferred : Levels, next : 1..(MaxRequests + 1)]

Task == [pc : {"none", "lease", "locked", "read", "rotating", "base", "enrich", "done", "dead"},
         control : {"waiting", "acquired", "cancelled"},
         work : {"cancellable", "cancelled", "credential", "finished"},
         completed : BOOLEAN, followups : BOOLEAN, ok : BOOLEAN, rotations : 0..MaxRotations]

NoTask == [pc |-> "none", control |-> "waiting", work |-> "cancellable",
           completed |-> FALSE, followups |-> FALSE, ok |-> FALSE, rotations |-> 0]

Message == [alias : Alias, request : Requests, ok : BOOLEAN]

NoSwitch == [stage |-> "none", target |-> CHOOSE a \in Alias : TRUE, pc |-> "none",
             control |-> "waiting", ok |-> FALSE]

NewRow == [shown |-> "idle", by |-> 0, since |-> 1, refreshing |-> 0, level |-> "none", latest |-> 0,
           released |-> 0, metadata |-> 0, pending |-> "none", deferred |-> "none", next |-> 1]

Init ==
  /\ rows = [a \in Alias |->
               IF a \in Watched THEN NewRow ELSE [NewRow EXCEPT !.next = MaxRequests + 1]]
  /\ tasks = [a \in Alias |-> [g \in Requests |-> NoTask]]
  /\ results = {} /\ enriched = {} /\ releases = {}
  /\ lease = [a \in Alias |-> Free]
  /\ switch = NoSwitch
  /\ live \in Alias
  /\ phase = "running"
  /\ asked = 0 /\ switches = 0 /\ events = 0

MoreToCome == asked + switches + events < MaxTotal

Tracked(a, g) == tasks[a][g].pc # "none"
SwitchInFlight == switch.stage # "none"
Ready == phase = "running" /\ ~SwitchInFlight

----------------------------------------------------------------------------
(* Starting requests                                                        *)

(* fetch_usage_for: a request in flight only takes note of the follow-up.   *)
Fetch(r, lvl) ==
  IF r.refreshing # 0 THEN [r EXCEPT !.pending = Stronger(@, lvl)]
  ELSE IF r.next > MaxRequests THEN r
  ELSE [r EXCEPT !.refreshing = r.next, !.level = lvl, !.latest = r.next, !.released = 0,
                 !.metadata = r.next, !.next = @ + 1,
                 !.shown = IF @ = "loaded" THEN "loaded" ELSE "loading"]

NewTask == [NoTask EXCEPT !.pc = "lease"]

(* The workers after the rows became `after`: a request that was started    *)
(* has a worker, and has cancelled the follow-ups of those before it.       *)
Spawned(after) ==
  [a \in Alias |->
     IF after[a].next = rows[a].next THEN tasks[a]
     ELSE [g \in Requests |->
             IF g = rows[a].next THEN NewTask
             ELSE IF Tracked(a, g) THEN [tasks[a][g] EXCEPT !.followups = TRUE] ELSE NoTask]]

(* refresh, refresh_one, the automatic refresh                              *)
Refresh(a, lvl) ==
  /\ Ready /\ MoreToCome /\ asked < MaxAsks
  /\ asked' = asked + 1
  /\ rows' = [rows EXCEPT ![a] = Fetch(@, lvl)]
  /\ tasks' = Spawned(rows')
  /\ UNCHANGED <<results, enriched, releases, lease, switch, live, phase, switches, events>>

----------------------------------------------------------------------------
(* The worker of request g                                                  *)

Worker(a, g, t) == tasks' = [tasks EXCEPT ![a][g] = t]
Holds(a, holder) == lease' = [lease EXCEPT ![a] = holder]
Tells(a, g, ok) == [alias |-> a, request |-> g, ok |-> ok]
Releases(a, g) == Holds(a, Free) /\ releases' = releases \cup {Tells(a, g, TRUE)}
UiUnchanged == UNCHANGED <<rows, switch, live, phase, asked, switches>>

(* What an ended worker leaves for the event loop to see.                   *)
Ended(t, pc) == [NoTask EXCEPT !.pc = pc, !.control = t.control, !.completed = t.work = "cancelled",
                               !.work = "finished", !.followups = TRUE]

(* Something goes wrong, or comes in between.                               *)
Event == MoreToCome /\ events < MaxEvents /\ events' = events + 1

(* acquire_profile_lease_async_cancellable: the lock is tried while the     *)
(* wait is not cancelled, ...                                               *)
TryLease(a, g) ==
  LET t == tasks[a][g] IN
  /\ t.pc = "lease" /\ t.control = "waiting" /\ lease[a] = Free
  /\ Worker(a, g, [t EXCEPT !.pc = "locked"]) /\ Holds(a, g)
  /\ UiUnchanged /\ UNCHANGED <<results, enriched, releases, events>>

(* Mutant: the cancelled wait is not noticed any more.                      *)
MarkAcquiredBlindly(a, g) ==
  LET t == tasks[a][g] IN
  /\ t.pc = "locked" /\ Worker(a, g, [t EXCEPT !.pc = "read"])
  /\ UiUnchanged /\ UNCHANGED <<results, enriched, releases, lease, events>>

(* ... and given back when the cancellation came first after all.           *)
MarkAcquired(a, g) ==
  LET t == tasks[a][g] IN
  /\ t.pc = "locked"
  /\ IF t.control = "waiting"
     THEN Worker(a, g, [t EXCEPT !.pc = "read", !.control = "acquired"]) /\ UNCHANGED lease
     ELSE Worker(a, g, Ended(t, "done")) /\ Holds(a, Free)
  /\ UiUnchanged /\ UNCHANGED <<results, enriched, releases, events>>

LeaseWaitCancelled(a, g) ==
  LET t == tasks[a][g] IN
  /\ t.pc = "lease" /\ t.control = "cancelled"
  /\ Worker(a, g, Ended(t, "done"))
  /\ UiUnchanged /\ UNCHANGED <<results, enriched, releases, lease, events>>

(* The lock cannot be tried at all.                                         *)
LeaseFails(a, g) ==
  LET t == tasks[a][g] IN
  /\ t.pc = "lease" /\ t.control = "waiting" /\ Event
  /\ Worker(a, g, Ended(t, "done"))
  /\ IF t.work = "cancelled" THEN UNCHANGED <<results, releases>>
     ELSE /\ results' = results \cup {Tells(a, g, FALSE)}
          /\ releases' = releases \cup {Tells(a, g, FALSE)}
  /\ UiUnchanged /\ UNCHANGED <<enriched, lease>>

(* begin_credential_work: the last step before the refresh is sent.         *)
MayRotate(t) == t.work \in {"cancellable", "credential"}

BeginCredentialWork(a, g) ==
  LET t == tasks[a][g] IN
  /\ t.pc = "read" /\ t.rotations < MaxRotations /\ MayRotate(t)
  /\ Worker(a, g, [t EXCEPT !.work = "credential", !.pc = "rotating", !.rotations = @ + 1])
  /\ UiUnchanged /\ UNCHANGED <<results, enriched, releases, lease, events>>

(* The server refused the token, its answer is unknown, or the new token is *)
(* stored (persist_refresh_resolution): the read goes on with what there is.*)
RotationResolved(a, g) ==
  LET t == tasks[a][g] IN
  /\ t.pc = "rotating" /\ Worker(a, g, [t EXCEPT !.pc = "read"])
  /\ UiUnchanged /\ UNCHANGED <<results, enriched, releases, lease, events>>

(* The answer of the cache or of the server, an error, or the cancellation  *)
(* of the read; finish publishes it unless the cancellation won.            *)
Finish(a, g) ==
  LET t == tasks[a][g] IN
  /\ t.pc = "read"
  /\ IF t.work = "cancelled"
     THEN /\ Worker(a, g, Ended(t, "done"))
          /\ Releases(a, g)
          /\ UNCHANGED results
     ELSE /\ \E ok \in BOOLEAN :
               /\ Worker(a, g, [t EXCEPT !.work = "finished", !.pc = "base", !.ok = ok, !.rotations = 0])
               /\ results' = results \cup {Tells(a, g, ok)}
          /\ UNCHANGED <<lease, releases>>
  /\ UiUnchanged /\ UNCHANGED <<enriched, events>>

(* The base of the usage goes to the cache under the lease, unless there is *)
(* none, a newer request cancelled the wait for the cache's lock, or the    *)
(* write fails: the failure is shown, and ends the request.                 *)
Base(a, g) ==
  LET t == tasks[a][g] IN
  /\ t.pc = "base"
  /\ \/ /\ t.ok /\ ~t.followups
        /\ Worker(a, g, [t EXCEPT !.pc = "enrich"])
        /\ UNCHANGED enriched
     \/ /\ ~t.ok \/ t.followups
        /\ Worker(a, g, Ended(t, "done"))
        /\ UNCHANGED enriched
     \/ /\ t.ok
        /\ Worker(a, g, Ended(t, "done"))
        /\ enriched' = enriched \cup {Tells(a, g, FALSE)}
  /\ Releases(a, g)
  /\ UiUnchanged /\ UNCHANGED <<results, events>>

(* The reset cards are read and merged without the lease.                   *)
Enrich(a, g) ==
  LET t == tasks[a][g] IN
  /\ t.pc = "enrich"
  /\ Worker(a, g, Ended(t, "done"))
  /\ enriched' = IF t.followups THEN enriched ELSE enriched \cup {Tells(a, g, TRUE)}
  /\ UiUnchanged /\ UNCHANGED <<results, releases, lease, events>>

(* A worker stops without an answer; unwinding drops its lease.             *)
Panic(a, g) ==
  LET t == tasks[a][g] IN
  /\ t.pc \notin {"none", "done", "dead"} /\ Event
  /\ Worker(a, g, Ended(t, "dead"))
  /\ lease' = IF lease[a] = g THEN [lease EXCEPT ![a] = Free] ELSE lease
  /\ UiUnchanged /\ UNCHANGED <<results, enriched, releases>>

Work(a, g) ==
  \/ TryLease(a, g) \/ MarkAcquired(a, g) \/ LeaseWaitCancelled(a, g)
  \/ BeginCredentialWork(a, g) \/ RotationResolved(a, g)
  \/ Finish(a, g) \/ Base(a, g) \/ Enrich(a, g)

----------------------------------------------------------------------------
(* What the event loop hears                                                *)

(* Mutant: every answer for the alias counts.                               *)
IsForAlias(r, m) == TRUE

IsCurrent(r, m) == m.request = r.refreshing
IsNewest(r, m) == m.request = r.latest /\ m.request = r.metadata

(* poll_results: of the results only the one of the row's request counts ...*)
HearResult(a, r) ==
  LET mine == {m \in results : m.alias = a /\ IsCurrent(r, m)} IN
  IF mine = {} THEN r
  ELSE LET m == CHOOSE m \in mine : TRUE
           answered == [r EXCEPT !.refreshing = 0, !.level = "none"]
       IN IF m.ok THEN [answered EXCEPT !.shown = "loaded", !.by = m.request]
          ELSE [answered EXCEPT !.shown = "error", !.metadata = 0]

(* ... and of the completed usages only the one of the newest request.      *)
HearEnriched(a, r) ==
  LET mine == {m \in enriched : m.alias = a /\ IsNewest(r, m)} IN
  IF mine = {} THEN r
  ELSE LET m == CHOOSE m \in mine : TRUE
           heard == [r EXCEPT !.metadata = 0]
       IN IF r.shown = "loaded" THEN [heard EXCEPT !.by = m.request] ELSE heard

HeardResults == [a \in Alias |-> HearEnriched(a, HearResult(a, rows[a]))]

PollResults ==
  /\ results # {} \/ enriched # {}
  /\ rows' = HeardResults /\ results' = {} /\ enriched' = {}
  /\ UNCHANGED <<tasks, releases, lease, switch, live, phase, bounds>>

(* poll_usage_lease_releases: a follow-up starts once the newest request    *)
(* has given the lease back, and not while a switch or the exit is on.      *)
HearRelease(a, r) ==
  IF \E m \in releases : m.alias = a /\ m.request = r.latest
  THEN [r EXCEPT !.released = r.latest] ELSE r

(* Mutant: nor is the exit minded.                                          *)
MayResumeAlways(r) == r.pending # "none" /\ r.refreshing = 0 /\ r.latest = r.released

MayResume(r) ==
  Ready /\ r.pending # "none" /\ r.refreshing = 0 /\ r.latest = r.released

ResumeFollowUp(r) == IF MayResume(r) THEN Fetch([r EXCEPT !.pending = "none"], r.pending) ELSE r

HeardReleases(heard) == [a \in Alias |-> ResumeFollowUp(HearRelease(a, heard[a]))]

PollReleases ==
  /\ releases # {} \/ \E a \in Alias : MayResume(rows[a])
  /\ rows' = HeardReleases(rows) /\ tasks' = Spawned(rows') /\ releases' = {}
  /\ UNCHANGED <<results, enriched, lease, switch, live, phase, bounds>>

(* poll_account_tasks: a worker that ended without an answer, because it    *)
(* was cancelled or stopped, leaves nothing of its request behind.          *)
Finished(a) == {g \in Requests : tasks[a][g].pc \in {"done", "dead"}}
Unanswered(t) == t.pc = "dead" \/ t.control = "cancelled" \/ t.completed

(* Mutant: the release of the lease is not noted.                           *)
JoinedUnreleased(a, r) ==
  IF r.refreshing \notin {g \in Finished(a) : Unanswered(tasks[a][g])} THEN r
  ELSE [r EXCEPT !.refreshing = 0, !.level = "none", !.pending = "none", !.metadata = 0,
                 !.released = r.latest, !.shown = IF @ = "loading" THEN "idle" ELSE @]

Joined(a, r) ==
  LET gone == {g \in Finished(a) : Unanswered(tasks[a][g])}
      told == IF r.latest \in gone THEN [r EXCEPT !.released = r.latest] ELSE r
      stopped == tasks[a][r.refreshing].pc = "dead"
  IN IF r.refreshing \notin gone THEN told
     ELSE [told EXCEPT
             !.refreshing = 0, !.level = "none", !.pending = "none",
             !.metadata = IF @ = r.refreshing THEN 0 ELSE @,
             !.deferred = IF ~stopped /\ SwitchInFlight THEN Stronger(@, r.level) ELSE @,
             !.shown = IF stopped THEN "error" ELSE IF @ = "loading" THEN "idle" ELSE @]

PollTasks ==
  /\ switch.stage = "ended" \/ \E a \in Alias : Finished(a) # {}
  /\ rows' = [a \in Alias |-> Joined(a, rows[a])]
  /\ tasks' = [a \in Alias |->
                 [g \in Requests |-> IF g \in Finished(a) THEN NoTask ELSE tasks[a][g]]]
  /\ switch' = IF switch.stage = "ended" THEN NoSwitch ELSE switch
  /\ UNCHANGED <<results, enriched, releases, lease, live, phase, bounds>>

----------------------------------------------------------------------------
(* A profile switch                                                         *)

(* Mutant: who waits for a lease goes on waiting.                           *)
CancelNoWait(t) == t

CancelWait(t) == [t EXCEPT !.control = IF @ = "waiting" THEN "cancelled" ELSE @]
CancelRead(t) == [t EXCEPT !.work = IF @ = "cancellable" THEN "cancelled" ELSE @]
CancelFollowUps(t) == [t EXCEPT !.followups = TRUE]

CancelTasks(aliases, Cancelled(_)) ==
  [a \in Alias |-> [g \in Requests |->
     IF a \in aliases /\ Tracked(a, g) THEN Cancelled(tasks[a][g]) ELSE tasks[a][g]]]

CancelReading(t) == CancelRead(CancelWait(t))
CancelAll(t) == CancelFollowUps(CancelReading(t))

(* cancel_waiting_background_credential_work_for: what the row's request    *)
(* was for is deferred if one of its controls could still be cancelled.     *)
Cancellable(t) == t.control = "waiting" \/ t.work = "cancellable"

Interrupted(a) ==
  IF rows[a].refreshing # 0 /\ Tracked(a, rows[a].refreshing)
       /\ Cancellable(tasks[a][rows[a].refreshing])
  THEN rows[a].level ELSE "none"

Stage(name, target) ==
  [stage |-> name, target |-> target, control |-> "waiting", ok |-> FALSE,
   pc |-> IF name = "sync" THEN "identify" ELSE "lease"]

(* Mutant: only what was cancelled is put off, not what was queued.         *)
DeferredWithoutPending(a) == Stronger(rows[a].deferred, Interrupted(a))

Deferred(a) == Stronger(Stronger(rows[a].deferred, rows[a].pending), Interrupted(a))

(* switch_selected                                                          *)
SelectSwitch(a) ==
  /\ Ready /\ a # live /\ MoreToCome /\ switches < MaxSwitches
  /\ switches' = switches + 1
  /\ rows' = [rows EXCEPT ![a].deferred = Deferred(a)]
  /\ tasks' = CancelTasks({a}, CancelAll)
  /\ switch' = Stage("prepare", a)
  /\ UNCHANGED <<results, enriched, releases, lease, live, phase, asked, events>>

SwitchUnchanged == UNCHANGED <<rows, results, enriched, releases, phase, bounds>>

(* synchronize_live first stops what reads with the live account, unless    *)
(* that account is not a saved one.                                         *)
SwitchIdentifies ==
  /\ switch.pc = "identify"
  /\ \/ switch' = [switch EXCEPT !.pc = "lease"] /\ tasks' = CancelTasks({live}, CancelReading)
     \/ switch' = [switch EXCEPT !.pc = "sent"] /\ UNCHANGED tasks
  /\ UNCHANGED <<lease, live>> /\ SwitchUnchanged

Wanted == IF switch.stage = "sync" THEN live ELSE switch.target

SwitchWaitCancelled ==
  /\ switch.pc = "lease" /\ switch.control = "cancelled"
  /\ switch' = [switch EXCEPT !.stage = "ended", !.pc = "none"]
  /\ UNCHANGED <<tasks, lease, live>> /\ SwitchUnchanged

(* A stage does its work under one lease, and nobody else's work depends on *)
(* how long it takes: it is one step.                                       *)
SwitchWorks ==
  /\ switch.pc = "lease" /\ switch.control = "waiting" /\ lease[Wanted] = Free
  /\ \E ok \in BOOLEAN :
       /\ switch' = [switch EXCEPT !.pc = "sent", !.control = "acquired", !.ok = ok]
       /\ live' = IF ok /\ switch.stage = "commit" THEN switch.target ELSE live
  /\ UNCHANGED <<tasks, lease>> /\ SwitchUnchanged

(* poll_profile_switch_results: live that is newer than its profile is      *)
(* synchronized before the switch is prepared again and committed.          *)
FollowingStages ==
  IF ~switch.ok \/ phase # "running" THEN {"ended"}
  ELSE CASE switch.stage = "prepare" -> {"sync", "commit", "ended"}
         [] switch.stage = "sync" -> {"revalidate"}
         [] switch.stage = "revalidate" -> {"commit", "ended"}
         [] OTHER -> {"ended"}

PollSwitch ==
  /\ switch.pc = "sent"
  /\ \E stage \in FollowingStages :
       switch' = IF stage = "ended" THEN [switch EXCEPT !.stage = stage, !.pc = "none"]
                 ELSE Stage(stage, switch.target)
  /\ UNCHANGED <<tasks, lease, live>> /\ SwitchUnchanged

(* resume_deferred_post_switch_usage_refreshes                              *)
ResumeDeferred ==
  /\ Ready /\ \E a \in Alias : rows[a].deferred # "none"
  /\ rows' = [a \in Alias |->
                IF rows[a].deferred = "none" THEN rows[a]
                ELSE Fetch([rows[a] EXCEPT !.deferred = "none"], rows[a].deferred)]
  /\ tasks' = Spawned(rows')
  /\ UNCHANGED <<results, enriched, releases, lease, switch, live, phase, bounds>>

----------------------------------------------------------------------------
(* Logins, other processes, and the exit                                    *)

(* apply_loaded_profiles for an alias whose credentials were replaced: the  *)
(* row forgets its requests, whose workers go on.                           *)
Forgotten(r) == [NewRow EXCEPT !.deferred = r.deferred, !.next = r.next, !.since = r.next]

(* finish_oauth_attempt, after a login replaced the profile under its lease,*)
(* with credentials of the same account or of another.                      *)
Login(a) ==
  /\ Ready /\ lease[a] = Free /\ Event
  /\ rows' = [x \in Alias |-> Fetch(IF x = a THEN Forgotten(rows[x]) ELSE rows[x], "forced")]
  /\ tasks' = Spawned(rows')
  /\ UNCHANGED <<results, enriched, releases, lease, switch, live, phase, asked, switches>>

(* Another process takes a lease, for as long as it likes.                  *)
OtherTakes(a) ==
  /\ lease[a] = Free /\ Event /\ Holds(a, Other)
  /\ UNCHANGED <<rows, tasks, results, enriched, releases, switch, live, phase, asked, switches>>

OtherGivesBack(a) ==
  /\ lease[a] = Other /\ Holds(a, Free)
  /\ UNCHANGED <<rows, tasks, results, enriched, releases, switch, live, phase, bounds>>

(* drain_credential_tasks: every wait and every read is cancelled, once.    *)
Quit ==
  /\ phase = "running" /\ phase' = "draining"
  /\ tasks' = CancelTasks(Alias, CancelAll)
  /\ switch' = IF switch.pc \in {"identify", "lease"} THEN CancelWait(switch) ELSE switch
  /\ UNCHANGED <<rows, results, enriched, releases, lease, live, bounds>>

HasPending == SwitchInFlight \/ \E a \in Alias, g \in Requests : Tracked(a, g)

(* Nothing is pending: what was said meanwhile is heard once more.          *)
Exit ==
  /\ phase = "draining" /\ ~HasPending
  /\ phase' = "exited"
  /\ rows' = HeardReleases(HeardResults) /\ tasks' = Spawned(rows')
  /\ results' = {} /\ enriched' = {} /\ releases' = {}
  /\ UNCHANGED <<lease, switch, live, bounds>>

Exited == phase = "exited" /\ UNCHANGED vars

----------------------------------------------------------------------------
EventLoop == PollResults \/ PollReleases \/ PollTasks \/ PollSwitch \/ ResumeDeferred \/ Exit
SwitchWorker == SwitchIdentifies \/ SwitchWaitCancelled \/ SwitchWorks

Next ==
  /\ phase # "exited"
  /\ \/ \E a \in Watched, lvl \in Level : Refresh(a, lvl)
     \/ \E a \in Watched, g \in Requests : Work(a, g) \/ LeaseFails(a, g) \/ Panic(a, g)
     \/ EventLoop \/ SwitchWorker
     \/ \E a \in Alias : SelectSwitch(a)
     \/ \E a \in Watched : Login(a) \/ OtherTakes(a) \/ OtherGivesBack(a)
     \/ Quit

(* The event loop goes on, and so do the worker of a switch and the workers *)
(* of the requests, each of which ends: their HTTP requests have a timeout. *)
(* Nobody has to ask for anything, to fail or to give a lease back.         *)
Fairness ==
  /\ WF_vars(EventLoop) /\ WF_vars(SwitchWorker)
  /\ \A a \in Watched : WF_vars(\E g \in Requests : Work(a, g))

Spec == Init /\ [][Next \/ Exited]_vars /\ Fairness

----------------------------------------------------------------------------
TypeOK ==
  /\ rows \in [Alias -> Row]
  /\ tasks \in [Alias -> [Requests -> Task]]
  /\ results \cup enriched \cup releases \subseteq Message
  /\ lease \in [Alias -> Requests \cup {Free, Other}]
  /\ live \in Alias /\ phase \in {"running", "draining", "exited"}
  /\ \A a \in Alias : /\ rows[a].refreshing \in {0, rows[a].latest}
                      /\ rows[a].metadata \in {0, rows[a].latest}
                      /\ rows[a].released \in {0, rows[a].latest}
                      /\ rows[a].shown = "loading" => rows[a].refreshing # 0

(* A token is only ever spent under the profile's lease, and never after a  *)
(* cancellation was accepted: one that comes between taking the lock and    *)
(* saying so gives the lease back untouched, and one that comes too late is *)
(* refused until the new token is stored.                                   *)
SpendsUnderItsLease ==
  [][\A a \in Alias, g \in Requests :
       tasks'[a][g].pc = "rotating" =>
         /\ tasks[a][g].work # "cancelled" /\ tasks'[a][g].control = "acquired"
         /\ lease'[a] = g]_vars

(* The panel leaves no worker behind, and starts none on its way out: one   *)
(* may hold a token the server has issued and nobody has stored.            *)
ExitLeavesNoWorker == phase = "exited" => ~HasPending

(* The usage shown was read for the row's account with the credentials the  *)
(* row was last loaded with: a late answer of an earlier request never      *)
(* lands on what replaced it.                                               *)
ShownIsOwn == \A a \in Alias : rows[a].shown = "loaded" => rows[a].by >= rows[a].since

(* Usage shown is never replaced by usage of an earlier request.            *)
ShownGoesForward ==
  [][\A a \in Alias : rows'[a].since = rows[a].since => rows'[a].by >= rows[a].by]_vars

(* Leaving ends, even while another process keeps a lease for good.         *)
ExitEnds == phase = "draining" ~> phase = "exited"

(* If no other process keeps a lease for good, a row never stays loading,   *)
(* a follow-up is not left queued and a switch does not stay in flight,     *)
(* through cancellations, failures and workers that stop.                   *)
Busy(a) == rows[a].shown = "loading" \/ rows[a].pending # "none" \/ SwitchInFlight

RequestsSettle ==
  <>[](\A a \in Alias : lease[a] # Other)
    => \A a \in Watched : phase = "running" /\ Busy(a) ~> ~Busy(a) \/ phase # "running"

(* What was asked for an account that is being switched to is not forgotten *)
(* with its cancelled request: short of an answer or a worker that stopped, *)
(* it stays at least as strong until the switch is over.                    *)
Intent(r) == Stronger(r.level, Stronger(r.pending, r.deferred))

TargetIntentKept ==
  [][\A a \in Alias :
       /\ phase = "running" /\ results' = results
       /\ switch'.target = a /\ switch'.stage # "none"
       /\ \A g \in Requests : tasks[a][g].pc # "dead"
       => Stronger(Intent(rows[a]), Intent(rows'[a])) = Intent(rows'[a])]_vars

============================================================================
