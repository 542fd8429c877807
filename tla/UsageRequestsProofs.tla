------------------------ MODULE UsageRequestsProofs ------------------------
(* What UsageRequests promises, for every set of aliases and every bound:   *)
(* its types, that a token is only spent under the profile's lease and      *)
(* never after an accepted cancellation, that no late answer lands on what  *)
(* replaced it or goes back in time, and that leaving leaves no worker.     *)
(* Liveness stays with the model checker.                                   *)
EXTENDS UsageRequests, TLAPS

(* A worker holds the lease from the lock it took to the answer it stored,  *)
(* was not cancelled while waiting for it, and rotates as credential work.  *)
TaskGood(t, g, holder) ==
  /\ t.pc \in {"locked", "read", "rotating", "base"} => holder = g
  /\ t.pc \in {"read", "rotating", "base", "enrich"} => t.control = "acquired"
  /\ t.pc = "rotating" => t.work = "credential"

(* The requests a row still listens to are newer than the row's content and *)
(* than the credentials it was loaded with.                                 *)
RowGood(r) ==
  /\ r \in Row
  /\ r.refreshing \in {0, r.latest} /\ r.metadata \in {0, r.latest}
  /\ r.released \in {0, r.latest}
  /\ r.shown = "loading" => r.refreshing # 0
  /\ r.latest < r.next /\ r.since <= r.next /\ r.by <= r.latest
  /\ r.by # 0 => r.since <= r.by
  /\ r.shown = "loaded" => r.by # 0
  /\ r.refreshing # 0 => r.since <= r.refreshing
  /\ r.metadata # 0 => r.since <= r.metadata

Messages(ms) == ms \subseteq Message

RowsGood == rows \in [Alias -> Row] /\ \A a \in Alias : RowGood(rows[a])

TasksGood ==
  /\ tasks \in [Alias -> [Requests -> Task]]
  /\ lease \in [Alias -> Requests \cup {Free, Other}]
  /\ \A a \in Alias, g \in Requests : TaskGood(tasks[a][g], g, lease[a])

SwitchGood ==
  switch \in [stage : {"none", "prepare", "sync", "revalidate", "commit", "ended"},
              target : Alias, pc : {"none", "identify", "lease", "sent"},
              control : {"waiting", "acquired", "cancelled"}, ok : BOOLEAN]

IInv ==
  /\ RowsGood /\ TasksGood /\ SwitchGood
  /\ Messages(results) /\ Messages(enriched) /\ Messages(releases)
  /\ live \in Alias /\ phase \in {"running", "draining", "exited"}
  /\ ExitLeavesNoWorker

----------------------------------------------------------------------------
(* Rows                                                                     *)

(* What an operation does to a row: it keeps it good, and never replaces    *)
(* its content by older content without loading it anew.                    *)
Forward(r, s) == RowGood(s) /\ (s.since = r.since => s.by >= r.by)

(* The bounds, and the kinds of lease holders.                              *)
LEMMA Bounds ==
  /\ MaxRequests \in Nat /\ MaxRotations \in Nat
  /\ Requests = 1..MaxRequests /\ \A g \in Requests : g \in Nat /\ g >= 1
  /\ Free \notin Requests /\ Other \notin Requests /\ Free # Other
  /\ Watched \subseteq Alias /\ Level \subseteq Levels
BY RequestsAssumption DEF Requests, Levels

(* The stronger of two levels is a level.                                   *)
LEMMA StrongerIsLevel ==
  ASSUME NEW x, NEW y
  PROVE  Stronger(x, y) \in Levels
BY DEF Stronger, Levels

(* Two operations in a row.                                                 *)
LEMMA ForwardTwice ==
  ASSUME NEW r, NEW s, NEW t, RowGood(r), Forward(r, s), Forward(s, t),
         s.since = r.since \/ t.since = s.since
  PROVE  t.since = r.since => t.by >= r.by
<1>1. r.by \in Nat /\ s.by \in Nat /\ t.by \in Nat
  BY Bounds DEF Forward, RowGood, Row
<1> QED
  BY <1>1 DEF Forward

(* Asking for a refresh starts a request newer than anything shown.         *)
LEMMA FetchForward ==
  ASSUME NEW r, NEW lvl \in Levels, RowGood(r)
  PROVE  Forward(r, Fetch(r, lvl)) /\ Fetch(r, lvl).since = r.since
<1> USE Bounds, StrongerIsLevel DEF Fetch
<1>1. CASE r.refreshing # 0
  BY <1>1 DEF Forward, RowGood, Row
<1>2. CASE r.refreshing = 0 /\ r.next > MaxRequests
  BY <1>2 DEF Forward, RowGood, Row
<1>3. CASE r.refreshing = 0 /\ ~(r.next > MaxRequests)
  <2>1. r.next \in 1..MaxRequests /\ r.next + 1 \in 1..(MaxRequests + 1)
    BY <1>3 DEF RowGood, Row
  <2> DEFINE s == [r EXCEPT !.refreshing = r.next, !.level = lvl, !.latest = r.next,
                            !.released = 0, !.metadata = r.next, !.next = @ + 1,
                            !.shown = IF @ = "loaded" THEN "loaded" ELSE "loading"]
  <2>2. r \in Row
    BY DEF RowGood
  <2>n. /\ r.next \in 0..MaxRequests /\ 0 \in 0..MaxRequests
        /\ (IF r.shown = "loaded" THEN "loaded" ELSE "loading")
             \in {"idle", "loading", "loaded", "error"}
    BY <2>1, Bounds
  <2>3. s \in Row
    BY <2>1, <2>2, <2>n DEF Row
  <2>4. /\ s.refreshing = r.next /\ s.latest = r.next /\ s.released = 0
        /\ s.metadata = r.next /\ s.next = r.next + 1 /\ s.by = r.by /\ s.since = r.since
        /\ s.shown = IF r.shown = "loaded" THEN "loaded" ELSE "loading"
    BY <2>1, <2>2 DEF Row
  <2>5. Fetch(r, lvl) = s
    BY <1>3
  <2> HIDE DEF s
  <2>6. r.latest \in Nat /\ r.next \in Nat /\ r.by \in Nat /\ r.since \in Nat
    BY <2>2 DEF Row
  <2> QED
    BY <2>1, <2>3, <2>4, <2>5, <2>6 DEF Forward, RowGood
<1> QED
  BY <1>1, <1>2, <1>3

(* An answer that counts is the one of the row's request.                   *)
LEMMA ResultForward ==
  ASSUME NEW a, NEW r, RowGood(r), Messages(results)
  PROVE  /\ Forward(r, HearResult(a, r))
         /\ HearResult(a, r).since = r.since /\ HearResult(a, r).next = r.next
<1> DEFINE mine == {m \in results : m.alias = a /\ IsCurrent(r, m)}
           m == CHOOSE m \in mine : TRUE
           answered == [r EXCEPT !.refreshing = 0, !.level = "none"]
<1>1. CASE mine = {}
  BY <1>1, Bounds DEF HearResult, Forward, RowGood, Row
<1>2. CASE mine # {}
  <2>1. m \in mine
    BY <1>2
  <2>2. m.request \in Requests /\ m.request = r.refreshing
    BY <2>1 DEF Messages, Message, IsCurrent
  <2>3. HearResult(a, r) = IF m.ok THEN [answered EXCEPT !.shown = "loaded", !.by = m.request]
                           ELSE [answered EXCEPT !.shown = "error", !.metadata = 0]
    BY <1>2 DEF HearResult
  <2> HIDE DEF m, mine
  <2>0. r \in Row
    BY DEF RowGood
  <2>n. 0 \in 0..MaxRequests /\ "none" \in Levels
    BY Bounds DEF Levels
  <2>r. answered \in Row
    BY <2>0, <2>n DEF Row
  <2>a. /\ answered \in Row /\ answered.refreshing = 0
        /\ answered.shown = r.shown /\ answered.by = r.by /\ answered.since = r.since
        /\ answered.latest = r.latest /\ answered.released = r.released
        /\ answered.metadata = r.metadata /\ answered.next = r.next
    BY <2>0, <2>r DEF Row
  <2> HIDE DEF answered
  <2>4. CASE m.ok
    <3> DEFINE s == [answered EXCEPT !.shown = "loaded", !.by = m.request]
    <3>n. m.request \in 0..MaxRequests /\ "loaded" \in {"idle", "loading", "loaded", "error"}
      BY <2>2, Bounds
    <3>0. s \in Row
      BY <2>a, <3>n DEF Row
    <3>1. /\ s \in Row /\ s.refreshing = 0 /\ s.shown = "loaded" /\ s.by = m.request
          /\ s.since = r.since /\ s.latest = r.latest /\ s.released = r.released
          /\ s.metadata = r.metadata /\ s.next = r.next
      BY <3>0, <2>a DEF Row
    <3> HIDE DEF s
    <3>2. HearResult(a, r) = s
      BY <2>3, <2>4 DEF s
    <3> QED
      BY <3>1, <3>2, <2>2, Bounds DEF Forward, RowGood, Row
  <2>5. CASE ~m.ok
    <3> DEFINE s == [answered EXCEPT !.shown = "error", !.metadata = 0]
    <3>1. /\ s \in Row /\ s.refreshing = 0 /\ s.shown = "error" /\ s.by = r.by
          /\ s.since = r.since /\ s.latest = r.latest /\ s.released = r.released
          /\ s.metadata = 0 /\ s.next = r.next
      BY <2>a, Bounds DEF Row
    <3> HIDE DEF s
    <3>2. HearResult(a, r) = s
      BY <2>3, <2>5 DEF s
    <3> QED
      BY <3>1, <3>2, Bounds DEF Forward, RowGood, Row
  <2> QED
    BY <2>4, <2>5
<1> QED
  BY <1>1, <1>2

(* So is a completed usage that counts.                                     *)
LEMMA EnrichedForward ==
  ASSUME NEW a, NEW r, RowGood(r), Messages(enriched)
  PROVE  /\ Forward(r, HearEnriched(a, r))
         /\ HearEnriched(a, r).since = r.since /\ HearEnriched(a, r).next = r.next
<1> DEFINE mine == {m \in enriched : m.alias = a /\ IsNewest(r, m)}
           m == CHOOSE m \in mine : TRUE
           heard == [r EXCEPT !.metadata = 0]
<1>1. CASE mine = {}
  BY <1>1, Bounds DEF HearEnriched, Forward, RowGood, Row
<1>2. CASE mine # {}
  <2>1. m \in mine
    BY <1>2
  <2>2. m.request \in Requests /\ m.request = r.latest /\ m.request = r.metadata
    BY <2>1 DEF Messages, Message, IsNewest
  <2>3. HearEnriched(a, r) = IF r.shown = "loaded" THEN [heard EXCEPT !.by = m.request] ELSE heard
    BY <1>2 DEF HearEnriched
  <2> HIDE DEF m, mine
  <2>a. /\ heard \in Row /\ heard.metadata = 0
        /\ heard.shown = r.shown /\ heard.by = r.by /\ heard.since = r.since
        /\ heard.latest = r.latest /\ heard.released = r.released
        /\ heard.refreshing = r.refreshing /\ heard.next = r.next
    BY Bounds DEF RowGood, Row
  <2> HIDE DEF heard
  <2>4. CASE r.shown = "loaded"
    <3> DEFINE s == [heard EXCEPT !.by = m.request]
    <3>1. /\ s \in Row /\ s.refreshing = r.refreshing /\ s.shown = r.shown
          /\ s.by = m.request /\ s.since = r.since /\ s.latest = r.latest
          /\ s.released = r.released /\ s.metadata = 0 /\ s.next = r.next
      BY <2>a, <2>2, Bounds DEF Row
    <3> HIDE DEF s
    <3>2. HearEnriched(a, r) = s
      BY <2>3, <2>4 DEF s
    <3> QED
      BY <3>1, <3>2, <2>2, <2>4, Bounds DEF Forward, RowGood, Row
  <2>5. CASE r.shown # "loaded"
    <3>1. HearEnriched(a, r) = heard
      BY <2>3, <2>5
    <3> QED
      BY <2>a, <2>5, <3>1, Bounds DEF Forward, RowGood, Row
  <2> QED
    BY <2>4, <2>5
<1> QED
  BY <1>1, <1>2

(* Hearing of both.                                                         *)
LEMMA HeardForward ==
  ASSUME RowsGood, Messages(results), Messages(enriched), NEW a \in Alias
  PROVE  /\ Forward(rows[a], HeardResults[a])
         /\ HeardResults[a].since = rows[a].since /\ HeardResults[a].next = rows[a].next
<1> DEFINE r == rows[a]
           s == HearResult(a, r)
<1>1. RowGood(r)
  BY DEF RowsGood
<1>2. Forward(r, s) /\ s.since = r.since /\ s.next = r.next
  BY <1>1, ResultForward
<1>3. RowGood(s)
  BY <1>2 DEF Forward
<1> HIDE DEF s
<1>4. Forward(s, HearEnriched(a, s)) /\ HearEnriched(a, s).since = s.since /\ HearEnriched(a, s).next = s.next
  BY <1>3, EnrichedForward
<1>5. HeardResults[a] = HearEnriched(a, s)
  BY DEF HeardResults, s
<1>6. Forward(r, HearEnriched(a, s))
  BY <1>1, <1>2, <1>4, ForwardTwice DEF Forward
<1> QED
  BY <1>2, <1>4, <1>5, <1>6

(* A follow-up is a request like any other.                                 *)
LEMMA ReleaseForward ==
  ASSUME NEW a, NEW r, RowGood(r)
  PROVE  /\ Forward(r, ResumeFollowUp(HearRelease(a, r)))
         /\ ResumeFollowUp(HearRelease(a, r)).since = r.since
         /\ phase # "running" => ResumeFollowUp(HearRelease(a, r)).next = r.next
<1> DEFINE s == HearRelease(a, r)
           t == [s EXCEPT !.pending = "none"]
<1>1. Forward(r, s) /\ s.since = r.since /\ s.next = r.next /\ RowGood(s)
  BY Bounds DEF HearRelease, Forward, RowGood, Row
<1> HIDE DEF s
<1>2. Forward(s, t) /\ t.since = s.since /\ RowGood(t)
  <2>1. s \in Row /\ "none" \in Levels
    BY <1>1 DEF RowGood, Levels
  <2>2. /\ t \in Row /\ t.shown = s.shown /\ t.by = s.by /\ t.since = s.since
        /\ t.refreshing = s.refreshing /\ t.latest = s.latest /\ t.released = s.released
        /\ t.metadata = s.metadata /\ t.next = s.next
    BY <2>1 DEF Row
  <2>3. s.by \in Nat
    BY <2>1, Bounds DEF Row
  <2> HIDE DEF t
  <2>4. RowGood(t)
    BY <1>1, <2>2 DEF RowGood
  <2> QED
    BY <2>2, <2>3, <2>4 DEF Forward
<1>3. s.pending \in Levels
  BY <1>1 DEF RowGood, Row
<1> HIDE DEF t
<1>4. Forward(t, Fetch(t, s.pending)) /\ Fetch(t, s.pending).since = t.since
  BY <1>2, <1>3, FetchForward
<1>5. Forward(s, Fetch(t, s.pending))
  BY <1>1, <1>2, <1>4, ForwardTwice DEF Forward
<1>6. Forward(s, s)
  BY <1>1, Bounds DEF Forward, RowGood, Row
<1>7. ResumeFollowUp(s) = IF MayResume(s) THEN Fetch(t, s.pending) ELSE s
  BY DEF ResumeFollowUp, t
<1>8. Forward(s, ResumeFollowUp(s)) /\ ResumeFollowUp(s).since = s.since
  BY <1>2, <1>4, <1>5, <1>6, <1>7
<1>9. phase # "running" => ResumeFollowUp(s) = s
  BY <1>7 DEF MayResume, Ready
<1>10. Forward(r, ResumeFollowUp(s))
  BY <1>1, <1>8, ForwardTwice DEF Forward
<1> QED
  BY <1>1, <1>8, <1>9, <1>10 DEF s

(* A worker that ended without an answer leaves a row that can go on.       *)
LEMMA JoinedForward ==
  ASSUME NEW a, NEW r, RowGood(r)
  PROVE  Forward(r, Joined(a, r)) /\ Joined(a, r).next = r.next
<1> DEFINE gone == {g \in Finished(a) : Unanswered(tasks[a][g])}
           told == IF r.latest \in gone THEN [r EXCEPT !.released = r.latest] ELSE r
           stopped == tasks[a][r.refreshing].pc = "dead"
           level == IF ~stopped /\ SwitchInFlight THEN Stronger(told.deferred, r.level) ELSE told.deferred
           shown == IF stopped THEN "error" ELSE IF told.shown = "loading" THEN "idle" ELSE told.shown
           metadata == IF told.metadata = r.refreshing THEN 0 ELSE told.metadata
           s == [told EXCEPT !.refreshing = 0, !.level = "none", !.pending = "none",
                             !.metadata = metadata, !.deferred = level, !.shown = shown]
<1>1. Joined(a, r) = IF r.refreshing \notin gone THEN told ELSE s
  BY DEF Joined
<1> HIDE DEF gone, stopped
<1>2. r \in Row /\ r.latest \in 0..MaxRequests
  BY DEF RowGood, Row
<1>3. told \in Row
  BY <1>2 DEF Row
<1>4. /\ told.refreshing = r.refreshing /\ told.metadata = r.metadata /\ told.shown = r.shown
      /\ told.by = r.by /\ told.since = r.since /\ told.latest = r.latest
      /\ told.next = r.next /\ told.released \in {r.released, r.latest}
  BY <1>2 DEF Row
<1> HIDE DEF told
<1>5. /\ 0 \in 0..MaxRequests /\ metadata \in 0..MaxRequests /\ "none" \in Levels
      /\ shown \in {"idle", "loading", "loaded", "error"}
      /\ shown \in {"error", "idle", r.shown} /\ shown # "loading"
  BY <1>3, <1>4, Bounds DEF Row, Levels
<1>6. level \in Levels
  BY <1>3, StrongerIsLevel DEF Row
<1>7. metadata \in {0, r.metadata}
  BY <1>4
<1> HIDE DEF level, shown, metadata
<1>8. s \in Row
  BY <1>3, <1>5, <1>6 DEF Row
<1>9. /\ s.refreshing = 0 /\ s.metadata = metadata /\ s.shown = shown
      /\ s.by = r.by /\ s.since = r.since /\ s.latest = r.latest
      /\ s.next = r.next /\ s.released = told.released
  BY <1>3, <1>4 DEF Row
<1> HIDE DEF s
<1>10. r.by \in Nat
  BY <1>2, Bounds DEF Row
<1>11. Forward(r, told)
  BY <1>3, <1>4, <1>10 DEF Forward, RowGood
<1>12. Forward(r, s)
  BY <1>4, <1>5, <1>7, <1>8, <1>9, <1>10 DEF Forward, RowGood
<1> QED
  BY <1>1, <1>4, <1>9, <1>11, <1>12

(* A row loaded anew listens to none of the earlier requests.               *)
LEMMA ForgottenForward ==
  ASSUME NEW r, RowGood(r)
  PROVE  Forward(r, Forgotten(r))
<1> DEFINE s == Forgotten(r)
<1>1. r \in Row /\ r.next \in 1..(MaxRequests + 1) /\ r.deferred \in Levels
  BY DEF RowGood, Row
<1>2. 0 \in 0..MaxRequests /\ "none" \in Levels /\ 1 \in 1..(MaxRequests + 1)
  BY Bounds DEF Levels
<1>3. NewRow \in Row
  BY <1>2 DEF NewRow, Row
<1>4. s \in Row
  BY <1>1, <1>3 DEF Forgotten, Row
<1>5. /\ s.refreshing = 0 /\ s.metadata = 0 /\ s.shown = "idle" /\ s.by = 0
      /\ s.since = r.next /\ s.latest = 0 /\ s.next = r.next /\ s.released = 0
  BY DEF Forgotten, NewRow
<1> HIDE DEF s
<1>6. r.by \in Nat /\ r.next \in Nat /\ r.since \in Nat /\ r.latest \in Nat /\ r.next >= 1
  BY <1>1, Bounds DEF Row
<1>7. r.since = r.next => r.by = 0
  BY <1>6 DEF RowGood
<1> QED
  BY <1>4, <1>5, <1>6, <1>7 DEF Forward, RowGood, s

(* What waits for a switch to end is nothing that is shown.                 *)
LEMMA DeferredForward ==
  ASSUME NEW r, RowGood(r), NEW lvl \in Levels
  PROVE  Forward(r, [r EXCEPT !.deferred = lvl])
BY Bounds DEF Forward, RowGood, Row

----------------------------------------------------------------------------
(* All rows, before and after a step                                        *)

RowsStep ==
  \A a \in Alias : rows'[a].since = rows[a].since => rows'[a].by >= rows[a].by

(* Rows that go forward stay good.                                          *)
LEMMA RowsForward ==
  ASSUME NEW f, rows' = [a \in Alias |-> f[a]], \A a \in Alias : Forward(rows[a], f[a])
  PROVE  RowsGood' /\ RowsStep
BY DEF RowsGood, RowsStep, Forward, RowGood

(* So do rows nothing happens to.                                           *)
LEMMA RowsKept ==
  ASSUME RowsGood, UNCHANGED rows
  PROVE  RowsGood' /\ RowsStep
<1>1. \A a \in Alias : rows[a].by \in Nat
  BY Bounds DEF RowsGood, RowGood, Row
<1> QED
  BY <1>1 DEF RowsGood, RowsStep

----------------------------------------------------------------------------
(* Workers                                                                  *)

(* A token is only spent as SpendsUnderItsLease says.                       *)
TasksStep ==
  \A a \in Alias, g \in Requests :
    tasks'[a][g].pc = "rotating" =>
      /\ tasks[a][g].work # "cancelled" /\ tasks'[a][g].control = "acquired"
      /\ lease'[a] = g

(* No worker, and the one a request starts with.                            *)
LEMMA FreshTasks ==
  /\ NoTask \in Task /\ NoTask.pc = "none"
  /\ NewTask \in Task /\ NewTask.pc = "lease"
<1>1. 0 \in 0..MaxRotations
  BY Bounds
<1>2. NoTask \in Task /\ NoTask.pc = "none"
  BY <1>1 DEF NoTask, Task
<1> QED
  BY <1>2 DEF NewTask, Task

(* Workers none of which rotates anew.                                      *)
LEMMA TasksChanged ==
  ASSUME TasksGood, UNCHANGED lease,
         tasks' \in [Alias -> [Requests -> Task]],
         \A a \in Alias, g \in Requests :
           /\ TaskGood(tasks'[a][g], g, lease[a])
           /\ tasks'[a][g].pc = "rotating" => tasks[a][g].pc = "rotating"
  PROVE  TasksGood' /\ TasksStep
BY DEF TasksGood, TasksStep, TaskGood

(* Workers nothing happens to.                                              *)
LEMMA TasksKept ==
  ASSUME TasksGood, UNCHANGED <<tasks, lease>>
  PROVE  TasksGood' /\ TasksStep
BY TasksChanged DEF TasksGood

(* A request that starts has a worker that holds nothing yet.               *)
LEMMA SpawnedGood ==
  ASSUME TasksGood, UNCHANGED lease, NEW after, tasks' = Spawned(after)
  PROVE  TasksGood' /\ TasksStep
<1> DEFINE u(a, g) == IF g = rows[a].next THEN NewTask
                      ELSE IF Tracked(a, g) THEN [tasks[a][g] EXCEPT !.followups = TRUE]
                      ELSE NoTask
<1>1. ASSUME NEW a \in Alias, NEW g \in Requests
      PROVE  /\ u(a, g) \in Task /\ TaskGood(u(a, g), g, lease[a])
             /\ u(a, g).pc = "rotating" => tasks[a][g].pc = "rotating"
  <2>1. tasks[a][g] \in Task /\ TaskGood(tasks[a][g], g, lease[a])
    BY DEF TasksGood
  <2>2. CASE g = rows[a].next
    BY <2>2, FreshTasks DEF TaskGood
  <2>3. CASE g # rows[a].next /\ Tracked(a, g)
    BY <2>1, <2>3 DEF TaskGood, Task
  <2>4. CASE g # rows[a].next /\ ~Tracked(a, g)
    BY <2>4, FreshTasks DEF TaskGood
  <2> QED
    BY <2>2, <2>3, <2>4
<1> HIDE DEF u
<1>2. tasks' = [a \in Alias |-> IF after[a].next = rows[a].next THEN tasks[a]
                                ELSE [g \in Requests |-> u(a, g)]]
  BY DEF Spawned, u
<1>3. \A a \in Alias : tasks'[a] = tasks[a] \/ tasks'[a] = [g \in Requests |-> u(a, g)]
  BY <1>2
<1>4. tasks' \in [Alias -> [Requests -> Task]]
  BY <1>1, <1>2 DEF TasksGood
<1>5. ASSUME NEW a \in Alias, NEW g \in Requests
      PROVE  /\ TaskGood(tasks'[a][g], g, lease[a])
             /\ tasks'[a][g].pc = "rotating" => tasks[a][g].pc = "rotating"
  <2>1. CASE tasks'[a] = tasks[a]
    BY <2>1 DEF TasksGood
  <2>2. CASE tasks'[a] = [h \in Requests |-> u(a, h)]
    BY <1>1, <2>2
  <2> QED
    BY <1>3, <2>1, <2>2
<1> QED
  BY <1>4, <1>5, TasksChanged

(* A cancellation moves no worker, takes no lease from one that has it, and *)
(* does not reach one that rotates.                                         *)
LEMMA CancelledGood ==
  ASSUME NEW t \in Task, NEW g, NEW holder, TaskGood(t, g, holder)
  PROVE  /\ CancelReading(t) \in Task /\ TaskGood(CancelReading(t), g, holder)
         /\ CancelAll(t) \in Task /\ TaskGood(CancelAll(t), g, holder)
         /\ CancelReading(t).pc = t.pc /\ CancelAll(t).pc = t.pc
<1> DEFINE w == CancelWait(t)
           r == CancelRead(w)
           f == CancelFollowUps(r)
<1>1. /\ w \in Task /\ w.pc = t.pc /\ w.work = t.work
      /\ w.control = IF t.control = "waiting" THEN "cancelled" ELSE t.control
  BY DEF CancelWait, Task
<1> HIDE DEF w
<1>2. /\ r \in Task /\ r.pc = w.pc /\ r.control = w.control
      /\ r.work = IF w.work = "cancellable" THEN "cancelled" ELSE w.work
  BY <1>1 DEF CancelRead, Task
<1> HIDE DEF r
<1>3. f \in Task /\ f.pc = r.pc /\ f.control = r.control /\ f.work = r.work
  BY <1>2 DEF CancelFollowUps, Task
<1> HIDE DEF f
<1>4. CancelReading(t) = r /\ CancelAll(t) = f
  BY DEF CancelReading, CancelAll, w, r, f
<1>5. TaskGood(r, g, holder) /\ TaskGood(f, g, holder)
  BY <1>1, <1>2, <1>3 DEF TaskGood
<1> QED
  BY <1>1, <1>2, <1>3, <1>4, <1>5

(* Cancelling the workers of some aliases.                                  *)
LEMMA CancelGood ==
  ASSUME TasksGood, UNCHANGED lease, NEW as,
         \/ tasks' = CancelTasks(as, CancelAll)
         \/ tasks' = CancelTasks(as, CancelReading)
  PROVE  TasksGood' /\ TasksStep
<1>1. ASSUME NEW a \in Alias, NEW g \in Requests
      PROVE  /\ tasks[a][g] \in Task /\ TaskGood(tasks[a][g], g, lease[a])
             /\ CancelReading(tasks[a][g]) \in Task
             /\ TaskGood(CancelReading(tasks[a][g]), g, lease[a])
             /\ CancelAll(tasks[a][g]) \in Task
             /\ TaskGood(CancelAll(tasks[a][g]), g, lease[a])
             /\ CancelReading(tasks[a][g]).pc = tasks[a][g].pc
             /\ CancelAll(tasks[a][g]).pc = tasks[a][g].pc
  BY CancelledGood DEF TasksGood
<1>2. CASE tasks' = CancelTasks(as, CancelAll)
  <2>1. tasks' = [a \in Alias |-> [g \in Requests |->
                    IF a \in as /\ Tracked(a, g) THEN CancelAll(tasks[a][g]) ELSE tasks[a][g]]]
    BY <1>2 DEF CancelTasks
  <2> QED
    BY <1>1, <2>1, TasksChanged
<1>3. CASE tasks' = CancelTasks(as, CancelReading)
  <2>1. tasks' = [a \in Alias |-> [g \in Requests |->
                    IF a \in as /\ Tracked(a, g) THEN CancelReading(tasks[a][g]) ELSE tasks[a][g]]]
    BY <1>3 DEF CancelTasks
  <2> QED
    BY <1>1, <2>1, TasksChanged
<1> QED
  BY <1>2, <1>3

(* A step of one worker, with what it does to the alias's lease.            *)
LEMMA WorkerGood ==
  ASSUME TasksGood, NEW a \in Alias, NEW g \in Requests, NEW t \in Task, Worker(a, g, t),
         NEW h \in Requests \cup {Free, Other}, lease' = [lease EXCEPT ![a] = h],
         h = lease[a] \/ lease[a] \in {Free, g},
         TaskGood(t, g, h),
         t.pc = "rotating" => tasks[a][g].work # "cancelled"
  PROVE  TasksGood' /\ TasksStep
<1>1. /\ tasks' = [tasks EXCEPT ![a][g] = t]
      /\ tasks \in [Alias -> [Requests -> Task]]
      /\ lease \in [Alias -> Requests \cup {Free, Other}]
  BY DEF Worker, TasksGood
<1>2. /\ tasks' \in [Alias -> [Requests -> Task]] /\ tasks'[a][g] = t
      /\ \A b \in Alias, k \in Requests : <<b, k>> # <<a, g>> => tasks'[b][k] = tasks[b][k]
  BY <1>1
<1>3. /\ lease' \in [Alias -> Requests \cup {Free, Other}] /\ lease'[a] = h
      /\ \A b \in Alias : b # a => lease'[b] = lease[b]
  BY <1>1
<1>4. ASSUME NEW b \in Alias, NEW k \in Requests
      PROVE  /\ TaskGood(tasks'[b][k], k, lease'[b])
             /\ tasks'[b][k].pc = "rotating" =>
                  tasks[b][k].work # "cancelled" /\ tasks'[b][k].control = "acquired" /\ lease'[b] = k
  <2>1. TaskGood(tasks[b][k], k, lease[b])
    BY DEF TasksGood
  <2>2. CASE b = a /\ k = g
    BY <1>2, <1>3, <2>2 DEF TaskGood
  <2>3. CASE b = a /\ k # g
    BY <1>2, <1>3, <2>1, <2>3, Bounds DEF TaskGood
  <2>4. CASE b # a
    BY <1>2, <1>3, <2>1, <2>4 DEF TaskGood
  <2> QED
    BY <2>2, <2>3, <2>4
<1> QED
  BY <1>2, <1>3, <1>4 DEF TasksGood, TasksStep

(* A step that takes the lease or gives it back, and rotates nothing.       *)
LEMMA WorkerMovesLease ==
  ASSUME TasksGood, NEW a \in Alias, NEW g \in Requests, NEW t \in Task, Worker(a, g, t),
         NEW h \in {Free, g}, Holds(a, h), lease[a] \in {Free, g},
         TaskGood(t, g, h), t.pc # "rotating"
  PROVE  TasksGood' /\ TasksStep
<1>1. h \in Requests \cup {Free, Other}
  OBVIOUS
<1>2. lease' = [lease EXCEPT ![a] = h]
  BY DEF Holds
<1>3. h = lease[a] \/ lease[a] \in {Free, g}
  OBVIOUS
<1>4. t.pc = "rotating" => tasks[a][g].work # "cancelled"
  OBVIOUS
<1> QED
  BY <1>1, <1>2, <1>3, <1>4, WorkerGood

(* A step that leaves the leases alone.                                     *)
LEMMA WorkerKeepsLease ==
  ASSUME TasksGood, NEW a \in Alias, NEW g \in Requests, NEW t \in Task, Worker(a, g, t),
         UNCHANGED lease, TaskGood(t, g, lease[a]),
         t.pc = "rotating" => tasks[a][g].work # "cancelled"
  PROVE  TasksGood' /\ TasksStep
<1>1. lease[a] \in Requests \cup {Free, Other} /\ lease' = [lease EXCEPT ![a] = lease[a]]
  BY DEF TasksGood
<1> QED
  BY <1>1, WorkerGood

(* An ended worker holds nothing.                                           *)
LEMMA EndedGood ==
  ASSUME NEW t \in Task, NEW pc \in {"done", "dead"}, NEW g, NEW h
  PROVE  Ended(t, pc) \in Task /\ TaskGood(Ended(t, pc), g, h) /\ Ended(t, pc).pc = pc
<1>1. /\ 0 \in 0..MaxRotations /\ t.control \in {"waiting", "acquired", "cancelled"}
      /\ pc \in {"none", "lease", "locked", "read", "rotating", "base", "enrich", "done", "dead"}
      /\ "finished" \in {"cancellable", "cancelled", "credential", "finished"}
      /\ (t.work = "cancelled") \in BOOLEAN
  BY Bounds DEF Task
<1> DEFINE b == t.work = "cancelled"
           u == [NoTask EXCEPT !.pc = pc, !.control = t.control, !.completed = b]
           v == [u EXCEPT !.work = "finished", !.followups = TRUE]
<1>2. Ended(t, pc) = v
  BY DEF Ended
<1> HIDE DEF b
<1>3. u \in Task /\ u.pc = pc
  <2>1. b \in BOOLEAN
    BY <1>1 DEF b
  <2> QED
    BY <1>1, <2>1, FreshTasks DEF Task
<1> HIDE DEF u
<1>4. v \in Task /\ v.pc = pc
  BY <1>1, <1>3 DEF Task
<1> QED
  BY <1>2, <1>4 DEF TaskGood

(* What the steps of a worker do to workers and leases, one by one.         *)
LEMMA WorkTasks ==
  ASSUME TasksGood, NEW a \in Alias, NEW g \in Requests,
         Work(a, g) \/ LeaseFails(a, g) \/ Panic(a, g)
  PROVE  TasksGood' /\ TasksStep
<1> DEFINE t == tasks[a][g]
<1>0. /\ t \in Task /\ TaskGood(t, g, lease[a]) /\ Free \in Requests \cup {Free, Other}
      /\ lease[a] \in Requests \cup {Free, Other} /\ g \in Requests \cup {Free, Other}
  BY DEF TasksGood
<1> HIDE DEF t
<1>e. \A h : /\ Ended(t, "done") \in Task /\ TaskGood(Ended(t, "done"), g, h)
             /\ Ended(t, "done").pc = "done"
             /\ Ended(t, "dead") \in Task /\ TaskGood(Ended(t, "dead"), g, h)
             /\ Ended(t, "dead").pc = "dead"
  BY <1>0, EndedGood
<1>1. CASE TryLease(a, g)
  <2> DEFINE u == [t EXCEPT !.pc = "locked"]
  <2>1. Worker(a, g, u) /\ Holds(a, g) /\ lease[a] = Free
    BY <1>1 DEF TryLease, t
  <2>2. u \in Task /\ u.pc = "locked"
    BY <1>0 DEF Task
  <2> HIDE DEF u
  <2> QED
    BY <1>0, <2>1, <2>2, WorkerMovesLease DEF TaskGood
<1>2. CASE MarkAcquired(a, g)
  <2>1. t.pc = "locked" /\ lease[a] = g
    BY <1>0, <1>2 DEF MarkAcquired, TaskGood, t
  <2>2. CASE t.control = "waiting"
    <3> DEFINE u == [t EXCEPT !.pc = "read", !.control = "acquired"]
    <3>1. Worker(a, g, u) /\ UNCHANGED lease
      BY <1>2, <2>2 DEF MarkAcquired, t
    <3>2. u \in Task /\ u.pc = "read" /\ u.control = "acquired"
      BY <1>0 DEF Task
    <3> HIDE DEF u
    <3>3. TaskGood(u, g, g)
      BY <3>2 DEF TaskGood
    <3> QED
      BY <1>0, <2>1, <3>1, <3>2, <3>3, WorkerKeepsLease
  <2>3. CASE t.control # "waiting"
    <3>1. Worker(a, g, Ended(t, "done")) /\ Holds(a, Free)
      BY <1>2, <2>3 DEF MarkAcquired, t
    <3> QED
      BY <1>e, <2>1, <3>1, WorkerMovesLease
  <2> QED
    BY <2>2, <2>3
<1>3. CASE LeaseWaitCancelled(a, g) \/ LeaseFails(a, g)
  <2>1. Worker(a, g, Ended(t, "done")) /\ UNCHANGED lease
    BY <1>3 DEF LeaseWaitCancelled, LeaseFails, t
  <2> QED
    BY <1>0, <1>e, <2>1, WorkerKeepsLease
<1>4. CASE BeginCredentialWork(a, g)
  <2> DEFINE u == [t EXCEPT !.work = "credential", !.pc = "rotating", !.rotations = @ + 1]
  <2>1. /\ Worker(a, g, u) /\ UNCHANGED lease /\ t.pc = "read"
        /\ t.rotations < MaxRotations /\ t.work # "cancelled"
    BY <1>4 DEF BeginCredentialWork, MayRotate, t
  <2>2. t.rotations + 1 \in 0..MaxRotations
    BY <1>0, <2>1, Bounds DEF Task
  <2>3. u \in Task /\ u.pc = "rotating" /\ u.work = "credential" /\ u.control = t.control
    BY <1>0, <2>2 DEF Task
  <2> HIDE DEF u
  <2>4. TaskGood(u, g, lease[a]) /\ lease[a] = g
    BY <1>0, <2>1, <2>3 DEF TaskGood
  <2> QED
    BY <1>0, <2>1, <2>3, <2>4, WorkerKeepsLease DEF t
<1>5. CASE RotationResolved(a, g)
  <2> DEFINE u == [t EXCEPT !.pc = "read"]
  <2>1. Worker(a, g, u) /\ UNCHANGED lease /\ t.pc = "rotating"
    BY <1>5 DEF RotationResolved, t
  <2>2. u \in Task /\ u.pc = "read" /\ u.control = t.control
    BY <1>0 DEF Task
  <2> HIDE DEF u
  <2>3. TaskGood(u, g, lease[a])
    BY <1>0, <2>1, <2>2 DEF TaskGood
  <2> QED
    BY <1>0, <2>1, <2>2, <2>3, WorkerKeepsLease
<1>6. CASE Finish(a, g)
  <2>1. t.pc = "read" /\ lease[a] = g
    BY <1>0, <1>6 DEF Finish, TaskGood, t
  <2>2. CASE t.work = "cancelled"
    <3>1. Worker(a, g, Ended(t, "done")) /\ Holds(a, Free)
      BY <1>6, <2>2 DEF Finish, Releases, t
    <3> QED
      BY <1>e, <2>1, <3>1, WorkerMovesLease
  <2>3. CASE t.work # "cancelled"
    <3>1. PICK ok \in BOOLEAN :
            Worker(a, g, [t EXCEPT !.work = "finished", !.pc = "base", !.ok = ok, !.rotations = 0])
      BY <1>6, <2>3 DEF Finish, t
    <3> DEFINE u == [t EXCEPT !.work = "finished", !.pc = "base", !.ok = ok, !.rotations = 0]
    <3>2. Worker(a, g, u) /\ UNCHANGED lease
      BY <1>6, <2>3, <3>1 DEF Finish, t
    <3>3. 0 \in 0..MaxRotations
      BY Bounds
    <3>4. u \in Task /\ u.pc = "base" /\ u.control = t.control
      BY <1>0, <3>3 DEF Task
    <3> HIDE DEF u
    <3>5. TaskGood(u, g, lease[a])
      BY <1>0, <2>1, <3>4 DEF TaskGood
    <3> QED
      BY <1>0, <3>2, <3>4, <3>5, WorkerKeepsLease
  <2> QED
    BY <2>2, <2>3
<1>7. CASE Base(a, g)
  <2>1. t.pc = "base" /\ lease[a] = g /\ t.control = "acquired" /\ Holds(a, Free)
    BY <1>0, <1>7 DEF Base, Releases, TaskGood, t
  <2> DEFINE u == [t EXCEPT !.pc = "enrich"]
  <2>2. Worker(a, g, u) \/ Worker(a, g, Ended(t, "done"))
    BY <1>7 DEF Base, t
  <2>3. u \in Task /\ u.pc = "enrich" /\ u.control = t.control
    BY <1>0 DEF Task
  <2> HIDE DEF u
  <2>4. TaskGood(u, g, Free)
    BY <2>1, <2>3 DEF TaskGood
  <2>5. CASE Worker(a, g, u)
    BY <2>1, <2>3, <2>4, <2>5, WorkerMovesLease
  <2>6. CASE Worker(a, g, Ended(t, "done"))
    BY <1>e, <2>1, <2>6, WorkerMovesLease
  <2> QED
    BY <2>2, <2>5, <2>6
<1>8. CASE Enrich(a, g)
  <2>1. Worker(a, g, Ended(t, "done")) /\ UNCHANGED lease
    BY <1>8 DEF Enrich, t
  <2> QED
    BY <1>0, <1>e, <2>1, WorkerKeepsLease
<1>9. CASE Panic(a, g)
  <2>1. Worker(a, g, Ended(t, "dead"))
    BY <1>9 DEF Panic, t
  <2>2. CASE lease[a] = g
    <3>1. Holds(a, Free)
      BY <1>9, <2>2 DEF Panic, Holds
    <3> QED
      BY <1>e, <2>1, <2>2, <3>1, WorkerMovesLease
  <2>3. CASE lease[a] # g
    BY <1>0, <1>9, <1>e, <2>1, <2>3, WorkerKeepsLease DEF Panic
  <2> QED
    BY <2>2, <2>3
<1> QED
  BY <1>1, <1>2, <1>3, <1>4, <1>5, <1>6, <1>7, <1>8, <1>9 DEF Work

(* ... and to the messages.                                                 *)
LEMMA WorkMessages ==
  ASSUME Messages(results), Messages(enriched), Messages(releases),
         NEW a \in Alias, NEW g \in Requests,
         Work(a, g) \/ LeaseFails(a, g) \/ Panic(a, g)
  PROVE  Messages(results)' /\ Messages(enriched)' /\ Messages(releases)'
<1>1. \A ok \in BOOLEAN : Tells(a, g, ok) \in Message
  BY DEF Tells, Message
<1>2. CASE TryLease(a, g) \/ MarkAcquired(a, g) \/ LeaseWaitCancelled(a, g)
           \/ BeginCredentialWork(a, g) \/ RotationResolved(a, g) \/ Panic(a, g)
  BY <1>2 DEF TryLease, MarkAcquired, LeaseWaitCancelled, BeginCredentialWork,
              RotationResolved, Panic, Messages
<1>3. CASE LeaseFails(a, g)
  BY <1>1, <1>3 DEF LeaseFails, Messages
<1>4. CASE Finish(a, g)
  BY <1>1, <1>4 DEF Finish, Releases, Messages
<1>5. CASE Base(a, g)
  BY <1>1, <1>5 DEF Base, Releases, Messages
<1>6. CASE Enrich(a, g)
  BY <1>1, <1>6 DEF Enrich, Messages
<1> QED
  BY <1>2, <1>3, <1>4, <1>5, <1>6 DEF Work

----------------------------------------------------------------------------
(* The steps                                                                *)

GoodStep == IInv' /\ RowsStep /\ TasksStep

(* What a step of a panel that has not left must do.                        *)
LEMMA Assembled ==
  ASSUME RowsGood', RowsStep, TasksGood', TasksStep, SwitchGood',
         Messages(results)', Messages(enriched)', Messages(releases)',
         live' \in Alias, phase' \in {"running", "draining"}
  PROVE  GoodStep
<1>1. ExitLeavesNoWorker'
  BY DEF ExitLeavesNoWorker
<1> QED
  BY <1>1 DEF GoodStep, IInv

(* The messages that are not heard.                                         *)
LEMMA MessagesKept ==
  ASSUME IInv,
         results' = {} \/ results' = results, enriched' = {} \/ enriched' = enriched,
         releases' = {} \/ releases' = releases
  PROVE  Messages(results)' /\ Messages(enriched)' /\ Messages(releases)'
BY DEF IInv, Messages

(* Rows that all become f[a], by FetchForward and its like.                 *)
LEMMA RefreshGood ==
  ASSUME IInv, phase # "exited", NEW a \in Alias, NEW lvl \in Level, Refresh(a, lvl)
  PROVE  GoodStep
<1> DEFINE f == [x \in Alias |-> IF x = a THEN Fetch(rows[x], lvl) ELSE rows[x]]
<1>1. lvl \in Levels
  BY Bounds
<1>2. \A x \in Alias : RowGood(rows[x]) /\ rows[x].by \in Nat
  BY Bounds DEF IInv, RowsGood, RowGood, Row
<1>3. \A x \in Alias : Forward(rows[x], f[x])
  BY <1>1, <1>2, FetchForward DEF Forward
<1>4. rows' = [x \in Alias |-> f[x]]
  BY DEF Refresh, IInv, RowsGood
<1> HIDE DEF f
<1>5. RowsGood' /\ RowsStep
  BY <1>3, <1>4, RowsForward
<1>6. tasks' = Spawned(rows') /\ UNCHANGED <<results, enriched, releases, lease, switch, live, phase>>
  BY DEF Refresh
<1>7. TasksGood' /\ TasksStep
  BY <1>6, SpawnedGood DEF IInv
<1>8. Messages(results)' /\ Messages(enriched)' /\ Messages(releases)'
  BY <1>6, MessagesKept
<1>9. SwitchGood' /\ live' \in Alias /\ phase' \in {"running", "draining"}
  BY <1>6 DEF IInv, SwitchGood
<1> QED
  BY <1>5, <1>7, <1>8, <1>9, Assembled

LEMMA WorkGood ==
  ASSUME IInv, phase # "exited", NEW a \in Alias, NEW g \in Requests,
         Work(a, g) \/ LeaseFails(a, g) \/ Panic(a, g)
  PROVE  GoodStep
<1>1. UNCHANGED <<rows, switch, live, phase>>
  BY DEF Work, TryLease, MarkAcquired, LeaseWaitCancelled, LeaseFails, BeginCredentialWork,
         RotationResolved, Finish, Base, Enrich, Panic, UiUnchanged
<1>2. RowsGood' /\ RowsStep
  BY <1>1, RowsKept DEF IInv
<1>3. TasksGood' /\ TasksStep
  BY WorkTasks DEF IInv
<1>4. Messages(results)' /\ Messages(enriched)' /\ Messages(releases)'
  BY WorkMessages DEF IInv
<1>5. SwitchGood' /\ live' \in Alias /\ phase' \in {"running", "draining"}
  BY <1>1 DEF IInv, SwitchGood
<1> QED
  BY <1>2, <1>3, <1>4, <1>5, Assembled

LEMMA PollResultsGood ==
  ASSUME IInv, phase # "exited", PollResults
  PROVE  GoodStep
<1>1. /\ rows' = [a \in Alias |-> HeardResults[a]]
      /\ results' = {} /\ enriched' = {}
      /\ UNCHANGED <<tasks, releases, lease, switch, live, phase>>
  BY DEF PollResults, HeardResults
<1>2. RowsGood' /\ RowsStep
  BY <1>1, HeardForward, RowsForward DEF IInv
<1>3. TasksGood' /\ TasksStep
  BY <1>1, TasksKept DEF IInv
<1>4. Messages(results)' /\ Messages(enriched)' /\ Messages(releases)'
  BY <1>1, MessagesKept
<1>5. SwitchGood' /\ live' \in Alias /\ phase' \in {"running", "draining"}
  BY <1>1 DEF IInv, SwitchGood
<1> QED
  BY <1>2, <1>3, <1>4, <1>5, Assembled

LEMMA PollReleasesGood ==
  ASSUME IInv, phase # "exited", PollReleases
  PROVE  GoodStep
<1> DEFINE f == HeardReleases(rows)
<1>1. /\ rows' = [a \in Alias |-> f[a]] /\ tasks' = Spawned(rows') /\ releases' = {}
      /\ UNCHANGED <<results, enriched, lease, switch, live, phase>>
  BY DEF PollReleases, HeardReleases
<1>2. \A a \in Alias : Forward(rows[a], f[a])
  BY ReleaseForward DEF HeardReleases, IInv, RowsGood
<1> HIDE DEF f
<1>3. RowsGood' /\ RowsStep
  BY <1>1, <1>2, RowsForward
<1>4. TasksGood' /\ TasksStep
  BY <1>1, SpawnedGood DEF IInv
<1>5. Messages(results)' /\ Messages(enriched)' /\ Messages(releases)'
  BY <1>1, MessagesKept
<1>6. SwitchGood' /\ live' \in Alias /\ phase' \in {"running", "draining"}
  BY <1>1 DEF IInv, SwitchGood
<1> QED
  BY <1>3, <1>4, <1>5, <1>6, Assembled

LEMMA PollTasksGood ==
  ASSUME IInv, phase # "exited", PollTasks
  PROVE  GoodStep
<1> DEFINE f == [a \in Alias |-> Joined(a, rows[a])]
           u == [a \in Alias |-> [g \in Requests |->
                   IF g \in Finished(a) THEN NoTask ELSE tasks[a][g]]]
<1>1. /\ rows' = [a \in Alias |-> f[a]] /\ tasks' = u
      /\ switch' = (IF switch.stage = "ended" THEN NoSwitch ELSE switch)
      /\ UNCHANGED <<results, enriched, releases, lease, live, phase>>
  BY DEF PollTasks
<1>2. \A a \in Alias : Forward(rows[a], f[a])
  BY JoinedForward DEF IInv, RowsGood
<1>3. RowsGood' /\ RowsStep
  BY <1>1, <1>2, RowsForward
<1>4. TasksGood' /\ TasksStep
  <2>1. TasksGood
    BY DEF IInv
  <2>2. ASSUME NEW a \in Alias, NEW g \in Requests
        PROVE  /\ u[a][g] \in Task /\ TaskGood(u[a][g], g, lease[a])
               /\ u[a][g].pc = "rotating" => tasks[a][g].pc = "rotating"
    <3>1. u[a][g] \in {NoTask, tasks[a][g]}
      OBVIOUS
    <3> HIDE DEF u
    <3> QED
      BY <2>1, <3>1, FreshTasks DEF TasksGood, TaskGood
  <2>3. u \in [Alias -> [Requests -> Task]]
    BY <2>2
  <2> HIDE DEF u
  <2> QED
    BY <1>1, <2>1, <2>2, <2>3, TasksChanged
<1>5. Messages(results)' /\ Messages(enriched)' /\ Messages(releases)'
  BY <1>1, MessagesKept
<1>6. NoSwitch.target \in Alias
  BY RequestsAssumption DEF NoSwitch
<1>7. SwitchGood' /\ live' \in Alias /\ phase' \in {"running", "draining"}
  BY <1>1, <1>6 DEF IInv, SwitchGood, NoSwitch
<1> QED
  BY <1>3, <1>4, <1>5, <1>7, Assembled

(* A stage of a switch to one of the aliases.                               *)
LEMMA StageGood ==
  ASSUME NEW name \in {"prepare", "sync", "revalidate", "commit"}, NEW target \in Alias,
         switch' = Stage(name, target)
  PROVE  SwitchGood'
BY DEF Stage, SwitchGood

(* The switch and its worker leave the rows and the leases alone.           *)
LEMMA SwitchStepGood ==
  ASSUME IInv, phase # "exited", SwitchGood', live' \in Alias,
         UNCHANGED <<rows, results, enriched, releases, lease>>,
         phase' \in {"running", "draining"},
         \/ UNCHANGED tasks
         \/ \E as \in SUBSET Alias : \/ tasks' = CancelTasks(as, CancelAll)
                                    \/ tasks' = CancelTasks(as, CancelReading)
  PROVE  GoodStep
<1>1. RowsGood' /\ RowsStep
  BY RowsKept DEF IInv
<1>2. TasksGood' /\ TasksStep
  BY TasksKept, CancelGood DEF IInv
<1>3. Messages(results)' /\ Messages(enriched)' /\ Messages(releases)'
  BY MessagesKept
<1> QED
  BY <1>1, <1>2, <1>3, Assembled

LEMMA SwitchWorkerGood ==
  ASSUME IInv, phase # "exited", SwitchWorker \/ PollSwitch
  PROVE  GoodStep
<1>1. UNCHANGED <<rows, results, enriched, releases, lease, phase>> /\ phase' \in {"running", "draining"}
  BY DEF IInv, SwitchWorker, SwitchIdentifies, SwitchWaitCancelled, SwitchWorks, PollSwitch,
         SwitchUnchanged
<1>2. live \in Alias /\ SwitchGood /\ {live} \in SUBSET Alias /\ switch.target \in Alias
  BY DEF IInv, SwitchGood
<1>3. CASE SwitchIdentifies
  <2>1. SwitchGood' /\ live' \in Alias
    BY <1>2, <1>3 DEF SwitchIdentifies, SwitchGood
  <2>2. UNCHANGED tasks \/ tasks' = CancelTasks({live}, CancelReading)
    BY <1>3 DEF SwitchIdentifies
  <2> QED
    BY <1>1, <1>2, <2>1, <2>2, SwitchStepGood
<1>4. CASE SwitchWaitCancelled
  <2>1. SwitchGood' /\ live' \in Alias /\ UNCHANGED tasks
    BY <1>2, <1>4 DEF SwitchWaitCancelled, SwitchGood
  <2> QED
    BY <1>1, <2>1, SwitchStepGood
<1>5. CASE SwitchWorks
  <2>1. SwitchGood' /\ live' \in Alias /\ UNCHANGED tasks
    BY <1>2, <1>5 DEF SwitchWorks, SwitchGood
  <2> QED
    BY <1>1, <2>1, SwitchStepGood
<1>6. CASE PollSwitch
  <2>1. UNCHANGED <<tasks, live>>
    BY <1>6 DEF PollSwitch
  <2>2. PICK stage \in FollowingStages :
          switch' = IF stage = "ended" THEN [switch EXCEPT !.stage = stage, !.pc = "none"]
                    ELSE Stage(stage, switch.target)
    BY <1>6 DEF PollSwitch
  <2>3. stage \in {"sync", "revalidate", "commit", "ended"}
    BY DEF FollowingStages
  <2>4. SwitchGood'
    <3>1. CASE stage = "ended"
      BY <1>2, <2>2, <3>1 DEF SwitchGood
    <3>2. CASE stage # "ended"
      BY <1>2, <2>2, <2>3, <3>2, StageGood
    <3> QED
      BY <3>1, <3>2
  <2> QED
    BY <1>1, <1>2, <2>1, <2>4, SwitchStepGood
<1> QED
  BY <1>3, <1>4, <1>5, <1>6 DEF SwitchWorker

LEMMA ResumeDeferredGood ==
  ASSUME IInv, phase # "exited", ResumeDeferred
  PROVE  GoodStep
<1> DEFINE f == [a \in Alias |->
                   IF rows[a].deferred = "none" THEN rows[a]
                   ELSE Fetch([rows[a] EXCEPT !.deferred = "none"], rows[a].deferred)]
<1>1. /\ rows' = [a \in Alias |-> f[a]] /\ tasks' = Spawned(rows')
      /\ UNCHANGED <<results, enriched, releases, lease, switch, live, phase>>
  BY DEF ResumeDeferred
<1>2. ASSUME NEW a \in Alias PROVE Forward(rows[a], f[a])
  <2> DEFINE r == rows[a]
             d == [r EXCEPT !.deferred = "none"]
  <2>1. RowGood(r) /\ r.deferred \in Levels /\ r.by \in Nat
    BY Bounds DEF IInv, RowsGood, RowGood, Row
  <2>2. Forward(r, d)
    BY <2>1, DeferredForward DEF Levels
  <2>3. d.since = r.since
    BY <2>1 DEF RowGood, Row
  <2> HIDE DEF d
  <2>4. Forward(d, Fetch(d, r.deferred)) /\ Fetch(d, r.deferred).since = d.since
    BY <2>1, <2>2, FetchForward DEF Forward
  <2>5. Forward(r, Fetch(d, r.deferred))
    BY <2>1, <2>2, <2>3, <2>4, ForwardTwice DEF Forward
  <2>6. Forward(r, r)
    BY <2>1 DEF Forward
  <2>7. f[a] = r \/ f[a] = Fetch(d, r.deferred)
    BY DEF d
  <2> QED
    BY <2>5, <2>6, <2>7
<1> HIDE DEF f
<1>3. RowsGood' /\ RowsStep
  BY <1>1, <1>2, RowsForward
<1>4. TasksGood' /\ TasksStep
  BY <1>1, SpawnedGood DEF IInv
<1>5. Messages(results)' /\ Messages(enriched)' /\ Messages(releases)'
  BY <1>1, MessagesKept
<1>6. SwitchGood' /\ live' \in Alias /\ phase' \in {"running", "draining"}
  BY <1>1 DEF IInv, SwitchGood
<1> QED
  BY <1>3, <1>4, <1>5, <1>6, Assembled

LEMMA SelectSwitchGood ==
  ASSUME IInv, phase # "exited", NEW a \in Alias, SelectSwitch(a)
  PROVE  GoodStep
<1> DEFINE f == [x \in Alias |-> IF x = a THEN [rows[x] EXCEPT !.deferred = Deferred(a)] ELSE rows[x]]
<1>1. /\ rows' = [x \in Alias |-> f[x]] /\ tasks' = CancelTasks({a}, CancelAll)
      /\ switch' = Stage("prepare", a)
      /\ UNCHANGED <<results, enriched, releases, lease, live, phase>>
  BY DEF SelectSwitch, IInv, RowsGood
<1>2. \A x \in Alias : Forward(rows[x], f[x])
  <2>1. Deferred(a) \in Levels
    BY StrongerIsLevel DEF Deferred
  <2>2. \A x \in Alias : RowGood(rows[x]) /\ rows[x].by \in Nat
    BY Bounds DEF IInv, RowsGood, RowGood, Row
  <2> QED
    BY <2>1, <2>2, DeferredForward DEF Forward
<1> HIDE DEF f
<1>3. RowsGood' /\ RowsStep
  BY <1>1, <1>2, RowsForward
<1>4. TasksGood' /\ TasksStep
  BY <1>1, CancelGood DEF IInv
<1>5. Messages(results)' /\ Messages(enriched)' /\ Messages(releases)'
  BY <1>1, MessagesKept
<1>6. SwitchGood' /\ live' \in Alias /\ phase' \in {"running", "draining"}
  BY <1>1, StageGood DEF IInv
<1> QED
  BY <1>3, <1>4, <1>5, <1>6, Assembled

LEMMA LoginGood ==
  ASSUME IInv, phase # "exited", NEW a \in Alias, Login(a)
  PROVE  GoodStep
<1> DEFINE f == [x \in Alias |-> Fetch(IF x = a THEN Forgotten(rows[x]) ELSE rows[x], "forced")]
<1>1. /\ rows' = [x \in Alias |-> f[x]] /\ tasks' = Spawned(rows')
      /\ UNCHANGED <<results, enriched, releases, lease, switch, live, phase>>
  BY DEF Login
<1>2. ASSUME NEW x \in Alias PROVE Forward(rows[x], f[x])
  <2> DEFINE d == IF x = a THEN Forgotten(rows[x]) ELSE rows[x]
  <2>1. RowGood(rows[x]) /\ rows[x].by \in Nat /\ "forced" \in Levels
    BY Bounds DEF IInv, RowsGood, RowGood, Row, Levels
  <2>2. Forward(rows[x], d)
    BY <2>1, ForgottenForward DEF Forward
  <2> HIDE DEF d
  <2>3. Forward(d, Fetch(d, "forced")) /\ Fetch(d, "forced").since = d.since
    BY <2>1, <2>2, FetchForward DEF Forward
  <2>4. f[x] = Fetch(d, "forced")
    BY DEF d
  <2> QED
    BY <2>1, <2>2, <2>3, <2>4, ForwardTwice DEF Forward
<1> HIDE DEF f
<1>3. RowsGood' /\ RowsStep
  BY <1>1, <1>2, RowsForward
<1>4. TasksGood' /\ TasksStep
  BY <1>1, SpawnedGood DEF IInv
<1>5. Messages(results)' /\ Messages(enriched)' /\ Messages(releases)'
  BY <1>1, MessagesKept
<1>6. SwitchGood' /\ live' \in Alias /\ phase' \in {"running", "draining"}
  BY <1>1 DEF IInv, SwitchGood
<1> QED
  BY <1>3, <1>4, <1>5, <1>6, Assembled

(* Another process moves only a lease no worker holds.                      *)
LEMMA OtherGood ==
  ASSUME IInv, phase # "exited", NEW a \in Alias, OtherTakes(a) \/ OtherGivesBack(a)
  PROVE  GoodStep
<1>1. /\ UNCHANGED <<rows, tasks, results, enriched, releases, switch, live, phase>>
      /\ lease[a] \in {Free, Other}
      /\ \E h \in {Free, Other} : lease' = [lease EXCEPT ![a] = h]
  BY DEF OtherTakes, OtherGivesBack, Holds
<1>2. RowsGood' /\ RowsStep
  BY <1>1, RowsKept DEF IInv
<1>3. /\ lease' \in [Alias -> Requests \cup {Free, Other}]
      /\ \A b \in Alias : b # a => lease'[b] = lease[b]
  BY <1>1 DEF IInv, TasksGood
<1>4. ASSUME NEW b \in Alias, NEW g \in Requests
      PROVE  /\ TaskGood(tasks[b][g], g, lease'[b])
             /\ tasks[b][g].pc = "rotating" => tasks[b][g].work # "cancelled"
                   /\ tasks[b][g].control = "acquired" /\ lease'[b] = g
  <2>1. TaskGood(tasks[b][g], g, lease[b])
    BY DEF IInv, TasksGood
  <2>2. CASE b = a
    BY <1>1, <2>1, <2>2, Bounds DEF TaskGood
  <2>3. CASE b # a
    BY <1>3, <2>1, <2>3 DEF TaskGood
  <2> QED
    BY <2>2, <2>3
<1>5. TasksGood' /\ TasksStep
  BY <1>1, <1>3, <1>4 DEF IInv, TasksGood, TasksStep
<1>6. Messages(results)' /\ Messages(enriched)' /\ Messages(releases)'
  BY <1>1, MessagesKept
<1>7. SwitchGood' /\ live' \in Alias /\ phase' \in {"running", "draining"}
  BY <1>1 DEF IInv, SwitchGood
<1> QED
  BY <1>2, <1>5, <1>6, <1>7, Assembled

LEMMA QuitGood ==
  ASSUME IInv, Quit
  PROVE  GoodStep
<1>1. /\ UNCHANGED <<rows, results, enriched, releases, lease, live>>
      /\ phase = "running" /\ phase' = "draining" /\ tasks' = CancelTasks(Alias, CancelAll)
      /\ switch' = switch \/ switch' = CancelWait(switch)
  BY DEF Quit
<1>2. SwitchGood'
  BY <1>1 DEF IInv, SwitchGood, CancelWait
<1>3. live' \in Alias /\ Alias \in SUBSET Alias
  BY <1>1 DEF IInv
<1> QED
  BY <1>1, <1>2, <1>3, SwitchStepGood

(* The last messages start no request: the panel is not running any more.   *)
LEMMA ExitGood ==
  ASSUME IInv, Exit
  PROVE  GoodStep
<1> DEFINE f == HeardReleases(HeardResults)
<1>1. /\ rows' = [a \in Alias |-> f[a]] /\ tasks' = Spawned(rows')
      /\ results' = {} /\ enriched' = {} /\ releases' = {}
      /\ UNCHANGED <<lease, switch, live>>
      /\ phase = "draining" /\ phase' = "exited" /\ ~HasPending
  BY DEF Exit, HeardReleases
<1>2. ASSUME NEW a \in Alias PROVE Forward(rows[a], f[a]) /\ f[a].next = rows[a].next
  <2> DEFINE r == HeardResults[a]
             s == ResumeFollowUp(HearRelease(a, r))
  <2>1. Forward(rows[a], r) /\ r.since = rows[a].since /\ r.next = rows[a].next
    BY HeardForward DEF IInv
  <2> HIDE DEF r
  <2>2. Forward(r, s) /\ s.since = r.since /\ s.next = r.next
    BY <1>1, <2>1, ReleaseForward DEF Forward
  <2> HIDE DEF s
  <2>3. f[a] = s
    BY DEF HeardReleases, r, s
  <2>4. RowGood(rows[a])
    BY DEF IInv, RowsGood
  <2> QED
    BY <2>1, <2>2, <2>3, <2>4, ForwardTwice DEF Forward
<1> HIDE DEF f
<1>3. RowsGood' /\ RowsStep
  BY <1>1, <1>2, RowsForward
<1>4. tasks' = tasks
  <2>1. tasks' = [a \in Alias |-> tasks[a]]
    BY <1>1, <1>2 DEF Spawned
  <2> QED
    BY <2>1 DEF IInv, TasksGood
<1>5. TasksGood' /\ TasksStep
  BY <1>1, <1>4, TasksKept DEF IInv
<1>6. Messages(results)' /\ Messages(enriched)' /\ Messages(releases)'
  BY <1>1, MessagesKept
<1>7. ExitLeavesNoWorker'
  BY <1>1, <1>4 DEF ExitLeavesNoWorker, HasPending, SwitchInFlight, Tracked
<1>8. SwitchGood' /\ live' \in Alias /\ phase' \in {"running", "draining", "exited"}
  BY <1>1 DEF IInv, SwitchGood
<1> QED
  BY <1>3, <1>5, <1>6, <1>7, <1>8 DEF GoodStep, IInv

(* A step that changes nothing.                                             *)
LEMMA StutterGood ==
  ASSUME IInv, UNCHANGED vars
  PROVE  GoodStep
<1>1. RowsGood' /\ RowsStep
  BY RowsKept DEF IInv, vars
<1>2. TasksGood' /\ TasksStep
  BY TasksKept DEF IInv, vars
<1>3. /\ SwitchGood' /\ ExitLeavesNoWorker' /\ live' \in Alias
      /\ phase' \in {"running", "draining", "exited"}
      /\ Messages(results)' /\ Messages(enriched)' /\ Messages(releases)'
  BY DEF IInv, vars, SwitchGood, ExitLeavesNoWorker, HasPending, SwitchInFlight, Tracked, Messages
<1> QED
  BY <1>1, <1>2, <1>3 DEF GoodStep, IInv

(* Every step.                                                              *)
LEMMA StepGood ==
  ASSUME IInv, [Next \/ Exited]_vars
  PROVE  GoodStep
<1>1. CASE Next
  <2>1. phase # "exited" /\ Watched \subseteq Alias
    BY <1>1, Bounds DEF Next
  <2>2. ASSUME NEW a \in Watched, NEW lvl \in Level, Refresh(a, lvl) PROVE GoodStep
    BY <2>1, <2>2, RefreshGood
  <2>3. ASSUME NEW a \in Watched, NEW g \in Requests,
               Work(a, g) \/ LeaseFails(a, g) \/ Panic(a, g)
        PROVE  GoodStep
    BY <2>1, <2>3, WorkGood
  <2>4. CASE EventLoop
    BY <2>1, <2>4, PollResultsGood, PollReleasesGood, PollTasksGood, SwitchWorkerGood,
       ResumeDeferredGood, ExitGood DEF EventLoop
  <2>5. CASE SwitchWorker
    BY <2>1, <2>5, SwitchWorkerGood
  <2>6. ASSUME NEW a \in Alias, SelectSwitch(a) PROVE GoodStep
    BY <2>1, <2>6, SelectSwitchGood
  <2>7. ASSUME NEW a \in Watched, Login(a) \/ OtherTakes(a) \/ OtherGivesBack(a)
        PROVE  GoodStep
    BY <2>1, <2>7, LoginGood, OtherGood
  <2>8. CASE Quit
    BY <2>8, QuitGood
  <2> QED
    BY <1>1, <2>2, <2>3, <2>4, <2>5, <2>6, <2>7, <2>8 DEF Next
<1>2. CASE Exited \/ UNCHANGED vars
  BY <1>2, StutterGood DEF Exited
<1> QED
  BY <1>1, <1>2

(* The panel starts with nothing asked for and nobody at work.              *)
LEMMA InitGood == Init => IInv
<1> SUFFICES ASSUME Init PROVE IInv
  OBVIOUS
<1>1. RowsGood
  <2>1. /\ 0 \in 0..MaxRequests /\ 1 \in 1..(MaxRequests + 1)
        /\ MaxRequests + 1 \in 1..(MaxRequests + 1) /\ "none" \in Levels
    BY Bounds DEF Levels
  <2>2. NewRow \in Row /\ [NewRow EXCEPT !.next = MaxRequests + 1] \in Row
    BY <2>1 DEF NewRow, Row
  <2>3. RowGood(NewRow) /\ RowGood([NewRow EXCEPT !.next = MaxRequests + 1])
    BY <2>1, <2>2 DEF RowGood, NewRow
  <2> QED
    BY <2>2, <2>3 DEF Init, RowsGood
<1>2. TasksGood
  BY FreshTasks DEF Init, TasksGood, TaskGood
<1>3. NoSwitch.target \in Alias
  BY RequestsAssumption DEF NoSwitch
<1>4. SwitchGood
  BY <1>3 DEF Init, SwitchGood, NoSwitch
<1>5. Messages(results) /\ Messages(enriched) /\ Messages(releases) /\ ExitLeavesNoWorker
      /\ live \in Alias /\ phase \in {"running", "draining", "exited"}
  BY DEF Init, Messages, ExitLeavesNoWorker
<1> QED
  BY <1>1, <1>2, <1>4, <1>5 DEF IInv

----------------------------------------------------------------------------
(* The strengthening: the requests a row listens to are newer than what it  *)
(* shows and than its credentials, and a worker has the lease and has not   *)
(* been cancelled from the lock it took to the answer it stored.            *)
THEOREM RequestsInductive == Spec => []IInv
<1>1. IInv /\ [Next \/ Exited]_vars => IInv'
  BY StepGood DEF GoodStep
<1> QED
  BY <1>1, InitGood, PTL DEF Spec

(* The types of the interface's requests (tui/app.rs), and that everything  *)
(* a row still listens to belongs to its newest request.                    *)
THEOREM RequestsTypeCorrect == Spec => []TypeOK
<1>1. IInv => TypeOK
  BY DEF IInv, TypeOK, RowsGood, RowGood, TasksGood, Messages
<1> QED
  BY <1>1, RequestsInductive, PTL

(* A single-use token is only ever presented under the profile's lease, and *)
(* not after a cancellation was accepted.                                   *)
THEOREM TokensSpentUnderLease == Spec => SpendsUnderItsLease
<1>1. IInv /\ [Next \/ Exited]_vars =>
        [\A a \in Alias, g \in Requests :
           tasks'[a][g].pc = "rotating" =>
             /\ tasks[a][g].work # "cancelled" /\ tasks'[a][g].control = "acquired"
             /\ lease'[a] = g]_vars
  BY StepGood DEF GoodStep, TasksStep
<1> QED
  BY <1>1, RequestsInductive, PTL DEF Spec, SpendsUnderItsLease

(* A panel that has left has no worker that could hold an unstored token.   *)
THEOREM NothingLeftBehind == Spec => []ExitLeavesNoWorker
<1>1. IInv => ExitLeavesNoWorker
  BY DEF IInv
<1> QED
  BY <1>1, RequestsInductive, PTL

(* Usage shown was read with the credentials the row was last loaded with.  *)
THEOREM UsageShownIsOwn == Spec => []ShownIsOwn
<1>1. IInv => ShownIsOwn
  BY Bounds DEF IInv, ShownIsOwn, RowsGood, RowGood, Row
<1> QED
  BY <1>1, RequestsInductive, PTL

(* Usage shown is never replaced by usage of an earlier request.            *)
THEOREM UsageShownGoesForward == Spec => ShownGoesForward
<1>1. IInv /\ [Next \/ Exited]_vars =>
        [\A a \in Alias : rows'[a].since = rows[a].since => rows'[a].by >= rows[a].by]_vars
  BY StepGood DEF GoodStep, RowsStep
<1> QED
  BY <1>1, RequestsInductive, PTL DEF Spec, ShownGoesForward

----------------------------------------------------------------------------
(* What was asked for the account being switched to                         *)

(* Nothing new is queued while a switch is on, and what was queued before   *)
(* is part of what waits for its end.                                       *)
QueuedIsDeferred ==
  phase = "running" /\ SwitchInFlight =>
    LET r == rows[switch.target] IN Stronger(r.pending, r.deferred) = r.deferred

(* Only a switch in flight has a worker.                                    *)
WorkerInFlight == switch.pc # "none" => SwitchInFlight

IntentStep ==
  \A a \in Alias :
    /\ phase = "running" /\ results' = results
    /\ switch'.target = a /\ switch'.stage # "none"
    /\ \A g \in Requests : tasks[a][g].pc # "dead"
    => Stronger(Intent(rows[a]), Intent(rows'[a])) = Intent(rows'[a])

(* A row's intent as three levels.                                          *)
LEMMA RowLevels ==
  ASSUME RowsGood, NEW a \in Alias
  PROVE  /\ rows[a] \in Row
         /\ rows[a].level \in Levels /\ rows[a].pending \in Levels /\ rows[a].deferred \in Levels
BY DEF RowsGood, Row

LEMMA IntentGrows ==
  ASSUME NEW l \in Levels, NEW p \in Levels, NEW d \in Levels, NEW e \in Levels
  PROVE  /\ Stronger(l, l) = l /\ Stronger("none", l) = l
         /\ Stronger(Stronger(l, Stronger(p, d)), Stronger(l, Stronger(p, d)))
              = Stronger(l, Stronger(p, d))
         /\ Stronger(d, e) = e =>
              Stronger(Stronger(l, Stronger(p, d)), Stronger(l, Stronger(p, e)))
                = Stronger(l, Stronger(p, e))
         /\ Stronger(p, d) = d =>
              Stronger(Stronger(l, Stronger(p, d)),
                       Stronger("none", Stronger("none", Stronger(d, l))))
                = Stronger("none", Stronger("none", Stronger(d, l)))
         /\ Stronger(p, Stronger(Stronger(d, p), e)) = Stronger(Stronger(d, p), e)
         /\ Stronger(d, Stronger(Stronger(d, p), e)) = Stronger(Stronger(d, p), e)
BY DEF Stronger, Levels

(* Steps that leave what is asked for alone.                                *)
LEMMA IntentKept ==
  ASSUME RowsGood, QueuedIsDeferred, switch'.target = switch.target,
         SwitchInFlight' => SwitchInFlight, phase' = "running" => phase = "running",
         \A a \in Alias : /\ rows'[a].level = rows[a].level
                          /\ rows'[a].pending = rows[a].pending
                          /\ rows'[a].deferred = rows[a].deferred
  PROVE  IntentStep /\ (SwitchGood => QueuedIsDeferred')
<1>1. \A a \in Alias : Stronger(Intent(rows[a]), Intent(rows[a])) = Intent(rows[a])
  BY RowLevels, IntentGrows DEF Intent
<1>2. \A a \in Alias : Intent(rows'[a]) = Intent(rows[a])
  BY DEF Intent
<1>3. IntentStep
  BY <1>1, <1>2 DEF IntentStep
<1>4. SwitchGood => QueuedIsDeferred'
  BY DEF QueuedIsDeferred, SwitchGood
<1> QED
  BY <1>3, <1>4

(* What is heard changes no level but that of an answered request, and a    *)
(* follow-up waits for the switch.                                          *)
LEMMA HeardKeepsLevels ==
  ASSUME RowsGood, NEW a \in Alias
  PROVE  /\ HeardResults[a].pending = rows[a].pending
         /\ HeardResults[a].deferred = rows[a].deferred
         /\ results = {} => HeardResults[a].level = rows[a].level
<1> DEFINE r == rows[a]
           s == HearResult(a, r)
<1>0. r \in Row
  BY RowLevels
<1>1. /\ s.pending = r.pending /\ s.deferred = r.deferred
      /\ results = {} => s.level = r.level
  <2> DEFINE mine == {m \in results : m.alias = a /\ IsCurrent(r, m)}
             m == CHOOSE m \in mine : TRUE
             answered == [r EXCEPT !.refreshing = 0, !.level = "none"]
  <2>1. CASE mine = {}
    BY <2>1 DEF HearResult
  <2>2. CASE mine # {}
    <3>1. s = IF m.ok THEN [answered EXCEPT !.shown = "loaded", !.by = m.request]
              ELSE [answered EXCEPT !.shown = "error", !.metadata = 0]
      BY <2>2 DEF HearResult
    <3>2. answered.pending = r.pending /\ answered.deferred = r.deferred
      BY <1>0 DEF Row
    <3>3. results # {}
      BY <2>2
    <3> HIDE DEF mine, m, answered, s
    <3>4. s.pending = answered.pending /\ s.deferred = answered.deferred
      BY <3>1
    <3> QED
      BY <3>2, <3>3, <3>4
  <2> QED
    BY <2>1, <2>2
<1> HIDE DEF s
<1>2. LET t == HearEnriched(a, s)
      IN  t.pending = s.pending /\ t.deferred = s.deferred /\ t.level = s.level
  BY DEF HearEnriched
<1>3. HeardResults[a] = HearEnriched(a, s)
  BY DEF HeardResults, s
<1> QED
  BY <1>1, <1>2, <1>3

(* A joined worker's request waits for the switch to end.                   *)
LEMMA JoinedKeepsIntent ==
  ASSUME RowsGood, NEW a \in Alias, SwitchInFlight,
         Stronger(rows[a].pending, rows[a].deferred) = rows[a].deferred
  PROVE  LET s == Joined(a, rows[a]) IN
           /\ Stronger(s.pending, s.deferred) = s.deferred
           /\ (\A g \in Requests : tasks[a][g].pc # "dead") =>
                Stronger(Intent(rows[a]), Intent(s)) = Intent(s)
<1> DEFINE r == rows[a]
           gone == {g \in Finished(a) : Unanswered(tasks[a][g])}
           told == IF r.latest \in gone THEN [r EXCEPT !.released = r.latest] ELSE r
           stopped == tasks[a][r.refreshing].pc = "dead"
           level == IF ~stopped /\ SwitchInFlight THEN Stronger(told.deferred, r.level) ELSE told.deferred
           shown == IF stopped THEN "error" ELSE IF told.shown = "loading" THEN "idle" ELSE told.shown
           metadata == IF told.metadata = r.refreshing THEN 0 ELSE told.metadata
           s == [told EXCEPT !.refreshing = 0, !.level = "none", !.pending = "none",
                             !.metadata = metadata, !.deferred = level, !.shown = shown]
<1>1. Joined(a, r) = IF r.refreshing \notin gone THEN told ELSE s
  BY DEF Joined
<1>2. r.refreshing \in gone => r.refreshing \in Requests
  BY DEF Finished
<1>3. /\ r \in Row /\ r.level \in Levels /\ r.pending \in Levels /\ r.deferred \in Levels
  BY RowLevels
<1> HIDE DEF gone
<1>4. /\ told.level = r.level /\ told.pending = r.pending /\ told.deferred = r.deferred
      /\ told \in [DOMAIN r -> {told[f] : f \in DOMAIN r}]
  BY <1>3 DEF Row
<1>5. /\ s.level = "none" /\ s.pending = "none" /\ s.deferred = level
  BY <1>3 DEF Row
<1> HIDE DEF told, shown, metadata, s
<1>6. CASE r.refreshing \notin gone
  <2>1. Joined(a, r) = told
    BY <1>1, <1>6
  <2> QED
    BY <1>3, <1>4, <2>1, IntentGrows DEF Intent
<1>7. CASE r.refreshing \in gone
  <2>1. Joined(a, r) = s
    BY <1>1, <1>7
  <2>2. level \in Levels
    BY <1>3, <1>4, StrongerIsLevel
  <2>3. (\A g \in Requests : tasks[a][g].pc # "dead") => level = Stronger(r.deferred, r.level)
    BY <1>2, <1>4, <1>7
  <2> HIDE DEF level, stopped
  <2>4. Stronger(s.pending, s.deferred) = s.deferred
    BY <1>5, <2>2, IntentGrows
  <2>5. (\A g \in Requests : tasks[a][g].pc # "dead") =>
           Stronger(Intent(r), Intent(s)) = Intent(s)
    <3>1. Intent(r) = Stronger(r.level, Stronger(r.pending, r.deferred))
          /\ Intent(s) = Stronger("none", Stronger("none", level))
      BY <1>5 DEF Intent
    <3> QED
      BY <1>3, <2>3, <3>1, IntentGrows
  <2> QED
    BY <2>1, <2>4, <2>5
<1> QED
  BY <1>6, <1>7

LEMMA WorkerStaysInFlight ==
  ASSUME IInv, WorkerInFlight, [Next \/ Exited]_vars
  PROVE  WorkerInFlight'
<1> USE DEF WorkerInFlight, SwitchInFlight
<1>0. SwitchGood
  BY DEF IInv
<1>1. CASE UNCHANGED switch
  BY <1>1
<1>2. ASSUME NEW a \in Alias, SelectSwitch(a) PROVE WorkerInFlight'
  BY <1>2 DEF SelectSwitch, Stage
<1>3. CASE SwitchWorker
  BY <1>0, <1>3 DEF SwitchWorker, SwitchIdentifies, SwitchWaitCancelled, SwitchWorks, SwitchGood
<1>4. CASE PollSwitch
  BY <1>0, <1>4 DEF PollSwitch, Stage, SwitchGood, FollowingStages
<1>5. CASE PollTasks
  BY <1>5 DEF PollTasks, NoSwitch
<1>6. CASE Quit
  BY <1>0, <1>6 DEF Quit, CancelWait, SwitchGood
<1>7. ASSUME NEW a \in Alias, NEW g \in Requests, Work(a, g) \/ LeaseFails(a, g) \/ Panic(a, g)
      PROVE  UNCHANGED switch
  BY <1>7 DEF Work, TryLease, MarkAcquired, LeaseWaitCancelled, BeginCredentialWork,
              RotationResolved, Finish, Base, Enrich, LeaseFails, Panic, UiUnchanged
<1>8. ASSUME \/ \E a \in Watched, lvl \in Level : Refresh(a, lvl)
             \/ \E a \in Watched : Login(a) \/ OtherTakes(a) \/ OtherGivesBack(a)
             \/ PollResults \/ PollReleases \/ ResumeDeferred \/ Exit
      PROVE  UNCHANGED switch
  BY <1>8 DEF Refresh, Login, OtherTakes, OtherGivesBack, PollResults, PollReleases,
              ResumeDeferred, Exit
<1>9. CASE Exited \/ UNCHANGED vars
  BY <1>1, <1>9 DEF Exited, vars
<1>10. CASE Next
  BY <1>1, <1>2, <1>3, <1>4, <1>5, <1>6, <1>7, <1>8, <1>10, Bounds DEF Next, EventLoop
<1> QED
  BY <1>9, <1>10

LEMMA IntentSteps ==
  ASSUME IInv, WorkerInFlight, QueuedIsDeferred, [Next \/ Exited]_vars
  PROVE  IntentStep /\ QueuedIsDeferred'
<1> USE DEF SwitchInFlight
<1>0. RowsGood /\ SwitchGood
  BY DEF IInv
<1>1. CASE UNCHANGED <<rows, switch>> /\ (phase' = "running" => phase = "running")
  BY <1>0, <1>1, IntentKept
(* Requests start only while no switch is on.                               *)
<1>2. CASE Ready /\ switch' = switch
  BY <1>2 DEF Ready, IntentStep, QueuedIsDeferred
<1>3. ASSUME NEW a \in Alias, SelectSwitch(a) PROVE IntentStep /\ QueuedIsDeferred'
  <2>1. /\ rows' = [rows EXCEPT ![a].deferred = Deferred(a)] /\ switch'.target = a
    BY <1>3 DEF SelectSwitch, Stage
  <2>2. /\ rows'[a].level = rows[a].level /\ rows'[a].pending = rows[a].pending
        /\ rows'[a].deferred = Deferred(a)
    BY <1>0, <2>1 DEF RowsGood, Row
  <2>3. PICK l, p, d, e : l = rows[a].level /\ p = rows[a].pending /\ d = rows[a].deferred
                          /\ e = Interrupted(a)
    OBVIOUS
  <2>4. l \in Levels /\ p \in Levels /\ d \in Levels /\ e \in Levels
    BY <1>0, <2>3, RowLevels DEF Interrupted, Levels
  <2>5. rows'[a].deferred = Stronger(Stronger(d, p), e) /\ Stronger(Stronger(d, p), e) \in Levels
    BY <2>2, <2>3, StrongerIsLevel DEF Deferred
  <2>6. Stronger(Intent(rows[a]), Intent(rows'[a])) = Intent(rows'[a])
    BY <2>2, <2>3, <2>4, <2>5, IntentGrows DEF Intent
  <2>7. Stronger(rows'[a].pending, rows'[a].deferred) = rows'[a].deferred
    BY <2>2, <2>3, <2>4, <2>5, IntentGrows
  <2> QED
    BY <2>1, <2>6, <2>7 DEF IntentStep, QueuedIsDeferred
<1>4. CASE PollResults
  <2>1. rows' = HeardResults /\ results' = {} /\ switch' = switch /\ phase' = phase
    BY <1>4 DEF PollResults
  <2>2. IntentStep
    <3> SUFFICES ASSUME NEW a \in Alias, results' = results
                 PROVE  Stronger(Intent(rows[a]), Intent(rows'[a])) = Intent(rows'[a])
      BY DEF IntentStep
    <3>1. /\ rows'[a].level = rows[a].level /\ rows'[a].pending = rows[a].pending
          /\ rows'[a].deferred = rows[a].deferred
      BY <1>0, <2>1, HeardKeepsLevels
    <3> QED
      BY <1>0, <3>1, RowLevels, IntentGrows DEF Intent
  <2>3. QueuedIsDeferred'
    BY <1>0, <2>1, HeardKeepsLevels DEF QueuedIsDeferred, SwitchGood
  <2> QED
    BY <2>2, <2>3
<1>5. CASE PollReleases /\ ~Ready
  <2>1. switch' = switch /\ phase' = phase /\ rows' = HeardReleases(rows)
    BY <1>5 DEF PollReleases
  <2>2. ASSUME NEW a \in Alias
        PROVE  /\ rows'[a].level = rows[a].level /\ rows'[a].pending = rows[a].pending
               /\ rows'[a].deferred = rows[a].deferred
    <3>1. rows'[a] = HearRelease(a, rows[a])
      BY <1>5, <2>1 DEF HeardReleases, ResumeFollowUp, MayResume
    <3> QED
      BY <1>0, <3>1, RowLevels DEF HearRelease, Row
  <2> QED
    BY <1>0, <2>1, <2>2, IntentKept
<1>6. CASE PollTasks
  <2>1. /\ rows' = [a \in Alias |-> Joined(a, rows[a])] /\ phase' = phase
        /\ switch'.stage # "none" => switch' = switch /\ SwitchInFlight
    BY <1>6 DEF PollTasks, NoSwitch
  <2>2. ASSUME switch'.stage # "none", phase = "running"
        PROVE  LET a == switch.target IN
                 /\ a \in Alias /\ rows'[a] = Joined(a, rows[a])
                 /\ Stronger(rows'[a].pending, rows'[a].deferred) = rows'[a].deferred
                 /\ (\A g \in Requests : tasks[a][g].pc # "dead") =>
                      Stronger(Intent(rows[a]), Intent(rows'[a])) = Intent(rows'[a])
    <3>1. switch.target \in Alias
      BY <1>0 DEF SwitchGood
    <3>2. /\ SwitchInFlight
          /\ Stronger(rows[switch.target].pending, rows[switch.target].deferred)
               = rows[switch.target].deferred
      BY <2>1, <2>2 DEF QueuedIsDeferred
    <3>3. rows'[switch.target] = Joined(switch.target, rows[switch.target])
      BY <2>1, <3>1
    <3> QED
      BY <1>0, <3>1, <3>2, <3>3, JoinedKeepsIntent
  <2> QED
    BY <2>1, <2>2 DEF IntentStep, QueuedIsDeferred
<1>7. CASE PollSwitch
  <2>1. rows' = rows /\ phase' = phase /\ SwitchInFlight /\ switch'.target = switch.target
    BY <1>0, <1>7 DEF PollSwitch, SwitchUnchanged, Stage, SwitchGood, FollowingStages, WorkerInFlight
  <2> QED
    BY <1>0, <2>1, IntentKept
<1>8. CASE SwitchWorker
  <2>1. /\ rows' = rows /\ phase' = phase /\ switch'.target = switch.target
        /\ SwitchInFlight' => SwitchInFlight
    BY <1>0, <1>8 DEF SwitchWorker, SwitchIdentifies, SwitchWaitCancelled, SwitchWorks,
                      SwitchUnchanged, SwitchGood, WorkerInFlight
  <2> QED
    BY <1>0, <2>1, IntentKept
<1>9. CASE Quit \/ Exit
  BY <1>9, <1>0, RowLevels, IntentGrows DEF Quit, Exit, IntentStep, QueuedIsDeferred, Intent
<1>10. ASSUME NEW a \in Alias, NEW g \in Requests, Work(a, g) \/ LeaseFails(a, g) \/ Panic(a, g)
       PROVE  UNCHANGED <<rows, switch, phase>>
  BY <1>10 DEF Work, TryLease, MarkAcquired, LeaseWaitCancelled, BeginCredentialWork,
               RotationResolved, Finish, Base, Enrich, LeaseFails, Panic, UiUnchanged
<1>11. ASSUME NEW a \in Alias, OtherTakes(a) \/ OtherGivesBack(a)
       PROVE  UNCHANGED <<rows, switch, phase>>
  BY <1>11 DEF OtherTakes, OtherGivesBack
<1>12. ASSUME \/ \E a \in Watched, lvl \in Level : Refresh(a, lvl)
              \/ \E a \in Watched : Login(a)
              \/ ResumeDeferred
              \/ PollReleases /\ Ready
       PROVE  Ready /\ switch' = switch
  BY <1>12 DEF Refresh, Login, ResumeDeferred, PollReleases
<1>13. CASE Exited \/ UNCHANGED vars
  BY <1>1, <1>13 DEF Exited, vars
<1>14. CASE Next
  BY <1>1, <1>2, <1>3, <1>4, <1>5, <1>6, <1>7, <1>8, <1>9, <1>10, <1>11, <1>12, <1>14, Bounds
     DEF Next, EventLoop
<1> QED
  BY <1>13, <1>14

(* What was asked for an account that is being switched to is not forgotten *)
(* with its cancelled request: poll_account_tasks lets it wait for the end  *)
(* of the switch.                                                           *)
THEOREM TargetIntentIsKept == Spec => TargetIntentKept
<1>1. Init => WorkerInFlight /\ QueuedIsDeferred
  BY DEF Init, WorkerInFlight, QueuedIsDeferred, SwitchInFlight, NoSwitch
<1>2. IInv /\ WorkerInFlight /\ QueuedIsDeferred /\ [Next \/ Exited]_vars
        => WorkerInFlight' /\ QueuedIsDeferred'
  BY WorkerStaysInFlight, IntentSteps
<1>3. IInv /\ WorkerInFlight /\ QueuedIsDeferred /\ [Next \/ Exited]_vars =>
        [\A a \in Alias :
           /\ phase = "running" /\ results' = results
           /\ switch'.target = a /\ switch'.stage # "none"
           /\ \A g \in Requests : tasks[a][g].pc # "dead"
           => Stronger(Intent(rows[a]), Intent(rows'[a])) = Intent(rows'[a])]_vars
  BY IntentSteps DEF IntentStep
<1> QED
  BY <1>1, <1>2, <1>3, RequestsInductive, PTL DEF Spec, TargetIntentKept

============================================================================
