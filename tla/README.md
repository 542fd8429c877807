# A formal model of codex-switch-global-pace

codex-switch-global-pace keeps several Codex accounts on one machine and makes
one of them live by replacing `$CODEX_HOME/auth.json`. A Codex refresh token is
single use: presenting it yields its successor and kills it. A program that loses
a successor, or puts a predecessor back, costs the user the account. It has to
avoid that while its own processes (commands, the daemon, the terminal interface)
work side by side, while Codex, which honours none of its locks, rewrites the same
file, and while any process may die between two writes. It also replaces its own
executable and installs itself as a service, under other programs that write the
same files.

This directory holds TLA+ modules of that program, TLC configurations that check
them on small instances, and proofs checked by TLAPS.

- `tlc -config MCCredentialStore_Meeting.cfg MCCredentialStore` checks one run;
  the `.cfg` files are the runs.
- `tlapm AuthPublicationProofs.tla` checks the proofs of a module.
- `PROJECT.json` lists the components, the runs, for every checked property a
  mutation of the model that breaks it, the source lines of every definition, the
  findings, the hazards and the theorems.

Source references are to `src/src/`.

## 1. Inventory

| component | state it keeps | operations | properties that make it correct |
|---|---|---|---|
| auth publication (`auth.rs`) | the live file, a candidate, a private copy, a quarantined file, the publication record, managed backups | conditional replacement, recovery of an interrupted one | nothing Codex wrote is destroyed; a result means what its caller reads into it; a crash is recoverable |
| profile store (`profile.rs`) | `profiles/<alias>/auth.json`, the marker `current`, recovery stages, `deleted-profiles`, one lease per profile, the auth transaction `auth.lock` | refresh, use, revive, daemon switch, read-back, save, login, re-login, rename, delete | an account has one profile and keeps a usable token; live follows only as authorized; a stale live is never copied back; nobody waits for ever |
| import (`commands/import.rs`, `profile.rs`) | a reservation over all profiles | scan, validate, commit, rescue | no second owner of a credential; a rotation made to validate is not lost |
| usage cache (`cache.rs`) | usage entries with revision and owner, mutation tombstones, auth refusals, workspace names, selection times | read, put, compare-and-publish, merge, invalidate, migrate, purge | no entry of another account or from before a redemption comes back |
| reset cards (`usage/reset_credits.rs`) | a request id per redemption | redeem with retries | "not consumed" is said only when it is certain |
| usage fetch and refresh (`usage/api.rs`) | the token being presented, its successor in flight, the retries and the one recovery round | prepare, refresh, fetch, recover, opportunistic refresh | a token is spent under its lease and its successor is stored, or the loss is reported; a refusal is about the token it names; every read ends |
| warm-up and model list (`warmup.rs`) | the credential, the model cache, two cancellable controls | read usage, refresh, look up models, commit, send | a message is sent for the right account, under the lease, after the last moment to cancel |
| interface scheduling (`tui/app.rs`, `tui/switch.rs`) | rows, queued requests, request generations, tasks under way, a switch | request, cancel, apply results, switch, shut down | a superseded result is not shown; a cancelled wait has no effect; the exit loses no rotated token |
| daemon identity (`daemon/pidfile.rs`, `daemon/mod.rs`) | pid file, its lock, the shutdown request, the service-operation lease | start, stop, hold the absence | at most one daemon; a request reaches only its generation |
| update around a daemon (`commands/update.rs`, `daemon/mod.rs`) | a phase in the command and one in the lifecycle holder, a pipe each way | stop, publish, restart, verify, roll back | the executable changes only while no daemon runs; the daemon comes back |
| self-update (`update.rs`, `update/cleanup_worker.rs`) | executable, backup, displaced file, cleanup journal | exchange, rollback, journalled cleanup | an undecided update can be undone, and a crash is finished by the next start |
| service managers (`daemon/service.rs`) | the unit file with candidate, backup and removed names; what the manager loaded, enabled and runs | install, uninstall, start, stop | no service without its definition; no definition lost; "restored" is so |
| daemon loop, scoring, parsing, sign-in, process inspection, workspace names, display, shell, installer | little or external | | section 5 |

How they meet: everything that touches a profile takes its lease; everything that
touches live, the marker or the set of profiles takes the auth transaction, after
the leases. Leases are held across network requests, the transaction is not
(import excepted). Publishing live inside the transaction is `auth.rs`'s
protocol. The cache has a lock of its own, held for one read-modify-write. The
interface runs its operations as tasks that report over channels, and re-checks
identities when an answer arrives. Commands that start, stop, install or update
the daemon take the service-operation lease; the daemon itself, and a service
manager that starts one, only take the PID lock.

What is hard: Codex writes the live file at any moment; the network lies between
a decision and its effect; two processes plan against the same state; each of a
dozen file operations can be the last before a crash; a failed write in the middle
of several has to be undone or reported; waits are cancellable; two processes of
one update know each other only by what comes through a pipe. The `hazards` in
`PROJECT.json` list these at their lines.

## 2. Modules

| module | models | composed with |
|---|---|---|
| `AuthPublication` (+`Proofs`) | `atomic_write_private_if_unchanged` and its recovery, one namespace operation a step | |
| `CredentialStore` (+`Proofs`) | the transactions of `profile.rs` between several processes, Codex and the authorization server | publishes live in one step; `INSTANCE ProfileRegistry` |
| `ProfileRegistry` | what those transactions promise about saved profiles | refined by `CredentialStore`, whose proofs hold its own |
| `UsageCache` (+`Proofs`) | the usage entries of `cache.rs` and every operation on them, with the redemption of a card | shares leases and profile moves with the store, in its own variables |
| `UsageRequests` (+`Proofs`) | the interface's requests, their workers, the switch and the exit | a worker's refresh is CredentialStore's, its cache accesses are UsageCache's |
| `TokenRotation` (+`Proofs`) | the operations of `usage/api.rs` and `warmup.rs` on one profile's token, at the server, and the refusals of `cache.rs` | staging and saving in one step, detailed in `CredentialStore` |
| `DaemonIdentity` (+`DaemonProofs`) | lock, pid file and shutdown request, one file operation a step | |
| `UpdateBoundary` (+`Proofs`) | the update command and the lifecycle holder | uses the lock of `DaemonIdentity` and the image of `ExecutableReplacement` as one step each |
| `ExecutableReplacement` (+`Proofs`) | the transaction on the executable, the journal, the cleaners | |
| `ServiceInstallation` (+`DaemonProofs`) | systemd install, uninstall, start and stop on the unit file | |
| `MC...` | the operations that meet in each run, the symmetries | extends its module |

An operator next to a definition of the code that names a slip (`NeverRetained`,
`SkipPromotion`, ...) or is commented as a mutant is a defect of that definition;
no next-state relation uses it, `PROJECT.json` says which property it breaks.

### AuthPublication

State: `names` says which file each name of the transaction denotes, `data` what a
file holds, `record` the durable publication record, `history` the managed backups;
`pc` and `op` are the process inside `auth.lock` (there is one at a time, whichever
it is). An action is one namespace operation or one group of reads the code does
without a write between: `Create` and `ConfirmCreation` the candidate, `Stage` the
prepared files up to the last look at live before the record, `PublishRecord`, `OpenWitness`, `Recheck`, `Exchange`, `ObserveHandle`,
`Settle` (the reading half of `settle_auth_publication`), `Classify` (its verdict),
then one plan: *finalize* (`Inspect`, `Quarantine`, `VerifyQuarantined`, `Unlink`,
`Promote`, `DropRecord`, `TrimBackups`), *cleanup* (`Unstage`, ...), *drop*, or
restoration of a foreign live file (`Restore`, `ExchangeBack`, `ConfirmRestored`).
Every step that can fail has its failing disjunct, reads of a name included, with
the outcome the code reports. Whether the new file is still live is read before the
record is removed (`ReadLive`) and reported after it. `Crash` ends the process anywhere. Codex opens, rewrites, replaces and
removes the live file; its open handle survives the exchange.

Each file identity is a member of `Inode` and a content a member of `Cred`, which
is all that `FileToken` distinguishes. Files are complete or absent (no torn
write), and what was synced stays (no power loss). The semantics are those of
Unix.

Two behaviours the properties allow deserve a reader's attention. The witness
handle is re-read right after the exchange (auth.rs:2518) and the displaced path
only later (auth.rs:1923); a write through Codex's old handle in between is taken
for one that won before the exchange, and the replaced file becomes live again.
`NoCredentialLost` still holds: the contents survive. And `QuietCrashIsRecoverable`
speaks of crashes Codex did not touch: a crash during finalization *followed by a
login* can leave a combination of artifacts that no branch of
`settle_auth_publication` accepts.

### CredentialStore and ProfileRegistry

State: the files of the store, the leases and the transaction, one `tasks[p]` per
process with the local variables of the operation it is in, and outside: what
Codex has loaded, which tokens the server has accepted (`spent`) and how many it
has issued. A credential is an account and its place in the sequence issued to that
account; this order stands for `last_refresh`.

An operation is a path through steps between which others may act.

- A refresh is `TakeLease`, `Authorize` (the snapshot live will be compared with),
  `Present` (the server spends the token), `Stage` (the rotation is preserved),
  `Commit` (the profile is written and a plan for live made), `Swap`, `Mark`,
  `Unstage`.
- A switch is `Prepare`, `Answer` or `Proceed`, `Switch`, `Swap`, `Mark`. A revival
  (a switch authorized before a card is redeemed) is `Prepare`, `Answer` or
  `Proceed`, `Consent`, perhaps a refresh, `Activate`, `Swap`. The daemon's switch
  is `Locate`, `Relocate`, `AutoSwitch`.
- `Adopt`, `Copy`, `Recheck` read live back into its profile; a save or login is
  `SignIn`, `Plan`, `Store`; a re-login `Bind`, `Reauthorize`.
- An import takes every lease and the transaction (`Scan`), reserves a name
  (`Reserve`), goes to the network (`Validate`), and files what it got (`Install`)
  or, after a failure, rescues it (`Rescue`, `Refile`).
- `Delete`, `Unmark`, `Archive` and `Rename`, `Move`, `Remark` are the rest.

`Belongs` and `Active` are the code's two rules for whose credential is live. Steps
fail where the code has an error path, `GiveUp` is a timeout or a cancelled wait,
`Crash` a death anywhere.

Simplifications: publishing live is one step that compares and replaces (its
detail is `AuthPublication`) and keeps what it displaced as a backup, which here is
never retired; the server answers a refresh with a credential of the same account;
a plan that keeps losing races may be retried without limit; initially no account
has two profiles (stores left by older releases may), and no profile's account
identity is incomplete, so that a re-login is the strict one (profile.rs:2280; the
replacement of an incomplete legacy profile, profile.rs:2340-2425, is left out);
an import's validation rotates at most once, where a file without access token that
is refreshed first (usage/api.rs:2182) may be refreshed again when the new token is
refused; and an imported file may hold any credential ever issued that is neither
live nor saved, nor still only in the memory of a sign-in under way. A request names
the profiles its operation is about (`WellFormed`).

`UsableKept` has an exception (`Overtaken`), and the model shows why it needs one.
A read-back decides on the live credential it has read and writes it some steps
later, inside the transaction that Codex does not honour. When Codex signs in anew,
the application reads live, and Codex then rotates that credential and signs in to
another account, the credential written over the profile's unspent one is the newer
of the two and already spent. Nothing the application can read tells it so.

`ProfileRegistry` is the promise: profiles are created only for accounts without
one, renewed only by a credential of their account that is at least as new or was
never presented, archived and renamed with their credential. `CredentialStore`
implements it under the mapping that keeps `profiles`, `archive` and `spent`.

### UsageCache

State: `owner` (whose profile an alias is), the leases, `entries`, `mutation` (the
tombstones), `used` (cards redeemed per account, at the server), and `tasks`. What
a usage says is reduced to *how many cards had been redeemed when it was read*, for
the quota and for the cards: a smaller number than `used` is a usage that a
redemption has made wrong. Revisions and mutation identities are drawn by `Fresh`:
the least stamp nobody remembers, which is all a random identity guarantees.

The kinds of task are the program's users of the cache: the listing (`list`),
automatic selection (`select`: `TakeBaseline`, `Query`, `Publish` without the
lease, `Complete`), the panel (`panel`: `Query`, `Store`, `Enrich` without the
lease, `Merge`), the redemption on the command line (`redeem`: `Query`, `Store`,
`Consume`, `Invalidate` under the lease, and the re-reading) and in the panel
(`panelRedeem`: `InvalidateBound` after the lease is gone), and `save`, `rename`,
`delete` of profiles with what they do to the cache. `Consume` is one attempt: it
ends in `Redeemed`, `Refused`, an answer that never came (`Unanswered`) or another
attempt under the same request id (`Retry`), and the task remembers whether an
attempt may have reached the server, which is what "not consumed" depends on.
Whether an entry has expired is the reader's choice, so every expiry is covered.
`dropped` is a history variable: the redemptions whose invalidation has run.
The panel's invalidation comes after the lease is gone, so a rename may meanwhile
have moved the profile and not yet its entry (`Ahead`). An invalidation at the new
alias then finds no entry and the entry arrives behind it: it does not count as one
that has run, just as one at an alias the profile has left does not. The run's
requests include the rename that leads to this case.

Left out: the recorded refusals, selection times, workspace names, crashes, failures
of a rename's own rollback, and batches of several aliases in one selection.

### UsageRequests

State: `rows` (what the event loop keeps for each alias), `tasks` (a worker per
request, with its three cancellable controls), the messages in the three channels,
the leases, the switch in flight, and the phase of the program. A worker waits for
the lease (`TryLease`, `MarkAcquired`, `LeaseWaitCancelled`: taking the lock and
saying so are two steps, between which a cancellation may come), may rotate the
token any number of times (`BeginCredentialWork`, `RotationResolved`), answers
(`Base`) and follows up without the lease (`Enrich`). The event loop asks
(`Refresh`), hears (`PollResults`, `PollReleases`, `PollTasks`), interrupts the two
accounts of a switch (`SelectSwitch`, `SwitchIdentifies`), takes the switch's end
(`PollSwitch`, `ResumeDeferred`), forgets on a login, and drains on `Quit`.
A switch's work under its lease is one atomic step; workspace lookups are left out;
request ids count per alias. The code also compares the account in an answer with
the row's; the row's account changes only when the row is loaded anew, which
forgets its requests, so the comparison is a second guard and is left out.

`TargetIntentKept` speaks of the account that is switched *to*. For the account
that was live until then docs/CHANGELOG.md:149 promises the same, but
`poll_account_tasks` (tui/app.rs:1805) drops a follow-up queued behind its
cancelled request; the property does not claim what the code does not do.

### TokenRotation

State: the saved credential, the refusal recorded for it, the lease, what the server
has issued and no longer accepts, how old each access token is, each process's
`MODEL_CACHE`, and a task per operation. A token is its number in the order of
issue. The kinds of task and their paths:

- a usage read (`read`, and `force` for one that ignores recorded refusals):
  `Prepare`, then per attempt `Attempt` (refresh first when the access token is about
  to expire), `Get`, `Follow` (after a rotation), with `Retry` while attempts remain
  and `Rejected` / `Recover` for the one round that a refusal buys;
- the opportunistic refresh: `Candidates` without the lease, `Recheck` under it;
- the warm-up: `Greet`, perhaps a whole usage read, `Snapshot`, `Models`, `Fetch`
  without the lease, `Verify`, then `Post` and one `Ping` per pool; `Abandon` and
  `TurnedAway` are its cancellations;
- the interface's model list: `Bind`.

All of them present a token in the same way: `Unauthorized`, `Answered`,
`Unanswered`, `Declined`, `Save`; the purpose says what follows. `Take` and `Waive`
are the lease, `Cancel` is the user. Outside are `SignIn`, `Delete`, `Aging`,
`SpendElsewhere` (Codex or another machine presents its copy), `Rogue` (something
without a lease refreshes the profile) and `Crash`.

Abstractions: a server that accepts a token always issues a successor; whether an
answer is lost, partial or unreadable is one case, in doubt; the number of candidates
is one; the capacity of the rate limiter and the lock around a model lookup are left
out, as is the cancellation of a usage read (it is in `UsageRequests`). Outcomes are
reduced to what the properties tell apart.

Behaviours the properties allow, worth a reader's attention:

- The usage read inside a warm-up only logs its doubt, and the warm-up goes on with
  the same credential and may present the token once more (`swallowed` in
  `LossIsReported`), where a usage read by itself ends there.
- The warm-up, the model list, and an opportunistic refresh whose candidate was
  chosen before the refusal was recorded do not ask for recorded refusals.
- A transport failure of the usage request discards the refusal of the refresh that
  preceded it in the same attempt (api.rs:1922), so the retry presents the refused
  token again.

### DaemonIdentity

State: `lock` (of `daemon.pid.lock`), `pidfile` (with the moment when it is created
but not yet written), `request` (`daemon.shutdown`), `lease`, and a program counter
per daemon and per command. `AskFile`, `AskLock`, `AskRelease` are the question
"which daemon runs", which takes the lock for a moment; `CleanUnlocked`,
`CleanLock`, `CleanRemove` the cleanup; a daemon goes through `Launch`, `Checked`,
`Cleaned`, `PublishLock`, `Retire`, `Create`, `Write`, `Obey` or `Signalled`; a
command stops (`StopTarget`, `StopRequest`, `StopWait`), starts (`StartChecked`,
`Spawn`, `AwaitReady`, `Kill`) or holds the absence for an update (`AbsenceLock`,
`AbsenceHeld`, `Contended`, `AbsenceDrop`). Anybody may die. An update that finds the
lock taken, or a file it does not understand, tries again, and when another
generation has published itself meanwhile, stops that one first.

Left out: the daemons of releases that locked `daemon.pid` itself, and the probe for
them (pidfile.rs:313).

### UpdateBoundary

State: the generations of the daemon with the image each runs, the public image,
`client` and `holder` with the phase each believes in, and `wire` (one command, one
marker). The holder captures and stops the daemon (`Capture`, `IssueStop`,
`Settle`, `Acquire`), announces, listens, and answers `new`, `rollback`, `finish`,
`release` or `abort`; when the pipe closes it settles according to its phase. The
client publishes, asks, decides and rolls back (`SendNew`, `RollbackExecutable`,
`Commit`, ...), may be cancelled or panic, lose patience (`GiveUp`) or die. A panic
of the transaction is caught once and follows the recovery plan; one of that
recovery unwinds the command and closes the pipe. A foreground start takes the
lock whenever it is free: the holder launches its child all the same, and the wait
for the child rejects and ends it when somebody else runs. A restart whose final
verification fails re-establishes absence, and its caller tries that once more if it
failed, also when the holder is already settling.

### ExecutableReplacement

State: what each name beside the executable holds, what each update has bound, its
completion and report, the update lease, and the cleaners: the worker of each
update and the starting commands, which share one state. Both platforms are
covered: Unix exchanges two names, Windows moves the public file aside and the
candidate in, so that for a moment nothing is public. `Classify` decides by what
the exchange produced; the ways back are `TakeBackCheck`, `SwapBack`, `Verify`,
`FillEmpty`, `DropCandidate`, `DropBackup`; `Commit` on Windows writes the journal
and `SpawnWorker` hands the lease over. Any operation may fail or take effect
without being confirmed, anybody may die, and outside writers replace the public
file. A creation that fails may leave what it made: a copy, a candidate, or a
journal not written to its end (`Torn`), which no cleaner accepts and which
refuses every later commit. An interruption before the classification is done
rolls back whatever the exchange did (`Interrupted`). One case is left out: a
journal that is whole although its creation was reported as failed and whose exact
removal failed too (`create_journal`, two failures on one file). The update then
reports that it preserved everything, but a later start finds a valid journal and
would remove the copy and the displaced executable.

### ServiceInstallation

State: `disk` (the unit file and the names `candidate`, `backup`, `removed` beside
it), the state of the publication or removal (`hold`), what systemd has loaded,
whether the service is enabled, its process, a foreground daemon that the manager
knows nothing of, and the one command that holds the service-operation lease.
A definition is who wrote it, when, and for which executable: the file's token and
its `ExecStart`.

`Read`, `Query` and `QueryEnabled` bind what the command finds, and `Compare` looks
once more whether the definition is still the one that was read. An installation goes through
`StopOld`, `SettleOld` (or `CheckDaemon`), `Stage`, `BackUp`, `Bind`, `Swap`,
`Look` (without a previous definition: `Place`, `LookNew`), `ReloadNew`,
`EnableNow`, `CheckNew`, `AwaitNew`, `Commit`; a removal through `DisableNow`,
`SettleGone`, `Aside`, `MoveAside`, `LookAside`, `ReloadGone`, `CommitGone`. The
ways back are `Recover` (before anything was published), `PutBack`, `LookBack`,
`Unpublished` (from the publication), `StopNew`, `SettleNew`, `DisableNew`, `Undo`
(from a started installation) and `Replace` (from a removal), with the common end
`ReloadBack`, `EnableBack`, `RunBack`, `StartBack`, `AwaitBack`, `Verify`. A
systemctl call may fail with or without its effect, a query may fail, a file
operation may fail or not be durable, and what it left may be unreadable; a failed
creation may leave the file it could not remove again. The service may crash and is
restarted by systemd, somebody may rewrite the unit file at any moment. A removal
that was done but may not last ends as `unconfirmed`, and `OutcomeIsTrue` asks of
that report what it asks of `uninstalled`.

Abstractions: systemd only; the manager reads the unit file at `daemon-reload`
only; nobody calls systemctl by hand (the stop in `rollback_systemd_uninstall` is
for that case and cannot happen here); checks on the text of a definition other
than its executable, and `systemd-analyze`, are left out.

A case the model shows and no property forbids: when somebody changes the unit file
between the copy and the exchange (service.rs:1711), when it cannot be read there or
after the exchange, or when a failed creation cannot remove what it created, the
command ends with its candidate and perhaps its backup on disk, and these names then refuse every later installation
until they are removed by hand.

## 3. Runs

| run | question | bounds |
|---|---|---|
| `auth_publication` | no credential lost, meaning of `Written` and `Changed`, recoverability, recovery does not move live | 2 publications, 2 changes by Codex, 1 crash, 5 files, 1 managed backup |
| `store_moving` | refinement of `ProfileRegistry`; no account loses its last usable token; live follows only as authorized; what a switch displaces is what it was agreed on, or is saved elsewhere | 2 processes (one on the network, one moving live or profiles), 2 aliases, 2 accounts, 3 operations, 3 credentials per account, 1 change by Codex, 1 crash |
| `store_meeting` | an account never gets two profiles; every operation returns without a timeout | 2 operations (import and re-login among them), 2 credentials per account, 1 change by Codex, no crash |
| `usage_cache` | no usage from before a redemption returns, no profile inherits another account's usage, "not consumed" is true | 2 processes, 2 aliases, 2 accounts, 4 operations, 1 card, 3 attempts, 11 stamps |
| `usage_requests` | answers land where they belong, tokens are spent and left behind rightly, requests and exit settle | 2 aliases, 1 watched; 2 requests, 2 asks, 1 rotation, 1 switch, 1 event, at most 3 asks, switches and events in all |
| `token_rotation` | refusals are about retired tokens, a lost token is reported, a warm-up sends only under the right circumstances, every operation ends | 2 operations in 4 pairings, 3 tokens, 2 attempts, 1 extra pool, 2 outside changes or deaths, 1 aging |
| `daemon_identity` | a running daemon is named, an absence is one, a requested stop happens | 2 daemons, 2 commands, 1 death |
| `update_boundary` | the two processes never disagree, reports are true, the daemon comes back, every update ends | 4 generations, 1 foreground start, 2 faults |
| `update_readiness_timeout` (violation) | is a stopped daemon restarted? | no fault, nobody interferes |
| `executable_replacement` | an undecided update can be undone, a restoration is true, nothing is lost, a cleanup is finished | 2 updates, 2 outside writers, 2 faults, both platforms |
| `update_over_pending_cleanup` (violation) | does a pending cleanup precede another publication? | 2 updates, no fault |
| `service_installation` | no service without a definition, reports are true, no definition is lost | 2 executables, 2 commands, 2 faults, one foreign definition per executable |

Why these bounds suffice. The conflicts are between two holders of one lease, or
between one holder and somebody who honours none: two processes, two aliases (a
source and a target) or two updates express them, three operations let a third act
after two have raced, and three credentials per account give a token, its successor
and one more by Codex. In the publication protocol one crash interrupts and the
next call recovers; two changes by Codex are what a handle opened before the
exchange and a login after it need; one managed backup makes retirement happen.
Two faults are one that starts a way back and one that strikes on it. In
`usage_cache` eleven stamps exceed what two processes can remember, four operations
are a baseline, two changes and a publication, and three attempts are one that may
have acted, one that is refused and the last. In `usage_requests` rows interact only
through the switch, so one is followed and the other takes part in switches. In
`token_rotation` three tokens are the first, its successor, and one more by somebody
else; two attempts are the first and the last; two outside changes replace a
credential twice under a task, or replace it and kill a task. In
`update_boundary` the four generations are the initial daemon, a foreground one and
the two that a holder may start. Accounts, file identities and executables are
interchangeable where a configuration says so, so their permutations are a sound
symmetry for those safety runs; no run with a liveness property uses one.

Deadlock is checked where an idle system may rest by an explicit step (`Rest`,
`Exited`): inside an operation some step has to be possible. `daemon_identity`,
`update_boundary`, `executable_replacement` and `service_installation`, and the two
violations, stop when all their commands are over, and say `CHECK_DEADLOCK FALSE`.

Fairness, each justified by what schedules the step in the code:

- `store_meeting` (`FairSpec`): weak fairness of each process's own steps (the code
  polls a lock until it is free) and of the user's answer or sign-in. Nothing is
  assumed about timeouts, crashes or requests, and the run shows that no timeout is
  needed.
- `usage_requests`: the event loop, the switch's worker and the workers of the
  watched alias go on; users, other processes and failures need not come.
  `RequestsSettle` supposes that no other process keeps a lease for good.
- `daemon_identity`: daemons and commands go on. `update_boundary`: daemons, holder
  and client go on; nobody has to start, cancel, fail or die.
- `executable_replacement`: an update that has begun and a cleaner that has the
  lease go on, a worker takes a free lease, and, strongly fair, a command that
  starts now and then finds the lease free: users keep starting the program.
- `token_rotation`: the tasks, taken together, go on while one of them can
  (`WF_vars(\E t \in Task : Step(t))`); users, other machines and crashes need not
  act. Each task runs its own thread of control, so this is less than the code gives.
- `auth_publication`, `usage_cache`, `service_installation` and `store_moving` state
  safety only.

Types: no run spends a property on `TypeOK`; it is proved for every module that has
one, so no model's state ever leaves the sets its description names.

### What the violations show

- `update_over_pending_cleanup` (commands/update.rs:345-353): a pending cleanup is
  looked for before the update lease is taken and not again under it. An update
  that waits for the lease while another commits publishes over that one's journal,
  which then never validates again and refuses all later updates.
- `update_readiness_timeout` (daemon/mod.rs:418): the command waits a fixed time for
  the holder's `ready` and then kills it; a daemon that is slower to obey its stop
  request stops afterwards and nobody starts it again, against
  docs/wiki/Updating.md:28. `DaemonComesBack` in `update_boundary` holds with this
  case named as an exception.

## 4. Proofs

Every theorem is proved for all values of the constants, from the named assumptions
of the module it extends (`PublicationConstants`, `CredentialStoreConstants`,
`UsageCacheConstants`, `RequestsAssumption`, `IdentityAssumption`,
`TokenRotationConstants`, `BoundaryAssumption`, `AttemptAssumption` and `FaultAssumption`;
`ServiceInstallation` needs none of its two). One theorem has a hypothesis besides,
named below. Each follows the same line: an invariant
`IInv` is implied by `Init`, kept by every action (one lemma per group of actions or
per part of the invariant), and implies the property; the last step is temporal. TLC
checked every `IInv` on a small instance before it was proved.

**AuthPublicationProofs**: `InductiveInvariant`, `TypeCorrect` and all four properties
of the run: `CredentialsKept` (`[]NoCredentialLost`), `RecoveryKeepsLive`,
`ResultsHold`, `QuietCrashIsSettled`. `NoCredentialLost` is not inductive: a step that removes a
file keeps the promise only because another file holds the content, and that
follows from where the protocol is. `IInv` adds: two names never denote one file
(`DistinctFiles`, the quarantine step apart); private names exist only with a
record or before it (`NamesNeedRecord`); nobody else has the copy open
(`CopyIsPrivate`); what has been prepared at each location (`Prepared`,
`CandidateNamed`); which plan is under way and how far it got (`PlanUnderWay`,
`CopyFollowsPlan`); and the real argument, `CredentialsHeld`: every credential owed
to Codex is in the live file, the displaced file, an orphan or an older backup, or
else it is the record's expected credential and the transaction's own copy, staged
or retained, still has it.

The other three add to `IInv` what they need. `Settling` says on whose behalf a plan
runs: a recovery only finishes or cleans up what the record decides and never
exchanges, so it leaves live alone. For the meaning of a result, `Decided` says that
what a publication displaces is what its caller expected, from the record to the
newest backup, and `NotPublished` that the candidate of an attempt which is being
undone is not under the name live. `ResultsHold` supposes that Codex never writes
the very bytes of a saved profile (`AppCred \cap CodexCred = {}`, as in the run): with
equal bytes, a login by Codex alone would make it look as if the candidate were live. For the crash, `QuietHeld` says that as long as Codex has not
touched anything since the record was written, the files have one of two shapes, the
exchange not made (`Undone`) or made (`Done`), and each of them is one
`settle_auth_publication` accepts.

**CredentialStoreProofs**: `StoreInductive`, `StoreTypeCorrect`,
`StoreImplementsRegistry` (the refinement of `ProfileRegistry`), `OneProfileKept`,
`OnlyOwnLiveKept`, `UsableIsKept`, `SavedIsNeverSpentLive`, `SwitchesAreAgreed`.
`IInv` says who holds the auth transaction between
two steps (`TxnHeld`), what each operation has in its hands at each of its places and
what it knows of the store that nobody can have changed since (`TasksFit`), that the
credential of a sign-in under way is in nobody else's hands (`Private`), and that
nothing in use is ahead of what the server has issued (`AllOld`). What was read
before the network is not in it: for the first six theorems the operations' re-checks
inside the transaction are enough, without the profile leases. In the refinement each
step that writes a profile is one step of the registry, with the re-check as its
guard, and all others stutter. `OneProfileKept` is
carried over from the registry, about which the module first proves
`RegistryTypeCorrect` and `AccountHasOneProfile`: the accounts of two distinct names
meet inside the transaction. `UsableIsKept` shows for each write what keeps the displaced credential
of an account or proves it spent; its one exception is `Overtaken`, above.

The last two theorems need the leases, and a second invariant, `JInv`
(`StandingInductive`). It says which leases an operation holds or still waits for
(`Leased`), that the profile it read under them is as it was (`Backed`), that while
the presented token is live the refresh follows live and the marker is the one it
read or names its profile (`Follows`), that a deletion or a rename under way will not
put back another marker (`Reverts`), and what each kind of switch was decided on
(`Grounded`). `JInv` is not inductive by itself: a lease is on a name, and guards a
credential only because no other name has it (`TheOne`). So every step uses the
registry's promise, which the refinement has already given. The argument has two
halves: a step of a process spares what the others rely on (`Spares`, one lemma per
step that writes the disk) and leaves its own task standing (`Own`, one lemma per
step). `SavedLeavesNoSpentLive` is then `Follows` at the last step of a refresh, and
`SwitchIsAgreed` is `Grounded` at the swap.

The attempt corrected `SwitchIsAgreed`, which the runs had passed in a stronger form:
that a credential displaced without asking is archived, is in a profile, or is older
than its account's profile. Take a switch that could not write its marker, a refresh
of the profile it made live which could not replace live, and the deletion of that
profile, which the marker does not protect: if another switch was prepared before the
refresh, it displaces the old credential when the newer one is only in the archive.
Nothing is lost, so the property now
accepts a newer credential in the archive too. And where users sign in (`SignIns`) an
account's profile may be replaced by a sign-in that the server answered before a
refresh of the same profile (`AnyAge`), so there the property promises that the
account is saved, not that what is saved is newer; `store_moving` has no sign-ins
and checks the strong form.

**UsageCacheProofs**: `Invariant`, `TypesAreKept`, and all three properties of the
run: `RedemptionsAreFinal` (`RedeemedNeverReturns`), `EntriesNameTheirOwners`,
`UnusedIsUnused` (`NotConsumedIsTrue`). The invariant has two halves. `Control` is
about tasks: an account has one profile, who holds which lease, what an operation is
about, and that a redemption which an attempt has made is in doubt (`ActedIsDoubted`,
which gives the last property). `Recent` is about what may still reach the cache. Its
notion is `Home`: an account's entry is at its profile's alias or, while a rename has
moved the profile alone, where it came from. An account never has two homes, so what
is at home (`EntryAtHome`, `PublishesAtHome`) cannot be missed by an invalidation that
counts. A publication made without the lease is from after the last invalidation or
will be refused, because an invalidation leaves a mutation that nobody remembers
(`PublishesRecent`); a merge is refused in the same way by the revision of the entry
(`MergesRecent`); under the lease nobody can invalidate (`Reading`).

**UsageRequestsProofs**: `RequestsTypeCorrect`, `TokensSpentUnderLease`,
`NothingLeftBehind`, `UsageShownIsOwn`, `UsageShownGoesForward`, `TargetIntentIsKept`,
from `RequestsInductive`. Beside the types `IInv` says what a row's request, its
follow-up and its generations are (`RowsGood`), what each worker holds and may
still do at each step, with its controls (`TasksGood`), what a switch under way has
already cancelled (`SwitchGood`), and what every message in a channel was made
from. That a late answer never lands on another row's loading needs all four: the
message is of a request below the row's counter, and the row forgets its request
when it is loaded anew. For `TargetIntentIsKept`, a switch in flight queues nothing
new for its target that does not also wait for its end (`QueuedIsDeferred`), and only
a switch in flight has a worker (`WorkerInFlight`).

**DaemonProofs**, of `DaemonIdentity` (`IdentitySpec`): `IdentityTypeCorrect`, `TheRunningDaemonIsNamed`,
`AbsenceHolds`, from `IdentityInductive`. `IdentityInv` says which routine a process may be
in and where it returns (`Kinds`, `RoutinesReturn`), who holds the lock at each
step (`LockHeld`), what the pid file may then say (`FileFits`), that a spawned child
is the one its command waits for (`ChildNamed`), and that holders of the lease are
alive (`LeaseAlive`). The argument is `FileFits`: only the holder of the lock
removes or writes the file, and a cleanup that took the lock read the file under it.

**DaemonProofs**, of `ServiceInstallation`: `NeverOrphaned` (`[]NoOrphanService`),
`DefinitionsAreKept` (`DefinitionsKept`) and `ReportsAreTrue` (`OutcomeIsTrue`). A command that dies
leaves the next one nothing but the disk and the manager, so `NoOrphanService` must
hold between any two of its steps. `IInv` says what the command found
(`NothingFound`, `SomethingFound`), that the unit file is there wherever one was
(`UnitThere`: somebody may replace it, nobody removes it), that the service is off
and disabled wherever the file may go (`Quiet`), and which of the four names holds
the new, the previous and the copied definition (`Where`). `DefinitionsKept` follows
from `Where` alone: the only step that drops a definition not its own is the commit,
where the candidate's name was seen to hold the previous one. `ReportsAreTrue` needs
what the manager has loaded and runs at each place as well (`Reported`): a foreign
definition is older than the command or is known to be one (`PastOnly`,
`OncePerName`), and on every way forward and back the manager is where that way has
brought it (`WayFits`). The proof corrected the property: of what runs after a
restoration `Restored` speaks only once that process holds the PID lock, because one
that is only starting may still lose the lock to a foreground daemon.
`ServiceTypeCorrect` (`[]TypeOK`) needs `SomethingFound`, because a backup is a copy of
a definition only where one was found, and that a command under way has a number
(`Typed`), so that what it installs is one of the definitions.

**TokenRotationProofs**: `RotationTypeCorrect`, `RefusalsAreTrue`,
`LossesAreReported`, `MessagesAreGuarded`, from `Inductive`. None of the three
properties is inductive. An operation decides on what it read of the profile and
acts steps later, so `IInv` says for each place what is still so: who holds the
lease (`Held`: at every place outside `Unleased` it is the task itself), what is
true of the record (`Shape`), that a verdict it carries is about a token that is
dead (`Judged`), and how its credential and the successor in its hands compare with
the profile, the dead tokens and the recorded refusal (`Fits`). `IssuedFirst` makes
a newly issued token differ from all of them, and `LossExplained` is the second half
of `LossIsReported`. The argument is short where the lease is: a task without it
carries nothing that others can spoil (`Waiting`), and while it is held only
`Rogue` and `SpendElsewhere` move the profile or the server (`OthersStay`), which
have lemmas of their own.

**UpdateBoundaryProofs**: `BoundaryTypeCorrect`, `CommandsFitAlways` (`CommandsFit`),
`ReportIsTrueAlways` (`ReportIsTrue`) and `ExecutableAlwaysGuarded`
(`ExecutableIsGuarded`), from `BoundaryInductive`, for any number of daemon
generations, foreground starts and failures. The client and the holder each keep a
phase, and neither reads the other's. `Agreed` says why that is enough: they take
turns. While the client decides, both pipes are empty and the holder listens or was
killed, in the client's own phase (`ClientTurn`); while the client waits, the holder
works on just what was asked (`HolderTurn`, `Called`) or has answered it
(`Answered`). A panic keeps the turn, since the recovery plan starts from the phase
the two agreed on; once the input is closed the client sends nothing more. So a
command always fits, and where the client moves the executable the holder listens
in `Stopped` or `ReplacementFailedStopped`, where it has the absence (`HolderFits`).
For the reports `Restarts` follows the daemon: one owner of the lock, a child started
from the public image and, from the check of it to the marker, a restarted daemon
that is the child or a child that has ended. The image cannot change in between, for
the client does not have the turn.

**ExecutableReplacementProofs**: `ReplacementTypeCorrect`, `UndecidedCanBeTakenBack`
(`UndecidedIsRecoverable`), `RestoredMeansRestored` (`RestoredIsTrue`) and
`NoFileIsLost` (`NothingLost`), from `ReplacementInductive`, for any number of
updates, outside writers and faults and on both platforms. What makes the three
promises hold is spread over names that three kinds of program write, so `IInv` says
of each name who may have put what there. Who works or cleans has the lease
(`Locked`), a cleanup is of a committed update (`Cleanups`), and a copy is never
anywhere but at the backup (`Copies`). `Traced` is the key: the candidate of an
update that has not committed is public or staged only while the backup is that
update's own copy, or it is staged and there is no backup, or it is at its recovery
name. So at most one open update has anything to do with the public path, and the
others can be left alone (`Exclusive`). `Recoverable` says the same of what was
displaced, and keeps, for the moment in which nothing is public, that the update
whose file is aside is open: a cleaner, which is of a committed one, never removes
it. `Phase` adds what an update's names hold at each of its places (`Unborn`,
`Ready`, `Out`, `Gap`), with every outside write allowed in between, and `Restored`
what it left when it said it had put things back: nothing of its own, and the
executable it displaced is public again, unless another update has started from it or
somebody else has written there. The invariant needs this because the next update
starts from that very file.
`NothingLost` then goes over the places where a step puts something: `Phase`
shows each of them empty, or holding the program's own file, or the previous
executable of an update that committed.

Every safety property that a passing run checks is proved for all values of the
constants. Only model-checked: all liveness (`EveryOperationReturns`,
`CleanupFinishes`, `RequestedStops`, `ExitEnds`, `RequestsSettle`,
`EveryOperationEnds`, `DaemonComesBack`, `EveryUpdateEnds`), which is out of the
prover's reach.

## 5. Not modelled

- *Of the refresh over HTTP* (`usage/api.rs`): the wording from which a refusal is
  judged, clocks and budgets in seconds, the limiter's capacity; each appears in
  `TokenRotation` as a choice.
- *Daemon loop* (`daemon/loop_runner.rs`): one sequential task over wall-clock
  timers; its switch and its shutdown are in `CredentialStore` and `DaemonIdentity`.
- *Of the warm-up* (`warmup.rs`): the content of its messages, the batch over several
  profiles with its concurrency limit, and the lock around a model lookup.
- *launchd and the Windows task scheduler* (`daemon/service.rs`): the same order of
  steps over managers whose behaviour the source does not determine.
- *Scoring, eligibility, global pace, usage parsing, identity claims*: sequential and
  stateless; their constants are judgements that no invariant speaks about.
- *Workspace names, selection times* in the cache: nothing that is shown to be right
  here depends on the order in which they are written.
- *Release lookup, download and checksums, the installers, sign-in over OAuth,
  process inspection, notifications, display, shell*: input, output and the
  operating system.

In the modelled components the parts left out are named in `PROJECT.json`. The map
covers the code that carries the program's state; of the source lines it leaves
aside about half are unit tests within the same files.
