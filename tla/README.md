# TLA+ models of Clash Verge Clew

Clash Verge Clew is a desktop proxy manager (Tauri: a Rust backend, a React UI)
around the Mihomo core. It is a fork of Clash Verge Rev that adds an
*application proxy*: a helper process (Clew) that captures the traffic of chosen
executables and sends it to dedicated listeners of the core. This directory
holds the models of its backend, the TLC configurations that check them and the
TLAPS proofs about them.

## 1. Inventory

Paths are relative to `src/src-tauri/src` unless they start with `crates/`.

| Part | State it keeps | Operations | Talks to | What is hard | Module |
|---|---|---|---|---|---|
| Run State (`core/runstate`) | service health, pending action, Sidecar allowance, observation counter, operation slot, Running Mode | observe, reserve/commit, request, allow/withdraw/restore, begin/drop, settled, enter_mode | Core manager, Service, PAC server, UI | readings that span I/O, notify without permits, a snapshot read in parts | RunState |
| Core manager (`core/manager`) | config-update flag, lifecycle lock, readiness generation, sidecar child and exit task | start, stop, restart, continue with Sidecar, uninstall and start, handoff, update | Run State, Service IPC, system proxy, drafts | two locks in a fixed order, a sidecar that dies between steps, a proxy in front of a dead core | CoreLifecycle |
| Application of a configuration (`core/manager/config.rs`, `core/validate.rs`) | last accepted fingerprint, what the core runs, what the Service staged | validate, stage, reload, replace, commit | Core manager, Service | requests whose answer is lost | ConfigApply |
| Service client (`core/service.rs`, `core/runstate/owner.rs`) | owner session, monitor generation, counters of bad samples | run/stop the core, monitor, recover | privileged service over IPC | displaced owner, silent transport, recovery racing a stop | CoreLifecycle, OwnerWatch |
| Provider caches (`core/service.rs`, `core/runtime_bundle.rs`) | coalescing flag, copy in progress, provider paths | request, copy, publish, resolve conflicts | Service, core's files | a file rewritten while it is read, names derived for contested files | ProviderSync, RuntimeBundle |
| Drafts (`crates/clash-verge-draft`) | committed value, staged value, claim, write permit | edit, apply, discard, with_data_modify, transactions | every configuration writer | unclaimed writers beside a transaction | Draft, Register |
| Settings (`feat/config.rs`, `feat/tun.rs`) | committed settings, effects done | patch, its effects, commit, roll back, reconcile TUN | Draft, Run State, Core manager | an effect that fails after others, reconciliations that coalesce | Settings |
| System proxy (`core/sysopt.rs`) | ownership, guard thread and its target | update, reset, refresh, stop guard | OS settings | a guard write in flight, half a write | SysProxy |
| Service-side proxy (`core/proxy_control.rs`) | guard generation, guard loops, table of failures | apply, clear, refresh, stop | Service, notifications | a request checked before the generation moved | ProxyGuard |
| Application proxy (`core/app_proxy.rs`) | helper process, rules, listeners, revision, resume intent, configuration epoch | start, change rules, status, stop, resume | Core manager, Clew helper over HTTP | publication of unknown outcome, crash of the helper, updates under a status read | AppProxy, ConfigEpoch |
| Profiles (`config/profiles.rs`, `cmd/profile.rs`, `feat/profile.rs`) | items, current profile, files | import, update, edit, order, delete, switch, restore a backup | Core manager, Draft, network | files removed before the record is committed, a switch that is restored in two calls | Profiles |
| Node selections (`config/profiles.rs`) | recorded nodes, activation generation | record, restore, repair | core | a restoration that is superseded with its request under way | Selection |
| Update timer (`core/timer.rs`) | cached map, task states, delay queue | refresh, fire, report | Profiles | edits while an update runs | Timer |
| Generation of a configuration (`enhance/*`, `feat/dns.rs`) | none; the DNS confirmation of this session | derive, override, enforce | profiles, settings | the order of capture, override and enforcement; a file replaced after the question | Enhance, DnsOverride |
| Ports and PAC (`feat/listener.rs`, `config/port.rs`, `core/listener.rs`, `utils/server.rs`) | configured and borrowed port, PAC availability | start-up fallback, probe, save, roll back | Drafts, Core manager | refused binds that prove nothing, a save that fails halfway | PacGate, Ports, Listener |
| Core upgrade (`feat/core_upgrade.rs`) | files of the core, the Service's approved copy | download, publish, approve, roll back | Service, Core manager | renames that fail or are cut short | CoreUpgrade |
| Shutdown (`feat/window.rs`, `lib.rs`, `crates/clash-verge-signal`) | exiting flag, latches | quit, clean up, cancel, end of session | Core manager | a start under way, quits that cross | Shutdown |
| Single instance (`utils/server.rs`) | file lock, record, server | lock, look, notify, leave | other instances | stale records, reused ports | Singleton |
| Main window (`module/lightweight.rs`, `utils/window_manager.rs`, `utils/resolve/window.rs`) | window, mode, idle timer, reload marker | show, hide, toggle, create, enter and leave lightweight mode | event loop, WebKit | tasks beside the event loop | MainWindow |
| Backups (`module/auto_backup.rs`, `feat/backup.rs`) | schedule, last backup, archives | trigger, pack, move, clean up | file system | triggers that overlap | Backups |
| Tray, hotkeys, notifications, logging, localisation, start-up | presentation, I/O | | all of the above | nothing a protocol property depends on | not modelled |

How they interact. Every change of the core goes through the core manager. It
claims `config_update_in_progress` (a try-lock: a second caller is refused),
then, where the setting itself changes, the configuration lock, then the
lifecycle lock; it asks Run State whether the Service or a Sidecar should carry
the core, starts or stops it over IPC or as a child process, and moves the OS
proxy around it. Three things happen without any of these locks: a sidecar dies
and its event task notices, the owner monitor or a log request finds that the
Service core is lost, and the proxy guard writes the OS setting. Commands on the
profiles and settings stage in Draft, have the configuration generated
(Enhance), applied (ConfigApply) and commit, or roll back. Reports to the user
interface are one way.

## 2. Modules

One module per component. Operators and actions keep the code's names where
there is one function for them; an `await`, an unlock or an atomic operation
that somebody else can come between ends an action. Where a component needs
another one only for what it may answer, the answer is a choice, and the header
of the module says whose it is. Operators named `Mut_...` are wrong versions of
the operator they stand before; no specification uses them.

**RunState** (`core/runstate/mod.rs`, `health.rs`, `env.rs`). The store's mutex
makes every method one atomic step. What spans awaits is split: an operation
(`Begin` to `NotifyWaiters`), a reading outside the slot (`ProbeReserve`,
`ProbeDetected`), one pass of the `settled()` loop (`Register` to `Woken`).
`overtaken` is a history variable: the readings older than some newer fact.

**SysProxy** (`core/sysopt.rs`). The platform is chosen initially. One operation
at a time (every caller holds the lifecycle lock), against a guard thread that
may be slow, may never finish and may have a write in flight, and another
process that may write the OS setting. Writes may fail, or fail halfway;
`confirmed` is the last target seen in the OS.

**CoreLifecycle** (`core/manager/*`, recovery of `core/service.rs`). An operation
is a task with a list of steps still to do, one per await; `Plan(op)` is the
operation's body, `Unwound` the `?` operator: a failing step drops the list to
the next handler (`Handler`), the code's own rollback. Beside the tasks run the
event drain of every sidecar (`Terminated`, `ClearTerminated`, `Cleared`), the
owner monitor of every generation and log requests that capture one (`Sample`,
`Claim`, `RecoverLocked`, `Recover`).

**OwnerWatch** (`core/runstate/owner.rs`). Every history of samples against the
fold that judges them: the verdict CoreLifecycle takes as a choice.

**ConfigApply** (`core/validate.rs`, `core/manager/config.rs`, `core/service.rs`).
The test run and its memory, staging with one more ask, reload, replacement,
restart and commit. A request whose answer is lost may have been carried out, and a
bundle that is collected again for the second ask may be refused then. `draft` is the
layer everybody generates into: a core starts from `latest_arc`, so from a draft that a
restart or the move to a sidecar left there under no transaction.

**Draft, Register** (`crates/clash-verge-draft`). The calls on a layer are
operators with the crate's names; each is atomic under the layer's mutex, and
the operations of the application are sequences of them. A writer takes the
configuration lock, the update flag and claims, or does not, as the constants
say: `patch` is `apply_verge_patch`, `ports` `save_proxy_ports`, `update`
`perform_config_update`, `fallback` the start-up port fallback, `persist`
`disable_tun_and_persist`, `change` `change_core`. The profiles are written by
`with_data_modify` and by `patch_profiles_config`. A value is the set of the
operations whose changes it holds. `Register` is the abstract specification:
`data` alone and one action, the commit of one change; `ImplementsRegister` maps
the committed values onto it. `Apart` says of the operations requested together
that any two that share a layer both take the lock, the flag or the claim.

**Settings** (`feat/config.rs`, `feat/tun.rs`). A patch with its flags in the
code's order, its commit and its roll back, and the reconciliation of TUN with
its coalescing flag and its own patch. Three settings stand for the flags: one
that restarts the core, one the core reads, one outside it. The core takes its part
from `runtime`, which has a committed layer and a draft: RESTART_CORE generates the draft
and runs it without committing it, an update commits or discards it, and updates,
generations and starts by others use the same draft (`UpdateBegins`, `OthersGenerate`,
`OthersStart`). A Windows sidecar runs without TUN (`CoreRuns`).

**ProviderSync, RuntimeBundle** (`core/service.rs`, `core/runtime_bundle.rs`).
Requests behind a flag, the serial copy with its attempts, chunked reads with the
file's identity and publication under the lifecycle lock, while the core
rewrites the file in place; and the resolution of contested provider files. A time is
the number of chunks written until then; `near` says that a file's time is within
`RUNTIME_PROVIDER_SETTLE` of the core's load, `stamps` whether the file system shows the
time of a write at once, when the writer closes the file (Windows) or not at all, and
`loaded` is 0 when the core reports no load.

**AppProxy, ConfigEpoch** (`core/app_proxy.rs`). Start, rule changes with
compensation, status, stop, shutdown, resume, every step of which may fail, with
the helper's versioned rule endpoint, regenerations by others, crashes of the
helper and of the application. A kill (`Kill`) is a request whose result the code
ignores and a wait of bounded time, so the process may outlive it. In ConfigEpoch every
atomic operation of
`begin_config_update`, `finish_config_update` and `config_update_is_current` is a
step of its own; `HoldOnly` are the operations that take the flag without
counting themselves, and no property speaks of a core they restart.

**Profiles, Selection, Timer** (`config/profiles.rs`, `cmd/profile.rs`,
`feat/profile.rs`, `core/timer.rs`). Commands that interleave at every await, with
the record in memory, the record on disk and the files as three variables, under
the write lock, the store's permit and the update flag each of them takes or does
not; restorations and repairs of node selections; the timer's cached map, mailbox
and delay queue.

**Enhance, DnsOverride** (`enhance/*`, `feat/dns.rs`). The derivation on one field
of each kind the code treats differently; a value is who wrote it last. The DNS
page's question, confirmation and re-check against a file that may be replaced.

**PacGate, Ports, Listener** (`feat/listener.rs`, `config/port.rs`,
`core/listener.rs`, `enter_mode`, `core_start_settled`). A save step by step
against jobs under the lifecycle lock, with the endpoint answering for the staged
port; the borrowed port at start-up and through a save with its two files; the
probe in a world of foreign sockets on each platform, for all five listeners and both
address families, with interfaces that may list any of the host's addresses and binds
that may fail. What Listener tries (`Worlds`, `Networks`, `Candidates`, `Currents`, ports
and addresses) is a constant; section 3 says what MCParts takes.

**ProxyGuard** (`core/proxy_control.rs`, `core/notification.rs`), **CoreUpgrade**
(`feat/core_upgrade.rs`), **Shutdown** (`feat/window.rs`, `lib.rs`), **Singleton**
(`utils/server.rs`), **MainWindow** (`module/lightweight.rs` and the window
modules; a reload of the page may fail), **Backups** (`module/auto_backup.rs`,
`feat/backup.rs`): as the
inventory describes them; each header says what one state of it stands for.

Instances. `MCRunState`, `MCDraft`, `MCPacGate`, `MCSysProxy` and
`MCCoreLifecycle` instantiate one component. `MCStores` (RunState, Draft, Timer,
ProviderSync: the parts whose tasks wait for each other, with fairness),
`MCUpdates` (ConfigEpoch, PacGate, SysProxy, AppProxy: what meets in a
configuration update), `MCProfiles` (Profiles, Selection, Enhance, DnsOverride, and
ProviderSync with larger bounds, for safety) and `MCParts` (the other twelve) check
components side by side: the initial state
names the component that runs, and the others rest in one state. Such a run is
the sum of the components' state spaces, not their product; components that do
act on each other are in one module (CoreLifecycle with the owner monitor and the
proxy, Profiles with the configuration updates, Ports with the restarts).

## 3. Runs

| Run | Instance | Properties |
|---|---|---|
| `core_windows` | Windows, two tasks, three processes, three calls | `OneSidecar`, `LiveSidecarKept` |
| `core_linux` | Linux, two tasks, three calls, monitor and log request, four generations | `GuardHasCore`, `ServiceIsWatched`, `StopsAfterClear`, `NewerSessionSurvives` |
| `core_macos` | macOS, two tasks, two calls, fairness | `CrashIsNoticed`, `OperationEnds` |
| `stores` | two operations, a start-up reading, one `settled()` caller; five writers of the application, two overlapping transactions, a switch beside two modifications; two profiles and two edits; two copying tasks, three requests, one download, one session; fairness | `RequestRetired`, `NoLostWakeup`, `StaleReadingNeverWins`, `ImplementsRegister`, `KeepsUpdating`, `RequestsServed` |
| `updates` | two updaters and two readers; three ports; three platforms and three wishes; two groups, three calls, two helpers | `StableMeansUnchanged`, `OpenWhenServing`, `GuardEnforcesConfirmed`, `DisabledStaysOff`, `Settled`, `NoStrayHelper` |
| `profiles` | two profiles, two jobs at a time of three; two profiles' selections of two nodes, two activations; two overrides; two provider sources; one copying task, two downloads, two sessions, three ways to show times | `ProfilesAgree`, `CommandsGoOn`, `RepairIsJustified`, `GeneratedRight`, `UnconfirmedNeverInEffect`, `TornOnlyUnseen` |
| `parts` | the twelve components of MCParts, bounds in `MCParts.cfg` | `BundleUnambiguous`, `ProbeSound`, `DesiredIsServed`, `ClearedThroughService`, `RecoveryJustified`, `AppliedIsRun`, `CoreIsKept`, `ApprovedIsReported`, `ExitLeavesNoCore`, `LeftToPrimary`, `TunIsReconciled`, `EffectsFollowSettings`, `NoDeadPage`, `BackupsSpaced` |
| `runstate_snapshot` (violation) | two operations, two `settled()` callers | `SettledSnapshotIsSettled` |
| `sysproxy_cleared` (violation) | Windows | `ClearedMeansOff` |
| `pac_follows` (violation) | three ports | `PacFollowsMode` |
| `draft_unclaimed` (violation) | `apply_verge_patch` and `change_core` | `FailedLeavesNothing` |
| `selection_newer` (violation) | one activation, one selection | `NewerSelectionStays` |

What they show, in the order above. At most one sidecar lives through failing
kills, exit timeouts and handoffs, and a late event retires no newer one. A
Service core never goes unwatched, a recovery retires only the session that was
lost, a proxy is given up before its core is, and none is guarded in front of a
core that is gone. Every operation ends and a dead sidecar does not stay current.
An old reading never overwrites a newer fact, no request outlives its operation,
no wakeup is lost; commits are those of a register; a scheduled profile keeps
being updated; every request to copy a provider is followed by a copy that began
after it. "Stable" means that nothing changed
while status was read; no way out of a save leaves PAC closed in front of a core;
the guard enforces confirmed targets only and what was disabled stays off; helper,
manager, stored rules and listeners agree when the rule list may next be changed,
and no helper is left without a manager, but for one that resisted its kill. Current
profile, record and files agree
in memory and on disk, wherever the process dies, and commands never wait for each
other in a circle; a repair replaces only what it read; a generated configuration
is what settings, overrides and profile mean together; the DNS page takes over
nothing the user did not agree to; a copy of a provider mixes two downloads only where
the code's checks could not see the second. For the parts see the comment of each property.

Why the bounds are enough. Interference needs two actors: two tasks, two
operations, two readers, two jobs. A late event needs an old and a new object,
and a failing replacement a third: three processes, three ports, three launches,
three configurations. One replaced binary (`MaxBuilds` 1) makes a fingerprint differ.
Settings are two parts of MCParts, each against three patches (one of TUN, one of the
port with TUN, one of the port with a setting outside the core): patches beside updates,
generations and starts of others, with the Run State at rest, and patches beside five
Run States and two reconciliations, with nobody else at the core; the proof is of
both together. Listener gets an address of each family beside the loopback and wildcard
ones, one of them link-local; no foreign socket, one, or a live and a lingering one;
interfaces that list all addresses or none, or on which the wildcard cannot be bound;
and the mixed port alone or with one listener more. `MaxTime` 3 is past one backup's
minimum interval of 2. Owner generations grow by one per start, stop and recovery:
four let a recovery of one session meet the start and the loss of another.
`MaxOps`, `MaxCommands` and `MaxCalls` bound calls, not steps: three are what it
takes to set up and have two more race over it. `MaxSamples` 6 is twice the
tolerated number of bad samples. A provider file of two chunks and two downloads
are what a torn copy is made of (run `profiles`); that no request is lost needs one
download and three requests (run `stores`). `MaxRenameFaults` 4 lets a publication, its way
back and the clean-up after it fail in one upgrade, and the restoration too. Three providers let a derived
name collide with a declared one and with another derived one. Counters such as
`MaxObs` and `MaxEpoch` stop new work, not running work. Symmetry is used only
over interchangeable members and only in runs without liveness.

Deadlock checking is off in the passing runs: a bounded instance stops when every
call was made, and parts without calls of their own (a probe, a derivation) end
after one. That the code does not lock up is stated by `OperationEnds`,
`CommandsGoOn`, `NoLostWakeup` and `RequestsServed` instead. `CommandsGoOn` says that
some command does not wait for the write lock, the permit or the flag, or nobody
works and all are free, and that a command which does not wait has a step to take.

## 4. Fairness

* RunState: weak fairness of each task's own steps (the executor keeps polling a
  task that can run). Nothing makes an operation or a decision begin.
* Draft: weak fairness of the steps of a modification or switch.
* Timer: weak fairness of the scheduler's loop, of a refresh that has begun, of an
  expired deadline and of an update that runs (its request has a timeout). None of
  the edits.
* ProviderSync: weak fairness of a task that was spawned and of the copy's steps,
  whose requests have timeouts. None of the core, its writes or its session.
* CoreLifecycle: weak fairness of a task's and an event drain's steps, strong
  fairness of taking a lock: both locks are tokio mutexes, which queue their
  waiters in order. None of callers, processes, the Service or its observers; a
  recovery that holds the lock goes on.

All other modules are checked for safety and assume nothing.

## 5. Disagreements between code and text

Each is a run that TLC refutes, quoted with its lines in PROJECT.json.

1. `runstate_snapshot`: the comment of `settled()` promises one snapshot taken
   after any operation visible in it has settled; service and slot are read at
   two moments.
2. `sysproxy_cleared`: the sidecar is terminated "after its caller has
   successfully cleared the system proxy"; a proxy that was already in the OS
   when it was applied is enforced and guarded but never owned, and the clear
   then succeeds without touching it.
3. `pac_follows`: `core_start_settled` reads the mode and then stores PAC
   availability, outside the lifecycle lock in `save_proxy_ports`; a stop in
   between is undone.
4. `draft_unclaimed`: "A failed patch rolls back to what the user already had"
   (`feat/config.rs`); `change_core` and `save_webdav_config` stage and apply
   the verge layer without lock or claim, commit the patch's draft with their
   own change, and the rollback finds nothing to discard.
5. `selection_newer`: "Cancels restoration so it cannot overwrite a newer
   selection" (`config/profiles.rs`); a request already under way is not
   withdrawn and lands after the user's own.

### What the properties exempt

Where the code accepts an outcome, or a comment names a case as out of scope, the
property says so with a variable that records the case, so that nothing else
hides behind it.

* Shutdown: `gaveUp`, a session that ended before the stop was confirmed, and
  `crossed`, a cancelled quit that cleared the flag another quit relied on.
* ConfigApply: `adrift`, an update that failed too late to take its bytes back: a core
  whose proxy cannot be cleared or restored, or that cannot be stopped, keeps what it
  has, and so does a Service that staged unanswered and whose second ask is refused.
  `unsettled`, a core that was started from a draft nobody commits, or whose update
  committed what somebody else had generated into its draft meanwhile. Both end with
  the next update or start that does not. The Service revives a core from its staged
  directory.
* AppProxy: a helper that `resisted` its kill (`app_proxy.rs:218`: the result of
  `TerminateProcess` is ignored, the wait is bounded), or that a crash of the
  application orphaned.
* ProviderSync: `unseen`, a download that was open throughout the checks and whose file
  system shows no times, or shows them at the close, or that the core reports no load
  to compare with, or that began within the settling time of the last load and then
  stalled (`finished_loading` tolerates that time, and a time that is missing).
* Listener: `Overlooked`, sockets at another address than the claim's that the code does
  not look for: on Windows UDP ones (only the TCP table is read), on macOS TCP ones
  whose address is link-local, is not listed by the interfaces or cannot be bound.
* CoreUpgrade: `stranded`, the two ways in which Windows can lose the last copy
  of the core (below); `drift`, the differences the code accepts between the
  Service's copy and the reported one.
* Ports: two files a crash left with different ports, a restart in the middle of
  a start-up that moves the port, and a way back that failed.
* Settings: `inDoubt`, the settings of a patch that failed part of the way, those of
  the core when an update began on, or was crossed by, somebody else's draft, which its
  failure discards, and TUN while it was written off beside the patches
  (`disable_tun_and_persist`) or taken out for a Windows sidecar; an effect that tells
  a setting again ends its doubt. `disableFailed`, a reconciliation whose write failed.
  A save that fails after the commit is reported as a failed patch and does not
  reconcile TUN.
* MainWindow: `forgotten`, a page that dies while its window is being built: its
  marker is cleared with the window's. `reloadFailed`, a page that could not be loaded
  again: the marker is cleared before the attempt and the window is shown all the same
  (`window_manager.rs:188`, `resolve/window.rs:247` and `254`).
* Profiles: `taken_back`, a save that found its profile's file missing and
  removes it again after a restored backup had put it back, while some record or a
  modification's copy lists the profile (`Listed`).
* ProxyGuard: a guard that stopped by itself keeps its failure filed.
* Enhance: a profile without a script of its own runs the common script a second
  time, and the second log replaces the first.

### Seen while modelling, and not stated by a run

Behaviour that no line of the repository contradicts, or that depends on timing
the models leave out; a maintainer may want to know it.

* The proof of `CoreIsKept` failed as it was first stated, and four failing renames
  in one upgrade on Windows show why. `publish` moves the core aside and can neither
  put the new one in its place nor the old one back; then the rename of the rollback
  link fails as well. The clean-up still removes link and displaced core, because a
  link had existed when the upgrade began ("Redundant once the rollback link exists;
  without one it is the only copy left", `feat/core_upgrade.rs:141`). Likewise an
  upgrade that begins without a core in its place removes the displaced one first
  (`core_upgrade.rs:411`).

* `patch_clash` returns early from inside its block, past the arm that would
  discard: a failed patch stays staged in the clash layer (`feat/config.rs:21`).
* `validate.rs:412`: the fingerprint of an accepted configuration reads the chosen
  core before the test run reads it again, and `change_core` edits it without a
  lock.
* A patch of the port that fails after RESTART_CORE has generated (the update flag is
  taken, or the core will not start) rolls the settings back but leaves the generated
  draft in the runtime layer, which its transaction does not hold. The next start, by
  whomever, runs the port the user was told had failed, until an update commits or
  discards the draft; "A failed patch rolls back to what the user already had"
  (`feat/config.rs:314`) does not hold of it. `draft_unclaimed` refutes that line for
  the settings themselves; for the core this is what `inDoubt` and `unsettled` exempt.
* A generation reads drafts other commands have staged; after a refusal as busy
  the runtime's DNS or profile can differ from the committed settings until the
  next update.
* `AutoBackup` sends its settings before its runner subscribes, and
  `watch::Sender::send` without receivers drops the value: the schedule does not
  run until the settings are refreshed again.
* Two backups begun in the same second share one temporary file; an archive made
  while a profile is added may name a profile whose file it lacks; an upload of
  which the move fails after a successful copy is reported failed and leaves an
  archive.
* Leaving lightweight mode while it is being entered: the destroyed window may
  raise `ExitRequested` while the mode says `Exiting`, and the application quits.
  A rate-limited `exit_lightweight_mode` leaves Normal mode without a window.
* `finalize_restored_verge_config` saves before it takes the configuration lock;
  `save_webdav_config` takes none; `WebDavClient` may cache a client made from
  credentials that were reset meanwhile.
* The embedded server: a foreign program on the recorded port that answers every
  request with success, or a primary that is about to quit, accepts a
  notification; the launch leaves with nobody in front.
* `service.rs:1163` says that the lifecycle lock excludes configuration switches;
  a switch that only reloads takes it not. The identity checks of the copy cover
  this.

## 6. Proofs

Eight modules; all obligations are proved by SMT, Zenon and LS4, from the named
assumptions of the component's module and nothing else. TLC evaluates every
assumption in a passing run. A proof module covers the components that one run
checks side by side: `UpdatesProofs` those of `MCUpdates`, `ProfilesProofs` those of
`MCProfiles`, `PartsProofs` and `DesktopProofs` those of `MCParts`,
`DraftProofs` Draft and Timer; Core lifecycle, Run State and Settings have one each. The bounds (`MaxOps`,
`MaxGen`, `MaxCalls` and so on) are constants like the others: the theorems hold for
every value of them.

| Theorem | States | For every |
|---|---|---|
| `CoreLifecycleProofs!OneSidecarCorrect`, `GuardHasCoreCorrect`, `WatchedCorrect` | `OneSidecar`, `GuardHasCore`, `ServiceIsWatched` | platform, set of tasks, processes, sessions, operations, generations |
| `LiveKept`, `StopsClear`, `SessionSurvives` | `LiveSidecarKept`, `StopsAfterClear`, `NewerSessionSurvives` | same |
| `LocksGoOnCorrect` | `LocksGoOn`: what `OperationEnds` rests on | same |
| `RunStateProofs!TypeCorrect`, `SlotCorrect`, `ExclusiveCorrect` | types, one operation, request and allowance exclude each other | set of operations, readings, readers |
| `StaleCorrect`, `RetiredCorrect`, `WakeCorrect` | `StaleReadingNeverWins`, `RequestRetired`, `NoLostWakeup` | same |
| `DraftProofs!RegisterCorrect`, `FailedCorrect` | `ImplementsRegister`, `FailedLeavesNothing` | set of writers, layers and requests with `Apart` |
| `TimerCorrect` | `NeverForgotten`: what `KeepsUpdating` rests on | set of profiles, intervals, edits |
| `SettingsProofs!EffectsCorrect`, `TunCorrect` | `EffectsFollowSettings`, `TunIsReconciled` | set of patches, patchers, reconcilers, Run States |
| `UpdatesProofs!StableCorrect`, `SettlesCorrect` | `StableMeansUnchanged`, counters at rest | set of updaters and readers |
| `OpenCorrect` | `OpenWhenServing` | set of ports |
| `GuardCorrect`, `DisabledCorrect` | `GuardEnforcesConfirmed`, `DisabledStaysOff` | platforms and wishes |
| `SettledCorrect`, `StrayCorrect` | `Settled`, `NoStrayHelper` | set of groups, calls, helpers |
| `ProfilesProofs!DnsCorrect` | `UnconfirmedNeverInEffect` | set of provider sources, restarts |
| `SyncCorrect` | `TornOnlyUnseen` | set of tasks, requests, downloads, sessions |
| `CoalescedCorrect` | `NoRequestLost`: what `RequestsServed` rests on | same |
| `RepairCorrect` | `RepairIsJustified` | set of profiles, groups, nodes, activations |
| `EnhanceCorrect` | `GeneratedRight` | choice of settings, profile, edits and overrides |
| `AgreeCorrect` | `ProfilesAgree` | set of uids, concurrent commands, number of commands and restarts |
| `GoesOnCorrect` | `SomebodyGoesOn`: `CommandsGoOn` without what is enabled | same |
| `PartsProofs!ClearedCorrect` | `ClearedThroughService` | number of guard generations |
| `ApplyCorrect` | `AppliedIsRun` | set of configurations and cores |
| `KeptCorrect`, `ReportedCorrect` | `CoreIsKept`, `ApprovedIsReported` | number of releases, failing renames, crashes, upgrades |
| `PortsCorrect` | `DesiredIsServed` | set of ports, retries, saves, crashes |
| `BundleCorrect` | `BundleUnambiguous` | number of providers, set of addresses |
| `RecoveryCorrect` | `RecoveryJustified` | number of tolerated samples, length of the history |
| `AvailableIsAvailable` | `ProbeSound` | set of addresses, interfaces, ports, foreign sockets, candidate and running configurations |
| `DesktopProofs!ExitCorrect` | `ExitLeavesNoCore` | set of quits and starters |
| `SpacedCorrect` | `BackupsSpaced` | set of savers, interval, schedule |
| `LockCorrect`, `LeavesCorrect` | one holder of the lock, `LeftToPrimary` | set of launches and ports |
| `PageCorrect` | `NoDeadPage` | set of clicks and timers, deaths of the page |

The arguments: what the inductive invariant adds to the property, and why the
property needs it.

* CoreLifecycle (`CoreInv`). A task is a list of steps, so what holds when a step is
  taken is a fact about the list. `May(a, b)` says which step may follow which and
  `Sound` that a list keeps to it, whatever was cut off by `Unwound`; `Cond(t, b)`
  says what a task relies on when `b` comes next: a spawn that no exit is awaited, a
  kill that the proxy was given up, a start that nothing runs. Tasks that hold the
  lock are `Inside`, the others `Outside`, and nobody but the holder changes what
  `Cond` speaks of, except the observers, which `ProxyInv`, `SidecarInv` and `WatchInv`
  account for. `SidecarInv`: the only process that can be alive is the one whose exit
  is awaited, which is `OneSidecar`; an event drain that found a process terminated
  is right about it, which is `LiveSidecarKept`. `WatchInv`: who watches the current
  generation watches the current session, and a recovery that holds the lock still
  has the session it saw; hence `ServiceIsWatched` and `NewerSessionSurvives`.
* CoreLifecycle, the locks (`HeldInv`). A list of steps ends (`Ends`): its last step is
  the one that gives flag and locks back, and neither `Then`, `Skip` nor `Unwound` cuts
  that off, because it is no handler. So whoever holds the flag or the configuration
  lock still works, and the holder of the lifecycle lock works, drains or recovers
  under it. `Inside` says that the holder of the lifecycle lock waits for nothing, and
  the holder of the configuration lock is past it, which is the order of the two;
  with the order swapped in one operation, or with a lock kept on a failing exit, TLC
  refutes `LocksGoOn`.
* RunState. `OneOperation` and `Exclusive` are inductive over the types.
  `StaleReadingNeverWins` needs `Ordered`: a reading in flight was overtaken
  exactly when the counter has moved past its reservation, which turns the code's
  comparison of numbers into the history it stands for. `RequestRetired` needs
  `Held`, which speaks also of an operation whose own re-reading was overtaken:
  whoever overtook it retired the request, or is itself a current reading.
* ConfigEpoch. The flag admits one updater, so depth and parity of the epoch tell
  where it is (`Serial`); the runtime therefore changes only at an odd epoch, and
  an even snapshot taken before a change is strictly smaller than the epoch from
  then on (`Overtaken`). Without `Serial` the first counter's step could be
  overlooked between the two loads of `config_update_is_current`.
* Draft. `DraftsInv` follows each writer through its stages: what it has claimed,
  staged and committed is what its position says, and a layer that two writers in
  play share is held by one of them, by the means they have in common. That is
  the only use of `Apart`; `draft_unclaimed` is what happens without it, and
  MCStores asserts it of the application's own operations. A commit then adds one
  change to a value no one replaced since the draft was made, which is the
  register's action; every other step leaves the committed values alone.
* Settings (`SetInv`). While a patch is applied, a setting that is not in doubt has the
  staged value or, unless an effect has told it (`ToldNow`), still the committed one
  (`Fits`). That holds of what was shown (`ShownFits`), and must also hold of what the
  next start or the failure of an update is going to show, the runtime's draft or its
  committed layer (`HeldFits`), and of what an update under way tells (`UpdateFits`),
  unless a patch crossed it and its settings are in doubt (`CrossedDoubt`); a restart
  finds the draft its own patch has generated, or none (`DraftIsMine`). Every setting a
  patch changes is told by one of its flags, which the mutant of
  `determine_update_flags` breaks. For TUN: a
  misfit that is not known to have failed always has a reconciliation that has yet
  to read, or one that is writing (`Watched`); the one that a coalesced call
  relies on has written TUN off or failed by the time its flag is still up and its
  write is over (`Answers`).
* PacGate. In front of a running core the gate is closed only on the way from one
  mode to another, or in a save that has yet to settle it (`Hidden`), and when that
  save read that no core runs, none does until it moves the switch itself
  (`ReadStands`).
* SysProxy (`SysInv`). The guard's target, running or not, is the confirmed one
  (`GuardSound`), because an update that is about to confirm a target has stopped the
  guard or brings that very target (`CallSound`); an operation that saw the guard stop
  finds it stopped until it ends, so nothing is in flight after a reset that
  disabled the proxy (`OffForGood`).
* AppProxy (`AppInv`). At every step of a start, a change and a stop: whether the
  manager holds a helper (`HeldWhen`), what is left of one it does not hold
  (`NothingLeft`), what a start has loaded (`StartGoes`), and for a helper it holds
  what is recorded, enforced and listened for (`RecordRight`, `HelperRight`,
  `ListenersRight`). `Loads` is the part that is easy to miss: a listener is loaded only
  if it also survives the end of a regeneration by somebody else that has already
  merged. A status call that buries a dead helper may do so between any two steps.
* Timer. A profile's deadline, its update and the report of one are tied to the state of
  its task (a running task has no deadline; one that was edited away while it ran is
  retired), and a task differs from the cached map only while a newer map is on its
  way to the scheduler: in the mailbox, or in the hands of the one refresh between
  caching and sending. The mailbox keeps its order, so the last map in it is the cached
  one.
* DnsOverride (`DnsInv`). Every copy of the setting on its way from the command over
  the draft to the runtime, the one a generation has read included, confirms only what
  was agreed to.
* ProviderSync (`SyncInv`). The file is torn only between the halves of a write, which
  is not loaded then (`CacheInv`). A torn copy has read while a download was not loaded,
  and if times are shown, that download is open for as long as the file's is the one it
  read (`ReadInv`); so it sees the file's time change, or is younger than the load it is
  compared with, or passes as one whose tear the checks could not see.
  Its requests (`CoalescedInv`): the flag is up exactly while some task has been spawned
  that has not begun its first copy, so a request that found the flag up is served by
  that task's copy, which begins after it (`NoRequestLost`).
* Selection. `PlanIsJustified`: a plan departs from the record of a group only where
  two snapshots agree that the node is gone; the record is read again before it is
  replaced.
* Enhance (`EnhanceInv`). What was captured is what the settings say (`Captured`), logs
  are empty until their override runs (`LogsFresh`), and from then on every owned key
  that is off its value is in a log (`Noted`), although logs are replaced.
* Profiles (`ProfilesInv`). The property speaks of two records; what every command may
  still write matters as much. A record is good (`Good`) when it is one in itself, each
  profile it lists has its file, and none of them is still being imported. Good are, at
  every step, the one on disk, the staged one, the one in memory unless a deletion is
  between the removal of the file and its commit, and the copy of every modification
  under way, that of an import with the file it is about to write (`Copies`). The permit
  makes the modification that holds it the only one, the write lock the command that
  deletes or stages (`Locks`), and only a deletion that holds both, and whose copy is on
  disk, removes a file (`Recorded`). `StepKeeps` says once what a step of one command owes
  to the others; each step is then a use of it. Which profiles a changed record lists
  (`PatchRecord`, `AppendRecord`, `ReorderRecord`, `PlanRecord`) rests on lemmas about
  `InsertAt` and `RemoveAt` on any sequence.
  Who waits for whom (`HeldRight`): what is held is held by a command at a step from which
  every way on, failures included, gives it back; a command that holds the write lock
  waits at most for the permit (`LockAt`, `LockOps`), one that holds the permit waits for
  nothing (`PermitAt`), and the flag is only tried.
* Listener (`TakenIsRefused`). A live foreign socket that overlaps a claim and is not
  overlooked refuses its bind, or the bind fails: by the bind itself, by a guard address
  macOS holds meanwhile or by Windows' list
  of listeners, and is found serving, case by case over the platform and the kinds of the
  two addresses (`Meet`). A claim that is dropped for a running core meets a listener of
  that core.
* ProxyGuard (`RouteInv`). Behind an invalidation no loop is current until one is
  started (`Invalidated`), and while the proxy counts as cleared nothing is asked for
  it and no sleeping loop would pass the check (`Quiet`).
* ConfigApply (`ApplyInv`). Up to its first request an update has left core and Service
  alone; after a request without answer, either its bytes are staged or nothing
  changed; a commit finds core and Service at the new configuration, which is the draft
  it commits unless somebody generated into it.
* CoreUpgrade (`UpgradeInv`). `FilesKept`: without a core in its place the displaced
  one is there and not about to be removed; what the rollback link names exists.
  `CopyFollows`: while nothing made them differ, the file and the Service's copy agree
  until publication and again once the copy is accepted, and in between the way back
  leads to what the Service has.
* Ports (`PortsInv`). The start-up moves the port alone (`OneMover`); while a port is
  staged, it and the one to go back to are both known (`RuntimeFollows`); the core
  serves the runtime's port or the one a save restarted it with (`ServedFollows`).
* RuntimeBundle (`BundleInv`). After the resolution, two downloads of different
  addresses on one file are on a local provider's file or outside (`Resolved`). That
  the derived names do not collide is an induction over the order of declaration,
  made with `LeastNumber`: a set of numbers that is not empty has a least member.
* OwnerWatch (`MonitorInv`). The two counters against the whole history: the unreadable
  samples at its end are a number of whole tolerated runs and the counter's rest
  (`Trailing`), and since the last status that found a core as many found none as the
  other counter says (`GoneSince`). `Remainder` then turns the counter that starts
  again into the property's `%`.
* Shutdown. With the exiting flag up, the core has stopped for good or a quit
  still sees to it (`SeenTo`); a committed exit has stopped it (`CommittedStopped`);
  the lock keeps a quit's stop and a start apart (`UnderExitLock`).
* Backups. The automatic ones work under `exec_lock` (`UnderLock`) and compare
  with the end of the last one (`LastKnown`); what the second look found stays true
  until the archive is named, as the clock does not go back (`StillDue`).
* Singleton. Whoever is at a step that only the holder of the lock reaches is the
  holder (`OneHolder`), and a server that accepts a launch's command belongs to
  such a process.
* MainWindow (`PageInv`). A dead page that was not forgotten is still to be noticed, to
  be loaded again or marked, or has failed to load, and a mark does not outlast the
  focus a shown window gains.

The assumptions. Most only say that bounds are numbers and that a model value for
"nobody" is nobody's. Those with content: the participants of the lifecycle lock have
identities of their own (`IdentityAssumption`) and observers are the monitor and the
log requests (`ObserversAssumption`); ports are not 0 and an address of the host is
neither a wildcard nor a loopback address nor one of the model's other words, and is of
one family (`ListenAssumption`); 0 is not a configuration (`ConfigsAssumption`); patches are
of the three settings (`PatchesAssumption`); a group `Primary` exists; a profile's confirmation
is told apart from none (`NoSourceAssumption`); at least one sample must be bad before
a recovery (`WatchAssumption`); and `Apart`, which is a hypothesis of the two theorems on
Draft and is asserted of the application's operations by MCStores.

Only model-checked: the liveness properties, because fairness is beyond the proof
system, and the part of `CommandsGoOn` that speaks of what is enabled. Of
`OperationEnds`, `KeepsUpdating` and `RequestsServed` the safety each rests on is proved
(`LocksGoOn`, `NeverForgotten`, `NoRequestLost`; these three are not properties of a run);
of `CrashIsNoticed` nothing is. It needs that whoever leaves the Sidecar mode also
gives up its process, which is a fact about whole lists of steps that `May` and `Cond`
do not keep.

## 7. Not modelled, and left to do

Abstractions that matter:

* One provider of two chunks (ProviderSync). Two versions of the file are taken to be of
  one length, so that a change of length gives no copy away; a write that the core's end
  breaks off counts as a version of its own, whole, which the next core loads or not;
  the clocks of core and file system agree and do not step.
* A TCP socket that is bound without listening, and a socket that serves both families
  at once, are not among Listener's foreign sockets.
* The exit code of a helper, where the code asks for it, is taken to be answered
  correctly, and a helper that resisted its kill and gives the API port up afterwards is
  not followed (AppProxy).
* The configuration a start-up falls back to, a port save's own writes of the runtime
  layer (Ports has them) and `change_core` (Draft has it) are left out of Settings and
  ConfigApply; the start-up's reconciliation is one more caller of
  `disable_tun_and_persist`. ConfigApply leaves out the TUN a Windows sidecar goes
  without, which Settings has.
* `apply_service_status` records and reports a status that asks for no privileged action;
  all its callers pass one that does, so RunState has no such branch.
* A `profiles.yaml` that cannot be read counts as no profiles, as in the code
  (`NoProfiles`, `ReadProfiles`): what is in memory then is the default.
* A request to the Service that timed out in the application does not land later
  (ProxyGuard). In ConfigApply and AppProxy it may have been carried out.
* The rate limiter (`crates/clash-verge-limiter`) enters as "may refuse".
* The clock does not go back (Backups); the last backup's time is not kept over a
  restart, in the code as in the model's single session.
* Rules and their edits, built-in scripts and key case (Enhance); the WebDAV
  client; subscription headers; restarts of the core that the start-up fallback
  races are exempt in Ports.
* `CoreManager::init`'s retries, cache removal, notices and texts.
* Operations of the vendored helper and the privileged service beyond what the
  application's calls show.

Not modelled at all, with the reasons in PROJECT.json: user interface, tray and
hotkeys, notifications' wording, owner credentials, logging, localisation,
start-up and file I/O, the testing update channel, vendored and generated code.

What would add most next: the clash layer's unlocked writers (`patch_clash`,
`change_clash_mode`) as operations of Draft, with a proof that `Apart` is also necessary;
the safety that `CrashIsNoticed` rests on; type invariants for the modules whose proofs
keep only the shape they need.
