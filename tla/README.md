# TuxInDrive in TLA+

TuxInDrive synchronizes local folders ("mappings", `SyncJob`) with cloud
accounts.  It drives `rclone` child processes, native Git and Proton code, and
peer shares, from a GTK desktop, a headless agent or an Android application.
This directory models the part that decides *when* something is transferred,
*whether* it may be, and *what is said about it afterwards*.

All paths below are under `src/src/tuxindrive/` unless they say otherwise.
`PROJECT.json` maps each definition to its source lines.

Contents: 1 inventory, 2 plan, 3 modules, 4 runs and bounds, 5 fairness,
6 proofs, 7 disagreements found, 8 other behaviour observed, 9 what is not
modelled.

## 1. Inventory

### Synchronization core

**Transfer gate** (`bandwidth.py`, `GlobalBandwidthController`).
State: `_available_slots`, the deque `_waiters` of `(token, priority, count)`,
one condition variable; beside it a byte-rate clock and two plain locks.
Operations: `guard(exclusive, priority, timeout)`, `throttle_*`, `configure*`.
Every transfer, provider scan and native run passes through `guard`.
Hard: admission notifies nobody; a deadline races with a free slot; an
exclusive request needs every slot at once; priorities may starve.
Correct when: slots are conserved, an exclusive transfer is alone, nobody
overtakes, no wakeup is lost, a timed request is answered.

**Sync engine bookkeeping** (`engine.py`, `SyncEngine`).
State under `_lock`: `_active_jobs`, `_waiting_jobs`, `_cancelled_queued_jobs`,
`_incremental_jobs`, `_processes`, progress, and mount flags.  Operations:
`run_async`, `_run_bounded_worker` (a thread), `cancel`, `_apply_incremental`
(called by monitor threads), `start_callbacks`, `stop_callbacks`, mounts,
`shutdown`.  Hard: tables are read and written by four kinds of threads, the
process table lags behind the processes, exits leave from many places.
Correct when: one thread at a time works for a mapping, every process runs
under a slot, a queued cancellation that was promised is kept, nothing stays
in a table.

**Full run** (`engine.py`, `_run_worker` and its helpers; `reliability.py` for
the mass-change verdict).  State: bisync listings and locks on disk, the day's
log, the process.  It recovers bisync state, asks for peer leases, runs a
safety preview, starts rclone, watches its output, verifies, renames duplicated
cloud objects and calls itself again.  Hard: exit codes with several causes, a
log shared by attempts, state carried from attempt to attempt.  Correct when:
green means verified, nothing deletes unpreviewed, repeats are bounded.

**Desktop controller** (`app.py`, `models.py`).  State: `config.jobs`
(`enabled`, `initialized`, failure signature and count), GLib timers, the idle
queue.  Operations: scheduler tick, sync now, stop, the row's switch, edit,
remove, `_apply_job_result`, monitor restarts, profile restore.  Hard: results
arrive after edits, queued callbacks hold old job objects, monitors outlive
`stop_callbacks`.  Correct when: verdicts that pause take effect, one monitor
watches the current endpoint, an enabled mapping is served.

**Change monitor** (`callbacks.py`).  A thread per mapping: inotify events and
remote scans, baselines of both sides, changes put off after a failure, a
listing cache shared by all monitors, incremental apply through the engine or
a request for a full run.  Hard: the refresh after an apply absorbs concurrent
edits; the monitor sees the echo of its own writes; batches fail halfway.
Correct when: a save is applied, put off or handed to a full run, nothing unseen
is replaced, and no echo is taken for a save.

**Files-on-demand mounts** (`engine.py` `start_mount`, `stop_mount`,
`_watch_mount`, `recover_stale_mounts`; `cache_manager.py`).  A process per
mount, a watcher thread, flags for intended unmounts, retries from `app.py`;
cache eviction beside writers.  Correct when: an intended unmount is not
retried, a lost one is (three times), what is kept offline is in the cache, no
dirty cache file is evicted, and the file manager's last request counts.

### Other controllers and services

**Headless agent** (`server.py`): scheduler thread and HTTP handlers over the
same engine.  It interprets results differently from the desktop (it sets no
`initialized` and pauses on no verdict).  Correct when: the thread survives
refusals, a pause that was shown is kept, and no request or relay slot is lost.

**Collaboration server store** (`server_store.py`, `server_admin.py`): SQLite
with quotas, expiry, one shared connection (an open transaction is everybody's)
and a cache of usage.  Correct when: usage equals the sum of rows, and what was
answered as stored is on the disk.

**Peer shares** (`peer.py`, `tor.py`): served shares with a watcher per process,
edit leases on a remote, one-time drops, delta transactions.  Correct when: a
lease has one owner, a restart is not undone by the old watcher, a drop is
consumed once and whole.  (A late watcher can take the record of the next server:
section 7.)

**Delta transfer** (`delta.py`): block signatures and patches, a pure algorithm.

**Recovery index** (`recovery.py`, `recovery_advisor.py`): an append-only file
with pruning rewrites and restore.  Correct when: what was archived and replaced
has a version.

**Configuration, migration, secrets** (`config.py`, `migration.py`,
`security.py`): atomic replacement of files; restore across several stores, and
an engine built anew for what was restored.

**Collaboration** (`collaboration.py`): operations with actor counters, merged
in any order.  Correct when: replicas with the same operations agree.

**Native providers** (`proton.py`, `github_sync.py`): state files and three-way
decisions of their own, while users and other devices go on editing.  Correct
when: a failure or stop between transfer and state save loses nothing.

**Accounts and the rclone adapter** (`rclone.py`, `app.py`): wizards, one
authorization process and one record of it, discovery at start-up, Proton's
login, the encryption of `rclone.conf`.  Correct when: one authorization runs at
a time and somebody can stop it, what is listed was authorized, and rclone can
decrypt its configuration.

**Updater and bootstrap** (`updater.py`, `update_helper.py`, `bootstrap.py`):
checks, downloads, an installer and a privileged helper; the program's own copy
of rclone.  Correct when: nothing that is not whole is started or installed.

**Policy and scheduling** (`policies.py`, `scheduling.py`): pure decisions.
**Search index** (`search_index.py`): refreshes of all mappings or of one, in one
transaction each, up to a limit.  **Audit and traffic** (`audit.py`,
`network_usage.py`), diagnostics, user interface, packaging, and the **Android application** (`MobileSyncWorker.kt` and others), which is a
program of its own.

### How the core interacts

    user, scheduler ──run_job──▶ SyncEngine.run_async ──thread──▶ guard ─▶ _run_worker
         ▲                             ▲    │ cancel                          │
         │ GLib.idle_add               │    ▼                                 │ callback
         └───── _apply_job_result ◀────┼── results ◀──────────────────────────┘
                     │ restart         │ _apply_incremental ─▶ guard
                     └──────────▶ ChangeMonitor thread ── reconcile ─▶ idle queue ─▶ run_job

The other parts of the desktop (drives, shares, indexes, accounts, updates, ...)
share no state with this core or with each other that is not part of their own
module; `Desktop` composes them by letting one of them run and the others rest.

The hazards, each at its line, are in `PROJECT.json`; the properties were
chosen for them, and a hazard without one says why.

## 2. Plan

Done, in this order:

1. `TransferSlots` (abstract) and `BandwidthGate`, which implements it.
2. `JobMutex` (abstract) and `SyncEngine` over `TransferSlots`, which implements it.
3. `FullRun`: one run, shown to be one worker of `SyncEngine`.
4. `JobController`: the desktop above engine and monitors.
5. `ChangeMonitor`: the monitor with its data.
6. `ServerStore`, `ServerRequests`, `HeadlessAgent`, composed by `Server`.
7. The desktop's other parts, each a module, composed by `Desktop`:
   `Collaboration`, `PeerShares`, `PeerUploads`, `ProtonSync`, `Mounts`,
   `OfflineCache`, `RecoveryIndex`, `GitSync`, `SearchIndex`, `Updates`,
   `RcloneInstall`, `Accounts`, `ProtonLogin`, `ConfigSecurity`, `Profiles`,
   `DriveRequests`.
8. Theorems about every module (section 6).

Left: what section 6 calls only model-checked, and what section 9 lists.  Worth
doing next: an abstract specification of a mapping's convergence that
`ChangeMonitor` and `FullRun` together implement; the server's cursors;
one-time drops of virtual drives in the controller.

## 3. Modules and the code

| Module | Models | One action is |
|---|---|---|
| `TransferSlots` | promise of `guard` | take one slot, take all, give back |
| `BandwidthGate` | `guard` | one critical section of the condition variable |
| `JobMutex` | "one thread per mapping" | enter, leave |
| `SyncEngine` | `run_async`, worker, `cancel`, incremental transfers, scans | one critical section of `_lock`, or a step outside it another thread can observe |
| `FullRun` | `_run_worker` of one run, all its attempts | one decision, process event or outcome |
| `JobController` | GTK main loop for one mapping, engine threads seen from it | one handler, or one step of a thread |
| `ChangeMonitor` | the monitor's loop and `_apply_incremental`, on files | reading events or a listing, one file's transfer, a refusal, the refresh |
| `ServerRequests` | accepting thread, handler threads, semaphores and counts | taking or returning a semaphore, changing a count |
| `ServerStore` | SQLite store with quota, expiry and usage cache | one method under the store's lock |
| `HeadlessAgent` | scheduler, results, pauses | one step of the scheduler's pass over the jobs, one result |
| `Server` | the three above, with requests and their answers | one call, one answer, an answer lost, a restart |
| `Mounts` | start, watcher, stop and retries of a drive, stale mounts | a step of a thread between two that others can observe |
| `OfflineCache` | rules, pins, release, eviction beside rclone's cache | one file's step of such a thread |
| `DriveRequests` | the file manager's requests and badges | one request, one thread's end, a mount, a loss |
| `PeerShares` | servers, drops, tunnel and watchers of a share | one process or record changed |
| `PeerUploads` | edit leases and delta transactions | one read or write of lease, transaction, target |
| `ProtonSync` | a run of Proton's client with its state file | one listing, one file's transfer, the comparison |
| `GitSync` | `_run_git_sync` | one git command and how it ends |
| `RecoveryIndex` | archive, index, prune, restore | one read, append or replacement |
| `SearchIndex` | refreshes of all or of one mapping | one file visited, the commit |
| `Updates` | check, dialog, download, installer, helper | one step of a thread; a loss of power |
| `RcloneInstall` | `install_rclone` | look, write, move |
| `Accounts` | wizards, authorization processes, start-up, removal | one step of a thread or dialog |
| `ProtonLogin` | dialogs, their threads, Proton's session | one step of a thread or dialog |
| `ConfigSecurity` | `_ensure_config_security` | one read or write |
| `Profiles` | store, restore, saves of the configuration | one file replaced |
| `Collaboration` | `TextCRDT` and the editor | one handler, one operation file delivered |
| `Desktop` | the sixteen parts above | a step of the one part the behaviour is of |

The code of each definition is in `PROJECT.json`, "map".

`BandwidthGate`.  `pc` is where a thread stands: *asleep* in `Condition.wait`,
*ready* when notified or timed out but without the lock, *holding* between
admission and `finally`.  `EnterAndGo`/`EnterAndWait` are the append and the
first pass of the loop, `Admit`/`GiveUp`/`SleepAgain` a later pass, in the order
the code tests (admission before deadline).

`SyncEngine`.  The tables keep their names without the underscore.  `worker[w]`
runs from `queued` over `admitted` (slot obtained, lock not yet retaken),
`preparing`, `previewing`, `launching`, `spawned` (the process runs, the table
does not show it), `running`, `exited`, `finished` to `unwinding`, `released`.
The signal `cancel` sends is no state: a process may end at any time.  `dropped`
and `reported` are history variables for two properties.

`FullRun`.  rclone is the environment.  The log is the set of *markers* the code
searches for, split as the code splits it: this attempt's part (`log`, from
`run_log_offset`) and whether the rest of the day's file says a resync is needed
(`today`).  Of that part the code reads the first 4 MiB for duplicates, the last
8 MiB for stale and corrupt state, and of the day's file the last 64 KiB for a resync:
`lateDuplicate` is a duplicate logged after the first 4 MiB, and `LogGrows`
prints so much that earlier lines leave the parts read at the end.  The final
comparison of listings is `sides` (*unknown* when no listing can be parsed, which
the code accepts).  `GreenIsVerified` therefore claims a comparison of what could
be read, and no more.  Its interplay with the tables is `SyncEngine`'s;
`FollowsEngine` ties the two together with a refinement mapping.

`JobController`.  Handlers of the main loop are atomic, except that `run_job`
may wait two seconds in `stop_callbacks`: `loop` holds the version it is about
to start.  A *version* is an endpoint of the mapping: editing one makes a new
object with the old id.  `idle` is the GLib idle queue.  `full` and `monitor`
are what `SyncEngine` details; `full` stays until the reservation ends, after
the callback.  `review` is a history variable.

`ChangeMonitor`.  A file is its version, a fresh number for each save, 0 for no
file.  `disk` and `cloud` are the world; `local`, `remote` the baselines;
`locals`, `remotes` what this iteration found; `deferredLocal`,
`deferredRemote` what an earlier one put off; `left` what is still to be
transferred.  `dirty`, `theirs`, `unseen` and `blind` are history: whose change
has not yet crossed, and where the code cannot know of one (a save over a
download in progress, a file changed between listing and transfer, the restart
of a mode that compares nothing, or one that finds rclone's listing missing or
unreadable and takes the tree it finds in its place: `StartFromListings`).  `handed`
says that a full run of a two-way mapping has left its listings for the next
monitor (`StartAfterRun`).  A full run is one step here.

`Server`.  A row's identity is its table, tenant and key; an object's content
and a body are their size.  `saved` is the disk, `rows` what the shared
connection sees.  `answered` is history: what a client was told is stored and
nobody acknowledged or replaced since.  A row whose commit failed stays in the open
transaction (`rows` without `saved`), a replaced envelope's too.  `miscounted` are
the tenants counted down twice (section 8): of them is claimed only that the
cache never has more than their rows take.

Parts of `Desktop`.  History variables mark what section 8 describes: once the code
has done that, the property of the part claims nothing more of what is marked, or
of the part.  They are named here because they are what the properties do *not* say:

| Part | Not claimed |
|---|---|
| `PeerShares` | anything once two threads stop and start at once (`overlapped`); of a server without a record, that it is ended (`unrecorded`: section 7) |
| `PeerUploads` | who uploads at once, after two raced for a lease (`raced`); what is assembled is claimed throughout |
| `ProtonSync` | versions saved during a run (`wanted` has those saved between runs) |
| `Mounts` | anything once a thread met another mount's flag or record (`misled`) |
| `OfflineCache` | anything once two changes of rules overlapped (`crossed`); an object pinned after eviction read the pins, or released with a path that ends alike (`taken`); a write after eviction's last look (`written`) |
| `DriveRequests` | paths of which a request met its opposite waiting or at work (`unheard`); the badge after half a release (`halfReleased`) |
| `RecoveryIndex` | the line of a restore's version appended while a prune holds an older index (`dropped`; its file is claimed); what came to the file after a thread archived it (`outrun`) |
| `GitSync` | edits made during a rebase (`undone`); who deletes, after a first checkout was cut off (`cutOff`) |
| `SearchIndex` | rows of a mapping that the refresh's list has or lacks wrongly (`right`); texts that a limited walk did not come to (`left`) |
| `Updates`, `RcloneInstall` | outside Linux, after two downloads at once (`doubled`); after two threads installed at once (`shared`) |
| `Accounts` | wizards closed before there was a process, or during their check (`early`, `unasked`), old lists (`revived`), removals cut off (`halfRemoved`), authorizations that outlive the program (`outlived`) |
| `ProtonLogin` | logins whose cancellation came too early or was taken back (`missed`), dialogs closed after their login (`tooLate`), logins that outlive the program (`strays`) |
| `ConfigSecurity` | while another thread has encrypted and not yet marked; for good when that was cut off (`unmarked`) |
| `Profiles` | anything but one transfer once two operations ran at once (`atOnce`); keys after a restore was cut off between two files (`tornApart`); what was replaced, when something was saved meanwhile (`meanwhile`); one transfer, after an engine was replaced during one (`abandoned`); the destination of a backup at work or failed (`destinations`) |

Everything before it, and all that does not meet it, is claimed.

Operators whose comment begins with "(Mutant)" are deliberate bugs: no action
uses them.  Each property of a passing run names one in `PROJECT.json`, and the
run fails when it replaces the original; so no property is vacuous.

## 4. Runs, bounds and what they show

| Run | Config | Shows |
|---|---|---|
| `gate` | `MCBandwidthGate.cfg` | `QueueMatchesThreads`, `IdleGateIsNotAsleep`, `NoOvertaking`, `TimedRequestsAnswered`, `OnlyPriorityStarves`, implements `TransferSlots` |
| `engine` | `MCSyncEngine.cfg` | `ProcessesHoldSlots`, `QueuedCancelHonoured`, `NothingLeaks`, `AcceptedRunEnds`, implements `JobMutex` |
| `engine_reports` | `MCSyncEngineReports.cfg` | violation: a run that ends without its callback |
| `fullrun` | `MCFullRun.cfg` | `GreenIsVerified`, `NoUnguardedDeletes`, `ResyncHasReason`, `RunEnds`, `FollowsEngine` |
| `fullrun_stale` | `MCFullRunStale.cfg` | violation: the program's own stop reported as cancelled |
| `controller` | `MCJobController.cfg` | `MonitorWatchesCurrent`, `VerdictPauses`, `EnabledIsServed`, `PausedGoesQuiet` |
| `monitor` | `MCChangeMonitor.cfg` | `SavesKept`, `NoLostUpdate`, `OnlySavesGoUp`, `ChangesSettle` |
| `monitor_cache` | `MCChangeMonitorCache.cfg` | violation: a file removed by an outdated listing |
| `server` | `MCServer.cfg` | `SlotsMatchConnections`, `StorePromises`, `PausesAreKept` |
| `desktop` | `MCDesktop.cfg` | one property for each part: `DocumentsAgree`, `SharesAreHeld`, `PeerEditsAreWhole`, `ConflictsKeepBoth`, `MountsAreTended`, `OfflineIsKept`, `ReplacedHasVersion`, `GitKeepsWork`, `SearchIsExact`, `InstallsAreVerified` (updates and rclone), `AccountsAreUsable` (accounts, Proton's login, encryption), `ProfilesAreWhole`, `RequestsAreHeard` |
| `share_drops` | `MCDesktopDrops.cfg` | violation: a used drop goes on being served by a server without a record |
| `collab_typed` | `MCCollaborationTyped.cfg` | violation: a merge moves what the user typed |

Types are proved (section 6) and therefore in no run.

Bounds:

- `gate` (about 3 thousand states): `MaxActive = 2` and three threads; fewer
  slots than threads, so queues of each order arise, and more than one slot, so
  an exclusive request has to collect them.  `MCRequests` are three kinds of request:
  an AI backup's full run (priority 0, deadline), a native full run (exclusive,
  deadline) and an incremental transfer or scan (no deadline).
- `engine` (about 57 thousand): two mappings; one has two full-run threads and
  two monitors, so that every pair that must exclude each other exists; the
  other competes for the two slots.  `MaxRepeats = 1`: a repeat and the refusal
  of a second.  The code's bound is that of `fullrun`.
- `fullrun` (about 557 thousand): every admissible combination of mode,
  `initialized`, protection, AI backup, leases and dry run (`MCKinds`; a
  combination that `models.py` cannot produce is left out).  `MaxDuplicates = 2`
  for the code's 5, `StaleLimit = 2` for its 10: the counters are only compared
  with their limits, so 0, between and at the limit are all there.  `refreshes`
  keeps the code's limit, 1.
- `controller` (about 309 thousand): `MaxVersion = 2` endpoints, two monitor
  instances (the new and one zombie; a restart waits for a free one),
  `FailLimit = 2` for the code's 3, `MaxIdle = 1` queued callback of each kind.
- `monitor` (about 449 thousand): two files, of which one exists at first, and
  two changes by users (`MaxWrites = 2`), two-way and download-only with inotify and
  upload-only with polling.  The safety theorems hold of every other setting,
  two-way with polling among them; `ChangesSettle` is checked of these three.  Two changes are the least that can conflict, be absorbed by a
  refresh, or meet a listing older than an upload; two files the least with
  which a batch can be half applied.
- `server` (about 922 thousand): three connections, two of one address, two of
  one tenant; two request and relay slots, of which a source and a tenant may
  have one; `Quota = 3` for bodies of 1 and 2; one restart.  `Scenarios` are the
  roles that are switched on, the clients that come and up to two rows each:
  requests of different roles meet in the slots only, so one storage role at a
  time suffices, with two connections of one tenant where rows are replaced or
  acknowledged.  The clock counts half minutes, so that the purge interval and
  the shortest life are two, and runs to 3: a row may live, have expired
  unpurged, and be purged.
- `desktop` (about 542 thousand): one part at a time; the sizes are those of
  `MCDesktop`: two of whatever competes (editors, uploads, threads that
  index, that install rclone, that run rclone, wizards, dialogs, mounts), the least
  with which the code's races occur, and limits of one or two, so that below, at
  and above the limit arise.  `Followed` leaves the states out in which a
  history variable of section 3 already says that nothing is claimed.
  `Bounded`, `EarlyWizardsEnd`, `LoginsEnd` and `ProfilesEnd` bound the run:
  four operations of a document, fewer saves in the directions and modes that
  can lose least, one block of its own for each device, and no second round of
  a wizard, login or profile after its first has gone wrong in the way the
  name says.

`CHECK_DEADLOCK FALSE` is set where the system may stop: a run that has ended,
a mapping that was removed, users who do nothing more.

## 5. Fairness

- Gate: a notified thread gets the lock, a deadline passes, a transfer ends.
  Nothing obliges a thread to enter.  Ending is the engine's part: no-progress
  stop and `subprocess` timeouts, and processes that obey SIGTERM (there is no
  SIGKILL; a process that ignores SIGTERM is a listed hazard).
- Engine: each worker goes on.  Monitors need none for `AcceptedRunEnds`,
  because a queued run has its ten-minute deadline.
- Full run: the thread goes on and the process it waits for ends.
- Controller: `run_job` returns; the main loop gets to its idle callbacks
  between timers (strong fairness, since a timer or user handler may be in the
  way again and again); a run ends; a monitor's scan, transfer or wait ends;
  and a mapping that stays due and idle is at some time allowed by the policy.
  The user owes nothing.  `EnabledIsServed` therefore means "as far as the
  policy lets it".
- Monitor: the loop goes on (weak fairness); a provider that is asked again and
  again at some time lists, and a transfer that is tried again and again at some
  time succeeds (strong fairness, since failures are in between).  Users, the
  service manager and full runs owe nothing.
- Server and desktop: none; their properties are safety.

## 6. Proofs

TLAPS checks, for every value of the constants:

| Theorem | Module | Says |
|---|---|---|
| `TypeCorrect` | `BandwidthGateProofs` | types of the gate |
| `SlotsAreAccounted` | `BandwidthGateProofs` | free and held slots add up |
| `QueueHoldsWaiters` | `BandwidthGateProofs` | `[]QueueMatchesThreads` |
| `NoWakeupIsLost` | `BandwidthGateProofs` | `[]IdleGateIsNotAsleep` |
| `NobodyOvertakes` | `BandwidthGateProofs` | `NoOvertaking` |
| `GateImplementsSlots` | `BandwidthGateProofs` | the gate implements `TransferSlots` |
| `TypeCorrect` | `SyncEngineProofs` | types of the engine |
| `ProcessesStayInGate` | `SyncEngineProofs` | `[]ProcessesHoldSlots` |
| `CancelKeepsPromise` | `SyncEngineProofs` | `[]QueuedCancelHonoured` |
| `NothingIsLeftBehind` | `SyncEngineProofs` | `[]NothingLeaks` |
| `EngineImplementsMutex` | `SyncEngineProofs` | the engine implements `JobMutex` |
| `MutexExcludes` | `SyncEngineProofs` | two threads inside one mapping's mutex are the same |
| `TypeCorrect` | `FullRunProofs` | types of a run |
| `DeletesAreGuarded` | `FullRunProofs` | `[]NoUnguardedDeletes` |
| `ResyncIsJustified` | `FullRunProofs` | `[]ResyncHasReason` |
| `GreenIsJustified` | `FullRunProofs` | `[]GreenIsVerified` |
| `RunFollowsEngine` | `FullRunProofs` | `FollowsEngine`, step by step |
| `TypeCorrect` | `JobControllerProofs` | types of the controller |
| `OneMonitorGoesOn` | `JobControllerProofs` | `[]MonitorWatchesCurrent` |
| `VerdictsArrive` | `JobControllerProofs` | `[]VerdictPauses` |
| `TypeCorrect` | `ChangeMonitorProofs` | types of the monitor |
| `SavesStayKept` | `ChangeMonitorProofs` | `[]SavesKept` |
| `NothingUnseenIsReplaced` | `ChangeMonitorProofs` | `NoLostUpdate` |
| `DownloadsStayDown` | `ChangeMonitorProofs` | `OnlySavesGoUp` |
| `RequestTypes` | `ServerProofs` | types of connections and slots |
| `SlotsMatch` | `ServerProofs` | `[]SlotsMatchConnections` |
| `PausesHold` | `ServerProofs` | `[]PausesAreKept` |
| `AnswersStayStored` | `ServerProofs` | `[]AnsweredIsStored`, half of `StorePromises` |
| `StoreKeepsPromises` | `ServerProofs` | `[]StorePromises` |
| `RcloneStaysWhole`, `UpdatesStayVerified` | `ProgramProofs` | the two halves of `InstallsAreVerified`, of the parts alone |
| `AccountsStayAuthorized`, `ProtonStaysSignedIn`, `RcloneDecrypts` | `ProgramProofs` | the three parts of `AccountsAreUsable`, of the parts alone |
| `InstallsStayVerified` | `DesktopProofs` | `[]InstallsAreVerified` |
| `AccountsStayUsable` | `DesktopProofs` | `[]AccountsAreUsable` |
| `RequestsStayHeard` | `DesktopProofs` | `[]RequestsAreHeard` |
| `ProfilesStayWhole` | `DesktopProofs` | `[]ProfilesAreWhole` |
| `ReplacedKeepsVersion` | `DesktopProofs` | `[]ReplacedHasVersion` |
| `OfflineStaysKept` | `DesktopProofs` | `[]OfflineIsKept` |
| `SearchStaysExact` | `DesktopProofs` | `[]SearchIsExact` |
| `PeerEditsStayWhole` | `DesktopProofs` | `[]PeerEditsAreWhole` |
| `MountsStayTended` | `DesktopProofs` | `[]MountsAreTended` |
| `SharesStayHeld` | `DesktopProofs` | `[]SharesAreHeld` |
| `BothVersionsStay` | `DesktopProofs` | `[]ConflictsKeepBoth` |
| `GitStaysSafe` | `DesktopProofs` | `[]GitKeepsWork` |
| `DocumentsStayAgreed` | `DesktopProofs` | `[]DocumentsAgree` (of the part alone: `DocumentsStayOrdered` in `ProgramProofs`) |

Every invariant that a passing run checks is stated by one of them.  What such an
invariant leaves out (sections 3 and 8) its theorem leaves out, too; the comment
above each theorem says so.

Assumptions on the constants, each in the module that declares them and each
evaluated by a run: `GateAssumption` and `EngineAssumption` (at least one slot,
well-formed requests; workers and monitors differ and have jobs),
`RunAssumption`, `ControllerAssumption` and `MonitorAssumption` (limits are
numbers, special values are no paths or threads), `RequestsAssumption` (finitely
many connections, each with a source and a tenant), `AgentAssumption` (a job is not named
like a state of the scheduler), `StoreAssumption`
(positive sizes, clamped times to live), and for the parts of the desktop
`UpdatesAssumption`, `AccountsAssumption`, `LoginAssumption`,
`RecoveryAssumption`, `UploadsAssumption`, `MountsAssumption`,
`SharesAssumption`, `GitAssumption`, `CollabAssumption`: bounds are numbers, a
retention is at least a day, a device is not a drop, writers are numbers from 1
on (`ROOT` is no operation) and the file first opened is a text.  Connections and a mapping's files must be finite;
that the gate's holders are finite is part of its invariant.

### The inductive invariants, and why the properties alone are not inductive

*Gate.*  `IInv == TypeOK /\ IsFiniteSet(Holders) /\ SlotsAccounted /\
ExclusiveAlone`.  Cardinalities may be added to only when the set is finite, and
`SlotsAccounted` alone does not say that the exclusive holder counted is the
one that releases; `ExclusiveAlone` does.  The queue's properties rest on lemmas
about what is left of a sequence when one element is removed; `NoOvertaking` on
the queue holding each waiting thread once.

*Engine.*  `IInv == TypeOK /\ Reservations /\ SlotsHeld /\ Promises`.
`Reservations`: the two tables are exactly the jobs of the threads between
reservation and release, disjoint, one thread for each.  `SlotsHeld`: `holding`
is exactly the threads at certain places.  `Promises`: a run past the queue is
not in `waiting`, and a promise not yet looked at is still in `cancelled`;
without the first, a later `cancel` could promise what cannot be kept.
`Tables` says the same of the process table for `NothingLeaks`.

*Full run.*  `IInv == TypeOK /\ Patient /\ Unended /\ Reasons /\ Looked /\
Listed`: what an attempt has looked at when it decides, why it resyncs, and that
a run whose verdict stands does nothing more.  The refinement needs `Repeated`
besides: how many attempts the engine has seen.

*Controller.*  `IInv == TypeOK /\ Versioned /\ MonitorWatchesCurrent /\
VerdictPauses`: what is queued is of a version that exists, so a callback that
comes late meets the version it was made for or a newer one.

*Monitor.*  `IInv == Basis /\ \A p \in Paths : DirtyKept(p) /\ ForeignSeen(p) /\
Taken(p)`.  `Basis` ties a change to the version it was read from, through
iterations, deferrals and half-applied batches; `DirtyKept` names the place
where a save waits, finer than `SavesKept` does; `ForeignSeen` says when the
monitor has another device's version in its baseline; `Taken` what a transfer
that has been chosen will take.  Trying to prove them showed that an earlier
form of the history variables forgot a change while a batch was half applied;
they were made exact, and the runs repeated.

*Server.*  `Slots` counts connections by the places they stand at; `Weight`
reduces each of the thirteen steps to what leaves and enters a place
(`GoingKeepsSlots`).  A release cannot take a count below zero, as the
connection itself is counted.  `Paused`: a paused job is not about to be started
again, unless the scheduler decided before.  `StoredInv`: what was answered is
in the tables and on the disk, and what is *about to be* answered is in the
tables.  The attempt to prove the latter failed for two connections of one
tenant: an envelope can be replaced, or mail acknowledged, between its
insertion and its answer.  The model's `answered` now leaves such rows out
(`Withdrawn`), and two scenarios of the run were added in which it happens.
`UsageInv`: for a tenant whom no reservation counted down twice
(`miscounted`), the cached usage is the sum over its rows and fits the quota, and
for every tenant it is no more than that sum;
the same sum over what is on the disk fits as well, or a restart would read more
than the quota allows; sizes are positive, rows finite and keys new.  The sum
folds over a set in an order that `CHOOSE` decides.  That the order does not
matter is again induction by smallest counterexamples (`SumsAgree`, `SumExists`,
`BytesRemove`); `BytesAdd`, `BytesSplit`, `PurgeCounts`, `CountedCounts` and
`ReserveCounts` then follow what an insertion, a replacement and a purge do.

*Updates and rclone.*  `UpdatesInv`: one download works at a time until the
dialog has been enabled twice (`doubled`), and only whole packages get past the
check.  `RcloneInv`: whoever is alone has the `.new` file to himself.

*Accounts.*  `AccountsInv`, `LoginInv`, `SecurityInv`: which wizard or dialog
may have a process, which one the shared record names, and when
the environment names the helper that decrypts.

*Drives.*  `RequestsInv`: for each path, where the last request has got to
(`WishOf`).  `CacheInv`: what a change of one rule has yet to pin or free, and
that the object eviction is about to remove was clean and unpinned when read.
`MountsInv`: one thread starts at a time, records and processes fit, and each
lost drive is waited for (`Tended`).

*Shares.*  `PeersInv`: while no two threads work on a share, each process is on
record or about to be (`Held`), or is one whose record a late watcher took.  `UploadsInv`: files are whole
versions, and a lease read is the one that was written until somebody raced.

*Own mappings.*  `ProtonInv`: a version that the state file calls known is on
both sides or in a copy (`Doubled`), and the plan, the listings and the second
measurement each fit what was edited since (`PlanFits`, `ListingFits`,
`MeasureFits`).  `GitInv`: a rebase begins clean; every edit is in the folder
or in a commit; what is gone from GitHub was deleted by a user, unless a clone
was cut off; and what was staged goes on to GitHub.  Its lemmas speak of the tree after a
sequence of commits: the last change of a file decides.

*Collaboration.*  `DocumentsAgree` has two sides.  About *operators*: a finite set
of operations is a `Document` when each has a number of its own and in any part
of it one operation is followed by no other (`Acyclic`).  `TextOrder` then lists a
tree's operations and nothing else (`TreeIsWhole`), each once
(`NoneListedTwice`), hence every insertion (`OrderIsWhole`: `ordered_ids` meets
no cycle).  A part that has the neighbours of all it has is listed as if it were
the whole, with the rest left out (`PartOfForestIsForest`); so two devices agree,
as each lists what they share in the order of the part they share
(`OrdersOfTwoAgree`).  `TextOrder` is a recursive function on sets of siblings,
and these are inductions over the tree.  `ForestInduction` states their
principle once, for a set of sets of siblings instead of an operator, and is
proved by smallest counterexamples from the library's well-founded orderings.
About the *state*, `CollabInv`: what an operation follows is an earlier one of
the same author, or one its author has in his folder (`Anchored`), where files
only come; so all folders together are acyclic, and what another's folder has of
an author is in his own (`Shared`); an editor has that and its own operations
(`InEditor`).  `ReplacementIsBatch` says that what one edit creates starts at a
character on the screen and goes on from itself.  `counter` bounds a device's own
numbers only while the editor is open: an operation whose file could not be
written leaves its number to be given again.

*Indexes and profiles.*  `RecoveryInv`: what a pruning has read and not yet
written back still lists what may not go, and a thread about to install has
archived what the file holds, unless the file changed since.  `SearchInv`: one thread walks, and
its rows are those of the files it saw.  `ProfilesInv`: who may write which of
the four stores.

*Desktop.*  `PartsStep`: each step of `Desktop` is a step of each part or leaves
it unchanged; hence each part's invariant is one of the whole.

### Only model-checked

- Liveness: `TimedRequestsAnswered`, `OnlyPriorityStarves`, `AcceptedRunEnds`,
  `RunEnds`, `EnabledIsServed`, `PausedGoesQuiet`, `ChangesSettle`; the system
  proves neither fairness nor `ENABLED`.
- The refinements beyond safety: what is proved of them is initial states and
  steps.

No module declares a RECURSIVE operator.

## 7. Disagreements found

1. `monitor_cache`, `callbacks.py:425`: the listing cached for five seconds is not
   invalidated by the monitor's own uploads; a file saved first looks deleted in
   the cloud when a second one is saved, and is removed from the disk.
2. `fullrun_stale`, `engine.py:2524`: the stop after repeated missing-directory
   responses is a SIGTERM of the program's own and is reported as a cancellation;
   the refresh that `docs/ROADMAP.md` and the log promise does not happen.
3. `share_drops`, `peer.py:1004`: the watcher of an ended server closes the record
   of the next by the endpoint's id; a drop that is used then goes on being
   served, against `app.py:2705` ("It is revoked after the first received file").
4. `engine_reports`, `engine.py:2440`: a safety preview that times out raises an
   exception that nobody catches; the callback is never called.
5. `collab_typed`, `collaboration.py:151`: a letter typed in front of existing
   text is behind it after the next merge.

## 8. Other behaviour observed

What follows was met while modelling and proving.  The models contain it; the
properties say where they stop claiming (section 3).

*Collaboration.*  `_poll_remote` (`app.py:2069-2072`) replaces text that was
typed and not yet saved.  After Export (`app.py:2138-2140`) the next autosave
deletes what others wrote and the export brought in.  When an operation file cannot be
written, later ones hang.  Two devices that open one document import its text
twice.  A document of more than `MAX_OPERATIONS` cannot be opened again.

*Full runs.*  A dry run of an AI backup that ends with 0 prunes the remote
history (`engine.py:2539`, `446-470`), against the docstring of
`_prune_remote_history` ("after a successful AI backup"); the model does so,
too (`Pruned`).  A duplicate that rclone names after the first 4 MiB of the
attempt's log (`engine.py:775`) is not seen, and the run is green; it is green as
well when the final listings are missing or cannot be parsed.

*Monitor.*  At a start after a restart, a two-way monitor compares the tree with
rclone's listing; when that is missing or cannot be read it takes the tree as its
baseline, and what was saved or deleted while off waits for the next full run
(`engine.py:1976-1982`, `616-677`, `callbacks.py:528-530`, `552-567`).

*Shares.*  Two watchers of drops see one file.  The watcher of a process that
has ended may take the record of the next, which then serves unseen; a stop races
a restart.  The
watch for transactions stays with the first endpoint.  A transaction that does not
fit is tried for ever, an outdated one is applied after a newer, and a
lease is kept when the transfer raises.

*Proton.*  The flag that stops a run outlives it (`proton.py:463`, `649-651`).  A
save between plan and second listing is taken for known (`451-460`).  The
mass-change guard goes on blocking after the mapping is switched on again
(`app.py:6878`).  `engine.py:2387` catches `ProtonDriveError` only.

*History.*  A line that a restore appends while a prune holds the index it has
read is lost; the version's file stays, and nothing offers it any more
(`recovery.py:143-163`, `166-184`).  What is saved between archiving and
installing is overwritten without a version.

*Drives.*  A stop between record and lookup leaves its flag; a stop during a
start leaves the drive mounted; an older watcher detaches a newer mount.
Switching a mapping on mounts nothing (`app.py:5142`).  More than three losses in five
minutes end the retries; a deferred retry is made once.  Freeing a path frees
each cached object whose path ends with it (`engine.py:1424-1428`); online-only
deletes what has not been written back (compare `docs/USER_GUIDE.md:547`);
changes of two rules put back each other's lists; pins are read once by
eviction; maintenance is left out without events (`engine.py:326-342`).

*Requests of the file manager.*  One about a path that is being worked on is
dropped (`app.py:6274`).  Online-only while "keep" waits for the mount is undone
by it (`6234-6248`).  Waiting requests are lost with the program, and a
release that fails leaves the badge.

*Git.*  A first clone that is stopped leaves a repository without an index; the
next run commits what is missing as deleted, and pushes (`engine.py:2728-2739`,
`2790-2815`).  `rebase --abort` loses what was edited meanwhile
(`docs/USER_GUIDE.md:204`).  The end of the program during a rebase leaves a detached HEAD.
A rebase that is refused because of edits is reported as a conflict.

*Search.*  With contents switched on, unchanged files keep their empty text
(`search_index.py:372-381`, compare `docs/CONFIGURATION.md:35-38`).  A full
refresh with an outdated list of mappings removes or restores rows.  A mapping
that reaches the limit keeps old rows; exactly the limit counts as limited.

*Updates, rclone's copy.*  A late answer to an earlier check lets a second
download begin.  `UpdateChecked` after the dialog has gone raises
`AttributeError`.  Two threads write one `.new` file.  `repair`
(`recovery.py:271-332`) reads the signs of `rclone check` the wrong way round.

*Accounts.*  A wizard closed during its check still lists the account
(`app.py:504-516`); cancelled before its process starts, the authorization runs
on, and outlives the program (`docs/USER_GUIDE.md:256`, compare
`rclone.py:619`).  A half-made remote becomes an account at the next start
(`app.py:7296-7298`).  An account that is removed while the start lists remotes
comes back.  `reconnect` (`app.py:5342`) runs outside `_oauth_guard`; given up,
it leaves altered credentials.  Proton's next dialog clears the flag that
cancelled the last installation (`proton.py:245-246`).  When encryption is cut
off before the marker is written, the next start does not tell rclone how to
decrypt (`rclone.py:718-742`).

*Profiles.*  A restore cut off between keyring and `rclone.conf` leaves a password that does
not fit (`migration.py:222-230`).  A backup sets its destination in memory before the
upload (`app.py:3118`); when that fails, nothing saves it (`app.py:3141-3143`)
until something else does.  A second restore that fails replaces the kept
original.  A transfer of the old engine cannot be stopped (`app.py:3165`).  A
configuration that cannot be read is replaced by an empty one
(`app.py:6026-6029`).

*Server.*  A tenant whose expired envelope is removed by the reservation for its
successor is counted down twice for it (`server_store.py:209`), and may then
store more than its quota; of such tenants `UsageIsExact` says only that they are
not counted for more than they store.  A replacement whose commit fails is
answered with an error, has nevertheless replaced the record for every reader, and
is committed with the next request.

## 9. What is not modelled

Inside the modelled parts: `shutdown` of the engine; one-time drops, manual-only
AI backups and virtual-drive mappings in the controller; the byte-rate clock of
the gate.  A preview's process is not in the process table in the code either,
and `cancel` therefore does not find it.  That progress is looked at only when there is output
(`engine.py:2526`), and that no SIGKILL follows a SIGTERM (`engine.py:2534`).
The server's cursors (`server_store.py:245`), rate limits, TLS, tokens, MCP and
audit rows.  The encryption of a profile (`migration.py`); signatures and
manifests, taken to be genuine; hashing and block sizes; sizes and names of
files; folders where a module says so.  Statuses, wording and progress carry no
decision.

Outside: policy and scheduling (a choice in `JobController`), audit and traffic
records, diagnostics and the network laboratory, presentation, the Android
application (`MobileSyncWorker.kt`: one worker that Android schedules, sharing
nothing with the desktop), and packaging.
