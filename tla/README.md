# A TLA+ model of mihomoctl

mihomoctl takes over a Mihomo installation of a Linux machine: it keeps proxy
profiles and a few managed settings, merges them into Mihomo's configuration
file, restarts the service, and shows what runs in a command line and a
terminal UI.  Its core is a small transaction system over ordinary files; around
it run processes that watch the core, and a terminal UI whose state is spread
over goroutines, timers and messages.  This directory models both.

## The system

| component | state it keeps | operations | hard part |
|---|---|---|---|
| operation lock (`internal/app/lock.go`) | `flock` on `.operation.lock`; `App.state` in each process | `acquireOperationLock`, `withMutation`, `reloadDiskStateLocked` | several CLI, TUI and timer processes; cancelled waiters; killed holders; memory older than the file |
| rollback stack (`transaction.go`) | checkpoints and rollback steps of the running operation | `fileRollback`, `add`, `fail`, `failAndReload` | steps that fail after they took effect; rollback steps that fail |
| privileged operations (`management.go`, `profiles.go`, `schedule_doctor.go`) | `config.yaml`, `public.json`, `client.yaml`, the store, Mihomo's file and service | init, settings, profile add/use/update/remove, sync-public, sync-client, doctor --fix, service | six places that must agree, no journal |
| profile store (`internal/profile/store.go`, `snapshot.go`) | `state.yaml`; `origin`, `source`, `config.yaml` of each profile | `Add`, `Use`, `Remove`, `PrepareUpdate`, `CommitUpdate`, `Checkpoint`, `RestoreCheckpoint` | several files per step; downloads outside the store's mutex |
| configuration applier (`internal/platform/applier.go`) | Mihomo's file, 20 backups | `Apply`, `Rollback`, `pruneBackups` | validate, replace, restart, health check, emergency rollback |
| systemd (`systemd.go`, `discovery.go`) | the unit | status, start, stop, restart | changed by others too |
| runtime (`runtime.go`, `internal/mihomo`) | HTTP and WebSocket connections | `CoreStatus`, `WatchTraffic`, `WatchLogs` | watchdog against late samples |
| terminal UI (`internal/tui`) | pages, requests in flight, streams, the running operation | `Update`, `acceptResponse`, `beginOperationAttempt`, `requestQuit` | late results, reconnects, quitting while an operation runs |
| command line, rendering, languages, profile sources | none of its own | argument parsing, layout, YAML and URI conversion | data, little control |

Every privileged operation runs in a root process: the CLI under sudo, a child
that an unprivileged CLI or TUI starts, or the systemd timer.  The processes
share only the files and the lock.  An unprivileged process reads `public.json`
and `client.yaml`, which is why these must follow the private state.

What makes the core correct:

* operations exclude each other and work on the newest state, not on memory;
* an operation happens entirely or not at all, unless a process dies inside it
  or a rollback itself fails;
* outside operations the private state, the active profile, Mihomo's file, the
  service and the published snapshot tell one story;
* the machine stays within reach of `doctor --fix` whatever happened;
* the lock is always released, and waiting processes are admitted.

What makes the processes around it correct:

* a configuration is in force or the old one is back, also when the deadline
  passed, the clock was set back or somebody else touched file or service;
* a privileged request is performed at most once and answered truthfully;
* a stream is given up when it is silent and only then, its reader learns why,
  and its goroutines end;
* the UI shows nothing older than it showed before, nothing of a stopped core,
  and in the end what is there or the error; a lost stream comes back;
* the cursor stays on its item while lists change under it, and a dialog acts
  on the item it named;
* quitting waits for a running operation, and always ends the process.

`PROJECT.json` lists the hazards with their lines.

## The modules

| module | of the code | kind |
|---|---|---|
| `ManagedState` | the disk and the pure steps on it | constants, operators |
| `AtomicMutation` | what operations promise | abstract specification |
| `Mutation` | `lock.go`, `transaction.go`, `management.go`, `profiles.go`, `schedule_doctor.go` | implements `AtomicMutation` |
| `ProfileStore` | `profile/store.go`, `snapshot.go` | files of one step of `Mutation` |
| `ConfigApplier` | `platform/applier.go`, `applyProfileConfig` | one other step of `Mutation` |
| `Elevation` | `app/privilege.go` | a request through sudo |
| `Status` | `CoreStatus`, `cachedVersion` of `app/runtime.go` | a reader beside `AtomicMutation` |
| `Watch` | `WatchTraffic`, `WatchLogs` | goroutines of a stream |
| `Operations` | `tui/operations.go`, `privilege.go`, quit in `model.go` | event loop |
| `Requests` | `requestState`, status and page messages in `model.go` | event loop |
| `Streams` | traffic and log streams in `model.go` | event loop |
| `LogTail` | what the log page promises | abstract specification |
| `LogBuffer` | the log ring, its caches and window | implements `LogTail` |
| `Ordered` | the loops that collect what a filter leaves | pure function |
| `ListPage`, `ProxyPage` | connections, profiles; proxies | event loop |
| `Viewport` | `viewportOffset` | pure function against a reference definition |
| `MCMutation`, `MCProcess`, `MCEventLoop`, `MCRequests`, `MCPages` | instances for TLC | composition |
| `*_proofs` | | theorems |

### Operations on the disk

`ManagedState` declares the constants, the disk, and the pure functions of the
elementary steps.  A *disk* is everything that outlives a process: managed
state, active profile and installed version of every profile, Mihomo's
file, what the service runs, `public.json`, and one `client.yaml` per process
(the user behind it).  A profile body is abstracted to the pair of profile and
version: the operations only ask whether a document changed.  A controller
stands for address and secret.

`AtomicMutation` is the abstract specification.  Each operation is one action
that writes its result in closed form (`Rewritten`), `Service` restarts or stops
Mihomo, and `Damage` is the exception: it may put anything on the disk but sets
`torn`, which only an operation that rewrites every part may clear.

`Mutation` is the implementation.  Each process goes through

    idle -> want -> locked -> ready -> run ... -> done -> idle
                                 \-> batch -/  \-> restore, undo -> done

| code | model |
|---|---|
| `acquireOperationLock` polling, cancelled by Ctrl+C | `Acquire`, `Cancel` |
| `reloadDiskStateLocked`, the last `ctx.Err()` | `Reload` |
| an operation's checks, its checkpoints, its calls in order | `StartInitialize`, `StartChangeSetting`, ... which put the calls in `todo`, the captured disk in `before`, the rollback entries in `stack` |
| each call of the operation | `StepOK`, `StepFails`, `ApplyFails`, `ApplyBreaks` |
| `rollback.add("Mihomo ...", applied.rollback)` after an apply | `"config"` pushed by `StepOK` |
| the loop of `updateProfilesRoot` | `StartUpdate`, `NextBatch`, `Continuation`, `Following` |
| `store.RestoreCheckpoint` after a rejected active profile | `RestoreStore`, `RestoreStoreFails` |
| `rollbackStack.fail`, then the reload of memory | `UndoOK`, `UndoFails`, `Unwind` |
| SIGKILL at any point, the kernel dropping the flock | `Crash` |

A step that fails may have left its old value, its new one, or part of it
(`CutShort`): `atomicWriteOwned` reports an error when the directory sync fails
although the rename is done, and `Apply` handles file and service one after the
other.  A rollback step that fails leaves any part of what it restores
(`HalfRestored`).  `torn` is a ghost variable: no code reads it.

`Visible` is the refinement mapping: while an operation is in flight the
abstract disk is what its checkpoints captured, otherwise it is the disk.

`ProfileStore` opens one step of `Mutation`, the profile store, into its files.
`docs` holds each profile's source and config file, `index` is `state.yaml`
(`named` and `active` profiles, `chosen` selections, `entry` with ETag and
`LastUpdated`).  A call enters the store's mutex as the list of replacements it
will make (`call.todo`); `StepOK` makes one, `StepFails` goes over to the list
of `Undo`, `UndoFails` goes on as the code does, `Kill` drops everything but the
files.

| code | model |
|---|---|
| `Add`, `AddSnapshot`, `addPreparedUnlocked` | `Add` |
| `Use`, `SaveSelections`, `Remove` | `Use`, `SaveSelections`, `Remove` |
| `readUpdateBaseline`, the download, `CommitUpdate` | `ReadBaseline`, `Download` or `Abandon`, `CommitUpdate` or `RefuseStale` |
| `Checkpoint`, `RestoreCheckpoint` | `TakeCheckpoint`, `RestoreCheckpoint`; `DropCheckpoint` when the operation ends without it |
| `atomicWrite`, `os.RemoveAll` | `Written`, `Failed`, `Leftovers` |

`Faults` says what may go wrong: `"kill"`; `"error"`, a write that fails and leaves
the old file (a removal stops anywhere); `"late"`, a replacement that took
effect and then reports an error, because the directory cannot be synced.
`marred` is a ghost: profiles a restore that was cut short, or an undone index
save that had taken effect, left behind.

`ConfigApplier` opens the other large step of `Mutation`, putting a configuration
into force.  Its steps are those between which a kill, a failed write, the
operation's deadline, an editor or `systemctl` can come.

| code | model |
|---|---|
| `Apply`: stage, `mihomo -t`, `backupCurrent`, `pruneBackups`, owner and mode, rename, directory sync, the `Activate` and health callbacks | `Begin`, `Validate`, `BackupCurrent`, `Prune`, `Permit`, `Replace`, `SyncDirectory`, `Activate`, `HealthCheck` |
| `Rollback` with its check of the file's hash | `Rollback` |
| `rollbackWithBudget`: `restoreBackup`, activation, health | `Restore`, `Reactivate`, `Recheck` |
| the callbacks' count of calls and `wasActive` of `applyProfileConfig` | `op.calls`, `op.active` |
| the context's deadline, the wall clock in backup names, an editor, an administrator, SIGKILL | `Expire`, `SetClock`, `Edit`, `Systemctl`, `Kill` |

### A process beside the operations

`Elevation` is one request of an ordinary user.  The caller's steps are
`Preflight` (executable, environment, sudo found), `Spawn`, `Interrupt` and
`KillSudo` (`cmd.Cancel`, `WaitDelay`), `Wait`, `JudgeEnd` (`finishElevated`), and
`Retry`, the UI's second attempt on the terminal.  sudo, the user at its prompt
and the elevated command are the environment.  `lines` is what they wrote to
stderr, each line with the phrase that the code looks for, because the code
tells a refusal from a failure by text.

`Status` puts one `CoreStatus` together read by read, while operations change the
files, the core and the memory of the process in the order of their writes.  A
configuration is two fields, what the managed settings say (`m`) and what the
document says (`d`), which is what `Drifted` and `applyManagedSettings` tell apart.
`mem.api` numbers the API clients: `rebuildAPI` replaces the client and drops the
cached version while an answer may be on its way.

`Watch` is the goroutine pair of a stream: `Start` ... `CloseData` stream from the
core, `Alive`, `Expire`, `Kill`, `DogEnds` are the watchdog's `select`, which may take
any ready case.  The core, the reader and the caller's context are the
environment; `Tick` passes one of the seconds the watchdog counts and waits for
goroutines that could run.

`MCProcess` is the sum of the three for TLC: they share no state, a behaviour is
one of them while the others keep an initial value.

### The terminal UI

The UI is one event loop, each message one action.  Commands are goroutines, so
between a command and its message anything else may be handled.  What the
code does about late messages, a generation number in every request, is a flag
`fresh` of the request: it is TRUE while the generation it carries is the current
one, which is all the code compares.  `Operations` keeps the numbers, they are few.

| module | code | model |
|---|---|---|
| `Operations` | `operationTracker` | `tasks`, `closed`; `Reserve`, `Accepted`, `Forget`, `Stop`, `Exit` |
| | `beginOperationAttempt`, `beginGroupTest`, `operationMsg`, `groupTestMsg` | `Begin`, `StartAttempt`, `FinishAttempt`, `IgnoreStale`, `HandleResult` |
| | `retryPrivilegedOperation` with `tea.Exec` | `AskPassword`, `Exec`, `ExecEnds` |
| | `beginPrivilegedMetadataOperation`, the other privileged ones | the kinds `"meta"`, `"admin"`; `NeedsRoot` |
| | language picker, `requestQuit`, signals | `ChangeLanguage`, `HandleLanguage`, `RequestQuit`, `Terminate` |
| `Requests` | `begin...Refresh`, `acceptResponse`, `cancelRequest` | `Begin`, `Accepts`, `Cancelled` |
| | `tickMsg`, `r`, `switchPage` | `Tick`, `RefreshKey`, `SwitchPage` |
| | `statusMsg` with `statusSnapshotFloor`, `resetInactiveRuntime` | `DropOutdated`, `StatusMsg` |
| | the pages' messages; operations, `suspendRuntimeObservers`, `runtimeRecoveryUntil` | `PageMsg`; `BeginOperation`, `OperationMsg`, `GraceEnds` |
| `Streams` | `beginTraffic`, `beginLogs`, `stopTraffic`, `stopLogs`, `disconnect...` | `Begin`, `StopThenBegin`, `Stop`, `Disconnect` |
| | channels, data, error and reconnect messages | `ChannelsMsg`, `DataMsg`, `ErrorMsg`, `Reconnect` |
| | the waiting goroutines, the backend of `Watch` as the UI sees it | `WaitData`, `WaitError`; `Connect`, `Send`, `Drop`, `End` |
| `LogBuffer` | `appendLogBatch`, `ensureLogSearch`, `ensureLogView`, `scrollLogs`, pause, filter | `AppendLogBatch`, `WithSearch`, `Ensured`, `ScrollLogs`, `TogglePause`, `Filter` |
| `ListPage` | `connectionsMsg`, `profilesMsg`, `restore...Selection`, confirm dialogs | `Refresh`, `IndexOf`, `Ask`, `Confirm`, `Dismiss` |
| `ProxyPage` | `groupsMsg`, `ensureGroupViews`, `restoreProxySelection`, `applyFilter`, `groupTestMsg` | `GroupsMsg`, `Viewed`, `Restored`, `ApplyFilter`, `GroupTestMsg` |
| `Viewport` | `viewportOffset` | `ViewportOffset`; `LeastMove` says what it is for |

`MCEventLoop` is the sum of `Operations` and `Streams` for TLC, as `MCProcess` is of its
parts, and `MCPages` that of the three page modules, with symmetry.
`MCMutation` adds symmetry, and a managed machine to start from; `MCRequests` one
more bound.  Definitions marked `mutant` are wrong on purpose and used by no action;
each shows that one property notices one mistake.

## The runs

| run | question | instance | properties |
|---|---|---|---|
| `mutation` (`Mutation.cfg`) | is each operation atomic, from before `init` on? | 2 processes, 2 profiles, 2 versions, 4 operations, 1 kill or failed rollback; 498,256 states | `Exclusive`, `Agreement`, `AbsSpec` |
| `updates` (`MutationUpdates.cfg`) | do bulk updates and rollbacks keep a managed machine sound? | 1 process, 3 profiles, batches of 2, 2 operations, 2 kills or failed rollbacks; 137,757 states | `Repairable`, `FailureRestores`, `AbsSteps` |
| `progress` (`MutationProgress.cfg`) | do competing processes see each other's changes, and does each wait end? | 2 processes, 2 settings, 2 operations, 1 fault, no symmetry; about 285,000 states | `FreshMemory`, `NoLostUpdate`, `Admission` |
| `store` (`ProfileStore.cfg`) | do the store's files fit together whatever is cut short? | a subscription, a recovery snapshot, 1 client, 2 versions, 1 fault of any kind; 1,251,853 states | `Loadable`, `Served`, `RestoreComplete` |
| `refresh` (`ProfileStoreRefresh.cfg`) | do stale or failed refreshes leave a trace, can an ETag hide an update? | 1 subscription, 2 clients, 3 versions, 2 kills or clean failures; 2,745,487 states | `NoDowngrade`, `CommitAtomic`, `RefreshHeals` |
| `applier` (`ConfigApplier.cfg`) | is a configuration in force or the old one back? | 2 configurations, 4 operations, 2 faults, 1 edit, 2 backups kept, an administrator; 3,529,880 states | `Readable`, `ReportedRestored`, `EmergencyRestores`, `ForeignKept` |
| `loop` (`MCEventLoop.cfg`) | do operations, quits and streams end, in this order, and streams come back? | 3 attempts, 2 language changes, sudo; either stream, 1 dropped connection, 1 forced restart, 1 operation; 393,173 states | `QuitWaits`, `ObserversResume`, `QuitEnds`, `Settles`, `NoStray`, `Reconnects` |
| `requests` (`MCRequests.cfg`) | does the screen follow the world, is a core that stays away reported? | status, one runtime page, one other; 2 versions, 1 operation, 1 overtaken call; a service that runs, stops, does not answer or cannot be seen; 386,451 states | `Quiet`, `NeverOlder`, `Converges`, `Surfaces` |
| `process` (`MCProcess.cfg`) | are watch, request and status answers true? | a timeout of 3 ticks, 5 samples, a channel of 2; 3 passwords; 3 disturbances; 2,170,825 states | `NoFalseAlarm`, `RightError`, `Releases`, `PerformedOnce`, `Honest`, `StatusTrue`, `VersionOwned` |
| `pages` (`MCPages.cfg`) | do rows, cursors, windows and dialogs stay on their items? | 3 items; 2 groups of 2 proxies; a ring of 4 taking 7 entries; 23,185 states up to renaming of items, groups and proxies | `InView`, `ConfirmedTarget`, `Kept`, `TailSpec` |
| `commit_late` (`ProfileStoreLate.cfg`) | is `CommitUpdate` atomic when a directory sync fails? | 1 subscription, 1 late failure; violated | `CommitAtomic` |
| `quit_language` (`OperationsLanguage.cfg`) | does a quit wait whatever else the user did? | root, 2 attempts, 1 language change; violated | `QuitAlwaysWaits` |

All but the last two pass.  Each module also has a type invariant (`TypeOK`,
`RequestTypeOK`), which holds in these instances; the runs spend their time on the
others.  Three properties of a run are conjunctions over its parts: `InView` and
`Kept` over the pages, `StatusTrue` over `DriftTrue` and `ActiveTrue`.

### Bounds

`MaxOps` (operations requested), `MaxFaults` (kills, failures or failed rollbacks),
`MaxTargets` (profiles in one update) and the constant sets bound the runs of
`Mutation`.  Two processes are enough for every conflict over
one lock; four operations are enough for init, two adds and a switch or an
update after it; three profiles give an active batch and a batch of others.
Two faults in a row, a failed rollback and then a kill, or the reverse, are
covered in `updates`.  Ordinary step failures are not bounded.

In the store's runs `MaxVersion` bounds what an origin publishes, `MaxRev` the
distinct values of `LastUpdated`.  Three versions let a
client hold a download that another has overtaken; two clients are enough for
one to be stale; two profiles let one be active while the other goes; the second
fault of `refresh` is the failure of an undo.

`ConfigApplier`: four operations exceed a retention of two while one of them rolls
back; a clock of two values can be set back; two faults let a rollback fail.

`Operations`: three attempts are an attempt, its repetition with a password and one
that overtakes them.  `Requests`: `MaxStale` allows one overtaken call beside the
current ones; a second would be dropped for the same reason; in the run
(`MCRequests`) a core that does not answer is met on a page of the runtime only, the
other one does not ask it.  Two versions and one operation give each answer an
earlier and a later world.  `TimeOut` of a
status is possible only around an operation; elsewhere a call fails because the
service cannot be seen.  `Streams`: `FewConnections` allows one abandoned
connection beside the current one.  `Watch`: three ticks let a sample arrive
before, at and after the deadline, and five samples fill a channel of two.
`Elevation`: sudo's own three passwords.  `Status`: three disturbances are an
operation and two more events inside one status.  `MCPages`: seven entries turn a
ring of four nearly twice, a batch of three does not divide it.

Deadlock is not checked where a behaviour ends when its bound is used up or the
process has exited.  It is checked in `applier`, `requests` and the store's
runs.

### What they show

* `AbsSpec` covers failures *after* the effect: reporting an error and having
  changed nothing are different things in this code, and the rollback order
  (Mihomo, store, files) handles both.
* `Agreement` tolerates `torn`.  A kill between the installation of a
  configuration and `store.Use` leaves Mihomo on a profile that is not active;
  there is no journal, and only an operation that applies a configuration makes
  the parts agree again.  A kill between `CommitUpdate` and the apply leaves a
  document that later updates consider unchanged, so updates never repair it.
* `Repairable` holds for machines that were taken over.  It does not hold from
  before `init`: a first `init` that fails, and whose file rollback then fails
  too, leaves a managed state with an empty store, which `init --force` repairs
  and `doctor --fix` does not.
* `FailureRestores` allows one difference: a service that ran something other
  than its file (another program had changed the file since) runs the file
  after a rollback that restarted it.
* `CommitAtomic` holds for writes that fail cleanly and is violated by late
  ones: `CommitUpdate` is documented to install a refresh atomically
  (`store.go:562`), but a source, config or index whose directory sync fails is
  not taken back with the rest.  The operations of `Mutation` restore their
  checkpoint afterwards, so it takes a second failure to keep the mixture.
* `RefreshHeals` excepts `marred` profiles, and has to: a kill between the documents
  and the index in `RestoreCheckpoint` leaves the old document under the new ETag,
  and the server answers 304 until it publishes something newer.
* `Served` excepts a profile whose `Add` removed its directory after a late index
  failure.  `Checkpoint` refuses such a store, and with it every operation that
  takes one, until the index is repaired.
* `EmergencyRestores` does not depend on the operation's deadline or on the order
  of the backups' names: recovery has a window of its own, and pruning never
  takes the backup of the running operation.
* `QuitAlwaysWaits` is violated.  The language picker does not ask whether an
  operation runs, and the end of its save clears `loading` and obeys a pending
  quit (`model.go:1040`), though `loading` is documented to follow operations and
  delay tests only (`model.go:266`).  `Run` still waits for an operation that has
  started, but one that has not is dropped, and nobody sees how they ended.
  `QuitWaits` is what holds: the same without a language change.
* `ObserversResume` holds with sudo whatever the picker does, since a privileged
  operation shuts the keys.  For root it needs that the language is not changed:
  a delay test begun after the save makes the operation's message stale, and
  that message alone would resume the observers.
* `CancelSilences` leaves out one step: a stream's goroutine that has found its
  caller's context alive may send its error after the cancellation
  (`runtime.go:477`, `:479`).  The UI drops it by its generation (`Streams`).  It is
  proved (`CancelIsQuiet`) and not one of the properties of `process`.
* `DriftTrue` excepts an operation that was killed before it published: a status
  of an ordinary user compares the core with `public.json`, and so does root for
  a refreshed document of the same profile.  `ActiveTrue` needs no exception: root
  reads the store (`runtime.go:109`).
* `Honest` bounds what an answer may mean.  "cancelled" promises nothing about the
  elevated command, which may keep running after sudo was killed.

Modelling met these, for which no run stands:

* The service's state is read once before an apply (`management.go:225`).  One that
  an administrator starts meanwhile is neither restarted nor waited for, and
  keeps its old configuration; one that is stopped meanwhile is started.  Where
  the properties of `applier` speak of the service they except this.
* A rollback restores group-readable or private modes only (`applier.go:668`): an
  original that a service of another user could read through "other" bits alone
  is unreadable for it afterwards.  The run's originals are group-readable.
* When the directory sync after the rename fails (`applier.go:186`), recovery makes
  the first activation, whose health check waits for the *new* configuration; a
  running service then gives a complete restoration the verdict of a failed rollback.
* A log stream that connects resets `logRetry` (`model.go:1379`), so a core that
  accepts and drops connections is asked at the shortest interval for ever.  When
  the error of a stream overtakes its last buffered entries, these are lost.
* Filtering another page clamps the cursors of the proxies page; a proxy that
  appears while its group is being tested is listed as a timeout.
* A wrong password followed by an elevated command that dies without a word is
  answered as an authentication failure.
* A root process that runs for long compares with the settings it read, and shows
  a drift after another process changed them until it reloads.  A cached core
  version may be five minutes old.

### Fairness

* `Mutation`: `WF(Acquire(p))` and `WF(Work(p))` for each process.  A waiter polls
  the lock every few milliseconds, and every step of an operation is local file
  I/O or runs under a timeout, so an operation that is not killed goes on.
  Nothing is assumed of `Request`, `Cancel` and `Crash`.  Weak fairness on
  `Acquire` does not promise that *each* waiter gets the lock, and `flock` polling
  does not either: `Admission` says that one of them does.
* `Operations`: goroutines run, operations return (each has a deadline and quitting
  cancels it), the loop handles messages, `Run` goes on.  Nothing is assumed of
  keys and signals.
* `Requests`: the tick that finds both intervals passed, the calls of each kind
  (each has a timeout), ends of operations, the end of the grace period.  Which
  intervals have passed at other ticks is arbitrary.
* `Streams`: statuses are asked for periodically, operations end, goroutines and
  reconnection timers fire.  Nothing is assumed of the core.
* `Watch`: its goroutines run, time passes, a reader that reads takes what is
  there.  Nobody has to send, end or cancel.

## What is proved

`tlapm` checks these for every value of the constants, from the named
assumptions in the modules (sentinels are not values, bounds are naturals,
batches are not empty, the set of processes and the sets of values are as small
or large as one likes).

**Operations on the disk** (`Mutation_proofs`, in three parts: lock, memory and types;
the rollback stack; the refinement)

* `LockExcludes`: `Spec => []Exclusive`.  Inductive together with the type of `pc`.
* `TypesHold`: `Spec => []TypeOK`, where `Prepared` ties the program counter to the
  other variables: a running operation has a step, a local state and a
  checkpoint; an unwinding one has a rollback entry left.
* `MemoryIsFresh`: `Spec => []FreshMemory`.  FreshMemory alone is not inductive: it is
  silent while an operation unwinds, and a step may fail after `config.yaml` was
  replaced and before memory was.  `Remembers` adds that an operation which still
  has a save to make has checkpoints to unwind and reloads after them, and that
  the operations which do not reload (remove, sync-public) never touched the
  file.  Mutual exclusion does the rest: nobody else changes the file meanwhile.
* `RollbackIsExact`: `Spec => [][FailureRestores]_vars`.  The invariant `Recoverable`
  says of the operation that holds the lock: what is not on its stack it has not
  changed since its checkpoint, and undoing what is on the stack, in that order,
  gives the checkpoint back; a step puts its entry there before or, for Mihomo,
  together with its effect.
* `OperationsAreAtomic`: `Spec => AbsSpec`.  `StageInv` says where an operation is: the
  steps left in `todo` lead from the disk to what `AtomicMutation` writes in one
  step from the disk that was captured.  Its last step is the abstract operation,
  the steps before and a complete unwinding are stutters, and what a kill or a
  failed rollback leaves behind is `Damage`.
* `PartsAgree` (`Agreement`): the refinement carries `AgreementHolds` of
  `AtomicMutation` over to the steps of the code.
* `ChangesSurvive` (`NoLostUpdate`): an operation starts from the newest value of the
  settings it does not write, because it reloads under the lock.
* `ManagedIsAtomic` (`AbsSteps`) and `StaysRepairable` (`Repairable`) speak of a machine
  that was taken over, `ManagedSpec`.  `RepairInv` needs that the document of a profile
  an operation made active is there before `state.yaml` names it, and `Spares` that no
  rollback entry takes away a profile that the restored index needs.  From before
  `init` on `Repairable` is false, see above.
* `AgreementHolds`, of `AtomicMutation` alone: each atomic operation rewrites the parts
  from the same state and profile, so they agree unless the disk is torn.

**One step opened up**

* `ProfileStore_proofs`.  `IndexLoads`: `Spec => []Loadable`, from the finiteness of
  `Ids` and `NoProfile` not being one.  The index file changes to what a call
  meant to write or what a checkpoint saved, so `IndexInv` says that each of
  these decodes; that `Remove` finds a first remaining profile is a lemma on
  the order of addition (`FirstIsOne`).
* `DocumentsAreServed` (`Served`), `RefreshesHeal` (`RefreshHeals`), `NothingIsDowngraded`
  (`NoDowngrade`), `RestoresAreComplete` (`RestoreComplete`), `CommitsAreAtomic`
  (`CommitAtomic`), all from one invariant.  `Fit` holds of each profile between any
  two writes: documents and ETag are no newer than what was published, an ETag the
  server would confirm is the ETag of what is installed, and what the checkpoint
  does not cover is as it was or new.  It is not inductive without `Form`, which says
  for each kind of call what is written and what is left: `Installing` for the two
  documents and the index of an addition or a refresh, `RestoreForm` for a restore,
  where whatever still differs from the checkpoint has its write in `todo` and the
  directories come after the index after the documents (`RestoreOrder`).  `JobFit` is
  what a prepared update knows: it is newer than its baseline, so while the
  baseline stands its commit goes forward.  `CommitsAreAtomic` assumes that no write
  that reports an error took effect (`"late" \notin Faults`); the run `commit_late`
  shows that it is false otherwise.
* `ConfigApplier_proofs`.  `ReportsAreTrue` (`ReportedRestored`), `EditsAreKept`
  (`ForeignKept`), `AlwaysReadable` (`Readable`), `RecoveryRestores`
  (`EmergencyRestores`).  `Between` says what holds at each label of an operation: its
  backup is the original and stays in the directory until it ends, the file is
  the original or the candidate unless somebody edited it, and while a rollback
  activates, file and service are what was found.  `AccessInv` adds who can read the
  file and each backup.  The last two theorems assume that no original is readable
  through its "other" bits alone (`"other" \notin OriginalAccess`): a rollback does not
  restore such a mode, and without the hypothesis both are false.

**Beside the operations** (`Process_proofs`, for each part of `MCProcess`)

* `WatchTypes`, `SilenceIsReal`, `ReasonIsRight`, `CancelIsQuiet`, for every timeout,
  channel capacity and number of samples, with and without a watchdog.  `Timing`
  is the heart: the watchdog's timer and the ticks since the last callback make
  up the timeout unless a sign of life is on its way.  `Causes` says that before
  the verdict a cancelled stream has a caller who cancelled or a watchdog that
  expired.  `CancelIsQuiet` (`CancelSilences`) is a property of whole behaviours: a
  cancelled stream whose report was not yet decided is never reported.
* `BegunOnce`, `AnswersAreTrue`, `AnswerIsLast`, for every number of passwords.  `Text`
  says what the code relies on when it reads stderr: before the command began
  every line was about a wrong password, after it at most its own line came, and
  without it sudo said why.
* `StatusesAreTrue` (`StatusTrue`).  `Steady` says that outside an operation the files,
  the core and `public.json` follow the state, and inside one that what its goal
  names is what it has written so far; `Calm` what a status that nothing
  disturbed has read by each of its steps.
* `VersionsAreOwned` (`VersionOwned`).  `Owner`: a version in the cache belongs to the
  current client, and a status carries the number of the client it asked.

**The terminal UI, its event loop** (`Operations_proofs`, `Requests_proofs`, `Streams_proofs`)

* `QuitsWait` (`QuitWaits`) and `ObserversAreResumed` (`ObserversResume`), for any number
  of operations.  Neither is inductive: they look at all attempts, the event loop
  only at two flags and a generation.  `OperationsInv` adds `Ordered` (an attempt that
  was not begun has a ticket above the generation, so that a new one collides
  with no other), `Single` (at most one attempt is at work, and it is of the
  current generation) and `Flagged` (`loading` is set exactly while there is one,
  and the observers are suspended only for a privileged one).  `Single` and `Flagged`
  hold until the language picker is used for the first time, which is why `QuitWaits`
  excepts it: the end of its save clears a flag that is not its own.  `Current` (at
  most one attempt of the current generation is at work) and `Shut` (with sudo, the
  keys are shut while one suspends the observers) hold in any case.
* `NothingStrays` (`NoStray`), for any number of dropped connections, forced restarts
  and operations.  `NoStray` speaks of the connections only; what keeps it is `Sound`,
  which ties them to the Model's fields: a connection that was not cancelled is of
  the current generation, its cancel function is held, and `connecting` or one of
  the two channels shows it, so that a stop finds it.  `Dark` is what a stop
  leaves, and the guards of the messages keep it so while the stream is not wanted.
* `StaysQuiet` (`Quiet`) and `NothingOlder` (`NeverOlder`), for any number of pages,
  operations and versions of the world.  `Timely` says of the calls of a current
  generation that there is one of a kind, of the status or the page shown, and
  that what such a call answers is not older than what is shown nor, unless it was
  an outdated status call, whose message is dropped, than what was confirmed.  The
  message of a successful operation keeps it true: it cancels the calls of the
  page and raises the floor above the status calls that are under way.  `Reached`
  bounds all of these by the version of the world.  The bound `MaxStale` on overtaken
  calls is not used: old calls may be as many as one likes.

**The terminal UI, its pages** (`Pages_proofs`, for each part of `MCPages`): lists, groups,
rings, batches and pages of any size.  What there is to list is finite, pages have
rows and the ring has room (`FiniteAssumption`, `PagesAssumption`).

The caches are the crux.  What a page lists is a function of the data and the filter;
what it draws are indices computed earlier, and each invariant says of a cache
that is marked valid that it is the one that would be made now.

* `Ordered` is the loop that all filters share.  `InOrderLists` says that it lists
  the matching indices in ascending order, the k-th with k - 1 before it.
* `PagesInView` (`InView`) and `SelectionsAreKept` (`Kept`).  For connections and profiles
  `ListInv`: valid rows are those of the items and the filter, and the cursor is in a
  window that starts at `offset` (`Shows`, which also describes an empty list).  For
  the proxies page `Good`: the cached view and search texts are those of the last
  listing if their flags say so, no two groups have one name, and in the view the
  page would make now the highlighted group and proxy are in their windows (`Seen`).
* `SelectionsAreKept` of the log page rests on `BatchSlides`: the entries held and those
  that arrive are one sequence, the ring keeps its end, so every match that stays
  moves to the front by the number of matches that left (`PartCounts` counts them),
  and `FirstRowSlides` says that the clamped offset moves the window's first row by
  the same number, or to the first row of the list when it left itself.
* `LogsAreTheLatest` (`TailSpec`): `LogBuffer` implements `LogTail`, in which every
  entry received has its number and only the oldest are given up.  `LogInv` says that the
  search texts are absent or those of the ring (`TextsOf`), that a cached list marked
  fresh is that of the ring, that on the page it is fresh, and that entries are
  numbered as they arrived.  `PutAllIs` is the ring: after any batch, longer than the
  ring or not, it holds the end of what it held and the batch.
* `TargetIsNamed` (`ConfirmedTarget`): `Named` says that an open dialog still names what it
  was opened for, whatever is listed, filtered or scrolled meanwhile.
* `WindowMovesLeast`: `viewportOffset` shows the cursor in a window of the list and moves
  by no more than that takes, for all integers.

Only model-checked: liveness (`Admission`, `Releases`, `QuitEnds`, `Settles`, `Converges`,
`Surfaces`, `Reconnects`) is outside the prover's reach, as is ENABLED.  Every other
property of a passing run is a theorem.

## Abstractions

* A download that fails or a document that does not merge is a target that is not in
  the update.  `ErrStaleUpdate` does not occur in `Mutation`: the lock is held from
  `PrepareUpdate` to `CommitUpdate`.
* In `Mutation` the service changes only through mihomoctl; `ConfigApplier` has an
  administrator.  The applier's own steps are single steps in `Mutation`, with the
  outcomes those steps can have; the store's are single steps there and opened
  in `ProfileStore`.
* In `ProfileStore` an origin's versions only grow and identities are never
  drawn twice.  Downloads, normalisation and size limits decide only whether
  there is something to commit.  A checkpoint covers what its operation updates
  or removes, as every caller does.  The list of profiles is in the order of
  addition, which `born` records.
* In `Requests` a tick finds any subset of its intervals passed, where the code
  keeps times; what a call returns is a version of the world and the service's
  state.  Zeroing `lastStart` when a request is cancelled only makes a tick come
  earlier and is left out.
* In `Streams` the suppression of errors after an operation is arbitrary; the
  status of the very first request is like any other; a changed log level is a
  forced restart; backoff is a timer that fires some time.
* In the pages a filter matches an item by its name or a set of items where the code looks for
  substrings; text and colours of rows are left out.

## Not modelled

* Rendering beyond windows and lists: layout and text without state.
* Command line, languages, preferences except the save that races an operation:
  parsing and printing, every command is one call of an operation.
* Profile sources, URI parsing and YAML merging: conversions of data.  The merge
  appears as the operator `Merge`.
* Discovery, unit parsing, path, owner and environment checks: they only refuse.
* Remembered proxy selections.  A restore of them that times out after a restart
  may let defaults be remembered in their place, and a kill between an apply and
  `store.Use` may attribute one profile's choices to another.
* The timer unit of `schedule enable`, the read-only checks of `doctor`, and the
  single requests to the core (`OverviewTelemetry`, connections, delays), which
  keep no state.
* Menus and input fields of the UI, the traffic chart.

## Plan

1. To prove: that the calls of `ProfileStore` and `ConfigApplier`, with their failures,
   have no outcome that `Mutation` does not give the one step it takes for them.
2. To model: remembered selections across a restart; the timer unit.
