# TLA+ models of the Clash Verge service

The repository is a privileged system service. It runs one proxy core (mihomo)
on behalf of one of several users ("owners"), takes requests from their clients
over a local socket, restarts the core when it crashes, and must leave the
machine in an explainable state whatever fails: a kill, a write, the core, or
the service itself. This directory holds TLA+ specifications of the parts where
that is hard, TLC configurations that check them on small instances, and proofs
checked by TLAPS.

Paths are relative to the repository. To run a check, inside this directory:
`tlc -config CoreManager.cfg MCCoreManager`; to check proofs,
`tlapm CoreManagerProofs.tla`.

## Inventory

| Part | State | Operations | What is hard |
|---|---|---|---|
| Core supervisor, `src/core/manager.rs` | `CoreManager` fields behind `CORE_MANAGER`; the watchdog task and its locals; `core-runtime.json`; the lifecycle cell of `state.rs` | `start_core`, `stop_core`, `running_core_config`, the watchdog's loop, `ChildGuard::drop` | the watchdog changes the manager without its lock; a kill, a spawn, the socket hardening and the record may each fail; shutdown races exit |
| Owner takeover, `src/core/server.rs` | `OWNER_LIFECYCLE_LOCK`, the locals of `StartOwnerTransition` | handlers StartClash, StopClash, StageRuntime, UpdateWriter, SetSystemProxy, Status, logs | a sequence of durable effects, each of which may fail and be rolled back; sessions go stale while a request waits |
| Recovery state, `src/core/desired.rs` | `active-owner.json`, `owner-generation.json`, `desired-state.json` of each owner | persist started / stopped / writer, commit and clear the active owner, restore | desired state is best-effort, authorization state is strict; an error may come after the rename; crashes between files |
| Boot, `src/bin/service.rs`, `src/core/reconcile.rs`, `src/core/process.rs` | `STARTUP_RECONCILED`, the record of the previous process | reconcile, restore, run the listener, shut down | a core of the previous process may be alive, dead, unidentifiable, or impossible to kill |
| Runtime generation, `src/core/runtime_generation/` | the owner's runtime directory, its manifest and `config.yaml` | plan, materialize (start), stage (live), clean-up | files are changed under a running core; a manifest must never claim what is not there |
| IPC supervisor, `src/core/server.rs` | `IPC_LIFECYCLE_LOCK`, `IPC_SERVER`, the two shutdown channels, restart timestamps | run, rebuild, stop | restart budget; shutdown against rebuild; stops by several callers over channels that are replaced one by one |
| Service election, `src/core/owner.rs` | lock file, pid file, socket | acquire, take over, clean up | several processes, timeouts, stale files |
| System proxy, `src/core/proxy.rs` | settings of the network services | apply, clear, compensate | two writes per service, each may fail |
| Installation, `src/bin/install_service.rs`, `src/bin/uninstall_service.rs`, `src/core/repair.rs` | `.repair.lock`, the binary, its `.next` candidate, the registration, the service manager | install, uninstall, the gate | a kill or failure at every step; two programs at once; three platforms |
| Status, maintenance, `status.rs`, `maintenance.rs` | none of their own | snapshot, prune owners that are gone | several reads beside the watchdog; two removals, the first of which may be skipped |
| Authentication, protocol, client, paths, logging, legacy clean-up | little | | pure functions or one-shot platform calls |

How they meet: a handler authenticates, takes `OWNER_LIFECYCLE_LOCK`, checks the
session against `active-owner.json`, and then calls the core manager under
`CORE_MANAGER` and the state files one by one. The watchdog runs beside all
that, and shares the atomics and mutexes inside `CoreManager` with it.
`stop_ipc_server` (shutdown) takes `CORE_MANAGER` but not
`OWNER_LIFECYCLE_LOCK`, so it meets requests in flight. The boot runs before
the listener: reconcile, then restore, then serve. Before all that a process is
elected by a file lock, which it holds until it exits; outside of it the
installers replace its binary through the platform's service manager.

The hazards this gives rise to, each at its line, are listed in `PROJECT.json`.

### What makes each part correct

* *Core supervisor*: never two cores; never one that nobody will kill; what is
  published about the core, and reported by Status, is true; a stop that answers
  Ok is final; a recovery ends, and calls return; its callers may rely on one
  contract whatever the watchdog does meanwhile.
* *Owner takeover, recovery state, boot*: a session once superseded is never
  accepted again; the core that runs is the committed one; a stop that was
  acknowledged survives crashes, and so does a core that was not stopped; no
  core is lost track of that the files could have named.
* *Runtime generation*: the manifest is true of the files, since copies are
  skipped and download caches kept on its word.
* *IPC supervisor*: the restart budget holds in every window; no stop waits for a
  listener that was not told, or clears away one made since.
* *Service election*: one service; the pid that others find is its; a takeover
  is aimed at an owner; the elected one stays reachable.
* *System proxy*: never both modes; replies are true; no core is stopped behind
  a network that still uses it.
* *Installation*: no registration without a binary; an upgrade that fails
  leaves a service that boots; what was reported is so.

## Modules

| Module | Models |
|---|---|
| `CoreManager` | the core supervisor with the watchdog, its callers and the operating system's processes |
| `CoreContract` | what the core manager promises its callers: an abstract specification, implemented by `CoreManager` |
| `OwnerSessions` | what sessions promise their clients, and which configuration a boot resumes: an abstract specification |
| `OwnerContract` | when an owner is committed and when not: an abstract specification, implemented by `OwnerLifecycle` |
| `OwnerLifecycle` | the handlers, the state files, crash, reconciliation, restore and maintenance, with the core manager as `CoreContract`; implements `OwnerSessions` and `OwnerContract` |
| `RuntimeStaging` | the runtime directory of an owner: staging, materialization, manifest |
| `ServiceElection` | lock, pid file and socket among several service processes |
| `SystemProxy` | the macOS proxy settings and the handlers that change them, with owners as `OwnerContract` |
| `IpcSupervisor` | the listener's restart loop over discrete time, its channels, and the callers of `stop_ipc_server` |
| `Installation` | installers, uninstallers, the repair gate and the service manager |
| `...Proofs` | inductive invariants and theorems, one module for each above; the three abstract specifications are proved with what implements them |
| `MC...` | instances for TLC: the sets behind the constants, and symmetry |

The modules meet where one's step is another's whole operation. `CoreManager`
and `OwnerLifecycle` meet in `CoreContract`: the one implements it (the property
`ImplementsContract`, and a theorem), each step of the other that touches the
manager is a step of it (the `Manager!` conjuncts). `OwnerLifecycle` and
`SystemProxy` meet in `OwnerContract` in the same way: the one implements it (a
theorem), each step of the other that changes or waits for an owner is a step of
it (the `Owners!` conjuncts). `RuntimeStaging` shows single steps of
`OwnerLifecycle`'s requests in detail and keeps of the rest what its own files
depend on; `IpcSupervisor` is the "serving" of one process of `ServiceElection`.
A comment in each module's head says what stands for the others.

Definitions marked `Mutant:` are not part of a specification. Each varies the
definition that follows it the way a plausible bug would (a dropped guard, an
off-by-one, two writes swapped), and the property that `PROJECT.json` lists with
it is violated once it takes that definition's place. They show that a property
can fail.

### CoreContract

Four variables: the configuration of the core the manager holds, whether a
process of it is alive, whether the lifecycle cell says Fatal, and whether the
start has returned (`settled`). Between a settled start and a stop that
confirms a death, the configuration may only go by way of Fatal (`GiveUp`);
restarts of the watchdog are `Restart` and change nothing but `alive`; a kill
that fails keeps the core held for the next stop (`KillFails`).

`CoreManager` maps to it by `HeldConfig` (the core in the hands of a start, of
the watchdog or of `failed_child`; between two cores of a recovery, the
configuration the watchdog restarts) and `OursAlive`. Two kinds of process are
not the manager's in this sense: those it has handed to the task that
`ChildGuard::drop` detaches, and those of an earlier service process.

### OwnerSessions and OwnerContract

`OwnerSessions` has the session that is current, the configuration a boot would
resume, and the highest generation ever granted. A session is granted while there
is none, above every generation before, and with its own configuration resumed or
none. `Withdraw` takes the configuration away, `Revoke` the session, and nothing
gives either back but another grant. In `OwnerLifecycle` the three are spread over
three files, each written by itself, best-effort or strict, and read again after a
crash; `Resumed` is what `restore_desired_state` makes of them, for an owner whose
desired state is not known to be lost.

`OwnerContract` has whether an owner is committed and how far a takeover or a stop
has come. A takeover goes through a moment without an owner (`Empty`), a stop is
for the committed owner, and an owner is committed at the end of a start and at no
other time. In `OwnerLifecycle` both follow from `active` and `pc`; that a
rollback's last step may fail and leave an owner behind is in `Finish`.

### CoreManager

One step is the code between two points where another task can run and see the
result: the `CORE_MANAGER` mutex, the join of the watchdog, the wait for the
child, the back-off, and the awaits of spawn, hardening and record.

* `proc`, `args`: the operating system's view of each pid, and the
  configuration it was started with. `dropped`: cores in the hands of the task
  that `ChildGuard::drop` detaches. `inherited`: a core of the previous service
  process that reconciliation could not stop.
* `running_pid`, `running_config`, `failed_child`, `core_state`: the fields of
  the struct, and the lifecycle cell. `runtime_record`: the pid in
  `core-runtime.json`.
* `wpc` and the variables after it: the watchdog's program point and captured
  locals. Timestamps are counted, in two groups: `older`, of which any number
  may leave the window when it is pruned, and `episode`, those of the present
  recovery, which are younger than the window (eleven attempts with their
  back-off take less than the ten minutes).
* `EffectiveState` and `StatusRuns`: what `service_status_snapshot` reports, and
  when it can run: under `OWNER_LIFECYCLE_LOCK`, so between two requests, and
  with `CORE_MANAGER` for the pid, so not inside a `stop_ipc_server`; the
  watchdog runs on. The lifecycle cell is read earlier than the pid, so a report
  can mix two moments; `ReportedStateIsTrue` is about reads in one.
* `pc`, `op`, `holder`, `starting`: the callers. `handler` stands for the
  requests, which `OWNER_LIFECYCLE_LOCK` serializes, and for the boot's restore;
  `shutdown` for `stop_ipc_server`. `op` remembers what a stop is part of: a
  takeover goes on to start, a rollback does not.

Every failure the code distinguishes is an action or a disjunct: spawn,
hardening and record may fail; a kill after that may fail as well
(`StartLeavesFailedChild`, `WatchdogLeavesFailedChild`); `wait` may fail; the
removal of the record may fail silently; the write of the record may fail after
its rename.

`StopFailedChild` is modelled as the code is, not as it reads: in

    if let Some(mut child) = self.failed_child.lock().await.take() {
        if let Err(error) = child.kill_now().await {
            *self.failed_child.lock().await = Some(child);

the guard of the first `lock()` lives to the end of the `if let`, so the second
one never returns. The caller moves to `"hung"`, and keeps `CORE_MANAGER`.

### OwnerLifecycle

One step is one durable effect or one call of the core manager, which is a step
of `CoreContract`: `stop_core` returns Ok with no core left, or fails with the
core still held and the state Fatal. (In the code a stop fails by its hang, see
the findings: the error path behind it cannot be reached. Here the caller gets
its error; what follows from the hang itself is `CoreManager`'s subject.)

* `active`, `generation`, `desired`, `record`: the files. `active` carries, as
  a ghost field, the configuration that was committed with the session.
* `live`, `core`, `fatal`: processes, the manager's core and the lifecycle cell.
  A pid stands for pid and start time, so a number that the operating system
  reuses is another pid. `unrecognised` has the live cores whose executable
  moved since they were recorded: `process_identity` no longer equals what the
  record says, and reconciliation takes them for another process.
* `mode`: the life of the service process. `Exit` may happen in any state, and
  leaves core and files as they are; `Boot` starts over with them. The check of
  the recorded process and its termination are two steps (`ReconcileFinds`,
  `ReconcileTerminates`), between which the core may die or its executable move;
  either may fail (`ReconcileFails`), after which the service serves, and no
  start passes `ensure_startup_reconciled`.
* `pc`, `req`: the request that holds `OWNER_LIFECYCLE_LOCK`, step by step
  through `owner_proxy_transition`, its rejection and its rollback.
* The watchdog, beside all that: `CoreRestarts` under a new pid and not yet in
  the record, `RestartRecorded`, `SupervisionEnds`.
* `PruneSession`, `PruneState`: `cleanup_stale_owner_state` while the service is
  down. The second may come without the first, since a session file that cannot
  be read counts as none.
* `Quarantine`: a desired state that cannot be parsed is moved aside by whoever
  reads it: a write, the restore, or `Status`.
* `highest`, `lost`, `stopped`, `found`, `orphaned`: history variables. `lost`
  has the owners whose desired state on disk is known not to be the one meant,
  because a best-effort write failed or a read fell back to the default: the
  code promises nothing about a restore for those, and neither do the
  properties. `orphaned` has the cores the code cannot know of: alive and
  unrecorded when their process died, or not to be reconciled with.

Requests that fail before their first effect change nothing and are left out,
except that they are part of the guards. The session token is represented by
its generation: `require_active_session` compares both, and each commit stores
a new pair.

### RuntimeStaging

* `version`: the sources, which the application replaces at any time; `file`,
  `manifest`, `config`: each destination, its record, and the bundle that
  `config.yaml` was written for.
* `plan`: what `plan_stage` or `plan_materialization` computed: identities read
  at that time, what is to be deleted, copied, swept, and what is skipped on the
  word of the old manifest. `copying` is a destination that is copied but whose
  source has not been read again yet.
* `core`, `noted`: the watchdog restarts the core without the lifecycle lock;
  `noted` says that the process is still the one the request noted. Staging
  compares them before it commits, and that comparison is not atomic with the
  commit.
* `ahead`, `suspect`: history. `ahead` is the time between the two writes of a
  commit, for ever if the second never comes. `suspect` collects, for each
  destination, the requests that left its record wrong: the properties say that
  nothing else does, and that a repetition of the same request heals it.

The core is external. It is assumed to read its download caches when it loads a
configuration, to download those that are missing then, and to leave them alone
until it loads again; the order in `stage_runtime` (delete, commit, reload)
relies on the same.

### ServiceElection

The Unix build; on Windows the listener is a named pipe that nobody can remove.
A process is its number, and what the operating system does when one ends
(`Ends`) belongs to the step: it releases the lock and leaves the files.
Numbers in `Reusable` are given out again, to a service or to something else.
Every phase of `acquire_service_owner` is a program point, since another process
may be anywhere in between: pid file and lock file are read one after the other,
the old owner is looked for once more before the clean-up, and the clean-up is
two removals. The probes are one action with an attempt counter. An owner may be
slow, hang while it boots or while it stops its core, end at any time, or fail
to remove its socket. A signal ends a process that has not
installed its handler yet, asks one that has, and may be ignored by an unrelated
one; SIGKILL may be slow. Maintenance takes the same lock.

### SystemProxy

A configuration is two writes, one per mode, each to the network service that is
active when it is made. A write may leave its setting `Partial`, or find no
service. `purpose` says what a pair of writes is part of: clearing, the
compensation that makes a failed clear retryable, applying, or undoing an
application that failed. What else the handlers do is seen through
`OwnerContract`: `pc` is "stopping" where the previous core is stopped and its
owner cleared, and "starting" from there to the commit, and either may fail or be
cut by a crash with or without the owner. Cores that exit or are restored change
nothing here. `moved` and `tangled` are history: the network changed while the handler ran, and services that got halves of two configurations
because of that. The properties are about the network that stayed; the code
makes no promise for the other, and no reader of the settings could.

### IpcSupervisor

* Time is discrete; a tick is the 100 ms of the first back-off. Instants are
  kept as ages and forgotten at the window's length, which keeps the state finite
  and loses nothing, as the code only compares. `granted` is history: the ages of
  the ends that were answered by a rebuild, kept apart from `restart_timestamps`,
  which the code prunes and counts with; like those it is pruned, by time alone,
  as `Recent` computes from the code's condition.
* `pc`: the supervisor, and the other callers of `stop_ipc_server` (`Guest`),
  which the library exports. `lock` is `IPC_LIFECYCLE_LOCK`.
* `sender`, `done`: the slots `IPC_SHUTDOWN_SENDER` and `IPC_SHUTDOWN_DONE`. Each
  holds the channel of a listener, by its name, and is filled (`SetSender`,
  `SetDone`) and emptied (`Signal`, `TakeDone`) in a step of its own; a sender
  that is replaced is dropped, which its listener hears (`Tell`). `told` and
  `alive` are the two channels as the listener's task sees them: told to end, and
  holding its half of the second. `awaits` is the receiver a caller has taken.
  A listener may end between any two steps.
* `Drain` waits for the receiver that was taken, whatever is in the slots by
  then. That this is the last listener is `StopIsComplete`, and it is the lock
  that makes it so, held from before the slots are emptied until the wait is
  over; the mutant releases it earlier.
* `StopCoreHangs` is finding 1 seen from here: `stop_core` does not return, and
  the lock is kept. An error of `stop_core` is unreachable and not modelled.

### Installation

One skeleton for three platforms, `platform` being chosen initially. They differ
in whether a failing stop is ignored (Linux), in the order of removal (macOS
disables before it boots out; its `launchctl stop` is but an end of the service,
which launchd may start again), in the registration (written in place, or one
call) and in what a start of a running service does. On Windows a service that
is found stopped is not stopped (`FoundStopped`), so that a restart by the
service controller may still be due and come at any step; what keeps the
properties true there is that the system refuses to replace a binary that runs
and to start a service that runs, and that the entry goes only once nothing
runs. A failing
command and a kill leave the same state, the steps made so far with the gate
released by the operating system, so both are `Abort`. `outcome`, `standing` and
`unstopped` are history: what was last reported, whether a service is meant to
be installed, and whether Linux ignored a stop. The gate's file lock, the
candidate at one path for all installers and the in-place write of unit and
plist are what the properties turn on.

## Runs

Seven runs pass; five exhibit a finding.

| Run | Instance | Shows |
|---|---|---|
| `core_supervision` | 2 pids, 2 configurations, 2 restarts; fair | one core, none lost; what is published and reported is true; stops are final; implements `CoreContract`; a recovery ends, callers get through |
| `core_stop_hangs` | as above, 1 configuration, 1 restart | **violated**: `stop_core` returns |
| `owner_lifecycle` | 2 owners, 2 configurations, 2 pids, 3 generations; symmetry | sessions, commits, acknowledged stops, restores and the traces of cores across crashes, failed writes, restarts, moved executables and maintenance; implements `OwnerSessions`, so what is withdrawn stays so |
| `owner_found_core` | 1 owner, 1 configuration, 2 pids, 2 generations | **violated**: a core found at boot is stopped before another starts |
| `runtime_staging` | 2 destinations, 2 sources, 2 urls, 4 bundles, 2 versions | the manifest is true but for what a history variable names; a repeated request heals |
| `staging_other_source` | 2 bundles | **violated**: a committed asset is from its source |
| `staging_late_restart` | 2 bundles | **violated**: a committed cache is from its url |
| `service_election` | 3 processes, one number reusable, 2 + 2 attempts; fair | one owner, known and reachable by pid; takeovers hit owners; every starter decides |
| `election_lost_socket` | 3 processes, none reusable | **violated**: who serves is found at the socket's path |
| `system_proxy` | 2 network services, 2 addresses; symmetry | modes exclude each other, replies are true, stops are direct |
| `ipc_supervisor` | 1 other caller, 2 listeners, budget 4 in 11 ticks, back-off up to 5; fair | rebuilds are rationed, given up on bursts only; stops leave no listener; a shutdown is served unless the core's stop hangs |
| `installation` | 2 installers, 3 versions, 3 platforms; symmetry | a binary for each registration, upgrades leave a bootable service, reports are true |

Bounds.

* *core_supervision*. Pids are reused once their process is reaped. One is for
  the core, the other for one in the hands of a detached kill, and a third would
  have nothing to do: `OneCore` is proved, and a new core needs only a free pid.
  Two configurations tell the right one from a wrong one. Two restarts reach the
  first attempt (no back-off), a later one and exhaustion; the code's ten differ
  in number only. 252,869 states.
* *owner_lifecycle*. Two owners are a previous one and a successor; two pids the
  core and an orphan; three generations let a session be granted, revoked,
  granted to the other and again, with one spent on a commit that failed.
  `MaxGeneration` bounds requests that would spend a generation and appears in
  no property. A restart needs a pid that is neither the old core's nor the
  record's; with an orphan alive as well there is none, and a third pid would
  add only orphans beside orphans, which no step tells apart. 3.6 million states.
* *runtime_staging*. Two destinations, so that one file operation can succeed
  and the next fail; the four bundles are an asset that changes its source or
  gives way to a cache, a cache that changes its url, gives way to an asset or
  is declared no more. One source has no modification time. `MaxVersion` 2 is a
  change of a source at every point of a request. About 3.1 million states.
* *service_election*. Three processes: an owner, one taking over, and one that
  gets in between. Two attempts are a first and a last; the code's 20 and 10
  differ in number only.
* *system_proxy*. Two network services, before and after a change; two addresses,
  the previous owner's and the next one's. 163,288 states.
* *ipc_supervisor*. The maximal back-off is the code's, and is reached when an
  earlier end has left the window; the window of 11 ticks holds four ends with
  all but the longest back-off, so that ends fall out of it while others are
  still in it. The code's figures, 10 in 100 ticks, are of the same shape. Two
  listeners: a name is used again once no slot, task or caller refers to it, and
  there is at most one besides the new one that something refers to, or
  `SetSender` would be disabled and the liveness property violated. One other
  caller competes with the supervisor for the lock and takes its channels.
  225,798 states.
* *installation*. Two programs at once are what the gate is about. Three
  versions: two that serve each other's clients, and one of another protocol
  epoch.

Deadlock is checked except in `CoreManager`'s runs, where a stop that hangs
leaves nothing to do, and in `ipc_supervisor`, which ends with the process.

Fairness.

* `CoreManager`. Tokio polls every ready task, so the watchdog takes its steps
  (weak fairness) and so do callers inside a call. The mutex is fair, so
  `Acquire` is strongly fair. `child.wait` completes once the child has exited
  (weak). `select!` picks at random among ready arms, so a shutdown pending each
  time round is eventually picked: strong fairness of `WatchdogShutdown`.
  Nothing is assumed of the environment: a core need not exit, a client need not
  call, a detached kill need not succeed.
* `ServiceElection`. A starter runs (weak fairness of `Acquire(p)`): its probes,
  its wait for a signalled process and its tries for the lock are all bounded
  by attempts. Nothing is assumed of owners or of others.
* `IpcSupervisor`. Tasks are polled and time passes: a caller takes its steps
  inside a call, and a listener that was told to end ends (weak). The lock is a
  tokio mutex, which is granted in the order of the requests, so taking it is
  strongly fair; so is the arm of `select!` that waits for a shutdown, by the same
  argument as above. Nothing is assumed of `stop_core`: with the weak fairness of
  `StopStep` it either returns or hangs (`StopCoreHangs`), with the lock held for
  ever. `ShutdownIsServed` says that everything is served unless that happens; a
  hang is finding 1, and `CoreManager` shows what it takes. Nothing is assumed
  either of a listener that was not told, or of the other callers.

## Findings

1. `stop_core` waits for itself (`src/core/manager.rs:397`), run
   `core_stop_hangs`: see `StopFailedChild` above. `CORE_MANAGER` and
   `OWNER_LIFECYCLE_LOCK` stay held, so no later request, Status included, is
   answered.
2. A core that the boot found but could not stop is forgotten by a graceful
   shutdown (`src/core/manager.rs:422`), run `owner_found_core`: `stop_core`
   removes the runtime record even when it has no core of its own; the next boot
   reconciles with nothing and starts a second core.
3. A staging that is refused has already replaced files, and the manifest still
   speaks of the old ones (`src/core/runtime_generation/staging.rs:222`), run
   `staging_other_source`: a return to the old bundle skips the copy.
4. The check that the core is still the one noted is not atomic with the commit
   (`src/core/runtime_generation/staging.rs:248`), run `staging_late_restart`:
   a core restarted in between downloads from the old url what the manifest
   then records as coming from the new one. A crash between the two writes of
   the commit does the same.
5. The clean-up of a takeover removes pid file and socket before it has the lock
   (`src/core/owner.rs:85`), run `election_lost_socket`: they may be those of a
   process that has been elected and serves by then. It stays unreachable until
   the next starter kills it.

Hazards without a promise in the code to hold it to are listed in
`PROJECT.json` with a note and no finding: a takeover that signals a process
which got the number of a dead owner; a proxy left on a network service that is
not in use when it is cleared; a Linux installer that ignores a failing stop; a
core spawned and not yet recorded when the service dies, which is the exception
that `NoCoreIsLost` states.

## Proofs

Proved by TLAPS for every value of the constants; the theorems are listed in
`PROJECT.json`, but for `Inductive`, which every module has. The assumptions, all checked by TLC on the instances, are that
null values are not members of the sets beside which they are used, that bounds
are natural numbers, and what the modules' heads state of their sets. In each
proof module `IInv` is the inductive invariant, one lemma per action shows that
the action preserves it, and each property follows from it.

*CoreManager.* No invariant of interest is inductive by itself. `IInv` adds: the
mutex (`Mutex`: who is inside a call is the holder, and a stop nested in a start
never happens, which is itself a consequence of the callers' discipline); what
each program point knows (`CallerPoints`, `WatchdogPoints`: past the join there
is no watchdog, inside `start_core` there is nothing at all to supervise);
ownership (`Ownership`: every process that is not free has one owner, and every
owner a process that is not free); the reconciliation gate (`Gate`); and which
configuration runs (`Configured`). `AtMostOneCore` then follows since two live
cores would need two owners, and the program points exclude every pair of
owners. The action property `StopMeansStopped` is a consequence of `IInv` on a single
step. For `Refinement`, that `CoreManager` implements `CoreContract`, each
action is shown to be one of the contract's steps or a stutter under the mapping;
what makes it so is `Configured`, which says that watchdog and manager mean the
same configuration, and `Ownership`, which says whose a live process is.

*OwnerLifecycle.* `IInv` adds what each point of a transition knows of the files
and of the core (`HandlerPoints`: from the clearing of the old session to the
commit there is no active session), the same of the boot (`BootPoints`),
freshness of generations (`FreshGeneration`: the file counts every generation
that was ever valid, and the one about to be committed is above all of them),
durability of acknowledged stops (`StopIsDurable`: an owner told so has neither
core nor session nor request), `Reconciled` (once the boot has reconciled, no
recognised process but the manager's is in the record) and `Accounted` (before
that the recorded core, and afterwards the manager's, is the only one alive that
is not orphaned).
`NoCoreIsLost` is `Accounted` seen from outside: the proof has to follow a core
from the manager to the record and back through every stop that half fails. The
refinement to `OwnerSessions` needs `FreshGeneration`, the points where `active`
changes, and who writes the desired state when: `DesiredWriters` lists the writers,
`ResumedStep` shows that between grants the configuration resumed can only go, and
`SessionStep` that every step grants, withdraws, revokes or stutters. A grant
resumes its own configuration because `HandlerPoints` keeps, from the write of the
desired state to the commit, that it is the request's or known to be lost.

*RuntimeStaging.* What makes the manifest's honesty inductive is what the
request under way knows of each destination: what it skips is recorded as it
wants it (`Skips`), what it has deleted or copied is as it left it (`Deletes`
and its companions) unless a core came up that it will notice or that left a
mark in `suspect`. `Control` ties core, plan and program point together. The
invariant is stated per destination, so that each action's lemma is about one
that it touches and one that it does not.

*ServiceElection.* `Locked`: who is past the lock holds it, hence `OneOwner`.
`Written`: nobody but the owner writes either file, and clean-ups only remove
the pid file. `Traces`: a number found in a file, or read from one, was an
owner's, if numbers are not reused: so a takeover is aimed at one. `Aimed` and
`Counted` make the locals follow the phases.

*SystemProxy.* `Between`: between the two writes the conflicting mode of the
first service is off, for which their order is chosen by the target mode.
`Steady` is what each point knows of a network that did not change; `Aims` and
`Silent` tie purpose to goal and reply to rest.

*Installation.* `Gated`: one program at a time, and no claim while it works.
`StagedIsOwn`, `Published`, `Registered`, `Quiet` follow an installer from the
candidate to the running service; `Standing` is what every prefix of them keeps.

*IpcSupervisor.* `granted` is pruned with the same condition as the code's
`restart_timestamps`, so the two never drift: until the supervisor has failed
they are equal (`Counted`), and the budget bounds the one through the other.
`RecentFacts` says that pruning never makes a sequence longer; it counts with
the length of a subsequence, so no induction over the sequence is needed.
`StopIsComplete` is about a wait whose receiver left its slot long before, and is
not inductive: it needs that the lock is held by who is inside (`Locked`), that
only the supervisor's last listener can be alive (`OneListener`), that this one
can be told or has been (`Reachable`), and that its receiver is in the slot or in
the hands of the caller that waits (`Awaitable`). The last fails as soon as a stop
lets go of the lock before its wait. `ServerFound` shows the branch of
`run_ipc_server` without a server to be unreachable.

### What has to end

Liveness needs fairness and ENABLED, which are out of the prover's reach; its
safety half is not. For every loop and lock a measure is proved that the code's
own steps decrease, for all constants, so that a liveness property of a run
lacks no more than the scheduling of an enabled step:

* `CallsComplete`: `CallsAreBounded` (a call of the manager is fifteen steps at
  most, however stops, aborts and takeovers nest) and `NoDeadlock` (no call
  waits for a call or a watchdog that cannot go on; the join needs that the
  signal was sent, `Joining`). The exception is the hang of finding 1.
* `RecoverySettles`: `RecoveriesAreBounded`; `RecoveryRank` counts down with the
  attempts left, for which `Attempts` keeps the episode within `MaxRestarts`.
* `AcquisitionDecides`: `AcquisitionIsWaitFree`; no step of another process,
  signal or clean-up adds to what a starter has left.
* `ShutdownIsServed`: `StopsEnd`; a stop that has the lock gets nearer to its
  end with each step of its own (`StopAdvances`), no other caller's step sets it
  back or makes a listener meanwhile, and the listener it waits for has been told
  to end (`AwaitedIsTold`). The exception is the hang of finding 1 again.
* `HandlersEnd` of `SystemProxy` and `RequestsEnd` of `RuntimeStaging` say the
  same of the proxy handlers (a compensation is not repeated) and of stage and
  start (`StepsLeft` counts the file operations left in the plan; it needs a
  finite `Dest`, which a manifest is). No run checks a liveness property of
  these two: their environment is without fairness.

### How the parts fit

*Manager and handlers.* `Refinement` proves that `CoreManager` implements
`CoreContract`; `Composition` proves the other side, that in every process of
`OwnerLifecycle` the manager starts in a new state (`NewManager`) and each step
is one of the contract or leaves it alone (`KeepsContract`). So the handlers ask
nothing of the manager that the code does not give.
`ConfigurationsDoNotOverlap` is what `CoreContract` is for: from the contract's
own invariant and the refinement, a configuration makes way for another only
through a state without a live core.

*Election and process.* `OwnerLifecycle` has one service process at a time, and
maintenance only while it is down. `ServicesDoNotOverlap` proves this of
`ServiceElection`, for any number of processes starting, crashing and being
terminated.

*Sessions.* `EndedSessionsStayEnded` concludes from `SessionsImplemented` what a
client relies on: a session once over is not accepted again, ever.
`WithdrawnSessionsStayWithdrawn` is the same of the core behind it: once the
desired state says stopped, no boot restores a core for that session, whichever
later write of the stop fails and wherever it crashes. It needs no exception for
lost desired states, since no write that fails or falls back makes one run
(`StoppedStep`).

*Handlers and proxy.* `OwnersKept` proves that `OwnerLifecycle` implements
`OwnerContract`, so the owners that `SystemProxy` sees committed, cleared, pruned
and left behind are those of the handlers, with every failure and crash that
`OwnerLifecycle` has. `StopsAreAdmitted` is what the contract gives back: from the
admission of a StopClash to the end of its stop, while the proxy is cleared and
compensated, the owner stays committed.

*Manifest and configuration.* The watchdog and the boot load `config.yaml` without
looking at the manifest. `RestartsServed` joins `ManifestIsHonest` and
`ManifestIsOfConfig`: at every moment of a request they find in a recorded file
what `config.yaml` declares, unless a commit was cut or history names the request
or load that made the record wrong.

*Binary and service.* `BinariesAreChangedAtRest` says of the two programs
together that the binary is replaced or removed by the one that holds the gate,
and not under a running service, unless its stop has failed and was ignored.

### What the findings come to

A counterexample shows that a defect exists; these theorems show how far it
goes, which is what a repair has to know.

* Finding 1, `HangIsForEver`: a stop that reaches the retry keeps `CORE_MANAGER`
  until the process ends, with the failed core published and the state Fatal.
  `NoDeadlock` says that there is no other hang.
* Finding 2, `FoundCoresEscapeByStops`: a live core that a boot has found keeps
  its record until a process that has not reconciled calls `stop_core`. A
  reconciled process never forgets one, for its record names its own core
  (`Reconciled`), which is not an orphan (`Accounted`). The shutdown of the run
  is one way; a takeover after a failed boot is another. It is enough that
  `stop_core` leaves a record alone that is not its own.
* Finding 3, `AssetsOnlyWrongByOthers`: only a request with another bundle that
  gave up leaves a wrong asset (`AssetMark`); crashes, cores that load in the
  window and sources replaced meanwhile do not.
* Finding 4, `RetryHeals`: a cache is only wrong where its record is suspect,
  because of another bundle or of a core that loaded in the window.
* Finding 5, `OnlyCleanUpsTakeSockets`: nothing but the clean-up of another
  starter takes the socket of a process that serves.

### What is not proved

Liveness, checked by TLC only. Every invariant, action property and refinement
of a passing run is proved. That `RuntimeStaging` and `IpcSupervisor` show steps of
the other modules in detail is by convention, as described under Modules.

## Not modelled, and why

* What kode-bridge does to a handler that exceeds its time limit: the library is
  not part of the repository. A handler runs to its end or the process dies.
* How each platform reads an executable path and a start time; that two reads of
  one process agree until its file moves is assumed.
* In a report of Status, the time between its reads: `EffectiveState` and
  `StatusIsTrue` are about one moment. A report may mix two of them, the state
  from before an exit of the core and the pid from after it, say, and nothing in
  the code excludes that. After a failed reconciliation Status says RecoveringCore of an
  active owner whose core nobody recovers; the code makes no other promise.
* The removal of per-start directories of older releases after a successful
  start (`assets.rs`), and of the desired-state file of releases without owners
  (`desired.rs`): nothing reads them any more.
* Authentication, ACL and path checks: functions of what the operating system
  says of a peer or a file; a model would restate the operating system.
* Protocol types, the client, logging, log channels: no state that a property is
  about.
* Legacy clean-up: once, at installation, its failures ignored by its callers.
* In `CoreManager`, the lifecycle cell that a handler sets to Fatal when the core
  is stopped and the owner cannot be cleared (`src/core/server.rs:239`, `:754`):
  that belongs to the handlers and is part of `OwnerLifecycle`.
* A Windows entry that is marked for deletion while the service runs on: the
  uninstaller fails then, and the entry goes when the service ends.
* The on-demand start of the Windows service by its channel, and permissions of
  the installed files.

## Plan

Done, in this order: `CoreManager`, `OwnerSessions` and `OwnerLifecycle`,
`RuntimeStaging`, `ServiceElection`, `SystemProxy`, `IpcSupervisor`,
`Installation`, each with its run; `CoreContract` between the first two, process
identities, watchdog, Status and maintenance in `OwnerLifecycle` and
`CoreManager`; all invariants and the refinements proved.

Progress measures, the compositions through `CoreContract` and `OwnerContract`,
withdrawn sessions and the theorems on the findings came after them.

Next, what is left in the order of what matters most:

1. An abstract generation (`declared`, `served`) that `RuntimeStaging`
   implements where nothing is suspect, with its theorem.
2. That the owner `RuntimeStaging` stops and starts is one of `OwnerContract`'s,
   in the manner of `SystemProxy`.
3. A handler that is dropped at an await, once it is settled what the library
   does at its time limit: a watchdog that nobody joins any more beside the next
   start, and takeovers without their rollback.
4. Liveness of `OwnerLifecycle`: a boot ends in serving, a request is answered.
