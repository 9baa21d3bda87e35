----------------------------- MODULE CoreManager -----------------------------
(***************************************************************************)
(* The core supervisor of src/src/core/manager.rs: `start_core`,           *)
(* `stop_core` and the watchdog task, run against the operating system's   *)
(* processes and called the way server.rs and desired.rs call them.        *)
(*                                                                         *)
(* One step is the code between two points where another task can run and  *)
(* observe it: the CORE_MANAGER mutex, the join of the watchdog, the wait  *)
(* for the child, the back-off, and the awaits of spawn, of the hardening  *)
(* of the socket and of the runtime record.                                *)
(***************************************************************************)
EXTENDS Integers, FiniteSets

CONSTANTS
    Pid,            \* process identifiers the operating system can hand out
    NoPid,          \* running_pid = 0, and an empty ChildGuard slot
    Config,         \* core configurations a client may ask for
    NoConfig,
    MaxRestarts     \* WatchdogConfig::max_restarts

ASSUME PidAssumption == NoPid \notin Pid
ASSUME ConfigAssumption == NoConfig \notin Config
ASSUME MaxRestartsAssumption == MaxRestarts \in Nat

VARIABLES
    \* the operating system
    proc,            \* what each pid is: free, a live core, or an unreaped one
    args,            \* the configuration each core was spawned with
    dropped,         \* cores whose guard was dropped: a detached task kills them
    inherited,       \* cores of the previous service process, no child of ours
    \* struct CoreManager and the lifecycle cell of state.rs
    running_pid, running_config, core_state, failed_child,
    runtime_record,  \* the pid in core-runtime.json
    reconciled,      \* STARTUP_RECONCILED
    \* the watchdog task and its captured locals
    wpc,
    child,           \* the ChildGuard it owns
    wconfig,
    shutdown_sent,   \* the oneshot has been fired
    exhausted,       \* recovery_exhausted
    watchdog_result, \* what joining the task returns
    older,           \* restart timestamps in the window from earlier exits
    episode,         \* restart timestamps pushed since the last exit
    consecutive,     \* consecutive_attempt # 0: the next attempt backs off
    \* the callers
    holder,          \* who holds CORE_MANAGER
    pc, op,
    nested,          \* stop_core was called by start_core
    starting         \* the ChildGuard start_core owns

osVars     == <<proc, args, dropped, inherited>>
mgrVars    == <<running_pid, running_config, core_state, failed_child>>
diskVars   == <<runtime_record, reconciled>>
taskVars   == <<wconfig, shutdown_sent>>
endVars    == <<exhausted, watchdog_result>>
windowVars == <<older, episode, consecutive>>
wdVars     == <<wpc, child, taskVars, endVars, windowVars>>
callVars   == <<holder, pc, op, nested, starting>>
vars       == <<osVars, mgrVars, diskVars, wdVars, callVars>>

-----------------------------------------------------------------------------
(* Who may call the manager: request handlers, one at a time under           *)
(* OWNER_LIFECYCLE_LOCK, and stop_ipc_server, which does not take that lock. *)
Caller   == {"handler", "shutdown"}
NoCaller == "none"

(* "restore" is the boot-time start, before the listener exists. *)
Ops == {"stop", "takeover", "rollback", "restore"}

StopPcs  == {"stop", "join", "reap", "clear", "hung"}
StartPcs == {"start", "spawn", "harden", "record"}
CallerPcs == {"idle", "wantStop", "wantStart"} \cup StopPcs \cup StartPcs

CoreStates == {"Starting", "Running", "RecoveringCore", "Fatal"}

Recovering  == {"exited", "backoff", "spawn", "harden", "record"}
WatchdogPcs == {"none", "wait", "finish", "done"} \cup Recovering

CallersTypeOK ==
    /\ holder \in Caller \cup {NoCaller}
    /\ pc \in [Caller -> CallerPcs]
    /\ op \in [Caller -> Ops]
    /\ nested \in BOOLEAN

TypeOK ==
    /\ proc \in [Pid -> {"free", "alive", "zombie"}]
    /\ args \in [Pid -> Config \cup {NoConfig}]
    /\ dropped \in SUBSET Pid
    /\ inherited \in SUBSET Pid
    /\ running_pid \in Pid \cup {NoPid}
    /\ running_config \in Config \cup {NoConfig}
    /\ core_state \in CoreStates
    /\ failed_child \in Pid \cup {NoPid}
    /\ runtime_record \in Pid \cup {NoPid}
    /\ reconciled \in BOOLEAN
    /\ wpc \in WatchdogPcs
    /\ child \in Pid \cup {NoPid}
    /\ wconfig \in Config \cup {NoConfig}
    /\ shutdown_sent \in BOOLEAN
    /\ exhausted \in BOOLEAN
    /\ watchdog_result \in {"ok", "err"}
    /\ older \in Nat
    /\ episode \in Nat
    /\ consecutive \in BOOLEAN
    /\ CallersTypeOK
    /\ starting \in Pid \cup {NoPid}

(* The processes and the record left by the previous service process: none  *)
(* once reconciliation succeeded; the recorded core, dead or alive, when it *)
(* failed (and core starts remain blocked).                                 *)
InitBoot ==
    /\ dropped = {}
    /\ \/ /\ reconciled = TRUE
          /\ runtime_record = NoPid
          /\ inherited = {}
          /\ proc = [p \in Pid |-> "free"]
          /\ args = [p \in Pid |-> NoConfig]
       \/ /\ reconciled = FALSE
          /\ runtime_record \in Pid
          /\ inherited \in {{}, {runtime_record}}
          /\ proc = [p \in Pid |-> IF p \in inherited THEN "alive" ELSE "free"]
          /\ \E cfg \in Config :
                args = [p \in Pid |-> IF p \in inherited THEN cfg ELSE NoConfig]

(* CoreManager::new.  The boot task restores the desired core unless        *)
(* reconciliation failed or there is nothing to restore.                    *)
Init ==
    /\ InitBoot
    /\ running_pid = NoPid
    /\ running_config = NoConfig
    /\ core_state = "Running"
    /\ failed_child = NoPid
    /\ wpc = "none"
    /\ child = NoPid
    /\ wconfig = NoConfig
    /\ shutdown_sent = FALSE
    /\ exhausted = FALSE
    /\ watchdog_result = "ok"
    /\ older = 0
    /\ episode = 0
    /\ consecutive = FALSE
    /\ holder = NoCaller
    /\ op = [c \in Caller |-> IF c = "handler" THEN "restore" ELSE "stop"]
    /\ \E first \in {"idle"} \cup (IF reconciled THEN {"wantStart"} ELSE {}) :
           pc = [c \in Caller |-> IF c = "handler" THEN first ELSE "idle"]
    /\ nested = FALSE
    /\ starting = NoPid

-----------------------------------------------------------------------------
(* Processes.                                                              *)

Live == {p \in Pid : proc[p] = "alive"}

Spawned(p, cfg) ==
    /\ proc[p] = "free"
    /\ proc' = [proc EXCEPT ![p] = "alive"]
    /\ args' = [args EXCEPT ![p] = cfg]
    /\ UNCHANGED <<dropped, inherited>>

(* kill_now succeeded, or wait returned: the process is gone and reaped. *)
Reaped(p) ==
    /\ proc' = [proc EXCEPT ![p] = "free"]
    /\ args' = [args EXCEPT ![p] = NoConfig]
    /\ UNCHANGED <<dropped, inherited>>

(* A core crashes, or is killed by someone else.  Ours stays a zombie until *)
(* it is waited for; an inherited one is reaped by init.                    *)
CoreExit(p) ==
    /\ proc[p] = "alive"
    /\ IF p \in inherited
       THEN /\ proc' = [proc EXCEPT ![p] = "free"]
            /\ args' = [args EXCEPT ![p] = NoConfig]
            /\ inherited' = inherited \ {p}
       ELSE /\ proc' = [proc EXCEPT ![p] = "zombie"]
            /\ UNCHANGED <<args, inherited>>
    /\ UNCHANGED <<dropped, mgrVars, diskVars, wdVars, callVars>>

(* The task ChildGuard::drop detaches; its kill may fail, and then nobody *)
(* tries again.                                                           *)
DropKill(p) ==
    /\ p \in dropped
    /\ proc' = [proc EXCEPT ![p] = "free"]
    /\ args' = [args EXCEPT ![p] = NoConfig]
    /\ dropped' = dropped \ {p}
    /\ UNCHANGED <<inherited, mgrVars, diskVars, wdVars, callVars>>

(* remove_core_runtime_record ignores the error of the removal. *)
RecordRemoved == runtime_record' \in {NoPid, runtime_record}

(* write_runtime_record_for_config that fails may fail after the rename. *)
RecordWriteFailed(p) == runtime_record' \in {runtime_record, p}

-----------------------------------------------------------------------------
(* The callers: StopClash, StartClash (stop the previous core, start the   *)
(* new one, stop again when the start or the commit fails) and             *)
(* stop_ipc_server.  CORE_MANAGER is released between the calls.           *)

Booting == op["handler"] = "restore" /\ pc["handler"] # "idle"

(* Mutant: trust start_core to stop whatever runs. *)
StartClashUnstopped ==
    /\ pc["handler"] = "idle"
    /\ pc' = [pc EXCEPT !["handler"] = "wantStart"]
    /\ op' = [op EXCEPT !["handler"] = "takeover"]
    /\ UNCHANGED <<holder, nested, starting, osVars, mgrVars, diskVars, wdVars>>

StartClash ==
    /\ pc["handler"] = "idle"
    /\ pc' = [pc EXCEPT !["handler"] = "wantStop"]
    /\ op' = [op EXCEPT !["handler"] = "takeover"]
    /\ UNCHANGED <<holder, nested, starting, osVars, mgrVars, diskVars,
                   wdVars>>

Stop(c) ==
    /\ pc[c] = "idle" /\ ~Booting
    /\ pc' = [pc EXCEPT ![c] = "wantStop"]
    /\ op' = [op EXCEPT ![c] = "stop"]
    /\ UNCHANGED <<holder, nested, starting, osVars, mgrVars, diskVars,
                   wdVars>>

Acquire(c) ==
    /\ holder = NoCaller
    /\ pc[c] \in {"wantStop", "wantStart"}
    /\ holder' = c
    /\ pc' = [pc EXCEPT ![c] = IF @ = "wantStop" THEN "stop" ELSE "start"]
    /\ UNCHANGED <<op, nested, starting, osVars, mgrVars, diskVars, wdVars>>

Goto(c, next) ==
    /\ pc' = [pc EXCEPT ![c] = next]
    /\ UNCHANGED <<holder, op, nested>>

(* The call returns and its caller goes on with `next` in operation `o`. *)
Return(c, next, o) ==
    /\ holder' = NoCaller
    /\ pc' = [pc EXCEPT ![c] = next]
    /\ op' = [op EXCEPT ![c] = o]
    /\ nested' = FALSE

(* start_core returned Err with core_state left at `s`: StartClash stops   *)
(* the rejected core; the boot task reports Fatal, or Running when the     *)
(* binary is missing and it has dropped the desired start.                 *)
StartFails(c, s) ==
    IF op[c] = "takeover"
    THEN Return(c, "wantStop", "rollback") /\ core_state' = s
    ELSE Return(c, "idle", op[c]) /\ core_state' \in {"Fatal", "Running"}

(* stop_core returned Ok or Err. *)
StopSucceeds(c) ==
    IF nested THEN /\ pc' = [pc EXCEPT ![c] = "spawn"]
                   /\ nested' = FALSE
                   /\ UNCHANGED <<holder, op>>
    ELSE Return(c, IF op[c] = "takeover" THEN "wantStart" ELSE "idle", op[c])

StopFails(c) ==
    IF nested THEN StartFails(c, core_state)
              ELSE Return(c, "idle", op[c]) /\ UNCHANGED core_state

-----------------------------------------------------------------------------
(* stop_core.                                                              *)

(* Mutant: the handle is awaited without firing the channel. *)
StopSignalUnsent(c) ==
    /\ pc[c] = "stop"
    /\ Goto(c, IF wpc = "none" THEN "reap" ELSE "join")
    /\ UNCHANGED <<wdVars, starting, osVars, mgrVars, diskVars>>

(* Mutant: the channel is fired and the handle dropped. *)
StopSignalDetached(c) ==
    /\ pc[c] = "stop"
    /\ shutdown_sent' = (shutdown_sent \/ wpc # "none")
    /\ watchdog_result' = "ok"
    /\ Goto(c, "reap")
    /\ UNCHANGED <<wpc, child, wconfig, exhausted, windowVars, starting,
                   osVars, mgrVars, diskVars>>

(* stop_watchdog fires the shutdown channel and awaits the task's handle. *)
StopSignal(c) ==
    /\ pc[c] = "stop"
    /\ shutdown_sent' = (shutdown_sent \/ wpc # "none")
    /\ Goto(c, IF wpc = "none" THEN "reap" ELSE "join")
    /\ watchdog_result' = IF wpc = "none" THEN "ok" ELSE watchdog_result
    /\ UNCHANGED <<wpc, child, wconfig, exhausted, windowVars, starting,
                   osVars, mgrVars, diskVars>>

StopJoin(c) ==
    /\ pc[c] = "join" /\ wpc = "done"
    /\ wpc' = "none"
    /\ Goto(c, "reap")
    /\ UNCHANGED <<child, taskVars, endVars, windowVars, starting, osVars,
                   mgrVars, diskVars>>

(* Without a failed child the watchdog's result decides. *)
StopNoFailedChild(c) ==
    /\ pc[c] = "reap" /\ failed_child = NoPid
    /\ IF watchdog_result = "ok" THEN Goto(c, "clear") /\ UNCHANGED core_state
                                 ELSE StopFails(c)
    /\ UNCHANGED <<starting, running_pid, running_config, failed_child,
                   osVars, diskVars, wdVars>>

(* Mutant: the failure of the retried kill is only logged. *)
StopFailedChildAnyway(c) ==
    /\ pc[c] = "reap" /\ failed_child # NoPid
    /\ failed_child' = NoPid
    /\ Reaped(failed_child) \/ UNCHANGED osVars
    /\ Goto(c, "clear")
    /\ UNCHANGED <<starting, running_pid, running_config, core_state,
                   diskVars, wdVars>>

(* The scrutinee of the `if let` is `failed_child.lock().await.take()`:    *)
(* its guard lives to the end of the body, so when the kill fails and the  *)
(* body locks failed_child again, the call waits for itself for ever,      *)
(* holding CORE_MANAGER.  The core stays as it was, in a taken guard.      *)
StopFailedChild(c) ==
    /\ pc[c] = "reap" /\ failed_child # NoPid
    /\ \/ /\ Reaped(failed_child)
          /\ failed_child' = NoPid
          /\ Goto(c, "clear")
       \/ /\ Goto(c, "hung")
          /\ UNCHANGED <<failed_child, osVars>>
    /\ UNCHANGED <<starting, running_pid, running_config, core_state,
                   diskVars, wdVars>>

StopClear(c) ==
    /\ pc[c] = "clear"
    /\ running_pid' = NoPid
    /\ running_config' = NoConfig
    /\ RecordRemoved
    /\ core_state' = "Running"
    /\ StopSucceeds(c)
    /\ UNCHANGED <<failed_child, reconciled, starting, osVars, wdVars>>

-----------------------------------------------------------------------------
(* start_core.                                                             *)

(* Mutant: the reconciliation gate is not consulted. *)
StartBeginUnreconciled(c) ==
    /\ pc[c] = "start"
    /\ core_state' = "Starting"
    /\ pc' = [pc EXCEPT ![c] = IF running_pid = NoPid THEN "spawn" ELSE "stop"]
    /\ nested' = (running_pid # NoPid)
    /\ UNCHANGED <<holder, op, running_pid, running_config, failed_child,
                   starting, osVars, diskVars, wdVars>>

(* ensure_startup_reconciled, and the stop of a core that already runs. *)
StartBegin(c) ==
    /\ pc[c] = "start"
    /\ \/ /\ ~reconciled
          /\ StartFails(c, core_state)
       \/ /\ reconciled
          /\ core_state' = "Starting"
          /\ pc' = [pc EXCEPT ![c] = IF running_pid = NoPid THEN "spawn" ELSE "stop"]
          /\ nested' = (running_pid # NoPid)
          /\ UNCHANGED <<holder, op>>
    /\ UNCHANGED <<running_pid, running_config, failed_child, starting,
                   osVars, diskVars, wdVars>>

(* prepare_core_ipc_socket or run_with_logging fails: no child. *)
StartSpawnFails(c) ==
    /\ pc[c] = "spawn"
    /\ StartFails(c, core_state)
    /\ UNCHANGED <<running_pid, running_config, failed_child, starting,
                   osVars, diskVars, wdVars>>

StartSpawn(c, p, cfg) ==
    /\ pc[c] = "spawn"
    /\ Spawned(p, cfg)
    /\ starting' = p
    /\ Goto(c, "harden")
    /\ UNCHANGED <<mgrVars, diskVars, wdVars>>

StartHarden(c) ==
    /\ pc[c] = "harden"
    /\ Goto(c, "record")
    /\ UNCHANGED <<starting, osVars, mgrVars, diskVars, wdVars>>

(* Hardening or recording failed and the new core could be killed. *)
StartAborts(c) ==
    /\ pc[c] \in {"harden", "record"}
    /\ Reaped(starting)
    /\ starting' = NoPid
    /\ IF pc[c] = "record" THEN RecordWriteFailed(starting)
                           ELSE UNCHANGED runtime_record
    /\ StartFails(c, core_state)
    /\ UNCHANGED <<running_pid, running_config, failed_child, reconciled,
                   wdVars>>

(* ... and it could not: it is published as running and handed to          *)
(* failed_child for the next stop to kill.  After a hardening failure a    *)
(* record is attempted too.                                                *)
StartLeavesFailedChild(c) ==
    /\ pc[c] \in {"harden", "record"}
    /\ running_pid' = starting
    /\ running_config' = args[starting]
    /\ RecordWriteFailed(starting)
    /\ failed_child' = starting
    /\ starting' = NoPid
    /\ IF op[c] = "takeover" THEN StartFails(c, "Fatal")
       ELSE Return(c, "idle", op[c]) /\ core_state' = "Fatal"
    /\ UNCHANGED <<reconciled, osVars, wdVars>>

(* The record is on disk: pid and configuration are stored, the watchdog   *)
(* task is spawned, and the call returns (nothing suspends it on the way). *)
(* StartClash may still fail to commit the owner, and stops the core again. *)
StartCommits(c) ==
    /\ pc[c] = "record"
    /\ runtime_record' = starting
    /\ running_pid' = starting
    /\ running_config' = args[starting]
    /\ wpc' = "wait"
    /\ child' = starting
    /\ wconfig' = args[starting]
    /\ shutdown_sent' = FALSE
    /\ exhausted' = FALSE
    /\ older' = 0 /\ episode' = 0 /\ consecutive' = FALSE
    /\ starting' = NoPid
    /\ core_state' = "Running"
    /\ \/ Return(c, "idle", op[c])
       \/ op[c] = "takeover" /\ Return(c, "wantStop", "rollback")
    /\ UNCHANGED <<watchdog_result, failed_child, reconciled, osVars>>

-----------------------------------------------------------------------------
(* The watchdog task.                                                      *)

(* The task keeps a core it could not kill in failed_child and ends. *)
WatchdogGivesUp(p) ==
    /\ failed_child' = p
    /\ core_state' = "Fatal"
    /\ child' = NoPid
    /\ wpc' = "done"
    /\ watchdog_result' = "err"

(* select!: the shutdown arm, also when the child has exited as well. *)
WatchdogShutdown ==
    /\ wpc = "wait" /\ shutdown_sent
    /\ \/ /\ Reaped(child)
          /\ child' = NoPid
          /\ wpc' = "finish"
          /\ UNCHANGED <<failed_child, core_state, watchdog_result>>
       \/ /\ WatchdogGivesUp(child)
          /\ UNCHANGED osVars
    /\ UNCHANGED <<taskVars, exhausted, windowVars, running_pid,
                   running_config, diskVars, callVars>>

(* select!: wait returns the exit status. *)
WatchdogExit ==
    /\ wpc = "wait" /\ proc[child] = "zombie"
    /\ Reaped(child)
    /\ child' = NoPid
    /\ wpc' = "exited"
    /\ core_state' = "RecoveringCore"
    /\ UNCHANGED <<taskVars, endVars, windowVars, running_pid, running_config,
                   failed_child, diskVars, callVars>>

(* Mutant: ChildGuard without its Drop. *)
WatchdogWaitFailsNoDrop ==
    /\ wpc = "wait"
    /\ child' = NoPid
    /\ exhausted' = TRUE
    /\ wpc' = "finish"
    /\ UNCHANGED <<osVars, taskVars, watchdog_result, windowVars, mgrVars,
                   diskVars, callVars>>

(* select!: wait itself fails; the guard is dropped with the core in it. *)
WatchdogWaitFails ==
    /\ wpc = "wait"
    /\ dropped' = dropped \cup {child}
    /\ child' = NoPid
    /\ exhausted' = TRUE
    /\ wpc' = "finish"
    /\ UNCHANGED <<proc, args, inherited, taskVars, watchdog_result,
                   windowVars, mgrVars, diskVars, callVars>>

(* Mutant: the oldest timestamp is dropped without looking. *)
WatchdogClearDropsOldest(kept) ==
    /\ wpc = "exited"
    /\ running_pid' = NoPid
    /\ RecordRemoved
    /\ older' = older + episode - 1
    /\ episode' = 1
    /\ consecutive' = FALSE
    /\ wpc' = "backoff"
    /\ UNCHANGED <<child, taskVars, endVars, running_config, core_state,
                   failed_child, reconciled, osVars, callVars>>

(* The exit is recorded; `kept` of the earlier restarts are still in the   *)
(* window, and with none left the back-off starts afresh.                  *)
WatchdogClear(kept) ==
    /\ wpc = "exited"
    /\ kept <= older + episode
    /\ running_pid' = NoPid
    /\ RecordRemoved
    /\ older' = kept
    /\ episode' = 1
    /\ consecutive' = (kept # 0 /\ consecutive)
    /\ wpc' = "backoff"
    /\ UNCHANGED <<child, taskVars, endVars, running_config, core_state,
                   failed_child, reconciled, osVars, callVars>>

WatchdogExhausted ==
    /\ wpc = "backoff" /\ older + episode > MaxRestarts
    /\ exhausted' = TRUE
    /\ wpc' = "finish"
    /\ UNCHANGED <<child, taskVars, watchdog_result, windowVars, osVars,
                   mgrVars, diskVars, callVars>>

(* A first attempt does not sleep, and so does not look at the channel;    *)
(* a later one races its sleep against it.                                 *)
WatchdogBackoff ==
    /\ wpc = "backoff" /\ older + episode <= MaxRestarts
    /\ \/ wpc' = "spawn"
       \/ consecutive /\ shutdown_sent /\ wpc' = "finish"
    /\ UNCHANGED <<child, taskVars, endVars, windowVars, osVars, mgrVars,
                   diskVars, callVars>>

(* Mutant: only exits are counted, not failed attempts. *)
AttemptUncounted ==
    /\ older' \in 0..older
    /\ consecutive' = TRUE
    /\ wpc' = "backoff"
    /\ UNCHANGED episode

(* consecutive_attempt += 1, prune, push: the timestamps of this recovery  *)
(* are younger than the window (eleven attempts take under six minutes).   *)
AttemptFailed ==
    /\ older' \in 0..older
    /\ episode' = episode + 1
    /\ consecutive' = TRUE
    /\ wpc' = "backoff"

WatchdogSpawnFails ==
    /\ wpc = "spawn"
    /\ AttemptFailed
    /\ UNCHANGED <<child, taskVars, endVars, osVars, mgrVars, diskVars,
                   callVars>>

(* Mutant: the restart reads a configuration instead of the captured one. *)
WatchdogSpawnOther(p) ==
    /\ wpc = "spawn"
    /\ \E cfg \in Config : Spawned(p, cfg)
    /\ child' = p
    /\ wpc' = "harden"
    /\ UNCHANGED <<taskVars, endVars, windowVars, mgrVars, diskVars, callVars>>

WatchdogSpawn(p) ==
    /\ wpc = "spawn"
    /\ Spawned(p, wconfig)
    /\ child' = p
    /\ wpc' = "harden"
    /\ UNCHANGED <<taskVars, endVars, windowVars, mgrVars, diskVars,
                   callVars>>

WatchdogHarden ==
    /\ wpc = "harden"
    /\ wpc' = "record"
    /\ UNCHANGED <<child, taskVars, endVars, windowVars, osVars, mgrVars,
                   diskVars, callVars>>

(* Hardening failed and the core could be killed: another attempt. *)
WatchdogHardenFails ==
    /\ wpc = "harden"
    /\ Reaped(child)
    /\ child' = NoPid
    /\ AttemptFailed
    /\ UNCHANGED <<taskVars, endVars, mgrVars, diskVars, callVars>>

(* The record could not be written and the core could be killed: no more. *)
WatchdogRecordFails ==
    /\ wpc = "record"
    /\ Reaped(child)
    /\ RecordWriteFailed(child)
    /\ child' = NoPid
    /\ exhausted' = TRUE
    /\ wpc' = "finish"
    /\ UNCHANGED <<taskVars, watchdog_result, windowVars, mgrVars, reconciled,
                   callVars>>

(* Mutant: the surviving core's pid is not published. *)
WatchdogHidesFailedChild ==
    /\ wpc \in {"harden", "record"}
    /\ RecordWriteFailed(child)
    /\ WatchdogGivesUp(child)
    /\ UNCHANGED <<taskVars, exhausted, windowVars, running_pid,
                   running_config, reconciled, osVars, callVars>>

(* Either failed and the core could not be killed. *)
WatchdogLeavesFailedChild ==
    /\ wpc \in {"harden", "record"}
    /\ running_pid' = child
    /\ RecordWriteFailed(child)
    /\ WatchdogGivesUp(child)
    /\ UNCHANGED <<taskVars, exhausted, windowVars, running_config,
                   reconciled, osVars, callVars>>

WatchdogRestarted ==
    /\ wpc = "record"
    /\ runtime_record' = child
    /\ running_pid' = child
    /\ consecutive' = TRUE
    /\ core_state' = "Running"
    /\ wpc' = "wait"
    /\ UNCHANGED <<child, taskVars, endVars, older, episode, running_config,
                   failed_child, reconciled, osVars, callVars>>

(* After the loop. *)
WatchdogFinish ==
    /\ wpc = "finish"
    /\ running_pid' = NoPid
    /\ RecordRemoved
    /\ core_state' = IF exhausted THEN "Fatal" ELSE core_state
    /\ watchdog_result' = "ok"
    /\ wpc' = "done"
    /\ UNCHANGED <<child, taskVars, exhausted, windowVars, running_config,
                   failed_child, reconciled, osVars, callVars>>

-----------------------------------------------------------------------------
StopCore(c) ==
    \/ StopSignal(c) \/ StopJoin(c) \/ StopNoFailedChild(c)
    \/ StopFailedChild(c) \/ StopClear(c)

StartCore(c) ==
    \/ StartBegin(c) \/ StartSpawnFails(c)
    \/ \E p \in Pid, cfg \in Config : StartSpawn(c, p, cfg)
    \/ StartHarden(c) \/ StartAborts(c) \/ StartLeavesFailedChild(c)
    \/ StartCommits(c)

Watchdog ==
    \/ WatchdogShutdown \/ WatchdogExit \/ WatchdogWaitFails
    \/ \E kept \in 0..(older + episode) : WatchdogClear(kept)
    \/ WatchdogExhausted \/ WatchdogBackoff
    \/ WatchdogSpawnFails \/ \E p \in Pid : WatchdogSpawn(p)
    \/ WatchdogHarden \/ WatchdogHardenFails
    \/ WatchdogRecordFails \/ WatchdogLeavesFailedChild
    \/ WatchdogRestarted \/ WatchdogFinish

Next ==
    \/ StartClash
    \/ \E c \in Caller : Stop(c) \/ Acquire(c) \/ StopCore(c) \/ StartCore(c)
    \/ Watchdog
    \/ \E p \in Pid : CoreExit(p) \/ DropKill(p)

Spec == Init /\ [][Next]_vars

(* Tokio polls every task that is ready, its mutexes are fair, `child.wait` *)
(* completes once the child has exited, and `select!` draws at random which *)
(* ready arm it takes, so that a pending shutdown is not passed over for    *)
(* ever by a core that keeps dying.  Nothing obliges a core to exit, a      *)
(* client to call, or a detached kill to succeed.                           *)
Fairness ==
    /\ WF_vars(Watchdog /\ wpc # "wait")
    /\ SF_vars(WatchdogShutdown) /\ WF_vars(WatchdogExit)
    /\ \A c \in Caller :
           /\ SF_vars(Acquire(c))
           /\ WF_vars(StopCore(c)) /\ WF_vars(StartCore(c))

FairSpec == Spec /\ Fairness

-----------------------------------------------------------------------------
(* Properties.                                                             *)

(* The cores somebody in this process is responsible for. *)
Held == {p \in Pid : p = starting \/ p = child \/ p = failed_child}

(* A call of stop_core took the failed child and will never return. *)
Hung == \E c \in Caller : pc[c] = "hung"

(* However starts, stops, crashes and restarts interleave, and whatever     *)
(* kill, spawn and record fail, at most one core runs, not counting one     *)
(* that a detached task of a dropped ChildGuard is killing.  In particular  *)
(* a core that a failed reconciliation left behind excludes any start.      *)
AtMostOneCore == \A p, q \in Live \ dropped : p = q

(* No core is lost: each live one is held by start_core, by the watchdog or *)
(* by failed_child, so that the next stop_core reaches it.                  *)
NoCoreLost == Live \subseteq Held \cup dropped \cup inherited

(* start_core checks only running_pid, which is 0 while a watchdog recovers; *)
(* what protects it is that every caller has stopped the manager before: it *)
(* never finds a watchdog, a pid or a failed child.                         *)
StartFindsNoCore ==
    \A c \in Caller : pc[c] \in StartPcs =>
        wpc = "none" /\ running_pid = NoPid /\ failed_child = NoPid

(* running_core_config, read under CORE_MANAGER: a pid and a configuration  *)
(* returned together are those of one and the same core, although the       *)
(* watchdog changes the pid without any lock.                               *)
RunningPairIsConsistent ==
    (/\ holder = NoCaller /\ running_pid # NoPid /\ running_config # NoConfig
     /\ proc[running_pid] # "free")
        => args[running_pid] = running_config

(* The core the watchdog waits for is the one Status shows and the one the  *)
(* runtime record names, so that the next service process finds it.         *)
SupervisedCoreIsRecorded ==
    wpc = "wait" => child = running_pid /\ child = runtime_record

(* A core that could not be killed stays visible: its pid is published, and *)
(* the lifecycle state is Fatal until a stop has confirmed its death.       *)
FailedChildIsFatal ==
    /\ failed_child # NoPid => running_pid = failed_child /\ core_state = "Fatal"
    /\ Hung => core_state = "Fatal"

(* Supervision that has given up is reported as Fatal as long as the ended  *)
(* watchdog has not been collected by a stop.                               *)
GivingUpIsFatal == wpc = "done" /\ exhausted => core_state = "Fatal"

(* effective_service_state, for the owner of the active session when it      *)
(* wants a core: the lifecycle cell, and the published pid when the cell     *)
(* has nothing to report.                                                   *)
EffectiveState == IF core_state # "Running" THEN core_state
                  ELSE IF running_pid = NoPid THEN "RecoveringCore"
                  ELSE "Running"

(* A Status request holds OWNER_LIFECYCLE_LOCK, then CORE_MANAGER: it runs   *)
(* between two calls, beside the watchdog and a stop_ipc_server.             *)
StatusRuns == pc["handler"] = "idle" /\ holder = NoCaller

(* Status says Running of a core that the watchdog is waiting for (or whose  *)
(* wait just failed), Starting of none, since every start has been settled   *)
(* or rolled back by then; and the cell says RecoveringCore only as long as  *)
(* a watchdog is there to recover it.                                       *)
ReportedStateIsTrue ==
    StatusRuns =>
        /\ EffectiveState # "Starting"
        /\ EffectiveState = "Running" => wpc \in {"wait", "finish"}
        /\ core_state = "RecoveringCore" => wpc # "none"

(* What Status, the runtime record and the lifecycle state say is true of a *)
(* core under supervision, of one that survived its kill, and of            *)
(* supervision that gave up.                                               *)
StatusIsTrue == /\ SupervisedCoreIsRecorded /\ FailedChildIsFatal
                /\ GivingUpIsFatal /\ ReportedStateIsTrue

(* When stop_core returns Ok no core of this process is alive any more,     *)
(* except one a detached task is still killing.                             *)
NoCoreAfterStop ==
    \A c \in Caller : pc[c] = "clear" /\ pc'[c] # "clear" =>
                         Live' \subseteq dropped' \cup inherited'

StopMeansStopped == [][NoCoreAfterStop]_vars

(* What the manager holds, as its callers see it: the core in one of its    *)
(* guards, or the configuration whose recovery is under way.                *)
HeldCore == IF starting # NoPid THEN starting
            ELSE IF child # NoPid THEN child ELSE failed_child

HeldConfig == IF HeldCore # NoPid THEN args[HeldCore]
              ELSE IF exhausted /\ core_state = "Fatal" THEN NoConfig
              ELSE running_config

OursAlive == Live \ (dropped \cup inherited) # {}

Settled == HeldConfig # NoConfig /\ starting = NoPid

Contract == INSTANCE CoreContract WITH
    held    <- HeldConfig,
    alive   <- OursAlive,
    fatal   <- core_state = "Fatal",
    settled <- Settled

(* Starts, stops, crashes, failed kills and restarts implement CoreContract: *)
(* the configuration in charge is replaced only by way of no core at all,   *)
(* recoveries are invisible, and a core whose start has returned is gone     *)
(* only after a confirmed stop or with Fatal.                                *)
ImplementsContract == Contract!Spec

(* A recovery ends: with a restarted core, or with the watchdog gone.       *)
RecoverySettles == wpc \in Recovering ~> wpc \in {"wait", "done", "none"}

(* Every StartClash, StopClash and stop_ipc_server gets through the manager, *)
(* rollback included, unless a stop hangs in the retry of a kill.           *)
CallsComplete == \A c \in Caller : pc[c] # "idle" ~> pc[c] = "idle" \/ Hung

(* stop_core returns: with an error when a core cannot be killed.           *)
StopReturns == \A c \in Caller : pc[c] \in StopPcs ~> pc[c] \notin StopPcs
=============================================================================
