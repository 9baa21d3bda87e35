---------------------------- MODULE OwnerLifecycle ----------------------------
(***************************************************************************)
(* Owner sessions, the recovery state on disk, and the life of the service *)
(* process: the StartClash, StopClash and UpdateWriter handlers of         *)
(* server.rs with the state files of desired.rs, interrupted anywhere by a *)
(* crash, and the boot of bin/service.rs, which reconciles with the core   *)
(* of the previous process (reconcile.rs) and restores the desired one.    *)
(*                                                                         *)
(* While the service is down, maintenance.rs prunes the state of owners    *)
(* whose account is gone.                                                  *)
(*                                                                         *)
(* A step is one durable effect or one call of the core manager.  The      *)
(* manager is seen through CoreContract: each step that involves it is a   *)
(* step of the contract, next to what it does to processes and files.      *)
(***************************************************************************)
EXTENDS Integers

CONSTANTS
    Owner, NoOwner,    \* authenticated users
    Config, NoConfig,
    Pid, NoPid,        \* process identities: pid with start time
    MaxGeneration      \* bound on the generations used up

ASSUME OwnerAssumption == NoOwner \notin Owner
ASSUME ConfigAssumption == NoConfig \notin Config
ASSUME PidAssumption == NoPid \notin Pid

VARIABLES
    \* on disk
    active,        \* active-owner.json, and the configuration it stands for
    generation,    \* owner-generation.json
    desired,       \* desired-state.json of each owner
    record,        \* core-runtime.json
    \* the operating system
    live,          \* the cores alive
    unrecognised,  \* those among them whose process_identity has changed
    \* the service process
    mode,
    reconciled,    \* STARTUP_RECONCILED
    core,          \* the core the manager holds
    fatal,         \* the lifecycle cell says Fatal
    \* the handler holding OWNER_LIFECYCLE_LOCK
    pc, req,
    \* history, for the properties
    highest,       \* the highest generation an active session ever had
    lost,          \* owners whose desired state on disk is not the one meant
    stopped,       \* owners told by StopClash that their core is stopped
    found,         \* live cores of a previous process that a boot found and
                   \* could not terminate
    orphaned       \* live cores that died with their process unrecorded, or
                   \* that a boot could not reconcile with

diskVars == <<active, generation, desired, record>>
osVars   == <<live, unrecognised>>
coreVars == <<osVars, core, fatal>>
procVars == <<mode, reconciled>>
reqVars  == <<pc, req>>
histVars == <<highest, lost, stopped, found, orphaned>>
vars     == <<diskVars, coreVars, procVars, reqVars, histVars>>

-----------------------------------------------------------------------------
NoSession == [owner |-> NoOwner, generation |-> 0, config |-> NoConfig]
Session   == [owner : Owner, generation : Nat, config : Config]

NoCore == [pid |-> NoPid, owner |-> NoOwner, config |-> NoConfig]
Core   == [pid : Pid, owner : Owner, config : Config]

Default == [running |-> FALSE, config |-> NoConfig]
Desired == [running : BOOLEAN, config : Config \cup {NoConfig}]

(* StartClash goes down the first list, to "rejected" when the start fails *)
(* and to "rollback" when the commit does.                                 *)
StartPcs == {"stopPrevious", "persistPrevious", "clearPrevious", "start",
             "record", "persistStarted", "commitGeneration", "commitActive",
             "rejected", "persistRejected",
             "rollback", "rollbackPersist", "rollbackClear"}
StopPcs  == {"stop", "stopPersist", "stopClear"}

(* "terminate": the boot task has verified the recorded process and is      *)
(* killing it.  "bootRecord": it is inside start_core.                      *)
Modes == {"down", "reconcile", "terminate", "restore", "bootRecord", "serving",
          "stopping"}

TypeOK ==
    /\ active \in Session \cup {NoSession}
    /\ generation \in Nat
    /\ desired \in [Owner -> Desired]
    /\ record \in Pid \cup {NoPid}
    /\ live \in SUBSET Pid
    /\ unrecognised \in SUBSET live
    /\ mode \in Modes
    /\ reconciled \in BOOLEAN
    /\ core \in Core \cup {NoCore}
    /\ fatal \in BOOLEAN
    /\ pc \in {"idle"} \cup StartPcs \cup StopPcs
    /\ req \in [owner : Owner \cup {NoOwner}, config : Config \cup {NoConfig},
                generation : Nat]
    /\ highest \in Nat
    /\ lost \in SUBSET Owner
    /\ stopped \in SUBSET Owner
    /\ found \in SUBSET Pid
    /\ orphaned \in SUBSET live

NoRequest == [owner |-> NoOwner, config |-> NoConfig, generation |-> 0]

(* A machine on which the service was just installed. *)
Init ==
    /\ active = NoSession /\ generation = 0 /\ record = NoPid
    /\ desired = [o \in Owner |-> Default]
    /\ live = {} /\ unrecognised = {}
    /\ mode = "reconcile" /\ reconciled = FALSE
    /\ core = NoCore /\ fatal = FALSE
    /\ pc = "idle" /\ req = NoRequest
    /\ highest = 0 /\ lost = {} /\ stopped = {} /\ found = {} /\ orphaned = {}

-----------------------------------------------------------------------------
(* Files.                                                                  *)

(* remove_core_runtime_record ignores the error of the removal. *)
RecordRemoved == record' \in {NoPid, record}

(* A desired state that cannot be parsed is moved aside by whoever reads it, *)
(* and counts as the default one.                                           *)
Quarantine(o) ==
    /\ desired' = [desired EXCEPT ![o] = Default]
    /\ lost' = lost \cup {o}

(* update_owner_desired_state: a write that fails is only logged.           *)
PersistStarted(o, cfg) ==
    \/ /\ desired' = [desired EXCEPT ![o] = [running |-> TRUE, config |-> cfg]]
       /\ lost' = lost \ {o}
    \/ lost' = lost \cup {o} /\ UNCHANGED desired
    \/ Quarantine(o)

Stopped(d) == [running |-> FALSE, config |-> d.config]

PersistStopped(o) ==
    \/ /\ desired' = [desired EXCEPT ![o] = Stopped(desired[o])]
       /\ UNCHANGED lost
    \/ lost' = lost \cup {o} /\ UNCHANGED desired
    \/ Quarantine(o)

(* Mutant: the session is voided in place. *)
ClearActiveInPlace == active' = [active EXCEPT !.owner = NoOwner]

ClearActive == active' = NoSession

(* write_json_atomic: its error may come after the rename. *)
CommitSession == active' = [owner |-> req.owner, generation |-> req.generation,
                            config |-> req.config]
                 /\ highest' = req.generation

-----------------------------------------------------------------------------
(* The core manager, through its contract.                                 *)

Serving == mode \in {"serving", "stopping"}

(* start_core has spawned a core and not returned. *)
Starting == pc = "record" \/ mode = "bootRecord"

Manager == INSTANCE CoreContract WITH
    held    <- core.config,
    alive   <- core.pid \in live,
    settled <- core # NoCore /\ ~Starting

Dies(p) == live' = live \ {p} /\ unrecognised' = unrecognised \ {p}

CoreStopped ==
    /\ core' = NoCore /\ Dies(core.pid)
    /\ RecordRemoved
    /\ Manager!Stop

(* Mutant: the core is let go of before its death is confirmed. *)
StopForgets ==
    /\ core # NoCore /\ core' = NoCore
    /\ UNCHANGED <<osVars, record>>
    /\ fatal' = TRUE

StopFails ==
    /\ UNCHANGED <<core, osVars, record>>
    /\ Manager!KillFails

Spawn(p, o, cfg) ==
    /\ p \notin live /\ p # record
    /\ core' = [pid |-> p, owner |-> o, config |-> cfg]
    /\ live' = live \cup {p} /\ UNCHANGED unrecognised
    /\ Manager!Spawn(cfg)

(* Hardening or recording failed: the new core is killed and the lifecycle *)
(* cell says `f`; or it cannot be, and stays in failed_child.              *)
SpawnUndone(f) ==
    /\ record' \in {record, core.pid}
    /\ \/ /\ core' = NoCore /\ Dies(core.pid)
          /\ fatal' = f
          /\ Manager!Undo
       \/ /\ UNCHANGED <<core, osVars>>
          /\ Manager!KillFails

CoreDies ==
    /\ core.pid \in live
    /\ Dies(core.pid)
    /\ UNCHANGED <<diskVars, core, procVars, reqVars, histVars>>
    /\ Manager!Die

Supervised == core # NoCore /\ Serving /\ ~Starting /\ ~fatal

(* The watchdog spawns the core again, and then records it. *)
CoreRestarts(p) ==
    /\ Supervised /\ core.pid \notin live
    /\ p \notin live /\ p \notin {record, core.pid}
    /\ core' = [core EXCEPT !.pid = p]
    /\ live' = live \cup {p}
    /\ RecordRemoved
    /\ UNCHANGED <<active, generation, desired, unrecognised, procVars, reqVars,
                   histVars>>
    /\ Manager!Restart

RestartRecorded ==
    /\ Supervised /\ core.pid \in live
    /\ record' = core.pid
    /\ UNCHANGED <<active, generation, desired, coreVars, procVars, reqVars,
                   histVars>>

(* The watchdog is out of restarts, or could not record one and kills it    *)
(* again; or that kill fails.                                               *)
SupervisionEnds ==
    /\ Supervised
    /\ UNCHANGED <<active, generation, desired, procVars, reqVars, histVars>>
    /\ \/ core' = NoCore /\ Dies(core.pid) /\ RecordRemoved /\ Manager!GiveUp
       \/ StopFails

OrphanExit(p) ==
    /\ p \in live \ {core.pid}
    /\ Dies(p) /\ found' = found \ {p} /\ orphaned' = orphaned \ {p}
    /\ UNCHANGED <<diskVars, core, fatal, procVars, reqVars, highest, lost,
                   stopped>>

(* The executable of a core is renamed or replaced: process_identity shows  *)
(* another path, or none.                                                   *)
ExecutableMoves(p) ==
    /\ p \in live \ unrecognised
    /\ unrecognised' = unrecognised \cup {p}
    /\ UNCHANGED <<diskVars, live, core, fatal, procVars, reqVars, histVars>>

-----------------------------------------------------------------------------
(* StartClash.                                                             *)

(* The step of the transition at `from` goes on to `to`. *)
Step(from, to) == /\ pc = from /\ pc' = to
                  /\ UNCHANGED <<req, procVars>>

(* Whoever authenticates may take over.  (Requests that fail before, or     *)
(* in clearing the previous proxy, change nothing of this state.)           *)
StartClash(o, cfg) ==
    /\ Serving /\ pc = "idle" /\ generation < MaxGeneration
    /\ pc' = "stopPrevious"
    /\ req' = [owner |-> o, config |-> cfg, generation |-> 0]
    /\ stopped' = stopped \ {o}
    /\ UNCHANGED <<diskVars, coreVars, procVars, highest, lost, found, orphaned>>

StopPrevious ==
    /\ \/ Step("stopPrevious", "persistPrevious") /\ CoreStopped
       \/ Step("stopPrevious", "idle") /\ StopFails
    /\ UNCHANGED <<active, generation, desired, histVars>>

PersistPrevious ==
    /\ Step("persistPrevious", "clearPrevious")
    /\ IF active = NoSession THEN UNCHANGED <<desired, lost>>
                             ELSE PersistStopped(active.owner)
    /\ UNCHANGED <<active, generation, record, coreVars, highest, stopped, found,
                   orphaned>>

ClearPrevious ==
    /\ \/ Step("clearPrevious", "start") /\ ClearActive
       \/ Step("clearPrevious", "idle") /\ UNCHANGED active
    /\ UNCHANGED <<generation, desired, record, coreVars, histVars>>

MaterializeFails ==
    /\ Step("start", "idle")
    /\ UNCHANGED <<diskVars, coreVars, histVars>>

(* Mutant: start_core without ensure_startup_reconciled. *)
StartCoreUnreconciled(p) ==
    /\ Step("start", "record")
    /\ Spawn(p, req.owner, req.config)
    /\ UNCHANGED <<diskVars, histVars>>

StartCore(p) ==
    /\ Step("start", "record") /\ reconciled
    /\ Spawn(p, req.owner, req.config)
    /\ UNCHANGED <<diskVars, histVars>>

(* Not reconciled, or no process could be spawned. *)
StartFails ==
    /\ Step("start", "rejected")
    /\ fatal' = (fatal /\ ~reconciled)
    /\ UNCHANGED <<diskVars, osVars, core, histVars>>

RecordCore ==
    /\ \/ /\ Step("record", "persistStarted")
          /\ record' = core.pid /\ UNCHANGED <<core, osVars>>
          /\ Manager!Settle
       \/ Step("record", "rejected") /\ SpawnUndone(FALSE)
    /\ UNCHANGED <<active, generation, desired, histVars>>

StopRejected ==
    /\ \/ Step("rejected", "persistRejected") /\ CoreStopped
       \/ Step("rejected", "idle") /\ StopFails
    /\ UNCHANGED <<active, generation, desired, histVars>>

PersistRejected ==
    /\ Step("persistRejected", "idle")
    /\ PersistStopped(req.owner)
    /\ UNCHANGED <<active, generation, record, coreVars, highest, stopped, found,
                   orphaned>>

PersistStartedCore ==
    /\ Step("persistStarted", "commitGeneration")
    /\ PersistStarted(req.owner, req.config)
    /\ UNCHANGED <<active, generation, record, coreVars, highest, stopped, found,
                   orphaned>>

(* Mutant: the generation is counted in the file of the active owner only. *)
CommitGenerationOfActive ==
    /\ pc = "commitGeneration"
    /\ req' = [req EXCEPT !.generation = active.generation + 1]
    /\ pc' = "commitActive"
    /\ UNCHANGED <<diskVars, coreVars, procVars, histVars>>

(* commit_active_owner_session: the generation file first. *)
CommitGeneration ==
    /\ pc = "commitGeneration"
    /\ \/ /\ generation' = generation + 1
          /\ req' = [req EXCEPT !.generation = generation']
          /\ pc' = "commitActive"
       \/ /\ generation' \in {generation, generation + 1}
          /\ pc' = "rollback"
          /\ UNCHANGED req
    /\ UNCHANGED <<active, desired, record, coreVars, procVars, histVars>>

(* The session is valid from here, even if the proxy then fails and the     *)
(* reply is an error.                                                       *)
CommitActive ==
    /\ \/ Step("commitActive", "idle") /\ CommitSession
       \/ /\ Step("commitActive", "rollback")
          /\ CommitSession \/ UNCHANGED <<active, highest>>
    /\ UNCHANGED <<generation, desired, record, coreVars, lost, stopped, found,
                   orphaned>>

(* Mutant: only the files are rolled back. *)
RollbackFilesOnly ==
    /\ Step("rollback", "rollbackPersist")
    /\ UNCHANGED <<diskVars, coreVars, histVars>>

(* rollback_started_owner. *)
Rollback ==
    /\ \/ Step("rollback", "rollbackPersist") /\ CoreStopped
       \/ Step("rollback", "idle") /\ StopFails
    /\ UNCHANGED <<active, generation, desired, histVars>>

RollbackPersist ==
    /\ Step("rollbackPersist", "rollbackClear")
    /\ PersistStopped(req.owner)
    /\ UNCHANGED <<active, generation, record, coreVars, highest, stopped, found,
                   orphaned>>

RollbackClear ==
    /\ Step("rollbackClear", "idle")
    /\ ClearActive \/ UNCHANGED active
    /\ UNCHANGED <<generation, desired, record, coreVars, histVars>>

-----------------------------------------------------------------------------
(* The requests that require_active_session admits.                        *)

(* Mutant: any session of the active owner is good enough. *)
ProvesOwner(o, g) == active.owner = o

Proves(o, g) == active.owner = o /\ active.generation = g

StopClash(o, g) ==
    /\ Serving /\ pc = "idle" /\ Proves(o, g)
    /\ pc' = "stop"
    /\ req' = [owner |-> o, config |-> NoConfig, generation |-> g]
    /\ UNCHANGED <<diskVars, coreVars, procVars, histVars>>

StopCore ==
    /\ \/ Step("stop", "stopPersist") /\ CoreStopped
       \/ Step("stop", "idle") /\ StopFails
    /\ UNCHANGED <<active, generation, desired, histVars>>

StopPersist ==
    /\ Step("stopPersist", "stopClear")
    /\ PersistStopped(req.owner)
    /\ UNCHANGED <<active, generation, record, coreVars, highest, stopped, found,
                   orphaned>>

(* Mutant: a session that cannot be cleared is only logged. *)
StopClearBestEffort ==
    /\ Step("stopClear", "idle")
    /\ ClearActive \/ UNCHANGED active
    /\ stopped' = stopped \cup {req.owner}
    /\ UNCHANGED <<generation, desired, record, coreVars, highest, lost, found,
                   orphaned>>

(* The reply is Ok only when the session is gone. *)
StopClear ==
    /\ Step("stopClear", "idle")
    /\ \/ /\ ClearActive
          /\ stopped' = stopped \cup {req.owner}
          /\ UNCHANGED fatal
       \/ fatal' = TRUE /\ UNCHANGED <<active, stopped>>
    /\ UNCHANGED <<generation, desired, record, osVars, core, highest, lost, found,
                   orphaned>>

(* Mutant: the desired state is written afresh with the new writer. *)
UpdateWriterAfresh(o, g) ==
    /\ Serving /\ pc = "idle" /\ Proves(o, g)
    /\ desired' = [desired EXCEPT ![o] = Stopped(desired[o])]
    /\ UNCHANGED <<active, generation, record, coreVars, procVars, reqVars,
                   histVars>>

(* persist_owner_writer_config rewrites the owner's desired state: what     *)
(* could not be read comes back as the default.                             *)
UpdateWriter(o, g) ==
    /\ Serving /\ pc = "idle" /\ Proves(o, g)
    /\ \E base \in {desired[o], Default} :
          /\ desired' = [desired EXCEPT ![o] = base]
          /\ lost' = IF base = desired[o] THEN lost ELSE lost \cup {o}
    /\ UNCHANGED <<active, generation, record, coreVars, procVars, reqVars,
                   highest, stopped, found, orphaned>>

(* A Status request reads the desired state, and changes nothing else. *)
Status(o) ==
    /\ Serving /\ pc = "idle"
    /\ Quarantine(o)
    /\ UNCHANGED <<active, generation, record, coreVars, procVars, reqVars,
                   highest, stopped, found, orphaned>>

-----------------------------------------------------------------------------
(* The service process.                                                    *)

(* stop_ipc_server stops the core without OWNER_LIFECYCLE_LOCK; the         *)
(* handler in flight goes on until the process exits.                       *)
StopIpcServer ==
    /\ mode = "serving" /\ pc # "record"
    /\ mode' = "stopping"
    /\ UNCHANGED <<active, generation, desired, reconciled, reqVars,
                   histVars>>
    /\ CoreStopped \/ StopFails

(* The process exits, crashes or is killed; its core runs on, and the next  *)
(* one knows of it if it was recorded.                                      *)
Exit ==
    /\ mode # "down"
    /\ mode' = "down" /\ reconciled' = FALSE
    /\ core' = NoCore /\ fatal' = FALSE
    /\ pc' = "idle" /\ req' = NoRequest
    /\ orphaned' = orphaned \cup ({core.pid} \cap (live \ {record}))
    /\ UNCHANGED <<diskVars, osVars, highest, lost, stopped, found>>

Boot ==
    /\ mode = "down"
    /\ mode' = "reconcile"
    /\ UNCHANGED <<diskVars, coreVars, reconciled, reqVars, histVars>>

(* reconcile_service_startup: the live process that the record names is     *)
(* still the recorded one ...                                               *)
Verified == record \in live \ unrecognised

ReconcileFinds ==
    /\ mode = "reconcile" /\ Verified
    /\ mode' = "terminate"
    /\ UNCHANGED <<diskVars, coreVars, reconciled, reqVars, histVars>>

(* ... or there is no record, the core is dead, or its number now belongs   *)
(* to what looks like another process, which is left alone.                 *)
ReconcileDismisses ==
    /\ mode = "reconcile" /\ ~Verified
    /\ RecordRemoved
    /\ reconciled' = TRUE
    /\ mode' = "restore"
    /\ orphaned' = orphaned \cup ({record} \cap live)
    /\ UNCHANGED <<active, generation, desired, coreVars, reqVars, highest, lost,
                   stopped, found>>

(* terminate_process confirms the core dead. *)
ReconcileTerminates ==
    /\ mode = "terminate"
    /\ Dies(record)
    /\ found' = found \ {record} /\ orphaned' = orphaned \ {record}
    /\ RecordRemoved
    /\ reconciled' = TRUE
    /\ mode' = "restore"
    /\ UNCHANGED <<active, generation, desired, core, fatal, reqVars, highest,
                   lost, stopped>>

(* The record or the identity cannot be read, or the core does not die.     *)
ReconcileFails ==
    /\ mode \in {"reconcile", "terminate"}
    /\ mode' = "serving"
    /\ found' \in {found, found \cup ({record} \cap live)}
    /\ orphaned' = orphaned \cup ({record} \cap live)
    /\ UNCHANGED <<diskVars, coreVars, reconciled, reqVars, highest, lost,
                   stopped>>

(* restore_desired_state: nothing to restore, or a file cannot be read. *)
RestoreNothing ==
    /\ mode = "restore"
    /\ mode' = "serving"
    /\ \/ UNCHANGED <<desired, lost>>
       \/ active # NoSession /\ Quarantine(active.owner)
    /\ UNCHANGED <<active, generation, record, coreVars, reconciled, reqVars,
                   highest, stopped, found, orphaned>>

Restorable == /\ mode = "restore" /\ active # NoSession
              /\ desired[active.owner].running
              /\ desired[active.owner].config # NoConfig

RestoreCore(p) ==
    /\ Restorable
    /\ mode' = "bootRecord"
    /\ UNCHANGED <<diskVars, reconciled, reqVars, histVars>>
    /\ Spawn(p, active.owner, desired[active.owner].config)

(* A missing binary makes the desired state stale. *)
RestoreFails ==
    /\ Restorable
    /\ mode' = "serving"
    /\ \/ fatal' = TRUE /\ UNCHANGED <<desired, lost>>
       \/ PersistStopped(active.owner) /\ UNCHANGED fatal
    /\ UNCHANGED <<active, generation, record, osVars, core, reconciled,
                   reqVars, highest, stopped, found, orphaned>>

(* start_core fails after the spawn, too, for something it does not find:   *)
(* the new core is killed, and the lifecycle cell says Running.            *)
RestoreRecord ==
    /\ mode = "bootRecord"
    /\ mode' = "serving"
    /\ UNCHANGED <<active, generation, reconciled, reqVars, highest, stopped,
                   found, orphaned>>
    /\ \/ /\ record' = core.pid /\ UNCHANGED <<core, osVars, desired, lost>>
          /\ Manager!Settle
       \/ SpawnUndone(TRUE) /\ UNCHANGED <<desired, lost>>
       \/ /\ SpawnUndone(FALSE) /\ core' = NoCore
          /\ PersistStopped(active.owner)

-----------------------------------------------------------------------------
(* cleanup_stale_owner_state, run under the service lock while the service  *)
(* is down, for an owner whose account is gone.                             *)

(* The session goes first, if it can be read and is that owner's. *)
PruneSession(o) ==
    /\ mode = "down" /\ active.owner = o
    /\ ClearActive
    /\ UNCHANGED <<generation, desired, record, coreVars, procVars, reqVars,
                   histVars>>

(* Then the owner's directory.  A session file that could not be read has   *)
(* counted as none.                                                         *)
PruneState(o) ==
    /\ mode = "down"
    /\ desired' = [desired EXCEPT ![o] = Default]
    /\ lost' = lost \ {o}
    /\ stopped' = stopped \cup {o}
    /\ UNCHANGED <<active, generation, record, coreVars, procVars, reqVars,
                   highest, found, orphaned>>

-----------------------------------------------------------------------------
Handler ==
    \/ StopPrevious \/ PersistPrevious \/ ClearPrevious
    \/ MaterializeFails \/ StartFails \/ \E p \in Pid : StartCore(p)
    \/ RecordCore \/ StopRejected \/ PersistRejected
    \/ PersistStartedCore \/ CommitGeneration \/ CommitActive
    \/ Rollback \/ RollbackPersist \/ RollbackClear
    \/ StopCore \/ StopPersist \/ StopClear

Service ==
    \/ StopIpcServer \/ Exit \/ Boot
    \/ ReconcileFinds \/ ReconcileDismisses \/ ReconcileTerminates
    \/ ReconcileFails
    \/ RestoreNothing \/ \E p \in Pid : RestoreCore(p)
    \/ RestoreFails \/ RestoreRecord

Watchdog == RestartRecorded \/ SupervisionEnds \/ \E p \in Pid : CoreRestarts(p)

Processes == CoreDies \/ \E p \in Pid : OrphanExit(p) \/ ExecutableMoves(p)

Next ==
    \/ \E o \in Owner :
          \/ \E cfg \in Config : StartClash(o, cfg)
          \/ \E g \in 1..highest : StopClash(o, g) \/ UpdateWriter(o, g)
          \/ Status(o) \/ PruneSession(o) \/ PruneState(o)
    \/ Handler \/ Service \/ Watchdog \/ Processes

Spec == Init /\ [][Next]_vars

-----------------------------------------------------------------------------
(* Properties.                                                             *)

(* What a boot would start, unless the desired state could not be written   *)
(* or read.                                                                *)
Resumed ==
    IF active # NoSession /\ active.owner \notin lost
          /\ desired[active.owner].running
    THEN desired[active.owner].config
    ELSE NoConfig

(* Sessions across crashes, failed commits and half-failed rollbacks: what  *)
(* require_active_session accepts, and what a boot resumes, follow          *)
(* OwnerSessions.  A session that a takeover, a StopClash or a rollback has *)
(* ended is never accepted again; and wherever a crash cuts a transition,   *)
(* three files that are written one by one agree on the session and its     *)
(* configuration, or nothing is resumed.                                    *)
Sessions == INSTANCE OwnerSessions WITH
    current <- active,
    resumed <- Resumed,
    highest <- highest

ImplementsSessions == Sessions!Spec

(* A StopClash under way was asked for with the session that is current     *)
(* until the very end: a stale client never stops the core of its successor. *)
OnlyTheCurrentSessionStops ==
    pc \in StopPcs =>
        req.owner = active.owner /\ req.generation = active.generation

(* Between two requests the supervised core is the one of the committed     *)
(* session, owner and configuration, unless a stop failed (Fatal) or some   *)
(* desired state was lost.  A refused StartClash leaves no core behind.     *)
IdleCoreIsCommitted ==
    pc = "idle" /\ core # NoCore /\ ~fatal /\ Serving =>
        /\ core.owner = active.owner
        /\ core.config = active.config \/ core.owner \in lost

(* Once StopClash has answered Ok, or the owner's state has been pruned, no *)
(* later boot, restore or request of another owner brings a core of this    *)
(* owner back, until it asks for one.                                       *)
AckedStopHolds == \A o \in stopped : core.owner # o

(* A crash at any point is recovered from: the core that runs for the       *)
(* committed session is the one a boot would restore, and a boot never       *)
(* starts a configuration whose StartClash did not commit, unless the state *)
(* that says so could not be written or read.                               *)
BootResumesCommitted ==
    active # NoSession /\ active.owner \notin lost =>
        LET d == desired[active.owner]
        IN  /\ d.running => d.config = active.config
            /\ core # NoCore => d.running

(* A core of an earlier process that the record names is stopped before     *)
(* another is started, as long as its identity can be told.                 *)
RecordedCoreExcludesStart ==
    core # NoCore /\ record \in live \ unrecognised => record = core.pid

(* No core is lost track of: one that is alive is held by the manager, or   *)
(* the record names it and the next boot stops it, however stops, starts,   *)
(* restarts and rollbacks fail.  Only a core not yet recorded when the      *)
(* process died, and one that a boot could not reconcile with, get away.    *)
NoCoreIsLost == live \subseteq {core.pid, record} \cup orphaned

(* A previous core that reconciliation found alive is stopped before        *)
(* supervision resumes, in this process or in a later one.                  *)
FoundCoreIsStoppedFirst ==
    core # NoCore => found \cap (live \ unrecognised) = {}
=============================================================================
