------------------------ MODULE OwnerLifecycleProofs ------------------------
(***************************************************************************)
(* Owner sessions across crashes, for every set of owners, configurations  *)
(* and processes and every bound on generations.  The invariants of        *)
(* OwnerLifecycle become inductive with what each program point of the     *)
(* handler and each stage of the boot knows of the files and of the core.  *)
(***************************************************************************)
EXTENDS OwnerLifecycle, TLAPS

(* The files and the core at each point of a transition. *)
HandlerPoints ==
    /\ pc # "idle" => Serving
    /\ pc \in StartPcs => req.owner \in Owner /\ req.config \in Config
    /\ pc \in StopPcs => req.owner \in Owner
    /\ pc \in {"persistPrevious", "clearPrevious", "start", "persistRejected",
              "rollbackPersist", "rollbackClear", "stopPersist", "stopClear"}
          => core = NoCore
    /\ pc \in {"start", "record", "persistStarted", "commitGeneration",
              "commitActive", "rejected", "persistRejected"}
          => active = NoSession
    /\ pc = "record" => core # NoCore
    /\ pc \in {"record", "persistStarted", "commitGeneration", "commitActive"}
          /\ core # NoCore
          => core.owner = req.owner /\ core.config = req.config
    /\ pc \in {"commitGeneration", "commitActive"} =>
          \/ req.owner \in lost
          \/ desired[req.owner] = [running |-> TRUE, config |-> req.config]
    /\ pc = "rejected" /\ core # NoCore => fatal

(* The boot starts with no core, and restores the committed one. *)
BootPoints ==
    /\ mode \in {"down", "reconcile", "terminate", "restore"} => core = NoCore
    /\ mode \in {"restore", "bootRecord"} => reconciled
    /\ mode = "bootRecord" =>
          /\ active # NoSession
          /\ core # NoCore
          /\ core.owner = active.owner
          /\ core.config = active.config \/ core.owner \in lost

(* A generation is used once: the file counts every session ever valid,     *)
(* and the one about to be committed is new.                                *)
FreshGeneration ==
    /\ highest <= generation
    /\ pc = "commitActive" => req.generation = generation /\ highest < generation

(* An owner told that the core is stopped, or pruned, has nothing that a    *)
(* boot could restore.                                                      *)
StopIsDurable ==
    \A o \in stopped :
        /\ core.owner # o
        /\ active.owner # o \/ ~desired[o].running
        /\ pc \in StartPcs => req.owner # o

(* Reconciliation leaves no recorded core of a previous process. *)
Reconciled ==
    /\ core # NoCore => reconciled
    /\ reconciled /\ record \in live \ unrecognised =>
          core # NoCore /\ record = core.pid

(* Once the boot has looked at the record, a live core is held or known to  *)
(* be an orphan; until then the record may name it.                         *)
Early == mode \in {"down", "reconcile", "terminate"}

Accounted ==
    /\ core.pid \notin orphaned
    /\ Early => live \subseteq {record} \cup orphaned
    /\ ~Early => live \subseteq {core.pid} \cup orphaned

IInv ==
    /\ TypeOK
    /\ HandlerPoints
    /\ BootPoints
    /\ FreshGeneration
    /\ StopIsDurable
    /\ Reconciled
    /\ Accounted
    /\ OnlyTheCurrentSessionStops
    /\ IdleCoreIsCommitted
    /\ BootResumesCommitted

-----------------------------------------------------------------------------
(* What reads and writes of the desired state leave in the files. *)
LEMMA QuarantineFacts ==
  ASSUME TypeOK, NEW o \in Owner, Quarantine(o)
  PROVE  /\ desired' \in [Owner -> Desired]
         /\ lost' \in SUBSET Owner
         /\ lost \subseteq lost' /\ o \in lost'
         /\ \A q \in Owner : q # o => desired'[q] = desired[q]
         /\ ~desired'[o].running
<1>1. Default \in Desired /\ ~Default.running
  BY DEF Desired, Default
<1> QED
  BY <1>1 DEF TypeOK, Quarantine

LEMMA PersistStoppedFacts ==
  ASSUME TypeOK, NEW o \in Owner, PersistStopped(o)
  PROVE  /\ desired' \in [Owner -> Desired]
         /\ lost' \in SUBSET Owner
         /\ lost \subseteq lost'
         /\ \A q \in Owner : q # o => desired'[q] = desired[q]
         /\ \A q \in Owner : ~desired[q].running => ~desired'[q].running
         /\ o \in lost' \/ ~desired'[o].running
<1>1. Stopped(desired[o]) \in Desired /\ Default \in Desired
  BY DEF TypeOK, Desired, Stopped, Default
<1>2. ~Stopped(desired[o]).running /\ ~Default.running
  BY DEF Stopped, Default
<1>3. /\ desired \in [Owner -> Desired] /\ lost \in SUBSET Owner
      /\ \/ desired' = [desired EXCEPT ![o] = Stopped(desired[o])] /\ lost' = lost
         \/ desired' = desired /\ lost' = lost \cup {o}
         \/ desired' = [desired EXCEPT ![o] = Default] /\ lost' = lost \cup {o}
  BY DEF TypeOK, PersistStopped, Quarantine
<1> QED
  BY <1>1, <1>2, <1>3

(* The same of the write that a start makes. *)
LEMMA PersistStartedFacts ==
  ASSUME TypeOK, NEW o \in Owner, NEW cfg \in Config, PersistStarted(o, cfg)
  PROVE  /\ desired' \in [Owner -> Desired]
         /\ lost' \in SUBSET Owner
         /\ lost \subseteq lost' \cup {o}
         /\ \A q \in Owner : q # o => desired'[q] = desired[q]
         /\ \/ o \in lost'
            \/ desired'[o] = [running |-> TRUE, config |-> cfg]
<1>1. [running |-> TRUE, config |-> cfg] \in Desired
  BY DEF Desired
<1> QED
  BY <1>1, QuarantineFacts DEF TypeOK, PersistStarted

(* A core stopped, or given up by supervision, leaves no recognised process *)
(* that the record names.                                                   *)
LEMMA CoreStoppedFacts ==
  ASSUME TypeOK, Reconciled, CoreStopped, UNCHANGED reconciled
  PROVE  /\ core' = NoCore /\ fatal' = FALSE
         /\ live' \in SUBSET Pid /\ unrecognised' \in SUBSET live'
         /\ record' \in Pid \cup {NoPid}
         /\ Reconciled'
BY PidAssumption DEF CoreStopped, TypeOK, Reconciled, Dies, RecordRemoved,
   Manager!Stop

LEMMA GivenUpFacts ==
  ASSUME TypeOK, Reconciled, UNCHANGED reconciled,
         core' = NoCore, Dies(core.pid), RecordRemoved, Manager!GiveUp
  PROVE  /\ fatal' = TRUE
         /\ live' \in SUBSET Pid /\ unrecognised' \in SUBSET live'
         /\ record' \in Pid \cup {NoPid}
         /\ Reconciled'
BY PidAssumption DEF TypeOK, Reconciled, Dies, RecordRemoved, Manager!GiveUp

(* A stop that fails changes the lifecycle cell only. *)
LEMMA StopFailsFacts ==
  ASSUME Reconciled, StopFails, UNCHANGED reconciled
  PROVE  /\ fatal' = TRUE /\ UNCHANGED <<core, live, unrecognised, record>>
         /\ Reconciled'
BY DEF Reconciled, StopFails, Manager!KillFails, osVars

(* A process just spawned is not the recorded one. *)
LEMMA SpawnFacts ==
  ASSUME TypeOK, NEW p \in Pid, NEW o \in Owner, NEW cfg \in Config,
         Spawn(p, o, cfg)
  PROVE  /\ core' = [pid |-> p, owner |-> o, config |-> cfg]
         /\ core' \in Core /\ core' # NoCore
         /\ core'.owner = o /\ core'.config = cfg
         /\ fatal' = FALSE
         /\ live' \in SUBSET Pid /\ unrecognised' = unrecognised
         /\ unrecognised' \in SUBSET live'
         /\ record \notin live \ unrecognised =>
               record \notin live' \ unrecognised'
BY PidAssumption DEF TypeOK, Spawn, Manager!Spawn, Core, NoCore

LEMMA SettleFacts ==
  ASSUME Reconciled, Manager!Settle, record' = core.pid,
         UNCHANGED <<core, osVars, reconciled>>, core # NoCore
  PROVE  fatal' = FALSE /\ Reconciled'
BY DEF Reconciled, Manager!Settle, osVars

(* A start undone leaves no core, or one in failed_child and Fatal. *)
LEMMA SpawnUndoneFacts ==
  ASSUME TypeOK, Reconciled, NEW f \in BOOLEAN, SpawnUndone(f),
         core # NoCore, UNCHANGED reconciled
  PROVE  /\ record' \in Pid \cup {NoPid}
         /\ fatal' \in BOOLEAN
         /\ live' \in SUBSET Pid /\ unrecognised' \in SUBSET live'
         /\ core' = NoCore \/ (core' = core /\ fatal' = TRUE)
         /\ Reconciled'
<1>1. CASE core' = NoCore /\ Dies(core.pid) /\ fatal' = f
  <2>1. record' \in {record, core.pid} /\ core.pid \in Pid
    BY DEF TypeOK, SpawnUndone, Core, NoCore
  <2>2. ~reconciled \/ record' \notin live' \ unrecognised'
    BY <1>1, <2>1 DEF Reconciled, Dies
  <2>3. Reconciled'
    BY <1>1, <2>2 DEF Reconciled
  <2>4. fatal' \in BOOLEAN
    BY <1>1, Zenon
  <2>5. live' \in SUBSET Pid /\ unrecognised' \in SUBSET live'
    BY <1>1 DEF TypeOK, Dies
  <2>6. record' \in Pid \cup {NoPid}
    BY <2>1 DEF TypeOK
  <2> QED
    BY <1>1, <2>3, <2>4, <2>5, <2>6
<1>2. CASE UNCHANGED <<core, osVars>> /\ Manager!KillFails
  BY <1>2 DEF TypeOK, Reconciled, SpawnUndone, osVars, Core, NoCore,
     Manager!KillFails
<1> QED
  BY <1>1, <1>2 DEF SpawnUndone

(* The fields of well-typed cores and sessions. *)
LEMMA FieldTypes ==
  ASSUME TypeOK
  PROVE  /\ core.pid \in Pid \cup {NoPid}
         /\ core.owner \in Owner \cup {NoOwner}
         /\ core.config \in Config \cup {NoConfig}
         /\ active.owner \in Owner \cup {NoOwner}
         /\ active.generation \in Nat
         /\ active # NoSession => active.owner \in Owner /\ active.config \in Config
BY DEF TypeOK, Core, NoCore, Session, NoSession

(* A desired state that runs is its configuration. *)
LEMMA RunningDesired ==
  ASSUME NEW d \in Desired, d.running
  PROVE  d = [running |-> TRUE, config |-> d.config]
BY DEF Desired

(* The initial states. *)
LEMMA InitIInv == Init => IInv
<1> SUFFICES ASSUME Init PROVE IInv
  OBVIOUS
<1> USE OwnerAssumption, PidAssumption
    DEF Init, NoSession, NoCore, NoRequest, Default
<1>1. TypeOK
  BY DEF TypeOK, Modes, Desired
<1>2. /\ HandlerPoints /\ BootPoints /\ FreshGeneration /\ StopIsDurable
      /\ Reconciled /\ Accounted
  BY DEF HandlerPoints, BootPoints, FreshGeneration, StopIsDurable,
     Reconciled, Accounted, Early, StartPcs, StopPcs, Serving
<1>3. /\ OnlyTheCurrentSessionStops /\ IdleCoreIsCommitted
      /\ BootResumesCommitted
  BY DEF OnlyTheCurrentSessionStops, IdleCoreIsCommitted,
     BootResumesCommitted, StopPcs
<1> QED
  BY <1>1, <1>2, <1>3 DEF IInv

(* No action loses track of a core. *)
LEMMA NextAccounted ==
  ASSUME TypeOK, HandlerPoints, BootPoints, Accounted, [Next]_vars
  PROVE  Accounted' /\ orphaned' \in SUBSET live'
<1> USE PidAssumption DEF Accounted, Early, Serving, histVars, procVars, osVars,
        coreVars
<1>0. /\ core.pid \in Pid \cup {NoPid} /\ core = NoCore => core.pid = NoPid
      /\ live \in SUBSET Pid /\ orphaned \in SUBSET live
      /\ pc # "idle" => ~Early
      /\ Early => core = NoCore
      /\ pc \in {"start"} \/ mode = "restore" => core = NoCore
      /\ NoCore.pid = NoPid
  BY DEF TypeOK, HandlerPoints, BootPoints, Core, NoCore
<1>1. ASSUME UNCHANGED <<live, orphaned, core>>,
             Early' <=> Early, Early => UNCHANGED record
      PROVE  Accounted' /\ orphaned' \in SUBSET live'
  BY <1>0, <1>1
(* Steps that stop the core or fail to. *)
<1>2. ASSUME CoreStopped \/ StopFails \/ SpawnUndone(TRUE) \/ SpawnUndone(FALSE)
                \/ (core' = NoCore /\ Dies(core.pid)),
             UNCHANGED orphaned, ~Early, ~Early'
      PROVE  Accounted' /\ orphaned' \in SUBSET live'
  BY <1>0, <1>2 DEF CoreStopped, StopFails, SpawnUndone, Dies
<1>3. ASSUME NEW p \in Pid, NEW o, NEW cfg, Spawn(p, o, cfg),
             UNCHANGED orphaned, ~Early, ~Early', core = NoCore
      PROVE  Accounted' /\ orphaned' \in SUBSET live'
  BY <1>0, <1>3 DEF Spawn
<1>4. CASE \E o \in Owner : \/ \E cfg \in Config : StartClash(o, cfg)
                            \/ \E g \in 1..highest : StopClash(o, g) \/ UpdateWriter(o, g)
                            \/ Status(o) \/ PruneSession(o) \/ PruneState(o)
  BY <1>1, <1>4 DEF StartClash, StopClash, UpdateWriter, Status, PruneSession,
     PruneState, diskVars, reqVars
<1>5. CASE Handler
  <2>1. CASE StopPrevious \/ StopRejected \/ Rollback \/ StopCore
    BY <1>0, <1>2, <2>1 DEF StopPrevious, StopRejected, Rollback, StopCore, Step
  <2>2. CASE RecordCore
    BY <1>0, <1>1, <1>2, <2>2 DEF RecordCore, Step
  <2>3. ASSUME NEW p \in Pid, StartCore(p)
        PROVE  Accounted' /\ orphaned' \in SUBSET live'
    BY <1>0, <1>3, <2>3 DEF StartCore, Step
  <2>4. CASE \/ PersistPrevious \/ ClearPrevious \/ MaterializeFails \/ StartFails
             \/ PersistRejected \/ PersistStartedCore \/ CommitGeneration
             \/ CommitActive \/ RollbackPersist \/ RollbackClear
             \/ StopPersist \/ StopClear
    BY <1>1, <2>4 DEF PersistPrevious, ClearPrevious, MaterializeFails,
       StartFails, PersistRejected, PersistStartedCore, CommitGeneration,
       CommitActive, RollbackPersist, RollbackClear, StopPersist, StopClear,
       Step, diskVars
  <2> QED
    BY <1>5, <2>1, <2>2, <2>3, <2>4 DEF Handler
<1>6. CASE Service
  <2>1. CASE StopIpcServer
    BY <1>0, <1>2, <2>1 DEF StopIpcServer
  <2>2. CASE Exit
    BY <1>0, <2>2 DEF Exit, diskVars
  <2>3. CASE Boot \/ ReconcileFinds
    BY <1>1, <2>3 DEF Boot, ReconcileFinds, diskVars
  <2>4. CASE ReconcileDismisses \/ ReconcileFails
    BY <1>0, <2>4 DEF ReconcileDismisses, ReconcileFails, diskVars
  <2>5. CASE ReconcileTerminates
    BY <1>0, <2>5 DEF ReconcileTerminates, Dies
  <2>6. CASE RestoreNothing \/ RestoreFails
    BY <1>1, <2>6 DEF RestoreNothing, RestoreFails, Restorable, diskVars
  <2>7. ASSUME NEW p \in Pid, RestoreCore(p)
        PROVE  Accounted' /\ orphaned' \in SUBSET live'
    BY <1>0, <1>3, <2>7 DEF RestoreCore, Restorable
  <2>8. CASE RestoreRecord
    BY <1>0, <1>1, <1>2, <2>8 DEF RestoreRecord
  <2> QED
    BY <1>6, <2>1, <2>2, <2>3, <2>4, <2>5, <2>6, <2>7, <2>8 DEF Service
<1>7. CASE Watchdog
  <2>1. CASE RestartRecorded
    BY <1>1, <2>1 DEF RestartRecorded, Supervised
  <2>2. CASE SupervisionEnds
    BY <1>0, <1>2, <2>2 DEF SupervisionEnds, Supervised
  <2>3. ASSUME NEW p \in Pid, CoreRestarts(p)
        PROVE  Accounted' /\ orphaned' \in SUBSET live'
    <3>1. core'.pid = p
      BY <2>3 DEF CoreRestarts, Supervised, TypeOK, Core, NoCore
    <3> QED
      BY <1>0, <2>3, <3>1 DEF CoreRestarts, Supervised
  <2> QED
    BY <1>7, <2>1, <2>2, <2>3 DEF Watchdog
<1>8. CASE Processes
  <2>1. CASE CoreDies
    BY <1>0, <2>1 DEF CoreDies, Dies, diskVars
  <2>2. ASSUME NEW p \in Pid, OrphanExit(p)
        PROVE  Accounted' /\ orphaned' \in SUBSET live'
    BY <1>0, <2>2 DEF OrphanExit, Dies, diskVars
  <2>3. ASSUME NEW p \in Pid, ExecutableMoves(p)
        PROVE  Accounted' /\ orphaned' \in SUBSET live'
    BY <1>1, <2>3 DEF ExecutableMoves, diskVars
  <2> QED
    BY <1>8, <2>1, <2>2, <2>3 DEF Processes
<1>9. CASE UNCHANGED vars
  BY <1>1, <1>9 DEF vars, diskVars
<1> QED
  BY <1>4, <1>5, <1>6, <1>7, <1>8, <1>9 DEF Next

(* Every action preserves the inductive invariant. *)
LEMMA NextIInv == IInv /\ [Next]_vars => IInv'
<1> SUFFICES ASSUME IInv, [Next]_vars PROVE IInv'
  OBVIOUS
<1> USE OwnerAssumption, ConfigAssumption, PidAssumption
    DEF IInv, TypeOK, StartPcs, StopPcs, Modes,
        Serving, Starting, Dies, NoSession, Session, NoCore, Core, NoRequest,
        diskVars, osVars, coreVars, procVars, reqVars, histVars

<1>0. Accounted' /\ orphaned' \in SUBSET live'
  BY NextAccounted DEF IInv
<1>1. ASSUME NEW o \in Owner, NEW cfg \in Config, StartClash(o, cfg)
      PROVE  IInv'
  BY <1>1, <1>0, FieldTypes DEF StartClash, HandlerPoints, BootPoints,
     FreshGeneration, StopIsDurable, Reconciled, OnlyTheCurrentSessionStops,
     IdleCoreIsCommitted, BootResumesCommitted
<1>2. ASSUME NEW o \in Owner, NEW g \in 1..highest, StopClash(o, g)
      PROVE  IInv'
  BY <1>2, <1>0, FieldTypes DEF StopClash, Proves, HandlerPoints,
     BootPoints, FreshGeneration, StopIsDurable, Reconciled,
     OnlyTheCurrentSessionStops, IdleCoreIsCommitted, BootResumesCommitted
<1>3. ASSUME NEW o \in Owner, NEW g \in 1..highest, UpdateWriter(o, g)
      PROVE  IInv'
  <2>1. Default \in Desired /\ ~Default.running /\ desired[o] \in Desired
    BY <1>3 DEF Default, Desired
  <2>2. TypeOK'
    BY <1>3, <1>0, <2>1, FieldTypes DEF UpdateWriter, Proves, HandlerPoints,
       BootPoints
  <2>3. HandlerPoints' /\ BootPoints' /\ FreshGeneration'
    BY <1>3, <2>1, FieldTypes DEF UpdateWriter, Proves, HandlerPoints,
       BootPoints, FreshGeneration, BootResumesCommitted,
       IdleCoreIsCommitted
  <2>4. StopIsDurable'
    BY <1>3, <2>1, FieldTypes DEF UpdateWriter, Proves, HandlerPoints,
       BootPoints, StopIsDurable
  <2>5. Reconciled' /\ OnlyTheCurrentSessionStops'
    BY <1>3, <2>1, FieldTypes DEF UpdateWriter, Proves, HandlerPoints,
       BootPoints, Reconciled, OnlyTheCurrentSessionStops
  <2>6. IdleCoreIsCommitted' /\ BootResumesCommitted'
    BY <1>3, <2>1, FieldTypes DEF UpdateWriter, Proves, HandlerPoints,
       BootPoints, IdleCoreIsCommitted, BootResumesCommitted
  <2> QED
    BY <1>0, <2>2, <2>3, <2>4, <2>5, <2>6
<1>4. ASSUME NEW o \in Owner, PruneSession(o) PROVE IInv'
  BY <1>4, <1>0, FieldTypes DEF PruneSession, ClearActive, HandlerPoints,
     BootPoints, FreshGeneration, StopIsDurable, Reconciled,
     OnlyTheCurrentSessionStops, IdleCoreIsCommitted, BootResumesCommitted
<1>5. ASSUME NEW o \in Owner, PruneState(o) PROVE IInv'
  <2>1. Default \in Desired /\ ~Default.running
    BY <1>5 DEF Default, Desired
  <2>2. pc = "idle" /\ core = NoCore
    BY <1>5 DEF PruneState, HandlerPoints, BootPoints
  <2>3. TypeOK'
    BY <1>5, <1>0, <2>1, <2>2, FieldTypes DEF PruneState, HandlerPoints,
       BootPoints
  <2>4. HandlerPoints' /\ BootPoints' /\ FreshGeneration'
    BY <1>5, <2>1, <2>2, FieldTypes DEF PruneState, HandlerPoints,
       BootPoints, FreshGeneration, BootResumesCommitted,
       IdleCoreIsCommitted
  <2>5. StopIsDurable'
    BY <1>5, <2>1, <2>2, FieldTypes DEF PruneState, HandlerPoints,
       BootPoints, StopIsDurable
  <2>6. Reconciled' /\ OnlyTheCurrentSessionStops'
    BY <1>5, <2>1, <2>2, FieldTypes DEF PruneState, HandlerPoints,
       BootPoints, Reconciled, OnlyTheCurrentSessionStops
  <2>7. IdleCoreIsCommitted' /\ BootResumesCommitted'
    BY <1>5, <2>1, <2>2, FieldTypes DEF PruneState, HandlerPoints,
       BootPoints, IdleCoreIsCommitted, BootResumesCommitted
  <2> QED
    BY <1>0, <2>3, <2>4, <2>5, <2>6, <2>7
<1>6. CASE StopPrevious
  <2>1. UNCHANGED <<active, generation, desired, req, reconciled, histVars>>
        /\ pc = "stopPrevious" /\ pc' \in {"persistPrevious", "idle"}
    BY <1>6 DEF StopPrevious, Step
  <2>2. core' = core \/ core' = NoCore
    BY <1>6, FieldTypes, CoreStoppedFacts, StopFailsFacts DEF StopPrevious,
       Step, HandlerPoints, BootPoints
  <2>3. TypeOK'
    BY <1>6, <1>0, FieldTypes, CoreStoppedFacts, StopFailsFacts DEF
       StopPrevious, Step, HandlerPoints, BootPoints
  <2>4. HandlerPoints' /\ BootPoints' /\ FreshGeneration'
    BY <1>6, FieldTypes, CoreStoppedFacts, StopFailsFacts DEF StopPrevious,
       Step, HandlerPoints, BootPoints, FreshGeneration,
       BootResumesCommitted, IdleCoreIsCommitted
  <2>5. StopIsDurable' /\ OnlyTheCurrentSessionStops'
    BY <2>1, <2>2 DEF StopIsDurable, OnlyTheCurrentSessionStops
  <2>6. Reconciled'
    BY <1>6, <2>1, FieldTypes, CoreStoppedFacts, StopFailsFacts DEF
       StopPrevious, Step, HandlerPoints, BootPoints
  <2>7. IdleCoreIsCommitted' /\ BootResumesCommitted'
    BY <1>6, FieldTypes, CoreStoppedFacts, StopFailsFacts DEF StopPrevious,
       Step, HandlerPoints, BootPoints, IdleCoreIsCommitted,
       BootResumesCommitted
  <2> QED
    BY <1>0, <2>3, <2>4, <2>5, <2>6, <2>7
<1>7. CASE PersistPrevious
  <2>1. active # NoSession => active.owner \in Owner /\ PersistStopped(active.owner)
    BY <1>7, FieldTypes DEF PersistPrevious
  <2>2. TypeOK'
    BY <1>7, <1>0, <2>1, FieldTypes, PersistStoppedFacts DEF
       PersistPrevious, Step, HandlerPoints, BootPoints
  <2>3. HandlerPoints' /\ BootPoints' /\ FreshGeneration'
    BY <1>7, <2>1, FieldTypes, PersistStoppedFacts DEF PersistPrevious,
       Step, HandlerPoints, BootPoints, FreshGeneration,
       BootResumesCommitted, IdleCoreIsCommitted
  <2>4. StopIsDurable'
    BY <1>7, <2>1, FieldTypes, PersistStoppedFacts DEF PersistPrevious,
       Step, HandlerPoints, BootPoints, StopIsDurable
  <2>5. Reconciled' /\ OnlyTheCurrentSessionStops'
    BY <1>7, <2>1, FieldTypes, PersistStoppedFacts DEF PersistPrevious,
       Step, HandlerPoints, BootPoints, Reconciled,
       OnlyTheCurrentSessionStops
  <2>6. IdleCoreIsCommitted' /\ BootResumesCommitted'
    BY <1>7, <2>1, FieldTypes, PersistStoppedFacts DEF PersistPrevious,
       Step, HandlerPoints, BootPoints, IdleCoreIsCommitted,
       BootResumesCommitted
  <2> QED
    BY <1>0, <2>2, <2>3, <2>4, <2>5, <2>6
<1>8. CASE ClearPrevious
  BY <1>8, <1>0, FieldTypes DEF ClearPrevious, Step, ClearActive,
     HandlerPoints, BootPoints, FreshGeneration, StopIsDurable, Reconciled,
     OnlyTheCurrentSessionStops, IdleCoreIsCommitted, BootResumesCommitted
<1>9. CASE MaterializeFails
  BY <1>9, <1>0, FieldTypes DEF MaterializeFails, Step, HandlerPoints,
     BootPoints, FreshGeneration, StopIsDurable, Reconciled,
     OnlyTheCurrentSessionStops, IdleCoreIsCommitted, BootResumesCommitted
<1>10. CASE StartFails
  BY <1>10, <1>0, FieldTypes DEF StartFails, Step, HandlerPoints,
     BootPoints, FreshGeneration, StopIsDurable, Reconciled,
     OnlyTheCurrentSessionStops, IdleCoreIsCommitted, BootResumesCommitted
<1>11. ASSUME NEW p \in Pid, StartCore(p) PROVE IInv'
  <2>1. req.owner \in Owner /\ req.config \in Config /\ core = NoCore
    BY <1>11 DEF StartCore, Step, HandlerPoints
  <2>2. /\ core'.owner = req.owner /\ core'.config = req.config /\ core' # NoCore
        /\ UNCHANGED <<active, desired, stopped, lost, req>> /\ active = NoSession
        /\ pc = "start" /\ pc' = "record"
    BY <1>11, <2>1, SpawnFacts DEF StartCore, Step, HandlerPoints, diskVars, histVars
  <2>3. TypeOK'
    BY <1>11, <1>0, <2>1, <2>2, SpawnFacts DEF StartCore, Step
  <2>4. HandlerPoints' /\ BootPoints' /\ FreshGeneration'
    BY <1>11, <2>1, <2>2, FieldTypes DEF StartCore, Step, HandlerPoints,
       BootPoints, FreshGeneration
  <2>5. StopIsDurable'
    BY <2>1, <2>2 DEF StopIsDurable
  <2>6. Reconciled' /\ OnlyTheCurrentSessionStops'
    BY <1>11, <2>1, <2>2, SpawnFacts DEF StartCore, Step, Reconciled,
       OnlyTheCurrentSessionStops
  <2>7. IdleCoreIsCommitted' /\ BootResumesCommitted'
    BY <2>2 DEF IdleCoreIsCommitted, BootResumesCommitted
  <2> QED
    BY <1>0, <2>3, <2>4, <2>5, <2>6, <2>7
<1>12. CASE RecordCore
  <2>1. UNCHANGED <<active, generation, desired, req, reconciled, histVars>>
        /\ pc = "record" /\ pc' \in {"persistStarted", "rejected"}
    BY <1>12 DEF RecordCore, Step
  <2>2. core' = core \/ core' = NoCore
    BY <1>12, FieldTypes, SettleFacts, SpawnUndoneFacts DEF RecordCore,
       Step, HandlerPoints, BootPoints
  <2>3. TypeOK'
    BY <1>12, <1>0, FieldTypes, SettleFacts, SpawnUndoneFacts DEF
       RecordCore, Step, HandlerPoints, BootPoints
  <2>4. HandlerPoints' /\ BootPoints' /\ FreshGeneration'
    BY <1>12, FieldTypes, SettleFacts, SpawnUndoneFacts DEF RecordCore,
       Step, HandlerPoints, BootPoints, FreshGeneration,
       BootResumesCommitted, IdleCoreIsCommitted
  <2>5. StopIsDurable' /\ OnlyTheCurrentSessionStops'
    BY <2>1, <2>2 DEF StopIsDurable, OnlyTheCurrentSessionStops
  <2>6. Reconciled'
    BY <1>12, <2>1, FieldTypes, SettleFacts, SpawnUndoneFacts DEF
       RecordCore, Step, HandlerPoints, BootPoints
  <2>7. IdleCoreIsCommitted' /\ BootResumesCommitted'
    BY <1>12, FieldTypes, SettleFacts, SpawnUndoneFacts DEF RecordCore,
       Step, HandlerPoints, BootPoints, IdleCoreIsCommitted,
       BootResumesCommitted
  <2> QED
    BY <1>0, <2>3, <2>4, <2>5, <2>6, <2>7
<1>13. CASE StopRejected
  <2>1. UNCHANGED <<active, generation, desired, req, reconciled, histVars>>
        /\ pc = "rejected" /\ pc' \in {"persistRejected", "idle"}
    BY <1>13 DEF StopRejected, Step
  <2>2. core' = core \/ core' = NoCore
    BY <1>13, FieldTypes, CoreStoppedFacts, StopFailsFacts DEF StopRejected,
       Step, HandlerPoints, BootPoints
  <2>3. TypeOK'
    BY <1>13, <1>0, FieldTypes, CoreStoppedFacts, StopFailsFacts DEF
       StopRejected, Step, HandlerPoints, BootPoints
  <2>4. HandlerPoints' /\ BootPoints' /\ FreshGeneration'
    BY <1>13, FieldTypes, CoreStoppedFacts, StopFailsFacts DEF StopRejected,
       Step, HandlerPoints, BootPoints, FreshGeneration,
       BootResumesCommitted, IdleCoreIsCommitted
  <2>5. StopIsDurable' /\ OnlyTheCurrentSessionStops'
    BY <2>1, <2>2 DEF StopIsDurable, OnlyTheCurrentSessionStops
  <2>6. Reconciled'
    BY <1>13, <2>1, FieldTypes, CoreStoppedFacts, StopFailsFacts DEF
       StopRejected, Step, HandlerPoints, BootPoints
  <2>7. IdleCoreIsCommitted' /\ BootResumesCommitted'
    BY <1>13, FieldTypes, CoreStoppedFacts, StopFailsFacts DEF StopRejected,
       Step, HandlerPoints, BootPoints, IdleCoreIsCommitted,
       BootResumesCommitted
  <2> QED
    BY <1>0, <2>3, <2>4, <2>5, <2>6, <2>7
<1>14. CASE PersistRejected
  <2>1. req.owner \in Owner /\ PersistStopped(req.owner)
    BY <1>14 DEF PersistRejected, Step, HandlerPoints
  <2>2. TypeOK'
    BY <1>14, <1>0, <2>1, FieldTypes, PersistStoppedFacts DEF
       PersistRejected, Step, HandlerPoints, BootPoints
  <2>3. HandlerPoints' /\ BootPoints' /\ FreshGeneration'
    BY <1>14, <2>1, FieldTypes, PersistStoppedFacts DEF PersistRejected,
       Step, HandlerPoints, BootPoints, FreshGeneration,
       BootResumesCommitted, IdleCoreIsCommitted
  <2>4. StopIsDurable'
    BY <1>14, <2>1, FieldTypes, PersistStoppedFacts DEF PersistRejected,
       Step, HandlerPoints, BootPoints, StopIsDurable
  <2>5. Reconciled' /\ OnlyTheCurrentSessionStops'
    BY <1>14, <2>1, FieldTypes, PersistStoppedFacts DEF PersistRejected,
       Step, HandlerPoints, BootPoints, Reconciled,
       OnlyTheCurrentSessionStops
  <2>6. IdleCoreIsCommitted' /\ BootResumesCommitted'
    BY <1>14, <2>1, FieldTypes, PersistStoppedFacts DEF PersistRejected,
       Step, HandlerPoints, BootPoints, IdleCoreIsCommitted,
       BootResumesCommitted
  <2> QED
    BY <1>0, <2>2, <2>3, <2>4, <2>5, <2>6
<1>15. CASE PersistStartedCore
  <2>1. /\ req.owner \in Owner /\ req.config \in Config
        /\ PersistStarted(req.owner, req.config)
    BY <1>15 DEF PersistStartedCore, Step, HandlerPoints
  <2> QED
    BY <1>15, <1>0, <2>1, FieldTypes, PersistStartedFacts DEF
       PersistStartedCore, Step, HandlerPoints, BootPoints, FreshGeneration,
       StopIsDurable, Reconciled, OnlyTheCurrentSessionStops,
       IdleCoreIsCommitted, BootResumesCommitted
<1>16. CASE CommitGeneration
  <2>1. TypeOK'
    BY <1>16, <1>0, FieldTypes DEF CommitGeneration, HandlerPoints,
       BootPoints
  <2>2. HandlerPoints' /\ BootPoints' /\ FreshGeneration'
    <3>1. HandlerPoints'
      BY <1>16, FieldTypes DEF CommitGeneration, HandlerPoints
    <3>2. BootPoints'
      BY <1>16, FieldTypes DEF CommitGeneration, HandlerPoints, BootPoints
    <3>3. FreshGeneration'
      BY <1>16, FieldTypes DEF CommitGeneration, FreshGeneration
    <3> QED
      BY <3>1, <3>2, <3>3
  <2>3. StopIsDurable'
    BY <1>16, FieldTypes DEF CommitGeneration, HandlerPoints, BootPoints,
       StopIsDurable
  <2>4. Reconciled' /\ OnlyTheCurrentSessionStops'
    BY <1>16, FieldTypes DEF CommitGeneration, HandlerPoints, BootPoints,
       Reconciled, OnlyTheCurrentSessionStops
  <2>5. IdleCoreIsCommitted' /\ BootResumesCommitted'
    BY <1>16, FieldTypes DEF CommitGeneration, HandlerPoints, BootPoints,
       IdleCoreIsCommitted, BootResumesCommitted
  <2> QED
    BY <1>0, <2>1, <2>2, <2>3, <2>4, <2>5
<1>17. CASE CommitActive
  <2>1. TypeOK'
    BY <1>17, <1>0, FieldTypes DEF CommitActive, Step, CommitSession,
       HandlerPoints, BootPoints
  <2>2. HandlerPoints' /\ BootPoints' /\ FreshGeneration'
    BY <1>17, FieldTypes DEF CommitActive, Step, CommitSession,
       HandlerPoints, BootPoints, FreshGeneration, BootResumesCommitted,
       IdleCoreIsCommitted
  <2>3. StopIsDurable'
    BY <1>17, FieldTypes DEF CommitActive, Step, CommitSession,
       HandlerPoints, BootPoints, StopIsDurable
  <2>4. Reconciled' /\ OnlyTheCurrentSessionStops'
    BY <1>17, FieldTypes DEF CommitActive, Step, CommitSession,
       HandlerPoints, BootPoints, Reconciled, OnlyTheCurrentSessionStops
  <2>5. IdleCoreIsCommitted' /\ BootResumesCommitted'
    BY <1>17, FieldTypes DEF CommitActive, Step, CommitSession,
       HandlerPoints, BootPoints, IdleCoreIsCommitted, BootResumesCommitted
  <2> QED
    BY <1>0, <2>1, <2>2, <2>3, <2>4, <2>5
<1>18. CASE Rollback
  <2>1. UNCHANGED <<active, generation, desired, req, reconciled, histVars>>
        /\ pc = "rollback" /\ pc' \in {"rollbackPersist", "idle"}
    BY <1>18 DEF Rollback, Step
  <2>2. core' = core \/ core' = NoCore
    BY <1>18, FieldTypes, CoreStoppedFacts, StopFailsFacts DEF Rollback,
       Step, HandlerPoints, BootPoints
  <2>3. TypeOK'
    BY <1>18, <1>0, FieldTypes, CoreStoppedFacts, StopFailsFacts DEF
       Rollback, Step, HandlerPoints, BootPoints
  <2>4. HandlerPoints' /\ BootPoints' /\ FreshGeneration'
    BY <1>18, FieldTypes, CoreStoppedFacts, StopFailsFacts DEF Rollback,
       Step, HandlerPoints, BootPoints, FreshGeneration,
       BootResumesCommitted, IdleCoreIsCommitted
  <2>5. StopIsDurable' /\ OnlyTheCurrentSessionStops'
    BY <2>1, <2>2 DEF StopIsDurable, OnlyTheCurrentSessionStops
  <2>6. Reconciled'
    BY <1>18, <2>1, FieldTypes, CoreStoppedFacts, StopFailsFacts DEF
       Rollback, Step, HandlerPoints, BootPoints
  <2>7. IdleCoreIsCommitted' /\ BootResumesCommitted'
    BY <1>18, FieldTypes, CoreStoppedFacts, StopFailsFacts DEF Rollback,
       Step, HandlerPoints, BootPoints, IdleCoreIsCommitted,
       BootResumesCommitted
  <2> QED
    BY <1>0, <2>3, <2>4, <2>5, <2>6, <2>7
<1>19. CASE RollbackPersist
  <2>1. req.owner \in Owner /\ PersistStopped(req.owner)
    BY <1>19 DEF RollbackPersist, Step, HandlerPoints
  <2>2. TypeOK'
    BY <1>19, <1>0, <2>1, FieldTypes, PersistStoppedFacts DEF
       RollbackPersist, Step, HandlerPoints, BootPoints
  <2>3. HandlerPoints' /\ BootPoints' /\ FreshGeneration'
    BY <1>19, <2>1, FieldTypes, PersistStoppedFacts DEF RollbackPersist,
       Step, HandlerPoints, BootPoints, FreshGeneration,
       BootResumesCommitted, IdleCoreIsCommitted
  <2>4. StopIsDurable'
    BY <1>19, <2>1, FieldTypes, PersistStoppedFacts DEF RollbackPersist,
       Step, HandlerPoints, BootPoints, StopIsDurable
  <2>5. Reconciled' /\ OnlyTheCurrentSessionStops'
    BY <1>19, <2>1, FieldTypes, PersistStoppedFacts DEF RollbackPersist,
       Step, HandlerPoints, BootPoints, Reconciled,
       OnlyTheCurrentSessionStops
  <2>6. IdleCoreIsCommitted' /\ BootResumesCommitted'
    BY <1>19, <2>1, FieldTypes, PersistStoppedFacts DEF RollbackPersist,
       Step, HandlerPoints, BootPoints, IdleCoreIsCommitted,
       BootResumesCommitted
  <2> QED
    BY <1>0, <2>2, <2>3, <2>4, <2>5, <2>6
<1>20. CASE RollbackClear
  BY <1>20, <1>0, FieldTypes DEF RollbackClear, Step, ClearActive,
     HandlerPoints, BootPoints, FreshGeneration, StopIsDurable, Reconciled,
     OnlyTheCurrentSessionStops, IdleCoreIsCommitted, BootResumesCommitted
<1>21. CASE StopCore
  <2>1. UNCHANGED <<active, generation, desired, req, reconciled, histVars>>
        /\ pc = "stop" /\ pc' \in {"stopPersist", "idle"}
    BY <1>21 DEF StopCore, Step
  <2>2. core' = core \/ core' = NoCore
    BY <1>21, FieldTypes, CoreStoppedFacts, StopFailsFacts DEF StopCore,
       Step, HandlerPoints, BootPoints
  <2>3. TypeOK'
    BY <1>21, <1>0, FieldTypes, CoreStoppedFacts, StopFailsFacts DEF
       StopCore, Step, HandlerPoints, BootPoints
  <2>4. HandlerPoints' /\ BootPoints' /\ FreshGeneration'
    BY <1>21, FieldTypes, CoreStoppedFacts, StopFailsFacts DEF StopCore,
       Step, HandlerPoints, BootPoints, FreshGeneration,
       BootResumesCommitted, IdleCoreIsCommitted
  <2>5. StopIsDurable' /\ OnlyTheCurrentSessionStops'
    BY <2>1, <2>2 DEF StopIsDurable, OnlyTheCurrentSessionStops
  <2>6. Reconciled'
    BY <1>21, <2>1, FieldTypes, CoreStoppedFacts, StopFailsFacts DEF
       StopCore, Step, HandlerPoints, BootPoints
  <2>7. IdleCoreIsCommitted' /\ BootResumesCommitted'
    BY <1>21, FieldTypes, CoreStoppedFacts, StopFailsFacts DEF StopCore,
       Step, HandlerPoints, BootPoints, IdleCoreIsCommitted,
       BootResumesCommitted
  <2> QED
    BY <1>0, <2>3, <2>4, <2>5, <2>6, <2>7
<1>22. CASE StopPersist
  <2>1. req.owner \in Owner /\ PersistStopped(req.owner)
    BY <1>22 DEF StopPersist, Step, HandlerPoints
  <2>2. TypeOK'
    BY <1>22, <1>0, <2>1, FieldTypes, PersistStoppedFacts DEF StopPersist,
       Step, HandlerPoints, BootPoints
  <2>3. HandlerPoints' /\ BootPoints' /\ FreshGeneration'
    BY <1>22, <2>1, FieldTypes, PersistStoppedFacts DEF StopPersist, Step,
       HandlerPoints, BootPoints, FreshGeneration, BootResumesCommitted,
       IdleCoreIsCommitted
  <2>4. StopIsDurable'
    BY <1>22, <2>1, FieldTypes, PersistStoppedFacts DEF StopPersist, Step,
       HandlerPoints, BootPoints, StopIsDurable
  <2>5. Reconciled' /\ OnlyTheCurrentSessionStops'
    BY <1>22, <2>1, FieldTypes, PersistStoppedFacts DEF StopPersist, Step,
       HandlerPoints, BootPoints, Reconciled, OnlyTheCurrentSessionStops
  <2>6. IdleCoreIsCommitted' /\ BootResumesCommitted'
    BY <1>22, <2>1, FieldTypes, PersistStoppedFacts DEF StopPersist, Step,
       HandlerPoints, BootPoints, IdleCoreIsCommitted, BootResumesCommitted
  <2> QED
    BY <1>0, <2>2, <2>3, <2>4, <2>5, <2>6
<1>23. CASE StopClear
  <2>1. TypeOK'
    BY <1>23, <1>0, FieldTypes DEF StopClear, Step, ClearActive,
       HandlerPoints, BootPoints
  <2>2. HandlerPoints' /\ BootPoints' /\ FreshGeneration'
    BY <1>23, FieldTypes DEF StopClear, Step, ClearActive, HandlerPoints,
       BootPoints, FreshGeneration, BootResumesCommitted,
       IdleCoreIsCommitted
  <2>3. StopIsDurable'
    BY <1>23, FieldTypes DEF StopClear, Step, ClearActive, HandlerPoints,
       BootPoints, StopIsDurable
  <2>4. Reconciled' /\ OnlyTheCurrentSessionStops'
    BY <1>23, FieldTypes DEF StopClear, Step, ClearActive, HandlerPoints,
       BootPoints, Reconciled, OnlyTheCurrentSessionStops
  <2>5. IdleCoreIsCommitted' /\ BootResumesCommitted'
    BY <1>23, FieldTypes DEF StopClear, Step, ClearActive, HandlerPoints,
       BootPoints, IdleCoreIsCommitted, BootResumesCommitted
  <2> QED
    BY <1>0, <2>1, <2>2, <2>3, <2>4, <2>5
<1>24. CASE StopIpcServer
  <2>1. UNCHANGED <<active, generation, desired, req, pc, reconciled, histVars>>
    BY <1>24 DEF StopIpcServer
  <2>2. core' = core \/ core' = NoCore
    BY <1>24, FieldTypes, CoreStoppedFacts, StopFailsFacts DEF
       StopIpcServer, HandlerPoints, BootPoints
  <2>3. TypeOK'
    BY <1>24, <1>0, FieldTypes, CoreStoppedFacts, StopFailsFacts DEF
       StopIpcServer, HandlerPoints, BootPoints
  <2>4. HandlerPoints' /\ BootPoints' /\ FreshGeneration'
    BY <1>24, FieldTypes, CoreStoppedFacts, StopFailsFacts DEF
       StopIpcServer, HandlerPoints, BootPoints, FreshGeneration,
       BootResumesCommitted, IdleCoreIsCommitted
  <2>5. StopIsDurable' /\ OnlyTheCurrentSessionStops'
    BY <2>1, <2>2 DEF StopIsDurable, OnlyTheCurrentSessionStops
  <2>6. Reconciled'
    BY <1>24, <2>1, FieldTypes, CoreStoppedFacts, StopFailsFacts DEF
       StopIpcServer, HandlerPoints, BootPoints
  <2>7. IdleCoreIsCommitted' /\ BootResumesCommitted'
    BY <1>24, FieldTypes, CoreStoppedFacts, StopFailsFacts DEF
       StopIpcServer, HandlerPoints, BootPoints, IdleCoreIsCommitted,
       BootResumesCommitted
  <2> QED
    BY <1>0, <2>3, <2>4, <2>5, <2>6, <2>7
<1>25. CASE Exit
  BY <1>25, <1>0, FieldTypes DEF Exit, HandlerPoints, BootPoints,
     FreshGeneration, StopIsDurable, Reconciled, OnlyTheCurrentSessionStops,
     IdleCoreIsCommitted, BootResumesCommitted
<1>26. CASE Boot
  BY <1>26, <1>0, FieldTypes DEF Boot, HandlerPoints, BootPoints,
     FreshGeneration, StopIsDurable, Reconciled, OnlyTheCurrentSessionStops,
     IdleCoreIsCommitted, BootResumesCommitted
<1>27. CASE ReconcileFinds
  BY <1>27, <1>0, FieldTypes DEF ReconcileFinds, HandlerPoints, BootPoints,
     FreshGeneration, StopIsDurable, Reconciled, OnlyTheCurrentSessionStops,
     IdleCoreIsCommitted, BootResumesCommitted
<1>28. CASE ReconcileDismisses
  BY <1>28, <1>0, FieldTypes DEF ReconcileDismisses, Verified,
     RecordRemoved, HandlerPoints, BootPoints, FreshGeneration,
     StopIsDurable, Reconciled, OnlyTheCurrentSessionStops,
     IdleCoreIsCommitted, BootResumesCommitted
<1>29. CASE ReconcileTerminates
  BY <1>29, <1>0, FieldTypes DEF ReconcileTerminates, RecordRemoved,
     HandlerPoints, BootPoints, FreshGeneration, StopIsDurable, Reconciled,
     OnlyTheCurrentSessionStops, IdleCoreIsCommitted, BootResumesCommitted
<1>30. CASE ReconcileFails
  BY <1>30, <1>0, FieldTypes DEF ReconcileFails, HandlerPoints, BootPoints,
     FreshGeneration, StopIsDurable, Reconciled, OnlyTheCurrentSessionStops,
     IdleCoreIsCommitted, BootResumesCommitted
<1>31. CASE RestoreNothing
  <2>1. /\ UNCHANGED <<active, highest, generation, record, core, fatal, live,
                       unrecognised, pc, req, reconciled, stopped>>
        /\ mode = "restore" /\ mode' = "serving"
        /\ \/ UNCHANGED <<desired, lost>>
           \/ /\ active.owner \in Owner
              /\ Quarantine(active.owner)
    BY <1>31, FieldTypes DEF RestoreNothing
  <2>2. CASE UNCHANGED <<desired, lost>>
    BY <1>31, <1>0, <2>1, <2>2, FieldTypes DEF RestoreNothing, HandlerPoints,
       BootPoints, FreshGeneration, StopIsDurable, Reconciled,
       OnlyTheCurrentSessionStops, IdleCoreIsCommitted, BootResumesCommitted
  <2>3. CASE active.owner \in Owner /\ Quarantine(active.owner)
    BY <1>31, <1>0, <2>1, <2>3, FieldTypes, QuarantineFacts DEF RestoreNothing,
       HandlerPoints, BootPoints, FreshGeneration, StopIsDurable, Reconciled,
       OnlyTheCurrentSessionStops, IdleCoreIsCommitted, BootResumesCommitted
  <2> QED
    BY <2>1, <2>2, <2>3
<1>32. ASSUME NEW p \in Pid, RestoreCore(p) PROVE IInv'
  <2>1. active.owner \in Owner /\ core = NoCore
    BY <1>32, FieldTypes DEF RestoreCore, Restorable, BootPoints
  <2>2. /\ desired[active.owner].config \in Config
        /\ desired[active.owner] =
             [running |-> TRUE, config |-> desired[active.owner].config]
    BY <1>32, <2>1, RunningDesired DEF RestoreCore, Restorable, Desired
  <2>3. active.owner \notin stopped
    BY <1>32, <2>1 DEF RestoreCore, Restorable, StopIsDurable
  <2>4. /\ core'.owner = active.owner
        /\ UNCHANGED <<active, desired, stopped, pc, req>>
    BY <1>32, <2>1, <2>2, SpawnFacts DEF RestoreCore
  <2>5. TypeOK'
    <3>1. /\ core' \in Core /\ fatal' = FALSE /\ live' \in SUBSET Pid
          /\ unrecognised' \in SUBSET live'
      BY <1>32, <2>1, <2>2, SpawnFacts DEF RestoreCore
    <3>2. /\ mode' = "bootRecord"
          /\ UNCHANGED <<diskVars, reconciled, reqVars, histVars>>
      BY <1>32 DEF RestoreCore
    <3> QED
      BY <1>0, <3>1, <3>2
  <2>6. HandlerPoints' /\ BootPoints' /\ FreshGeneration'
    <3>1. /\ mode = "restore" /\ mode' = "bootRecord" /\ active # NoSession
          /\ core'.config = desired[active.owner].config /\ core' # NoCore
          /\ desired[active.owner].running
          /\ UNCHANGED <<generation, highest, lost, reconciled>>
      BY <1>32, <2>1, <2>2, SpawnFacts DEF RestoreCore, Restorable
    <3>2. pc = "idle"
      BY <3>1 DEF HandlerPoints
    <3>3. core'.config = active.config \/ core'.owner \in lost
      BY <2>4, <3>1 DEF BootResumesCommitted
    <3> QED
      BY <2>4, <3>1, <3>2, <3>3 DEF HandlerPoints, BootPoints, FreshGeneration
  <2>7. StopIsDurable'
    BY <2>3, <2>4 DEF StopIsDurable
  <2>8. Reconciled' /\ OnlyTheCurrentSessionStops'
    BY <1>32, <2>1, <2>2, FieldTypes, SpawnFacts DEF
       RestoreCore, Restorable, HandlerPoints, BootPoints, Reconciled,
       OnlyTheCurrentSessionStops
  <2>9. IdleCoreIsCommitted' /\ BootResumesCommitted'
    BY <1>32, <2>1, <2>2, FieldTypes, SpawnFacts DEF
       RestoreCore, Restorable, HandlerPoints, BootPoints,
       IdleCoreIsCommitted, BootResumesCommitted
  <2> QED
    BY <1>0, <2>5, <2>6, <2>7, <2>8, <2>9
<1>33. CASE RestoreFails
  <2>1. /\ active.owner \in Owner
        /\ PersistStopped(active.owner) \/ UNCHANGED <<desired, lost>>
    BY <1>33, FieldTypes DEF RestoreFails, Restorable
  <2>2. /\ desired' \in [Owner -> Desired] /\ lost' \in SUBSET Owner
        /\ lost \subseteq lost'
        /\ \A q \in Owner : ~desired[q].running => ~desired'[q].running
        /\ \A q \in Owner : q # active.owner => desired'[q] = desired[q]
        /\ active.owner \in lost' \/ desired'[active.owner] = desired[active.owner]
              \/ ~desired'[active.owner].running
    BY <2>1, PersistStoppedFacts
  <2>3. /\ core = NoCore /\ fatal' \in BOOLEAN /\ mode = "restore" /\ mode' = "serving"
        /\ UNCHANGED <<active, generation, record, live, unrecognised, core,
                       reconciled, pc, req, highest, stopped, found>>
    BY <1>33 DEF RestoreFails, Restorable, BootPoints
  <2>4. TypeOK'
    BY <1>0, <2>2, <2>3
  <2>5. HandlerPoints' /\ BootPoints' /\ FreshGeneration'
    BY <2>3, FieldTypes DEF HandlerPoints, BootPoints, FreshGeneration
  <2>6. StopIsDurable'
    BY <2>2, <2>3, FieldTypes DEF StopIsDurable
  <2>7. Reconciled' /\ OnlyTheCurrentSessionStops' /\ IdleCoreIsCommitted'
    BY <2>3 DEF Reconciled, OnlyTheCurrentSessionStops, IdleCoreIsCommitted,
       HandlerPoints
  <2>8. BootResumesCommitted'
    BY <2>1, <2>2, <2>3, FieldTypes DEF BootResumesCommitted
  <2> QED
    BY <1>0, <2>4, <2>5, <2>6, <2>7, <2>8
<1>34. CASE RestoreRecord
  <2>1. /\ UNCHANGED <<active, generation, req, pc, reconciled, highest, stopped,
                       found>>
        /\ mode = "bootRecord" /\ mode' = "serving"
        /\ active.owner \in Owner /\ core # NoCore
    BY <1>34, FieldTypes DEF RestoreRecord, BootPoints
  <2>2. /\ core' = core \/ core' = NoCore
        /\ core' # NoCore => UNCHANGED <<desired, lost>>
        /\ record' \in Pid \cup {NoPid} /\ fatal' \in BOOLEAN
        /\ live' \in SUBSET Pid /\ unrecognised' \in SUBSET live'
        /\ Reconciled'
    <3>1. CASE record' = core.pid /\ UNCHANGED <<core, osVars, desired, lost>>
               /\ Manager!Settle
      BY <1>34, <2>1, <3>1, FieldTypes, SettleFacts DEF TypeOK, osVars, Core,
         NoCore
    <3>2. CASE \/ SpawnUndone(TRUE) /\ UNCHANGED <<desired, lost>>
               \/ SpawnUndone(FALSE) /\ core' = NoCore
      BY <2>1, <3>2, SpawnUndoneFacts
    <3> QED
      BY <1>34, <3>1, <3>2 DEF RestoreRecord
  <2>3. PersistStopped(active.owner) \/ UNCHANGED <<desired, lost>>
    BY <1>34 DEF RestoreRecord
  <2>4. /\ desired' \in [Owner -> Desired] /\ lost' \in SUBSET Owner
        /\ lost \subseteq lost'
        /\ \A q \in Owner : ~desired[q].running => ~desired'[q].running
        /\ active.owner \in lost' \/ desired'[active.owner] = desired[active.owner]
              \/ ~desired'[active.owner].running
    BY <2>1, <2>3, PersistStoppedFacts DEF TypeOK
  <2>5. TypeOK'
    BY <1>0, <2>1, <2>2, <2>4
  <2>6. HandlerPoints' /\ BootPoints' /\ FreshGeneration'
    BY <2>1, <2>2 DEF HandlerPoints, BootPoints, FreshGeneration
  <2>7. StopIsDurable' /\ OnlyTheCurrentSessionStops'
    BY <2>1, <2>2, <2>4, OwnerAssumption, FieldTypes
    DEF StopIsDurable, OnlyTheCurrentSessionStops, NoCore, TypeOK
  <2>8. IdleCoreIsCommitted' /\ BootResumesCommitted'
    BY <2>1, <2>2, <2>4 DEF BootPoints, IdleCoreIsCommitted,
       BootResumesCommitted
  <2> QED
    BY <1>0, <2>2, <2>5, <2>6, <2>7, <2>8
<1>35. CASE RestartRecorded
  BY <1>35, <1>0, FieldTypes DEF RestartRecorded, Supervised, HandlerPoints,
     BootPoints, FreshGeneration, StopIsDurable, Reconciled,
     OnlyTheCurrentSessionStops, IdleCoreIsCommitted, BootResumesCommitted
<1>36. CASE SupervisionEnds
  <2>1. UNCHANGED <<active, generation, desired, req, pc, reconciled, histVars>>
    BY <1>36 DEF SupervisionEnds, Supervised
  <2>2. core' = core \/ core' = NoCore
    BY <1>36, FieldTypes, GivenUpFacts, StopFailsFacts DEF SupervisionEnds,
       Supervised, HandlerPoints, BootPoints
  <2>3. TypeOK'
    BY <1>36, <1>0, FieldTypes, GivenUpFacts, StopFailsFacts DEF
       SupervisionEnds, Supervised, HandlerPoints, BootPoints
  <2>4. HandlerPoints' /\ BootPoints' /\ FreshGeneration'
    BY <1>36, FieldTypes, GivenUpFacts, StopFailsFacts DEF SupervisionEnds,
       Supervised, HandlerPoints, BootPoints, FreshGeneration,
       BootResumesCommitted, IdleCoreIsCommitted
  <2>5. StopIsDurable' /\ OnlyTheCurrentSessionStops'
    BY <2>1, <2>2 DEF StopIsDurable, OnlyTheCurrentSessionStops
  <2>6. Reconciled'
    BY <1>36, <2>1, FieldTypes, GivenUpFacts, StopFailsFacts DEF
       SupervisionEnds, Supervised, HandlerPoints, BootPoints
  <2>7. IdleCoreIsCommitted' /\ BootResumesCommitted'
    BY <1>36, FieldTypes, GivenUpFacts, StopFailsFacts DEF SupervisionEnds,
       Supervised, HandlerPoints, BootPoints, IdleCoreIsCommitted,
       BootResumesCommitted
  <2> QED
    BY <1>0, <2>3, <2>4, <2>5, <2>6, <2>7
<1>37. ASSUME NEW p \in Pid, CoreRestarts(p) PROVE IInv'
  <2>1. TypeOK'
    BY <1>37, <1>0, FieldTypes DEF CoreRestarts, Supervised, RecordRemoved,
       Manager!Restart, HandlerPoints, BootPoints
  <2>2. HandlerPoints' /\ BootPoints' /\ FreshGeneration'
    BY <1>37, FieldTypes DEF CoreRestarts, Supervised, RecordRemoved,
       Manager!Restart, HandlerPoints, BootPoints, FreshGeneration,
       BootResumesCommitted, IdleCoreIsCommitted
  <2>3. StopIsDurable'
    BY <1>37, FieldTypes DEF CoreRestarts, Supervised, RecordRemoved,
       Manager!Restart, HandlerPoints, BootPoints, StopIsDurable
  <2>4. Reconciled' /\ OnlyTheCurrentSessionStops'
    BY <1>37, FieldTypes DEF CoreRestarts, Supervised, RecordRemoved,
       Manager!Restart, HandlerPoints, BootPoints, Reconciled,
       OnlyTheCurrentSessionStops
  <2>5. IdleCoreIsCommitted' /\ BootResumesCommitted'
    BY <1>37, FieldTypes DEF CoreRestarts, Supervised, RecordRemoved,
       Manager!Restart, HandlerPoints, BootPoints, IdleCoreIsCommitted,
       BootResumesCommitted
  <2> QED
    BY <1>0, <2>1, <2>2, <2>3, <2>4, <2>5
<1>38. CASE CoreDies
  <2>1. TypeOK'
    BY <1>38, <1>0, FieldTypes DEF CoreDies, Manager!Die, HandlerPoints,
       BootPoints
  <2>2. HandlerPoints' /\ BootPoints' /\ FreshGeneration'
    BY <1>38, FieldTypes DEF CoreDies, Manager!Die, HandlerPoints,
       BootPoints, FreshGeneration, BootResumesCommitted,
       IdleCoreIsCommitted
  <2>3. StopIsDurable'
    BY <1>38, FieldTypes DEF CoreDies, Manager!Die, HandlerPoints,
       BootPoints, StopIsDurable
  <2>4. Reconciled' /\ OnlyTheCurrentSessionStops'
    BY <1>38, FieldTypes DEF CoreDies, Manager!Die, HandlerPoints,
       BootPoints, Reconciled, OnlyTheCurrentSessionStops
  <2>5. IdleCoreIsCommitted' /\ BootResumesCommitted'
    BY <1>38, FieldTypes DEF CoreDies, Manager!Die, HandlerPoints,
       BootPoints, IdleCoreIsCommitted, BootResumesCommitted
  <2> QED
    BY <1>0, <2>1, <2>2, <2>3, <2>4, <2>5
<1>39. ASSUME NEW p \in Pid, OrphanExit(p) PROVE IInv'
  BY <1>39, <1>0, FieldTypes DEF OrphanExit, HandlerPoints, BootPoints,
     FreshGeneration, StopIsDurable, Reconciled, OnlyTheCurrentSessionStops,
     IdleCoreIsCommitted, BootResumesCommitted
<1>40. ASSUME NEW p \in Pid, ExecutableMoves(p) PROVE IInv'
  BY <1>40, <1>0, FieldTypes DEF ExecutableMoves, HandlerPoints, BootPoints,
     FreshGeneration, StopIsDurable, Reconciled, OnlyTheCurrentSessionStops,
     IdleCoreIsCommitted, BootResumesCommitted
<1>41. ASSUME NEW o \in Owner, Status(o) PROVE IInv'
  <2>1. /\ UNCHANGED <<active, highest, generation, record, core, fatal, live,
                       unrecognised, mode, pc, req, reconciled, stopped>>
        /\ pc = "idle" /\ Quarantine(o)
    BY <1>41 DEF Status
  <2>2. TypeOK' /\ HandlerPoints' /\ BootPoints' /\ FreshGeneration'
    BY <1>41, <1>0, <2>1, FieldTypes, QuarantineFacts DEF Status,
       HandlerPoints, BootPoints, FreshGeneration
  <2>3. StopIsDurable' /\ Reconciled' /\ OnlyTheCurrentSessionStops'
    BY <2>1, FieldTypes, QuarantineFacts DEF StopIsDurable, Reconciled,
       OnlyTheCurrentSessionStops
  <2>4. IdleCoreIsCommitted' /\ BootResumesCommitted'
    BY <2>1, FieldTypes, QuarantineFacts DEF IdleCoreIsCommitted,
       BootResumesCommitted
  <2> QED
    BY <1>0, <2>2, <2>3, <2>4
<1>42. CASE UNCHANGED vars
  BY <1>42, <1>0 DEF vars, HandlerPoints, BootPoints, FreshGeneration,
     StopIsDurable, Reconciled, OnlyTheCurrentSessionStops,
     IdleCoreIsCommitted, BootResumesCommitted
<1> QED
  BY <1>1, <1>2, <1>3, <1>4, <1>5, <1>6, <1>7, <1>8, <1>9, <1>10, <1>11,
     <1>12, <1>13, <1>14, <1>15, <1>16, <1>17, <1>18, <1>19, <1>20, <1>21,
     <1>22, <1>23, <1>24, <1>25, <1>26, <1>27, <1>28, <1>29, <1>30, <1>31,
     <1>32, <1>33, <1>34, <1>35, <1>36, <1>37, <1>38, <1>39, <1>40, <1>41,
     <1>42 DEF Next, Handler, Service, Watchdog, Processes

(* IInv holds in every reachable state, of every instance. *)
THEOREM Inductive == Spec => []IInv
BY InitIInv, NextIInv, PTL DEF Spec

-----------------------------------------------------------------------------
(* Every reachable state is well-typed. *)
THEOREM TypeCorrect == Spec => []TypeOK
<1>1. IInv => TypeOK
  BY DEF IInv
<1> QED
  BY Inductive, <1>1, PTL

(* A StopClash in progress holds the current session: no takeover, rollback *)
(* or other stop slips between its check and its effects.                   *)
THEOREM StopsAreCurrent == Spec => []OnlyTheCurrentSessionStops
<1>1. IInv => OnlyTheCurrentSessionStops
  BY DEF IInv
<1> QED
  BY Inductive, <1>1, PTL

(* Between requests the core that runs is the committed one. *)
THEOREM CommittedCore == Spec => []IdleCoreIsCommitted
<1>1. IInv => IdleCoreIsCommitted
  BY DEF IInv
<1> QED
  BY Inductive, <1>1, PTL

(* A StopClash answered Ok outlives every crash, boot and restore. *)
THEOREM StopOutlivesCrashes == Spec => []AckedStopHolds
<1>1. IInv => AckedStopHolds
  BY DEF IInv, StopIsDurable, AckedStopHolds
<1> QED
  BY Inductive, <1>1, PTL

(* A crash at any point resumes the committed core, and nothing else. *)
THEOREM BootsResume == Spec => []BootResumesCommitted
<1>1. IInv => BootResumesCommitted
  BY DEF IInv
<1> QED
  BY Inductive, <1>1, PTL

(* Every live core is held, recorded, or a known orphan. *)
THEOREM CoresAreKept == Spec => []NoCoreIsLost
<1>1. IInv => NoCoreIsLost
  BY DEF IInv, Accounted, NoCoreIsLost
<1> QED
  BY Inductive, <1>1, PTL

(* No core is started beside a live one that the record names. *)
THEOREM RecordedCoreFirst == Spec => []RecordedCoreExcludesStart
<1>1. IInv => RecordedCoreExcludesStart
  BY DEF IInv, Reconciled, RecordedCoreExcludesStart
<1> QED
  BY Inductive, <1>1, PTL

-----------------------------------------------------------------------------
(* A step grants a fresh session, revokes the current one, or leaves the    *)
(* The actions that write desired states, or lose one. *)
LEMMA DesiredWriters ==
  ASSUME [Next]_vars
  PROVE  \/ UNCHANGED <<desired, lost>>
         \/ PersistPrevious \/ PersistRejected \/ RollbackPersist \/ StopPersist
         \/ RestoreFails \/ RestoreRecord
         \/ PersistStartedCore \/ RestoreNothing
         \/ \E o \in Owner : \/ Status(o) \/ PruneState(o)
                            \/ \E g \in 1..highest : UpdateWriter(o, g)
BY DEF Next, Handler, Service, StartClash, StopClash, PruneSession,
   StopPrevious, ClearPrevious, MaterializeFails, StartFails, StartCore,
   RecordCore, StopRejected, CommitGeneration, CommitActive, Rollback,
   RollbackClear, StopCore, StopClear, StopIpcServer, Exit, Boot,
   ReconcileFinds, ReconcileDismisses, ReconcileTerminates, ReconcileFails,
   RestoreCore, Watchdog, RestartRecorded, SupervisionEnds,
   CoreRestarts, Processes, CoreDies, OrphanExit, ExecutableMoves,
   diskVars, histVars, vars

(* Only a commit makes a configuration one that a boot resumes: as long as   *)
(* the session lasts, every other write of desired states keeps it or takes *)
(* it away.                                                                 *)
LEMMA ResumedStep ==
  ASSUME IInv, [Next]_vars, UNCHANGED active
  PROVE  Resumed' \in {Resumed, NoConfig}
<1>1. CASE UNCHANGED <<desired, lost>>
  BY <1>1 DEF Resumed
(* What is written for the owner of the session is a stop, or lost. *)
<1>2. ASSUME active # NoSession => \/ active.owner \in lost'
                                   \/ ~desired'[active.owner].running
                                   \/ /\ desired'[active.owner] = desired[active.owner]
                                      /\ active.owner \notin lost
      PROVE  Resumed' \in {Resumed, NoConfig}
  BY <1>2 DEF Resumed
<1>3. active # NoSession => active.owner \in Owner
  BY FieldTypes DEF IInv
<1>4. ASSUME NEW o \in Owner, PersistStopped(o)
      PROVE  Resumed' \in {Resumed, NoConfig}
  <2>1. active.owner # o => desired'[active.owner] = desired[active.owner] \/ active = NoSession
    BY <1>3, <1>4, PersistStoppedFacts DEF IInv
  <2>2. o \in lost' \/ ~desired'[o].running
    BY <1>4, PersistStoppedFacts DEF IInv
  <2>3. lost \subseteq lost'
    BY <1>4, PersistStoppedFacts DEF IInv
  <2> QED
    BY <1>2, <2>1, <2>2, <2>3
<1>5. ASSUME NEW o \in Owner, Quarantine(o)
      PROVE  Resumed' \in {Resumed, NoConfig}
  BY <1>2, <1>3, <1>5, QuarantineFacts DEF IInv
<1>6. CASE \/ PersistPrevious \/ PersistRejected \/ RollbackPersist \/ StopPersist
           \/ RestoreFails \/ RestoreRecord
  <2>1. \/ req.owner \in Owner \/ PersistPrevious
        \/ RestoreFails \/ RestoreRecord
    BY <1>6 DEF IInv, HandlerPoints, StartPcs, StopPcs, PersistRejected,
       RollbackPersist, StopPersist, Step
  <2> QED
    BY <1>1, <1>3, <1>4, <1>6, <2>1 DEF PersistPrevious, PersistRejected,
       RollbackPersist, StopPersist, RestoreFails, Restorable, RestoreRecord,
       BootPoints, IInv
<1>7. CASE PersistStartedCore
  <2>1. active = NoSession
    BY <1>7 DEF IInv, HandlerPoints, PersistStartedCore, Step
  <2> QED
    BY <1>2, <2>1
<1>8. CASE RestoreNothing \/ \E o \in Owner : Status(o)
  BY <1>1, <1>3, <1>5, <1>8 DEF RestoreNothing, Status
<1>9. ASSUME NEW o \in Owner, NEW g \in 1..highest, UpdateWriter(o, g)
      PROVE  Resumed' \in {Resumed, NoConfig}
  <2>1. CASE UNCHANGED <<desired, lost>>
    BY <1>1, <2>1
  <2>2. CASE desired' = [desired EXCEPT ![o] = Default] /\ lost' = lost \cup {o}
    BY <1>5, <2>2 DEF Quarantine
  <2>3. desired[o] = [desired EXCEPT ![o] = desired[o]][o]
        /\ desired = [desired EXCEPT ![o] = desired[o]]
    BY DEF IInv, TypeOK
  <2> QED
    BY <1>9, <2>1, <2>2, <2>3 DEF UpdateWriter
<1>10. ASSUME NEW o \in Owner, PruneState(o)
       PROVE  Resumed' \in {Resumed, NoConfig}
  <2>1. /\ ~desired'[o].running
        /\ \A q \in Owner : q # o => desired'[q] = desired[q]
        /\ lost' = lost \ {o}
    BY <1>10 DEF PruneState, IInv, TypeOK, Default
  <2> QED
    BY <1>2, <1>3, <2>1
<1> QED
  BY <1>1, <1>6, <1>7, <1>8, <1>9, <1>10, DesiredWriters

(* Every step grants, withdraws, revokes or leaves the session alone. *)
LEMMA SessionStep == IInv /\ [Next]_vars => [Sessions!Next]_(Sessions!vars)
<1> SUFFICES ASSUME IInv, [Next]_vars PROVE [Sessions!Next]_(Sessions!vars)
  OBVIOUS
<1>1. CASE UNCHANGED <<active, highest>>
  <2>1. Resumed' \in {Resumed, NoConfig}
    BY <1>1, ResumedStep
  <2> QED
    BY <1>1, <2>1 DEF Sessions!Next, Sessions!Withdraw, Sessions!vars
<1>2. \/ UNCHANGED <<active, highest>>
      \/ CommitActive \/ ClearPrevious \/ RollbackClear \/ StopClear
      \/ \E o \in Owner : PruneSession(o)
  BY DEF Next, Handler, Service, StartClash, StopClash, UpdateWriter, Status,
     StopPrevious, PersistPrevious, MaterializeFails, StartFails, StartCore,
     RecordCore, StopRejected, PersistRejected, PersistStartedCore,
     CommitGeneration, Rollback, RollbackPersist, StopCore, StopPersist,
     StopIpcServer, Exit, Boot, ReconcileFinds, ReconcileDismisses,
     ReconcileTerminates, ReconcileFails, RestoreNothing, RestoreCore,
     RestoreFails, RestoreRecord, Watchdog, RestartRecorded, SupervisionEnds,
     CoreRestarts, Processes, CoreDies, OrphanExit, ExecutableMoves,
     PruneState, diskVars, histVars, vars
<1>3. CASE CommitActive /\ ~UNCHANGED <<active, highest>>
  <2>1. /\ active = NoSession
        /\ req.owner \in Owner /\ req.config \in Config
        /\ req.generation \in Nat /\ req.generation > highest
        /\ \/ req.owner \in lost
           \/ desired[req.owner] = [running |-> TRUE, config |-> req.config]
    BY <1>3 DEF CommitActive, Step, IInv, TypeOK, HandlerPoints,
       FreshGeneration, StartPcs
  <2>2. /\ active' = [owner |-> req.owner, generation |-> req.generation,
                      config |-> req.config]
        /\ highest' = req.generation
        /\ UNCHANGED <<desired, lost>>
    BY <1>3 DEF CommitActive, CommitSession
  <2>3. Resumed' \in {req.config, NoConfig}
    BY <2>1, <2>2 DEF Resumed
  <2> QED
    BY <2>1, <2>2, <2>3 DEF Sessions!Next, Sessions!Grant,
       Sessions!NoSession, Sessions!Session, NoSession
<1>4. CASE /\ \/ ClearPrevious \/ RollbackClear \/ StopClear
              \/ \E o \in Owner : PruneSession(o)
           /\ ~UNCHANGED <<active, highest>>
  <2>1. active' = NoSession /\ active # NoSession /\ highest' = highest
    BY <1>4 DEF ClearPrevious, RollbackClear, StopClear, PruneSession,
       ClearActive, histVars
  <2>2. Resumed' = NoConfig
    BY <2>1 DEF Resumed
  <2> QED
    BY <2>1, <2>2 DEF Sessions!Next, Sessions!Revoke, Sessions!NoSession,
       NoSession
<1> QED
  BY <1>1, <1>2, <1>3, <1>4

(* Sessions keep their promise: OwnerLifecycle implements OwnerSessions. *)
THEOREM SessionsImplemented == Spec => ImplementsSessions
<1>1. Init => Sessions!Init
  BY DEF Init, Sessions!Init, NoSession, Sessions!NoSession, Resumed
<1> QED
  BY <1>1, Inductive, SessionStep, PTL DEF Spec, ImplementsSessions,
     Sessions!Spec

(* A proof of an owner and a generation that was used up and is not current. *)
Ended(o, g) == g <= highest /\ ~Proves(o, g)

(* What the abstract specification is for: a session that a takeover, a     *)
(* StopClash, a rollback or a pruning has ended is never accepted again, in *)
(* this process or in a later one.                                          *)
THEOREM EndedSessionsStayEnded ==
  ASSUME NEW o \in Owner, NEW g \in Nat
  PROVE  Spec => [](Ended(o, g) => []~Proves(o, g))
<1> DEFINE Past  == Ended(o, g)
           Valid == Proves(o, g)
<1>1. Past => ~Valid
  BY DEF Ended
<1>2. Past /\ IInv /\ [Sessions!Next]_(Sessions!vars) => Past'
  BY OwnerAssumption DEF Ended, Proves, IInv, TypeOK, Sessions!Session,
     Sessions!NoSession, Sessions!Next, Sessions!vars, Sessions!Grant,
     Sessions!Withdraw, Sessions!Revoke
<1>3. Spec => [](Past => []~Valid)
  <2> HIDE DEF Past, Valid
  <2> QED
    BY <1>1, <1>2, Inductive, SessionsImplemented, PTL
    DEF ImplementsSessions, Sessions!Spec
<1> QED
  BY <1>3

(* No write makes a desired state run while a session lasts, not even one    *)
(* that fails.                                                              *)
LEMMA StoppedStep ==
  ASSUME IInv, [Next]_vars, active # NoSession, UNCHANGED active,
         ~desired[active.owner].running
  PROVE  ~desired'[active.owner].running
<1>1. active.owner \in Owner
  BY FieldTypes DEF IInv
<1>2. CASE UNCHANGED desired
  BY <1>2
<1>3. ASSUME NEW o \in Owner, PersistStopped(o) \/ Quarantine(o)
      PROVE  ~desired'[active.owner].running
  BY <1>1, <1>3, PersistStoppedFacts, QuarantineFacts DEF IInv
<1>4. ASSUME NEW o \in Owner, desired' = [desired EXCEPT ![o] = Default]
      PROVE  ~desired'[active.owner].running
  BY <1>1, <1>4 DEF IInv, TypeOK, Default
<1>5. CASE \/ PersistPrevious \/ PersistRejected \/ RollbackPersist \/ StopPersist
           \/ RestoreFails \/ RestoreRecord
  <2>1. \/ req.owner \in Owner \/ PersistPrevious
        \/ RestoreFails \/ RestoreRecord
    BY <1>5 DEF IInv, HandlerPoints, StartPcs, StopPcs, PersistRejected,
       RollbackPersist, StopPersist, Step
  <2> QED
    BY <1>1, <1>2, <1>3, <1>5, <2>1 DEF PersistPrevious, PersistRejected,
       RollbackPersist, StopPersist, RestoreFails, RestoreRecord
<1>6. CASE PersistStartedCore
  BY <1>6 DEF IInv, HandlerPoints, PersistStartedCore, Step
<1>7. CASE RestoreNothing \/ \E o \in Owner : Status(o)
  BY <1>1, <1>2, <1>3, <1>7 DEF RestoreNothing, Status
<1>8. ASSUME NEW o \in Owner, NEW g \in 1..highest, UpdateWriter(o, g)
      PROVE  ~desired'[active.owner].running
  BY <1>1, <1>8 DEF UpdateWriter, IInv, TypeOK, Default
<1>9. CASE \E o \in Owner : PruneState(o)
  BY <1>4, <1>9 DEF PruneState
<1> QED
  BY <1>2, <1>5, <1>6, <1>7, <1>8, <1>9, DesiredWriters

(* Session s lasts, and its owner is not to have a core. *)
Withdrawn(s) == active = s /\ ~desired[s.owner].running

NotRestored(s) == \A p \in Pid : RestoreCore(p) => active # s

(* The current session has used its generation up. *)
CurrentIsCounted == active.generation <= highest

LEMMA CountedStep ==
  IInv /\ CurrentIsCounted /\ [Sessions!Next]_(Sessions!vars) => CurrentIsCounted'
BY DEF CurrentIsCounted, IInv, TypeOK, Sessions!Session, Sessions!NoSession,
   Sessions!Next, Sessions!vars, Sessions!Grant, Sessions!Withdraw,
   Sessions!Revoke

(* A crash does not bring back what was withdrawn: once the desired state of *)
(* the session says stopped, no boot restores a core for that session, even *)
(* if the rest of the stop fails and whatever requests, boots and failed    *)
(* writes follow.  Whoever wants the core back gets a new session with it.  *)
THEOREM WithdrawnSessionsStayWithdrawn ==
  ASSUME NEW s \in Session
  PROVE  Spec => [](Withdrawn(s) => [][NotRestored(s)]_vars)
<1> DEFINE Gone == /\ s.generation <= highest
                   /\ active = s => ~desired[s.owner].running
           Was  == Withdrawn(s)
           Kept == NotRestored(s)
<1>1. Was /\ CurrentIsCounted => Gone
  BY DEF Withdrawn, CurrentIsCounted
<1>2. Gone => [Kept]_vars
  BY DEF NotRestored, RestoreCore, Restorable
<1>3. Gone /\ IInv /\ [Next]_vars /\ [Sessions!Next]_(Sessions!vars) => Gone'
  <2> SUFFICES ASSUME Gone, IInv, [Next]_vars, [Sessions!Next]_(Sessions!vars)
               PROVE  Gone'
    OBVIOUS
  <2>1. s # NoSession /\ s.generation \in Nat /\ highest \in Nat
    BY OwnerAssumption DEF Session, NoSession, IInv, TypeOK
  <2>2. CASE UNCHANGED <<active, highest>>
    BY <2>1, <2>2, StoppedStep
  <2>3. CASE active' # s /\ highest <= highest' /\ highest' \in Nat
    BY <2>1, <2>3
  <2>4. CASE active' = NoSession /\ UNCHANGED highest
    BY <2>1, <2>3, <2>4
  <2>5. CASE Sessions!Grant
    <3>1. highest' \in Nat /\ highest < highest' /\ active'.generation = highest'
      BY <2>5 DEF Sessions!Grant, Sessions!Session
    <3> QED
      BY <2>1, <2>3, <3>1
  <2> QED
    BY <2>2, <2>4, <2>5 DEF Sessions!Next, Sessions!vars, Sessions!Withdraw,
       Sessions!Revoke, Sessions!NoSession, NoSession
<1>4. CurrentIsCounted /\ IInv /\ [Sessions!Next]_(Sessions!vars)
      => CurrentIsCounted'
  BY CountedStep
<1>5. Init => CurrentIsCounted
  BY DEF Init, NoSession, CurrentIsCounted
<1>6. Spec => [](Was => [][Kept]_vars)
  <2> HIDE DEF Was, Gone, Kept
  <2> QED
    BY <1>1, <1>2, <1>3, <1>4, <1>5, Inductive, SessionsImplemented, PTL
    DEF Spec, ImplementsSessions, Sessions!Spec
<1> QED
  BY <1>6

-----------------------------------------------------------------------------
(* The composition with the core manager.  Each process has a manager of    *)
(* its own, from the boot to the exit.                                      *)

(* A process that has not begun to restore has a new manager. *)
NewManager == Early => core = NoCore /\ ~fatal

WithinProcess == mode # "down" /\ mode' # "down"

(* Mutual consistency of the two models: what OwnerLifecycle does with the  *)
(* manager is allowed by CoreContract, which CoreManager implements.        *)
KeepsContract == WithinProcess => [Manager!Next]_(Manager!vars)

LEMMA NewManagerStep == IInv /\ NewManager /\ [Next]_vars => NewManager'
<1> SUFFICES ASSUME IInv, NewManager, [Next]_vars PROVE NewManager'
  OBVIOUS
<1> USE DEF NewManager, Early, IInv, Serving
<1>1. CASE UNCHANGED <<mode, core, fatal>>
  BY <1>1
<1>2. CASE \/ Exit \/ Boot \/ ReconcileFinds \/ ReconcileDismisses
           \/ ReconcileTerminates \/ ReconcileFails \/ RestoreNothing
           \/ RestoreFails \/ RestoreRecord \/ \E p \in Pid : RestoreCore(p)
  BY <1>2 DEF Exit, Boot, ReconcileFinds, ReconcileDismisses, ReconcileTerminates,
     ReconcileFails, RestoreNothing, RestoreFails, RestoreRecord, RestoreCore,
     coreVars
<1>3. CASE StopIpcServer \/ Watchdog
  BY <1>3 DEF StopIpcServer, Watchdog, RestartRecorded, SupervisionEnds,
     CoreRestarts, Supervised, procVars
<1>4. CASE Handler
  <2>1. mode \notin {"down", "reconcile", "terminate"} /\ UNCHANGED mode
    BY <1>4 DEF HandlerPoints, Handler, StopPrevious, PersistPrevious,
       ClearPrevious, MaterializeFails, StartFails, StartCore, RecordCore,
       StopRejected, PersistRejected, PersistStartedCore, CommitGeneration,
       CommitActive, Rollback, RollbackPersist, RollbackClear, StopCore,
       StopPersist, StopClear, Step, procVars
  <2> QED
    BY <2>1
<1>5. CASE CoreDies
  <2>1. core # NoCore
    BY <1>5, PidAssumption DEF CoreDies, TypeOK, NoCore
  <2> QED
    BY <1>5, <2>1 DEF CoreDies, procVars
<1>6. CASE \/ \E o \in Owner : \/ \E cfg \in Config : StartClash(o, cfg)
                               \/ \E g \in 1..highest : StopClash(o, g) \/ UpdateWriter(o, g)
                               \/ Status(o) \/ PruneSession(o) \/ PruneState(o)
           \/ \E p \in Pid : OrphanExit(p) \/ ExecutableMoves(p)
           \/ UNCHANGED vars
  BY <1>1, <1>6 DEF StartClash, StopClash, UpdateWriter, Status, PruneSession,
     PruneState, OrphanExit, ExecutableMoves, coreVars, procVars, vars
<1> QED
  BY <1>2, <1>3, <1>4, <1>5, <1>6 DEF Next, Service, Processes


LEMMA ContractStep == IInv /\ NewManager /\ [Next]_vars => KeepsContract
<1> SUFFICES ASSUME IInv, NewManager, [Next]_vars, WithinProcess
             PROVE  [Manager!Next]_(Manager!vars)
  BY DEF KeepsContract
<1> DEFINE Same == UNCHANGED <<core, core.pid \in live, fatal, Starting>>
<1>a. Same => UNCHANGED Manager!vars
  BY DEF Manager!vars
(* Reports of a manager that holds no core. *)
<1>b. ASSUME core = NoCore, core' = NoCore, fatal' \in BOOLEAN
      PROVE  Manager!Report
  <2>1. live \in SUBSET Pid /\ live' \in SUBSET Pid
    BY NextIInv DEF IInv, TypeOK
  <2> QED
    BY <1>b, <2>1, PidAssumption DEF NoCore, Manager!Report, Manager!Holds
<1>c. /\ core = NoCore => core.pid \notin Pid /\ core.pid \notin live
      /\ pc = "start" \/ mode = "restore" => core = NoCore
      /\ Early => core = NoCore
      /\ pc = "stopClear" => core = NoCore
      /\ pc # "idle" => mode \in {"serving", "stopping"}
      /\ core.pid \in Pid \cup {NoPid}
      /\ fatal \in BOOLEAN
  BY PidAssumption, FieldTypes
  DEF IInv, TypeOK, NoCore, HandlerPoints, BootPoints, NewManager, Early, Serving
<1> USE DEF Starting, WithinProcess
<1>1. ASSUME UNCHANGED <<core, live, fatal>>, Starting' <=> Starting PROVE Same
  BY <1>1
<1>2. CASE \/ \E o \in Owner : \/ \E cfg \in Config : StartClash(o, cfg)
                               \/ \E g \in 1..highest : StopClash(o, g) \/ UpdateWriter(o, g)
                               \/ Status(o) \/ PruneSession(o) \/ PruneState(o)
           \/ UNCHANGED vars
  BY <1>a, <1>1, <1>2 DEF StartClash, StopClash, UpdateWriter, Status,
     PruneSession, PruneState, coreVars, osVars, procVars, reqVars, vars
<1>3. CASE Handler
  <2>1. CASE StopPrevious \/ StopRejected \/ Rollback \/ StopCore
    BY <2>1 DEF StopPrevious, StopRejected, Rollback, StopCore, CoreStopped,
       StopFails, Manager!Next
  <2>2. CASE RecordCore
    BY <2>2 DEF RecordCore, SpawnUndone, Manager!Next
  <2>3. ASSUME NEW p \in Pid, StartCore(p) PROVE Manager!Next
    BY <2>3, <1>c DEF StartCore, Spawn, Manager!Next, IInv, HandlerPoints, Step,
       StartPcs
  <2>4. CASE StartFails
    <3>1. core = NoCore /\ core' = NoCore /\ fatal' \in BOOLEAN
      BY <2>4, <1>c DEF StartFails, Step
    <3> QED
      BY <3>1, <1>b DEF Manager!Next
  <2>5. CASE StopClear
    <3>1. core = NoCore /\ core' = NoCore /\ fatal' \in BOOLEAN
      BY <2>5, <1>c DEF StopClear, Step
    <3> QED
      BY <3>1, <1>b DEF Manager!Next
  <2>6. CASE \/ PersistPrevious \/ ClearPrevious \/ MaterializeFails
             \/ PersistRejected \/ PersistStartedCore \/ CommitGeneration
             \/ CommitActive \/ RollbackPersist \/ RollbackClear \/ StopPersist
    BY <1>a, <1>1, <2>6 DEF PersistPrevious, ClearPrevious, MaterializeFails,
       PersistRejected, PersistStartedCore, CommitGeneration, CommitActive,
       RollbackPersist, RollbackClear, StopPersist, Step, coreVars, osVars,
       procVars
  <2> QED
    BY <1>3, <2>1, <2>2, <2>3, <2>4, <2>5, <2>6 DEF Handler
<1>4. CASE Service
  <2>1. CASE StopIpcServer
    BY <2>1 DEF StopIpcServer, CoreStopped, StopFails, Manager!Next
  <2>2. CASE Exit \/ Boot
    BY <2>2 DEF Exit, Boot
  <2>3. CASE ReconcileFinds \/ ReconcileFails \/ ReconcileDismisses
    BY <1>a, <1>1, <2>3 DEF ReconcileFinds, ReconcileFails, ReconcileDismisses,
       coreVars, osVars, reqVars
  <2>4. CASE ReconcileTerminates
    <3>1. core = NoCore /\ core' = NoCore /\ fatal' \in BOOLEAN
      BY <2>4, <1>c DEF ReconcileTerminates, Early
    <3> QED
      BY <3>1, <1>b DEF Manager!Next
  <2>5. CASE RestoreNothing \/ RestoreFails
    <3>1. core = NoCore /\ core' = NoCore /\ fatal' \in BOOLEAN
      BY <2>5, <1>c DEF RestoreNothing, RestoreFails, Restorable, coreVars
    <3> QED
      BY <3>1, <1>b DEF Manager!Next
  <2>6. ASSUME NEW p \in Pid, RestoreCore(p) PROVE Manager!Next
    <3>1. desired[active.owner].config \in Config
      BY <2>6, FieldTypes DEF RestoreCore, Restorable, IInv, TypeOK, Desired
    <3> QED
      BY <2>6, <3>1 DEF RestoreCore, Spawn, Manager!Next
  <2>7. CASE RestoreRecord
    BY <2>7 DEF RestoreRecord, SpawnUndone, Manager!Next
  <2> QED
    BY <1>4, <2>1, <2>2, <2>3, <2>4, <2>5, <2>6, <2>7 DEF Service
<1>5. CASE Watchdog
  <2>1. CASE RestartRecorded
    BY <1>a, <1>1, <2>1 DEF RestartRecorded, coreVars, osVars, procVars, reqVars
  <2>2. CASE SupervisionEnds \/ \E p \in Pid : CoreRestarts(p)
    BY <2>2 DEF SupervisionEnds, StopFails, CoreRestarts, Manager!Next
  <2> QED
    BY <1>5, <2>1, <2>2 DEF Watchdog
<1>6. CASE Processes
  <2>1. CASE CoreDies
    BY <2>1 DEF CoreDies, Manager!Next
  <2>2. ASSUME NEW p \in Pid, OrphanExit(p) PROVE Same
    BY <2>2 DEF OrphanExit, Dies, procVars, reqVars
  <2>3. ASSUME NEW p \in Pid, ExecutableMoves(p) PROVE Same
    BY <2>3 DEF ExecutableMoves, procVars, reqVars
  <2> QED
    BY <1>6, <1>a, <2>1, <2>2, <2>3 DEF Processes
<1> QED
  BY <1>2, <1>3, <1>4, <1>5, <1>6 DEF Next

(* Whatever handlers, boots and crashes do, the core manager of each        *)
(* process starts afresh and is used within its contract: the two models    *)
(* meet at CoreContract, and what one assumes the other has been proved to  *)
(* keep.                                                                    *)
THEOREM Composition == Spec => []NewManager /\ [][KeepsContract]_vars
<1>1. Init => NewManager
  BY DEF Init, NewManager
<1>2. IInv /\ NewManager /\ [Next]_vars => [KeepsContract]_vars
  BY ContractStep
<1> QED
  BY <1>1, <1>2, NewManagerStep, Inductive, PTL DEF Spec

-----------------------------------------------------------------------------
(* The composition with the system proxy, which is built on OwnerContract. *)

(* How far the handler has come.  From the clearing of the previous session *)
(* to the reply, the start has no owner the proxy could be for.             *)
Stage ==
    CASE pc \in {"stopPrevious", "persistPrevious", "clearPrevious"} -> "replacing"
      [] pc \in StopPcs -> "stopping"
      [] pc = "idle" -> "free"
      [] OTHER -> "starting"

Owned == active # NoSession /\ Stage # "starting"

Owners == INSTANCE OwnerContract WITH owned <- Owned, stage <- Stage

LEMMA OwnersStep ==
  IInv /\ [Next]_vars => [Owners!Next]_<<Owned, Stage>>
<1> SUFFICES ASSUME IInv, [Next]_vars
             PROVE  [Owners!Next]_<<Owned, Stage>>
  OBVIOUS
<1> DEFINE Moves == [Owners!Next]_<<Owned, Stage>>
<1> USE DEF Owned
<1>1. CASE UNCHANGED <<active, pc>>
  BY <1>1 DEF Stage
(* Steps that stay in the start, or end it. *)
<1>2. ASSUME Stage = "starting", Stage' = "starting"
      PROVE  Moves
  BY <1>2
<1>3. ASSUME Stage = "starting", pc' = "idle"
      PROVE  Moves
  <2>1. Stage' = "free"
    BY <1>3 DEF Stage, StopPcs
  <2> QED
    BY <1>3, <2>1 DEF Owners!Next, Owners!Finish
(* Steps within a stop, and those that end it. *)
<1>4. ASSUME Stage' = Stage, UNCHANGED active
      PROVE  Moves
  BY <1>4
<1>5. ASSUME Stage \in {"replacing", "stopping"}, pc' = "idle",
             active' = active \/ active' = NoSession
      PROVE  Moves
  <2>1. Stage' = "free"
    BY <1>5 DEF Stage, StopPcs
  <2> QED
    BY <1>5, <2>1 DEF Owners!Next, Owners!End
<1>6. ASSUME NEW o \in Owner, NEW cfg \in Config, StartClash(o, cfg)
      PROVE  Moves
  BY <1>6 DEF StartClash, diskVars, Stage, StopPcs, Owners!Next, Owners!Begin
<1>7. ASSUME NEW o \in Owner, NEW g \in 1..highest, StopClash(o, g)
      PROVE  Moves
  <2>1. active # NoSession /\ UNCHANGED active
    BY <1>7, OwnerAssumption DEF StopClash, Proves, NoSession, diskVars
  <2> QED
    BY <1>7, <2>1 DEF StopClash, Stage, StopPcs, Owners!Next, Owners!BeginStop
<1>8. ASSUME NEW o \in Owner, PruneSession(o)
      PROVE  Moves
  <2>1. active # NoSession /\ active' = NoSession
    BY <1>8, OwnerAssumption DEF PruneSession, NoSession, ClearActive
  <2>2. pc = "idle" /\ pc' = pc
    BY <1>8 DEF PruneSession, IInv, HandlerPoints, Serving, reqVars
  <2> QED
    BY <2>1, <2>2 DEF Stage, StopPcs, Owners!Next, Owners!Prune
<1>9. CASE StopPrevious \/ PersistPrevious
  BY <1>4, <1>5, <1>9 DEF StopPrevious, PersistPrevious, Step, Stage, StopPcs
<1>10. CASE ClearPrevious
  <2>1. CASE pc' = "idle"
    BY <1>5, <1>10, <2>1 DEF ClearPrevious, Step, ClearActive, Stage, StopPcs
  <2>2. CASE pc' = "start"
    <3>1. Stage = "replacing" /\ Stage' = "starting"
      BY <1>10, <2>2 DEF ClearPrevious, Step, Stage, StopPcs
    <3> QED
      BY <3>1 DEF Owners!Next, Owners!Empty
  <2> QED
    BY <1>10, <2>1, <2>2 DEF ClearPrevious, Step
<1>11. CASE \/ MaterializeFails \/ StartFails \/ \E p \in Pid : StartCore(p)
            \/ RecordCore \/ StopRejected \/ PersistRejected
            \/ PersistStartedCore \/ CommitGeneration \/ CommitActive
            \/ Rollback \/ RollbackPersist \/ RollbackClear
  <2>1. /\ pc \in {"start", "record", "rejected", "persistRejected",
                   "persistStarted", "commitGeneration", "commitActive",
                   "rollback", "rollbackPersist", "rollbackClear"}
        /\ \/ pc' = "idle"
           \/ pc' \in {"record", "rejected", "persistRejected", "persistStarted",
                       "commitGeneration", "commitActive", "rollback",
                       "rollbackPersist", "rollbackClear"}
    BY <1>11 DEF MaterializeFails, StartFails, StartCore, RecordCore,
       StopRejected, PersistRejected, PersistStartedCore, CommitGeneration,
       CommitActive, Rollback, RollbackPersist, RollbackClear, Step
  <2>2. Stage = "starting"
    BY <2>1 DEF Stage, StopPcs
  <2>3. pc' = "idle" \/ Stage' = "starting"
    BY <2>1 DEF Stage, StopPcs
  <2> QED
    BY <1>2, <1>3, <2>2, <2>3
<1>12. CASE StopCore \/ StopPersist \/ StopClear
  BY <1>4, <1>5, <1>12 DEF StopCore, StopPersist, StopClear, Step, ClearActive,
     Stage, StopPcs
<1>13. CASE Exit
  <2>1. pc' = "idle" /\ UNCHANGED active
    BY <1>13 DEF Exit, diskVars
  <2>2. Stage \in {"replacing", "stopping", "starting"} \/ pc = "idle"
    BY DEF Stage
  <2> QED
    BY <1>1, <1>3, <1>5, <2>1, <2>2
<1>14. ASSUME NEW o \in Owner
       PROVE  /\ \A g \in 1..highest : UpdateWriter(o, g) => Moves
              /\ Status(o) \/ PruneState(o) => Moves
  BY <1>1 DEF UpdateWriter, Status, PruneState, reqVars
<1>15. CASE Service /\ ~Exit
  BY <1>1, <1>15 DEF Service, StopIpcServer, Boot, ReconcileFinds,
     ReconcileDismisses, ReconcileTerminates, ReconcileFails, RestoreNothing,
     RestoreCore, RestoreFails, RestoreRecord, diskVars, reqVars
<1>16. CASE Watchdog \/ Processes
  BY <1>1, <1>16 DEF Watchdog, RestartRecorded, SupervisionEnds, CoreRestarts,
     Processes, CoreDies, OrphanExit, ExecutableMoves, diskVars, reqVars
<1>17. CASE UNCHANGED vars
  BY <1>1, <1>17 DEF vars, diskVars, reqVars
<1> QED
  BY <1>6, <1>7, <1>8, <1>9, <1>10, <1>11, <1>12, <1>13, <1>14, <1>15, <1>16,
     <1>17 DEF Next, Handler

(* Mutual consistency of the two models: the handlers, with every failure,  *)
(* crash and pruning, change the committed owner only as OwnerContract lets *)
(* SystemProxy assume.                                                      *)
THEOREM OwnersKept == Spec => Owners!Spec
<1>1. Init => Owners!Init
  BY DEF Init, Owners!Init, Owned, Stage, StopPcs
<1> QED
  BY <1>1, Inductive, OwnersStep, PTL DEF Spec, Owners!Spec

-----------------------------------------------------------------------------
(* FoundCoreIsStoppedFirst does not hold.  How a live core that a boot had  *)
(* found can be forgotten, and that there is no other way.                  *)
FoundAreOrphans == found \subseteq orphaned

StopCalls == StopPrevious \/ StopRejected \/ Rollback \/ StopCore \/ StopIpcServer

(* The record of a live core that was found goes, and the core stays. *)
FoundCoreIsForgotten ==
    /\ record \in found \cap (live \ unrecognised)
    /\ record' # record
    /\ record \in live'

ForgottenByAStop == FoundCoreIsForgotten => ~reconciled /\ StopCalls

LEMMA FoundAreOrphansStep ==
  ASSUME IInv, FoundAreOrphans, [Next]_vars
  PROVE  FoundAreOrphans'
<1> USE DEF FoundAreOrphans, histVars
<1>1. CASE \E o \in Owner : \/ \E cfg \in Config : StartClash(o, cfg)
                            \/ \E g \in 1..highest : StopClash(o, g) \/ UpdateWriter(o, g)
                            \/ Status(o) \/ PruneSession(o) \/ PruneState(o)
  BY <1>1 DEF StartClash, StopClash, UpdateWriter, Status, PruneSession,
     PruneState
<1>2. CASE Handler
  BY <1>2 DEF Handler, StopPrevious, PersistPrevious, ClearPrevious,
     MaterializeFails, StartFails, StartCore, RecordCore, StopRejected,
     PersistRejected, PersistStartedCore, CommitGeneration, CommitActive,
     Rollback, RollbackPersist, RollbackClear, StopCore, StopPersist, StopClear
<1>3. CASE Service
  BY <1>3 DEF Service, StopIpcServer, Exit, Boot, ReconcileFinds,
     ReconcileDismisses, ReconcileTerminates, ReconcileFails, RestoreNothing,
     RestoreCore, RestoreFails, RestoreRecord
<1>4. CASE Watchdog \/ Processes
  BY <1>4 DEF Watchdog, RestartRecorded, SupervisionEnds, CoreRestarts,
     Processes, CoreDies, OrphanExit, ExecutableMoves
<1>5. CASE UNCHANGED vars
  BY <1>5 DEF vars
<1> QED
  BY <1>1, <1>2, <1>3, <1>4, <1>5 DEF Next

LEMMA ForgottenStep ==
  ASSUME IInv, FoundAreOrphans, [Next]_vars
  PROVE  ForgottenByAStop
<1> SUFFICES ASSUME FoundCoreIsForgotten PROVE ~reconciled /\ StopCalls
  BY DEF ForgottenByAStop
(* A process that has reconciled, or holds a core, has no such record: the  *)
(* record would name the core held, which no boot has found.                *)
<1>1. ~reconciled /\ core = NoCore
  BY DEF FoundCoreIsForgotten, FoundAreOrphans, IInv, Reconciled, Accounted
<1>2. ~UNCHANGED record
  BY DEF FoundCoreIsForgotten
<1>3. CASE Handler
  <2>1. pc # "record"
    BY <1>1 DEF IInv, HandlerPoints
  <2> QED
    BY <1>1, <1>2, <1>3, <2>1 DEF Handler, StopCalls, PersistPrevious,
       ClearPrevious, MaterializeFails, StartFails, StartCore, RecordCore,
       PersistRejected, PersistStartedCore, CommitGeneration, CommitActive,
       RollbackPersist, RollbackClear, StopPersist, StopClear, Step, diskVars
<1>4. CASE Service
  <2>1. mode # "bootRecord"
    BY <1>1 DEF IInv, BootPoints
  <2>2. ~ReconcileDismisses
    BY DEF ReconcileDismisses, Verified, FoundCoreIsForgotten
  <2>3. ~ReconcileTerminates
    BY DEF ReconcileTerminates, Dies, FoundCoreIsForgotten
  <2> QED
    BY <1>1, <1>2, <1>4, <2>1, <2>2, <2>3 DEF Service, StopCalls, Exit, Boot,
       ReconcileFinds, ReconcileFails, RestoreNothing, RestoreCore,
       RestoreFails, RestoreRecord, diskVars
<1>5. ~Watchdog
  BY <1>1 DEF Watchdog, RestartRecorded, SupervisionEnds, CoreRestarts,
     Supervised
<1>6. CASE \/ \E o \in Owner : \/ \E cfg \in Config : StartClash(o, cfg)
                               \/ \E g \in 1..highest : StopClash(o, g) \/ UpdateWriter(o, g)
                               \/ Status(o) \/ PruneSession(o) \/ PruneState(o)
           \/ Processes
           \/ UNCHANGED vars
  BY <1>2, <1>6 DEF StartClash, StopClash, UpdateWriter, Status, PruneSession,
     PruneState, Processes, CoreDies, OrphanExit, ExecutableMoves, diskVars, vars
<1> QED
  BY <1>1, <1>3, <1>4, <1>5, <1>6 DEF Next

(* A live core of an earlier process that a boot found and could not stop   *)
(* stays on record, where the next boot finds it again, until some request  *)
(* or the shutdown of a process that has not reconciled calls stop_core:    *)
(* with no core in the manager, it removes a record that is not its own.    *)
(* Nothing else, no start, restart, rollback of a start or later boot, ever *)
(* forgets one: this is the only defect behind FoundCoreIsStoppedFirst.     *)
THEOREM FoundCoresEscapeByStops ==
  Spec => []FoundAreOrphans /\ [][ForgottenByAStop]_vars
<1>1. Init => FoundAreOrphans
  BY DEF Init, FoundAreOrphans
<1>2. IInv /\ FoundAreOrphans /\ [Next]_vars =>
          FoundAreOrphans' /\ [ForgottenByAStop]_vars
  BY FoundAreOrphansStep, ForgottenStep
<1> QED
  BY <1>1, <1>2, Inductive, PTL DEF Spec
=============================================================================
