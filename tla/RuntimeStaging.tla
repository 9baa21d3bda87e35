---------------------------- MODULE RuntimeStaging ----------------------------
(***************************************************************************)
(* The runtime generation of an owner: the directory the core runs in, its *)
(* config.yaml and the manifest that says where the service-managed files  *)
(* came from.  StageRuntime (staging.rs) rewrites the directory under the  *)
(* running core; StartClash (assets.rs) plans while the old core runs and  *)
(* writes once it has stopped.  Both trust the manifest to skip a copy and *)
(* to keep a provider's download cache.                                    *)
(*                                                                         *)
(* The requests hold OWNER_LIFECYCLE_LOCK, so there is one at a time, but  *)
(* the watchdog restarts the core without it, the sources of the assets    *)
(* change under the service, every file operation may fail and the service *)
(* may die between any two.                                                *)
(*                                                                         *)
(* The core is external: a core that loads config.yaml downloads provider  *)
(* caches that are missing and reads the others as they are; until it      *)
(* loads again it leaves them alone, as the order of stage_runtime (delete *)
(* stale caches, then commit, then reload) takes for granted.              *)
(***************************************************************************)
EXTENDS Integers

CONSTANTS
    Dest,        \* destinations below the generation
    Source,      \* files of the application that assets are copied from
    Url,         \* where the core downloads provider caches from
    Timeless,    \* sources whose modification time cannot be read
    Nothing,     \* nothing declared, recorded or stored
    Bundle,      \* the declarations clients send: destination -> source or url
    MaxVersion   \* bound on the versions of a source

ASSUME NothingAssumption == Nothing \notin Source \cup Url \cup Dest
ASSUME KindAssumption == Source \cap Url = {} /\ Timeless \subseteq Source
ASSUME VersionAssumption == MaxVersion \in Nat \ {0}
ASSUME BundleAssumption ==
    /\ Bundle \subseteq [Dest -> Source \cup Url \cup {Nothing}]
    /\ Nothing \notin Bundle

VARIABLES
    version,     \* what each source contains now: its version, from 1
    \* the generation on disk
    file,        \* each destination
    manifest,    \* .runtime-manifest.json: each destination's record
    config,      \* config.yaml: the bundle it was written for
    \* the core and the recovery state
    core,        \* "up", "recovering" (between two processes of the
                 \* watchdog), "none", or "down" with the service
    noted,       \* the process running is the one stage_runtime noted
    desired,     \* a boot restores the core of this owner
    \* the handler
    request, pc,
    plan,        \* its StagePlan, what is left of it
    copying,     \* the destination copied and not yet verified
    \* history, for the properties
    ahead,       \* the manifest on disk was written for a configuration that
                 \* was not committed
    suspect      \* for each record that may be wrong, the bundles whose
                 \* requests made it so (Nothing: a core loading meanwhile)

sysVars  == <<core, noted, desired>>
diskVars == <<file, manifest, config>>
reqVars  == <<request, pc, plan, copying>>
histVars == <<ahead, suspect>>
vars     == <<version, diskVars, sysVars, reqVars, histVars>>

-----------------------------------------------------------------------------
(* A file, or the record of one: where it came from and the version it has; *)
(* version 0 stands for a modification time that is unknown, or of a url.   *)
Stamped == [from : Source \cup Url \cup {Nothing}, version : Nat]
Absent  == [from |-> Nothing, version |-> 0]

Declaration == [Dest -> Source \cup Url \cup {Nothing}]
NoBundle    == [d \in Dest |-> Nothing]
NoManifest  == [d \in Dest |-> Absent]

(* The identity gather_bundle reads of a source. *)
Stamp(s) == IF s \in Timeless THEN 0 ELSE version[s]

(* What the manifest will say of the destination. *)
Wanted(b, d) ==
    [from |-> b[d], version |-> IF b[d] \in Source THEN Stamp(b[d]) ELSE 0]

(* Mutant: equal metadata makes a copy from another source valid. *)
StillMatchesMetadata(recorded, current) ==
    /\ recorded.version = current.version
    /\ recorded.from \notin Timeless \cup {Nothing}

StillMatches(recorded, current) ==
    recorded = current /\ recorded.from \notin Timeless

(* Mutant: the new manifest starts from the previous one. *)
PlanStageOnto(previous, b) ==
    LET wanted  == [d \in Dest |-> Wanted(b, d)]
        copies  == {d \in Dest : b[d] \in Source
                                 /\ ~StillMatches(previous[d], wanted[d])}
        deletes == {d \in Dest : b[d] \in Url /\ previous[d] # wanted[d]}
    IN  [bundle  |-> b, wanted  |-> wanted,
         record  |-> [d \in Dest |-> IF b[d] = Nothing THEN previous[d]
                                                       ELSE wanted[d]],
         deletes |-> deletes, copies  |-> copies,
         settled |-> deletes \cup copies,
         sweeps  |-> {d \in Dest : previous[d] # Absent /\ b[d] = Nothing}]

PlanStage(previous, b) ==
    LET wanted  == [d \in Dest |-> Wanted(b, d)]
        copies  == {d \in Dest : b[d] \in Source
                                 /\ ~StillMatches(previous[d], wanted[d])}
        deletes == {d \in Dest : b[d] \in Url /\ previous[d] # wanted[d]}
    IN  [bundle  |-> b,
         wanted  |-> wanted,
         record  |-> wanted,              \* the manifest to be written
         deletes |-> deletes,             \* required_deletes left to do
         copies  |-> copies,              \* copies left to do
         settled |-> deletes \cup copies, \* what the manifest is sure of, once
                                          \* it is written
         sweeps  |-> {d \in Dest : previous[d] # Absent /\ b[d] = Nothing}]

NoPlan == [bundle  |-> NoBundle,  wanted |-> NoManifest, record |-> NoManifest,
           deletes |-> {}, copies |-> {}, settled |-> {}, sweeps |-> {}]

StagePlan == [bundle : Declaration,
              wanted : [Dest -> Stamped], record : [Dest -> Stamped],
              deletes : SUBSET Dest, copies : SUBSET Dest,
              settled : SUBSET Dest, sweeps : SUBSET Dest]

Serving == core # "down"

Init ==
    /\ version = [s \in Source |-> 1]
    /\ file = NoManifest /\ manifest = NoManifest /\ config = NoBundle
    /\ core = "none" /\ noted = FALSE /\ desired = FALSE
    /\ request = "none" /\ pc = "idle" /\ plan = NoPlan /\ copying = Nothing
    /\ ahead = FALSE /\ suspect = [d \in Dest |-> {}]

-----------------------------------------------------------------------------
(* The environment. *)

(* The application replaces one of the sources, for instance its geo data. *)
SourceChanges(s) ==
    /\ version[s] < MaxVersion
    /\ version' = [version EXCEPT ![s] = @ + 1]
    /\ UNCHANGED <<diskVars, sysVars, reqVars, histVars>>

(* From the check that the core is the one noted to the write of            *)
(* config.yaml, and as long as a manifest is left ahead of it.              *)
Window == ahead \/ pc = "recording"

(* A core loads config.yaml and downloads caches it misses.  In the window, *)
(* their records become wrong.                                              *)
Load ==
    \E F \in SUBSET {d \in Dest : config[d] \in Url /\ file[d] = Absent} :
        /\ file' = [d \in Dest |->
                       IF d \in F THEN [from |-> config[d], version |-> 0]
                                  ELSE file[d]]
        /\ suspect' = [d \in Dest |->
                          IF Window /\ d \in F THEN suspect[d] \cup {Nothing}
                                               ELSE suspect[d]]

(* After StageRuntime answered, the client makes the core reload. *)
ClientReloads ==
    /\ core = "up" /\ pc = "idle"
    /\ Load
    /\ UNCHANGED <<version, manifest, config, sysVars, reqVars, ahead>>

(* The watchdog sees the core exit and clears the running pid. *)
CoreExits ==
    /\ core = "up"
    /\ core' = "recovering" /\ noted' = FALSE
    /\ UNCHANGED <<version, diskVars, desired, reqVars, histVars>>

(* It restarts the core, or gives up.  It holds neither the lifecycle lock  *)
(* nor the manager's.                                                       *)
WatchdogRestarts ==
    /\ core = "recovering"
    /\ \/ core' = "up" /\ Load
       \/ core' = "none" /\ UNCHANGED <<file, suspect>>
    /\ UNCHANGED <<version, manifest, config, noted, desired, reqVars, ahead>>

(* StopClash, or a StartClash of another owner. *)
OwnerStops ==
    /\ pc = "idle" /\ Serving
    /\ core' = "none" /\ noted' = FALSE /\ desired' = FALSE
    /\ UNCHANGED <<version, diskVars, reqVars, histVars>>

EndRequest ==
    /\ request' = "none" /\ pc' = "idle" /\ plan' = NoPlan
    /\ copying' = Nothing

(* The service dies, and its core with it. *)
Crash ==
    /\ Serving
    /\ core' = "down" /\ noted' = FALSE
    /\ EndRequest
    /\ UNCHANGED <<version, diskVars, desired, histVars>>

(* The next boot restores the core from config.yaml, if it is desired. *)
Boot ==
    /\ core = "down"
    /\ \/ desired /\ core' = "up" /\ Load
       \/ core' = "none" /\ UNCHANGED <<file, suspect>>
    /\ UNCHANGED <<version, manifest, config, noted, desired, reqVars, ahead>>

-----------------------------------------------------------------------------
(* Planning.  The manifest may be missing, which is an empty one, or        *)
(* unreadable.                                                              *)

BeginStage(b) ==
    /\ pc = "idle" /\ core = "up"
    /\ request' = "stage" /\ pc' = "deleting"
    /\ plan' = PlanStage(manifest, b)
    /\ noted' = TRUE
    /\ UNCHANGED <<version, diskVars, core, desired, copying, histVars>>

(* An unreadable manifest must not prevent a start: it plans from none. *)
BeginStart(b, readable) ==
    /\ pc = "idle" /\ Serving
    /\ request' = "start" /\ pc' = "stopping"
    /\ plan' = PlanStage(IF readable THEN manifest ELSE NoManifest, b)
    /\ UNCHANGED <<version, diskVars, sysVars, copying, histVars>>

(* stop_previous_core: the core goes, then its desired state. *)
StopPreviousCore ==
    /\ pc = "stopping"
    /\ core' = "none" /\ noted' = FALSE /\ desired' = FALSE
    /\ pc' = "deleting"
    /\ UNCHANGED <<version, diskVars, request, plan, copying, histVars>>

StopPreviousCoreFails ==
    /\ pc = "stopping"
    /\ \/ UNCHANGED <<core, noted>>
       \/ core' = "none" /\ noted' = FALSE
    /\ EndRequest
    /\ UNCHANGED <<version, diskVars, desired, histVars>>

-----------------------------------------------------------------------------
(* stage_runtime and materialize_plan: required deletes, then copies, each  *)
(* verified, then the commit.                                               *)

(* The record of a cache stays true of a missing file; that of a copied     *)
(* asset does not.                                                          *)
DeleteStale(d) ==
    /\ pc = "deleting" /\ d \in plan.deletes
    /\ file' = [file EXCEPT ![d] = Absent]
    /\ suspect' = [suspect EXCEPT ![d] =
                      IF manifest[d].from \in Source THEN @ \cup {plan.bundle}
                                                     ELSE {}]
    /\ plan' = [plan EXCEPT !.deletes = @ \ {d}]
    /\ UNCHANGED <<version, manifest, config, sysVars, request, pc, copying,
                   ahead>>

DeletesDone ==
    /\ pc = "deleting" /\ plan.deletes = {}
    /\ pc' = "copying"
    /\ UNCHANGED <<version, diskVars, sysVars, request, plan, copying,
                   histVars>>

(* copy_staged_file replaces the destination atomically. *)
CopyAsset(d) ==
    /\ pc = "copying" /\ d \in plan.copies /\ copying = Nothing
    /\ file' = [file EXCEPT ![d] = [from    |-> plan.bundle[d],
                                    version |-> version[plan.bundle[d]]]]
    /\ suspect' = [suspect EXCEPT ![d] =
                      IF manifest[d] = Absent
                      THEN {} ELSE (@ \ {Nothing}) \cup {plan.bundle}]
    /\ copying' = d
    /\ UNCHANGED <<version, manifest, config, sysVars, request, pc, plan,
                   ahead>>

SourceIdentityChanged(d) == Stamp(plan.bundle[d]) # plan.wanted[d].version

(* A start whose source changed meanwhile leaves the copy unrecorded. *)
VerifyCopy(d) ==
    /\ pc = "copying" /\ copying = d
    /\ request = "stage" => ~SourceIdentityChanged(d)
    /\ plan' = [plan EXCEPT
                   !.copies = @ \ {d},
                   !.record[d] = IF SourceIdentityChanged(d) THEN Absent
                                                             ELSE @]
    /\ copying' = Nothing
    /\ UNCHANGED <<version, diskVars, sysVars, request, pc, histVars>>

(* A staging gives up: the client is told to restart the core. *)
VerifyCopyRefuses(d) ==
    /\ pc = "copying" /\ copying = d
    /\ request = "stage" /\ SourceIdentityChanged(d)
    /\ EndRequest
    /\ UNCHANGED <<version, diskVars, sysVars, histVars>>

(* Mutant: the failed request is still accounted for. *)
FileOperationFailsHeld ==
    /\ \/ pc = "deleting" /\ plan.deletes # {}
       \/ pc = "copying" /\ plan.copies # {} /\ copying = Nothing
    /\ pc' = "idle" /\ plan' = NoPlan /\ copying' = Nothing
    /\ UNCHANGED <<version, diskVars, sysVars, request, histVars>>

(* A delete or a copy fails, on Windows for instance because the core holds *)
(* the file.                                                                *)
FileOperationFails ==
    /\ \/ pc = "deleting" /\ plan.deletes # {}
       \/ pc = "copying" /\ plan.copies # {} /\ copying = Nothing
    /\ EndRequest
    /\ UNCHANGED <<version, diskVars, sysVars, histVars>>

(* A staging commits only for the process it noted; a start has no core. *)
SameCore == core = "up" /\ noted

(* Mutant: the core is not looked at again. *)
CopiesDoneUnchecked ==
    /\ pc = "copying" /\ plan.copies = {}
    /\ pc' = "recording"
    /\ UNCHANGED <<version, diskVars, sysVars, request, plan, copying,
                   histVars>>

CopiesDone ==
    /\ pc = "copying" /\ plan.copies = {}
    /\ request = "stage" => SameCore
    /\ pc' = "recording"
    /\ UNCHANGED <<version, diskVars, sysVars, request, plan, copying,
                   histVars>>

CoreRestarted ==
    /\ pc = "copying" /\ plan.copies = {}
    /\ request = "stage" /\ ~SameCore
    /\ EndRequest
    /\ UNCHANGED <<version, diskVars, sysVars, histVars>>

-----------------------------------------------------------------------------
(* commit_staged_config: the manifest, then the configuration. *)

WriteManifest ==
    /\ pc = "recording"
    /\ manifest' = plan.record
    /\ ahead' = TRUE
    /\ suspect' = [d \in Dest |->
                      IF plan.record[d] = Absent THEN {}
                      ELSE IF d \in plan.settled THEN suspect[d] \cap {Nothing}
                      ELSE suspect[d]]
    /\ pc' = "committing"
    /\ UNCHANGED <<version, file, config, sysVars, request, plan, copying>>

WriteConfig ==
    /\ pc = "committing"
    /\ config' = plan.bundle
    /\ ahead' = FALSE
    /\ pc' = "sweeping"
    /\ UNCHANGED <<version, file, manifest, sysVars, request, plan, copying,
                   suspect>>

CommitFails ==
    /\ pc \in {"recording", "committing"}
    /\ pc' = "discarding"
    /\ UNCHANGED <<version, diskVars, sysVars, request, plan, copying,
                   histVars>>

(* The manifest is discarded, whichever it is. *)
DiscardManifest ==
    /\ pc = "discarding"
    /\ manifest' = NoManifest
    /\ ahead' = FALSE /\ suspect' = [d \in Dest |-> {}]
    /\ EndRequest
    /\ UNCHANGED <<version, file, config, sysVars>>

DiscardFails ==
    /\ pc = "discarding"
    /\ EndRequest
    /\ UNCHANGED <<version, diskVars, sysVars, histVars>>

(* Files that the previous manifest recorded and nothing declares any more  *)
(* are removed, if they can be.                                             *)
Sweep(d) ==
    /\ pc = "sweeping" /\ d \in plan.sweeps
    /\ \/ file' = [file EXCEPT ![d] = Absent]
       \/ UNCHANGED file
    /\ plan' = [plan EXCEPT !.sweeps = @ \ {d}]
    /\ UNCHANGED <<version, manifest, config, sysVars, request, pc, copying,
                   histVars>>

Staged ==
    /\ pc = "sweeping" /\ plan.sweeps = {} /\ request = "stage"
    /\ EndRequest
    /\ UNCHANGED <<version, diskVars, sysVars, histVars>>

Materialized ==
    /\ pc = "sweeping" /\ plan.sweeps = {} /\ request = "start"
    /\ pc' = "starting"
    /\ UNCHANGED <<version, diskVars, sysVars, request, plan, copying,
                   histVars>>

(* The new core comes up and its session is committed, or it is stopped     *)
(* again, having loaded the configuration or not.                           *)
StartNewCore ==
    /\ pc = "starting"
    /\ \/ core' = "up" /\ desired' = TRUE /\ Load
       \/ UNCHANGED <<core, desired>> /\ Load
    /\ EndRequest
    /\ UNCHANGED <<version, manifest, config, noted, ahead>>

-----------------------------------------------------------------------------
Environment ==
    \/ \E s \in Source : SourceChanges(s)
    \/ ClientReloads \/ CoreExits \/ WatchdogRestarts \/ OwnerStops
    \/ Crash \/ Boot

Begin ==
    \E b \in Bundle :
        \/ BeginStage(b)
        \/ \E readable \in BOOLEAN : BeginStart(b, readable)

Write ==
    \/ StopPreviousCore \/ StopPreviousCoreFails
    \/ \E d \in Dest : \/ DeleteStale(d) \/ CopyAsset(d) \/ VerifyCopy(d)
                       \/ VerifyCopyRefuses(d) \/ Sweep(d)
    \/ DeletesDone \/ FileOperationFails \/ CopiesDone \/ CoreRestarted
    \/ WriteManifest \/ WriteConfig \/ CommitFails
    \/ DiscardManifest \/ DiscardFails
    \/ Staged \/ Materialized \/ StartNewCore

Next == Environment \/ Begin \/ Write

Spec == Init /\ [][Next]_vars

-----------------------------------------------------------------------------
(* Properties. *)

Pcs == {"idle", "stopping", "deleting", "copying", "recording",
        "committing", "discarding", "sweeping", "starting"}

(* Every variable has its type; the plan only lists what it declares. *)
TypeOK ==
    /\ version \in [Source -> 1..MaxVersion]
    /\ file \in [Dest -> Stamped] /\ manifest \in [Dest -> Stamped]
    /\ config \in Declaration
    /\ core \in {"up", "recovering", "none", "down"}
    /\ noted \in BOOLEAN /\ desired \in BOOLEAN
    /\ request \in {"none", "stage", "start"} /\ pc \in Pcs
    /\ request = "none" <=> pc = "idle"
    /\ plan \in StagePlan /\ copying \in Dest \cup {Nothing}
    /\ ahead \in BOOLEAN
    /\ suspect \in [Dest -> SUBSET (Bundle \cup {Nothing})]

(* What the record of a destination claims is what the file is: a copy of   *)
(* that source at that version, or a cache of that url if there is one.     *)
Honest(d) ==
    LET r == manifest[d]
        f == file[d]
    IN  /\ r.from \in Source =>
               /\ f.from = r.from
               /\ r.from \notin Timeless => f.version = r.version
        /\ r.from \in Url => f.from \in {r.from, Nothing}

(* The manifest is only wrong of what an interrupted request left behind,   *)
(* or a core that loaded under a manifest ahead of its configuration:       *)
(* whatever the watchdog, the sources and failing operations do meanwhile.  *)
HonestManifest == \A d \in Dest : suspect[d] = {} => Honest(d)

(* A manifest that describes another configuration than config.yaml is only *)
(* there between its write and that of config.yaml, or if its discard fails *)
(* or the service dies.                                                     *)
ManifestDescribesConfig ==
    ~ahead => \A d \in Dest : manifest[d].from \in {config[d], Nothing}

(* The destination is as the bundle under way declares it: an asset copied  *)
(* from its source, no older than when the request began, or a cache of its *)
(* url, if any.                                                             *)
Served(d) ==
    LET wanted == plan.wanted[d]
        f      == file[d]
    IN  /\ wanted.from \in Source => /\ f.from = wanted.from
                                     /\ f.version >= wanted.version
        /\ wanted.from \in Url => f.from \in {wanted.from, Nothing}

Committed == pc \in {"sweeping", "starting"}

(* The restart a refused staging asks for heals what it left: once a bundle *)
(* is committed, every destination is as it declares, but for those left    *)
(* wrong by a request with another bundle or a core loading in the window.  *)
FallbackHeals ==
    Committed => \A d \in Dest : suspect[d] \subseteq {plan.bundle} => Served(d)

(* Every asset of a committed bundle is copied from its source: equal       *)
(* metadata cannot make a copy from another source valid.                   *)
AssetsAreDeclared ==
    Committed => \A d \in Dest :
                     plan.wanted[d].from \in Source =>
                         file[d].from = plan.wanted[d].from

(* A committed staging never hands a core the download cache of another     *)
(* url: provenance built for an earlier process is not committed.           *)
CachesAreDeclared ==
    Committed => \A d \in Dest :
                     plan.wanted[d].from \in Url =>
                         file[d].from \in {plan.wanted[d].from, Nothing}
=============================================================================
