------------------------ MODULE RuntimeStagingProofs ------------------------
(***************************************************************************)
(* The manifest of a runtime generation, for every set of destinations,    *)
(* sources, urls and bundles.  What makes its honesty inductive is what    *)
(* the request under way knows, of every destination, at each point: what  *)
(* it skips is recorded as wanted, what it has deleted or copied is as it  *)
(* left it, unless a core came up that it will notice or that left a mark. *)
(***************************************************************************)
EXTENDS RuntimeStaging, FiniteSetTheorems, TLAPS

Planned   == {"stopping", "deleting", "copying", "recording", "committing"}
Recorded  == {"committing", "sweeping", "starting"}
Deleted   == {"deleting", "copying", "recording"} \cup Recorded
Copied    == {"copying", "recording"} \cup Recorded

(* The core and the plan at each point of a request. *)
Control ==
    /\ noted => core = "up"
    /\ core = "down" => pc = "idle"
    /\ request = "start" /\ pc # "stopping" => core = "none"
    /\ request = "stage" => pc \notin {"stopping", "starting"}
    /\ copying # Nothing => pc = "copying" /\ copying \in plan.copies
    /\ pc \in Copied \cup {"discarding"} => plan.deletes = {}
    /\ pc \in Recorded \cup {"recording", "discarding"} => plan.copies = {}
    /\ pc # "idle" => plan.bundle \in Bundle
    /\ pc = "committing" => ahead
    /\ Committed => ~ahead /\ config = plan.bundle

(* What the plan holds of a destination. *)
PlanShape(d) ==
    LET b == plan.bundle[d]
        w == plan.wanted[d]
    IN  pc # "idle" =>
          /\ w.from = b
          /\ b \in Source => w.version <= version[b]
          /\ b \in Timeless => w.version = 0
          /\ b \notin Source => w.version = 0
          /\ plan.record[d] \in {w, Absent}
          /\ plan.record[d] # w => d \in plan.settled /\ b \in Source
          /\ d \in plan.deletes => b \in Url /\ d \in plan.settled
          /\ d \in plan.copies => b \in Source /\ d \in plan.settled
          /\ d \in plan.settled => b # Nothing
          /\ d \in plan.sweeps => b = Nothing
          /\ pc = "stopping" /\ d \in plan.settled /\ b \in Url
                => d \in plan.deletes
          /\ pc \in {"stopping", "deleting"} /\ d \in plan.settled
                /\ b \in Source => d \in plan.copies

(* What the request leaves alone is recorded as it wants it. *)
Skips(d) ==
    pc \in Planned /\ d \notin plan.settled /\ plan.bundle[d] # Nothing =>
        /\ manifest[d] = plan.wanted[d] /\ plan.bundle[d] \notin Timeless
        /\ suspect[d] \subseteq {plan.bundle} => Honest(d)

(* A cache that the request deleted stays so, or the core has changed. *)
Deletes(d) ==
    pc \in Deleted /\ plan.bundle[d] \in Url
                   /\ d \in plan.settled \ plan.deletes =>
        \/ file[d].from \in {Nothing, plan.bundle[d]}
        \/ Nothing \in suspect[d]
        \/ pc \in {"deleting", "copying"} /\ request = "stage" /\ ~SameCore

(* An asset that the request copied stays so, at the version it verified. *)
Copies(d) ==
    pc \in Copied /\ plan.bundle[d] \in Source /\ d \in plan.settled
                  /\ (d \in plan.copies => copying = d) =>
        /\ file[d].from = plan.bundle[d]
        /\ file[d].version >= plan.wanted[d].version
        /\ d \notin plan.copies /\ plan.record[d] # Absent
              /\ plan.bundle[d] \notin Timeless
              => file[d].version = plan.wanted[d].version
        /\ d \in plan.copies => file[d].version <= version[plan.bundle[d]]

(* Once written, the manifest is the one planned. *)
Records(d) == pc \in Recorded => manifest[d] = plan.record[d]

(* A record is no newer than its source, and one that is wrong because of a *)
(* single bundle does not say what that bundle wants.                       *)
Marks(d) ==
    LET r == manifest[d]
    IN  /\ r.from \in Source => r.version <= version[r.from]
        /\ suspect[d] = {} => Honest(d)
        /\ \A b \in Bundle :
              suspect[d] \subseteq {b} =>
                  \/ Honest(d)
                  \/ r.from # b[d]
                  \/ b[d] \in Timeless
                  \/ b[d] \in Source /\ r.version < version[b[d]]

Heals(d) == Committed /\ suspect[d] \subseteq {plan.bundle} => Served(d)

DestInv(d) ==
    /\ PlanShape(d) /\ Skips(d) /\ Deletes(d) /\ Copies(d) /\ Records(d)
    /\ Marks(d) /\ Heals(d)

IInv ==
    /\ TypeOK
    /\ Control
    /\ ManifestDescribesConfig
    /\ \A d \in Dest : DestInv(d)

-----------------------------------------------------------------------------
(* What a core that loads does to a destination. *)
LEMMA LoadFacts ==
  ASSUME TypeOK, Load
  PROVE  /\ file' \in [Dest -> Stamped]
         /\ suspect' \in [Dest -> SUBSET (Bundle \cup {Nothing})]
         /\ \A d \in Dest :
               \/ file'[d] = file[d] /\ suspect'[d] = suspect[d]
               \/ /\ file[d] = Absent /\ config[d] \in Url
                  /\ file'[d] = [from |-> config[d], version |-> 0]
                  /\ suspect'[d] = IF Window THEN suspect[d] \cup {Nothing}
                                             ELSE suspect[d]
<1>1. PICK F \in SUBSET {d \in Dest : config[d] \in Url /\ file[d] = Absent} :
         /\ file' = [d \in Dest |->
                       IF d \in F THEN [from |-> config[d], version |-> 0]
                                  ELSE file[d]]
         /\ suspect' = [d \in Dest |->
                          IF Window /\ d \in F THEN suspect[d] \cup {Nothing}
                                               ELSE suspect[d]]
  BY DEF Load
<1>2. ASSUME NEW d \in Dest
      PROVE  /\ file'[d] \in Stamped
             /\ suspect'[d] \in SUBSET (Bundle \cup {Nothing})
             /\ \/ file'[d] = file[d] /\ suspect'[d] = suspect[d]
                \/ /\ file[d] = Absent /\ config[d] \in Url
                   /\ file'[d] = [from |-> config[d], version |-> 0]
                   /\ suspect'[d] = IF Window THEN suspect[d] \cup {Nothing}
                                              ELSE suspect[d]
  <2>1. CASE d \in F
    BY <1>1, <2>1 DEF TypeOK, Stamped
  <2>2. CASE d \notin F
    BY <1>1, <2>2 DEF TypeOK
  <2> QED
    BY <2>1, <2>2
<1> QED
  BY <1>1, <1>2

(* What a plan is made of. *)
LEMMA PlanFacts ==
  ASSUME TypeOK, NEW b \in Bundle, NEW previous \in [Dest -> Stamped]
  PROVE  LET p == PlanStage(previous, b)
         IN  /\ p \in StagePlan
             /\ p.bundle = b
             /\ \A d \in Dest :
                  /\ p.wanted[d] = Wanted(b, d) /\ p.record[d] = Wanted(b, d)
                  /\ d \in p.copies <=> b[d] \in Source
                            /\ ~StillMatches(previous[d], p.wanted[d])
                  /\ d \in p.deletes <=> b[d] \in Url
                                         /\ previous[d] # p.wanted[d]
                  /\ d \in p.settled <=> d \in p.copies \/ d \in p.deletes
                  /\ d \in p.sweeps => b[d] = Nothing
<1>1. b \in Declaration
  BY BundleAssumption DEF Declaration
<1>2. \A d \in Dest : Wanted(b, d) \in Stamped
  BY <1>1, VersionAssumption DEF Wanted, Stamp, Stamped, Declaration, TypeOK
<1> QED
  BY <1>1, <1>2 DEF PlanStage, StagePlan

(* The fields of well-typed variables. *)
LEMMA Fields ==
  ASSUME TypeOK, NEW d \in Dest
  PROVE  /\ manifest[d] \in Stamped /\ file[d] \in Stamped
         /\ manifest[d].from \in Source \cup Url \cup {Nothing}
         /\ manifest[d].version \in Nat
         /\ file[d].from \in Source \cup Url \cup {Nothing}
         /\ file[d].version \in Nat
         /\ config[d] \in Source \cup Url \cup {Nothing}
         /\ plan.wanted[d] \in Stamped /\ plan.record[d] \in Stamped
         /\ plan.wanted[d].version \in Nat
         /\ plan.bundle[d] \in Source \cup Url \cup {Nothing}
         /\ suspect[d] \subseteq Bundle \cup {Nothing}
         /\ \A s \in Source : version[s] \in Nat
BY VersionAssumption DEF TypeOK, StagePlan, Stamped, Declaration

(* A core that loads leaves the records right, or a mark. *)
LEMMA LoadMarks ==
  ASSUME TypeOK, ManifestDescribesConfig, NEW d \in Dest, Marks(d),
         Load, manifest' = manifest, version' = version
  PROVE  Marks(d)'
<1>1. CASE file'[d] = file[d] /\ suspect'[d] = suspect[d]
  BY <1>1 DEF Marks, Honest
<1>2. CASE /\ file[d] = Absent /\ config[d] \in Url
           /\ file'[d] = [from |-> config[d], version |-> 0]
           /\ suspect'[d] = IF Window THEN suspect[d] \cup {Nothing}
                                      ELSE suspect[d]
  <2>1. CASE Window
    <3>1. Nothing \in suspect'[d]
      BY <1>2, <2>1
    <3>2. suspect'[d] # {} /\ \A b \in Bundle : ~(suspect'[d] \subseteq {b})
      BY <3>1, BundleAssumption
    <3> QED
      BY <3>2 DEF Marks
  <2>2. CASE ~Window
    <3>1. manifest[d].from \in {config[d], Nothing}
      BY <2>2 DEF Window, ManifestDescribesConfig
    <3>2. Honest(d)'
      BY <3>1, <1>2, NothingAssumption, KindAssumption DEF Honest
    <3> QED
      BY <3>2 DEF Marks
  <2> QED
    BY <2>1, <2>2
<1> QED
  BY <1>1, <1>2, LoadFacts

(* The same of what the request under way skips. *)
LEMMA LoadSkips ==
  ASSUME TypeOK, Control, ManifestDescribesConfig, NEW d \in Dest, Skips(d),
         Load, UNCHANGED <<manifest, config, plan, pc>>
  PROVE  Skips(d)'
<1>1. CASE file'[d] = file[d] /\ suspect'[d] = suspect[d]
  BY <1>1 DEF Skips, Honest
<1>2. CASE /\ file[d] = Absent /\ config[d] \in Url
           /\ file'[d] = [from |-> config[d], version |-> 0]
           /\ suspect'[d] = IF Window THEN suspect[d] \cup {Nothing}
                                      ELSE suspect[d]
  <2>1. CASE Window
    <3>1. pc # "idle" => ~(suspect'[d] \subseteq {plan.bundle})
      BY <1>2, <2>1, BundleAssumption DEF Control
    <3> QED
      BY <3>1 DEF Skips, Planned
  <2>2. CASE ~Window
    <3>1. manifest[d].from \in {config[d], Nothing}
      BY <2>2 DEF Window, ManifestDescribesConfig
    <3>2. Honest(d)'
      BY <3>1, <1>2, NothingAssumption, KindAssumption DEF Honest
    <3> QED
      BY <3>2 DEF Skips
  <2> QED
    BY <2>1, <2>2
<1> QED
  BY <1>1, <1>2, LoadFacts

(* A destination that a plan leaves alone is recorded as the bundle wants   *)
(* it, and right unless other bundles left it wrong.                        *)
LEMMA PlanSkips ==
  ASSUME TypeOK, NEW b \in Bundle, NEW d \in Dest, Marks(d),
         NEW previous \in {manifest, NoManifest},
         d \notin PlanStage(previous, b).settled, b[d] # Nothing
  PROVE  /\ manifest[d] = Wanted(b, d) /\ b[d] \notin Timeless
         /\ suspect[d] \subseteq {b} => Honest(d)
<1>1. previous \in [Dest -> Stamped]
  BY DEF TypeOK, NoManifest, Absent, Stamped
<1>2. b[d] \in Source \cup Url
  BY BundleAssumption
<1>3. /\ b[d] \in Source => StillMatches(previous[d], Wanted(b, d))
      /\ b[d] \in Url => previous[d] = Wanted(b, d)
  BY <1>1, PlanFacts
<1>4. previous[d] = Wanted(b, d) /\ b[d] \notin Timeless
  BY <1>2, <1>3, KindAssumption DEF StillMatches, Wanted
<1>5. previous = manifest
  BY <1>4, NothingAssumption, <1>2 DEF NoManifest, Absent, Wanted
<1>6. manifest[d] = Wanted(b, d)
  BY <1>4, <1>5
<1>7. /\ manifest[d].from = b[d]
      /\ b[d] \in Source => manifest[d].version = version[b[d]]
  BY <1>4, <1>6 DEF Wanted, Stamp
<1>8. b[d] \in Source => ~(version[b[d]] < version[b[d]])
  BY Fields
<1> QED
  BY <1>4, <1>6, <1>7, <1>8 DEF Marks

(* The plan of a request that begins. *)
LEMMA BeginPlan ==
  ASSUME TypeOK, NEW b \in Bundle, NEW d \in Dest, Marks(d),
         NEW previous \in {manifest, NoManifest},
         plan' = PlanStage(previous, b), pc' \in {"stopping", "deleting"},
         UNCHANGED <<version, file, manifest, suspect>>
  PROVE  plan'.bundle = b /\ PlanShape(d)' /\ Skips(d)' /\ Deletes(d)'
<1>1. previous \in [Dest -> Stamped]
  BY DEF TypeOK, NoManifest, Absent, Stamped
<1>2. b[d] \in Source \cup Url \cup {Nothing}
  BY BundleAssumption
<1>3. /\ plan'.bundle = b
      /\ plan'.wanted[d] = Wanted(b, d) /\ plan'.record[d] = Wanted(b, d)
      /\ d \in plan'.copies => b[d] \in Source /\ d \in plan'.settled
      /\ d \in plan'.deletes => b[d] \in Url /\ d \in plan'.settled
      /\ d \in plan'.settled => d \in plan'.copies \/ d \in plan'.deletes
      /\ d \in plan'.sweeps => b[d] = Nothing
  BY <1>1, PlanFacts
<1>4. /\ Wanted(b, d).from = b[d]
      /\ b[d] \in Source => Wanted(b, d).version <= version[b[d]]
      /\ b[d] \in Timeless => Wanted(b, d).version = 0
      /\ b[d] \notin Source => Wanted(b, d).version = 0
  BY Fields DEF Wanted, Stamp
<1>5. PlanShape(d)'
  BY <1>2, <1>3, <1>4, NothingAssumption, KindAssumption DEF PlanShape
<1>6. d \notin plan'.settled /\ b[d] # Nothing =>
         /\ manifest[d] = Wanted(b, d) /\ b[d] \notin Timeless
         /\ suspect[d] \subseteq {b} => Honest(d)
  BY PlanSkips
<1>7. Honest(d)' <=> Honest(d)
  BY DEF Honest
<1>8. Skips(d)'
  BY <1>3, <1>6, <1>7 DEF Skips
<1>9. Deletes(d)'
  BY <1>3, KindAssumption DEF Deletes, Deleted, Recorded
<1> QED
  BY <1>3, <1>5, <1>8, <1>9

-----------------------------------------------------------------------------
(* The initial states. *)
LEMMA InitIInv == Init => IInv
<1> SUFFICES ASSUME Init PROVE IInv
  OBVIOUS
<1>1. Absent \in Stamped /\ NoBundle \in Declaration
      /\ NoManifest \in [Dest -> Stamped]
  BY DEF Absent, Stamped, NoBundle, Declaration, NoManifest
<1>2. NoPlan \in StagePlan
  BY <1>1 DEF NoPlan, StagePlan
<1>3. TypeOK
  <2>1. 1 \in 1..MaxVersion
    BY VersionAssumption
  <2>2. version \in [Source -> 1..MaxVersion]
    BY <2>1 DEF Init
  <2> QED
    BY <1>1, <1>2, <2>2 DEF Init, TypeOK, Pcs
<1>4. Control /\ ManifestDescribesConfig
  BY DEF Init, Control, Planned, Recorded, Deleted, Copied, Committed,
     ManifestDescribesConfig, NoManifest, Absent
<1>5. ASSUME NEW d \in Dest PROVE DestInv(d)
  <2>1. manifest[d].from = Nothing
    BY DEF Init, NoManifest, Absent
  <2>2. Marks(d)
    BY <2>1, NothingAssumption DEF Marks, Honest
  <2> QED
    BY <2>2 DEF Init, DestInv, PlanShape, Skips, Deletes, Copies, Records,
       Heals, Planned, Recorded, Deleted, Copied, Committed
<1> QED
  BY <1>3, <1>4, <1>5 DEF IInv

(* Every action preserves the inductive invariant. *)
LEMMA NextIInv == IInv /\ [Next]_vars => IInv'
<1> SUFFICES ASSUME IInv, [Next]_vars PROVE IInv'
  OBVIOUS
<1> DEFINE Rest == TypeOK /\ Control /\ ManifestDescribesConfig
<1>0. Rest /\ \A d \in Dest : DestInv(d)
  BY DEF IInv
<1> USE NothingAssumption, KindAssumption, BundleAssumption, VersionAssumption
    DEF sysVars, diskVars, reqVars, histVars, Pcs, Serving, Committed, Window,
        TypeOK, Control, Planned, Recorded, Deleted, Copied

<1>1. ASSUME NEW s \in Source, SourceChanges(s)
      PROVE  Rest' /\ \A d \in Dest : DestInv(d)'
  <2>1. Rest'
    BY <1>1, <1>0 DEF SourceChanges, ManifestDescribesConfig
  <2>2. ASSUME NEW d \in Dest PROVE DestInv(d)'
    BY <1>1, <1>0, <2>1
       DEF SourceChanges, DestInv, PlanShape, Skips, Deletes, Copies,
           Records, Heals, Served, Marks, Honest, SameCore,
           ManifestDescribesConfig, Absent, NoManifest, StagePlan, Stamped,
           Declaration
  <2> QED
    BY <2>1, <2>2
<1>2. ASSUME ClientReloads PROVE Rest' /\ \A d \in Dest : DestInv(d)'
  <2>1. Rest'
    BY <1>2, <1>0, LoadFacts DEF ClientReloads, ManifestDescribesConfig
  <2>2. ASSUME NEW d \in Dest PROVE DestInv(d)'
    <3>1. Marks(d)'
      BY <1>2, <1>0, LoadMarks DEF ClientReloads, DestInv
    <3>2. PlanShape(d)' /\ Skips(d)' /\ Deletes(d)' /\ Copies(d)' /\
         Records(d)' /\ Heals(d)'
      BY <1>2, <1>0, <2>1, LoadFacts
         DEF ClientReloads, DestInv, PlanShape, Skips, Deletes, Copies,
             Records, Marks, Heals
    <3> QED
      BY <3>1, <3>2 DEF DestInv
  <2> QED
    BY <2>1, <2>2
<1>3. ASSUME CoreExits PROVE Rest' /\ \A d \in Dest : DestInv(d)'
  <2>1. Rest'
    BY <1>3, <1>0 DEF CoreExits, SameCore, ManifestDescribesConfig
  <2>2. ASSUME NEW d \in Dest PROVE DestInv(d)'
    BY <1>3, <1>0, <2>1
       DEF CoreExits, SameCore, DestInv, PlanShape, Skips, Deletes, Copies,
           Records, Marks, Heals, Honest, Served
  <2> QED
    BY <2>1, <2>2
<1>4. ASSUME WatchdogRestarts PROVE Rest' /\ \A d \in Dest : DestInv(d)'
  <2>1. TypeOK'
    <3>1. CASE Load
      BY <1>4, <1>0, <3>1, LoadFacts DEF WatchdogRestarts, TypeOK
    <3>2. CASE UNCHANGED <<file, suspect>>
      BY <1>4, <1>0, <3>2 DEF WatchdogRestarts, TypeOK
    <3> QED
      BY <1>4, <3>1, <3>2 DEF WatchdogRestarts
  <2>2. Control'
    BY <1>4, <1>0, <2>1, LoadFacts DEF WatchdogRestarts, SameCore
  <2>3. ManifestDescribesConfig'
    BY <1>4, <1>0, <2>1 DEF WatchdogRestarts, SameCore, ManifestDescribesConfig
  <2>4. ASSUME NEW d \in Dest PROVE DestInv(d)'
    <3>1. Marks(d)'
      <4>1. CASE Load
        BY <1>4, <1>0, <4>1, LoadMarks DEF WatchdogRestarts, DestInv
      <4>2. CASE UNCHANGED <<file, suspect>>
        BY <1>4, <1>0, <4>2 DEF WatchdogRestarts, DestInv, Marks, Honest
      <4> QED
        BY <1>4, <4>1, <4>2 DEF WatchdogRestarts
    <3>2. CASE Load
      <4>1. PlanShape(d)' /\ Records(d)' /\ Copies(d)'
        BY <1>4, <1>0, <2>1, <2>2, <2>3, <3>2, LoadFacts
           DEF WatchdogRestarts, SameCore, DestInv, PlanShape, Records,
               Copies, Absent
      <4>2. Skips(d)'
        BY <1>4, <1>0, <2>1, <2>2, <2>3, <3>2, LoadSkips
           DEF WatchdogRestarts, SameCore, DestInv
      <4>3. Deletes(d)'
        BY <1>4, <1>0, <2>1, <2>2, <2>3, <3>2, LoadFacts
           DEF WatchdogRestarts, SameCore, DestInv, Deletes, Absent
      <4>4. Heals(d)'
        BY <1>4, <1>0, <2>1, <2>2, <2>3, <3>2, LoadFacts
           DEF WatchdogRestarts, SameCore, DestInv, Heals, Served,
               PlanShape, Absent
      <4> QED
        BY <3>1, <4>1, <4>2, <4>3, <4>4 DEF DestInv
    <3>3. CASE UNCHANGED <<file, suspect>>
      BY <1>4, <1>0, <2>1, <2>2, <2>3, <3>3
         DEF WatchdogRestarts, SameCore, DestInv, PlanShape, Skips, Deletes,
             Copies, Records, Heals, Served, Marks, Honest
    <3> QED
      BY <3>1, <3>2, <3>3, <1>4 DEF DestInv, WatchdogRestarts, SameCore
  <2> QED
    BY <2>1, <2>2, <2>3, <2>4
<1>5. ASSUME OwnerStops PROVE Rest' /\ \A d \in Dest : DestInv(d)'
  <2>1. Rest'
    BY <1>5, <1>0 DEF OwnerStops, SameCore, ManifestDescribesConfig
  <2>2. ASSUME NEW d \in Dest PROVE DestInv(d)'
    BY <1>5, <1>0, <2>1
       DEF OwnerStops, SameCore, DestInv, PlanShape, Skips, Deletes, Copies,
           Records, Marks, Heals, Honest
  <2> QED
    BY <2>1, <2>2
<1>6. ASSUME Crash PROVE Rest' /\ \A d \in Dest : DestInv(d)'
  <2>1. Rest'
    BY <1>6, <1>0
       DEF Crash, EndRequest, NoPlan, ManifestDescribesConfig, StagePlan,
           Stamped, Absent, NoManifest, NoBundle, Declaration
  <2>2. ASSUME NEW d \in Dest PROVE DestInv(d)'
    BY <1>6, <1>0, <2>1
       DEF Crash, EndRequest, NoPlan, DestInv, PlanShape, Skips, Deletes,
           Copies, Records, Marks, Heals, Honest
  <2> QED
    BY <2>1, <2>2
<1>7. ASSUME Boot PROVE Rest' /\ \A d \in Dest : DestInv(d)'
  <2>1. Rest'
    BY <1>7, <1>0, LoadFacts DEF Boot, ManifestDescribesConfig
  <2>2. ASSUME NEW d \in Dest PROVE DestInv(d)'
    <3>1. Marks(d)'
      <4>1. CASE Load
        BY <1>7, <1>0, <4>1, LoadMarks DEF Boot, DestInv
      <4>2. CASE UNCHANGED <<file, suspect>>
        BY <1>7, <1>0, <4>2 DEF Boot, DestInv, Marks, Honest
      <4> QED
        BY <1>7, <4>1, <4>2 DEF Boot
    <3>2. CASE Load
      <4>1. PlanShape(d)' /\ Records(d)' /\ Copies(d)'
        BY <1>7, <1>0, <2>1, <3>2, LoadFacts
           DEF Boot, DestInv, PlanShape, Records, Copies, Absent
      <4>2. Skips(d)'
        BY <1>7, <1>0, <2>1, <3>2, LoadSkips DEF Boot, DestInv
      <4>3. Deletes(d)'
        BY <1>7, <1>0, <2>1, <3>2, LoadFacts
           DEF Boot, DestInv, Deletes, SameCore, Absent
      <4>4. Heals(d)'
        BY <1>7, <1>0, <2>1, <3>2, LoadFacts
           DEF Boot, DestInv, Heals, Served, PlanShape, Absent
      <4> QED
        BY <3>1, <4>1, <4>2, <4>3, <4>4 DEF DestInv
    <3>3. CASE UNCHANGED <<file, suspect>>
      BY <1>7, <1>0, <2>1, <3>3
         DEF Boot, DestInv, PlanShape, Skips, Deletes, Copies, Records,
             Heals, Served, Marks, Honest, SameCore
    <3> QED
      BY <3>1, <3>2, <3>3, <1>7 DEF DestInv, Boot
  <2> QED
    BY <2>1, <2>2
<1>8. ASSUME NEW b \in Bundle, BeginStage(b)
      PROVE  Rest' /\ \A d \in Dest : DestInv(d)'
  <2> DEFINE previous == manifest
  <2>1. /\ previous \in {manifest, NoManifest}
        /\ previous \in [Dest -> Stamped]
        /\ plan' = PlanStage(previous, b) /\ pc' \in {"stopping", "deleting"}
        /\ UNCHANGED <<version, file, manifest, suspect>>
    BY <1>8, <1>0 DEF BeginStage, NoManifest, Absent, Stamped
  <2> HIDE DEF previous
  <2>2. plan' \in StagePlan /\ plan'.bundle = b
    BY <1>0, <2>1, PlanFacts
  <2>3. Rest'
    BY <1>8, <1>0, <2>2 DEF BeginStage, ManifestDescribesConfig
  <2>4. ASSUME NEW d \in Dest PROVE DestInv(d)'
    <3>1. PlanShape(d)' /\ Skips(d)' /\ Deletes(d)'
      BY <1>0, <2>1, BeginPlan DEF DestInv
    <3>2. Copies(d)' /\ Records(d)' /\ Heals(d)'
      BY <2>1 DEF Copies, Records, Heals, Copied, Recorded, Committed
    <3>3. Marks(d)'
      BY <1>0, <2>1 DEF DestInv, Marks, Honest
    <3> QED
      BY <3>1, <3>2, <3>3 DEF DestInv
  <2> QED
    BY <2>3, <2>4
<1>9. ASSUME NEW b \in Bundle, NEW readable \in BOOLEAN, BeginStart(b, readable)
      PROVE  Rest' /\ \A d \in Dest : DestInv(d)'
  <2> DEFINE previous == IF readable THEN manifest ELSE NoManifest
  <2>1. /\ previous \in {manifest, NoManifest}
        /\ previous \in [Dest -> Stamped]
        /\ plan' = PlanStage(previous, b) /\ pc' \in {"stopping", "deleting"}
        /\ UNCHANGED <<version, file, manifest, suspect>>
    BY <1>9, <1>0 DEF BeginStart, NoManifest, Absent, Stamped
  <2> HIDE DEF previous
  <2>2. plan' \in StagePlan /\ plan'.bundle = b
    BY <1>0, <2>1, PlanFacts
  <2>3. Rest'
    BY <1>9, <1>0, <2>2 DEF BeginStart, ManifestDescribesConfig
  <2>4. ASSUME NEW d \in Dest PROVE DestInv(d)'
    <3>1. PlanShape(d)' /\ Skips(d)' /\ Deletes(d)'
      BY <1>0, <2>1, BeginPlan DEF DestInv
    <3>2. Copies(d)' /\ Records(d)' /\ Heals(d)'
      BY <2>1 DEF Copies, Records, Heals, Copied, Recorded, Committed
    <3>3. Marks(d)'
      BY <1>0, <2>1 DEF DestInv, Marks, Honest
    <3> QED
      BY <3>1, <3>2, <3>3 DEF DestInv
  <2> QED
    BY <2>3, <2>4
<1>10. ASSUME StopPreviousCore PROVE Rest' /\ \A d \in Dest : DestInv(d)'
  <2>1. Rest'
    BY <1>10, <1>0 DEF StopPreviousCore, SameCore, ManifestDescribesConfig
  <2>2. ASSUME NEW d \in Dest PROVE DestInv(d)'
    BY <1>10, <1>0, <2>1
       DEF StopPreviousCore, SameCore, DestInv, PlanShape, Skips, Deletes,
           Copies, Records, Marks, Heals, Honest
  <2> QED
    BY <2>1, <2>2
<1>11. ASSUME StopPreviousCoreFails PROVE Rest' /\ \A d \in Dest : DestInv(d)'
  <2>1. TypeOK'
    BY <1>11, <1>0
       DEF StopPreviousCoreFails, EndRequest, NoPlan, SameCore,
           ManifestDescribesConfig, StagePlan, Stamped, Absent, NoManifest,
           NoBundle, Declaration
  <2>2. Control'
    BY <1>11, <1>0, <2>1
       DEF StopPreviousCoreFails, EndRequest, NoPlan, SameCore
  <2>3. ManifestDescribesConfig'
    BY <1>11, <1>0, <2>1
       DEF StopPreviousCoreFails, EndRequest, NoPlan, SameCore,
           ManifestDescribesConfig
  <2>4. ASSUME NEW d \in Dest PROVE DestInv(d)'
    BY <1>11, <1>0, <2>1, <2>2, <2>3
       DEF StopPreviousCoreFails, EndRequest, NoPlan, SameCore, DestInv,
           PlanShape, Skips, Deletes, Copies, Records, Marks, Heals, Honest
  <2> QED
    BY <2>1, <2>2, <2>3, <2>4
<1>12. ASSUME NEW e \in Dest, DeleteStale(e)
      PROVE  Rest' /\ \A d \in Dest : DestInv(d)'
  <2>1. TypeOK'
    <3>1. plan.bundle \in Bundle
      BY <1>12, <1>0 DEF DeleteStale, Control
    <3>2. Absent \in Stamped
      BY DEF Absent, Stamped
    <3>3. file' \in [Dest -> Stamped] /\ plan' \in StagePlan
      BY <1>12, <1>0, <3>2 DEF DeleteStale, TypeOK, StagePlan
    <3>4. suspect' \in [Dest -> SUBSET (Bundle \cup {Nothing})]
      BY <1>12, <1>0, <3>1 DEF DeleteStale, TypeOK
    <3> QED
      BY <1>12, <1>0, <3>3, <3>4 DEF DeleteStale, TypeOK
  <2>2. Control'
    BY <1>12, <1>0, <2>1 DEF DeleteStale
  <2>3. ManifestDescribesConfig'
    BY <1>12, <1>0, <2>1 DEF DeleteStale, ManifestDescribesConfig
  <2>4. ASSUME NEW d \in Dest PROVE DestInv(d)'
    <3>1. Marks(d)'
      <4>1. CASE d # e
        BY <1>12, <1>0, <4>1 DEF DeleteStale, DestInv, Marks, Honest, TypeOK
      <4>2. CASE d = e
        <5>1. file'[d] = Absent /\ manifest'[d] = manifest[d] /\
             version' = version
          BY <1>12, <1>0, <4>2 DEF DeleteStale, TypeOK
        <5>2. CASE manifest[d].from \in Source
          <6>1. plan.bundle \in suspect'[d] /\ plan.bundle \in Bundle
            BY <1>12, <1>0, <4>2, <5>2 DEF DeleteStale, TypeOK, Control
          <6>2. plan.bundle[d] \in Url
            BY <1>12, <1>0, <4>2 DEF DeleteStale, DestInv, PlanShape
          <6>3. manifest[d].from # plan.bundle[d]
            BY <5>2, <6>2, KindAssumption
          <6>4. \A b \in Bundle : suspect'[d] \subseteq {b} => b = plan.bundle
            BY <6>1
          <6> QED
            BY <1>0, <5>1, <6>1, <6>3, <6>4 DEF DestInv, Marks
        <5>3. CASE manifest[d].from \notin Source
          <6>1. Honest(d)'
            BY <5>1, <5>3 DEF Honest, Absent
          <6> QED
            BY <1>0, <5>1, <6>1 DEF DestInv, Marks
        <5> QED
          BY <5>2, <5>3
      <4> QED
        BY <4>1, <4>2
    <3>2. PlanShape(d)' /\ Skips(d)' /\ Deletes(d)' /\ Copies(d)' /\
         Records(d)' /\ Heals(d)'
      BY <1>12, <1>0, <2>1, <2>2, <2>3
         DEF DeleteStale, DestInv, PlanShape, Skips, Deletes, Copies,
             Records, Marks, Heals, Honest, Served, SameCore, Absent
    <3> QED
      BY <3>1, <3>2 DEF DestInv
  <2> QED
    BY <2>1, <2>2, <2>3, <2>4
<1>13. ASSUME NEW e \in Dest, CopyAsset(e)
      PROVE  Rest' /\ \A d \in Dest : DestInv(d)'
  <2>1. TypeOK'
    <3>1. plan.bundle \in Bundle /\ plan.bundle[e] \in Source
      BY <1>13, <1>0 DEF CopyAsset, Control, IInv, DestInv, PlanShape
    <3>2. [from |-> plan.bundle[e], version |-> version[plan.bundle[e]]] \in Stamped
      BY <1>0, <3>1, Fields DEF Stamped
    <3>3. file' \in [Dest -> Stamped]
      BY <1>13, <1>0, <3>2 DEF CopyAsset, TypeOK
    <3>4. suspect' \in [Dest -> SUBSET (Bundle \cup {Nothing})]
      BY <1>13, <1>0, <3>1 DEF CopyAsset, TypeOK
    <3> QED
      BY <1>13, <1>0, <3>3, <3>4 DEF CopyAsset, TypeOK
  <2>2. Control'
    BY <1>13, <1>0, <2>1 DEF CopyAsset
  <2>3. ManifestDescribesConfig'
    BY <1>13, <1>0, <2>1 DEF CopyAsset, ManifestDescribesConfig
  <2>4. ASSUME NEW d \in Dest PROVE DestInv(d)'
    <3>1. Marks(d)'
      <4>1. CASE d # e
        BY <1>13, <1>0, <4>1 DEF CopyAsset, DestInv, Marks, Honest, TypeOK
      <4>2. CASE d = e
        <5>1. /\ plan.bundle \in Bundle /\ plan.bundle[d] \in Source
              /\ manifest' = manifest /\ version' = version
              /\ file'[d] = [from |-> plan.bundle[d],
                             version |-> version[plan.bundle[d]]]
              /\ suspect'[d] = IF manifest[d] = Absent THEN {}
                               ELSE (suspect[d] \ {Nothing}) \cup {plan.bundle}
          BY <1>13, <1>0, <4>2
             DEF CopyAsset, DestInv, PlanShape, Control, TypeOK
        <5>2. CASE manifest[d] = Absent
          <6>1. Honest(d)'
            BY <5>1, <5>2, NothingAssumption DEF Honest, Absent
          <6> QED
            BY <1>0, <5>1, <6>1 DEF DestInv, Marks
        <5>3. CASE manifest[d] # Absent
          <6>1. \A b \in Bundle : suspect'[d] \subseteq {b} => b = plan.bundle
            BY <5>1, <5>3
          <6>2. suspect'[d] # {}
            BY <5>1, <5>3
          <6>3. \/ Honest(d)'
                \/ manifest[d].from # plan.bundle[d]
                \/ plan.bundle[d] \in Timeless
                \/ manifest[d].version < version[plan.bundle[d]]
            <7>1. manifest[d].from \in Source =>
                     manifest[d].version <= version[manifest[d].from]
              BY <1>0 DEF DestInv, Marks
            <7>2. ASSUME manifest[d].from = plan.bundle[d],
                         manifest[d].version = version[plan.bundle[d]]
                  PROVE  Honest(d)'
              BY <5>1, <7>2, KindAssumption DEF Honest
            <7>3. /\ manifest[d].version \in Nat
                  /\ version[plan.bundle[d]] \in Nat
              BY <1>0, <5>1, Fields
            <7> QED
              BY <5>1, <7>1, <7>2, <7>3
          <6> QED
            BY <1>0, <5>1, <6>1, <6>2, <6>3 DEF DestInv, Marks
        <5> QED
          BY <5>2, <5>3
      <4> QED
        BY <4>1, <4>2
    <3>2. PlanShape(d)' /\ Skips(d)' /\ Deletes(d)' /\ Copies(d)' /\
         Records(d)' /\ Heals(d)'
      BY <1>13, <1>0, <2>1, <2>2, <2>3
         DEF CopyAsset, DestInv, PlanShape, Skips, Deletes, Copies, Records,
             Marks, Heals, Honest, Served, SameCore
    <3> QED
      BY <3>1, <3>2 DEF DestInv
  <2> QED
    BY <2>1, <2>2, <2>3, <2>4
<1>14. ASSUME NEW e \in Dest, VerifyCopy(e)
      PROVE  Rest' /\ \A d \in Dest : DestInv(d)'
  <2>1. Rest'
    BY <1>14, <1>0
       DEF VerifyCopy, SourceIdentityChanged, Stamp,
           ManifestDescribesConfig, NoPlan, StagePlan, Stamped, Absent,
           NoManifest, NoBundle, Declaration
  <2>2. ASSUME NEW d \in Dest PROVE DestInv(d)'
    <3>1. PlanShape(d)'
      BY <1>14, <1>0, <2>1
         DEF VerifyCopy, SourceIdentityChanged, Stamp, DestInv, PlanShape,
             Skips, Deletes, Copies, Records, Marks, Heals
    <3>2. Skips(d)'
      BY <1>14, <1>0, <2>1
         DEF VerifyCopy, DestInv, Skips, Honest, StagePlan
    <3>3. Deletes(d)'
      BY <1>14, <1>0, <2>1
         DEF VerifyCopy, DestInv, PlanShape, Deletes, SameCore, StagePlan
    <3>4. Copies(d)'
      BY <1>14, <1>0, <2>1
         DEF VerifyCopy, SourceIdentityChanged, Stamp, DestInv, PlanShape,
             Copies, Absent, StagePlan, Stamped
    <3>5. Records(d)' /\ Marks(d)' /\ Heals(d)'
      BY <1>14, <1>0, <2>1
         DEF VerifyCopy, SourceIdentityChanged, Stamp, DestInv, PlanShape,
             Skips, Deletes, Copies, Records, Marks, Heals, Honest
    <3> QED
      BY <3>1, <3>2, <3>3, <3>4, <3>5 DEF DestInv
  <2> QED
    BY <2>1, <2>2
<1>15. ASSUME NEW e \in Dest, VerifyCopyRefuses(e)
      PROVE  Rest' /\ \A d \in Dest : DestInv(d)'
  <2>1. Rest'
    BY <1>15, <1>0
       DEF VerifyCopyRefuses, EndRequest, SourceIdentityChanged, Stamp,
           NoPlan, ManifestDescribesConfig, StagePlan, Stamped, Absent,
           NoManifest, NoBundle, Declaration
  <2>2. ASSUME NEW d \in Dest PROVE DestInv(d)'
    BY <1>15, <1>0, <2>1
       DEF VerifyCopyRefuses, EndRequest, SourceIdentityChanged, Stamp,
           NoPlan, DestInv, PlanShape, Skips, Deletes, Copies, Records,
           Marks, Heals, Honest
  <2> QED
    BY <2>1, <2>2
<1>16. ASSUME NEW e \in Dest, Sweep(e)
      PROVE  Rest' /\ \A d \in Dest : DestInv(d)'
  <2>1. TypeOK'
    <3>1. Absent \in Stamped
      BY DEF Absent, Stamped
    <3>2. file' \in [Dest -> Stamped] /\ plan' \in StagePlan
      BY <1>16, <1>0, <3>1 DEF Sweep, TypeOK, StagePlan
    <3> QED
      BY <1>16, <1>0, <3>2 DEF Sweep, TypeOK
  <2>2. Control'
    BY <1>16, <1>0, <2>1 DEF Sweep
  <2>3. ManifestDescribesConfig'
    BY <1>16, <1>0, <2>1 DEF Sweep, ManifestDescribesConfig
  <2>4. ASSUME NEW d \in Dest PROVE DestInv(d)'
    BY <1>16, <1>0, <2>1, <2>2, <2>3
       DEF Sweep, DestInv, PlanShape, Skips, Deletes, Copies, Records,
           Marks, Heals, Honest, Served, SameCore
  <2> QED
    BY <2>1, <2>2, <2>3, <2>4
<1>17. ASSUME DeletesDone PROVE Rest' /\ \A d \in Dest : DestInv(d)'
  <2>1. Rest'
    BY <1>17, <1>0 DEF DeletesDone, ManifestDescribesConfig
  <2>2. ASSUME NEW d \in Dest PROVE DestInv(d)'
    BY <1>17, <1>0, <2>1
       DEF DeletesDone, DestInv, PlanShape, Skips, Deletes, Copies, Records,
           Marks, Heals, Honest, Served, SameCore
  <2> QED
    BY <2>1, <2>2
<1>18. ASSUME FileOperationFails PROVE Rest' /\ \A d \in Dest : DestInv(d)'
  <2>1. Rest'
    BY <1>18, <1>0
       DEF FileOperationFails, EndRequest, NoPlan, ManifestDescribesConfig,
           StagePlan, Stamped, Absent, NoManifest, NoBundle, Declaration
  <2>2. ASSUME NEW d \in Dest PROVE DestInv(d)'
    BY <1>18, <1>0, <2>1
       DEF FileOperationFails, EndRequest, NoPlan, DestInv, PlanShape,
           Skips, Deletes, Copies, Records, Marks, Heals, Honest
  <2> QED
    BY <2>1, <2>2
<1>19. ASSUME CopiesDone PROVE Rest' /\ \A d \in Dest : DestInv(d)'
  <2>1. Rest'
    BY <1>19, <1>0 DEF CopiesDone, SameCore, ManifestDescribesConfig
  <2>2. ASSUME NEW d \in Dest PROVE DestInv(d)'
    BY <1>19, <1>0, <2>1
       DEF CopiesDone, SameCore, DestInv, PlanShape, Skips, Deletes, Copies,
           Records, Marks, Heals, Honest
  <2> QED
    BY <2>1, <2>2
<1>20. ASSUME CoreRestarted PROVE Rest' /\ \A d \in Dest : DestInv(d)'
  <2>1. Rest'
    BY <1>20, <1>0
       DEF CoreRestarted, EndRequest, NoPlan, SameCore,
           ManifestDescribesConfig, StagePlan, Stamped, Absent, NoManifest,
           NoBundle, Declaration
  <2>2. ASSUME NEW d \in Dest PROVE DestInv(d)'
    BY <1>20, <1>0, <2>1
       DEF CoreRestarted, EndRequest, NoPlan, SameCore, DestInv, PlanShape,
           Skips, Deletes, Copies, Records, Marks, Heals, Honest
  <2> QED
    BY <2>1, <2>2
<1>21. ASSUME WriteManifest PROVE Rest' /\ \A d \in Dest : DestInv(d)'
  <2>1. Rest'
    BY <1>21, <1>0
       DEF WriteManifest, ManifestDescribesConfig, NoPlan, StagePlan,
           Stamped, Absent, NoManifest, NoBundle, Declaration
  <2>2. ASSUME NEW d \in Dest PROVE DestInv(d)'
    BY <1>21, <1>0, <2>1
       DEF WriteManifest, DestInv, PlanShape, Skips, Deletes, Copies,
           Records, Marks, Heals, Honest, Served, SameCore, Absent
  <2> QED
    BY <2>1, <2>2
<1>22. ASSUME WriteConfig PROVE Rest' /\ \A d \in Dest : DestInv(d)'
  <2>1. TypeOK'
    BY <1>22, <1>0
       DEF WriteConfig, ManifestDescribesConfig, NoPlan, StagePlan, Stamped,
           Absent, NoManifest, NoBundle, Declaration
  <2>2. Control'
    BY <1>22, <1>0, <2>1 DEF WriteConfig
  <2>3. ManifestDescribesConfig'
    BY <1>22, <1>0, <2>1
       DEF WriteConfig, NoPlan, StagePlan, Stamped, Absent, NoManifest,
           NoBundle, Declaration, SameCore, ManifestDescribesConfig,
           DestInv, PlanShape, Records
  <2>4. ASSUME NEW d \in Dest PROVE DestInv(d)'
    BY <1>22, <1>0, <2>1, <2>2, <2>3
       DEF WriteConfig, DestInv, PlanShape, Skips, Deletes, Copies, Records,
           Heals, Served, Marks, Honest, SameCore, ManifestDescribesConfig,
           Absent, NoManifest, StagePlan, Stamped, Declaration
  <2> QED
    BY <2>1, <2>2, <2>3, <2>4
<1>23. ASSUME CommitFails PROVE Rest' /\ \A d \in Dest : DestInv(d)'
  <2>1. Rest'
    BY <1>23, <1>0 DEF CommitFails, ManifestDescribesConfig
  <2>2. ASSUME NEW d \in Dest PROVE DestInv(d)'
    BY <1>23, <1>0, <2>1
       DEF CommitFails, DestInv, PlanShape, Skips, Deletes, Copies, Records,
           Marks, Heals, Honest
  <2> QED
    BY <2>1, <2>2
<1>24. ASSUME DiscardManifest PROVE Rest' /\ \A d \in Dest : DestInv(d)'
  <2>1. Rest'
    BY <1>24, <1>0
       DEF DiscardManifest, EndRequest, NoPlan, ManifestDescribesConfig,
           StagePlan, Stamped, Absent, NoManifest, NoBundle, Declaration
  <2>2. ASSUME NEW d \in Dest PROVE DestInv(d)'
    BY <1>24, <1>0, <2>1
       DEF DiscardManifest, EndRequest, NoPlan, DestInv, PlanShape, Skips,
           Deletes, Copies, Records, Marks, Heals, Honest, Served, SameCore,
           Absent, ManifestDescribesConfig, NoManifest
  <2> QED
    BY <2>1, <2>2
<1>25. ASSUME DiscardFails PROVE Rest' /\ \A d \in Dest : DestInv(d)'
  <2>1. Rest'
    BY <1>25, <1>0
       DEF DiscardFails, EndRequest, NoPlan, ManifestDescribesConfig,
           StagePlan, Stamped, Absent, NoManifest, NoBundle, Declaration
  <2>2. ASSUME NEW d \in Dest PROVE DestInv(d)'
    BY <1>25, <1>0, <2>1
       DEF DiscardFails, EndRequest, NoPlan, DestInv, PlanShape, Skips,
           Deletes, Copies, Records, Marks, Heals, Honest
  <2> QED
    BY <2>1, <2>2
<1>26. ASSUME Staged PROVE Rest' /\ \A d \in Dest : DestInv(d)'
  <2>1. Rest'
    BY <1>26, <1>0
       DEF Staged, EndRequest, NoPlan, ManifestDescribesConfig, StagePlan,
           Stamped, Absent, NoManifest, NoBundle, Declaration
  <2>2. ASSUME NEW d \in Dest PROVE DestInv(d)'
    BY <1>26, <1>0, <2>1
       DEF Staged, EndRequest, NoPlan, DestInv, PlanShape, Skips, Deletes,
           Copies, Records, Marks, Heals, Honest
  <2> QED
    BY <2>1, <2>2
<1>27. ASSUME Materialized PROVE Rest' /\ \A d \in Dest : DestInv(d)'
  <2>1. Rest'
    BY <1>27, <1>0 DEF Materialized, ManifestDescribesConfig
  <2>2. ASSUME NEW d \in Dest PROVE DestInv(d)'
    BY <1>27, <1>0, <2>1
       DEF Materialized, DestInv, PlanShape, Skips, Deletes, Copies,
           Records, Marks, Heals, Honest, Served, SameCore
  <2> QED
    BY <2>1, <2>2
<1>28. ASSUME StartNewCore PROVE Rest' /\ \A d \in Dest : DestInv(d)'
  <2>1. Rest'
    BY <1>28, <1>0, LoadFacts
       DEF StartNewCore, EndRequest, NoPlan, ManifestDescribesConfig,
           StagePlan, Stamped, Absent, NoManifest, NoBundle, Declaration
  <2>2. ASSUME NEW d \in Dest PROVE DestInv(d)'
    BY <1>28, <1>0, <2>1, LoadFacts
       DEF StartNewCore, EndRequest, NoPlan, DestInv, PlanShape, Skips,
           Deletes, Copies, Records, Marks, Heals, Honest
  <2> QED
    BY <2>1, <2>2
<1>29. ASSUME UNCHANGED vars PROVE Rest' /\ \A d \in Dest : DestInv(d)'
  <2>1. Rest'
    BY <1>29, <1>0 DEF vars, ManifestDescribesConfig
  <2>2. ASSUME NEW d \in Dest PROVE DestInv(d)'
    BY <1>29, <1>0
       DEF vars, DestInv, PlanShape, Skips, Deletes, Copies, Records, Marks,
           Heals, Honest, Served, SameCore
  <2> QED
    BY <2>1, <2>2
<1> QED
  BY <1>1, <1>2, <1>3, <1>4, <1>5, <1>6, <1>7, <1>8, <1>9, <1>10, <1>11,
     <1>12, <1>13, <1>14, <1>15, <1>16, <1>17, <1>18, <1>19, <1>20, <1>21,
     <1>22, <1>23, <1>24, <1>25, <1>26, <1>27, <1>28, <1>29
     DEF Next, Environment, Begin, Write, IInv

(* The invariant holds of every reachable state. *)
LEMMA Inductive == Spec => []IInv
BY InitIInv, NextIInv, PTL DEF Spec

-----------------------------------------------------------------------------
(* Every reachable state has its types. *)
THEOREM TypeCorrect == Spec => []TypeOK
<1>1. IInv => TypeOK
  BY DEF IInv
<1> QED
  BY Inductive, <1>1, PTL

(* The manifest tells the truth of every file that no interrupted request   *)
(* and no core loading in the window has touched.                           *)
THEOREM ManifestIsHonest == Spec => []HonestManifest
<1>1. IInv => HonestManifest
  BY DEF IInv, DestInv, Marks, HonestManifest
<1> QED
  BY Inductive, <1>1, PTL

(* A manifest that is not ahead describes the configuration on disk. *)
THEOREM ManifestIsOfConfig == Spec => []ManifestDescribesConfig
<1>1. IInv => ManifestDescribesConfig
  BY DEF IInv
<1> QED
  BY Inductive, <1>1, PTL

(* A request with the bundle of the failed one repairs what it left. *)
THEOREM RetryHeals == Spec => []FallbackHeals
<1>1. IInv => FallbackHeals
  BY DEF IInv, DestInv, Heals, FallbackHeals
<1> QED
  BY Inductive, <1>1, PTL

(* The file is one that config.yaml declares: a copy of its asset, or the   *)
(* download cache of its url, if it is there.                               *)
AsConfigured(d) ==
    /\ config[d] \in Source => file[d].from = config[d]
    /\ config[d] \in Url => file[d].from \in {config[d], Nothing}

(* What the watchdog and the boot rely on, who load config.yaml without     *)
(* looking at the manifest: unless a commit was cut or could not be         *)
(* discarded, every recorded file that no interrupted request and no core   *)
(* loading in the window has touched is one that config.yaml declares, at   *)
(* every moment of a request, and not only when it commits.                 *)
RestartsAreServed ==
    ~ahead => \A d \in Dest :
                  manifest[d].from # Nothing /\ suspect[d] = {} => AsConfigured(d)

THEOREM RestartsServed == Spec => []RestartsAreServed
<1>1. HonestManifest /\ ManifestDescribesConfig => RestartsAreServed
  BY NothingAssumption DEF HonestManifest, ManifestDescribesConfig, Honest,
     RestartsAreServed, AsConfigured
<1> QED
  BY <1>1, ManifestIsHonest, ManifestIsOfConfig, PTL

-----------------------------------------------------------------------------
(* How much of a request is left: its phases, and the file operations of    *)
(* its plan, where a copy counts twice, to be made and to be verified.      *)
Phase(at) ==
    CASE at = "stopping"   -> 7  [] at = "deleting" -> 6  [] at = "copying" -> 5
      [] at = "recording"  -> 4  [] at = "committing" -> 3
      [] at \in {"sweeping", "discarding"} -> 2
      [] at = "starting"   -> 1  [] at = "idle" -> 0

Operations == Cardinality(plan.deletes) + 2 * Cardinality(plan.copies)
              + Cardinality(plan.sweeps) - (IF copying = Nothing THEN 0 ELSE 1)

StepsLeft == Phase(pc) + Operations

StepsAreBounded == StepsLeft \in 0..(7 + 2 * Cardinality(Dest))

StepsAreUsed == /\ Write => StepsLeft' < StepsLeft
                /\ Environment => StepsLeft' <= StepsLeft

IdlePlan == pc = "idle" => plan = NoPlan

LEMMA IdlePlanStep == TypeOK /\ IdlePlan /\ [Next]_vars => IdlePlan'
<1> SUFFICES ASSUME TypeOK, IdlePlan, [Next]_vars PROVE IdlePlan'
  OBVIOUS
<1> USE DEF IdlePlan, EndRequest, reqVars
<1>1. CASE Environment
  BY <1>1 DEF Environment, SourceChanges, ClientReloads, CoreExits,
     WatchdogRestarts, OwnerStops, Crash, Boot
<1>2. CASE Begin
  BY <1>2 DEF Begin, BeginStage, BeginStart
<1>3. CASE Write
  BY <1>3 DEF Write, StopPreviousCore, StopPreviousCoreFails, DeleteStale,
     CopyAsset, VerifyCopy, VerifyCopyRefuses, Sweep, DeletesDone,
     FileOperationFails, CopiesDone, CoreRestarted, WriteManifest, WriteConfig,
     CommitFails, DiscardManifest, DiscardFails, Staged, Materialized,
     StartNewCore
<1>4. CASE UNCHANGED vars
  BY <1>4 DEF vars
<1> QED
  BY <1>1, <1>2, <1>3, <1>4 DEF Next

(* What is left of a plan is finite. *)
LEMMA PlanIsFinite ==
  ASSUME TypeOK, IsFiniteSet(Dest)
  PROVE  /\ plan.deletes \subseteq Dest /\ IsFiniteSet(plan.deletes)
         /\ plan.copies \subseteq Dest /\ IsFiniteSet(plan.copies)
         /\ plan.sweeps \subseteq Dest /\ IsFiniteSet(plan.sweeps)
         /\ Cardinality(plan.deletes) \in Nat
         /\ Cardinality(plan.copies) \in Nat
         /\ Cardinality(plan.sweeps) \in Nat
         /\ Cardinality(Dest) \in Nat
<1>1. /\ plan.deletes \in SUBSET Dest /\ plan.copies \in SUBSET Dest
      /\ plan.sweeps \in SUBSET Dest
  BY DEF TypeOK, StagePlan
<1> QED
  BY <1>1, FS_Subset, FS_CardinalityType

LEMMA DisjointUnion ==
  ASSUME NEW A, NEW B, IsFiniteSet(A), IsFiniteSet(B), A \cap B = {}
  PROVE  /\ IsFiniteSet(A \cup B)
         /\ Cardinality(A \cup B) = Cardinality(A) + Cardinality(B)
<1>1. Cardinality(A) \in Nat /\ Cardinality(B) \in Nat
  BY FS_CardinalityType
<1>2. /\ IsFiniteSet(A \cup B)
      /\ Cardinality(A \cup B) = Cardinality(A) + Cardinality(B)
                                  - Cardinality(A \cap B)
  BY FS_Union
<1>3. Cardinality(A \cap B) = 0
  BY FS_EmptySet
<1> QED
  BY <1>1, <1>2, <1>3

(* No destination is in two parts of a plan. *)
LEMMA StepsBounded ==
  ASSUME IInv, IdlePlan, IsFiniteSet(Dest) PROVE StepsAreBounded
<1> DEFINE D == plan.deletes
           C == plan.copies
           S == plan.sweeps
<1>1. TypeOK /\ Control
  BY DEF IInv
<1>2. D \cap C = {} /\ (D \cup C) \cap S = {}
  <2>1. CASE pc = "idle"
    BY <2>1 DEF IdlePlan, NoPlan
  <2>2. CASE pc # "idle"
    <3>1. \A d \in Dest : /\ d \in D => plan.bundle[d] \in Url
                          /\ d \in C => plan.bundle[d] \in Source
                          /\ d \in S => plan.bundle[d] = Nothing
      BY <2>2 DEF IInv, DestInv, PlanShape
    <3> QED
      BY <1>1, <3>1, PlanIsFinite, KindAssumption, NothingAssumption
  <2> QED
    BY <2>1, <2>2
<1>3. /\ IsFiniteSet(D) /\ IsFiniteSet(C) /\ IsFiniteSet(S)
      /\ D \subseteq Dest /\ C \subseteq Dest /\ S \subseteq Dest
      /\ Cardinality(D) \in Nat /\ Cardinality(C) \in Nat
      /\ Cardinality(S) \in Nat /\ Cardinality(Dest) \in Nat
  BY <1>1, PlanIsFinite
<1>4. /\ IsFiniteSet(D \cup C)
      /\ Cardinality(D \cup C) = Cardinality(D) + Cardinality(C)
  BY <1>2, <1>3, DisjointUnion
<1>5. Cardinality((D \cup C) \cup S) = Cardinality(D) + Cardinality(C) + Cardinality(S)
  BY <1>2, <1>3, <1>4, DisjointUnion
<1>6. Cardinality((D \cup C) \cup S) <= Cardinality(Dest)
  <2>1. (D \cup C) \cup S \in SUBSET Dest
    BY <1>3
  <2> QED
    BY <2>1, FS_Subset
<1>7. Cardinality(C) <= Cardinality(Dest)
  BY <1>3, FS_Subset
<1>8. copying # Nothing => Cardinality(C) >= 1
  <2>1. copying # Nothing => C # {}
    BY <1>1 DEF Control
  <2> QED
    BY <1>3, <2>1, FS_EmptySet
<1>9. Phase(pc) \in 0..7
  BY <1>1 DEF TypeOK, Pcs, Phase
<1> HIDE DEF D, C, S
<1>10. Operations = Cardinality(D) + 2 * Cardinality(C) + Cardinality(S)
                    - (IF copying = Nothing THEN 0 ELSE 1)
  BY DEF Operations, D, C, S
<1> QED
  BY <1>3, <1>5, <1>6, <1>7, <1>8, <1>9, <1>10 DEF StepsAreBounded, StepsLeft

LEMMA StepsUsed ==
  ASSUME IInv, IInv', IsFiniteSet(Dest), IdlePlan, IdlePlan', [Next]_vars
  PROVE  StepsAreUsed
<1>1. TypeOK /\ Control /\ TypeOK' /\ Control'
  BY DEF IInv
<1>2. /\ Cardinality(plan.deletes) \in Nat /\ Cardinality(plan.copies) \in Nat
      /\ Cardinality(plan.sweeps) \in Nat
      /\ IsFiniteSet(plan.deletes) /\ IsFiniteSet(plan.copies)
      /\ IsFiniteSet(plan.sweeps)
  BY <1>1, PlanIsFinite
<1>3. Operations \in Nat
  <2>1. copying # Nothing => Cardinality(plan.copies) >= 1
    BY <1>1, <1>2, FS_EmptySet DEF Control
  <2> QED
    BY <1>2, <2>1 DEF Operations
<1>4. Operations' \in Int /\ Operations \in Int
  <2>1. (Operations \in Nat)'
    <3>1. /\ Cardinality(plan'.deletes) \in Nat /\ Cardinality(plan'.copies) \in Nat
          /\ Cardinality(plan'.sweeps) \in Nat
          /\ IsFiniteSet(plan'.copies)
      <4>1. /\ plan'.deletes \in SUBSET Dest /\ plan'.copies \in SUBSET Dest
            /\ plan'.sweeps \in SUBSET Dest
        BY <1>1 DEF TypeOK, StagePlan
      <4> QED
        BY <4>1, FS_Subset, FS_CardinalityType
    <3>2. copying' # Nothing => Cardinality(plan'.copies) >= 1
      BY <1>1, <3>1, FS_EmptySet DEF Control
    <3> QED
      BY <3>1, <3>2 DEF Operations
  <2> QED
    BY <1>3, <2>1
(* A request that ends gives up all that is left. *)
<1>5. ASSUME EndRequest PROVE Operations' = 0 /\ Phase(pc') = 0
  BY <1>5, FS_EmptySet DEF EndRequest, Operations, NoPlan, Phase
<1>6. ASSUME UNCHANGED <<plan, copying>> PROVE Operations' = Operations
  BY <1>6 DEF Operations
<1>7. Phase(pc) \in Nat /\ Phase(pc') \in Nat /\ (pc # "idle" => Phase(pc) > 0)
  BY <1>1 DEF TypeOK, Pcs, Phase
<1>8. ASSUME EndRequest, pc # "idle" PROVE StepsLeft' < StepsLeft
  BY <1>3, <1>5, <1>7, <1>8 DEF StepsLeft
<1>9. ASSUME UNCHANGED <<plan, copying>>, Phase(pc') < Phase(pc)
      PROVE  StepsLeft' < StepsLeft
  BY <1>3, <1>6, <1>7, <1>9 DEF StepsLeft
<1>10. ASSUME UNCHANGED pc, Operations' = Operations - 1
       PROVE  StepsLeft' < StepsLeft
  BY <1>3, <1>7, <1>10 DEF StepsLeft
<1>11. Environment => StepsLeft' <= StepsLeft
  <2>1. CASE Crash
    BY <1>3, <1>5, <1>7, <2>1 DEF Crash, StepsLeft
  <2>2. CASE UNCHANGED reqVars
    BY <1>3, <1>6, <1>7, <2>2 DEF reqVars, StepsLeft
  <2> QED
    BY <2>1, <2>2 DEF Environment, SourceChanges, ClientReloads, CoreExits,
       WatchdogRestarts, OwnerStops, Boot
<1>12. Write => StepsLeft' < StepsLeft
  <2>1. ASSUME NEW d \in Dest, DeleteStale(d) PROVE StepsLeft' < StepsLeft
    <3>1. /\ plan'.deletes = plan.deletes \ {d} /\ plan'.copies = plan.copies
          /\ plan'.sweeps = plan.sweeps /\ UNCHANGED <<copying, pc>>
          /\ d \in plan.deletes
      BY <1>1, <2>1 DEF DeleteStale, TypeOK, StagePlan
    <3>2. Cardinality(plan'.deletes) = Cardinality(plan.deletes) - 1
      BY <1>2, <3>1, FS_RemoveElement
    <3> QED
      BY <1>2, <1>10, <3>1, <3>2 DEF Operations
  <2>2. ASSUME NEW d \in Dest, CopyAsset(d) PROVE StepsLeft' < StepsLeft
    <3>1. d # Nothing
      BY NothingAssumption
    <3> QED
      BY <1>2, <1>10, <2>2, <3>1 DEF CopyAsset, Operations
  <2>3. ASSUME NEW d \in Dest, VerifyCopy(d) PROVE StepsLeft' < StepsLeft
    <3>1. d # Nothing /\ d \in plan.copies
      BY <1>1, <2>3, NothingAssumption DEF VerifyCopy, Control
    <3>2. /\ plan'.copies = plan.copies \ {d} /\ plan'.deletes = plan.deletes
          /\ plan'.sweeps = plan.sweeps /\ copying = d /\ copying' = Nothing
          /\ UNCHANGED pc
      BY <1>1, <2>3 DEF VerifyCopy, TypeOK, StagePlan
    <3>3. Cardinality(plan'.copies) = Cardinality(plan.copies) - 1
      BY <1>2, <3>1, <3>2, FS_RemoveElement
    <3> QED
      BY <1>2, <1>10, <3>1, <3>2, <3>3 DEF Operations
  <2>4. ASSUME NEW d \in Dest, Sweep(d) PROVE StepsLeft' < StepsLeft
    <3>1. /\ plan'.sweeps = plan.sweeps \ {d} /\ plan'.copies = plan.copies
          /\ plan'.deletes = plan.deletes /\ UNCHANGED <<copying, pc>>
          /\ d \in plan.sweeps
      BY <1>1, <2>4 DEF Sweep, TypeOK, StagePlan
    <3>2. Cardinality(plan'.sweeps) = Cardinality(plan.sweeps) - 1
      BY <1>2, <3>1, FS_RemoveElement
    <3> QED
      BY <1>2, <1>10, <3>1, <3>2 DEF Operations
  <2>5. CASE \/ StopPreviousCoreFails \/ (\E d \in Dest : VerifyCopyRefuses(d))
             \/ FileOperationFails \/ CoreRestarted \/ DiscardManifest
             \/ DiscardFails \/ Staged \/ StartNewCore
    BY <1>8, <2>5 DEF StopPreviousCoreFails, VerifyCopyRefuses,
       FileOperationFails, CoreRestarted, DiscardManifest, DiscardFails, Staged,
       StartNewCore
  <2>6. CASE \/ StopPreviousCore \/ DeletesDone \/ CopiesDone \/ WriteManifest
             \/ WriteConfig \/ CommitFails \/ Materialized
    BY <1>9, <2>6 DEF StopPreviousCore, DeletesDone, CopiesDone, WriteManifest,
       WriteConfig, CommitFails, Materialized, Phase
  <2> QED
    BY <2>1, <2>2, <2>3, <2>4, <2>5, <2>6 DEF Write
<1> QED
  BY <1>11, <1>12 DEF StepsAreUsed

(* Whatever it plans, a request that holds OWNER_LIFECYCLE_LOCK ends: it    *)
(* takes no more than 7 steps and two for each destination, each of them    *)
(* brings its end closer, and neither the watchdog nor a source replaced    *)
(* under it ever makes it start over or copy a file again.                  *)
THEOREM RequestsEnd ==
  ASSUME IsFiniteSet(Dest)
  PROVE  Spec => []StepsAreBounded /\ [][StepsAreUsed]_vars
<1>1. Init => IdlePlan
  BY DEF Init, IdlePlan
<1>2. IInv => TypeOK
  BY DEF IInv
<1>3. Spec => []IdlePlan
  BY <1>1, <1>2, IdlePlanStep, Inductive, PTL DEF Spec
<1>4. IInv /\ IdlePlan => StepsAreBounded
  BY StepsBounded
<1>5. IInv /\ IInv' /\ IdlePlan /\ IdlePlan' /\ [Next]_vars => [StepsAreUsed]_vars
  BY StepsUsed
<1> QED
  BY <1>3, <1>4, <1>5, Inductive, PTL DEF Spec

-----------------------------------------------------------------------------
(* AssetsAreDeclared does not hold, because of what a request with another  *)
(* bundle copied before it gave up.  That is its only cause.                *)
OtherBundles == Bundle \ {plan.bundle}

AssetsUntouchedByOthers ==
    Committed => \A d \in Dest :
        plan.wanted[d].from \in Source /\ suspect[d] \cap OtherBundles = {} =>
            file[d].from = plan.wanted[d].from

(* A recorded copy that is not there was replaced by a request whose bundle *)
(* asks for something else, or by several.                                  *)
AssetMark(d) ==
    manifest[d].from \in Source =>
        \A b \in Bundle : suspect[d] \subseteq {b, Nothing} =>
            file[d].from = manifest[d].from \/ manifest[d].from # b[d]

AssetMarks == \A d \in Dest : AssetMark(d)

LEMMA LoadAssetMarks ==
  ASSUME TypeOK, AssetMarks, Load, UNCHANGED manifest
  PROVE  AssetMarks'
<1> SUFFICES ASSUME NEW d \in Dest PROVE AssetMark(d)'
  BY DEF AssetMarks
<1>1. /\ file'[d] = file[d] \/ file[d] = Absent
      /\ suspect'[d] \in {suspect[d], suspect[d] \cup {Nothing}}
  BY DEF Load, TypeOK
<1>2. AssetMark(d)
  BY DEF AssetMarks
<1> QED
  BY <1>1, <1>2, NothingAssumption DEF AssetMark, Absent

LEMMA AssetMarksStep == IInv /\ AssetMarks /\ [Next]_vars => AssetMarks'
<1> SUFFICES ASSUME IInv, AssetMarks, [Next]_vars PROVE AssetMarks'
  OBVIOUS
<1>1. TypeOK /\ Control /\ \A d \in Dest : DestInv(d)
  BY DEF IInv
<1>2. ASSUME UNCHANGED <<file, manifest, suspect>> PROVE AssetMarks'
  BY <1>2 DEF AssetMarks, AssetMark
<1>3. CASE Environment
  BY <1>1, <1>2, <1>3, LoadAssetMarks DEF Environment, SourceChanges,
     ClientReloads, CoreExits, WatchdogRestarts, OwnerStops, Crash, Boot,
     diskVars, histVars
<1>4. CASE Begin
  BY <1>2, <1>4 DEF Begin, BeginStage, BeginStart, diskVars, histVars
<1>5. CASE Write
  <2>1. ASSUME NEW d \in Dest, DeleteStale(d) PROVE AssetMarks'
    <3>1. plan.bundle[d] \in Url /\ plan.bundle \in Bundle
      BY <1>1, <2>1 DEF DeleteStale, DestInv, PlanShape, Control
    <3>2. AssetMark(d)'
      BY <1>1, <2>1, <3>1, NothingAssumption, KindAssumption, BundleAssumption
      DEF DeleteStale, AssetMark, TypeOK
    <3>3. ASSUME NEW e \in Dest, e # d PROVE AssetMark(e)'
      BY <1>1, <2>1, <3>3 DEF DeleteStale, AssetMarks, AssetMark, TypeOK
    <3> QED
      BY <3>2, <3>3 DEF AssetMarks
  <2>2. ASSUME NEW d \in Dest, CopyAsset(d) PROVE AssetMarks'
    <3>1. plan.bundle[d] \in Source /\ plan.bundle \in Bundle
      BY <1>1, <2>2 DEF CopyAsset, DestInv, PlanShape, Control
    <3>2. AssetMark(d)'
      <4>1. file'[d].from = plan.bundle[d] /\ manifest' = manifest
        BY <1>1, <2>2 DEF CopyAsset, TypeOK
      <4>2. CASE manifest[d] = Absent
        BY <4>1, <4>2, NothingAssumption DEF AssetMark, Absent
      <4>3. CASE manifest[d] # Absent
        <5>1. plan.bundle \in suspect'[d] /\ plan.bundle # Nothing
          BY <1>1, <2>2, <3>1, <4>3, BundleAssumption DEF CopyAsset, TypeOK
        <5> QED
          BY <4>1, <5>1 DEF AssetMark
      <4> QED
        BY <4>2, <4>3
    <3>3. ASSUME NEW e \in Dest, e # d PROVE AssetMark(e)'
      BY <1>1, <2>2, <3>3 DEF CopyAsset, AssetMarks, AssetMark, TypeOK
    <3> QED
      BY <3>2, <3>3 DEF AssetMarks
  <2>3. CASE WriteManifest
    <3> SUFFICES ASSUME NEW d \in Dest PROVE AssetMark(d)'
      BY DEF AssetMarks
    <3>1. DestInv(d) /\ AssetMark(d) /\ pc = "recording"
      BY <1>1, <2>3 DEF AssetMarks, WriteManifest
    <3>2. /\ manifest'[d] = plan.record[d] /\ file'[d] = file[d]
          /\ plan.record[d] # Absent /\ d \notin plan.settled =>
                suspect'[d] = suspect[d]
      BY <2>3 DEF WriteManifest, TypeOK
    <3>3. CASE plan.record[d] = Absent
      BY <3>2, <3>3, NothingAssumption DEF AssetMark, Absent
    <3>4. CASE plan.bundle[d] \notin Source /\ plan.record[d] # Absent
      BY <3>1, <3>2, <3>4 DEF AssetMark, DestInv, PlanShape
    <3>5. CASE plan.bundle[d] \in Source /\ d \in plan.settled
               /\ plan.record[d] # Absent
      <4>1. file[d].from = plan.bundle[d]
        BY <1>1, <3>1, <3>5 DEF DestInv, Copies, Copied, Control
      <4>2. plan.record[d].from = plan.bundle[d]
        BY <3>1, <3>5 DEF DestInv, PlanShape
      <4> QED
        BY <3>2, <4>1, <4>2 DEF AssetMark
    <3>6. CASE plan.bundle[d] \in Source /\ d \notin plan.settled
               /\ plan.record[d] # Absent
      <4>1. manifest[d] = plan.wanted[d] /\ plan.record[d] = plan.wanted[d]
        BY <3>1, <3>6, NothingAssumption
        DEF DestInv, Skips, Planned, PlanShape
      <4> QED
        BY <3>1, <3>2, <3>6, <4>1 DEF AssetMark
    <3> QED
      BY <3>3, <3>4, <3>5, <3>6
  <2>4. CASE DiscardManifest
    BY <2>4, NothingAssumption
    DEF DiscardManifest, NoManifest, Absent, AssetMarks, AssetMark
  <2>5. ASSUME NEW d \in Dest, Sweep(d) PROVE AssetMarks'
    <3>1. manifest[d].from \notin Source
      BY <1>1, <2>5, NothingAssumption
      DEF Sweep, DestInv, Records, Recorded, PlanShape, Absent
    <3>2. \A e \in Dest : e # d => file'[e] = file[e]
      BY <1>1, <2>5 DEF Sweep, TypeOK
    <3>3. UNCHANGED <<manifest, suspect>>
      BY <2>5 DEF Sweep, histVars
    <3> QED
      BY <3>1, <3>2, <3>3 DEF AssetMarks, AssetMark
  <2>6. CASE StartNewCore
    BY <1>1, <2>6, LoadAssetMarks DEF StartNewCore
  <2>7. CASE \/ StopPreviousCore \/ StopPreviousCoreFails \/ DeletesDone
             \/ (\E d \in Dest : VerifyCopy(d) \/ VerifyCopyRefuses(d))
             \/ FileOperationFails \/ CopiesDone \/ CoreRestarted \/ WriteConfig
             \/ CommitFails \/ DiscardFails \/ Staged \/ Materialized
    BY <1>2, <2>7 DEF StopPreviousCore, StopPreviousCoreFails, DeletesDone,
       VerifyCopy, VerifyCopyRefuses, FileOperationFails, CopiesDone,
       CoreRestarted, WriteConfig, CommitFails, DiscardFails, Staged,
       Materialized, diskVars, histVars
  <2> QED
    BY <1>5, <2>1, <2>2, <2>3, <2>4, <2>5, <2>6, <2>7 DEF Write
<1>6. CASE UNCHANGED vars
  BY <1>2, <1>6 DEF vars, diskVars, histVars
<1> QED
  BY <1>3, <1>4, <1>5, <1>6 DEF Next

LEMMA AssetsAreOurs ==
  ASSUME IInv, AssetMarks PROVE AssetsUntouchedByOthers
<1> SUFFICES ASSUME Committed, NEW d \in Dest, plan.wanted[d].from \in Source,
                    suspect[d] \cap OtherBundles = {}
             PROVE  file[d].from = plan.wanted[d].from
  BY DEF AssetsUntouchedByOthers
<1>1. /\ TypeOK /\ Control /\ DestInv(d) /\ AssetMark(d)
      /\ pc \in Recorded /\ pc \in Copied /\ pc # "idle"
  BY DEF IInv, AssetMarks, Committed, Recorded, Copied
<1>2. /\ plan.bundle \in Bundle /\ plan.wanted[d].from = plan.bundle[d]
      /\ plan.bundle[d] \in Source /\ plan.copies = {}
  BY <1>1 DEF Control, DestInv, PlanShape
<1>3. CASE d \in plan.settled
  BY <1>1, <1>2, <1>3 DEF DestInv, Copies
<1>4. CASE d \notin plan.settled
  <2>1. manifest[d] = plan.wanted[d]
    BY <1>1, <1>4 DEF DestInv, Records, PlanShape
  <2>2. suspect[d] \subseteq {plan.bundle, Nothing}
    BY <1>1 DEF TypeOK, OtherBundles
  <2> QED
    BY <1>1, <1>2, <2>1, <2>2 DEF AssetMark
<1> QED
  BY <1>3, <1>4

(* An asset of a committed bundle is not the one it declares only if a      *)
(* request with another bundle had replaced it, or deleted it, and then     *)
(* given up with the manifest unchanged.  No source replaced meanwhile, no  *)
(* core that loads under a manifest ahead of its configuration, no crash    *)
(* and no earlier failure of the same bundle has that effect.               *)
THEOREM AssetsOnlyWrongByOthers == Spec => []AssetsUntouchedByOthers
<1>1. Init => AssetMarks
  BY NothingAssumption DEF Init, AssetMarks, AssetMark, NoManifest, Absent
<1>2. IInv /\ AssetMarks => AssetsUntouchedByOthers
  BY AssetsAreOurs
<1> QED
  BY <1>1, <1>2, AssetMarksStep, Inductive, PTL DEF Spec
=============================================================================
