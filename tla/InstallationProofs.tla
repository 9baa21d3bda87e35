-------------------------- MODULE InstallationProofs --------------------------
(***************************************************************************)
(* Proofs about Installation: what its run checks for two installers and   *)
(* three versions holds for any number of both.                            *)
(***************************************************************************)
EXTENDS Installation, TLAPS

(* The part of an installation after each of its milestones. *)
AfterStop    == {"publishing", "registering", "writing", "loading", "starting"}
AfterPublish == {"registering", "writing", "loading", "starting", "waiting"}

(* Where the service manager does not keep the service.  On Windows a       *)
(* restart may be due until the entry is gone, on macOS halting comes after *)
(* disabling.                                                              *)
AtRest(i) ==
    \/ pc[i] \in AfterStop /\ platform # "windows"
    \/ pc[i] = "disabling" /\ platform = "linux"
    \/ pc[i] = "unregistering" /\ platform # "windows"
    \/ pc[i] = "removing"

(* Who is at work holds the gate, and then no outcome is claimed. *)
Gated ==
    /\ \A i \in Installer : pc[i] # "idle" => gate = i
    /\ gate # None => outcome.kind = "none"

(* What an installer publishes is the candidate it staged and compared, not *)
(* that of another one at the same path.                                   *)
StagedIsOwn ==
    \A i \in Installer :
        pc[i] \in {"stopping", "publishing"} => staged = offer[i]

(* An installer has published its own version by then. *)
Published ==
    \A i \in Installer :
        /\ pc[i] \in Installs => offer[i] \in Version
        /\ pc[i] \in AfterPublish => target = offer[i]

(* What has been made of the registration. *)
Registered ==
    /\ platform = "windows" => enabled
    /\ \A i \in Installer :
           /\ pc[i] = "writing" => unit = "torn"
           /\ pc[i] = "loading" => unit = "written"
           /\ pc[i] \in {"starting", "waiting"} => unit = "written" /\ enabled
           /\ pc[i] = "disabling" => platform # "windows"
           /\ pc[i] = "removing" => unit = "none"

(* Nothing runs after a stop, and nothing old after a publication. *)
Quiet ==
    /\ running # None => kept
    /\ ~unstopped =>
           /\ \A i \in Installer :
                  /\ AtRest(i) => ~kept
                  /\ pc[i] \in AfterPublish => running \in {None, offer[i]}
           /\ outcome.kind = "removed" => ~kept

(* A standing installation is not being removed and lacks nothing. *)
Standing ==
    /\ \A i \in Installer : pc[i] \in Removes => ~standing
    /\ standing => target # None /\ unit # "none" /\ enabled

IInv ==
    /\ TypeOK /\ StagedIsOwn /\ RegistrationHasBinary /\ UpgradeIsBootable
    /\ OutcomeHolds /\ Gated /\ Published /\ Registered /\ Quiet /\ Standing

USE NullAssumption, ServesAssumption

(* The initial states satisfy the inductive invariant. *)
LEMMA InitIInv == Init => IInv
<1> SUFFICES ASSUME Init PROVE IInv
  OBVIOUS
<1>1. enabled \in BOOLEAN /\ (platform = "windows" => enabled)
  BY DEF Init
<1>2. TypeOK
  BY <1>1 DEF Init, TypeOK, NoOutcome, Platforms, Installs, Removes
<1>3. StagedIsOwn /\ RegistrationHasBinary /\ UpgradeIsBootable /\ OutcomeHolds
  BY DEF Init, StagedIsOwn, RegistrationHasBinary, UpgradeIsBootable,
         OutcomeHolds, NoOutcome
<1>4. Gated /\ Published /\ Quiet /\ Standing
  BY DEF Init, Gated, Published, Quiet, Standing, NoOutcome, Installs, Removes,
         AfterStop, AfterPublish, AtRest
<1>5. Registered
  BY <1>1 DEF Init, Registered
<1> QED
  BY <1>2, <1>3, <1>4, <1>5 DEF IInv

(* Taking the gate to install preserves the invariant. *)
LEMMA EnterInstallerIInv ==
  ASSUME NEW i \in Installer, NEW v \in Version, IInv, EnterInstaller(i, v)
  PROVE  IInv'
<1>1. TypeOK'
  BY DEF IInv, EnterInstaller, NoOutcome, TypeOK, Platforms, Installs,
         Removes, StagedIsOwn, Published, fileVars, serviceVars
<1>2. Gated'
  BY DEF IInv, EnterInstaller, NoOutcome, TypeOK, Gated, fileVars, serviceVars
<1>3. (StagedIsOwn /\ Published)'
  BY DEF IInv, EnterInstaller, NoOutcome, TypeOK, StagedIsOwn, Published,
         Gated, Installs, AfterPublish, fileVars, serviceVars
<1>4. (Registered /\ RegistrationHasBinary)'
  BY DEF IInv, EnterInstaller, NoOutcome, TypeOK, Registered,
         RegistrationHasBinary, Published, Gated, Installs, AfterPublish,
         fileVars, serviceVars
<1>5. (Standing /\ UpgradeIsBootable)'
  BY DEF IInv, EnterInstaller, NoOutcome, TypeOK, Standing, UpgradeIsBootable,
         Registered, Published, Gated, Installs, Removes, AfterPublish,
         fileVars, serviceVars
<1>6. (OutcomeHolds /\ Quiet)'
  BY DEF IInv, EnterInstaller, NoOutcome, TypeOK, OutcomeHolds, Quiet,
         Registered, Published, Gated, AfterStop, AtRest, AfterPublish,
         Installs, fileVars, serviceVars
<1> QED
  BY <1>1, <1>2, <1>3, <1>4, <1>5, <1>6 DEF IInv

(* Taking the gate to uninstall preserves the invariant. *)
LEMMA EnterUninstallerIInv ==
  ASSUME NEW i \in Installer, IInv, EnterUninstaller(i)
  PROVE  IInv'
<1>1. TypeOK'
  BY DEF IInv, EnterUninstaller, NoOutcome, TypeOK, Platforms, Installs,
         Removes, StagedIsOwn, Published, fileVars, serviceVars
<1>2. Gated'
  BY DEF IInv, EnterUninstaller, NoOutcome, TypeOK, Gated, fileVars,
         serviceVars
<1>3. (StagedIsOwn /\ Published)'
  BY DEF IInv, EnterUninstaller, NoOutcome, TypeOK, StagedIsOwn, Published,
         Gated, Installs, AfterPublish, fileVars, serviceVars
<1>4. (Registered /\ RegistrationHasBinary)'
  BY DEF IInv, EnterUninstaller, NoOutcome, TypeOK, Registered,
         RegistrationHasBinary, Published, Gated, Installs, AfterPublish,
         fileVars, serviceVars
<1>5. (Standing /\ UpgradeIsBootable)'
  BY DEF IInv, EnterUninstaller, NoOutcome, TypeOK, Standing,
         UpgradeIsBootable, Registered, Published, Gated, Installs, Removes,
         AfterPublish, fileVars, serviceVars
<1>6. (OutcomeHolds /\ Quiet)'
  BY DEF IInv, EnterUninstaller, NoOutcome, TypeOK, OutcomeHolds, Quiet,
         Registered, Published, Gated, AfterStop, AtRest, AfterPublish,
         Installs, fileVars, serviceVars
<1> QED
  BY <1>1, <1>2, <1>3, <1>4, <1>5, <1>6 DEF IInv

(* An error return or a kill preserves the invariant. *)
LEMMA AbortIInv ==
  ASSUME NEW i \in Installer, IInv, Abort(i)
  PROVE  IInv'
<1>1. TypeOK'
  BY DEF IInv, Abort, Leave, TypeOK, Platforms, Installs, Removes,
         StagedIsOwn, Published, fileVars, serviceVars, history
<1>2. Gated'
  BY DEF IInv, Abort, Leave, TypeOK, Gated, fileVars, serviceVars, history
<1>3. (StagedIsOwn /\ Published)'
  BY DEF IInv, Abort, Leave, TypeOK, StagedIsOwn, Published, Gated, Installs,
         AfterPublish, fileVars, serviceVars, history
<1>4. (Registered /\ RegistrationHasBinary)'
  BY DEF IInv, Abort, Leave, TypeOK, Registered, RegistrationHasBinary,
         Published, Gated, Installs, AfterPublish, fileVars, serviceVars,
         history
<1>5. (Standing /\ UpgradeIsBootable)'
  BY DEF IInv, Abort, Leave, TypeOK, Standing, UpgradeIsBootable, Registered,
         Published, Gated, Installs, Removes, AfterPublish, fileVars,
         serviceVars, history
<1>6. (OutcomeHolds /\ Quiet)'
  BY DEF IInv, Abort, Leave, TypeOK, OutcomeHolds, Quiet, Registered,
         Published, Gated, AfterStop, AtRest, AfterPublish, Installs,
         fileVars, serviceVars, history
<1> QED
  BY <1>1, <1>2, <1>3, <1>4, <1>5, <1>6 DEF IInv

(* Staging preserves the invariant. *)
LEMMA StageIInv ==
  ASSUME NEW i \in Installer, IInv, Stage(i)
  PROVE  IInv'
<1>1. TypeOK'
  BY DEF IInv, Stage, Goto, TypeOK, Platforms, Installs, Removes, StagedIsOwn,
         Published, serviceVars, history
<1>2. Gated'
  BY DEF IInv, Stage, Goto, TypeOK, Gated, serviceVars, history
<1>3. (StagedIsOwn /\ Published)'
  BY DEF IInv, Stage, Goto, TypeOK, StagedIsOwn, Published, Gated, Installs,
         AfterPublish, serviceVars, history
<1>4. (Registered /\ RegistrationHasBinary)'
  BY DEF IInv, Stage, Goto, TypeOK, Registered, RegistrationHasBinary,
         Published, Gated, Installs, AfterPublish, serviceVars, history
<1>5. (Standing /\ UpgradeIsBootable)'
  BY DEF IInv, Stage, Goto, TypeOK, Standing, UpgradeIsBootable, Registered,
         Published, Gated, Installs, Removes, AfterPublish, serviceVars,
         history
<1>6. (OutcomeHolds /\ Quiet)'
  BY DEF IInv, Stage, Goto, TypeOK, OutcomeHolds, Quiet, Registered,
         Published, Gated, AfterStop, AtRest, AfterPublish, Installs,
         serviceVars, history
<1> QED
  BY <1>1, <1>2, <1>3, <1>4, <1>5, <1>6 DEF IInv

(* A staging that fails preserves the invariant. *)
LEMMA StageFailsIInv ==
  ASSUME NEW i \in Installer, IInv, StageFails(i)
  PROVE  IInv'
<1>1. TypeOK'
  BY DEF IInv, StageFails, Leave, TypeOK, Platforms, Installs, Removes,
         StagedIsOwn, Published, serviceVars, history
<1>2. Gated'
  BY DEF IInv, StageFails, Leave, TypeOK, Gated, serviceVars, history
<1>3. (StagedIsOwn /\ Published)'
  BY DEF IInv, StageFails, Leave, TypeOK, StagedIsOwn, Published, Gated,
         Installs, AfterPublish, serviceVars, history
<1>4. (Registered /\ RegistrationHasBinary)'
  BY DEF IInv, StageFails, Leave, TypeOK, Registered, RegistrationHasBinary,
         Published, Gated, Installs, AfterPublish, serviceVars, history
<1>5. (Standing /\ UpgradeIsBootable)'
  BY DEF IInv, StageFails, Leave, TypeOK, Standing, UpgradeIsBootable,
         Registered, Published, Gated, Installs, Removes, AfterPublish,
         serviceVars, history
<1>6. (OutcomeHolds /\ Quiet)'
  BY DEF IInv, StageFails, Leave, TypeOK, OutcomeHolds, Quiet, Registered,
         Published, Gated, AfterStop, AtRest, AfterPublish, Installs,
         serviceVars, history
<1> QED
  BY <1>1, <1>2, <1>3, <1>4, <1>5, <1>6 DEF IInv

(* A stop before the replacement preserves the invariant. *)
LEMMA StopIInv ==
  ASSUME NEW i \in Installer, IInv, Stop(i)
  PROVE  IInv'
<1>1. TypeOK'
  <2>1. /\ kept' \in BOOLEAN /\ unstopped' \in BOOLEAN
        /\ running' = None /\ UNCHANGED <<gate, offer>>
    BY DEF IInv, TypeOK, Stop, Goto, Stopped, FoundStopped, serviceVars
  <2>2. pc' \in [Installer -> {"idle"} \cup Installs \cup Removes]
    BY DEF IInv, TypeOK, Stop, Goto, Installs
  <2>3. gate' # None => pc'[gate'] # "idle"
    BY DEF IInv, TypeOK, Stop, Goto
  <2>4. UNCHANGED <<platform, fileVars, history>>
    BY DEF Stop
  <2> QED
    BY <2>1, <2>2, <2>3, <2>4 DEF IInv, TypeOK, fileVars, history
<1>2. Gated'
  BY DEF IInv, Stop, Goto, Stopped, FoundStopped, TypeOK, Gated, fileVars,
         history
<1>3. (StagedIsOwn /\ Published)'
  BY DEF IInv, Stop, Goto, Stopped, FoundStopped, TypeOK, StagedIsOwn,
         Published, Gated, Installs, AfterPublish, fileVars, history
<1>4. (Registered /\ RegistrationHasBinary)'
  BY DEF IInv, Stop, Goto, Stopped, FoundStopped, TypeOK, Registered,
         RegistrationHasBinary, Published, Gated, Installs, AfterPublish,
         fileVars, history
<1>5. (Standing /\ UpgradeIsBootable)'
  BY DEF IInv, Stop, Goto, Stopped, FoundStopped, TypeOK, Standing,
         UpgradeIsBootable, Registered, Published, Gated, Installs, Removes,
         AfterPublish, fileVars, history
<1>6. (OutcomeHolds /\ Quiet)'
  <2>1. CASE Stopped
    BY <2>1 DEF IInv, Stop, Goto, Stopped, TypeOK, OutcomeHolds, Quiet,
           Gated, AfterStop, AtRest, AfterPublish, fileVars, history
  <2>2. CASE FoundStopped
    BY <2>2 DEF IInv, Stop, Goto, FoundStopped, TypeOK, OutcomeHolds, Quiet,
           Gated, AfterStop, AtRest, AfterPublish, fileVars, serviceVars,
           history
  <2> QED
    BY <2>1, <2>2 DEF Stop
<1> QED
  BY <1>1, <1>2, <1>3, <1>4, <1>5, <1>6 DEF IInv

(* A stop that fails and is ignored preserves the invariant. *)
LEMMA StopFailsIInv ==
  ASSUME NEW i \in Installer, IInv, StopFails(i)
  PROVE  IInv'
<1>1. TypeOK'
  BY DEF IInv, StopFails, Goto, Ignored, TypeOK, Platforms, Installs, Removes,
         StagedIsOwn, Published, fileVars, history
<1>2. Gated'
  BY DEF IInv, StopFails, Goto, Ignored, TypeOK, Gated, fileVars, history
<1>3. (StagedIsOwn /\ Published)'
  BY DEF IInv, StopFails, Goto, Ignored, TypeOK, StagedIsOwn, Published,
         Gated, Installs, AfterPublish, fileVars, history
<1>4. (Registered /\ RegistrationHasBinary)'
  BY DEF IInv, StopFails, Goto, Ignored, TypeOK, Registered,
         RegistrationHasBinary, Published, Gated, Installs, AfterPublish,
         fileVars, history
<1>5. (Standing /\ UpgradeIsBootable)'
  BY DEF IInv, StopFails, Goto, Ignored, TypeOK, Standing, UpgradeIsBootable,
         Registered, Published, Gated, Installs, Removes, AfterPublish,
         fileVars, history
<1>6. (OutcomeHolds /\ Quiet)'
  <2>1. CASE kept
    BY <2>1 DEF IInv, StopFails, Goto, Ignored, TypeOK, OutcomeHolds, Quiet,
           Gated, fileVars, history
  <2>2. CASE ~kept
    <3>1. /\ UNCHANGED <<unstopped, kept, running, fileVars, history>>
          /\ UNCHANGED <<gate, offer>>
      BY <2>2 DEF StopFails, Ignored, Goto
    <3> QED
      BY <3>1, <2>2 DEF IInv, StopFails, Goto, TypeOK, OutcomeHolds, Quiet,
             Gated, AfterStop, AtRest, fileVars, history
  <2> QED
    BY <2>1, <2>2
<1> QED
  BY <1>1, <1>2, <1>3, <1>4, <1>5, <1>6 DEF IInv

(* Publication preserves the invariant. *)
LEMMA PublishIInv ==
  ASSUME NEW i \in Installer, IInv, Publish(i)
  PROVE  IInv'
<1>1. TypeOK'
  BY DEF IInv, Publish, Goto, TypeOK, Platforms, Installs, Removes,
         StagedIsOwn, Published, serviceVars, history
<1>2. Gated'
  BY DEF IInv, Publish, Goto, TypeOK, Gated, serviceVars, history
<1>3. (StagedIsOwn /\ Published)'
  BY DEF IInv, Publish, Goto, TypeOK, StagedIsOwn, Published, Gated, Installs,
         AfterPublish, serviceVars, history
<1>4. (Registered /\ RegistrationHasBinary)'
  BY DEF IInv, StagedIsOwn,
         Publish, Goto, TypeOK, Registered, RegistrationHasBinary,
         Published, Gated, Installs, AfterPublish, serviceVars, history
<1>5. (Standing /\ UpgradeIsBootable)'
  BY DEF IInv, StagedIsOwn,
         Publish, Goto, TypeOK, Standing, UpgradeIsBootable, Registered,
         Published, Gated, Installs, Removes, AfterPublish, serviceVars,
         history
<1>6. (OutcomeHolds /\ Quiet)'
  BY DEF IInv, Publish, Goto, TypeOK, OutcomeHolds, Quiet, Registered,
         Published, Gated, AfterStop, AtRest, AfterPublish, Installs,
         serviceVars, history
<1> QED
  BY <1>1, <1>2, <1>3, <1>4, <1>5, <1>6 DEF IInv

(* Registration preserves the invariant. *)
LEMMA RegisterIInv ==
  ASSUME NEW i \in Installer, IInv, Register(i)
  PROVE  IInv'
<1>1. TypeOK'
  BY DEF IInv, Register, Goto, TypeOK, Platforms, Installs, Removes,
         StagedIsOwn, Published, serviceVars, history
<1>2. Gated'
  BY DEF IInv, Register, Goto, TypeOK, Gated, serviceVars, history
<1>3. (StagedIsOwn /\ Published)'
  BY DEF IInv, Register, Goto, TypeOK, StagedIsOwn, Published, Gated,
         Installs, AfterPublish, serviceVars, history
<1>4. (Registered /\ RegistrationHasBinary)'
  BY DEF IInv, Register, Goto, TypeOK, Registered, RegistrationHasBinary,
         Published, Gated, Installs, AfterPublish, serviceVars, history
<1>5. (Standing /\ UpgradeIsBootable)'
  BY DEF IInv, Register, Goto, TypeOK, Standing, UpgradeIsBootable,
         Registered, Published, Gated, Installs, Removes, AfterPublish,
         serviceVars, history
<1>6. (OutcomeHolds /\ Quiet)'
  BY DEF IInv, Register, Goto, TypeOK, OutcomeHolds, Quiet, Registered,
         Published, Gated, AfterStop, AtRest, AfterPublish, Installs,
         serviceVars, history
<1> QED
  BY <1>1, <1>2, <1>3, <1>4, <1>5, <1>6 DEF IInv

(* Writing the registration preserves the invariant. *)
LEMMA WriteUnitIInv ==
  ASSUME NEW i \in Installer, IInv, WriteUnit(i)
  PROVE  IInv'
<1>1. TypeOK'
  BY DEF IInv, WriteUnit, Goto, TypeOK, Platforms, Installs, Removes,
         StagedIsOwn, Published, serviceVars, history
<1>2. Gated'
  BY DEF IInv, WriteUnit, Goto, TypeOK, Gated, serviceVars, history
<1>3. (StagedIsOwn /\ Published)'
  BY DEF IInv, WriteUnit, Goto, TypeOK, StagedIsOwn, Published, Gated,
         Installs, AfterPublish, serviceVars, history
<1>4. (Registered /\ RegistrationHasBinary)'
  BY DEF IInv, WriteUnit, Goto, TypeOK, Registered, RegistrationHasBinary,
         Published, Gated, Installs, AfterPublish, serviceVars, history
<1>5. (Standing /\ UpgradeIsBootable)'
  BY DEF IInv, WriteUnit, Goto, TypeOK, Standing, UpgradeIsBootable,
         Registered, Published, Gated, Installs, Removes, AfterPublish,
         serviceVars, history
<1>6. (OutcomeHolds /\ Quiet)'
  BY DEF IInv, WriteUnit, Goto, TypeOK, OutcomeHolds, Quiet, Registered,
         Published, Gated, AfterStop, AtRest, AfterPublish, Installs,
         serviceVars, history
<1> QED
  BY <1>1, <1>2, <1>3, <1>4, <1>5, <1>6 DEF IInv

(* Enabling preserves the invariant. *)
LEMMA LoadIInv ==
  ASSUME NEW i \in Installer, IInv, Load(i)
  PROVE  IInv'
<1>1. TypeOK'
  BY DEF IInv, Load, Goto, TypeOK, Platforms, Installs, Removes, StagedIsOwn,
         Published, serviceVars, history
<1>2. Gated'
  BY DEF IInv, Load, Goto, TypeOK, Gated, serviceVars, history
<1>3. (StagedIsOwn /\ Published)'
  BY DEF IInv, Load, Goto, TypeOK, StagedIsOwn, Published, Gated, Installs,
         AfterPublish, serviceVars, history
<1>4. (Registered /\ RegistrationHasBinary)'
  BY DEF IInv, Load, Goto, TypeOK, Registered, RegistrationHasBinary,
         Published, Gated, Installs, AfterPublish, serviceVars, history
<1>5. (Standing /\ UpgradeIsBootable)'
  BY DEF IInv, Load, Goto, TypeOK, Standing, UpgradeIsBootable, Registered,
         Published, Gated, Installs, Removes, AfterPublish, serviceVars,
         history
<1>6. (OutcomeHolds /\ Quiet)'
  BY DEF IInv, Load, Goto, TypeOK, OutcomeHolds, Quiet, Registered, Published,
         Gated, AfterStop, AtRest, AfterPublish, Installs, serviceVars,
         history
<1> QED
  BY <1>1, <1>2, <1>3, <1>4, <1>5, <1>6 DEF IInv

(* The start preserves the invariant. *)
LEMMA StartServiceIInv ==
  ASSUME NEW i \in Installer, IInv, StartService(i)
  PROVE  IInv'
<1>1. TypeOK'
  BY DEF IInv, StartService, Goto, TypeOK, Platforms, Installs, Removes,
         StagedIsOwn, Published, fileVars, history
<1>2. Gated'
  BY DEF IInv, StartService, Goto, TypeOK, Gated, fileVars, history
<1>3. (StagedIsOwn /\ Published)'
  BY DEF IInv, StartService, Goto, TypeOK, StagedIsOwn, Published, Gated,
         Installs, AfterPublish, fileVars, history
<1>4. (Registered /\ RegistrationHasBinary)'
  BY DEF IInv, StartService, Goto, TypeOK, Registered, RegistrationHasBinary,
         Published, Gated, Installs, AfterPublish, fileVars, history
<1>5. (Standing /\ UpgradeIsBootable)'
  BY DEF IInv, StartService, Goto, TypeOK, Standing, UpgradeIsBootable,
         Registered, Published, Gated, Installs, Removes, AfterPublish,
         fileVars, history
<1>6. (OutcomeHolds /\ Quiet)'
  BY DEF IInv, StartService, Goto, TypeOK, OutcomeHolds, Quiet, Registered,
         Published, Gated, AfterStop, AtRest, AfterPublish, Installs,
         fileVars, history
<1> QED
  BY <1>1, <1>2, <1>3, <1>4, <1>5, <1>6 DEF IInv

(* Success of an installation preserves the invariant. *)
LEMMA ReadyIInv ==
  ASSUME NEW i \in Installer, IInv, Ready(i)
  PROVE  IInv'
<1>1. TypeOK'
  BY DEF IInv, Ready, Leave, SupportsClient, TypeOK, Platforms, Installs,
         Removes, StagedIsOwn, Published, fileVars, serviceVars
<1>2. Gated'
  BY DEF IInv, Ready, Leave, SupportsClient, TypeOK, Gated, fileVars,
         serviceVars
<1>3. (StagedIsOwn /\ Published)'
  BY DEF IInv, Ready, Leave, SupportsClient, TypeOK, StagedIsOwn, Published,
         Gated, Installs, AfterPublish, fileVars, serviceVars
<1>4. (Registered /\ RegistrationHasBinary)'
  BY DEF IInv, Ready, Leave, SupportsClient, TypeOK, Registered,
         RegistrationHasBinary, Published, Gated, Installs, AfterPublish,
         fileVars, serviceVars
<1>5. (Standing /\ UpgradeIsBootable)'
  BY DEF IInv, Ready, Leave, SupportsClient, TypeOK, Standing,
         UpgradeIsBootable, Registered, Published, Gated, Installs, Removes,
         AfterPublish, fileVars, serviceVars
<1>6. (OutcomeHolds /\ Quiet)'
  BY DEF IInv, Ready, Leave, SupportsClient, TypeOK, OutcomeHolds, Quiet,
         Registered, Published, Gated, AfterStop, AtRest, AfterPublish,
         Installs, fileVars, serviceVars
<1> QED
  BY <1>1, <1>2, <1>3, <1>4, <1>5, <1>6 DEF IInv

(* The uninstaller's stop preserves the invariant. *)
LEMMA HaltIInv ==
  ASSUME NEW i \in Installer, IInv, Halt(i)
  PROVE  IInv'
<1>1. TypeOK'
  <2>1. kept' \in BOOLEAN /\ unstopped' \in BOOLEAN /\ UNCHANGED <<gate, offer>>
    BY DEF IInv, TypeOK, Halt, Goto, Stopped, FoundStopped, serviceVars
  <2>2. pc' \in [Installer -> {"idle"} \cup Installs \cup Removes]
    BY DEF IInv, TypeOK, Halt, Goto, Removes
  <2>3. gate' # None => pc'[gate'] # "idle"
    BY DEF IInv, TypeOK, Halt, Goto
  <2>4. running' = None /\ UNCHANGED <<platform, fileVars, history>>
    BY DEF Halt, Stopped, FoundStopped, serviceVars
  <2> QED
    BY <2>1, <2>2, <2>3, <2>4 DEF IInv, TypeOK, fileVars, history
<1>2. Gated'
  BY DEF IInv, Halt, Goto, Stopped, FoundStopped, TypeOK, Gated, fileVars,
         history
<1>3. (StagedIsOwn /\ Published)'
  BY DEF IInv, Halt, Goto, Stopped, FoundStopped, TypeOK, StagedIsOwn,
         Published, Gated, Installs, AfterPublish, fileVars, history
<1>4. (Registered /\ RegistrationHasBinary)'
  BY DEF IInv, Halt, Goto, Stopped, FoundStopped, TypeOK, Registered,
         RegistrationHasBinary, Published, Gated, Installs, AfterPublish,
         fileVars, history
<1>5. (Standing /\ UpgradeIsBootable)'
  BY DEF IInv, Halt, Goto, Stopped, FoundStopped, TypeOK, Standing,
         UpgradeIsBootable, Registered, Published, Gated, Installs, Removes,
         AfterPublish, fileVars, history
<1>6. (OutcomeHolds /\ Quiet)'
  <2>1. CASE Stopped
    BY <2>1 DEF IInv, Halt, Goto, Stopped, TypeOK, OutcomeHolds, Quiet,
           Gated, AfterStop, AtRest, AfterPublish, fileVars, history
  <2>2. CASE FoundStopped
    BY <2>2 DEF IInv, Halt, Goto, FoundStopped, TypeOK, OutcomeHolds, Quiet,
           Gated, AfterStop, AtRest, AfterPublish, fileVars, serviceVars,
           history
  <2> QED
    BY <2>1, <2>2 DEF Halt
<1> QED
  BY <1>1, <1>2, <1>3, <1>4, <1>5, <1>6 DEF IInv

(* A stop that fails and is ignored there preserves the invariant. *)
LEMMA HaltFailsIInv ==
  ASSUME NEW i \in Installer, IInv, HaltFails(i)
  PROVE  IInv'
<1>1. TypeOK'
  <2>1. unstopped' \in BOOLEAN
    BY DEF IInv, TypeOK, HaltFails, Ignored
  <2>2. pc' \in [Installer -> {"idle"} \cup Installs \cup Removes]
    BY DEF IInv, TypeOK, HaltFails, Goto, Removes
  <2>3. gate' # None => pc'[gate'] # "idle"
    BY DEF IInv, TypeOK, HaltFails, Goto
  <2>4. UNCHANGED <<platform, gate, offer, kept, running, fileVars, history>>
    BY DEF HaltFails, Goto, Ignored
  <2> QED
    BY <2>1, <2>2, <2>3, <2>4 DEF IInv, TypeOK, fileVars, history
<1>2. Gated'
  BY DEF IInv, HaltFails, Goto, Ignored, TypeOK, Gated, fileVars, history
<1>3. (StagedIsOwn /\ Published)'
  BY DEF IInv, HaltFails, Goto, Ignored, TypeOK, StagedIsOwn, Published,
         Gated, Installs, AfterPublish, fileVars, history
<1>4. (Registered /\ RegistrationHasBinary)'
  BY DEF IInv, HaltFails, Goto, Ignored, TypeOK, Registered,
         RegistrationHasBinary, Published, Gated, Installs, AfterPublish,
         fileVars, history
<1>5. (Standing /\ UpgradeIsBootable)'
  BY DEF IInv, HaltFails, Goto, Ignored, TypeOK, Standing, UpgradeIsBootable,
         Registered, Published, Gated, Installs, Removes, AfterPublish,
         fileVars, history
<1>6. (OutcomeHolds /\ Quiet)'
  <2>1. CASE kept
    BY <2>1 DEF IInv, HaltFails, Goto, Ignored, TypeOK, OutcomeHolds, Quiet,
           Gated, fileVars, history
  <2>2. CASE ~kept
    <3>1. /\ UNCHANGED <<unstopped, kept, running, fileVars, history>>
          /\ UNCHANGED <<gate, offer>>
      BY <2>2 DEF HaltFails, Ignored, Goto
    <3> QED
      BY <3>1, <2>2 DEF IInv, HaltFails, Goto, TypeOK, OutcomeHolds, Quiet,
             Gated, AfterStop, AtRest, fileVars, history
  <2> QED
    BY <2>1, <2>2
<1> QED
  BY <1>1, <1>2, <1>3, <1>4, <1>5, <1>6 DEF IInv

(* Disabling preserves the invariant. *)
LEMMA DisableIInv ==
  ASSUME NEW i \in Installer, IInv, Disable(i)
  PROVE  IInv'
<1>1. TypeOK'
  <2>1. enabled' \in BOOLEAN
    BY DEF Disable
  <2>2. pc' \in [Installer -> {"idle"} \cup Installs \cup Removes]
    BY DEF IInv, TypeOK, Disable, Goto, Removes
  <2>3. gate' # None => pc'[gate'] # "idle"
    BY DEF IInv, TypeOK, Disable, Goto
  <2> QED
    BY <2>1, <2>2, <2>3
       DEF IInv, TypeOK, Disable, Goto, serviceVars, history
<1>2. Gated'
  BY DEF IInv, Disable, Goto, TypeOK, Gated, serviceVars, history
<1>3. (StagedIsOwn /\ Published)'
  BY DEF IInv, Disable, Goto, TypeOK, StagedIsOwn, Published, Gated, Installs,
         AfterPublish, serviceVars, history
<1>4. (Registered /\ RegistrationHasBinary)'
  BY DEF IInv, Disable, Goto, TypeOK, Registered, RegistrationHasBinary,
         Published, Gated, Installs, AfterPublish, serviceVars, history
<1>5. (Standing /\ UpgradeIsBootable)'
  BY DEF IInv, Disable, Goto, TypeOK, Standing, UpgradeIsBootable, Registered,
         Published, Gated, Installs, Removes, AfterPublish, serviceVars,
         history
<1>6. (OutcomeHolds /\ Quiet)'
  BY DEF IInv, Disable, Goto, TypeOK, Platforms, OutcomeHolds, Quiet,
         Registered, Published, Gated, AfterStop, AtRest, AfterPublish,
         Installs, serviceVars, history
<1> QED
  BY <1>1, <1>2, <1>3, <1>4, <1>5, <1>6 DEF IInv

(* A disable that fails or is not needed preserves the invariant. *)
LEMMA DisableFailsIInv ==
  ASSUME NEW i \in Installer, IInv, DisableFails(i)
  PROVE  IInv'
<1>1. TypeOK'
  BY DEF IInv, DisableFails, Goto, TypeOK, Platforms, Installs, Removes,
         StagedIsOwn, Published, fileVars, serviceVars, history
<1>2. Gated'
  BY DEF IInv, DisableFails, Goto, TypeOK, Gated, fileVars, serviceVars,
         history
<1>3. (StagedIsOwn /\ Published)'
  BY DEF IInv, DisableFails, Goto, TypeOK, StagedIsOwn, Published, Gated,
         Installs, AfterPublish, fileVars, serviceVars, history
<1>4. (Registered /\ RegistrationHasBinary)'
  BY DEF IInv, DisableFails, Goto, TypeOK, Registered,
         RegistrationHasBinary, Published, Gated, Installs, AfterPublish,
         fileVars, serviceVars, history
<1>5. (Standing /\ UpgradeIsBootable)'
  BY DEF IInv, DisableFails, Goto, TypeOK, Standing, UpgradeIsBootable,
         Registered, Published, Gated, Installs, Removes, AfterPublish,
         fileVars, serviceVars, history
<1>6. (OutcomeHolds /\ Quiet)'
  BY DEF IInv, DisableFails, Goto, TypeOK, Platforms, OutcomeHolds, Quiet,
         Registered, Published, Gated, AfterStop, AtRest, AfterPublish,
         Installs, fileVars, serviceVars, history
<1> QED
  BY <1>1, <1>2, <1>3, <1>4, <1>5, <1>6 DEF IInv

(* Deleting the registration preserves the invariant. *)
LEMMA UnregisterIInv ==
  ASSUME NEW i \in Installer, IInv, Unregister(i)
  PROVE  IInv'
<1>1. TypeOK'
  BY DEF IInv, Unregister, Goto, TypeOK, Platforms, Installs, Removes,
         StagedIsOwn, Published, serviceVars, history
<1>2. Gated'
  BY DEF IInv, Unregister, Goto, TypeOK, Gated, serviceVars, history
<1>3. (StagedIsOwn /\ Published)'
  BY DEF IInv, Unregister, Goto, TypeOK, StagedIsOwn, Published, Gated,
         Installs, AfterPublish, serviceVars, history
<1>4. (Registered /\ RegistrationHasBinary)'
  BY DEF IInv, Unregister, Goto, TypeOK, Registered, RegistrationHasBinary,
         Published, Gated, Installs, AfterPublish, serviceVars, history
<1>5. (Standing /\ UpgradeIsBootable)'
  BY DEF IInv, Unregister, Goto, TypeOK, Standing, UpgradeIsBootable,
         Registered, Published, Gated, Installs, Removes, AfterPublish,
         serviceVars, history
<1>6. (OutcomeHolds /\ Quiet)'
  BY DEF IInv, Unregister, Goto, TypeOK, OutcomeHolds, Quiet, Registered,
         Published, Gated, AfterStop, AtRest, AfterPublish, Installs,
         serviceVars, history
<1> QED
  BY <1>1, <1>2, <1>3, <1>4, <1>5, <1>6 DEF IInv

(* Success of a removal preserves the invariant. *)
LEMMA RemoveIInv ==
  ASSUME NEW i \in Installer, IInv, Remove(i)
  PROVE  IInv'
<1>1. TypeOK'
  BY DEF IInv, Remove, Leave, TypeOK, Platforms, Installs, Removes,
         StagedIsOwn, Published, serviceVars
<1>2. Gated'
  BY DEF IInv, Remove, Leave, TypeOK, Gated, serviceVars
<1>3. (StagedIsOwn /\ Published)'
  BY DEF IInv, Remove, Leave, TypeOK, StagedIsOwn, Published, Gated, Installs,
         AfterPublish, serviceVars
<1>4. (Registered /\ RegistrationHasBinary)'
  BY DEF IInv, Remove, Leave, TypeOK, Registered, RegistrationHasBinary,
         Published, Gated, Installs, AfterPublish, serviceVars
<1>5. (Standing /\ UpgradeIsBootable)'
  BY DEF IInv, Remove, Leave, TypeOK, Standing, UpgradeIsBootable, Registered,
         Published, Gated, Installs, Removes, AfterPublish, serviceVars
<1>6. (OutcomeHolds /\ Quiet)'
  BY DEF IInv, Remove, Leave, TypeOK, OutcomeHolds, Quiet, Registered,
         Published, Gated, AfterStop, AtRest, AfterPublish, Installs,
         serviceVars
<1> QED
  BY <1>1, <1>2, <1>3, <1>4, <1>5, <1>6 DEF IInv

(* A removal that fails midway preserves the invariant. *)
LEMMA RemoveFailsIInv ==
  ASSUME NEW i \in Installer, IInv, RemoveFails(i)
  PROVE  IInv'
<1>1. TypeOK'
  BY DEF IInv, RemoveFails, Leave, TypeOK, Platforms, Installs, Removes,
         StagedIsOwn, Published, serviceVars, history
<1>2. Gated'
  BY DEF IInv, RemoveFails, Leave, TypeOK, Gated, serviceVars, history
<1>3. (StagedIsOwn /\ Published)'
  BY DEF IInv, RemoveFails, Leave, TypeOK, StagedIsOwn, Published, Gated,
         Installs, AfterPublish, serviceVars, history
<1>4. (Registered /\ RegistrationHasBinary)'
  BY DEF IInv, RemoveFails, Leave, TypeOK, Registered, RegistrationHasBinary,
         Published, Gated, Installs, AfterPublish, serviceVars, history
<1>5. (Standing /\ UpgradeIsBootable)'
  BY DEF IInv, RemoveFails, Leave, TypeOK, Standing, UpgradeIsBootable,
         Registered, Published, Gated, Installs, Removes, AfterPublish,
         serviceVars, history
<1>6. (OutcomeHolds /\ Quiet)'
  BY DEF IInv, RemoveFails, Leave, TypeOK, OutcomeHolds, Quiet, Registered,
         Published, Gated, AfterStop, AtRest, AfterPublish, Installs,
         serviceVars, history
<1> QED
  BY <1>1, <1>2, <1>3, <1>4, <1>5, <1>6 DEF IInv

(* An end of the service preserves the invariant. *)
LEMMA ServiceDiesIInv ==
  ASSUME IInv, ServiceDies
  PROVE  IInv'
<1>1. TypeOK'
  BY DEF IInv, ServiceDies, TypeOK, Platforms, Installs, Removes, StagedIsOwn,
         Published, procVars, fileVars, history
<1>2. Gated'
  BY DEF IInv, ServiceDies, TypeOK, Gated, procVars, fileVars, history
<1>3. (StagedIsOwn /\ Published)'
  BY DEF IInv, ServiceDies, TypeOK, StagedIsOwn, Published, Gated, Installs,
         AfterPublish, procVars, fileVars, history
<1>4. (Registered /\ RegistrationHasBinary)'
  BY DEF IInv, ServiceDies, TypeOK, Registered, RegistrationHasBinary,
         Published, Gated, Installs, AfterPublish, procVars, fileVars, history
<1>5. (Standing /\ UpgradeIsBootable)'
  BY DEF IInv, ServiceDies, TypeOK, Standing, UpgradeIsBootable, Registered,
         Published, Gated, Installs, Removes, AfterPublish, procVars,
         fileVars, history
<1>6. (OutcomeHolds /\ Quiet)'
  BY DEF IInv, ServiceDies, TypeOK, OutcomeHolds, Quiet, Registered,
         Published, Gated, AfterStop, AtRest, AfterPublish, Installs,
         procVars, fileVars, history
<1> QED
  BY <1>1, <1>2, <1>3, <1>4, <1>5, <1>6 DEF IInv

(* A restart by the manager preserves the invariant. *)
LEMMA ServiceRestartsIInv ==
  ASSUME IInv, ServiceRestarts
  PROVE  IInv'
<1>1. TypeOK'
  BY DEF IInv, ServiceRestarts, TypeOK, Platforms, Installs, Removes,
         StagedIsOwn, Published, procVars, fileVars, history
<1>2. Gated'
  BY DEF IInv, ServiceRestarts, TypeOK, Gated, procVars, fileVars, history
<1>3. (StagedIsOwn /\ Published)'
  BY DEF IInv, ServiceRestarts, TypeOK, StagedIsOwn, Published, Gated,
         Installs, AfterPublish, procVars, fileVars, history
<1>4. (Registered /\ RegistrationHasBinary)'
  BY DEF IInv, ServiceRestarts, TypeOK, Registered, RegistrationHasBinary,
         Published, Gated, Installs, AfterPublish, procVars, fileVars, history
<1>5. (Standing /\ UpgradeIsBootable)'
  BY DEF IInv, ServiceRestarts, TypeOK, Standing, UpgradeIsBootable,
         Registered, Published, Gated, Installs, Removes, AfterPublish,
         procVars, fileVars, history
<1>6. (OutcomeHolds /\ Quiet)'
  BY DEF IInv, ServiceRestarts, TypeOK, OutcomeHolds, Quiet, Registered,
         Published, Gated, AfterStop, AtRest, AfterPublish, Installs,
         procVars, fileVars, history
<1> QED
  BY <1>1, <1>2, <1>3, <1>4, <1>5, <1>6 DEF IInv

(* A reboot preserves the invariant. *)
LEMMA RebootIInv ==
  ASSUME IInv, Reboot
  PROVE  IInv'
<1>1. TypeOK'
  BY DEF IInv, Reboot, TypeOK, Platforms, Installs, Removes, StagedIsOwn,
         Published, fileVars, history
<1>2. Gated'
  BY DEF IInv, Reboot, TypeOK, Gated, fileVars, history
<1>3. (StagedIsOwn /\ Published)'
  BY DEF IInv, Reboot, TypeOK, StagedIsOwn, Published, Gated, Installs,
         AfterPublish, fileVars, history
<1>4. (Registered /\ RegistrationHasBinary)'
  BY DEF IInv, Reboot, TypeOK, Registered, RegistrationHasBinary, Published,
         Gated, Installs, AfterPublish, fileVars, history
<1>5. (Standing /\ UpgradeIsBootable)'
  BY DEF IInv, Reboot, TypeOK, Standing, UpgradeIsBootable, Registered,
         Published, Gated, Installs, Removes, AfterPublish, fileVars, history
<1>6. (OutcomeHolds /\ Quiet)'
  BY DEF IInv, Reboot, TypeOK, OutcomeHolds, Quiet, Registered, Published,
         Gated, AfterStop, AtRest, AfterPublish, Installs, fileVars,
         history
<1> QED
  BY <1>1, <1>2, <1>3, <1>4, <1>5, <1>6 DEF IInv

(* Every step preserves the inductive invariant. *)
LEMMA NextIInv == IInv /\ [Next]_vars => IInv'
<1> SUFFICES ASSUME IInv, [Next]_vars PROVE IInv'
  OBVIOUS
<1>1. ASSUME NEW i \in Installer, Install(i) PROVE IInv'
  BY <1>1, EnterInstallerIInv, StageIInv, StageFailsIInv, StopIInv,
     StopFailsIInv, PublishIInv, RegisterIInv, WriteUnitIInv, LoadIInv,
     StartServiceIInv, ReadyIInv DEF Install
<1>2. ASSUME NEW i \in Installer, Uninstall(i) PROVE IInv'
  BY <1>2, EnterUninstallerIInv, HaltIInv, HaltFailsIInv, DisableIInv,
     DisableFailsIInv, UnregisterIInv, RemoveIInv, RemoveFailsIInv DEF
     Uninstall
<1>3. ASSUME Manager PROVE IInv'
  BY <1>3, ServiceDiesIInv, ServiceRestartsIInv, RebootIInv DEF Manager
<1>4. ASSUME UNCHANGED vars PROVE IInv'
  BY <1>4 DEF vars, procVars, fileVars, serviceVars, history, IInv, TypeOK,
     StagedIsOwn, RegistrationHasBinary, UpgradeIsBootable, OutcomeHolds, Gated,
     Published, Registered, Quiet, AtRest, Standing
<1> QED
  BY <1>1, <1>2, <1>3, <1>4, AbortIInv DEF Next

(* The inductive invariant holds in every reachable state. *)
THEOREM Inductive == Spec => []IInv
BY InitIInv, NextIInv, PTL DEF Spec

(* Type correctness, with a gate that is never left closed: what TypeOK     *)
(* says of every installer, uninstaller, file and service.                 *)
THEOREM TypeCorrect == Spec => []TypeOK
<1> IInv => TypeOK
  BY DEF IInv
<1> QED
  BY Inductive, PTL

(* A registration always has its binary. *)
THEOREM BinaryIsThere == Spec => []RegistrationHasBinary
<1> IInv => RegistrationHasBinary
  BY DEF IInv
<1> QED
  BY Inductive, PTL

(* A failed upgrade leaves a service that the next boot starts. *)
THEOREM BootableThroughout == Spec => []UpgradeIsBootable
<1> IInv => UpgradeIsBootable
  BY DEF IInv
<1> QED
  BY Inductive, PTL

(* What the last program to succeed reported is true. *)
THEOREM OutcomesAreTrue == Spec => []OutcomeHolds
<1> IInv => OutcomeHolds
  BY DEF IInv
<1> QED
  BY Inductive, PTL

-----------------------------------------------------------------------------
(* Who changes the installed binary, and what runs then. *)
Replaces(i) ==
    /\ pc[i] = "publishing"
    /\ target' = offer[i] /\ target' \in Version

Erases(i) ==
    /\ pc[i] = "removing"
    /\ target' = None /\ unit = "none"

BinaryIsQuiet ==
    target' # target =>
        /\ running = None \/ unstopped
        /\ \E i \in Installer :
              /\ \A j \in Installer \ {i} : pc[j] = "idle"
              /\ Replaces(i) \/ Erases(i)

LEMMA BinaryStep == IInv /\ [Next]_vars => BinaryIsQuiet
<1> SUFFICES ASSUME IInv, [Next]_vars, target' # target
             PROVE  /\ running = None \/ unstopped
                    /\ \E i \in Installer :
                          /\ \A j \in Installer \ {i} : pc[j] = "idle"
                          /\ Replaces(i) \/ Erases(i)
  BY DEF BinaryIsQuiet
<1>1. ASSUME NEW i \in Installer, pc[i] # "idle"
      PROVE  \A j \in Installer \ {i} : pc[j] = "idle"
  BY <1>1 DEF IInv, Gated
<1>2. ASSUME NEW i \in Installer, \/ Publish(i)
                                   \/ Remove(i) \/ RemoveFails(i)
      PROVE  running = None \/ unstopped
  <2>1. CASE pc[i] = "removing"
    BY <2>1 DEF IInv, Quiet, AtRest
  <2>2. CASE Publish(i)
    BY <2>2 DEF Publish, IInv, Quiet, AfterStop, AtRest
  <2> QED
    BY <1>2, <2>1, <2>2 DEF Remove, RemoveFails
<1>3. ASSUME NEW i \in Installer, Publish(i)
      PROVE  pc[i] = "publishing" /\ Replaces(i)
  BY <1>3 DEF Publish, Replaces, IInv, StagedIsOwn, Published, Installs
<1>4. ASSUME NEW i \in Installer, Remove(i) \/ RemoveFails(i)
      PROVE  pc[i] = "removing" /\ Erases(i)
  BY <1>4 DEF Remove, RemoveFails, Erases, IInv, Registered
<1>5. \E i \in Installer : Publish(i) \/ Remove(i) \/ RemoveFails(i)
  BY DEF Next, Install, Uninstall, Manager, EnterInstaller, EnterUninstaller,
     Abort, Stage, StageFails, Stop, StopFails, Register, WriteUnit, Load,
     StartService, Ready, Halt, HaltFails, Disable, DisableFails, Unregister,
     ServiceDies, ServiceRestarts, Reboot, fileVars, vars
<1> QED
  BY <1>1, <1>2, <1>3, <1>4, <1>5

(* The installed binary is only ever changed by the one program at work,    *)
(* for the version it was built with and has compared, or to remove it once *)
(* nothing is registered any more; and never under a running service,       *)
(* unless a stop of it has failed and been ignored.                         *)
THEOREM BinariesAreChangedAtRest == Spec => [][BinaryIsQuiet]_vars
<1> IInv /\ [Next]_vars => [BinaryIsQuiet]_vars
  BY BinaryStep
<1> QED
  BY Inductive, PTL DEF Spec
===============================================================================
