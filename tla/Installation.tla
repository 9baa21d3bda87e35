----------------------------- MODULE Installation -----------------------------
(***************************************************************************)
(* The installer and the uninstaller of the service                        *)
(* (src/bin/install_service.rs, src/bin/uninstall_service.rs), the repair  *)
(* gate that makes them exclude each other (src/core/repair.rs) and, as    *)
(* their environment, the service manager of the platform.                 *)
(*                                                                         *)
(* The three platforms share one skeleton and differ in three points: a    *)
(* failing stop is ignored by the Linux installer and aborts the others';  *)
(* the registration is written in place on Linux (unit) and macOS (plist)  *)
(* and by one call on Windows; and starting what runs already is no error  *)
(* on Linux.  An error return and a kill leave the same state behind, the  *)
(* steps made so far with the gate's file lock released: both are Abort.   *)
(***************************************************************************)
EXTENDS Integers

CONSTANTS
    Installer, \* processes of the two programs
    Version,   \* builds of the service, each with its installer
    Serves,    \* pairs of a service and a client it works with
    None,      \* no file, no process
    Torn       \* a file that was not written to its end

ASSUME NullAssumption == None # Torn /\ {None, Torn} \cap Version = {}
                         /\ None \notin Installer
ASSUME ServesAssumption == /\ Serves \subseteq Version \X Version
                           /\ \A v \in Version : <<v, v>> \in Serves

VARIABLES
    platform,  \* never changes
    gate,      \* who holds .repair.lock
    pc, offer, \* each installer's next step and the version beside it
    target,    \* the installed binary
    staged,    \* the .next file beside it
    unit,      \* the registration: unit file, plist or service entry
    enabled,   \* the manager starts what is registered at boot
    kept,      \* the manager keeps the service running
    running,   \* the version that runs
    outcome,   \* history: the last success, until the gate is taken again
    standing,  \* history: installed, and no uninstaller since
    unstopped  \* history: a stop failed and was ignored

procVars    == <<gate, pc, offer>>
fileVars    == <<target, staged, unit, enabled>>
serviceVars == <<kept, running, unstopped>>
history     == <<outcome, standing>>
vars        == <<platform, procVars, fileVars, serviceVars, history>>

Platforms == {"linux", "macos", "windows"}
Installs  == {"staging", "stopping", "publishing", "registering", "writing",
              "loading", "starting", "waiting"}
Removes   == {"halting", "disabling", "unregistering", "removing"}

NoOutcome == [kind |-> "none", version |-> None]

Init ==
    /\ platform \in Platforms
    /\ gate = None /\ pc = [i \in Installer |-> "idle"]
    /\ offer = [i \in Installer |-> None]
    /\ target = None /\ staged = None /\ unit = "none"
    /\ enabled = (platform # "linux")
    /\ kept = FALSE /\ running = None /\ unstopped = FALSE
    /\ outcome = NoOutcome /\ standing = FALSE

Goto(i, next) == pc' = [pc EXCEPT ![i] = next] /\ UNCHANGED <<gate, offer>>

Leave(i) ==
    /\ pc' = [pc EXCEPT ![i] = "idle"]
    /\ offer' = [offer EXCEPT ![i] = None]
    /\ gate' = None

(* The manager's stop, and its return without one.  On Windows a service    *)
(* found stopped is left alone, with a restart that may be due.            *)
Stopped ==
    /\ platform # "windows" \/ running # None
    /\ kept' = FALSE /\ running' = None /\ unstopped' = FALSE
FoundStopped ==
    /\ platform = "windows" /\ running = None
    /\ UNCHANGED serviceVars
Ignored == /\ unstopped' = IF kept THEN TRUE ELSE unstopped
           /\ UNCHANGED <<kept, running>>

-----------------------------------------------------------------------------
(* The gate.  One that is taken ends the process with exit code 75. *)

EnterInstaller(i, v) ==
    /\ pc[i] = "idle" /\ gate = None
    /\ gate' = i /\ pc' = [pc EXCEPT ![i] = "staging"]
    /\ offer' = [offer EXCEPT ![i] = v]
    /\ outcome' = NoOutcome
    /\ UNCHANGED <<platform, fileVars, serviceVars, standing>>

EnterUninstaller(i) ==
    /\ pc[i] = "idle" /\ gate = None
    /\ gate' = i
    /\ pc' = [pc EXCEPT ![i] = IF platform = "macos" THEN "disabling"
                                                    ELSE "halting"]
    /\ outcome' = NoOutcome /\ standing' = FALSE
    /\ UNCHANGED <<platform, offer, fileVars, serviceVars>>

(* Mutant: the gate is that the file exists: a kill leaves it closed. *)
AbortLocked(i) ==
    /\ pc[i] # "idle"
    /\ pc' = [pc EXCEPT ![i] = "idle"] /\ offer' = [offer EXCEPT ![i] = None]
    /\ UNCHANGED <<platform, gate, fileVars, serviceVars, history>>

Abort(i) ==
    /\ pc[i] # "idle" /\ Leave(i)
    /\ UNCHANGED <<platform, fileVars, serviceVars, history>>

-----------------------------------------------------------------------------
(* Installation. *)

(* A candidate left by an earlier installer is removed, the bundled binary  *)
(* copied, and the copy compared with it.                                  *)
Stage(i) ==
    /\ pc[i] = "staging" /\ Goto(i, "stopping")
    /\ staged' = offer[i]
    /\ UNCHANGED <<platform, target, unit, enabled, serviceVars, history>>

StageFails(i) ==
    /\ pc[i] = "staging" /\ Leave(i)
    /\ staged' \in {None, Torn}
    /\ UNCHANGED <<platform, target, unit, enabled, serviceVars, history>>

(* Mutant: the installer leaves it to start to replace what runs. *)
StopOmitted(i) ==
    /\ pc[i] = "stopping" /\ Goto(i, "publishing")
    /\ UNCHANGED <<platform, fileVars, serviceVars, history>>

Stop(i) ==
    /\ pc[i] = "stopping" /\ Goto(i, "publishing")
    /\ Stopped \/ FoundStopped
    /\ UNCHANGED <<platform, fileVars, history>>

StopFails(i) ==
    /\ pc[i] = "stopping" /\ platform = "linux" /\ Goto(i, "publishing")
    /\ Ignored
    /\ UNCHANGED <<platform, fileVars, history>>

(* The candidate replaces the binary by one rename; Windows refuses to      *)
(* replace, or to remove, a binary that runs.                              *)
Publish(i) ==
    /\ pc[i] = "publishing" /\ Goto(i, "registering")
    /\ platform = "windows" => running = None
    /\ target' = staged /\ staged' = None
    /\ UNCHANGED <<platform, unit, enabled, serviceVars, history>>

(* Mutant: an old registration is deleted and made anew. *)
RegisterAfresh(i) ==
    /\ pc[i] = "registering"
    /\ IF unit # "none" THEN unit' = "none" /\ UNCHANGED procVars
                      ELSE unit' = "written" /\ Goto(i, "loading")
    /\ UNCHANGED <<platform, target, staged, enabled, serviceVars, history>>

(* File::create truncates what is there; Windows has one call. *)
Register(i) ==
    /\ pc[i] = "registering"
    /\ IF platform = "windows" THEN unit' = "written" /\ Goto(i, "starting")
                               ELSE unit' = "torn" /\ Goto(i, "writing")
    /\ UNCHANGED <<platform, target, staged, enabled, serviceVars, history>>

WriteUnit(i) ==
    /\ pc[i] = "writing" /\ Goto(i, "loading")
    /\ unit' = "written"
    /\ UNCHANGED <<platform, target, staged, enabled, serviceVars, history>>

(* daemon-reload and enable, chmod, chown and enable. *)
Load(i) ==
    /\ pc[i] = "loading" /\ Goto(i, "starting")
    /\ enabled' = TRUE
    /\ UNCHANGED <<platform, target, staged, unit, serviceVars, history>>

(* bootstrap refuses what launchd keeps already and the service controller  *)
(* what runs already; systemctl start has nothing to do then.              *)
StartService(i) ==
    /\ pc[i] = "starting" /\ Goto(i, "waiting")
    /\ kept => platform # "macos"
    /\ running # None => platform = "linux"
    /\ kept' = TRUE /\ running' = IF running = None THEN target ELSE running
    /\ UNCHANGED <<platform, fileVars, unstopped, history>>

SupportsClient(service, client) == <<service, client>> \in Serves

(* Whoever answers get_version with a protocol of use is the service.       *)
Ready(i) ==
    /\ pc[i] = "waiting" /\ SupportsClient(running, offer[i])
    /\ Leave(i)
    /\ outcome' = [kind |-> "installed", version |-> offer[i]]
    /\ standing' = TRUE
    /\ UNCHANGED <<platform, fileVars, serviceVars>>

-----------------------------------------------------------------------------
(* Removal.  Linux stops and disables, macOS disables and boots out, where  *)
(* `launchctl stop' alone has launchd start the service again; Windows      *)
(* deletes the entry as a whole.                                           *)

Halt(i) ==
    /\ pc[i] = "halting"
    /\ Goto(i, IF platform = "linux" THEN "disabling" ELSE "unregistering")
    /\ platform = "windows" => unit # "none"
    /\ Stopped \/ FoundStopped
    /\ UNCHANGED <<platform, fileVars, history>>

HaltFails(i) ==
    /\ pc[i] = "halting" /\ platform # "windows"
    /\ Goto(i, IF platform = "linux" THEN "disabling" ELSE "unregistering")
    /\ Ignored
    /\ UNCHANGED <<platform, fileVars, history>>

Disable(i) ==
    /\ pc[i] = "disabling"
    /\ Goto(i, IF platform = "macos" THEN "halting" ELSE "unregistering")
    /\ enabled' = FALSE
    /\ UNCHANGED <<platform, target, staged, unit, serviceVars, history>>

(* A disable that fails is ignored. *)
DisableFails(i) ==
    /\ pc[i] = "disabling"
    /\ Goto(i, IF platform = "macos" THEN "halting" ELSE "unregistering")
    /\ UNCHANGED <<platform, fileVars, serviceVars, history>>

(* Mutant: a registration that cannot be deleted is left, as a stop is. *)
UnregisterIgnored(i) ==
    /\ pc[i] = "unregistering" /\ Goto(i, "removing")
    /\ unit' \in {unit, "none"}
    /\ UNCHANGED <<platform, target, staged, enabled, serviceVars, history>>

(* The entry of Windows goes once nothing runs, a restart that is due with  *)
(* it.                                                                     *)
Unregister(i) ==
    /\ pc[i] = "unregistering" /\ Goto(i, "removing")
    /\ platform = "windows" => running = None
    /\ unit' = "none"
    /\ kept' = (platform # "windows" /\ kept)
    /\ UNCHANGED <<platform, target, staged, enabled, running, unstopped>>
    /\ UNCHANGED history

(* The whole bundle goes on macOS, with a candidate in it. *)
Remove(i) ==
    /\ pc[i] = "removing" /\ Leave(i)
    /\ target' = None
    /\ staged' = IF platform = "macos" THEN None ELSE staged
    /\ outcome' = [kind |-> "removed", version |-> None]
    /\ UNCHANGED <<platform, unit, enabled, serviceVars, standing>>

(* remove_dir_all gives up on its way. *)
RemoveFails(i) ==
    /\ pc[i] = "removing" /\ platform = "macos" /\ Leave(i)
    /\ target' = None /\ staged' \in {staged, None}
    /\ UNCHANGED <<platform, unit, enabled, serviceVars, history>>

-----------------------------------------------------------------------------
(* The service manager: Restart=always, KeepAlive, failure actions. *)

ServiceDies ==
    /\ running # None /\ running' = None
    /\ UNCHANGED <<platform, procVars, fileVars, kept, unstopped, history>>

ServiceRestarts ==
    /\ kept /\ running = None /\ target # None
    /\ running' = target
    /\ UNCHANGED <<platform, procVars, fileVars, kept, unstopped, history>>

Reboot ==
    /\ gate' = None /\ pc' = [i \in Installer |-> "idle"]
    /\ offer' = [i \in Installer |-> None]
    /\ kept' = (enabled /\ unit = "written" /\ target # None)
    /\ running' = None /\ unstopped' = FALSE
    /\ UNCHANGED <<platform, fileVars, history>>

-----------------------------------------------------------------------------
Install(i) ==
    \/ \E v \in Version : EnterInstaller(i, v)
    \/ Stage(i) \/ StageFails(i) \/ Stop(i) \/ StopFails(i) \/ Publish(i)
    \/ Register(i) \/ WriteUnit(i) \/ Load(i) \/ StartService(i) \/ Ready(i)

Uninstall(i) ==
    \/ EnterUninstaller(i) \/ Halt(i) \/ HaltFails(i) \/ Disable(i)
    \/ DisableFails(i) \/ Unregister(i) \/ Remove(i) \/ RemoveFails(i)

Manager == ServiceDies \/ ServiceRestarts \/ Reboot

Next ==
    \/ \E i \in Installer : Install(i) \/ Uninstall(i) \/ Abort(i)
    \/ Manager

Spec == Init /\ [][Next]_vars

-----------------------------------------------------------------------------
(* Properties. *)

(* Every variable has its type, and a gate that is taken is the gate of an  *)
(* installer at work.                                                      *)
TypeOK ==
    /\ platform \in Platforms
    /\ gate \in Installer \cup {None}
    /\ gate # None => pc[gate] # "idle"
    /\ pc \in [Installer -> {"idle"} \cup Installs \cup Removes]
    /\ offer \in [Installer -> Version \cup {None}]
    /\ target \in Version \cup {None} /\ staged \in Version \cup {None, Torn}
    /\ unit \in {"none", "torn", "written"}
    /\ enabled \in BOOLEAN /\ kept \in BOOLEAN
    /\ running \in Version \cup {None}
    /\ outcome \in [kind : {"none", "installed", "removed"},
                    version : Version \cup {None}]
    /\ standing \in BOOLEAN /\ unstopped \in BOOLEAN

(* The manager never has a registration whose binary is missing, however    *)
(* installers and uninstallers fail, are killed and follow each other.      *)
RegistrationHasBinary == unit # "none" => target # None

(* From the first success on, a repair or upgrade that fails or is killed   *)
(* anywhere leaves a service that the next boot starts, the old or the new  *)
(* one, save for the moment in which the registration is written in place.  *)
UpgradeIsBootable ==
    standing /\ unit # "torn" => unit = "written" /\ enabled /\ target # None

(* What a program reported stays true until one of them runs again: through *)
(* restarts and reboots, the version installed is there and no other runs,  *)
(* or none is left.  A stop that failed and was ignored voids the part on   *)
(* the running service until the next one that succeeds.                   *)
OutcomeHolds ==
    /\ outcome.kind = "installed" =>
           /\ target = outcome.version /\ unit = "written" /\ enabled
           /\ unstopped \/ running \in {None, outcome.version}
    /\ outcome.kind = "removed" =>
           /\ target = None /\ unit = "none"
           /\ unstopped \/ running = None

=============================================================================
