---------------------------- MODULE ServiceElection ----------------------------
(***************************************************************************)
(* The election of the process that is the service (owner.rs), and the     *)
(* listener of the process elected (server.rs, bin/service.rs).  Any number *)
(* of service processes may be started.  The owner lock elects one; it is  *)
(* released when the process that holds it ends, but the lock file, the pid *)
(* file and the socket in the runtime directory outlive it.                *)
(*                                                                         *)
(* A process that finds the lock held reads the pid of its owner, probes   *)
(* the socket, and leaves if the owner answers.  Otherwise it terminates   *)
(* that pid, removes pid file and socket, and tries for the lock again.    *)
(*                                                                         *)
(* A pid is what the operating system calls a process: when the process is *)
(* gone the number may be given to an unrelated one, or to another service *)
(* process.  This is the Unix build: on Windows the listener is a named    *)
(* pipe, which nobody can remove.                                          *)
(***************************************************************************)
EXTENDS Integers

CONSTANTS
    Pid,              \* process numbers
    Nothing,          \* no pid, no file, no socket
    Stale,            \* a socket file whose listener is gone
    Maintenance,      \* cleanup_stale_owner_state, which takes the lock too
    Reusable,         \* numbers that are given out again after an end
    HealthAttempts,   \* OWNER_HEALTH_ATTEMPTS
    ReacquireAttempts \* OWNER_REACQUIRE_ATTEMPTS

ASSUME NullAssumption ==
    /\ {Nothing, Stale, Maintenance} \cap Pid = {}
    /\ Nothing # Stale /\ Nothing # Maintenance
ASSUME ReuseAssumption == Reusable \subseteq Pid
ASSUME AttemptsAssumption ==
    /\ HealthAttempts \in Nat \ {0} /\ ReacquireAttempts \in Nat \ {0}

VARIABLES
    phase,     \* where each process is
    old, tries, \* locals of acquire_service_owner: old_pid and the attempts
    holder,    \* who holds the owner lock
    lockfile,  \* the pid= line of the lock file
    pidfile,   \* the pid file
    socket,    \* the socket's path: the process whose listener it is
    bound,     \* processes with a live listener
    slow,      \* processes that do not answer in time
    signalled  \* processes whose shutdown_signal has completed

procVars == <<phase, old, tries>>
fileVars == <<lockfile, pidfile>>
ipcVars  == <<socket, bound, slow, signalled>>
vars     == <<procVars, holder, fileVars, ipcVars>>

(* The part of a process in acquire_service_owner. *)
Starter == {"locking", "reading", "readingLock", "probing", "deciding",
            "terminating", "killing", "rechecking", "cleaning", "unlinking",
            "retrying"}

(* The part in which it has the lock. *)
Owner == {"recording", "stamping", "publishing", "booting", "binding",
          "serving", "recovering", "stopping", "dropping", "releasing"}

Phase == {"free", "dead", "other", "exiting"} \cup Starter \cup Owner

Runs(q)   == phase[q] \notin {"free", "dead"}
Service   == {p \in Pid : phase[p] \in Starter \cup Owner \cup {"exiting"}}
Reachable == socket \in bound
Healthy   == Reachable /\ socket \notin slow

Init ==
    /\ phase = [p \in Pid |-> "free"]
    /\ old = [p \in Pid |-> Nothing] /\ tries = [p \in Pid |-> 0]
    /\ holder = Nothing
    /\ lockfile = Nothing /\ pidfile = Nothing
    /\ socket = Nothing /\ bound = {} /\ slow = {} /\ signalled = {}

Goto(p, next) == phase' = [phase EXCEPT ![p] = next]

(* What the operating system does when q ends. *)
Ends(q) ==
    /\ holder' = IF holder = q THEN Nothing ELSE holder
    /\ socket' = IF socket = q THEN Stale ELSE socket
    /\ bound' = bound \ {q} /\ slow' = slow \ {q}
    /\ signalled' = signalled \ {q}

Exit(p) ==
    /\ Goto(p, "dead") /\ Ends(p)
    /\ old' = [old EXCEPT ![p] = Nothing] /\ tries' = [tries EXCEPT ![p] = 0]
    /\ UNCHANGED fileVars

-----------------------------------------------------------------------------
(* The environment. *)

(* Somebody starts a service process: the service manager, an installer. *)
Start(p) ==
    /\ phase[p] = "free" \/ (p \in Reusable /\ phase[p] = "dead")
    /\ Goto(p, "locking")
    /\ UNCHANGED <<old, tries, holder, fileVars, ipcVars>>

(* A process is killed, or panics. *)
Crash(p) == p \in Service /\ Exit(p)

OtherStarts(p) ==
    /\ p \in Reusable /\ phase[p] = "dead"
    /\ Goto(p, "other")
    /\ UNCHANGED <<old, tries, holder, fileVars, ipcVars>>

OtherExits(p) ==
    /\ phase[p] = "other"
    /\ Goto(p, "dead")
    /\ UNCHANGED <<old, tries, holder, fileVars, ipcVars>>

Slows(p) ==
    /\ p \in bound \ slow
    /\ slow' = slow \cup {p}
    /\ UNCHANGED <<procVars, holder, fileVars, socket, bound, signalled>>

Answers(p) ==
    /\ p \in slow
    /\ slow' = slow \ {p}
    /\ UNCHANGED <<procVars, holder, fileVars, socket, bound, signalled>>

(* The service manager stops the service. *)
Terminate(p) ==
    /\ phase[p] \in {"binding", "serving", "recovering"}
    /\ signalled' = signalled \cup {p}
    /\ UNCHANGED <<procVars, holder, fileVars, socket, bound, slow>>

(* Maintenance takes the lock and writes nothing into the file. *)
MaintenanceBegins ==
    /\ holder = Nothing
    /\ holder' = Maintenance
    /\ UNCHANGED <<procVars, fileVars, ipcVars>>

MaintenanceEnds ==
    /\ holder = Maintenance
    /\ holder' = Nothing
    /\ UNCHANGED <<procVars, fileVars, ipcVars>>

-----------------------------------------------------------------------------
(* acquire_service_owner. *)

(* Mutant: the pid file is written before the lock is tried. *)
TryAcquireAnnounced(p) ==
    /\ phase[p] = "locking"
    /\ pidfile' = p
    /\ IF holder = Nothing THEN Goto(p, "recording") /\ holder' = p
                           ELSE Goto(p, "reading") /\ UNCHANGED holder
    /\ UNCHANGED <<old, tries, lockfile, ipcVars>>

TryAcquire(p) ==
    /\ phase[p] = "locking"
    /\ IF holder = Nothing THEN Goto(p, "recording") /\ holder' = p
                           ELSE Goto(p, "reading") /\ UNCHANGED holder
    /\ UNCHANGED <<old, tries, fileVars, ipcVars>>

(* read_owner_pid: the pid file, else the lock file. *)
ReadPidFile(p) ==
    /\ phase[p] = "reading"
    /\ old' = [old EXCEPT ![p] = pidfile]
    /\ Goto(p, IF pidfile = Nothing THEN "readingLock" ELSE "probing")
    /\ UNCHANGED <<tries, holder, fileVars, ipcVars>>

ReadLockFile(p) ==
    /\ phase[p] = "readingLock"
    /\ old' = [old EXCEPT ![p] = lockfile]
    /\ Goto(p, "probing")
    /\ UNCHANGED <<tries, holder, fileVars, ipcVars>>

ProbeSucceeds(p) == phase[p] = "probing" /\ Healthy /\ Exit(p)

(* Mutant: one attempt too many. *)
ProbeFailsOnceMore(p) ==
    /\ phase[p] = "probing" /\ ~Healthy
    /\ IF tries[p] + 1 <= HealthAttempts
       THEN tries' = [tries EXCEPT ![p] = @ + 1] /\ UNCHANGED phase
       ELSE tries' = [tries EXCEPT ![p] = 0] /\ Goto(p, "deciding")
    /\ UNCHANGED <<old, holder, fileVars, ipcVars>>

ProbeFails(p) ==
    /\ phase[p] = "probing" /\ ~Healthy
    /\ IF tries[p] + 1 < HealthAttempts
       THEN tries' = [tries EXCEPT ![p] = @ + 1] /\ UNCHANGED phase
       ELSE tries' = [tries EXCEPT ![p] = 0] /\ Goto(p, "deciding")
    /\ UNCHANGED <<old, holder, fileVars, ipcVars>>

RefuseTakeover(p) ==
    /\ phase[p] = "deciding"
    /\ old[p] \in {Nothing, p}
    /\ Exit(p)

OldOwnerIsGone(p) ==
    /\ phase[p] = "deciding"
    /\ old[p] \notin {Nothing, p} /\ ~Runs(old[p])
    /\ Goto(p, "rechecking")
    /\ UNCHANGED <<old, tries, holder, fileVars, ipcVars>>

(* A service process handles SIGTERM from run_ipc_supervisor on. *)
Handles(q) == phase[q] \in {"binding", "serving", "recovering", "stopping",
                            "dropping", "releasing", "exiting"}

(* The signal of p ends q; an unrelated process or a handler may ignore it. *)
Strikes(p, q, next) ==
    /\ phase' = [phase EXCEPT ![p] = next, ![q] = "dead"]
    /\ Ends(q)
    /\ old' = [old EXCEPT ![q] = Nothing] /\ tries' = [tries EXCEPT ![q] = 0]

SendSigterm(p) ==
    /\ phase[p] = "deciding"
    /\ old[p] \notin {Nothing, p} /\ Runs(old[p])
    /\ \/ ~Handles(old[p]) /\ Strikes(p, old[p], "terminating")
       \/ /\ Handles(old[p]) \/ phase[old[p]] = "other"
          /\ Goto(p, "terminating")
          /\ signalled' = IF Handles(old[p]) THEN signalled \cup {old[p]}
                                             ELSE signalled
          /\ UNCHANGED <<old, tries, holder, socket, bound, slow>>
    /\ UNCHANGED fileVars

(* It is gone within the second that terminate_process waits. *)
TerminateSucceeds(p) ==
    /\ phase[p] \in {"terminating", "killing"} /\ ~Runs(old[p])
    /\ Goto(p, "rechecking")
    /\ UNCHANGED <<old, tries, holder, fileVars, ipcVars>>

(* A process in the kernel's hands outlives the signal for a while. *)
SendSigkill(p) ==
    /\ phase[p] = "terminating" /\ Runs(old[p])
    /\ \/ Strikes(p, old[p], "killing")
       \/ /\ Goto(p, "killing")
          /\ UNCHANGED <<old, tries, holder, ipcVars>>
    /\ UNCHANGED fileVars

(* It is looked at once more. *)
StillAlive(p) ==
    /\ phase[p] \in {"killing", "rechecking"} /\ Runs(old[p])
    /\ Exit(p)

StillGone(p) ==
    /\ phase[p] = "rechecking" /\ ~Runs(old[p])
    /\ Goto(p, "cleaning")
    /\ UNCHANGED <<old, tries, holder, fileVars, ipcVars>>

(* cleanup_runtime_artifacts, whosever they are by now. *)
CleanUpPidFile(p) ==
    /\ phase[p] = "cleaning"
    /\ pidfile' = Nothing
    /\ Goto(p, "unlinking")
    /\ UNCHANGED <<old, tries, holder, lockfile, ipcVars>>

CleanUpSocket(p) ==
    /\ phase[p] = "unlinking"
    /\ socket' = Nothing
    /\ Goto(p, "retrying")
    /\ UNCHANGED <<old, tries, holder, fileVars, bound, slow, signalled>>

(* Mutant: whoever stopped the old owner takes its lock. *)
ReacquireTakes(p) ==
    /\ phase[p] = "retrying"
    /\ holder' = p
    /\ Goto(p, "recording")
    /\ old' = [old EXCEPT ![p] = Nothing] /\ tries' = [tries EXCEPT ![p] = 0]
    /\ UNCHANGED <<fileVars, ipcVars>>

Reacquire(p) ==
    /\ phase[p] = "retrying" /\ holder = Nothing
    /\ holder' = p
    /\ Goto(p, "recording")
    /\ old' = [old EXCEPT ![p] = Nothing] /\ tries' = [tries EXCEPT ![p] = 0]
    /\ UNCHANGED <<fileVars, ipcVars>>

(* Mutant: it waits for the lock as long as it takes. *)
ReacquireFailsForever(p) ==
    phase[p] = "retrying" /\ holder # Nothing /\ UNCHANGED vars

ReacquireFails(p) ==
    /\ phase[p] = "retrying" /\ holder # Nothing
    /\ IF tries[p] + 1 < ReacquireAttempts
       THEN /\ tries' = [tries EXCEPT ![p] = @ + 1]
            /\ UNCHANGED <<phase, old, holder, fileVars, ipcVars>>
       ELSE Exit(p)

-----------------------------------------------------------------------------
(* ServiceOwnerGuard: its metadata when it is made, its Drop. *)

TruncateLockFile(p) ==
    /\ phase[p] = "recording"
    /\ lockfile' = Nothing
    /\ Goto(p, "stamping")
    /\ UNCHANGED <<old, tries, holder, pidfile, ipcVars>>

StampLockFile(p) ==
    /\ phase[p] = "stamping"
    /\ lockfile' = p
    /\ Goto(p, "publishing")
    /\ UNCHANGED <<old, tries, holder, pidfile, ipcVars>>

(* Mutant: the pid file is only created. *)
PublishPidOnce(p) ==
    /\ phase[p] = "publishing"
    /\ pidfile' = IF pidfile = Nothing THEN p ELSE pidfile
    /\ Goto(p, "booting")
    /\ UNCHANGED <<old, tries, holder, lockfile, ipcVars>>

PublishPid(p) ==
    /\ phase[p] = "publishing"
    /\ pidfile' = p
    /\ Goto(p, "booting")
    /\ UNCHANGED <<old, tries, holder, lockfile, ipcVars>>

MetadataFails(p) == phase[p] \in {"recording", "stamping", "publishing"} /\ Exit(p)

RemovePidFile(p) ==
    /\ phase[p] = "dropping"
    /\ pidfile' = Nothing
    /\ Goto(p, "releasing")
    /\ UNCHANGED <<old, tries, holder, lockfile, ipcVars>>

ReleaseLock(p) ==
    /\ phase[p] = "releasing"
    /\ holder' = Nothing
    /\ Goto(p, "exiting")
    /\ UNCHANGED <<old, tries, fileVars, ipcVars>>

ProcessExits(p) == phase[p] = "exiting" /\ Exit(p)

-----------------------------------------------------------------------------
(* The listener: run_ipc_server, run_ipc_supervisor_until_shutdown and      *)
(* stop_ipc_server.  The boot before it takes its time.                     *)

(* cleanup_stale_ipc_socket leaves a socket that accepts connections. *)
RunIpcServer(p) ==
    /\ phase[p] \in {"booting", "recovering"}
    /\ socket' = IF Reachable THEN socket ELSE Nothing
    /\ Goto(p, "binding")
    /\ UNCHANGED <<old, tries, holder, fileVars, bound, slow, signalled>>

(* The listener cannot be made, or was rebuilt too often. *)
IpcServerFails(p) ==
    /\ phase[p] \in {"booting", "recovering"}
    /\ Goto(p, "dropping")
    /\ UNCHANGED <<old, tries, holder, fileVars, ipcVars>>

(* The library binds the path, or finds it in use and gives up. *)
Listen(p) ==
    /\ phase[p] = "binding"
    /\ socket' = p /\ bound' = bound \cup {p}
    /\ Goto(p, "serving")
    /\ UNCHANGED <<old, tries, holder, fileVars, slow, signalled>>

(* serve returns: an error, or nothing left to serve. *)
ServeEnds(p) ==
    /\ phase[p] \in {"binding", "serving"}
    /\ bound' = bound \ {p} /\ slow' = slow \ {p}
    /\ \/ socket' = IF socket = p THEN Stale ELSE socket
       \/ socket = p /\ socket' = Nothing
    /\ Goto(p, "recovering")
    /\ UNCHANGED <<old, tries, holder, fileVars, signalled>>

ShutdownSelected(p) ==
    /\ phase[p] \in {"binding", "serving"} /\ p \in signalled
    /\ Goto(p, "stopping")
    /\ UNCHANGED <<old, tries, holder, fileVars, ipcVars>>

(* stop_ipc_server: the core, the listener, the socket's path. *)
StopIpcServer(p) ==
    /\ phase[p] = "stopping"
    /\ bound' = bound \ {p} /\ slow' = slow \ {p}
    /\ socket' = Nothing
    /\ Goto(p, "dropping")
    /\ UNCHANGED <<old, tries, holder, fileVars, signalled>>

(* The path cannot be removed, and stays with nothing behind it. *)
StopIpcServerFails(p) ==
    /\ phase[p] = "stopping"
    /\ bound' = bound \ {p} /\ slow' = slow \ {p}
    /\ socket' = IF socket = p THEN Stale ELSE socket
    /\ Goto(p, "dropping")
    /\ UNCHANGED <<old, tries, holder, fileVars, signalled>>

-----------------------------------------------------------------------------
Environment(p) ==
    \/ Start(p) \/ Crash(p) \/ OtherStarts(p) \/ OtherExits(p)
    \/ Slows(p) \/ Answers(p) \/ Terminate(p)

Acquire(p) ==
    \/ TryAcquire(p) \/ ReadPidFile(p) \/ ReadLockFile(p)
    \/ ProbeSucceeds(p) \/ ProbeFails(p)
    \/ RefuseTakeover(p) \/ OldOwnerIsGone(p)
    \/ SendSigterm(p) \/ TerminateSucceeds(p) \/ SendSigkill(p)
    \/ StillAlive(p) \/ StillGone(p) \/ CleanUpPidFile(p) \/ CleanUpSocket(p)
    \/ Reacquire(p) \/ ReacquireFails(p)

Own(p) ==
    \/ TruncateLockFile(p) \/ StampLockFile(p) \/ PublishPid(p)
    \/ MetadataFails(p)
    \/ RunIpcServer(p) \/ IpcServerFails(p) \/ Listen(p) \/ ServeEnds(p)
    \/ ShutdownSelected(p) \/ StopIpcServer(p) \/ StopIpcServerFails(p)
    \/ RemovePidFile(p) \/ ReleaseLock(p) \/ ProcessExits(p)

Next ==
    \/ MaintenanceBegins \/ MaintenanceEnds
    \/ \E p \in Pid : Environment(p) \/ Acquire(p) \/ Own(p)

Spec == Init /\ [][Next]_vars

(* A starter runs: every wait of acquire_service_owner is bounded. *)
FairSpec == Spec /\ \A p \in Pid : WF_vars(Acquire(p))

-----------------------------------------------------------------------------
(* Properties. *)

(* Every variable has its type, attempts are within their bound, and only   *)
(* processes that run have listeners.                                       *)
TypeOK ==
    /\ phase \in [Pid -> Phase]
    /\ old \in [Pid -> Pid \cup {Nothing}] /\ tries \in [Pid -> Nat]
    /\ \A p \in Pid : tries[p] < IF phase[p] = "probing" THEN HealthAttempts
                                                        ELSE ReacquireAttempts
    /\ holder \in Pid \cup {Nothing, Maintenance}
    /\ lockfile \in Pid \cup {Nothing} /\ pidfile \in Pid \cup {Nothing}
    /\ socket \in Pid \cup {Nothing, Stale}
    /\ bound \subseteq Service /\ slow \subseteq bound /\ signalled \subseteq Service

(* One process at a time is the service, or maintenance is under way,       *)
(* however processes crash, kill each other and take over.                  *)
OneOwner ==
    /\ \A p, q \in Pid : phase[p] \in Owner /\ phase[q] \in Owner => p = q
    /\ holder = Maintenance => \A p \in Pid : phase[p] \notin Owner

(* Once the owner has written its metadata, the pid that another process    *)
(* reads is its own, and no clean-up or late exit of another changes that.  *)
HolderIsKnown ==
    \A p \in Pid :
        phase[p] \in Owner \ {"recording", "stamping", "publishing"} =>
            lockfile = p /\ pidfile \in {p, Nothing}

(* A takeover is only ever aimed at a process that has been the owner, and  *)
(* never at one that is itself waiting for the lock, from the decision to   *)
(* the last signal: in so far as the number it found was not reused.        *)
OnlyOwnersAreTerminated ==
    \A p \in Pid :
        /\ phase[p] \in {"deciding", "terminating", "killing"}
        /\ old[p] \notin Reusable \cup {Nothing}
        => phase[old[p]] \in Owner \cup {"exiting", "dead"}

(* A listener that is up is found at the path, whoever else starts.  The    *)
(* clean-up is of a stale owner: an owner that serves keeps its socket.     *)
ServingIsReachable ==
    \A p \in Pid : phase[p] = "serving" => socket = p

(* acquire_service_owner comes to an end, whatever the others do. *)
AcquisitionDecides ==
    \A p \in Pid : phase[p] \in Starter ~> phase[p] \notin Starter
=============================================================================
