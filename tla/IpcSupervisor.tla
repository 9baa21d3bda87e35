----------------------------- MODULE IpcSupervisor -----------------------------
(***************************************************************************)
(* The IPC listener of one service process (server.rs): run_ipc_server     *)
(* makes one, stop_ipc_server ends it, both under IPC_LIFECYCLE_LOCK, and   *)
(* run_ipc_supervisor_until_shutdown calls them: it rebuilds a listener     *)
(* that ends, waits longer each time, gives up when that happens too often *)
(* within a window, and stops core and listener on request.  The library    *)
(* exports stop_ipc_server; others may call it beside the supervisor.      *)
(*                                                                         *)
(* Time is discrete.  Instants are kept as ages, the ticks that passed     *)
(* since, and forgotten once they are as old as the window: the code only  *)
(* asks whether they are younger.                                          *)
(***************************************************************************)
EXTENDS Naturals, Sequences, FiniteSets

CONSTANTS
    Supervisor,   \* the task that runs the supervisor
    Guest,        \* other callers of stop_ipc_server
    Listener,     \* tasks spawned by run_ipc_server; used again when forgotten
    None,
    MaxRestarts,  \* IPC_MAX_RESTARTS
    Window,       \* IPC_RESTART_WINDOW, in ticks
    MaxBackoff    \* IPC_MAX_BACKOFF, in ticks; the first back-off is one tick

ASSUME CallerAssumption ==
    Supervisor \notin Guest /\ None \notin Guest \cup {Supervisor} \cup Listener

ASSUME BudgetAssumption ==
    MaxRestarts \in Nat /\ Window \in Nat \ {0} /\ MaxBackoff \in Nat \ {0}

Caller == Guest \cup {Supervisor}

VARIABLES
    pc,        \* each caller's step
    state,     \* the service's lifecycle cell
    shutdown,  \* shutdown has been asked for
    lock,      \* who holds IPC_LIFECYCLE_LOCK
    server,    \* IPC_SERVER holds a server
    sender,    \* the listener that IPC_SHUTDOWN_SENDER ends
    done,      \* the listener that IPC_SHUTDOWN_DONE waits for
    handle,    \* the supervisor's listener, from the making of its channels
    alive,     \* listeners whose half of the done channel still exists
    told,      \* listeners whose shutdown channel was used or dropped
    awaits,    \* the listener a caller waits for with the receiver it took
    times,     \* ages of restart_timestamps, oldest first
    attempt,   \* consecutive_attempt
    sleep,     \* what is left of the back-off
    granted    \* history: ages of the ends that were answered by a rebuild,
               \* as far back as the window of the latest one

budget   == <<times, attempt, sleep, granted>>
channels == <<sender, done, alive, told, awaits>>
ipc      == <<lock, server, handle, channels>>
vars     == <<pc, state, shutdown, ipc, budget>>

at(c, step) == pc[c] = step
Goto(c, step) == pc' = [pc EXCEPT ![c] = step]

(* Those younger than the window.  The oldest come first.                  *)
Recent(ages) ==
    LET old == {i \in DOMAIN ages : ages[i] >= Window}
    IN  SubSeq(ages, Cardinality(old) + 1, Len(ages))

(* Attempts above this have the same back-off. *)
LastAttempt == 4

(* ipc_backoff_delay: 0, 1, 2, 4, 8, 8, ... ticks, up to the maximum. *)
Backoff(n) ==
    LET d == CASE n = 0 -> 0 [] n = 1 -> 1 [] n = 2 -> 2 [] n = 3 -> 4
               [] OTHER -> 8
    IN  IF d < MaxBackoff THEN d ELSE MaxBackoff

Init ==
    /\ pc = [c \in Caller |-> IF c = Supervisor THEN "wantRun" ELSE "idle"]
    /\ state = "starting" /\ shutdown = FALSE
    /\ lock = None /\ server = FALSE /\ sender = None /\ done = None
    /\ handle = None /\ alive = {} /\ told = {}
    /\ awaits = [c \in Caller |-> None]
    /\ times = <<>> /\ attempt = 0 /\ sleep = 0 /\ granted = <<>>

-----------------------------------------------------------------------------
(* The environment. *)

RequestShutdown ==
    /\ ~shutdown /\ shutdown' = TRUE
    /\ UNCHANGED <<pc, state, ipc, budget>>

(* Somebody else stops the listener. *)
Call(g) ==
    /\ at(g, "idle") /\ Goto(g, "wantStop")
    /\ UNCHANGED <<state, shutdown, ipc, budget>>

Older(ages) ==
    [i \in DOMAIN ages |-> IF ages[i] < Window THEN ages[i] + 1 ELSE Window]

(* Steps before the shutdown is seen; no instant is looked at afterwards. *)
Supervising ==
    {"wantRun", "init", "channels", "done", "spawn", "serving", "backoff"}

Tick ==
    /\ pc[Supervisor] \in Supervising
    /\ times' = Older(times)
    /\ granted' = Older(granted)
    /\ sleep' = IF sleep = 0 THEN 0 ELSE sleep - 1
    /\ UNCHANGED <<pc, state, shutdown, ipc, attempt>>

-----------------------------------------------------------------------------
(* The task of a listener: done_tx is used or dropped when it ends. *)

ListenerGone ==
    /\ handle \in alive /\ pc[Supervisor] \notin {"done", "spawn"}
    /\ alive' = alive \ {handle} /\ told' = told \ {handle}
    /\ UNCHANGED <<pc, state, shutdown, lock, server, handle, sender, done,
                   awaits, budget>>

ListenerEnds == handle \notin told /\ ListenerGone

ListenerObeys == handle \in told /\ ListenerGone

(* The sender that leaves its slot is used or dropped: either is heard. *)
Tell == told' = IF sender \in alive THEN told \cup {sender} ELSE told

-----------------------------------------------------------------------------
(* run_ipc_server, which only the supervisor calls. *)

LockRun ==
    /\ at(Supervisor, "wantRun") /\ lock = None
    /\ lock' = Supervisor /\ Goto(Supervisor, "init")
    /\ UNCHANGED <<state, shutdown, server, handle, channels, budget>>

Fail == Goto(Supervisor, "failed") /\ state' = "fatal"

(* Directory, stale socket and server.  Each of them may fail.             *)
InitServer ==
    /\ at(Supervisor, "init")
    /\ server' = TRUE /\ Goto(Supervisor, "channels")
    /\ UNCHANGED <<state, shutdown, lock, handle, channels, budget>>

InitFails ==
    /\ at(Supervisor, "init")
    /\ lock' = None /\ Fail
    /\ UNCHANGED <<shutdown, server, handle, channels, budget>>

SetSender ==
    /\ at(Supervisor, "channels")
    /\ \E l \in Listener \ (alive \cup {sender, done}) :
          /\ \A c \in Caller : awaits[c] # l
          /\ handle' = l /\ sender' = l /\ alive' = alive \cup {l}
    /\ Tell
    /\ Goto(Supervisor, "done")
    /\ UNCHANGED <<state, shutdown, lock, server, done, awaits, budget>>

SetDone ==
    /\ at(Supervisor, "done")
    /\ done' = handle /\ Goto(Supervisor, "spawn")
    /\ UNCHANGED <<state, shutdown, lock, server, handle, sender, alive, told,
                   awaits, budget>>

(* Without a server there is nothing to spawn, and both halves are dropped. *)
Spawn ==
    /\ at(Supervisor, "spawn")
    /\ lock' = None /\ server' = FALSE
    /\ IF server
       THEN /\ Goto(Supervisor, "serving") /\ state' = "running"
            /\ UNCHANGED <<alive, told>>
       ELSE Fail /\ alive' = alive \ {handle} /\ told' = told \ {handle}
    /\ UNCHANGED <<shutdown, handle, sender, done, awaits, budget>>

-----------------------------------------------------------------------------
(* The supervisor's loop. *)

(* The end of the listener's task is taken note of, within the budget. *)
Note(ages, n) ==
    /\ times' = Append(ages, 0)
    /\ handle' = None
    /\ IF Len(ages) + 1 > MaxRestarts
       THEN Fail /\ attempt' = n /\ UNCHANGED <<sleep, granted>>
       ELSE /\ Goto(Supervisor, "backoff") /\ state' = "recovering"
            /\ sleep' = Backoff(n)
            /\ attempt' = IF n < LastAttempt THEN n + 1 ELSE LastAttempt
            /\ granted' = Append(Recent(granted), 0)
    /\ UNCHANGED <<shutdown, lock, server, channels>>

Joinable == at(Supervisor, "serving") /\ handle \notin alive

(* Mutant: the window is a tick short. *)
JoinForgetful ==
    /\ Joinable
    /\ LET recent == Recent(Older(times))
       IN  Note(recent, IF recent = <<>> THEN 0 ELSE attempt)

(* Mutant: restarts are never forgotten. *)
JoinUnforgiving ==
    /\ Joinable
    /\ Note(times, IF times = <<>> THEN 0 ELSE attempt)

Join ==
    /\ Joinable
    /\ LET recent == Recent(times)
       IN  Note(recent, IF recent = <<>> THEN 0 ELSE attempt)

(* Mutant: the back-off is not waited for. *)
RebuildEarly ==
    /\ at(Supervisor, "backoff") /\ Goto(Supervisor, "wantRun")
    /\ UNCHANGED <<state, shutdown, ipc, budget>>

Rebuild ==
    /\ at(Supervisor, "backoff") /\ sleep = 0
    /\ Goto(Supervisor, "wantRun")
    /\ UNCHANGED <<state, shutdown, ipc, budget>>

SelectShutdown ==
    /\ at(Supervisor, "serving") /\ shutdown
    /\ Goto(Supervisor, "wantStop")
    /\ UNCHANGED <<state, shutdown, ipc, budget>>

-----------------------------------------------------------------------------
(* stop_ipc_server: the core first, then the listener. *)

LockStop(c) ==
    /\ at(c, "wantStop") /\ lock = None
    /\ lock' = c /\ Goto(c, "stopping")
    /\ UNCHANGED <<state, shutdown, server, handle, channels, budget>>

StopCore(c) ==
    /\ at(c, "stopping") /\ Goto(c, "signalling")
    /\ UNCHANGED <<state, shutdown, ipc, budget>>

(* stop_core does not return, and the lock is kept: see StopReturns in      *)
(* CoreManager.  That it returns an error is unreachable.                  *)
StopCoreHangs(c) ==
    /\ at(c, "stopping") /\ Goto(c, "hung")
    /\ UNCHANGED <<state, shutdown, ipc, budget>>

(* Mutant: the sender is looked at and stays in its slot. *)
SignalKept(c) ==
    /\ at(c, "signalling") /\ Goto(c, "taking")
    /\ UNCHANGED <<state, shutdown, ipc, budget>>

Signal(c) ==
    /\ at(c, "signalling")
    /\ Tell /\ sender' = None
    /\ Goto(c, "taking")
    /\ UNCHANGED <<state, shutdown, lock, server, handle, done, alive, awaits,
                   budget>>

(* Mutant: the lock is released before the wait. *)
TakeDoneUnlocked(c) ==
    /\ at(c, "taking")
    /\ awaits' = [awaits EXCEPT ![c] = done] /\ done' = None
    /\ lock' = None /\ Goto(c, "draining")
    /\ UNCHANGED <<state, shutdown, server, handle, sender, alive, told,
                   budget>>

TakeDone(c) ==
    /\ at(c, "taking")
    /\ awaits' = [awaits EXCEPT ![c] = done] /\ done' = None
    /\ Goto(c, "draining")
    /\ UNCHANGED <<state, shutdown, lock, server, handle, sender, alive, told,
                   budget>>

(* The receiver resolves when the other half is used or dropped; without a *)
(* receiver there is nothing to wait for.                                  *)
Drain(c) ==
    /\ at(c, "draining") /\ awaits[c] \notin alive
    /\ awaits' = [awaits EXCEPT ![c] = None]
    /\ Goto(c, "closing")
    /\ UNCHANGED <<state, shutdown, lock, server, handle, sender, done, alive,
                   told, budget>>

(* shutdown_ipc_server. *)
CloseServer(c) ==
    /\ at(c, "closing")
    /\ server' = FALSE /\ Goto(c, "cleaning")
    /\ UNCHANGED <<state, shutdown, lock, handle, channels, budget>>

(* The removal of the socket may fail; the supervisor returns that error.   *)
CleanUp(c) ==
    /\ at(c, "cleaning") /\ lock' = None
    /\ \E end \in IF c = Supervisor THEN {"stopped", "failed"} ELSE {"idle"} :
          Goto(c, end)
    /\ UNCHANGED <<state, shutdown, server, handle, channels, budget>>

-----------------------------------------------------------------------------
(* What run_ipc_server does once it has the lock. *)
RunStep == InitServer \/ InitFails \/ SetSender \/ SetDone \/ Spawn

Run == LockRun \/ RunStep

(* What a stop does once it has the lock. *)
StopStep(c) ==
    \/ StopCore(c) \/ StopCoreHangs(c) \/ Signal(c) \/ TakeDone(c)
    \/ Drain(c) \/ CloseServer(c) \/ CleanUp(c)

Stop(c) == LockStop(c) \/ StopStep(c)

Next ==
    \/ RequestShutdown \/ Tick
    \/ ListenerEnds \/ ListenerObeys
    \/ Run \/ Join \/ Rebuild \/ SelectShutdown
    \/ \E g \in Guest : Call(g)
    \/ \E c \in Caller : Stop(c)

Spec == Init /\ [][Next]_vars

(* Every task is polled and time passes.  The lock is granted in the order *)
(* of the requests, so that nobody is passed over for ever; select! takes   *)
(* either of two arms that are ready, at random.                           *)
Fairness ==
    /\ WF_vars(RunStep) /\ WF_vars(Rebuild)
    /\ WF_vars(ListenerObeys) /\ WF_vars(Tick)
    /\ SF_vars(LockRun) /\ SF_vars(SelectShutdown)
    /\ \A c \in Caller : WF_vars(StopStep(c)) /\ SF_vars(LockStop(c))

FairSpec == Spec /\ Fairness

-----------------------------------------------------------------------------
(* Properties. *)

StopSteps == {"wantStop", "stopping", "hung", "signalling", "taking",
              "draining", "closing", "cleaning"}

Steps(c) == StopSteps \cup
    IF c = Supervisor THEN Supervising \cup {"stopped", "failed"} ELSE {"idle"}

(* Every variable has its type; the budget is never overdrawn by more than  *)
(* the end that made the supervisor give up.                               *)
TypeOK ==
    /\ pc \in [Caller -> UNION {Steps(c) : c \in Caller}]
    /\ \A c \in Caller : pc[c] \in Steps(c)
    /\ state \in {"starting", "running", "recovering", "fatal"}
    /\ shutdown \in BOOLEAN /\ server \in BOOLEAN
    /\ lock \in Caller \cup {None}
    /\ sender \in Listener \cup {None} /\ done \in Listener \cup {None}
    /\ handle \in Listener \cup {None}
    /\ alive \subseteq Listener /\ told \subseteq alive
    /\ awaits \in [Caller -> Listener \cup {None}]
    /\ times \in Seq(0..Window) /\ attempt \in 0..LastAttempt
    /\ sleep \in 0..MaxBackoff /\ (sleep > 0 => at(Supervisor, "backoff"))
    /\ granted \in Seq(0..Window)
    /\ Len(times) <= MaxRestarts + 1
    /\ Len(times) = MaxRestarts + 1 => state = "fatal"

(* Whichever window one looks at, a listener that keeps ending is rebuilt   *)
(* no more often than the budget allows within it.                         *)
RebuildsAreRationed == Len(Recent(granted)) <= MaxRestarts

(* The supervisor gives up on ends of the listener only if they come in a   *)
(* burst: one more than the budget within a window, however many there were *)
(* before.                                                                 *)
GivesUpOnBurstsOnly ==
    [][Join /\ at(Supervisor, "failed")' =>
         Len(Recent(granted)) = MaxRestarts]_vars

(* While a stop clears the server and removes the socket there is no        *)
(* listener, neither the one it has waited for nor one that was made since; *)
(* nor is there one once the supervisor has returned, whoever took the      *)
(* channels of the last one out of their slots.                            *)
StopIsComplete ==
    /\ \A c \in Caller : pc[c] \in {"closing", "cleaning"} => alive = {}
    /\ pc[Supervisor] \in {"stopped", "failed"} => alive = {}

Hung == \E c \in Caller : at(c, "hung")

(* A shutdown is served, however often the listener ends, or is stopped by  *)
(* others, and rebuilt in the meantime, and every other stop returns: none   *)
(* waits for a listener that was not told.  The exception is a stop of the   *)
(* core that never returns, with the lock held.                            *)
ShutdownIsServed ==
    /\ shutdown ~> Hung \/ pc[Supervisor] \in {"stopped", "failed"}
    /\ \A g \in Guest : at(g, "wantStop") ~> Hung \/ at(g, "idle")
=============================================================================
