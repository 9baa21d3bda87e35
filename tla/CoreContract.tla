----------------------------- MODULE CoreContract -----------------------------
(***************************************************************************)
(* What the core manager promises to the handlers that call it, whatever   *)
(* fails and whatever its watchdog does meanwhile.  It holds one core at a *)
(* time, with the configuration it was started with, from the spawn until  *)
(* a stop confirms its death or the lifecycle cell says Fatal; restarts of *)
(* that core in between do not show.  CoreManager implements this, and     *)
(* OwnerLifecycle is built on it.                                          *)
(***************************************************************************)
CONSTANTS Config, NoConfig

VARIABLES
    held,      \* the configuration of the core the manager holds
    alive,     \* a process of that core is alive
    fatal,     \* the lifecycle cell says Fatal
    settled    \* the start of the held core has returned

vars == <<held, alive, fatal, settled>>

Init == held = NoConfig /\ ~alive /\ ~fatal /\ ~settled

Holds == held # NoConfig

Freed == held' = NoConfig /\ ~alive' /\ ~settled'

(* A start begins, or fails before it has a process. *)
Report ==
    /\ ~Holds
    /\ fatal' \in BOOLEAN
    /\ UNCHANGED <<held, alive, settled>>

Spawn(cfg) ==
    /\ ~Holds
    /\ held' = cfg /\ alive' = TRUE /\ fatal' = FALSE /\ settled' = FALSE

(* The start returns Ok: nobody but a stop may now take the core away. *)
Settle ==
    /\ Holds /\ ~settled
    /\ settled' = TRUE /\ fatal' = FALSE
    /\ UNCHANGED <<held, alive>>

(* The start returns an error: the core it spawned is dead ... *)
Undo ==
    /\ Holds /\ ~settled
    /\ Freed /\ fatal' \in BOOLEAN

(* ... or could not be killed.  A stop or the watchdog may fail to kill it  *)
(* as well: the core stays held, for the next stop to try again.            *)
KillFails ==
    /\ Holds
    /\ settled' = TRUE /\ fatal' = TRUE
    /\ UNCHANGED <<held, alive>>

(* The process exits, or is killed. *)
Die ==
    /\ Holds
    /\ alive' = FALSE
    /\ UNCHANGED <<held, fatal, settled>>

(* The watchdog replaces it. *)
Restart ==
    /\ settled /\ ~fatal
    /\ alive' = TRUE
    /\ UNCHANGED <<held, fatal, settled>>

(* Supervision gives the core up. *)
GiveUp ==
    /\ settled
    /\ Freed /\ fatal' = TRUE

(* stop_core returns Ok. *)
Stop ==
    /\ Holds => settled
    /\ Freed /\ fatal' = FALSE

Next ==
    \/ Report \/ \E cfg \in Config : Spawn(cfg)
    \/ Settle \/ Undo \/ KillFails
    \/ Die \/ Restart \/ GiveUp \/ Stop

Spec == Init /\ [][Next]_vars
=============================================================================
