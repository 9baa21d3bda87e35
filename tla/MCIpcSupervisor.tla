---------------------------- MODULE MCIpcSupervisor ----------------------------
(***************************************************************************)
(* Instance of IpcSupervisor for TLC: callers and listeners are model      *)
(* values, the budget small numbers, given in the configuration.  The code *)
(* has 10 restarts in 100 ticks of 100 ms and a back-off of 5 at most.     *)
(***************************************************************************)
EXTENDS IpcSupervisor
=============================================================================
