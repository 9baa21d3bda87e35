--------------------------- MODULE MCServiceElection ---------------------------
(***************************************************************************)
(* Instances of ServiceElection for TLC.  Reusable tells one process from  *)
(* the others, and the runs are not reduced by symmetry.                   *)
(***************************************************************************)
EXTENDS ServiceElection
=============================================================================
