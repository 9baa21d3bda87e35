----------------------------- MODULE MCCoreManager -----------------------------
(***************************************************************************)
(* Instances of CoreManager for TLC.  Both runs are under fairness, and so *)
(* not reduced by symmetry.                                                *)
(***************************************************************************)
EXTENDS CoreManager

CONSTANTS p1, p2, k1, k2

MCPid       == {p1, p2}
MCConfig    == {k1, k2}
MCConfigOne == {k1}
=============================================================================
