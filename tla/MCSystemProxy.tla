----------------------------- MODULE MCSystemProxy -----------------------------
(***************************************************************************)
(* Instances of SystemProxy for TLC.                                       *)
(***************************************************************************)
EXTENDS SystemProxy, TLC

ProxySymmetry == Permutations(Service) \cup Permutations(Address)
=============================================================================
