--------------------------- MODULE MCOwnerLifecycle ---------------------------
(***************************************************************************)
(* Instances of OwnerLifecycle for TLC.                                    *)
(***************************************************************************)
EXTENDS OwnerLifecycle, TLC

CONSTANTS alice, bob, k1, k2, p1, p2

MCOwner     == {alice, bob}
MCOwnerOne  == {alice}
MCConfig    == {k1, k2}
MCConfigOne == {k1}
MCPid       == {p1, p2}

Symmetry ==
    Permutations(Owner) \cup Permutations(Config) \cup Permutations(Pid)
=============================================================================
