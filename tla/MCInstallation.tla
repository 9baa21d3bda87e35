---------------------------- MODULE MCInstallation ----------------------------
(***************************************************************************)
(* Instance of Installation for TLC: of three builds, the first two work   *)
(* with each other's clients, the third has another protocol epoch.        *)
(***************************************************************************)
EXTENDS Installation, TLC

CONSTANTS v1, v2, v3

MCVersion == {v1, v2, v3}
MCServes  == {<<v1, v1>>, <<v1, v2>>, <<v2, v1>>, <<v2, v2>>, <<v3, v3>>}

Symmetry == Permutations(Installer)
=============================================================================
