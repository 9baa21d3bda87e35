-------------------------- MODULE MCRuntimeStaging --------------------------
(* Small instances of RuntimeStaging for TLC. *)
EXTENDS RuntimeStaging, TLC

CONSTANTS p, q, s1, s2, u1, u2

MCDest   == {p, q}
MCSource == {s1, s2}
MCUrl    == {u1, u2}

Declares(atP, atQ) == (p :> atP) @@ (q :> atQ)

(* An asset changing its source or giving way to a cache, a cache changing  *)
(* its url, giving way to an asset or no longer declared.                   *)
MCBundle     == {Declares(s1, u1), Declares(s2, u2), Declares(u1, Nothing),
                 Declares(s1, s2)}
MCBundleFew  == {Declares(s1, u1), Declares(s2, u2)}
MCTimeless   == {s2}
=============================================================================
