---------------------------- MODULE OwnerSessions ----------------------------
(***************************************************************************)
(* What owner sessions promise to the clients of the service, whatever     *)
(* crashes and whatever write fails.  At most one session is current, a     *)
(* session is granted only while there is none, and its generation is      *)
(* higher than that of every session before it, so that a session once     *)
(* revoked is never accepted again.  A boot resumes the configuration that *)
(* was granted with the current session, or none: one that is not resumed   *)
(* any more will not be until another session is granted.                  *)
(***************************************************************************)
EXTENDS Integers

CONSTANTS Owner, NoOwner, Config, NoConfig

VARIABLES
    current,   \* the session that proofs are checked against
    resumed,   \* the configuration that a boot would start
    highest    \* the highest generation ever granted

vars == <<current, resumed, highest>>

NoSession == [owner |-> NoOwner, generation |-> 0, config |-> NoConfig]
Session   == [owner : Owner, generation : Nat, config : Config]

Init == current = NoSession /\ resumed = NoConfig /\ highest = 0

Grant ==
    /\ current = NoSession
    /\ current' \in Session
    /\ current'.generation > highest
    /\ highest' = current'.generation
    /\ resumed' \in {current'.config, NoConfig}

(* A stop is on its way, or the desired state is lost. *)
Withdraw ==
    /\ resumed # NoConfig
    /\ resumed' = NoConfig
    /\ UNCHANGED <<current, highest>>

Revoke ==
    /\ current # NoSession
    /\ current' = NoSession
    /\ resumed' = NoConfig
    /\ UNCHANGED highest

Next == Grant \/ Withdraw \/ Revoke

Spec == Init /\ [][Next]_vars
=============================================================================
