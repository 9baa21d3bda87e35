---------------------------- MODULE OwnerContract ----------------------------
(***************************************************************************)
(* What the handlers promise about the committed owner, whatever fails in  *)
(* them and wherever the process dies: a takeover goes through a moment    *)
(* without any owner, nobody owns the service while a core is started, and *)
(* an owner is committed at the end of a start and at no other time.       *)
(* OwnerLifecycle implements this, and SystemProxy is built on it.         *)
(***************************************************************************)
VARIABLES
    owned,   \* an owner is committed
    stage    \* how far the handler has come

Stages == {"free", "replacing", "stopping", "starting"}

Init == ~owned /\ stage = "free"

(* A takeover stops the previous core, its owner still being committed ... *)
Begin ==
    /\ stage = "free" /\ stage' = "replacing"
    /\ UNCHANGED owned

(* ... then clears the owner, and starts the new core. *)
Empty ==
    /\ stage = "replacing" /\ stage' = "starting"
    /\ owned' = FALSE

(* A stop is for the committed owner only. *)
BeginStop ==
    /\ stage = "free" /\ owned /\ stage' = "stopping"
    /\ UNCHANGED owned

(* A stop, or a takeover that fails in its stop, is over. *)
End ==
    /\ stage \in {"replacing", "stopping"} /\ stage' = "free"
    /\ owned' \in {owned, FALSE}

(* A start is over: committed, refused, rolled back or left half-way. *)
Finish ==
    /\ stage = "starting" /\ stage' = "free"
    /\ owned' \in BOOLEAN

(* The account of the owner is gone. *)
Prune ==
    /\ stage = "free" /\ owned
    /\ owned' = FALSE
    /\ UNCHANGED stage

Next == Begin \/ Empty \/ BeginStop \/ End \/ Finish \/ Prune

Spec == Init /\ [][Next]_<<owned, stage>>
=============================================================================
