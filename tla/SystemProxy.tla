------------------------------ MODULE SystemProxy ------------------------------
(***************************************************************************)
(* The macOS proxy settings as the handlers StartClash, StopClash and      *)
(* SetSystemProxy change them (server.rs, proxy.rs).  A setting is made by  *)
(* two writes, of the system proxy and of the automatic one, each to the   *)
(* network service that is active when it is made.  Either write may fail  *)
(* with its work half done, or find no active service; the network changes *)
(* when it likes, and the service may die between two steps.               *)
(*                                                                         *)
(* The handlers hold OWNER_LIFECYCLE_LOCK: there is one at a time.  Their   *)
(* other effects are those of OwnerLifecycle, seen through OwnerContract:   *)
(* whether an owner is committed, and how far a takeover or stop has come.  *)
(***************************************************************************)
EXTENDS Integers

CONSTANTS
    Service,   \* network services
    Address,   \* proxies and PAC urls, all of them the core's
    Off,       \* a setting that is disabled
    Partial,   \* what a write leaves that failed midway
    None       \* no service, no request

ASSUME SettingAssumption ==
    Off \notin Address /\ Partial \notin Address \cup {Off}
ASSUME NoneAssumption == None \notin Service

VARIABLES
    system, auto, \* the two settings of each network service
    active,       \* the active network service
    owned,        \* an owner is committed
    op,           \* the handler: its kind, and the proxy it is to apply
    pc, purpose,  \* its step, and what the writes are for
    goal,         \* the configuration being written
    first,        \* the service that got the first write of the goal
    cause,        \* why the last write failed
    nothingToUndo,\* the local of apply_proxy_or_direct_with
    reply,        \* the outcome of the last handler
    moved,        \* history: the network changed since the handler began
    tangled       \* history: services whose settings come from the halves of
                  \* two goals, since the network changed between two writes

settings == <<system, auto>>
handler  == <<op, pc, purpose, goal, first, cause, nothingToUndo>>
vars     == <<settings, active, owned, handler, reply, moved, tangled>>

Setting == Address \cup {Off, Partial}

(* MacosProxyConfig: Disabled, Global or Pac. *)
Disabled  == [system |-> Off, auto |-> Off]
Global(a) == [system |-> a, auto |-> Off]
Pac(a)    == [system |-> Off, auto |-> a]
Config    == {Disabled} \cup {Global(a) : a \in Address}
                        \cup {Pac(a) : a \in Address}

NoOp == [kind |-> "none", proxy |-> None]
Op   == [kind : {"none", "start", "stop", "set"}, proxy : Config \cup {None}]

Direct(s)    == system[s] = Off /\ auto[s] = Off
Exact(s, c)  == system[s] = c.system /\ auto[s] = c.auto

Init ==
    /\ system = [s \in Service |-> Off] /\ auto = [s \in Service |-> Off]
    /\ active \in Service \cup {None}
    /\ owned = FALSE
    /\ op = NoOp /\ pc = "idle" /\ purpose = "none" /\ goal = Disabled
    /\ first = None /\ cause = "none" /\ nothingToUndo = FALSE
    /\ reply = "none" /\ moved = FALSE /\ tangled = {}

-----------------------------------------------------------------------------
(* The environment. *)

NetworkChanges(s) ==
    /\ s # active
    /\ active' = s /\ moved' = TRUE
    /\ UNCHANGED <<settings, owned, handler, reply, tangled>>

(* How far the handler has come with cores and owners. *)
Stage == CASE pc = "stopping" -> IF op.kind = "start" THEN "replacing" ELSE "stopping"
           [] pc = "starting" -> "starting"
           [] OTHER           -> "free"

Owners == INSTANCE OwnerContract WITH stage <- Stage

(* The service dies in the middle of a handler: what has been written stays, *)
(* and the commit or its withdrawal may be on disk.                         *)
Crash ==
    /\ pc # "idle"
    /\ op' = NoOp /\ pc' = "idle" /\ purpose' = "none" /\ goal' = Disabled
    /\ first' = None /\ cause' = "none" /\ nothingToUndo' = FALSE
    /\ reply' = "none"
    /\ UNCHANGED <<settings, active, moved, tangled>>
    /\ \/ Owners!End \/ Owners!Finish
       \/ Stage = "free" /\ UNCHANGED owned

(* Maintenance, while the service is down. *)
PruneSession ==
    /\ pc = "idle"
    /\ UNCHANGED <<settings, active, handler, reply, moved, tangled>>
    /\ Owners!Prune

-----------------------------------------------------------------------------
(* apply_with_backend: the conflicting mode is disabled first. *)

Write(c, p) ==
    /\ goal' = c /\ purpose' = p
    /\ pc' = "first" /\ first' = None /\ cause' = "none"

Reply(r) ==
    /\ reply' = r
    /\ op' = NoOp /\ pc' = "idle" /\ purpose' = "none" /\ goal' = Disabled
    /\ first' = None /\ cause' = "none" /\ nothingToUndo' = FALSE

(* The mode that the second write enables; Disabled ends with auto. *)
Last(c) == IF c.system # Off THEN "system" ELSE "auto"

Half(was, new) == IF was = new THEN {was} ELSE {was, Partial}

(* Mutant: both modes in the same order, whichever is to be enabled. *)
FirstWriteOfSystem ==
    /\ pc = "first" /\ active # None
    /\ system' = [system EXCEPT ![active] = goal.system] /\ UNCHANGED auto
    /\ pc' = "second" /\ first' = active
    /\ UNCHANGED <<active, owned, op, purpose, goal, cause, nothingToUndo, reply,
                   moved, tangled>>

FirstWrite ==
    /\ pc = "first" /\ active # None
    /\ IF Last(goal) = "system"
       THEN auto' = [auto EXCEPT ![active] = Off] /\ UNCHANGED system
       ELSE system' = [system EXCEPT ![active] = Off] /\ UNCHANGED auto
    /\ pc' = "second" /\ first' = active
    /\ UNCHANGED <<active, owned, op, purpose, goal, cause, nothingToUndo, reply,
                   moved, tangled>>

FirstWriteFails ==
    /\ pc = "first" /\ active # None
    /\ IF Last(goal) = "system"
       THEN \E v \in Half(auto[active], Off) :
               auto' = [auto EXCEPT ![active] = v] /\ UNCHANGED system
       ELSE \E v \in Half(system[active], Off) :
               system' = [system EXCEPT ![active] = v] /\ UNCHANGED auto
    /\ pc' = "failed" /\ cause' = "write"
    /\ UNCHANGED <<active, owned, op, purpose, goal, first, nothingToUndo, reply,
                   moved, tangled>>

(* Unless the network changed in between, both writes are to one service. *)
Tangle ==
    tangled' = IF first = active THEN tangled \ {active}
                                 ELSE tangled \cup {active}

SecondWrite ==
    /\ pc = "second" /\ active # None
    /\ IF Last(goal) = "system"
       THEN system' = [system EXCEPT ![active] = goal.system] /\ UNCHANGED auto
       ELSE auto' = [auto EXCEPT ![active] = goal.auto] /\ UNCHANGED system
    /\ Tangle
    /\ pc' = "applied"
    /\ UNCHANGED <<active, owned, op, purpose, goal, first, cause, nothingToUndo,
                   reply, moved>>

SecondWriteFails ==
    /\ pc = "second" /\ active # None
    /\ IF Last(goal) = "system"
       THEN \E v \in Half(system[active], goal.system) :
               system' = [system EXCEPT ![active] = v] /\ UNCHANGED auto
       ELSE \E v \in Half(auto[active], goal.auto) :
               auto' = [auto EXCEPT ![active] = v] /\ UNCHANGED system
    /\ Tangle
    /\ pc' = "failed" /\ cause' = "write"
    /\ UNCHANGED <<active, owned, op, purpose, goal, first, nothingToUndo, reply,
                   moved>>

(* NoActiveNetworkService. *)
LookupFails ==
    /\ pc \in {"first", "second"} /\ active = None
    /\ pc' = "failed" /\ cause' = "lookup"
    /\ UNCHANGED <<settings, active, owned, op, purpose, goal, first,
                   nothingToUndo, reply, moved, tangled>>

-----------------------------------------------------------------------------
(* The handlers. *)

(* Mutant: the previous proxy is left to the new owner's. *)
StartClashUncleared(c) ==
    /\ pc = "idle"
    /\ op' = [kind |-> "start", proxy |-> c]
    /\ pc' = "stopping" /\ purpose' = "none" /\ goal' = Disabled
    /\ first' = None /\ cause' = "none"
    /\ reply' = "none" /\ moved' = FALSE
    /\ UNCHANGED <<settings, active, owned, nothingToUndo, tangled>>

StartClash(c) ==
    /\ pc = "idle"
    /\ op' = [kind |-> "start", proxy |-> c]
    /\ Write(Disabled, "clear")
    /\ reply' = "none" /\ moved' = FALSE
    /\ UNCHANGED <<settings, active, owned, nothingToUndo, tangled>>

StopClash ==
    /\ pc = "idle" /\ owned
    /\ op' = [kind |-> "stop", proxy |-> None]
    /\ Write(Disabled, "clear")
    /\ reply' = "none" /\ moved' = FALSE
    /\ UNCHANGED <<settings, active, owned, nothingToUndo, tangled>>

SetSystemProxy(c) ==
    /\ pc = "idle" /\ owned
    /\ op' = [kind |-> "set", proxy |-> c]
    /\ Write(c, "apply")
    /\ reply' = "none" /\ moved' = FALSE
    /\ UNCHANGED <<settings, active, owned, nothingToUndo, tangled>>

(* clear_proxy: with no active service there is nothing to clear. *)
Cleared ==
    /\ purpose = "clear"
    /\ pc = "applied" \/ (pc = "failed" /\ cause = "lookup")
    /\ pc' = "stopping"
    /\ UNCHANGED <<settings, active, op, purpose, goal, first, cause,
                   nothingToUndo, reply, moved, tangled>>
    /\ Owners!Begin \/ Owners!BeginStop

ClearFails ==
    /\ purpose = "clear" /\ pc = "failed" /\ cause # "lookup"
    /\ Write(Disabled, "compensate")
    /\ UNCHANGED <<settings, active, owned, op, nothingToUndo, reply, moved,
                   tangled>>

(* Mutant: the handler that gives up is still accounted for. *)
CompensatedHeld ==
    /\ purpose = "compensate" /\ pc \in {"applied", "failed"}
    /\ reply' = "error" /\ pc' = "idle"
    /\ UNCHANGED <<settings, active, owned, op, purpose, goal, first, cause,
                   nothingToUndo, moved, tangled>>

(* The handler gives up, whether the compensation worked or not. *)
Compensated ==
    /\ purpose = "compensate" /\ pc \in {"applied", "failed"}
    /\ Reply("error")
    /\ UNCHANGED <<settings, active, owned, moved, tangled>>

(* The core is stopped and its owner cleared. *)
StopCore ==
    /\ pc = "stopping"
    /\ UNCHANGED <<settings, active, moved, tangled>>
    /\ \/ /\ op.kind = "start" /\ pc' = "starting"
          /\ UNCHANGED <<op, purpose, goal, first, cause, nothingToUndo, reply>>
          /\ Owners!Empty
       \/ op.kind = "stop" /\ Reply("stopped") /\ Owners!End /\ ~owned'

(* The core cannot be stopped, or the files cannot be written after it. *)
StopFails ==
    /\ pc = "stopping"
    /\ Reply("error")
    /\ UNCHANGED <<settings, active, moved, tangled>>
    /\ Owners!End

(* The core starts and its owner is committed. *)
StartCore ==
    /\ pc = "starting"
    /\ IF op.proxy = None
       THEN Reply("not_requested")
       ELSE Write(op.proxy, "apply") /\ UNCHANGED <<op, nothingToUndo, reply>>
    /\ UNCHANGED <<settings, active, moved, tangled>>
    /\ Owners!Finish /\ owned'

(* The core does not start, or the commit fails and is rolled back, or that *)
(* fails; the commit may be on disk all the same.                           *)
StartFails ==
    /\ pc = "starting"
    /\ Reply("error")
    /\ UNCHANGED <<settings, active, moved, tangled>>
    /\ Owners!Finish

Applied ==
    /\ purpose = "apply" /\ pc = "applied"
    /\ Reply("applied")
    /\ UNCHANGED <<settings, active, owned, moved, tangled>>

(* Mutant: whatever was written is taken for undone. *)
ApplyFailsUndone ==
    /\ purpose = "apply" /\ pc = "failed"
    /\ Reply("direct")
    /\ UNCHANGED <<settings, active, owned, moved, tangled>>

(* apply_proxy_or_direct: direct mode, once. *)
ApplyFails ==
    /\ purpose = "apply" /\ pc = "failed"
    /\ Write(Disabled, "undo")
    /\ nothingToUndo' = (cause = "lookup")
    /\ UNCHANGED <<settings, active, owned, op, reply, moved, tangled>>

FallsBackToDirect ==
    /\ purpose = "undo"
    /\ \/ pc = "applied"
       \/ pc = "failed" /\ nothingToUndo /\ cause = "lookup"
    /\ Reply("direct")
    /\ UNCHANGED <<settings, active, owned, moved, tangled>>

UndoFails ==
    /\ purpose = "undo" /\ pc = "failed"
    /\ ~(nothingToUndo /\ cause = "lookup")
    /\ Reply("error")
    /\ UNCHANGED <<settings, active, owned, moved, tangled>>

-----------------------------------------------------------------------------
Environment ==
    \/ \E s \in Service \cup {None} : NetworkChanges(s)
    \/ Crash \/ PruneSession

Begin ==
    \/ \E c \in Config \cup {None} : StartClash(c)
    \/ StopClash
    \/ \E c \in Config : SetSystemProxy(c)

Step ==
    \/ FirstWrite \/ FirstWriteFails \/ SecondWrite \/ SecondWriteFails
    \/ LookupFails
    \/ Cleared \/ ClearFails \/ Compensated
    \/ StopCore \/ StopFails \/ StartCore \/ StartFails
    \/ Applied \/ ApplyFails \/ FallsBackToDirect \/ UndoFails

Next == Environment \/ Begin \/ Step

Spec == Init /\ [][Next]_vars

-----------------------------------------------------------------------------
(* Properties. *)

(* Every variable has its type; a handler at work has a kind and a purpose. *)
TypeOK ==
    /\ system \in [Service -> Setting] /\ auto \in [Service -> Setting]
    /\ active \in Service \cup {None} /\ owned \in BOOLEAN
    /\ op \in Op
    /\ pc \in {"idle", "first", "second", "applied", "failed", "stopping",
               "starting"}
    /\ pc = "idle" <=> op.kind = "none"
    /\ purpose \in {"none", "clear", "compensate", "apply", "undo"}
    /\ goal \in Config /\ first \in Service \cup {None}
    /\ cause \in {"none", "write", "lookup"} /\ nothingToUndo \in BOOLEAN
    /\ reply \in {"none", "error", "stopped", "not_requested", "applied",
                  "direct"}
    /\ moved \in BOOLEAN /\ tangled \subseteq Service

(* Both modes of a service are never enabled together, not even between the *)
(* two writes or when one of them fails midway: the conflicting mode is     *)
(* disabled first.  Only a network that changes in between can do that.     *)
ModesExclude ==
    \A s \in Service \ tangled : system[s] = Off \/ auto[s] = Off

(* A handler stops a core only once the network in use no longer depends on *)
(* it, if the network stays what it was while the handler ran.              *)
StopsAreDirect ==
    [][StopCore /\ ~moved /\ active # None => Direct(active)]_vars

(* A client told that the proxy is gone, though its own could not be set,   *)
(* has a direct network, and so has one that asked for none, whatever an    *)
(* earlier session or a crash left set; one told it is applied has just     *)
(* that one.                                                                *)
RepliesAreTrue ==
    ~moved /\ active # None =>
        /\ reply \in {"direct", "stopped", "not_requested"} => Direct(active)
        /\ pc = "applied" => Exact(active, goal)
=============================================================================
