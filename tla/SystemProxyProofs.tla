--------------------------- MODULE SystemProxyProofs ---------------------------
(***************************************************************************)
(* Proofs about SystemProxy, for any network services and addresses.       *)
(***************************************************************************)
EXTENDS SystemProxy, TLAPS

(* A configuration enables one mode at most. *)
LEMMA ConfigIsSound ==
    ASSUME NEW c \in Config
    PROVE  /\ c.system \in Setting \ {Partial} /\ c.auto \in Setting \ {Partial}
           /\ Last(c) = "system" => c.auto = Off
           /\ Last(c) # "system" => c.system = Off
  BY SettingAssumption DEF Config, Disabled, Global, Pac, Last, Setting

LEMMA DisabledIsConfig ==
    Disabled \in Config /\ Disabled.system = Off /\ Disabled.auto = Off
  BY DEF Config, Disabled

(* Between the writes the conflicting mode of the first service is off. *)
Between ==
    pc = "second" =>
        /\ first \in Service
        /\ Last(goal) = "system" => auto[first] = Off
        /\ Last(goal) # "system" => system[first] = Off

(* Whoever clears, compensates or undoes writes direct mode. *)
Aims == purpose \in {"clear", "compensate", "undo"} => goal = Disabled

(* A handler at work has not replied. *)
Silent == pc # "idle" => reply = "none"

(* What a program point knows of a network that stays what it was. *)
Steady ==
    ~moved =>
        /\ pc = "second" => first = active
        /\ pc = "failed" /\ cause = "lookup" => active = None
        /\ active # None =>
              /\ pc = "applied" => Exact(active, goal)
              /\ pc \in {"stopping", "starting"} => Direct(active)
              /\ reply \in {"direct", "stopped", "not_requested"} =>
                    Direct(active)

IInv == TypeOK /\ ModesExclude /\ Between /\ Aims /\ Silent /\ Steady

USE SettingAssumption, NoneAssumption

-----------------------------------------------------------------------------
LEMMA InitIInv == Init => IInv
<1> SUFFICES ASSUME Init PROVE IInv
  OBVIOUS
<1>1. TypeOK
  BY DisabledIsConfig DEF Init, TypeOK, NoOp, Op, Setting
<1>2. ModesExclude
  BY DEF Init, ModesExclude
<1>3. Between /\ Aims /\ Silent /\ Steady
  BY DEF Init, Between, Aims, Silent, Steady
<1>4. QED  BY <1>1, <1>2, <1>3 DEF IInv

LEMMA NetworkChangesIInv ==
    ASSUME NEW s \in Service \cup {None}, IInv, NetworkChanges(s) PROVE IInv'
<1>1. TypeOK'
  BY DEF IInv, TypeOK, NetworkChanges, settings, handler, NoOp, Op,
         Setting
<1>2. ModesExclude'
  BY DEF IInv, TypeOK, ModesExclude, NetworkChanges, settings, handler
<1>3. Between'
  BY DEF IInv, TypeOK, Between, NetworkChanges, settings, handler
<1>4. Aims'
  BY DEF IInv, TypeOK, Aims, NetworkChanges, settings, handler
<1>5. Silent'
  BY DEF IInv, TypeOK, Silent, NetworkChanges, settings, handler
<1>6. Steady'
  BY DEF IInv, TypeOK, Steady, NetworkChanges, settings, handler,
         Direct, Exact
<1>7. QED  BY <1>1, <1>2, <1>3, <1>4, <1>5, <1>6 DEF IInv

LEMMA PruneSessionIInv ==
    ASSUME IInv, PruneSession PROVE IInv'
<1>1. /\ owned' = FALSE
      /\ UNCHANGED <<system, auto, active, op, pc, purpose, goal, first, cause,
                     nothingToUndo, reply, moved, tangled>>
  BY DEF PruneSession, Owners!Prune, settings, handler
<1>2. TypeOK'
  <2>1. owned' \in BOOLEAN
    BY <1>1
  <2>2. (pc = "idle" <=> op.kind = "none")'
    BY <1>1 DEF IInv, TypeOK
  <2>3. QED  BY <1>1, <2>1, <2>2 DEF IInv, TypeOK
<1>3. (ModesExclude /\ Between /\ Aims /\ Silent)'
  BY <1>1 DEF IInv, ModesExclude, Between, Aims, Silent
<1>4. Steady'
  BY <1>1 DEF IInv, Steady, Direct, Exact
<1>5. QED  BY <1>2, <1>3, <1>4 DEF IInv

LEMMA CrashIInv ==
    ASSUME IInv, Crash PROVE IInv'
<1>1. TypeOK'
  BY DisabledIsConfig DEF IInv, TypeOK, Crash, Owners!End, Owners!Finish,
         settings, handler, NoOp,
         Op, Setting
<1>2. ModesExclude'
  BY DEF IInv, TypeOK, ModesExclude, Crash, settings, handler
<1>3. Between'
  BY DEF IInv, TypeOK, Between, Crash, settings, handler
<1>4. Aims'
  BY DisabledIsConfig DEF IInv, TypeOK, Aims, Crash, settings, handler
<1>5. Silent'
  BY DEF IInv, TypeOK, Silent, Crash, settings, handler
<1>6. Steady'
  BY DisabledIsConfig DEF IInv, TypeOK, Steady, Crash, settings, handler,
         Direct, Exact
<1>7. QED  BY <1>1, <1>2, <1>3, <1>4, <1>5, <1>6 DEF IInv

LEMMA FirstWriteIInv ==
    ASSUME IInv, FirstWrite PROVE IInv'
<1>0. /\ goal.system \in Setting /\ goal.auto \in Setting
      /\ Last(goal) = "system" => goal.auto = Off
      /\ Last(goal) # "system" => goal.system = Off
  BY ConfigIsSound DEF IInv, TypeOK
<1>1. TypeOK'
  BY <1>0 DEF IInv, TypeOK, FirstWrite, settings, handler, NoOp, Op,
         Setting
<1>2. ModesExclude'
  BY <1>0 DEF IInv, TypeOK, ModesExclude, Between, FirstWrite, settings,
         handler
<1>3. Between'
  BY <1>0 DEF IInv, TypeOK, Between, FirstWrite, settings, handler
<1>4. Aims'
  BY <1>0 DEF IInv, TypeOK, Aims, FirstWrite, settings, handler
<1>5. Silent'
  BY DEF IInv, TypeOK, Silent, FirstWrite, settings, handler
<1>6. Steady'
  BY <1>0 DEF IInv, TypeOK, Steady, Between, Silent, FirstWrite, settings,
         handler, Direct, Exact
<1>7. QED  BY <1>1, <1>2, <1>3, <1>4, <1>5, <1>6 DEF IInv

LEMMA FirstWriteFailsIInv ==
    ASSUME IInv, FirstWriteFails PROVE IInv'
<1>0. /\ goal.system \in Setting /\ goal.auto \in Setting
      /\ Last(goal) = "system" => goal.auto = Off
      /\ Last(goal) # "system" => goal.system = Off
  BY ConfigIsSound DEF IInv, TypeOK
<1>1. TypeOK'
  BY <1>0 DEF IInv, TypeOK, FirstWriteFails, Half, settings, handler,
         NoOp, Op, Setting
<1>2. ModesExclude'
  BY <1>0 DEF IInv, TypeOK, ModesExclude, Between, FirstWriteFails, Half,
         settings, handler
<1>3. Between'
  BY <1>0 DEF IInv, TypeOK, Between, FirstWriteFails, Half, settings, handler
<1>4. Aims'
  BY <1>0 DEF IInv, TypeOK, Aims, FirstWriteFails, Half, settings, handler
<1>5. Silent'
  BY DEF IInv, TypeOK, Silent, FirstWriteFails, Half, settings, handler
<1>6. Steady'
  BY <1>0 DEF IInv, TypeOK, Steady, Between, Silent, FirstWriteFails, Half,
         settings, handler, Direct, Exact
<1>7. QED  BY <1>1, <1>2, <1>3, <1>4, <1>5, <1>6 DEF IInv

LEMMA SecondWriteIInv ==
    ASSUME IInv, SecondWrite PROVE IInv'
<1>0. /\ goal.system \in Setting /\ goal.auto \in Setting
      /\ Last(goal) = "system" => goal.auto = Off
      /\ Last(goal) # "system" => goal.system = Off
  BY ConfigIsSound DEF IInv, TypeOK
<1>1. TypeOK'
  BY <1>0 DEF IInv, TypeOK, SecondWrite, Tangle, settings, handler,
         NoOp, Op, Setting
<1>2. ModesExclude'
  BY <1>0 DEF IInv, TypeOK, ModesExclude, Between, SecondWrite, Tangle,
         settings, handler
<1>3. Between'
  BY <1>0 DEF IInv, TypeOK, Between, SecondWrite, Tangle, settings, handler
<1>4. Aims'
  BY <1>0 DEF IInv, TypeOK, Aims, SecondWrite, Tangle, settings, handler
<1>5. Silent'
  BY DEF IInv, TypeOK, Silent, SecondWrite, Tangle, settings, handler
<1>6. Steady'
  BY <1>0 DEF IInv, TypeOK, Steady, Between, Silent, SecondWrite, Tangle,
         settings, handler, Direct, Exact
<1>7. QED  BY <1>1, <1>2, <1>3, <1>4, <1>5, <1>6 DEF IInv

LEMMA SecondWriteFailsIInv ==
    ASSUME IInv, SecondWriteFails PROVE IInv'
<1>0. /\ goal.system \in Setting /\ goal.auto \in Setting
      /\ Last(goal) = "system" => goal.auto = Off
      /\ Last(goal) # "system" => goal.system = Off
  BY ConfigIsSound DEF IInv, TypeOK
<1>1. TypeOK'
  BY <1>0 DEF IInv, TypeOK, SecondWriteFails, Tangle, Half, settings, handler,
         NoOp, Op, Setting
<1>2. ModesExclude'
  BY <1>0 DEF IInv, TypeOK, ModesExclude, Between, SecondWriteFails, Tangle,
         Half, settings, handler
<1>3. Between'
  BY <1>0 DEF IInv, TypeOK, Between, SecondWriteFails, Tangle, Half, settings,
         handler
<1>4. Aims'
  BY <1>0 DEF IInv, TypeOK, Aims, SecondWriteFails, Tangle, Half, settings,
         handler
<1>5. Silent'
  BY DEF IInv, TypeOK, Silent, SecondWriteFails, Tangle, Half, settings,
         handler
<1>6. Steady'
  BY <1>0 DEF IInv, TypeOK, Steady, Between, Silent, SecondWriteFails, Tangle,
         Half, settings, handler, Direct, Exact
<1>7. QED  BY <1>1, <1>2, <1>3, <1>4, <1>5, <1>6 DEF IInv

LEMMA LookupFailsIInv ==
    ASSUME IInv, LookupFails PROVE IInv'
<1>1. TypeOK'
  BY DEF IInv, TypeOK, LookupFails, settings, handler, NoOp, Op, Setting
<1>2. ModesExclude'
  BY DEF IInv, TypeOK, ModesExclude, LookupFails, settings, handler
<1>3. Between'
  BY DEF IInv, TypeOK, Between, LookupFails, settings, handler
<1>4. Aims'
  BY DEF IInv, TypeOK, Aims, LookupFails, settings, handler
<1>5. Silent'
  BY DEF IInv, TypeOK, Silent, LookupFails, settings, handler
<1>6. Steady'
  BY DEF IInv, TypeOK, Steady, LookupFails, settings, handler, Direct,
         Exact
<1>7. QED  BY <1>1, <1>2, <1>3, <1>4, <1>5, <1>6 DEF IInv

LEMMA StartClashIInv ==
    ASSUME NEW c \in Config \cup {None}, IInv, StartClash(c) PROVE IInv'
<1>1. TypeOK'
  BY DisabledIsConfig DEF IInv, TypeOK, StartClash, Write, settings, handler,
         NoOp, Op, Setting
<1>2. ModesExclude'
  BY DEF IInv, TypeOK, ModesExclude, StartClash, Write, settings, handler
<1>3. Between'
  BY DEF IInv, TypeOK, Between, StartClash, Write, settings, handler
<1>4. Aims'
  BY DisabledIsConfig DEF IInv, TypeOK, Aims, StartClash, Write, settings,
         handler
<1>5. Silent'
  BY DEF IInv, TypeOK, Silent, StartClash, Write, settings, handler
<1>6. Steady'
  BY DisabledIsConfig DEF IInv, TypeOK, Steady, StartClash, Write, settings,
         handler, Direct, Exact
<1>7. QED  BY <1>1, <1>2, <1>3, <1>4, <1>5, <1>6 DEF IInv

LEMMA StopClashIInv ==
    ASSUME IInv, StopClash PROVE IInv'
<1>1. TypeOK'
  BY DisabledIsConfig DEF IInv, TypeOK, StopClash, Write, settings, handler,
         NoOp, Op, Setting
<1>2. ModesExclude'
  BY DEF IInv, TypeOK, ModesExclude, StopClash, Write, settings, handler
<1>3. Between'
  BY DEF IInv, TypeOK, Between, StopClash, Write, settings, handler
<1>4. Aims'
  BY DisabledIsConfig DEF IInv, TypeOK, Aims, StopClash, Write, settings,
         handler
<1>5. Silent'
  BY DEF IInv, TypeOK, Silent, StopClash, Write, settings, handler
<1>6. Steady'
  BY DisabledIsConfig DEF IInv, TypeOK, Steady, StopClash, Write, settings,
         handler, Direct, Exact
<1>7. QED  BY <1>1, <1>2, <1>3, <1>4, <1>5, <1>6 DEF IInv

LEMMA SetSystemProxyIInv ==
    ASSUME NEW c \in Config, IInv, SetSystemProxy(c) PROVE IInv'
<1>1. TypeOK'
  BY DisabledIsConfig DEF IInv, TypeOK, SetSystemProxy, Write, settings,
         handler, NoOp, Op, Setting
<1>2. ModesExclude'
  BY DEF IInv, TypeOK, ModesExclude, SetSystemProxy, Write, settings, handler
<1>3. Between'
  BY DEF IInv, TypeOK, Between, SetSystemProxy, Write, settings, handler
<1>4. Aims'
  BY DisabledIsConfig DEF IInv, TypeOK, Aims, SetSystemProxy, Write, settings,
         handler
<1>5. Silent'
  BY DEF IInv, TypeOK, Silent, SetSystemProxy, Write, settings, handler
<1>6. Steady'
  BY DisabledIsConfig DEF IInv, TypeOK, Steady, SetSystemProxy, Write,
         settings, handler, Direct, Exact
<1>7. QED  BY <1>1, <1>2, <1>3, <1>4, <1>5, <1>6 DEF IInv

LEMMA ClearedIInv ==
    ASSUME IInv, Cleared PROVE IInv'
<1>1. TypeOK'
  BY DisabledIsConfig DEF IInv, TypeOK, Cleared, Owners!Begin,
         Owners!BeginStop, Aims, settings, handler, NoOp, Op, Setting
<1>2. ModesExclude'
  BY DEF IInv, TypeOK, ModesExclude, Cleared, Aims, settings, handler
<1>3. Between'
  BY DEF IInv, TypeOK, Between, Cleared, Aims, settings, handler
<1>4. Aims'
  BY DisabledIsConfig DEF IInv, TypeOK, Aims, Cleared, settings, handler
<1>5. Silent'
  BY DEF IInv, TypeOK, Silent, Cleared, Aims, settings, handler
<1>6. Steady'
  BY DisabledIsConfig DEF IInv, TypeOK, Steady, Silent, Cleared, Aims,
         settings, handler, Direct, Exact
<1>7. QED  BY <1>1, <1>2, <1>3, <1>4, <1>5, <1>6 DEF IInv

LEMMA ClearFailsIInv ==
    ASSUME IInv, ClearFails PROVE IInv'
<1>1. TypeOK'
  BY DisabledIsConfig DEF IInv, TypeOK, ClearFails, Write, settings, handler,
         NoOp, Op, Setting
<1>2. ModesExclude'
  BY DEF IInv, TypeOK, ModesExclude, ClearFails, Write, settings, handler
<1>3. Between'
  BY DEF IInv, TypeOK, Between, ClearFails, Write, settings, handler
<1>4. Aims'
  BY DisabledIsConfig DEF IInv, TypeOK, Aims, ClearFails, Write, settings,
         handler
<1>5. Silent'
  BY DEF IInv, TypeOK, Silent, ClearFails, Write, settings, handler
<1>6. Steady'
  BY DisabledIsConfig DEF IInv, TypeOK, Steady, Silent, ClearFails, Write,
         settings, handler, Direct, Exact
<1>7. QED  BY <1>1, <1>2, <1>3, <1>4, <1>5, <1>6 DEF IInv

LEMMA CompensatedIInv ==
    ASSUME IInv, Compensated PROVE IInv'
<1>1. TypeOK'
  BY DisabledIsConfig DEF IInv, TypeOK, Compensated, Reply, settings, handler,
         NoOp, Op, Setting
<1>2. ModesExclude'
  BY DEF IInv, TypeOK, ModesExclude, Compensated, Reply, settings, handler
<1>3. Between'
  BY DEF IInv, TypeOK, Between, Compensated, Reply, settings, handler
<1>4. Aims'
  BY DisabledIsConfig DEF IInv, TypeOK, Aims, Compensated, Reply, settings,
         handler
<1>5. Silent'
  BY DEF IInv, TypeOK, Silent, Compensated, Reply, settings, handler
<1>6. Steady'
  BY DisabledIsConfig DEF IInv, TypeOK, Steady, Silent, Compensated, Reply,
         settings, handler, Direct, Exact
<1>7. QED  BY <1>1, <1>2, <1>3, <1>4, <1>5, <1>6 DEF IInv

LEMMA StopCoreIInv ==
    ASSUME IInv, StopCore PROVE IInv'
<1>1. TypeOK'
  <2>1. CASE op.kind = "start" /\ pc' = "starting" /\ UNCHANGED <<op, purpose,
             goal, first, cause, nothingToUndo, reply>>
    <3>1. owned' = FALSE /\ UNCHANGED <<system, auto, active, moved, tangled>>
      BY <2>1 DEF StopCore, Owners!Empty, Owners!End, Reply, NoOp, settings
    <3>2. pc = "stopping"
      BY DEF StopCore
    <3>3. owned' \in BOOLEAN /\ (pc = "idle" <=> op.kind = "none")'
      BY <2>1, <3>1, <3>2 DEF IInv, TypeOK
    <3>4. QED  BY <2>1, <3>1, <3>3 DEF IInv, TypeOK
  <2>2. CASE op.kind = "stop" /\ Reply("stopped")
    <3>1. UNCHANGED <<system, auto, active, moved, tangled>>
      BY DEF StopCore, settings
    <3>2. op' \in Op /\ op'.kind = "none" /\ goal' \in Config
      BY <2>2, DisabledIsConfig DEF Reply, NoOp, Op
    <3>3. owned' \in BOOLEAN
      BY <2>2 DEF StopCore, Owners!End, IInv, TypeOK
    <3>4. QED  BY <2>2, <3>1, <3>2, <3>3 DEF IInv, TypeOK, Reply
  <2>3. QED  BY <2>1, <2>2 DEF StopCore
<1>2. ModesExclude'
  BY DEF IInv, TypeOK, ModesExclude, StopCore, Reply, settings, handler
<1>3. Between'
  BY DEF IInv, TypeOK, Between, StopCore, Reply, settings, handler
<1>4. Aims'
  BY DisabledIsConfig DEF IInv, TypeOK, Aims, StopCore, Reply, settings,
         handler
<1>5. Silent'
  BY DEF IInv, TypeOK, Silent, StopCore, Reply, settings, handler
<1>6. Steady'
  BY DisabledIsConfig DEF IInv, TypeOK, Steady, Silent, StopCore, Reply,
         settings, handler, Direct, Exact
<1>7. QED  BY <1>1, <1>2, <1>3, <1>4, <1>5, <1>6 DEF IInv

LEMMA StopFailsIInv ==
    ASSUME IInv, StopFails PROVE IInv'
<1>1. TypeOK'
  BY DisabledIsConfig DEF IInv, TypeOK, StopFails, Owners!End, Reply,
         settings, NoOp, Op
<1>2. ModesExclude'
  BY DEF IInv, TypeOK, ModesExclude, StopFails, Reply, settings, handler
<1>3. Between'
  BY DEF IInv, TypeOK, Between, StopFails, Reply, settings, handler
<1>4. Aims'
  BY DisabledIsConfig DEF IInv, TypeOK, Aims, StopFails, Reply, settings,
         handler
<1>5. Silent'
  BY DEF IInv, TypeOK, Silent, StopFails, Reply, settings, handler
<1>6. Steady'
  BY DisabledIsConfig DEF IInv, TypeOK, Steady, Silent, StopFails, Reply,
         settings, handler, Direct, Exact
<1>7. QED  BY <1>1, <1>2, <1>3, <1>4, <1>5, <1>6 DEF IInv

LEMMA StartCoreIInv ==
    ASSUME IInv, StartCore PROVE IInv'
<1>1. TypeOK'
  <2>1. CASE op.proxy = None
    <3>1. /\ Reply("not_requested") /\ owned' \in BOOLEAN
          /\ UNCHANGED <<system, auto, active, moved, tangled>>
      BY <2>1 DEF StartCore, Owners!Finish, settings
    <3>2. op' = NoOp /\ op' \in Op
      BY <3>1 DEF Reply, NoOp, Op
    <3>3. op'.kind = "none" /\ pc' = "idle" /\ purpose' = "none"
          /\ cause' = "none"
          /\ goal' \in Config /\ first' = None /\ nothingToUndo' = FALSE
          /\ reply' = "not_requested"
      BY <3>1, <3>2, DisabledIsConfig DEF Reply, NoOp
    <3>4. QED  BY <3>1, <3>2, <3>3 DEF IInv, TypeOK
  <2>2. CASE op.proxy # None
    <3>1. op.proxy \in Config
      BY <2>2 DEF IInv, TypeOK, Op
    <3>2. QED  BY <2>2, <3>1 DEF IInv, TypeOK, StartCore, Owners!Finish,
           Write, settings
  <2>3. QED  BY <2>1, <2>2
<1>2. ModesExclude'
  BY DEF IInv, TypeOK, ModesExclude, StartCore, Write, Reply, settings,
         handler
<1>3. Between'
  BY DEF IInv, TypeOK, Between, StartCore, Write, Reply, settings, handler
<1>4. Aims'
  BY DisabledIsConfig DEF IInv, TypeOK, Aims, StartCore, Write, Reply,
         settings, handler
<1>5. Silent'
  BY DEF IInv, TypeOK, Silent, StartCore, Write, Reply, settings, handler
<1>6. Steady'
  BY DisabledIsConfig DEF IInv, TypeOK, Steady, Silent, StartCore, Write,
         Reply, settings, handler, Direct, Exact
<1>7. QED  BY <1>1, <1>2, <1>3, <1>4, <1>5, <1>6 DEF IInv

LEMMA StartFailsIInv ==
    ASSUME IInv, StartFails PROVE IInv'
<1>1. TypeOK'
  BY DisabledIsConfig DEF IInv, TypeOK, StartFails, Owners!Finish, Reply,
         settings, NoOp, Op
<1>2. ModesExclude'
  BY DEF IInv, TypeOK, ModesExclude, StartFails, Reply, settings, handler
<1>3. Between'
  BY DEF IInv, TypeOK, Between, StartFails, Reply, settings, handler
<1>4. Aims'
  BY DisabledIsConfig DEF IInv, TypeOK, Aims, StartFails, Reply, settings,
         handler
<1>5. Silent'
  BY DEF IInv, TypeOK, Silent, StartFails, Reply, settings, handler
<1>6. Steady'
  BY DisabledIsConfig DEF IInv, TypeOK, Steady, Silent, StartFails, Reply,
         settings, handler, Direct, Exact
<1>7. QED  BY <1>1, <1>2, <1>3, <1>4, <1>5, <1>6 DEF IInv

LEMMA AppliedIInv ==
    ASSUME IInv, Applied PROVE IInv'
<1>1. TypeOK'
  BY DisabledIsConfig DEF IInv, TypeOK, Applied, Reply, settings, handler,
         NoOp, Op, Setting
<1>2. ModesExclude'
  BY DEF IInv, TypeOK, ModesExclude, Applied, Reply, settings, handler
<1>3. Between'
  BY DEF IInv, TypeOK, Between, Applied, Reply, settings, handler
<1>4. Aims'
  BY DisabledIsConfig DEF IInv, TypeOK, Aims, Applied, Reply, settings,
         handler
<1>5. Silent'
  BY DEF IInv, TypeOK, Silent, Applied, Reply, settings, handler
<1>6. Steady'
  BY DisabledIsConfig DEF IInv, TypeOK, Steady, Silent, Applied, Reply,
         settings, handler, Direct, Exact
<1>7. QED  BY <1>1, <1>2, <1>3, <1>4, <1>5, <1>6 DEF IInv

LEMMA ApplyFailsIInv ==
    ASSUME IInv, ApplyFails PROVE IInv'
<1>1. TypeOK'
  BY DisabledIsConfig DEF IInv, TypeOK, ApplyFails, Write, settings, handler,
         NoOp, Op, Setting
<1>2. ModesExclude'
  BY DEF IInv, TypeOK, ModesExclude, ApplyFails, Write, settings, handler
<1>3. Between'
  BY DEF IInv, TypeOK, Between, ApplyFails, Write, settings, handler
<1>4. Aims'
  BY DisabledIsConfig DEF IInv, TypeOK, Aims, ApplyFails, Write, settings,
         handler
<1>5. Silent'
  BY DEF IInv, TypeOK, Silent, ApplyFails, Write, settings, handler
<1>6. Steady'
  BY DisabledIsConfig DEF IInv, TypeOK, Steady, Silent, ApplyFails, Write,
         settings, handler, Direct, Exact
<1>7. QED  BY <1>1, <1>2, <1>3, <1>4, <1>5, <1>6 DEF IInv

LEMMA FallsBackToDirectIInv ==
    ASSUME IInv, FallsBackToDirect PROVE IInv'
<1>1. TypeOK'
  BY DisabledIsConfig DEF IInv, TypeOK, FallsBackToDirect, Reply, Aims,
         settings, handler, NoOp, Op, Setting
<1>2. ModesExclude'
  BY DEF IInv, TypeOK, ModesExclude, FallsBackToDirect, Reply, Aims, settings,
         handler
<1>3. Between'
  BY DEF IInv, TypeOK, Between, FallsBackToDirect, Reply, Aims, settings,
         handler
<1>4. Aims'
  BY DisabledIsConfig DEF IInv, TypeOK, Aims, FallsBackToDirect, Reply,
         settings, handler
<1>5. Silent'
  BY DEF IInv, TypeOK, Silent, FallsBackToDirect, Reply, Aims, settings,
         handler
<1>6. Steady'
  BY DisabledIsConfig DEF IInv, TypeOK, Steady, Silent, FallsBackToDirect,
         Reply, Aims, settings, handler, Direct, Exact
<1>7. QED  BY <1>1, <1>2, <1>3, <1>4, <1>5, <1>6 DEF IInv

LEMMA UndoFailsIInv ==
    ASSUME IInv, UndoFails PROVE IInv'
<1>1. TypeOK'
  BY DisabledIsConfig DEF IInv, TypeOK, UndoFails, Reply, settings, handler,
         NoOp, Op, Setting
<1>2. ModesExclude'
  BY DEF IInv, TypeOK, ModesExclude, UndoFails, Reply, settings, handler
<1>3. Between'
  BY DEF IInv, TypeOK, Between, UndoFails, Reply, settings, handler
<1>4. Aims'
  BY DisabledIsConfig DEF IInv, TypeOK, Aims, UndoFails, Reply, settings,
         handler
<1>5. Silent'
  BY DEF IInv, TypeOK, Silent, UndoFails, Reply, settings, handler
<1>6. Steady'
  BY DisabledIsConfig DEF IInv, TypeOK, Steady, Silent, UndoFails, Reply,
         settings, handler, Direct, Exact
<1>7. QED  BY <1>1, <1>2, <1>3, <1>4, <1>5, <1>6 DEF IInv

-----------------------------------------------------------------------------
LEMMA NextIInv == IInv /\ [Next]_vars => IInv'
<1> SUFFICES ASSUME IInv, [Next]_vars PROVE IInv'
  OBVIOUS
<1>1. CASE Environment
  BY <1>1, NetworkChangesIInv, CrashIInv, PruneSessionIInv DEF
         Environment
<1>2. CASE Begin
  BY <1>2, StartClashIInv, StopClashIInv, SetSystemProxyIInv DEF Begin
<1>3. CASE Step
  BY <1>3, FirstWriteIInv, FirstWriteFailsIInv, SecondWriteIInv,
         SecondWriteFailsIInv, LookupFailsIInv, ClearedIInv, ClearFailsIInv,
         CompensatedIInv, StopCoreIInv, StopFailsIInv, StartCoreIInv,
         StartFailsIInv, AppliedIInv, ApplyFailsIInv, FallsBackToDirectIInv,
         UndoFailsIInv DEF Step
<1>4. CASE UNCHANGED vars
  BY <1>4 DEF IInv, TypeOK, ModesExclude, Between, Aims, Silent, Steady,
         Direct, Exact, vars, settings, handler
<1>5. QED  BY <1>1, <1>2, <1>3, <1>4 DEF Next

(* The strengthening holds in every reachable state. *)
THEOREM Inductive == Spec => []IInv
  BY InitIInv, NextIInv, PTL DEF Spec

(* Every variable has its type; a handler at work has a kind. *)
THEOREM TypeCorrect == Spec => []TypeOK
<1>1. IInv => TypeOK
  BY DEF IInv
<1>2. QED  BY <1>1, Inductive, PTL

(* A service has never both modes, whichever write fails, unless the network *)
(* changed between the two.                                                 *)
THEOREM OneMode == Spec => []ModesExclude
<1>1. IInv => ModesExclude
  BY DEF IInv
<1>2. QED  BY <1>1, Inductive, PTL

(* A client that reads "direct" or "stopped", or that asked for no proxy,    *)
(* has a direct network; one that reads "applied" has what it asked for.    *)
THEOREM TrueReplies == Spec => []RepliesAreTrue
<1>1. IInv => RepliesAreTrue
  BY DEF IInv, Steady, RepliesAreTrue
<1>2. QED  BY <1>1, Inductive, PTL

(* A handler stops a core only once the network in use is direct.           *)
THEOREM CleanStops == Spec => StopsAreDirect
<1>1. IInv /\ [Next]_vars =>
        [StopCore /\ ~moved /\ active # None => Direct(active)]_vars
  BY DEF IInv, Steady, StopCore
<1>2. QED  BY <1>1, Inductive, PTL DEF Spec, StopsAreDirect

(* A stop is still that of a committed owner when it gets to the core: what  *)
(* OwnerContract asks of BeginStop holds from the check of the session on,   *)
(* through the clearing of the proxy and its compensation.                  *)
StopIsAdmitted == op.kind = "stop" => owned

LEMMA StopIsAdmittedStep ==
  ASSUME IInv, StopIsAdmitted, [Next]_vars PROVE StopIsAdmitted'
<1> USE DEF IInv, TypeOK, StopIsAdmitted, Write, Reply, NoOp
<1>1. CASE Environment
  BY <1>1 DEF Environment, NetworkChanges, Crash, PruneSession, handler,
         Owners!Prune
<1>2. CASE Begin
  BY <1>2 DEF Begin, StartClash, StopClash, SetSystemProxy
<1>3. CASE Step
  <2>1. CASE FirstWrite \/ FirstWriteFails \/ SecondWrite \/ SecondWriteFails
             \/ LookupFails
    BY <2>1 DEF FirstWrite, FirstWriteFails, SecondWrite, SecondWriteFails,
           LookupFails
  <2>2. CASE Cleared \/ ClearFails \/ Compensated
    BY <2>2 DEF Cleared, ClearFails, Compensated, Owners!Begin,
           Owners!BeginStop
  <2>3. CASE StopCore \/ StopFails \/ StartCore \/ StartFails
    BY <2>3 DEF StopCore, StopFails, StartCore, StartFails
  <2>4. CASE Applied \/ ApplyFails \/ FallsBackToDirect \/ UndoFails
    BY <2>4 DEF Applied, ApplyFails, FallsBackToDirect, UndoFails
  <2>5. QED  BY <1>3, <2>1, <2>2, <2>3, <2>4 DEF Step
<1>4. CASE UNCHANGED vars
  BY <1>4 DEF vars, handler
<1>5. QED  BY <1>1, <1>2, <1>3, <1>4 DEF Next

(* So no StopClash stops the core of a service without an owner.            *)
THEOREM StopsAreAdmitted == Spec => []StopIsAdmitted
<1>1. Init => StopIsAdmitted
  BY DEF Init, StopIsAdmitted, NoOp
<1>2. QED  BY <1>1, StopIsAdmittedStep, Inductive, PTL DEF Spec

-----------------------------------------------------------------------------
(* How many steps a handler has before it at most.  One that starts a core  *)
(* clears, stops, starts, applies and undoes; the undo is not undone.       *)
StepsLeft ==
    CASE pc = "idle"     -> 0
      [] pc = "stopping" -> 8
      [] pc = "starting" -> 7
      [] pc = "first"    -> IF purpose = "clear" THEN 11
                            ELSE IF purpose = "apply" THEN 6 ELSE 3
      [] pc = "second"   -> IF purpose = "clear" THEN 10
                            ELSE IF purpose = "apply" THEN 5 ELSE 2
      [] OTHER           -> IF purpose = "clear" THEN 9
                            ELSE IF purpose = "apply" THEN 4 ELSE 1

(* Settings are written for a purpose, so that there is a next step when    *)
(* they have been, or could not be.                                         *)
Purposeful == pc \in {"first", "second", "applied", "failed"} => purpose # "none"

HandlerAdvances ==
    /\ Step => StepsLeft' < StepsLeft
    /\ Environment => StepsLeft' <= StepsLeft

LEMMA PurposefulStep ==
  ASSUME IInv, Purposeful, [Next]_vars PROVE Purposeful'
<1> USE DEF Purposeful, Write, Reply
<1>1. CASE Environment
  BY <1>1 DEF Environment, NetworkChanges, Crash, PruneSession, handler
<1>2. CASE Begin
  BY <1>2 DEF Begin, StartClash, StopClash, SetSystemProxy
<1>3. CASE Step
  BY <1>3 DEF Step, FirstWrite, FirstWriteFails, SecondWrite, SecondWriteFails,
     LookupFails, Cleared, ClearFails, Compensated, StopCore, StopFails, StartCore,
     StartFails, Applied, ApplyFails, FallsBackToDirect, UndoFails
<1>4. CASE UNCHANGED vars
  BY <1>4 DEF vars, handler
<1> QED
  BY <1>1, <1>2, <1>3, <1>4 DEF Next

LEMMA HandlerStep == [Next]_vars => [HandlerAdvances]_vars
<1> SUFFICES ASSUME Next PROVE HandlerAdvances
  BY Zenon
<1> USE DEF StepsLeft, Write, Reply
<1>1. ASSUME Environment PROVE StepsLeft' <= StepsLeft
  BY <1>1 DEF Environment, NetworkChanges, Crash, PruneSession, handler
<1>2. ASSUME Step PROVE StepsLeft' < StepsLeft
  <2>1. CASE FirstWrite \/ FirstWriteFails \/ SecondWrite \/ SecondWriteFails
    BY <2>1 DEF FirstWrite, FirstWriteFails, SecondWrite, SecondWriteFails
  <2>2. CASE LookupFails
    BY <2>2 DEF LookupFails
  <2>3. CASE Cleared \/ ClearFails \/ Compensated
    BY <2>3 DEF Cleared, ClearFails, Compensated
  <2>4. CASE StopCore
    <3>1. pc = "stopping" /\ pc' \in {"starting", "idle"}
      BY <2>4 DEF StopCore
    <3> QED
      BY <3>1
  <2>7. CASE StopFails \/ StartFails
    <3>1. pc \in {"stopping", "starting"} /\ pc' = "idle"
      BY <2>7 DEF StopFails, StartFails
    <3> QED
      BY <3>1
  <2>6. CASE StartCore
    BY <2>6 DEF StartCore
  <2>5. CASE Applied \/ ApplyFails \/ FallsBackToDirect \/ UndoFails
    BY <2>5 DEF Applied, ApplyFails, FallsBackToDirect, UndoFails
  <2> QED
    BY <1>2, <2>1, <2>2, <2>3, <2>4, <2>5, <2>6, <2>7 DEF Step
<1> QED
  BY <1>1, <1>2 DEF HandlerAdvances

(* A handler ends within eleven steps of its own, whichever writes, stops   *)
(* and starts fail and however the network changes: neither a compensation  *)
(* nor a fall-back is repeated, and none is entered without a way out.      *)
THEOREM HandlersEnd ==
  Spec => [](Purposeful /\ StepsLeft \in 0..11) /\ [][HandlerAdvances]_vars
<1>1. Init => Purposeful
  BY DEF Init, Purposeful
<1>2. IInv => StepsLeft \in 0..11
  BY DEF StepsLeft
<1> QED
  BY <1>1, <1>2, PurposefulStep, HandlerStep, Inductive, PTL DEF Spec

=============================================================================
