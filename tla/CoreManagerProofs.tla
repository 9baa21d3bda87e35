-------------------------- MODULE CoreManagerProofs --------------------------
(***************************************************************************)
(* Safety of the core supervisor for every set of pids and configurations  *)
(* and every restart budget.  The invariants of CoreManager are not        *)
(* inductive by themselves: they hold because each core has one owner, and *)
(* because of what each program point of the callers and of the watchdog   *)
(* says about the others.  IInv adds that.                                 *)
(***************************************************************************)
EXTENDS CoreManager, TLAPS

(* CORE_MANAGER is a mutex, and stop_core is never nested in start_core. *)
Mutex ==
    /\ \A c \in Caller : pc[c] \in StopPcs \cup StartPcs <=> holder = c
    /\ op["shutdown"] = "stop"
    /\ \A c \in Caller : pc[c] \in {"wantStart"} \cup StartPcs => op[c] # "stop"
    /\ ~nested

(* What the program points of the callers say. *)
CallerPoints ==
    /\ \A c \in Caller :
         /\ pc[c] \in {"wantStart"} \cup StartPcs =>
                wpc = "none" /\ running_pid = NoPid /\ failed_child = NoPid
         /\ pc[c] \in {"reap", "clear", "hung"} => wpc = "none"
         /\ pc[c] = "clear" => failed_child = NoPid
         /\ pc[c] = "hung" => failed_child # NoPid
    /\ starting # NoPid <=> \E c \in Caller : pc[c] \in {"harden", "record"}

(* What the program points of the watchdog say. *)
WatchdogPoints ==
    /\ child # NoPid <=> wpc \in {"wait", "harden", "record"}
    /\ failed_child # NoPid => wpc \in {"none", "done"}
    /\ wpc \in {"backoff", "spawn", "harden", "record"} => running_pid = NoPid
    /\ wpc # "none" => wconfig = running_config

(* Each process has at most one owner, and an owned pid is not free. *)
Ownership ==
    /\ \A p \in Pid : proc[p] # "free" => p \in Held \cup dropped \cup inherited
    /\ \A p \in Held \cup dropped \cup inherited : proc[p] # "free"
    /\ \A p \in Held : p \notin dropped
    /\ \A p \in inherited : p \notin Held /\ p \notin dropped
    /\ \A p, q \in inherited : p = q

(* A failed reconciliation blocks every start of this process. *)
Gate ==
    /\ reconciled => inherited = {}
    /\ ~reconciled =>
          /\ wpc = "none" /\ failed_child = NoPid /\ dropped = {}
          /\ \A c \in Caller : pc[c] \notin StartPcs \ {"start"}

(* Who runs with which configuration. *)
Configured ==
    /\ child # NoPid => args[child] = wconfig
    /\ failed_child # NoPid => args[failed_child] = running_config
    /\ \A p \in Held : args[p] \in Config
    /\ wpc # "none" => running_config \in Config
    /\ \A c \in Caller :
          pc[c] \in {"wantStart"} \cup StartPcs => running_config = NoConfig
    /\ running_pid # NoPid /\ running_config # NoConfig
          /\ proc[running_pid] # "free" => args[running_pid] = running_config

(* What the lifecycle cell says at each program point.  In particular a join *)
(* of the watchdog that failed has left it a core in failed_child.           *)
LifecyclePoints ==
    /\ wpc = "wait" => core_state = "Running"
    /\ wpc \in Recovering => core_state = "RecoveringCore"
    /\ wpc = "finish" => core_state \in {"Running", "RecoveringCore"}
    /\ running_pid # NoPid =>
           \/ running_pid = failed_child
           \/ wpc \in {"wait", "exited", "finish"}
           \/ \E c \in Caller : pc[c] = "clear"
    /\ core_state = "RecoveringCore" =>
           wpc # "none" \/ \E c \in Caller : pc[c] \in {"reap", "clear"}
    /\ core_state = "Starting" => pc["handler"] # "idle"
    /\ \A c \in Caller :
          /\ pc[c] \in {"spawn", "harden", "record"} => core_state = "Starting"
          /\ pc[c] = "reap" /\ watchdog_result = "err" => failed_child # NoPid
    /\ wpc = "done" /\ watchdog_result = "err" => failed_child # NoPid

IInv ==
    /\ TypeOK
    /\ Mutex
    /\ CallerPoints
    /\ WatchdogPoints
    /\ Ownership
    /\ Gate
    /\ Configured
    /\ LifecyclePoints
    /\ SupervisedCoreIsRecorded
    /\ FailedChildIsFatal
    /\ GivingUpIsFatal

-----------------------------------------------------------------------------
(* A call that returns leaves the callers well-typed. *)
LEMMA ReturnType ==
  ASSUME CallersTypeOK, NEW c \in Caller, NEW next \in CallerPcs, NEW o \in Ops,
         Return(c, next, o)
  PROVE  CallersTypeOK'
BY DEF CallersTypeOK, Return

(* So does a start that fails, which also leaves a lifecycle state behind. *)
LEMMA StartFailsType ==
  ASSUME CallersTypeOK, NEW c \in Caller, NEW s \in CoreStates, StartFails(c, s)
  PROVE  CallersTypeOK' /\ core_state' \in CoreStates
<1>1. /\ {"wantStop", "idle"} \subseteq CallerPcs
      /\ "rollback" \in Ops /\ op[c] \in Ops
      /\ {"Fatal", "Running"} \subseteq CoreStates
  BY DEF CallersTypeOK, CallerPcs, Ops, CoreStates
<1>2. CASE op[c] = "takeover"
  <2>1. Return(c, "wantStop", "rollback") /\ core_state' = s
    BY <1>2 DEF StartFails
  <2> QED
    BY <1>1, <2>1, ReturnType
<1>3. CASE op[c] # "takeover"
  <2>1. Return(c, "idle", op[c]) /\ core_state' \in {"Fatal", "Running"}
    BY <1>3 DEF StartFails
  <2> QED
    BY <1>1, <2>1, ReturnType
<1> QED
  BY <1>2, <1>3

(* The initial states. *)
LEMMA InitIInv == Init => IInv
<1> SUFFICES ASSUME Init PROVE IInv
  OBVIOUS
<1> USE PidAssumption, ConfigAssumption
    DEF Init, InitBoot, Held, Hung, Caller, NoCaller, Ops, CallerPcs, StopPcs,
        StartPcs, CoreStates, WatchdogPcs, Recovering
<1>1. CallersTypeOK
  BY DEF CallersTypeOK
<1>2. TypeOK
  BY <1>1 DEF TypeOK
<1>3. Mutex /\ CallerPoints /\ WatchdogPoints
  BY DEF Mutex, CallerPoints, WatchdogPoints
<1>4. Ownership /\ Gate /\ Configured /\ LifecyclePoints
  BY DEF Ownership, Gate, Configured, LifecyclePoints
<1>5. SupervisedCoreIsRecorded /\ FailedChildIsFatal /\ GivingUpIsFatal
  BY DEF SupervisedCoreIsRecorded, FailedChildIsFatal, GivingUpIsFatal
<1> QED
  BY <1>1, <1>2, <1>3, <1>4, <1>5 DEF IInv

(* Every action preserves the inductive invariant. *)
LEMMA NextIInv == IInv /\ [Next]_vars => IInv'
<1> SUFFICES ASSUME IInv, [Next]_vars PROVE IInv'
  OBVIOUS
<1> USE PidAssumption, ConfigAssumption, MaxRestartsAssumption
    DEF IInv, TypeOK, CallersTypeOK, Mutex, CallerPoints, WatchdogPoints,
        Ownership, Gate, Configured, LifecyclePoints,
        SupervisedCoreIsRecorded, FailedChildIsFatal, GivingUpIsFatal, Held, Hung,
        Caller, NoCaller, Ops, CallerPcs, StopPcs, StartPcs, CoreStates,
        WatchdogPcs, Recovering, osVars, mgrVars, diskVars, taskVars, endVars,
        windowVars, wdVars, callVars, Goto, Spawned, Reaped, RecordRemoved,
        RecordWriteFailed
<1>1. CASE StartClash
  BY <1>1 DEF StartClash
<1>2. ASSUME NEW c \in Caller, Stop(c) PROVE IInv'
  BY <1>2 DEF Stop
<1>3. ASSUME NEW c \in Caller, Acquire(c) PROVE IInv'
  BY <1>3 DEF Acquire
<1>4. ASSUME NEW c \in Caller, StopSignal(c) PROVE IInv'
  BY <1>4 DEF StopSignal, Return, StartFails, StopSucceeds, StopFails
<1>5. ASSUME NEW c \in Caller, StopJoin(c) PROVE IInv'
  BY <1>5 DEF StopJoin, Return, StartFails, StopSucceeds, StopFails
<1>6. ASSUME NEW c \in Caller, StopNoFailedChild(c) PROVE IInv'
  <2>1. CallersTypeOK'
    BY <1>6, ReturnType, StartFailsType DEF StopNoFailedChild, StopFails, StopSucceeds
  <2> QED
    BY <1>6, <2>1 DEF StopNoFailedChild, Return, StartFails, StopSucceeds, StopFails
<1>7. ASSUME NEW c \in Caller, StopFailedChild(c) PROVE IInv'
  BY <1>7 DEF StopFailedChild, Return, StartFails, StopSucceeds, StopFails
<1>8. ASSUME NEW c \in Caller, StopClear(c) PROVE IInv'
  <2>1. CallersTypeOK'
    BY <1>8, ReturnType, StartFailsType DEF StopClear, StopFails, StopSucceeds
  <2> QED
    BY <1>8, <2>1 DEF StopClear, Return, StartFails, StopSucceeds, StopFails
<1>9. ASSUME NEW c \in Caller, StartBegin(c) PROVE IInv'
  <2>1. CallersTypeOK'
    BY <1>9, ReturnType, StartFailsType DEF StartBegin, StopFails, StopSucceeds
  <2> QED
    BY <1>9, <2>1 DEF StartBegin, Return, StartFails, StopSucceeds, StopFails
<1>10. ASSUME NEW c \in Caller, StartSpawnFails(c) PROVE IInv'
  <2>1. CallersTypeOK'
    BY <1>10, ReturnType, StartFailsType DEF StartSpawnFails, StopFails, StopSucceeds
  <2> QED
    BY <1>10, <2>1 DEF StartSpawnFails, Return, StartFails, StopSucceeds, StopFails
<1>11. ASSUME NEW c \in Caller, StartHarden(c) PROVE IInv'
  BY <1>11 DEF StartHarden, Return, StartFails, StopSucceeds, StopFails
<1>12. ASSUME NEW c \in Caller, StartAborts(c) PROVE IInv'
  <2>1. CallersTypeOK'
    BY <1>12, ReturnType, StartFailsType DEF StartAborts, StopFails, StopSucceeds
  <2> QED
    BY <1>12, <2>1 DEF StartAborts, Return, StartFails, StopSucceeds, StopFails
<1>13. ASSUME NEW c \in Caller, StartLeavesFailedChild(c) PROVE IInv'
  <2>1. CallersTypeOK'
    BY <1>13, ReturnType, StartFailsType DEF StartLeavesFailedChild, StopFails, StopSucceeds
  <2> QED
    BY <1>13, <2>1 DEF StartLeavesFailedChild, Return, StartFails, StopSucceeds, StopFails
<1>14. ASSUME NEW c \in Caller, StartCommits(c) PROVE IInv'
  <2>1. CallersTypeOK'
    BY <1>14, ReturnType, StartFailsType DEF StartCommits, StopFails, StopSucceeds
  <2>2. TypeOK'
    BY <1>14, <2>1 DEF StartCommits, Return
  <2>3. Mutex' /\ CallerPoints' /\ WatchdogPoints'
    BY <1>14, <2>1 DEF StartCommits, Return
  <2>4. Ownership' /\ Gate' /\ Configured'
    BY <1>14, <2>1 DEF StartCommits, Return
  <2>5. SupervisedCoreIsRecorded' /\ FailedChildIsFatal' /\ GivingUpIsFatal'
    BY <1>14, <2>1 DEF StartCommits, Return
  <2>6. LifecyclePoints'
    BY <1>14, <2>1 DEF StartCommits, Return
  <2> QED
    BY <2>1, <2>2, <2>3, <2>4, <2>5, <2>6
<1>15. ASSUME NEW c \in Caller, NEW p \in Pid, NEW cfg \in Config, 
             StartSpawn(c, p, cfg)
      PROVE  IInv'
  BY <1>15 DEF StartSpawn
<1>16. CASE WatchdogShutdown
  BY <1>16 DEF WatchdogShutdown, WatchdogGivesUp
<1>17. CASE WatchdogExit
  BY <1>17 DEF WatchdogExit
<1>18. CASE WatchdogWaitFails
  BY <1>18 DEF WatchdogWaitFails
<1>19. CASE WatchdogExhausted
  BY <1>19 DEF WatchdogExhausted
<1>20. CASE WatchdogBackoff
  BY <1>20 DEF WatchdogBackoff
<1>21. CASE WatchdogSpawnFails
  BY <1>21 DEF WatchdogSpawnFails, AttemptFailed
<1>22. CASE WatchdogHarden
  BY <1>22 DEF WatchdogHarden
<1>23. CASE WatchdogHardenFails
  BY <1>23 DEF WatchdogHardenFails, AttemptFailed
<1>24. CASE WatchdogRecordFails
  BY <1>24 DEF WatchdogRecordFails
<1>25. CASE WatchdogLeavesFailedChild
  BY <1>25 DEF WatchdogLeavesFailedChild, WatchdogGivesUp
<1>26. CASE WatchdogRestarted
  BY <1>26 DEF WatchdogRestarted
<1>27. CASE WatchdogFinish
  BY <1>27 DEF WatchdogFinish
<1>28. ASSUME NEW kept \in 0..(older + episode), 
             WatchdogClear(kept)
      PROVE  IInv'
  BY <1>28 DEF WatchdogClear
<1>29. ASSUME NEW p \in Pid, WatchdogSpawn(p) PROVE IInv'
  BY <1>29 DEF WatchdogSpawn
<1>30. ASSUME NEW p \in Pid, CoreExit(p) PROVE IInv'
  BY <1>30 DEF CoreExit
<1>31. ASSUME NEW p \in Pid, DropKill(p) PROVE IInv'
  BY <1>31 DEF DropKill
<1>32. CASE UNCHANGED vars
  BY <1>32 DEF vars
<1> QED
  BY <1>1, <1>2, <1>3, <1>4, <1>5, <1>6, <1>7, <1>8, <1>9, <1>10, <1>11,
     <1>12, <1>13, <1>14, <1>15, <1>16, <1>17, <1>18, <1>19, <1>20, <1>21, <1>22,
     <1>23, <1>24, <1>25, <1>26, <1>27, <1>28, <1>29, <1>30, <1>31, <1>32
  DEF Next, StopCore, StartCore, Watchdog

(* IInv holds in every reachable state, of every instance. *)
THEOREM Inductive == Spec => []IInv
BY InitIInv, NextIInv, PTL DEF Spec

-----------------------------------------------------------------------------
(* Every variable keeps its type. *)
THEOREM TypeCorrect == Spec => []TypeOK
<1>1. IInv => TypeOK
  BY DEF IInv
<1> QED
  BY <1>1, Inductive, PTL

(* At most one core runs, besides those a detached task is killing. *)
LEMMA OneOwner == IInv => AtMostOneCore
<1> SUFFICES ASSUME IInv, NEW p \in Live \ dropped, NEW q \in Live \ dropped
             PROVE  p = q
  BY DEF AtMostOneCore
<1>1. p \in Held \cup inherited /\ q \in Held \cup inherited
  BY DEF IInv, Ownership, Live
<1>2. CASE reconciled
  <2>1. p \in Held /\ q \in Held
    BY <1>1, <1>2 DEF IInv, Gate
  <2> QED
    BY <2>1, PidAssumption
    DEF IInv, TypeOK, CallerPoints, WatchdogPoints, Held, Recovering, StartPcs
<1>3. CASE ~reconciled
  <2>1. Held = {}
    BY <1>3, PidAssumption
    DEF IInv, Gate, CallerPoints, WatchdogPoints, Held, StartPcs, Recovering
  <2> QED
    BY <1>1, <2>1 DEF IInv, Ownership
<1> QED
  BY <1>2, <1>3 DEF IInv, TypeOK

(* However starts, stops, crashes and restarts interleave, there is one core. *)
THEOREM OneCore == Spec => []AtMostOneCore
BY Inductive, OneOwner, PTL

(* No live core is out of reach of the next stop. *)
THEOREM CoresAreHeld == Spec => []NoCoreLost
<1>1. IInv => NoCoreLost
  BY DEF IInv, Ownership, NoCoreLost, Live
<1> QED
  BY <1>1, Inductive, PTL

(* start_core finds the manager empty, whatever its callers raced with. *)
THEOREM StartIsClean == Spec => []StartFindsNoCore
<1>1. IInv => StartFindsNoCore
  BY DEF IInv, CallerPoints, StartFindsNoCore
<1> QED
  BY <1>1, Inductive, PTL

(* What running_core_config returns belongs to one core. *)
THEOREM ConsistentPair == Spec => []RunningPairIsConsistent
<1>1. IInv => RunningPairIsConsistent
  BY DEF IInv, Configured, RunningPairIsConsistent
<1> QED
  BY <1>1, Inductive, PTL

(* What Status, the runtime record and the lifecycle state say of a core   *)
(* under supervision, of one that survived its kill, and of supervision    *)
(* that gave up.                                                           *)
THEOREM TruthfulState == Spec => []StatusIsTrue
<1>1. IInv => ReportedStateIsTrue
  BY PidAssumption
  DEF IInv, TypeOK, Mutex, LifecyclePoints, FailedChildIsFatal,
      ReportedStateIsTrue, StatusRuns, EffectiveState, Caller, NoCaller,
      StopPcs, StartPcs, CoreStates, WatchdogPoints, WatchdogPcs
<1>2. IInv => StatusIsTrue
  BY <1>1 DEF IInv, StatusIsTrue
<1> QED
  BY <1>2, Inductive, PTL

(* A stop_core that returns Ok leaves no core of this process behind: at    *)
(* its last step the watchdog is gone and no guard holds a core.            *)
LEMMA ClearStep == IInv /\ [Next]_vars => [NoCoreAfterStop]_vars
<1> SUFFICES ASSUME IInv, Next, NEW c \in Caller, pc[c] = "clear", pc'[c] # "clear"
             PROVE  Live' \subseteq dropped' \cup inherited'
  BY DEF NoCoreAfterStop
<1>1. Live \subseteq dropped \cup inherited
  BY PidAssumption DEF IInv, Mutex, CallerPoints, WatchdogPoints, Ownership,
     Live, Held, StopPcs, StartPcs
<1>2. StopClear(c)
  <2> USE DEF IInv, TypeOK, CallersTypeOK, StopPcs, StartPcs, CallerPcs
  <2>1. ASSUME NEW d \in Caller, StopCore(d) PROVE StopClear(c)
    <3>1. CASE StopSignal(d) \/ StopJoin(d) \/ StopNoFailedChild(d) \/ StopFailedChild(d)
      BY <3>1 DEF StopSignal, StopJoin, StopNoFailedChild, StopFailedChild,
         Goto, Return, StopFails, StartFails
    <3>2. CASE StopClear(d)
      <4>1. d = c
        BY <3>2 DEF StopClear, StopSucceeds, Mutex
      <4> QED
        BY <3>2, <4>1
    <3> QED
      BY <2>1, <3>1, <3>2 DEF StopCore
  <2>2. ASSUME NEW d \in Caller, StartCore(d) PROVE FALSE
    BY <2>2 DEF StartCore, StartBegin, StartSpawnFails, StartSpawn, StartHarden,
       StartAborts, StartLeavesFailedChild, StartCommits, Goto, Return,
       StartFails
  <2>3. ASSUME NEW d \in Caller, Stop(d) \/ Acquire(d) PROVE FALSE
    BY <2>3 DEF Stop, Acquire
  <2>4. CASE StartClash
    BY <2>4 DEF StartClash
  <2>5. CASE Watchdog
    BY <2>5 DEF Watchdog, WatchdogShutdown, WatchdogExit, WatchdogWaitFails,
       WatchdogClear, WatchdogExhausted, WatchdogBackoff, WatchdogSpawnFails,
       WatchdogSpawn, WatchdogHarden, WatchdogHardenFails, WatchdogRecordFails,
       WatchdogLeavesFailedChild, WatchdogRestarted, WatchdogFinish, callVars
  <2>6. ASSUME NEW p \in Pid, CoreExit(p) \/ DropKill(p) PROVE FALSE
    BY <2>6 DEF CoreExit, DropKill, callVars
  <2> QED
    BY <2>1, <2>2, <2>3, <2>4, <2>5, <2>6 DEF Next
<1> QED
  BY <1>1, <1>2 DEF StopClear, osVars, Live

(* A stop_core that returns Ok leaves no core alive, whoever raced with it. *)
THEOREM StopIsFinal == Spec => StopMeansStopped
BY Inductive, ClearStep, PTL DEF Spec, StopMeansStopped

-----------------------------------------------------------------------------
(* Progress, as far as it is a matter of safety: nobody waits for himself,  *)
(* and what is under way comes nearer to its end with every step of its     *)
(* own.  With the fairness of FairSpec that is what makes calls and         *)
(* recoveries end.                                                          *)

(* A joiner has fired the channel of a watchdog that is still there. *)
Joining == \A c \in Caller : pc[c] = "join" => wpc # "none" /\ shutdown_sent

(* The attempts of one recovery fit the budget, up to the one refused. *)
Attempts ==
    /\ wpc = "backoff" => episode \in 1..(MaxRestarts + 1)
    /\ wpc \in {"spawn", "harden", "record"} => episode \in 1..MaxRestarts

(* The guards of a call's next step, and those of a watchdog that is joined. *)
CanStep(c) ==
    /\ pc[c] \notin {"idle", "hung"}
    /\ pc[c] \in {"wantStop", "wantStart"} => holder = NoCaller
    /\ pc[c] = "join" => wpc = "done"

WatchdogCanEnd ==
    \/ wpc \in Recovering \cup {"finish"}
    \/ wpc = "wait" /\ shutdown_sent

Advances(c) == CanStep(c) \/ (pc[c] = "join" /\ WatchdogCanEnd)

(* A call can go on, or waits for a watchdog that can, or for CORE_MANAGER  *)
(* in the hands of a call of which one of these is true: there is no cycle, *)
(* but for a stop that hangs in the retry of a kill.                        *)
NoCallIsStuck ==
    \A c \in Caller : pc[c] # "idle" =>
        \/ Advances(c)
        \/ holder \in Caller /\ (Advances(holder) \/ pc[holder] = "hung")

(* How many steps a call has before it at most.  A takeover stops, starts,  *)
(* and stops again if the start or the commit fails.                        *)
Remaining(point) ==
    CASE point = "wantStart" -> 10 [] point = "start" -> 9
      [] point = "spawn"     -> 8  [] point = "harden" -> 7
      [] point = "record"    -> 6  [] point = "wantStop" -> 5
      [] point = "stop"      -> 4  [] point = "join" -> 3
      [] point = "reap"      -> 2  [] point = "clear" -> 1
      [] OTHER -> 0

CallRank(c) ==
    Remaining(pc[c]) + IF op[c] = "takeover" /\ pc[c] \in {"wantStop"} \cup StopPcs
                       THEN 10 ELSE 0

CallAdvances ==
    \A c \in Caller : pc[c] # "idle" /\ pc'[c] # pc[c] =>
                          CallRank(c)' < CallRank(c)

(* The same for a recovery: four steps for each attempt left. *)
RecoveryRank ==
    CASE wpc = "exited"  -> 4 * MaxRestarts + 4
      [] wpc = "backoff" -> 4 * (MaxRestarts + 1 - episode) + 3
      [] wpc = "spawn"   -> 4 * (MaxRestarts + 1 - episode) + 2
      [] wpc = "harden"  -> 4 * (MaxRestarts + 1 - episode) + 1
      [] OTHER           -> 4 * (MaxRestarts + 1 - episode)

RecoveryIsBounded == wpc \in Recovering => RecoveryRank \in 0..(4 * MaxRestarts + 4)

RecoveryAdvances ==
    wpc \in Recovering /\ wpc' \in Recovering /\ wpc' # wpc =>
        RecoveryRank' < RecoveryRank

PInv == IInv /\ Joining /\ Attempts

(* The watchdog's part: the budget of attempts, and that each is nearer to  *)
(* the last.                                                                *)
LEMMA RecoveryStep ==
  IInv /\ Attempts /\ [Next]_vars => Attempts' /\ RecoveryAdvances
<1> SUFFICES ASSUME IInv, Attempts, [Next]_vars
             PROVE  Attempts' /\ RecoveryAdvances
  OBVIOUS
<1>1. /\ older \in Nat /\ episode \in Nat /\ MaxRestarts \in Nat
      /\ wpc \in WatchdogPcs
  BY MaxRestartsAssumption DEF IInv, TypeOK
<1> USE <1>1 DEF Attempts, RecoveryAdvances, RecoveryRank, Recovering, WatchdogPcs
<1>2. ASSUME UNCHANGED <<wpc, windowVars>> PROVE Attempts' /\ RecoveryAdvances
  BY <1>2 DEF windowVars
<1>3. CASE WatchdogShutdown \/ WatchdogExit \/ WatchdogWaitFails
  BY <1>3 DEF WatchdogShutdown, WatchdogExit, WatchdogWaitFails,
     WatchdogGivesUp, windowVars
<1>4. ASSUME NEW kept \in 0..(older + episode), WatchdogClear(kept)
      PROVE  Attempts' /\ RecoveryAdvances
  BY <1>4 DEF WatchdogClear
<1>5. CASE WatchdogExhausted \/ WatchdogBackoff
  BY <1>5 DEF WatchdogExhausted, WatchdogBackoff, windowVars
<1>6. CASE WatchdogSpawnFails
  BY <1>6 DEF WatchdogSpawnFails, AttemptFailed
<1>7. ASSUME NEW p \in Pid, WatchdogSpawn(p) PROVE Attempts' /\ RecoveryAdvances
  BY <1>7 DEF WatchdogSpawn, windowVars
<1>8. CASE WatchdogHarden
  BY <1>8 DEF WatchdogHarden, windowVars
<1>9. CASE WatchdogHardenFails
  BY <1>9 DEF WatchdogHardenFails, AttemptFailed
<1>10. CASE WatchdogRecordFails \/ WatchdogLeavesFailedChild
  BY <1>10 DEF WatchdogRecordFails, WatchdogLeavesFailedChild,
     WatchdogGivesUp, windowVars
<1>11. CASE WatchdogRestarted \/ WatchdogFinish
  BY <1>11 DEF WatchdogRestarted, WatchdogFinish, windowVars
<1>12. ASSUME NEW c \in Caller, StopCore(c) \/ StartCore(c)
       PROVE  Attempts' /\ RecoveryAdvances
  <2>1. CASE StopJoin(c) \/ StartCommits(c)
    BY <2>1 DEF StopJoin, StartCommits
  <2>2. CASE StopSignal(c) \/ StopNoFailedChild(c) \/ StopFailedChild(c) \/ StopClear(c)
    BY <2>2, <1>2 DEF StopSignal, StopNoFailedChild, StopFailedChild, StopClear,
       wdVars, windowVars
  <2>3. CASE \/ StartBegin(c) \/ StartSpawnFails(c) \/ StartHarden(c)
             \/ StartAborts(c) \/ StartLeavesFailedChild(c)
             \/ \E p \in Pid, cfg \in Config : StartSpawn(c, p, cfg)
    BY <2>3, <1>2 DEF StartBegin, StartSpawnFails, StartHarden, StartAborts,
       StartLeavesFailedChild, StartSpawn, wdVars, windowVars
  <2> QED
    BY <1>12, <2>1, <2>2, <2>3 DEF StopCore, StartCore
<1>13. ASSUME NEW c \in Caller, Stop(c) \/ Acquire(c)
       PROVE  Attempts' /\ RecoveryAdvances
  BY <1>13, <1>2 DEF Stop, Acquire, wdVars, windowVars
<1>14. CASE StartClash \/ UNCHANGED vars
  BY <1>14, <1>2 DEF StartClash, vars, wdVars, windowVars
<1>15. ASSUME NEW p \in Pid, CoreExit(p) \/ DropKill(p)
       PROVE  Attempts' /\ RecoveryAdvances
  BY <1>15, <1>2 DEF CoreExit, DropKill, wdVars, windowVars
<1> QED
  BY <1>3, <1>4, <1>5, <1>6, <1>7, <1>8, <1>9, <1>10, <1>11, <1>12, <1>13,
     <1>14, <1>15 DEF Next, Watchdog

(* The watchdog and the processes do not move the callers; a watchdog that  *)
(* is there stays, and keeps the signal, until it is joined.                *)
LEMMA OthersStep ==
  ASSUME IInv, Watchdog \/ \E p \in Pid : CoreExit(p) \/ DropKill(p)
  PROVE  /\ UNCHANGED callVars /\ UNCHANGED shutdown_sent
         /\ wpc # "none" => wpc' # "none"
BY DEF Watchdog, WatchdogShutdown, WatchdogExit, WatchdogWaitFails,
   WatchdogClear, WatchdogExhausted, WatchdogBackoff, WatchdogSpawnFails,
   WatchdogSpawn, WatchdogHarden, WatchdogHardenFails, WatchdogRecordFails,
   WatchdogLeavesFailedChild, WatchdogRestarted, WatchdogFinish,
   WatchdogGivesUp, AttemptFailed, CoreExit, DropKill, taskVars, wdVars

(* The callers' part: a step of a call is nearer to its end, and the signal *)
(* is there while a watchdog is joined.                                     *)
LEMMA CallStep ==
  IInv /\ Joining /\ [Next]_vars => Joining' /\ CallAdvances
<1> SUFFICES ASSUME IInv, Joining, [Next]_vars PROVE Joining' /\ CallAdvances
  OBVIOUS
<1> USE DEF IInv, TypeOK, CallersTypeOK, Mutex, Joining, CallAdvances, CallRank,
        Remaining, Caller, NoCaller, Ops, CallerPcs, StopPcs, StartPcs, Goto,
        Return, StartFails, StopSucceeds, StopFails
<1>1. ASSUME NEW c \in Caller, pc[c] = "idle", pc' = [pc EXCEPT ![c] = "wantStop"],
             \A d \in Caller \ {c} : op'[d] = op[d], UNCHANGED wdVars
      PROVE  Joining' /\ CallAdvances
  <2>1. \A d \in Caller : pc[d] # "idle" => pc'[d] = pc[d] /\ op'[d] = op[d]
    BY <1>1
  <2> QED
    BY <1>1, <2>1 DEF wdVars, taskVars
<1>2. CASE StartClash \/ \E c \in Caller : Stop(c)
  <2>1. CASE StartClash
    BY <2>1, <1>1 DEF StartClash
  <2>2. ASSUME NEW c \in Caller, Stop(c) PROVE Joining' /\ CallAdvances
    BY <2>2, <1>1 DEF Stop
  <2> QED
    BY <1>2, <2>1, <2>2
<1>3. ASSUME NEW c \in Caller, Acquire(c) PROVE Joining' /\ CallAdvances
  <2>1. /\ UNCHANGED <<op, wdVars>>
        /\ \A d \in Caller : pc'[d] # pc[d] => d = c
        /\ \/ pc[c] = "wantStop" /\ pc'[c] = "stop"
           \/ pc[c] = "wantStart" /\ pc'[c] = "start"
    BY <1>3 DEF Acquire
  <2>2. CallAdvances
    BY <2>1
  <2>3. Joining'
    BY <2>1 DEF wdVars, taskVars
  <2> QED
    BY <2>2, <2>3
<1>4. ASSUME NEW c \in Caller, StopSignal(c) PROVE Joining' /\ CallAdvances
  <2>1. /\ UNCHANGED <<op, wpc>>
        /\ \A d \in Caller : pc'[d] # pc[d] => d = c
        /\ pc[c] = "stop" /\ pc'[c] = IF wpc = "none" THEN "reap" ELSE "join"
        /\ shutdown_sent' = (shutdown_sent \/ wpc # "none")
    BY <1>4 DEF StopSignal
  <2>2. CallAdvances
    BY <2>1
  <2>3. Joining'
    BY <2>1
  <2> QED
    BY <2>2, <2>3
<1>5. ASSUME NEW c \in Caller, StopJoin(c) PROVE Joining' /\ CallAdvances
  BY <1>5 DEF StopJoin, taskVars
<1>6. ASSUME NEW c \in Caller, StopNoFailedChild(c) PROVE Joining' /\ CallAdvances
  BY <1>6 DEF StopNoFailedChild, wdVars, taskVars
<1>7. ASSUME NEW c \in Caller, StopFailedChild(c) PROVE Joining' /\ CallAdvances
  BY <1>7 DEF StopFailedChild, wdVars, taskVars
<1>8. ASSUME NEW c \in Caller, StopClear(c) PROVE Joining' /\ CallAdvances
  BY <1>8 DEF StopClear, wdVars, taskVars
<1>9. ASSUME NEW c \in Caller, StartBegin(c) PROVE Joining' /\ CallAdvances
  BY <1>9 DEF StartBegin, wdVars, taskVars, CallerPoints
<1>10. ASSUME NEW c \in Caller, StartSpawnFails(c) PROVE Joining' /\ CallAdvances
  BY <1>10 DEF StartSpawnFails, wdVars, taskVars
<1>11. ASSUME NEW c \in Caller, NEW p \in Pid, NEW cfg \in Config,
              StartSpawn(c, p, cfg)
       PROVE  Joining' /\ CallAdvances
  BY <1>11 DEF StartSpawn, wdVars, taskVars
<1>12. ASSUME NEW c \in Caller, StartHarden(c) PROVE Joining' /\ CallAdvances
  BY <1>12 DEF StartHarden, wdVars, taskVars
<1>13. ASSUME NEW c \in Caller, StartAborts(c) PROVE Joining' /\ CallAdvances
  BY <1>13 DEF StartAborts, wdVars, taskVars
<1>14. ASSUME NEW c \in Caller, StartLeavesFailedChild(c)
       PROVE  Joining' /\ CallAdvances
  BY <1>14 DEF StartLeavesFailedChild, wdVars, taskVars
<1>15. ASSUME NEW c \in Caller, StartCommits(c) PROVE Joining' /\ CallAdvances
  BY <1>15 DEF StartCommits
<1>16. CASE Watchdog \/ \E p \in Pid : CoreExit(p) \/ DropKill(p)
  BY <1>16, OthersStep DEF callVars
<1>17. CASE UNCHANGED vars
  BY <1>17 DEF vars, callVars, wdVars, taskVars
<1> QED
  BY <1>2, <1>3, <1>4, <1>5, <1>6, <1>7, <1>8, <1>9, <1>10, <1>11, <1>12, <1>13,
     <1>14, <1>15, <1>16, <1>17 DEF Next, StopCore, StartCore

(* PInv holds in every reachable state, of every instance. *)
LEMMA Progressive == Spec => []PInv
<1>1. Init => Joining /\ Attempts
  BY DEF Init, Joining, Attempts
<1>2. PInv /\ [Next]_vars => PInv'
  BY NextIInv, RecoveryStep, CallStep DEF PInv
<1> QED
  BY <1>1, <1>2, InitIInv, PTL DEF Spec, PInv

(* Nobody waits for himself, whatever callers and watchdog are doing: the   *)
(* safety half of CallsComplete.                                            *)
THEOREM NoDeadlock == Spec => []NoCallIsStuck
<1>1. PInv => NoCallIsStuck
  <2> SUFFICES ASSUME PInv, NEW c \in Caller, pc[c] # "idle"
               PROVE  \/ Advances(c)
                      \/ holder \in Caller
                         /\ (Advances(holder) \/ pc[holder] = "hung")
    BY DEF NoCallIsStuck
  <2>1. ASSUME NEW d \in Caller, holder = d PROVE Advances(d) \/ pc[d] = "hung"
    BY <2>1 DEF PInv, IInv, TypeOK, CallersTypeOK, Mutex, Joining, Advances,
       CanStep, WatchdogCanEnd, WatchdogPcs, Recovering, CallerPcs, StopPcs,
       StartPcs, WatchdogPoints, Caller, NoCaller
  <2>2. CASE holder \in Caller
    BY <2>1, <2>2
  <2>3. CASE holder = NoCaller
    <3>1. pc[c] \in {"wantStop", "wantStart"}
      BY <2>3 DEF PInv, IInv, TypeOK, CallersTypeOK, Mutex, CallerPcs, StopPcs,
         StartPcs, Caller, NoCaller
    <3> QED
      BY <2>3, <3>1 DEF Advances, CanStep
  <2> QED
    BY <2>2, <2>3 DEF PInv, IInv, TypeOK, CallersTypeOK
<1> QED
  BY <1>1, Progressive, PTL

(* Every step of a call brings it nearer to its end, of which a takeover    *)
(* with its rollback is fifteen away.                                       *)
THEOREM CallsAreBounded ==
  Spec => [](\A c \in Caller : CallRank(c) \in 0..15) /\ [][CallAdvances]_vars
<1>1. PInv => \A c \in Caller : CallRank(c) \in 0..15
  BY DEF PInv, IInv, TypeOK, CallersTypeOK, CallRank, Remaining, CallerPcs,
     StopPcs, StartPcs
<1>2. PInv /\ [Next]_vars => [CallAdvances]_vars
  BY CallStep DEF PInv
<1> QED
  BY <1>1, <1>2, Progressive, PTL DEF Spec

(* A recovery ends after a number of steps that the restart budget bounds:  *)
(* the safety half of RecoverySettles.                                      *)
THEOREM RecoveriesAreBounded ==
  Spec => [](RecoveryIsBounded) /\ [][RecoveryAdvances]_vars
<1>1. PInv => RecoveryIsBounded
  BY MaxRestartsAssumption
  DEF PInv, IInv, TypeOK, Attempts, RecoveryIsBounded, RecoveryRank, Recovering
<1>2. PInv /\ [Next]_vars => [RecoveryAdvances]_vars
  BY RecoveryStep DEF PInv
<1> QED
  BY <1>1, <1>2, Progressive, PTL DEF Spec

(* The stop that waits for itself, and what it leaves published. *)
HungWith(c) == /\ pc[c] = "hung" /\ holder = c
               /\ failed_child # NoPid /\ running_pid = failed_child
               /\ core_state = "Fatal"

(* A stop that hangs keeps CORE_MANAGER for ever, with the core it could    *)
(* not kill still published and Fatal: no later call gets through.          *)
THEOREM HangIsForEver ==
  ASSUME NEW c \in Caller
  PROVE  Spec => [](pc[c] = "hung" => []HungWith(c))
<1> DEFINE Hangs == pc[c] = "hung"
           Keeps == HungWith(c)
<1>1. PInv /\ Hangs => Keeps
  BY DEF PInv, IInv, Mutex, CallerPoints, StopPcs, HungWith, FailedChildIsFatal
<1>2. PInv /\ Hangs /\ [Next]_vars => Hangs'
  <2> SUFFICES ASSUME PInv, pc[c] = "hung", [Next]_vars PROVE pc'[c] = "hung"
    OBVIOUS
  <2> USE DEF PInv, IInv, TypeOK, CallersTypeOK, Goto, Return, StartFails,
          StopSucceeds, StopFails
  <2>1. CASE Watchdog \/ (\E p \in Pid : CoreExit(p) \/ DropKill(p)) \/ UNCHANGED vars
    BY <2>1, OthersStep DEF vars, callVars
  <2>2. CASE StartClash
    BY <2>2 DEF StartClash, Caller
  <2>3. ASSUME NEW d \in Caller, Stop(d) \/ Acquire(d) PROVE pc'[c] = "hung"
    BY <2>3 DEF Stop, Acquire
  <2>4. ASSUME NEW d \in Caller, StopCore(d) PROVE pc'[c] = "hung"
    BY <2>4 DEF StopCore, StopSignal, StopJoin, StopNoFailedChild,
       StopFailedChild, StopClear
  <2>5. ASSUME NEW d \in Caller, StartCore(d) PROVE pc'[c] = "hung"
    BY <2>5 DEF StartCore, StartBegin, StartSpawnFails, StartSpawn, StartHarden,
       StartAborts, StartLeavesFailedChild, StartCommits
  <2> QED
    BY <2>1, <2>2, <2>3, <2>4, <2>5 DEF Next
<1>3. Spec => [](Hangs => []Keeps)
  <2> HIDE DEF Hangs, Keeps
  <2> QED
    BY <1>1, <1>2, Progressive, PTL DEF Spec
<1> QED
  BY <1>3

-----------------------------------------------------------------------------
(* The refinement of CoreContract.                                         *)

LEMMA InitContract == Init => Contract!Init
BY PidAssumption DEF Init, InitBoot, Contract!Init, HeldConfig, HeldCore, Live,
    OursAlive, Settled

(* A core of ours that is alive is the one in a guard. *)
LEMMA OursIsHeld ==
  IInv => (OursAlive <=> HeldCore # NoPid /\ proc[HeldCore] = "alive")
<1> SUFFICES ASSUME IInv
             PROVE  OursAlive <=> HeldCore # NoPid /\ proc[HeldCore] = "alive"
  OBVIOUS
<1>1. ASSUME NEW p \in Live \ (dropped \cup inherited)
      PROVE  HeldCore = p
  BY PidAssumption
  DEF IInv, TypeOK, Ownership, CallerPoints, WatchdogPoints, Live, Held,
      HeldCore, StartPcs, Recovering
<1>2. ASSUME HeldCore # NoPid, proc[HeldCore] = "alive"
      PROVE  HeldCore \in Live \ (dropped \cup inherited)
  BY <1>2 DEF IInv, TypeOK, Ownership, Live, Held, HeldCore
<1> QED
  BY <1>1, <1>2, PidAssumption DEF OursAlive, Live

LEMMA OursIsHeldNext ==
  IInv' => (OursAlive <=> HeldCore # NoPid /\ proc[HeldCore] = "alive")'
BY OursIsHeld, PTL

(* Every step of the manager is one of the contract or invisible to it. *)
LEMMA StepContract == IInv /\ IInv' /\ [Next]_vars => [Contract!Next]_(Contract!vars)
<1> SUFFICES ASSUME IInv, IInv', [Next]_vars PROVE [Contract!Next]_(Contract!vars)
  OBVIOUS
<1>a. OursAlive <=> HeldCore # NoPid /\ proc[HeldCore] = "alive"
  BY OursIsHeld
<1>b. OursAlive' <=> HeldCore' # NoPid /\ proc'[HeldCore'] = "alive"
  BY OursIsHeldNext
<1> DEFINE Same == Contract!vars' = Contract!vars
<1>c. ASSUME UNCHANGED <<HeldCore, starting, core_state, running_config, exhausted>>,
             HeldCore # NoPid => UNCHANGED <<args[HeldCore], proc[HeldCore]>>
      PROVE  Same
  <2>1. UNCHANGED HeldConfig
    BY <1>c DEF HeldConfig
  <2>2. OursAlive' <=> OursAlive
    BY <1>a, <1>b, <1>c
  <2>3. UNCHANGED Settled
    BY <2>1, <1>c DEF Settled
  <2> QED
    BY <2>1, <2>2, <2>3, <1>c DEF Contract!vars
<1> USE PidAssumption, ConfigAssumption
    DEF IInv, TypeOK, CallersTypeOK, Mutex, CallerPoints, WatchdogPoints,
        Ownership, Gate, Configured, LifecyclePoints, GivingUpIsFatal,
        FailedChildIsFatal, Held, HeldCore, HeldConfig, Settled,
        Caller, NoCaller, StopPcs, StartPcs, Recovering,
        osVars, mgrVars, diskVars, taskVars, endVars, windowVars, wdVars,
        callVars, Goto, Spawned, Reaped, Return, StartFails, StopSucceeds,
        StopFails, WatchdogGivesUp, AttemptFailed, Contract!vars,
        Contract!Holds, Contract!Freed
<1>1. ASSUME StartClash PROVE Same
  BY <1>a, <1>b, <1>1 DEF StartClash
<1>2. ASSUME NEW c \in Caller, Stop(c) PROVE Same
  BY <1>a, <1>b, <1>2 DEF Stop
<1>3. ASSUME NEW c \in Caller, Acquire(c) PROVE Same
  BY <1>a, <1>b, <1>3 DEF Acquire
<1>4. ASSUME NEW c \in Caller, StopSignal(c) PROVE Same
  BY <1>a, <1>b, <1>4 DEF StopSignal
<1>5. ASSUME NEW c \in Caller, StopJoin(c) PROVE Same
  BY <1>a, <1>b, <1>5 DEF StopJoin
<1>6. ASSUME NEW c \in Caller, StopNoFailedChild(c) PROVE Same
  <2>1. UNCHANGED <<HeldCore, starting, running_config, exhausted, args, proc>>
    BY <1>6 DEF StopNoFailedChild
  <2>2. UNCHANGED core_state
    BY <1>6 DEF StopNoFailedChild
  <2> QED
    BY <1>c, <2>1, <2>2
<1>7. ASSUME NEW c \in Caller, StopFailedChild(c)
      PROVE  Contract!Die \/ Contract!GiveUp \/ Same
  <2>1. HeldCore = failed_child /\ starting = NoPid /\ Settled
    BY <1>7 DEF StopFailedChild
  <2>2. CASE failed_child' = failed_child
    <3>1. UNCHANGED <<proc, args, core_state, exhausted, running_config, starting, child>>
      BY <1>7, <2>2 DEF StopFailedChild
    <3>2. UNCHANGED HeldCore
      BY <2>2, <3>1
    <3> QED
      BY <1>c, <3>1, <3>2
  <2>3. CASE failed_child' # failed_child
    <3>1. ~OursAlive' /\ starting' = NoPid /\ HeldCore' = NoPid
          /\ UNCHANGED <<core_state, exhausted, running_config>>
      BY <1>b, <1>7, <2>1, <2>3 DEF StopFailedChild
    <3>2. args[failed_child] = running_config /\ core_state = "Fatal"
      BY <1>7 DEF StopFailedChild
    <3>3. HeldConfig = running_config /\ running_config \in Config
      BY <2>1, <2>3, <3>2
    <3>4. CASE exhausted
      <4>1. HeldConfig' = NoConfig /\ ~Settled'
        BY <3>1, <3>2, <3>4
      <4> QED
        BY <2>1, <3>1, <3>2, <4>1 DEF Contract!GiveUp
    <3>5. CASE ~exhausted
      <4>1. UNCHANGED HeldConfig
        BY <3>1, <3>3, <3>5
      <4> QED
        BY <2>1, <3>1, <3>3, <4>1 DEF Contract!Die
    <3> QED
      BY <3>4, <3>5
  <2> QED
    BY <2>2, <2>3
<1>8. ASSUME NEW c \in Caller, StopClear(c) PROVE Contract!Stop
  BY <1>a, <1>b, <1>8 DEF StopClear, Contract!Stop
<1>9. ASSUME NEW c \in Caller, StartBegin(c) PROVE Contract!Report
  BY <1>a, <1>b, <1>9 DEF StartBegin, Contract!Report
<1>10. ASSUME NEW c \in Caller, StartSpawnFails(c) PROVE Contract!Report
  BY <1>a, <1>b, <1>10 DEF StartSpawnFails, Contract!Report
<1>11. ASSUME NEW c \in Caller, NEW p \in Pid, NEW cfg \in Config,
             StartSpawn(c, p, cfg)
      PROVE  Contract!Spawn(cfg)
  BY <1>a, <1>b, <1>11 DEF StartSpawn, Contract!Spawn
<1>12. ASSUME NEW c \in Caller, StartHarden(c) PROVE Same
  BY <1>a, <1>b, <1>12 DEF StartHarden
<1>13. ASSUME NEW c \in Caller, StartAborts(c) PROVE Contract!Undo
  BY <1>a, <1>b, <1>13 DEF StartAborts, Contract!Undo
<1>14. ASSUME NEW c \in Caller, StartLeavesFailedChild(c)
      PROVE  Contract!KillFails
  <2>1. /\ HeldCore = starting /\ HeldCore' = starting /\ starting \in Pid
        /\ starting' = NoPid /\ core_state' = "Fatal" /\ UNCHANGED <<proc, args>>
    BY <1>14 DEF StartLeavesFailedChild
  <2>2. UNCHANGED <<HeldConfig, OursAlive>> /\ HeldConfig \in Config
    BY <1>a, <1>b, <2>1
  <2> QED
    BY <2>1, <2>2 DEF Contract!KillFails
<1>15. ASSUME NEW c \in Caller, StartCommits(c) PROVE Contract!Settle
  <2>1. /\ HeldCore = starting /\ starting \in Pid /\ args[starting] \in Config
        /\ starting' = NoPid /\ child' = starting
        /\ core_state' = "Running" /\ UNCHANGED <<proc, args>>
    BY <1>15 DEF StartCommits
  <2>2. HeldCore' = starting
    BY <2>1
  <2>3. /\ HeldConfig = args[starting] /\ HeldConfig' = args[starting]
        /\ (OursAlive' <=> OursAlive)
    BY <1>a, <1>b, <2>1, <2>2
  <2>4. Contract!Holds /\ ~Settled
    BY <2>1, <2>3
  <2>5. Settled' /\ core_state' # "Fatal" /\ UNCHANGED HeldConfig
    BY <2>1, <2>3
  <2> HIDE DEF IInv, Settled, HeldConfig, HeldCore
  <2> QED
    BY <2>3, <2>4, <2>5 DEF Contract!Settle
<1>16. ASSUME WatchdogShutdown PROVE Contract!Die \/ Contract!KillFails
  <2>1. CASE child' = NoPid /\ wpc' = "finish"
    BY <1>a, <1>b, <1>16, <2>1 DEF WatchdogShutdown, Contract!Die
  <2>2. CASE wpc' = "done"
    <3>1. /\ HeldCore = child /\ HeldCore' = child /\ starting = NoPid
          /\ starting' = NoPid /\ core_state' = "Fatal" /\ UNCHANGED <<proc, args>>
      BY <1>16, <2>2 DEF WatchdogShutdown
    <3>2. UNCHANGED <<HeldConfig, OursAlive>> /\ HeldConfig \in Config
      BY <1>a, <1>b, <1>16, <3>1 DEF WatchdogShutdown
    <3> QED
      BY <3>1, <3>2 DEF Contract!KillFails
  <2> QED
    BY <1>16, <2>1, <2>2 DEF WatchdogShutdown
<1>17. ASSUME WatchdogExit PROVE Contract!Die
  BY <1>a, <1>b, <1>17 DEF WatchdogExit, Contract!Die
<1>18. ASSUME WatchdogWaitFails PROVE Contract!Die
  BY <1>a, <1>b, <1>18 DEF WatchdogWaitFails, Contract!Die
<1>19. ASSUME NEW kept \in 0..(older + episode), WatchdogClear(kept)
      PROVE  Same
  BY <1>a, <1>b, <1>19 DEF WatchdogClear
<1>20. ASSUME WatchdogExhausted PROVE Same
  BY <1>a, <1>b, <1>20 DEF WatchdogExhausted
<1>21. ASSUME WatchdogBackoff PROVE Same
  BY <1>a, <1>b, <1>21 DEF WatchdogBackoff
<1>22. ASSUME WatchdogSpawnFails PROVE Same
  BY <1>a, <1>b, <1>22 DEF WatchdogSpawnFails
<1>23. ASSUME NEW p \in Pid, WatchdogSpawn(p) PROVE Contract!Restart
  BY <1>a, <1>b, <1>23 DEF WatchdogSpawn, Contract!Restart
<1>24. ASSUME WatchdogHarden PROVE Same
  BY <1>a, <1>b, <1>24 DEF WatchdogHarden
<1>25. ASSUME WatchdogHardenFails PROVE Contract!Die
  BY <1>a, <1>b, <1>25 DEF WatchdogHardenFails, Contract!Die
<1>26. ASSUME WatchdogRecordFails PROVE Contract!Die
  BY <1>a, <1>b, <1>26 DEF WatchdogRecordFails, Contract!Die
<1>27. ASSUME WatchdogLeavesFailedChild PROVE Contract!KillFails
  <2>1. /\ HeldCore = child /\ HeldCore' = child /\ starting = NoPid
        /\ starting' = NoPid /\ core_state' = "Fatal" /\ UNCHANGED <<proc, args>>
    BY <1>27 DEF WatchdogLeavesFailedChild
  <2>2. UNCHANGED <<HeldConfig, OursAlive>> /\ HeldConfig \in Config
    BY <1>a, <1>b, <1>27, <2>1 DEF WatchdogLeavesFailedChild
  <2> QED
    BY <2>1, <2>2 DEF Contract!KillFails
<1>28. ASSUME WatchdogRestarted PROVE Same
  BY <1>a, <1>b, <1>28 DEF WatchdogRestarted
<1>29. ASSUME WatchdogFinish PROVE Contract!GiveUp \/ Same
  <2>1. /\ HeldCore = NoPid /\ HeldCore' = NoPid /\ starting' = NoPid
        /\ HeldConfig = running_config /\ running_config \in Config
        /\ UNCHANGED <<starting, running_config, exhausted>>
    BY <1>29 DEF WatchdogFinish
  <2>2. ~OursAlive /\ ~OursAlive'
    BY <1>a, <1>b, <2>1
  <2>3. CASE exhausted
    BY <1>29, <2>1, <2>2, <2>3 DEF WatchdogFinish, Contract!GiveUp
  <2>4. CASE ~exhausted
    <3>1. UNCHANGED core_state
      BY <1>29, <2>4 DEF WatchdogFinish
    <3>2. (OursAlive' <=> OursAlive) /\ UNCHANGED HeldConfig
      BY <2>1, <2>2, <2>4
    <3> QED
      BY <2>1, <3>1, <3>2
  <2> QED
    BY <2>3, <2>4
<1>30. ASSUME NEW p \in Pid, CoreExit(p) PROVE Contract!Die \/ Same
  <2>1. /\ UNCHANGED <<HeldCore, starting, core_state, running_config, exhausted>>
        /\ HeldCore # NoPid => HeldCore \in Held
    BY <1>30 DEF CoreExit
  <2>2. CASE HeldCore = p
    <3>1. p \notin inherited
      BY <2>1, <2>2
    <3>2. UNCHANGED args /\ proc' = [proc EXCEPT ![p] = "zombie"]
      BY <1>30, <3>1 DEF CoreExit
    <3>3. UNCHANGED HeldConfig /\ HeldConfig \in Config /\ ~OursAlive'
      BY <1>b, <2>1, <2>2, <3>2
    <3> QED
      BY <2>1, <3>3 DEF Contract!Die
  <2>3. CASE HeldCore # p
    <3>1. HeldCore # NoPid => UNCHANGED <<args[HeldCore], proc[HeldCore]>>
      BY <1>30, <2>1, <2>3 DEF CoreExit
    <3> QED
      BY <1>c, <2>1, <3>1
  <2> QED
    BY <2>2, <2>3
<1>31. ASSUME NEW p \in Pid, DropKill(p) PROVE Same
  <2>1. /\ UNCHANGED <<HeldCore, starting, core_state, running_config, exhausted>>
        /\ HeldCore # NoPid => HeldCore \in Held
    BY <1>31 DEF DropKill
  <2>2. HeldCore # NoPid => UNCHANGED <<args[HeldCore], proc[HeldCore]>>
    BY <1>31, <2>1 DEF DropKill
  <2> QED
    BY <1>c, <2>1, <2>2
<1>32. ASSUME UNCHANGED vars PROVE Same
  BY <1>a, <1>b, <1>32 DEF vars
<1> QED
  BY <1>1, <1>2, <1>3, <1>4, <1>5, <1>6, <1>7, <1>8, <1>9, <1>10, <1>11, <1>12, <1>13, <1>14, <1>15, <1>16, <1>17, <1>18, <1>19, <1>20, <1>21, <1>22, <1>23, <1>24, <1>25, <1>26, <1>27, <1>28, <1>29, <1>30, <1>31, <1>32
  DEF Next, StopCore, StartCore, Watchdog, Contract!Next

(* The supervisor keeps its contract whatever fails. *)
THEOREM Refinement == Spec => ImplementsContract
BY InitContract, StepContract, Inductive, PTL
DEF Spec, ImplementsContract, Contract!Spec

(* What a caller may conclude from the contract alone, and so of the code.  *)
HeldWhileAlive == OursAlive => HeldConfig # NoConfig

HeldIsKept ==
    HeldConfig # NoConfig /\ HeldConfig' # HeldConfig =>
        HeldConfig' = NoConfig /\ ~OursAlive'

(* While a core of this process is alive, other than one that a detached    *)
(* task is killing, the manager knows its configuration; and a              *)
(* configuration makes way for another only by way of a moment at which no  *)
(* core is alive.                                                           *)
THEOREM ConfigurationsDoNotOverlap ==
  Spec => []HeldWhileAlive /\ [][HeldIsKept]_vars
<1> USE DEF Contract!Holds, Contract!Freed, HeldWhileAlive, HeldIsKept
<1>1. Contract!Init => HeldWhileAlive
  BY DEF Contract!Init
<1>2. HeldWhileAlive /\ [Contract!Next]_(Contract!vars) => HeldWhileAlive' /\ HeldIsKept
  BY ConfigAssumption
  DEF Settled, Contract!Next, Contract!vars, Contract!Report, Contract!Spawn,
      Contract!Settle, Contract!Undo, Contract!KillFails, Contract!Die,
      Contract!Restart, Contract!GiveUp, Contract!Stop
<1>3. Contract!Spec => []HeldWhileAlive
  BY <1>1, <1>2, PTL DEF Contract!Spec
<1>4. HeldWhileAlive /\ IInv /\ IInv' /\ [Next]_vars => [HeldIsKept]_vars
  BY <1>2, StepContract
<1> QED
  BY <1>3, <1>4, Refinement, Inductive, PTL DEF Spec, ImplementsContract
=============================================================================
