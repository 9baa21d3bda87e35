-------------------------- MODULE IpcSupervisorProofs --------------------------
(***************************************************************************)
(* The IPC listener and its supervisor, for every set of other callers,    *)
(* every budget of restarts, every window and every back-off.              *)
(***************************************************************************)
EXTENDS IpcSupervisor, SequenceTheorems, FiniteSetTheorems, TLAPS

(* Until the supervisor has failed, the ends it counts are those it         *)
(* answered with a rebuild, and they fit the budget.                        *)
Counted ==
    /\ state = "fatal" => at(Supervisor, "failed")
    /\ ~at(Supervisor, "failed") => granted = times
    /\ Len(granted) <= MaxRestarts

Running  == {"init", "channels", "done", "spawn"}
Stopping == {"stopping", "signalling", "taking", "draining", "closing",
             "cleaning"}

(* IPC_LIFECYCLE_LOCK is held by whoever is inside, and a stop of the core  *)
(* that hangs is inside.                                                   *)
Locked ==
    \A c \in Caller :
        pc[c] \in Running \cup Stopping \cup {"hung"} <=> lock = c

(* The supervisor makes a listener only when there is none. *)
OneListener ==
    /\ alive \subseteq {handle}
    /\ pc[Supervisor] \in {"wantRun", "init", "channels", "backoff"} =>
          alive = {}

(* A listener can be told to end, or has been told. *)
Reachable ==
    /\ handle \in alive => sender = handle \/ handle \in told
    /\ \A c \in Caller :
          pc[c] \in Stopping \ {"stopping", "signalling"} => sender = None

(* Its end can be waited for, or is being waited for, from the moment its   *)
(* receiver is in the slot.                                                *)
Awaitable ==
    /\ handle \in alive /\ ~at(Supervisor, "done") =>
          \/ done = handle
          \/ \E c \in Caller : at(c, "draining") /\ awaits[c] = handle
    /\ \A c \in Caller : at(c, "draining") => done = None

(* Nobody takes away the server between its creation and the spawn.        *)
ServerFound == pc[Supervisor] \in Running \ {"init"} => server

Lifecycle ==
    Locked /\ OneListener /\ Reachable /\ Awaitable /\ ServerFound
    /\ StopIsComplete

IInv == TypeOK /\ Counted /\ Lifecycle

Age == 0..Window

-----------------------------------------------------------------------------
(* What is recent is no longer than what there is. *)
LEMMA RecentFacts ==
  ASSUME NEW ages \in Seq(Age)
  PROVE  /\ Recent(ages) \in Seq(Age)
         /\ Len(Recent(ages)) \in Nat
         /\ Len(Recent(ages)) <= Len(ages)
<1> DEFINE old == {i \in DOMAIN ages : ages[i] >= Window}
<1>1. DOMAIN ages = 1..Len(ages) /\ Len(ages) \in Nat
  OBVIOUS
<1>2. Cardinality(old) \in Nat
  <2>1. IsFiniteSet(1..Len(ages))
    BY <1>1, FS_Interval
  <2> QED
    BY <1>1, <2>1, FS_Subset, FS_CardinalityType
<1>3. \A i \in Cardinality(old) + 1 .. Len(ages) : ages[i] \in Age
  BY <1>1, <1>2
<1> HIDE DEF old
<1>4. /\ SubSeq(ages, Cardinality(old) + 1, Len(ages)) \in Seq(Age)
      /\ Len(SubSeq(ages, Cardinality(old) + 1, Len(ages))) =
           IF Cardinality(old) + 1 <= Len(ages)
           THEN Len(ages) - (Cardinality(old) + 1) + 1 ELSE 0
  BY <1>1, <1>2, <1>3, SubSeqProperties
<1>5. Recent(ages) = SubSeq(ages, Cardinality(old) + 1, Len(ages))
  BY DEF Recent, old
<1> QED
  BY <1>1, <1>2, <1>4, <1>5

(* Time keeps the number of ages. *)
LEMMA OlderFacts ==
  ASSUME NEW ages \in Seq(Age)
  PROVE  Older(ages) \in Seq(Age) /\ Len(Older(ages)) = Len(ages)
<1>1. DOMAIN ages = 1..Len(ages) /\ Len(ages) \in Nat
  OBVIOUS
<1>2. Older(ages) \in [1..Len(ages) -> Age]
  BY <1>1, BudgetAssumption DEF Older, Age
<1> QED
  BY <1>1, <1>2

(* The back-off is within its bound. *)
LEMMA BackoffFacts ==
  ASSUME NEW n \in 0..LastAttempt
  PROVE  Backoff(n) \in 0..MaxBackoff
BY BudgetAssumption DEF Backoff, LastAttempt

-----------------------------------------------------------------------------
PcOK ==
    /\ pc \in [Caller -> UNION {Steps(c) : c \in Caller}]
    /\ \A c \in Caller : pc[c] \in Steps(c)

(* Who is where after a move. *)
LEMMA MoveFacts ==
  ASSUME TypeOK, NEW c \in Caller, NEW step, Goto(c, step)
  PROVE  /\ pc'[c] = step
         /\ \A d \in Caller \ {c} : pc'[d] = pc[d]
         /\ DOMAIN pc' = Caller
BY DEF TypeOK, Goto

(* Every move is to a step of the one who makes it. *)
LEMMA MoveType ==
  ASSUME TypeOK, NEW c \in Caller, NEW step \in Steps(c), Goto(c, step)
  PROVE  PcOK'
<1>1. \A d \in Caller : pc'[d] \in Steps(d)
  BY DEF TypeOK, Goto
<1>2. step \in UNION {Steps(d) : d \in Caller}
  OBVIOUS
<1> QED
  BY <1>1, <1>2 DEF TypeOK, Goto, PcOK

(* Moves of the supervisor. *)
LEMMA SupervisorMove ==
  ASSUME TypeOK, NEW step, Goto(Supervisor, step),
         step \in Supervising \cup {"wantStop", "stopped", "failed"}
  PROVE  PcOK' /\ pc'[Supervisor] = step
<1>1. Supervisor \in Caller /\ step \in Steps(Supervisor)
  BY DEF Caller, Steps, StopSteps
<1> QED
  BY <1>1, MoveFacts, MoveType

(* Moves of a stop. *)
LEMMA StopMove ==
  ASSUME TypeOK, NEW c \in Caller, NEW step \in Steps(c), Goto(c, step),
         pc[c] \in StopSteps
  PROVE  /\ PcOK'
         /\ at(Supervisor, "backoff") => at(Supervisor, "backoff")'
         /\ at(Supervisor, "failed") => at(Supervisor, "failed")'
<1>1. PcOK'
  BY MoveType
<1>2. Supervisor \in Caller
  BY DEF Caller
<1> QED
  BY <1>1, <1>2, MoveFacts DEF StopSteps, at

(* The lifecycle under every action. *)
LEMMA LifecycleStep ==
  ASSUME TypeOK, Lifecycle, [Next]_vars
  PROVE  Lifecycle'
<1> Supervisor \in Caller /\ None \notin Caller /\ None \notin Listener
  BY CallerAssumption DEF Caller
<1> USE DEF Lifecycle, Locked, OneListener, Reachable, Awaitable, ServerFound,
        StopIsComplete, Running, Stopping, at, ipc, channels, budget
<1>1. CASE RequestShutdown \/ Tick \/ UNCHANGED vars
  BY <1>1 DEF RequestShutdown, Tick, vars
<1>2. CASE \E g \in Guest : Call(g)
  <2> PICK g \in Guest : Call(g)
    BY <1>2
  <2>1. g \in Caller /\ g # Supervisor
    BY CallerAssumption DEF Caller
  <2> QED
    BY <2>1, MoveFacts DEF Call
<1>3. CASE ListenerEnds \/ ListenerObeys
  BY <1>3 DEF ListenerEnds, ListenerObeys, ListenerGone
<1>4. CASE LockRun
  BY <1>4, MoveFacts DEF LockRun
<1>5. CASE InitServer
  BY <1>5, MoveFacts DEF InitServer
<1>6. CASE InitFails
  BY <1>6, MoveFacts DEF InitFails, Fail
<1>7. CASE SetSender
  BY <1>7, MoveFacts DEF SetSender, Tell, TypeOK
<1>8. CASE SetDone
  BY <1>8, MoveFacts DEF SetDone
<1>9. CASE Spawn
  BY <1>9, MoveFacts DEF Spawn, Fail
<1>10. CASE Join
  BY <1>10, MoveFacts DEF Join, Joinable, Note, Fail
<1>11. CASE Rebuild
  BY <1>11, MoveFacts DEF Rebuild
<1>12. CASE SelectShutdown
  BY <1>12, MoveFacts DEF SelectShutdown
<1>13. CASE \E c \in Caller : LockStop(c)
  BY <1>13, MoveFacts DEF LockStop
<1>14. CASE \E c \in Caller : StopCore(c) \/ StopCoreHangs(c)
  BY <1>14, MoveFacts DEF StopCore, StopCoreHangs
<1>15. CASE \E c \in Caller : Signal(c)
  BY <1>15, MoveFacts DEF Signal, Tell, TypeOK
<1>16. CASE \E c \in Caller : TakeDone(c)
  BY <1>16, MoveFacts DEF TakeDone, TypeOK
<1>17. CASE \E c \in Caller : Drain(c)
  BY <1>17, MoveFacts DEF Drain, TypeOK
<1>18. CASE \E c \in Caller : CloseServer(c)
  BY <1>18, MoveFacts DEF CloseServer
<1>19. CASE \E c \in Caller : CleanUp(c)
  BY <1>19, MoveFacts DEF CleanUp
<1> QED
  BY <1>1, <1>2, <1>3, <1>4, <1>5, <1>6, <1>7, <1>8, <1>9, <1>10, <1>11,
     <1>12, <1>13, <1>14, <1>15, <1>16, <1>17, <1>18, <1>19
  DEF Next, Run, RunStep, Stop, StopStep

(* The end of the listener's task. *)
LEMMA JoinIInv ==
  ASSUME TypeOK, Counted, Join
  PROVE  /\ TypeOK' /\ Counted'
         /\ at(Supervisor, "failed")' => Len(Recent(granted)) = MaxRestarts
<1> DEFINE recent == Recent(times)
           n      == IF recent = <<>> THEN 0 ELSE attempt
<1> USE BudgetAssumption DEF at
<1> Supervisor \in Caller
  BY DEF Caller
<1>1. /\ times \in Seq(Age) /\ granted = times
      /\ attempt \in 0..LastAttempt /\ pc[Supervisor] = "serving"
  BY DEF TypeOK, Counted, Join, Joinable, Age
<1>2. /\ recent \in Seq(Age) /\ Len(recent) \in Nat
      /\ Len(recent) <= MaxRestarts
  BY <1>1, RecentFacts, LenProperties DEF Counted
<1>3. n \in 0..LastAttempt
  BY <1>1 DEF LastAttempt
<1>4. Note(recent, n)
  BY DEF Join
<1>5. /\ Append(recent, 0) \in Seq(Age)
      /\ Len(Append(recent, 0)) = Len(recent) + 1
  BY <1>2, AppendProperties DEF Age
<1>6. Backoff(n) \in 0..MaxBackoff
  BY <1>3, BackoffFacts
<1> HIDE DEF recent, n
<1>7. CASE Len(recent) + 1 > MaxRestarts
  <2>1. Len(recent) = MaxRestarts
    BY <1>2, <1>7
  <2>2. /\ times' = Append(recent, 0) /\ handle' = None
        /\ Goto(Supervisor, "failed") /\ state' = "fatal" /\ attempt' = n
        /\ UNCHANGED <<sleep, granted, shutdown, lock, server, channels>>
    BY <1>4, <1>7 DEF Note, Fail
  <2>3. sleep = 0
    BY <1>1 DEF TypeOK
  <2>4. PcOK' /\ pc'[Supervisor] = "failed"
    BY <2>2, SupervisorMove
  <2>5. TypeOK'
    BY <1>2, <1>3, <1>5, <2>1, <2>2, <2>3, <2>4
    DEF TypeOK, PcOK, Age, channels
  <2> QED
    BY <1>1, <2>1, <2>2, <2>4, <2>5 DEF Counted, recent
<1>8. CASE Len(recent) + 1 <= MaxRestarts
  <2>1. /\ times' = Append(recent, 0) /\ handle' = None
        /\ Goto(Supervisor, "backoff") /\ state' = "recovering"
        /\ sleep' = Backoff(n)
        /\ attempt' = IF n < LastAttempt THEN n + 1 ELSE LastAttempt
        /\ granted' = Append(recent, 0)
        /\ UNCHANGED <<shutdown, lock, server, channels>>
    BY <1>1, <1>2, <1>4, <1>8 DEF Note, recent
  <2>2. attempt' \in 0..LastAttempt
    BY <1>3, <2>1 DEF LastAttempt
  <2>3. PcOK' /\ pc'[Supervisor] = "backoff"
    BY <2>1, SupervisorMove DEF Supervising
  <2>4. TypeOK'
    BY <1>2, <1>5, <1>6, <1>8, <2>1, <2>2, <2>3
    DEF TypeOK, PcOK, Age, channels
  <2> QED
    BY <1>5, <1>8, <2>1, <2>3, <2>4 DEF Counted
<1> QED
  BY <1>2, <1>7, <1>8

(* Type and budget under every action. *)
LEMMA BudgetStep ==
  ASSUME TypeOK, Counted, [Next]_vars
  PROVE  TypeOK' /\ Counted'
<1> /\ Supervisor \in Caller /\ Guest \subseteq Caller
    /\ Supervisor \notin Guest
  BY CallerAssumption DEF Caller
<1> USE BudgetAssumption
    DEF TypeOK, PcOK, Counted, at, ipc, channels, budget
<1>1. CASE RequestShutdown
  BY <1>1 DEF RequestShutdown
<1>2. CASE Tick
  <2>1. times \in Seq(Age) /\ granted \in Seq(Age)
    BY DEF Age
  <2>2. /\ Older(times) \in Seq(Age) /\ Len(Older(times)) = Len(times)
        /\ Older(granted) \in Seq(Age) /\ Len(Older(granted)) = Len(granted)
    BY <2>1, OlderFacts
  <2>3. ~at(Supervisor, "failed")
    BY <1>2 DEF Tick, Supervising
  <2> QED
    BY <1>2, <2>2, <2>3 DEF Tick, Age
<1>3. CASE \E g \in Guest : Call(g)
  <2> PICK g \in Guest : Call(g)
    BY <1>3
  <2>1. g \in Caller /\ g # Supervisor /\ "wantStop" \in Steps(g)
    BY DEF Steps, StopSteps
  <2>2. PcOK' /\ pc'[Supervisor] = pc[Supervisor]
    BY <2>1, MoveType, MoveFacts DEF Call
  <2> QED
    BY <2>2 DEF Call
<1>4. CASE ListenerEnds \/ ListenerObeys
  BY <1>4 DEF ListenerEnds, ListenerObeys, ListenerGone
<1>5. CASE LockRun
  BY <1>5, SupervisorMove DEF LockRun, Supervising
<1>6. CASE InitServer
  BY <1>6, SupervisorMove DEF InitServer, Supervising
<1>7. CASE InitFails
  BY <1>7, SupervisorMove DEF InitFails, Fail
<1>8. CASE SetSender
  <2>1. PcOK' /\ pc'[Supervisor] = "done"
    BY <1>8, SupervisorMove DEF SetSender, Supervising
  <2>2. told' \subseteq alive' /\ alive' \subseteq Listener
    BY <1>8 DEF SetSender, Tell
  <2> QED
    BY <1>8, <2>1, <2>2 DEF SetSender
<1>9. CASE SetDone
  BY <1>9, SupervisorMove DEF SetDone, Supervising
<1>10. CASE Spawn
  BY <1>10, SupervisorMove DEF Spawn, Fail, Supervising
<1>11. CASE Join
  BY <1>11, JoinIInv
<1>12. CASE Rebuild
  BY <1>12, SupervisorMove DEF Rebuild, Supervising
<1>13. CASE SelectShutdown
  BY <1>13, SupervisorMove DEF SelectShutdown
<1>14. CASE \E c \in Caller : Stop(c)
  <2> PICK c \in Caller : Stop(c)
    BY <1>14
  <2>1. StopSteps \subseteq Steps(c)
    BY DEF Steps
  <2>2. CASE LockStop(c)
    BY <2>1, <2>2, StopMove DEF LockStop, StopSteps
  <2>3. CASE StopCore(c) \/ StopCoreHangs(c)
    BY <2>1, <2>3, StopMove DEF StopCore, StopCoreHangs, StopSteps
  <2>4. CASE Signal(c)
    <3>1. told' \subseteq alive
      BY <2>4 DEF Signal, Tell
    <3> QED
      BY <2>1, <2>4, <3>1, StopMove DEF Signal, StopSteps
  <2>5. CASE TakeDone(c)
    <3>1. awaits' \in [Caller -> Listener \cup {None}]
      BY <2>5 DEF TakeDone
    <3> QED
      BY <2>1, <2>5, <3>1, StopMove DEF TakeDone, StopSteps
  <2>6. CASE Drain(c)
    <3>1. awaits' \in [Caller -> Listener \cup {None}]
      BY <2>6 DEF Drain
    <3> QED
      BY <2>1, <2>6, <3>1, StopMove DEF Drain, StopSteps
  <2>7. CASE CloseServer(c)
    BY <2>1, <2>7, StopMove DEF CloseServer, StopSteps
  <2>8. CASE CleanUp(c)
    <3>1. \E end \in Steps(c) : Goto(c, end)
      BY <2>8 DEF CleanUp, Steps
    <3> QED
      BY <2>8, <3>1, StopMove DEF CleanUp, StopSteps
  <2> QED
    BY <2>2, <2>3, <2>4, <2>5, <2>6, <2>7, <2>8 DEF Stop, StopStep
<1>15. CASE UNCHANGED vars
  BY <1>15 DEF vars
<1> QED
  BY <1>1, <1>2, <1>3, <1>4, <1>5, <1>6, <1>7, <1>8, <1>9, <1>10, <1>11,
     <1>12, <1>13, <1>14, <1>15
  DEF Next, Run, RunStep

(* The initial state satisfies the invariant. *)
LEMMA InitIInv == Init => IInv
<1> SUFFICES ASSUME Init PROVE IInv
  OBVIOUS
<1>1. /\ Supervisor \in Caller /\ None \notin Caller /\ None \notin Listener
      /\ Supervisor \notin Guest /\ Guest \subseteq Caller
  BY CallerAssumption DEF Caller
<1>2. times = <<>> /\ granted = <<>>
  BY DEF Init
<1>3. times \in Seq(0..Window) /\ granted \in Seq(0..Window)
  BY <1>2
<1>4. Len(times) = 0 /\ Len(granted) = 0
  BY <1>2
<1>5. Len(times) <= MaxRestarts + 1 /\ Len(times) # MaxRestarts + 1
  BY <1>4, BudgetAssumption
<1>6. attempt \in 0..LastAttempt /\ sleep \in 0..MaxBackoff /\ ~(sleep > 0)
  BY BudgetAssumption DEF Init, LastAttempt
<1>7. PcOK
  <2>1. \A c \in Caller : pc[c] \in Steps(c)
    BY DEF Init, Steps, Supervising
  <2>2. pc \in [Caller -> UNION {Steps(c) : c \in Caller}]
    BY <2>1 DEF Init
  <2> QED
    BY <2>1, <2>2 DEF PcOK
<1>8. TypeOK
  BY <1>1, <1>3, <1>5, <1>6, <1>7, Zenon DEF Init, TypeOK, PcOK
<1>9. Counted
  BY <1>1, <1>2, <1>4, BudgetAssumption DEF Init, Counted
<1>10. Lifecycle
  BY <1>1 DEF Init, Lifecycle, Locked, OneListener, Reachable, Awaitable,
     ServerFound, StopIsComplete, Running, Stopping, at
<1> QED
  BY <1>8, <1>9, <1>10 DEF IInv

(* IInv holds in every reachable state, of every instance. *)
THEOREM Inductive == Spec => []IInv
<1>1. IInv /\ [Next]_vars => IInv'
  BY BudgetStep, LifecycleStep DEF IInv
<1> QED
  BY InitIInv, <1>1, PTL DEF Spec

-----------------------------------------------------------------------------
(* Every reachable state is well-typed: no more ends are remembered than    *)
(* the budget and the one that exceeds it.                                  *)
THEOREM TypeCorrect == Spec => []TypeOK
<1>1. IInv => TypeOK
  BY DEF IInv
<1> QED
  BY Inductive, <1>1, PTL

(* A listener that keeps ending is rebuilt no more often than the budget    *)
(* allows within the window.                                                *)
THEOREM Rationed == Spec => []RebuildsAreRationed
<1>1. IInv => RebuildsAreRationed
  BY RecentFacts, LenProperties, BudgetAssumption
  DEF IInv, TypeOK, Counted, RebuildsAreRationed, Age
<1> QED
  BY Inductive, <1>1, PTL

(* No stop touches server or socket while there is a listener, and none is  *)
(* left when the supervisor has returned: the lock lets nobody replace the  *)
(* channels between their taking and the end of the wait.                   *)
THEOREM StopsAreComplete == Spec => []StopIsComplete
<1>1. IInv => StopIsComplete
  BY DEF IInv, Lifecycle
<1> QED
  BY Inductive, <1>1, PTL

(* The supervisor gives up only on more ends within the window than the     *)
(* budget allows.                                                           *)
THEOREM GivesUpOnBursts == Spec => GivesUpOnBurstsOnly
<1>1. IInv /\ [Next]_vars =>
        [Join /\ at(Supervisor, "failed")' =>
           Len(Recent(granted)) = MaxRestarts]_vars
  BY JoinIInv DEF IInv
<1> QED
  BY Inductive, <1>1, PTL DEF Spec, GivesUpOnBurstsOnly

-----------------------------------------------------------------------------
(* The listener a stop waits for runs, and has been told to end. *)
AwaitedIsTold ==
    \A c \in Caller : at(c, "draining") /\ awaits[c] \in alive =>
        /\ awaits[c] = handle /\ handle \in told
        /\ pc[Supervisor] \notin Running

(* The steps a stop has left, its own and the listener's. *)
Left(c) ==
    CASE at(c, "stopping")   -> 7
      [] at(c, "signalling") -> 6
      [] at(c, "taking")     -> 5
      [] at(c, "draining")   -> IF awaits[c] \in alive THEN 4 ELSE 3
      [] at(c, "closing")    -> 2
      [] at(c, "cleaning")   -> 1
      [] OTHER               -> 0

StopAdvances(c) ==
    pc[c] \in Stopping =>
        /\ pc'[c] \in Stopping \cup {"hung", "stopped", "failed", "idle"}
        /\ Left(c)' <= Left(c)
        /\ StopStep(c) \/ (at(c, "draining") /\ ListenerObeys) =>
              Left(c)' < Left(c)
        /\ alive' \subseteq alive

(* A step of the stop itself. *)
LEMMA OwnStepAdvances ==
  ASSUME IInv, NEW c \in Caller, StopStep(c)
  PROVE  StopAdvances(c)
<1> USE MoveFacts DEF IInv, StopAdvances, Left, Stopping, at, channels, ipc
<1>1. CASE StopCore(c) \/ StopCoreHangs(c)
  BY <1>1 DEF StopCore, StopCoreHangs
<1>2. CASE Signal(c)
  BY <1>2 DEF Signal
<1>3. CASE TakeDone(c)
  BY <1>3 DEF TakeDone
<1>4. CASE Drain(c)
  BY <1>4 DEF Drain
<1>5. CASE CloseServer(c)
  BY <1>5 DEF CloseServer
<1>6. CASE CleanUp(c)
  BY <1>6 DEF CleanUp
<1> QED
  BY <1>1, <1>2, <1>3, <1>4, <1>5, <1>6 DEF StopStep

(* A step of the listener. *)
LEMMA ListenerAdvances ==
  ASSUME IInv, NEW c \in Caller, ListenerGone, ~StopStep(c)
  PROVE  StopAdvances(c)
<1>1. /\ pc' = pc /\ awaits' = awaits
      /\ alive' = alive \ {handle} /\ handle \in alive
  BY DEF ListenerGone
<1>2. at(c, "draining") => awaits[c] = handle
  BY <1>1, CallerAssumption
  DEF IInv, TypeOK, Lifecycle, Awaitable, Locked, Stopping, Running, at, Caller,
      ListenerGone
<1> QED
  BY <1>1, <1>2 DEF StopAdvances, Left, at

(* A step of somebody else, who waits for the lock or does not need it. *)
LEMMA OtherStep ==
  ASSUME IInv, [Next]_vars, NEW c \in Caller, pc[c] \in Stopping,
         ~StopStep(c), ~ListenerGone
  PROVE  pc'[c] = pc[c] /\ alive' = alive /\ awaits'[c] = awaits[c]
<1> Supervisor \in Caller /\ Guest \subseteq Caller /\ None \notin Caller
  BY CallerAssumption DEF Caller
<1>1. /\ lock = c
      /\ \A d \in Caller \ {c} :
           pc[d] \notin Running \cup Stopping \cup {"hung"}
  BY DEF IInv, Lifecycle, Locked
<1>2. pc[Supervisor] \notin Running
  BY <1>1 DEF Running, Stopping
<1> USE <1>1, <1>2, MoveFacts DEF IInv, Running, Stopping, at, ipc, channels
<1>3. CASE RequestShutdown \/ Tick \/ UNCHANGED vars
  BY <1>3 DEF RequestShutdown, Tick, vars
<1>4. CASE Run
  BY <1>4 DEF Run, RunStep, LockRun, InitServer, InitFails, SetSender, SetDone,
     Spawn
<1>5. CASE Join \/ Rebuild \/ SelectShutdown
  BY <1>5 DEF Join, Joinable, Note, Fail, Rebuild, SelectShutdown
<1>6. CASE \E g \in Guest : Call(g)
  BY <1>6 DEF Call
<1>7. CASE \E d \in Caller : Stop(d)
  <2> PICK d \in Caller : Stop(d)
    BY <1>7
  <2>1. CASE LockStop(d)
    BY <2>1 DEF LockStop
  <2>2. CASE StopStep(d)
    BY <2>2 DEF StopStep, StopCore, StopCoreHangs, Signal, TakeDone, Drain,
       CloseServer, CleanUp
  <2> QED
    BY <2>1, <2>2 DEF Stop
<1> QED
  BY <1>3, <1>4, <1>5, <1>6, <1>7 DEF Next, ListenerEnds, ListenerObeys

LEMMA StopsAdvance ==
  ASSUME IInv, [Next]_vars, NEW c \in Caller
  PROVE  StopAdvances(c)
<1>1. CASE pc[c] \notin Stopping
  BY <1>1 DEF StopAdvances
<1>2. CASE StopStep(c)
  BY <1>2, OwnStepAdvances
<1>3. CASE ListenerGone /\ ~StopStep(c)
  BY <1>3, ListenerAdvances
<1>4. CASE pc[c] \in Stopping /\ ~StopStep(c) /\ ~ListenerGone
  BY <1>4, OtherStep DEF StopAdvances, Left, at, ListenerObeys
<1> QED
  BY <1>1, <1>2, <1>3, <1>4

(* A stop that has the lock goes on until it returns, or hangs on the core, *)
(* within seven steps, of its own but for the end of the listener; no       *)
(* listener is made meanwhile, and the one it waits for has been told.      *)
THEOREM StopsEnd ==
  Spec => []AwaitedIsTold /\ [][\A c \in Caller : StopAdvances(c)]_vars
<1>1. IInv => AwaitedIsTold
  <2> SUFFICES ASSUME IInv, NEW c \in Caller,
                      at(c, "draining"), awaits[c] \in alive
               PROVE  /\ awaits[c] = handle /\ handle \in told
                      /\ pc[Supervisor] \notin Running
    BY DEF AwaitedIsTold
  <2>1. awaits[c] = handle /\ handle \in told
    BY CallerAssumption
    DEF IInv, TypeOK, Lifecycle, OneListener, Reachable, Stopping, at
  <2>2. pc[Supervisor] \notin Running
    BY DEF IInv, Lifecycle, Locked, Caller, Stopping, Running, at
  <2> QED
    BY <2>1, <2>2
<1>2. IInv /\ [Next]_vars => [\A c \in Caller : StopAdvances(c)]_vars
  BY StopsAdvance
<1> QED
  BY Inductive, <1>1, <1>2, PTL DEF Spec

=============================================================================
