------------------------- MODULE ServiceElectionProofs -------------------------
(***************************************************************************)
(* Proofs about ServiceElection, for any number of processes.              *)
(***************************************************************************)
EXTENDS ServiceElection, TLAPS

Published == Owner \ {"recording", "stamping", "publishing"}

(* Who is past the lock has it. *)
Locked ==
    /\ \A p \in Pid : phase[p] \in Owner => holder = p

(* What the owner has written is there, whatever clean-ups happen. *)
Written ==
    \A p \in Pid :
        /\ phase[p] \in Published \cup {"publishing"} => lockfile = p
        /\ phase[p] \in Published => pidfile \in {p, Nothing}

(* A pid found in a file, or read from one, was that of an owner. *)
WasOwner(x) == phase[x] \in Owner \cup {"exiting", "dead"}

Traces ==
    /\ lockfile \notin Reusable \cup {Nothing} => WasOwner(lockfile)
    /\ pidfile \notin Reusable \cup {Nothing} => WasOwner(pidfile)
    /\ \A p \in Pid : old[p] \notin Reusable \cup {Nothing} => WasOwner(old[p])

(* Who terminates a process knows which. *)
Aimed ==
    \A p \in Pid :
        phase[p] \in {"terminating", "killing", "rechecking"} =>
            old[p] # Nothing

(* Attempts are counted from zero. *)
Counted ==
    \A p \in Pid : phase[p] \notin {"probing", "retrying"} => tries[p] = 0

IInv == TypeOK /\ Locked /\ Written /\ Traces /\ Aimed /\ Counted

USE NullAssumption, ReuseAssumption, AttemptsAssumption

-----------------------------------------------------------------------------
LEMMA InitIInv == Init => IInv
<1> SUFFICES ASSUME Init PROVE IInv
  OBVIOUS
<1>0. \A p \in Pid : tries[p] = 0 /\ phase[p] = "free"
  BY DEF Init
<1>1. TypeOK
  <2>1. "free" \in Phase
    BY DEF Phase
  <2>2. phase \in [Pid -> Phase] /\ tries \in [Pid -> Nat]
    <3>1. phase = [p \in Pid |-> "free"] /\ tries = [p \in Pid |-> 0]
      BY DEF Init
    <3>2. QED  BY <2>1, <3>1, SMT
  <2>3. \A p \in Pid : tries[p] < IF phase[p] = "probing" THEN HealthAttempts
                                                         ELSE ReacquireAttempts
    <3>1. 0 < ReacquireAttempts
      OBVIOUS
    <3>2. \A p \in Pid : phase[p] # "probing"
      BY <1>0
    <3>3. QED  BY <1>0, <3>1, <3>2
  <2>4. QED  BY <2>2, <2>3 DEF Init, TypeOK
<1>2. Locked /\ Written
  BY DEF Init, Locked, Written, Owner, Published
<1>3. Traces /\ Aimed /\ Counted
  BY DEF Init, Traces, Aimed, Counted
<1>4. QED  BY <1>1, <1>2, <1>3 DEF IInv

LEMMA StartIInv ==
    ASSUME NEW p \in Pid, IInv, Start(p) PROVE IInv'
<1>1. TypeOK'
  BY DEF IInv, Start, TypeOK, Service, Goto, procVars, fileVars, ipcVars,
         Counted, Phase, Starter, Owner
<1>2. Locked'
  BY DEF IInv, Start, TypeOK, Service, Goto, procVars, fileVars, ipcVars,
         Locked, Owner
<1>3. Written'
  BY DEF IInv, Start, TypeOK, Service, Goto, procVars, fileVars, ipcVars,
         Locked, Written, Published, Owner
<1>4. Traces'
  BY DEF IInv, Start, TypeOK, Service, Goto, procVars, fileVars, ipcVars,
         Traces, Locked, WasOwner, Owner
<1>5. Aimed'
  BY DEF IInv, Start, TypeOK, Service, Goto, procVars, fileVars, ipcVars,
         Aimed
<1>6. Counted'
  BY DEF IInv, Start, TypeOK, Service, Goto, procVars, fileVars, ipcVars,
         Counted, Starter, Owner
<1>7. QED  BY <1>1, <1>2, <1>3, <1>4, <1>5, <1>6 DEF IInv

LEMMA OtherStartsIInv ==
    ASSUME NEW p \in Pid, IInv, OtherStarts(p) PROVE IInv'
<1>1. TypeOK'
  BY DEF IInv, OtherStarts, TypeOK, Service, Goto, procVars, fileVars, ipcVars,
         Counted, Phase, Starter, Owner
<1>2. Locked'
  BY DEF IInv, OtherStarts, TypeOK, Service, Goto, procVars, fileVars, ipcVars,
         Locked, Owner
<1>3. Written'
  BY DEF IInv, OtherStarts, TypeOK, Service, Goto, procVars, fileVars, ipcVars,
         Locked, Written, Published, Owner
<1>4. Traces'
  BY DEF IInv, OtherStarts, TypeOK, Service, Goto, procVars, fileVars, ipcVars,
         Traces, Locked, WasOwner, Owner
<1>5. Aimed'
  BY DEF IInv, OtherStarts, TypeOK, Service, Goto, procVars, fileVars, ipcVars,
         Aimed
<1>6. Counted'
  BY DEF IInv, OtherStarts, TypeOK, Service, Goto, procVars, fileVars, ipcVars,
         Counted, Starter, Owner
<1>7. QED  BY <1>1, <1>2, <1>3, <1>4, <1>5, <1>6 DEF IInv

LEMMA OtherExitsIInv ==
    ASSUME NEW p \in Pid, IInv, OtherExits(p) PROVE IInv'
<1>1. TypeOK'
  BY DEF IInv, OtherExits, TypeOK, Service, Goto, procVars, fileVars, ipcVars,
         Counted, Phase, Starter, Owner
<1>2. Locked'
  BY DEF IInv, OtherExits, TypeOK, Service, Goto, procVars, fileVars, ipcVars,
         Locked, Owner
<1>3. Written'
  BY DEF IInv, OtherExits, TypeOK, Service, Goto, procVars, fileVars, ipcVars,
         Locked, Written, Published, Owner
<1>4. Traces'
  BY DEF IInv, OtherExits, TypeOK, Service, Goto, procVars, fileVars, ipcVars,
         Traces, Locked, WasOwner, Owner
<1>5. Aimed'
  BY DEF IInv, OtherExits, TypeOK, Service, Goto, procVars, fileVars, ipcVars,
         Aimed
<1>6. Counted'
  BY DEF IInv, OtherExits, TypeOK, Service, Goto, procVars, fileVars, ipcVars,
         Counted, Starter, Owner
<1>7. QED  BY <1>1, <1>2, <1>3, <1>4, <1>5, <1>6 DEF IInv

LEMMA SlowsIInv ==
    ASSUME NEW p \in Pid, IInv, Slows(p) PROVE IInv'
<1>1. TypeOK'
  BY DEF IInv, Slows, TypeOK, Service, Goto, procVars, fileVars, ipcVars,
         Counted, Phase, Starter, Owner
<1>2. Locked'
  BY DEF IInv, Slows, TypeOK, Service, Goto, procVars, fileVars, ipcVars,
         Locked, Owner
<1>3. Written'
  BY DEF IInv, Slows, TypeOK, Service, Goto, procVars, fileVars, ipcVars,
         Locked, Written, Published, Owner
<1>4. Traces'
  BY DEF IInv, Slows, TypeOK, Service, Goto, procVars, fileVars, ipcVars,
         Traces, Locked, WasOwner, Owner
<1>5. Aimed'
  BY DEF IInv, Slows, TypeOK, Service, Goto, procVars, fileVars, ipcVars,
         Aimed
<1>6. Counted'
  BY DEF IInv, Slows, TypeOK, Service, Goto, procVars, fileVars, ipcVars,
         Counted, Starter, Owner
<1>7. QED  BY <1>1, <1>2, <1>3, <1>4, <1>5, <1>6 DEF IInv

LEMMA AnswersIInv ==
    ASSUME NEW p \in Pid, IInv, Answers(p) PROVE IInv'
<1>1. TypeOK'
  BY DEF IInv, Answers, TypeOK, Service, Goto, procVars, fileVars, ipcVars,
         Counted, Phase, Starter, Owner
<1>2. Locked'
  BY DEF IInv, Answers, TypeOK, Service, Goto, procVars, fileVars, ipcVars,
         Locked, Owner
<1>3. Written'
  BY DEF IInv, Answers, TypeOK, Service, Goto, procVars, fileVars, ipcVars,
         Locked, Written, Published, Owner
<1>4. Traces'
  BY DEF IInv, Answers, TypeOK, Service, Goto, procVars, fileVars, ipcVars,
         Traces, Locked, WasOwner, Owner
<1>5. Aimed'
  BY DEF IInv, Answers, TypeOK, Service, Goto, procVars, fileVars, ipcVars,
         Aimed
<1>6. Counted'
  BY DEF IInv, Answers, TypeOK, Service, Goto, procVars, fileVars, ipcVars,
         Counted, Starter, Owner
<1>7. QED  BY <1>1, <1>2, <1>3, <1>4, <1>5, <1>6 DEF IInv

LEMMA TerminateIInv ==
    ASSUME NEW p \in Pid, IInv, Terminate(p) PROVE IInv'
<1>1. TypeOK'
  BY DEF IInv, Terminate, TypeOK, Service, Goto, procVars, fileVars, ipcVars,
         Counted, Phase, Starter, Owner
<1>2. Locked'
  BY DEF IInv, Terminate, TypeOK, Service, Goto, procVars, fileVars, ipcVars,
         Locked, Owner
<1>3. Written'
  BY DEF IInv, Terminate, TypeOK, Service, Goto, procVars, fileVars, ipcVars,
         Locked, Written, Published, Owner
<1>4. Traces'
  BY DEF IInv, Terminate, TypeOK, Service, Goto, procVars, fileVars, ipcVars,
         Traces, Locked, WasOwner, Owner
<1>5. Aimed'
  BY DEF IInv, Terminate, TypeOK, Service, Goto, procVars, fileVars, ipcVars,
         Aimed
<1>6. Counted'
  BY DEF IInv, Terminate, TypeOK, Service, Goto, procVars, fileVars, ipcVars,
         Counted, Starter, Owner
<1>7. QED  BY <1>1, <1>2, <1>3, <1>4, <1>5, <1>6 DEF IInv

LEMMA TryAcquireIInv ==
    ASSUME NEW p \in Pid, IInv, TryAcquire(p) PROVE IInv'
<1>1. TypeOK'
  BY DEF IInv, TryAcquire, TypeOK, Service, Goto, procVars, fileVars, ipcVars,
         Counted, Phase, Starter, Owner
<1>2. Locked'
  BY DEF IInv, TryAcquire, TypeOK, Service, Goto, procVars, fileVars, ipcVars,
         Locked, Owner
<1>3. Written'
  BY DEF IInv, TryAcquire, TypeOK, Service, Goto, procVars, fileVars, ipcVars,
         Locked, Written, Published, Owner
<1>4. Traces'
  BY DEF IInv, TryAcquire, TypeOK, Service, Goto, procVars, fileVars, ipcVars,
         Traces, Locked, WasOwner, Owner
<1>5. Aimed'
  BY DEF IInv, TryAcquire, TypeOK, Service, Goto, procVars, fileVars, ipcVars,
         Aimed
<1>6. Counted'
  BY DEF IInv, TryAcquire, TypeOK, Service, Goto, procVars, fileVars, ipcVars,
         Counted, Starter, Owner
<1>7. QED  BY <1>1, <1>2, <1>3, <1>4, <1>5, <1>6 DEF IInv

LEMMA ReadPidFileIInv ==
    ASSUME NEW p \in Pid, IInv, ReadPidFile(p) PROVE IInv'
<1>1. TypeOK'
  BY DEF IInv, ReadPidFile, TypeOK, Service, Goto, procVars, fileVars, ipcVars,
         Counted, Phase, Starter, Owner
<1>2. Locked'
  BY DEF IInv, ReadPidFile, TypeOK, Service, Goto, procVars, fileVars, ipcVars,
         Locked, Owner
<1>3. Written'
  BY DEF IInv, ReadPidFile, TypeOK, Service, Goto, procVars, fileVars, ipcVars,
         Locked, Written, Published, Owner
<1>4. Traces'
  BY DEF IInv, ReadPidFile, TypeOK, Service, Goto, procVars, fileVars, ipcVars,
         Traces, Locked, WasOwner, Owner
<1>5. Aimed'
  BY DEF IInv, ReadPidFile, TypeOK, Service, Goto, procVars, fileVars, ipcVars,
         Aimed
<1>6. Counted'
  BY DEF IInv, ReadPidFile, TypeOK, Service, Goto, procVars, fileVars, ipcVars,
         Counted, Starter, Owner
<1>7. QED  BY <1>1, <1>2, <1>3, <1>4, <1>5, <1>6 DEF IInv

LEMMA ReadLockFileIInv ==
    ASSUME NEW p \in Pid, IInv, ReadLockFile(p) PROVE IInv'
<1>1. TypeOK'
  BY DEF IInv, ReadLockFile, TypeOK, Service, Goto, procVars, fileVars, ipcVars,
         Counted, Phase, Starter, Owner
<1>2. Locked'
  BY DEF IInv, ReadLockFile, TypeOK, Service, Goto, procVars, fileVars, ipcVars,
         Locked, Owner
<1>3. Written'
  BY DEF IInv, ReadLockFile, TypeOK, Service, Goto, procVars, fileVars, ipcVars,
         Locked, Written, Published, Owner
<1>4. Traces'
  BY DEF IInv, ReadLockFile, TypeOK, Service, Goto, procVars, fileVars, ipcVars,
         Traces, Locked, WasOwner, Owner
<1>5. Aimed'
  BY DEF IInv, ReadLockFile, TypeOK, Service, Goto, procVars, fileVars, ipcVars,
         Aimed
<1>6. Counted'
  BY DEF IInv, ReadLockFile, TypeOK, Service, Goto, procVars, fileVars, ipcVars,
         Counted, Starter, Owner
<1>7. QED  BY <1>1, <1>2, <1>3, <1>4, <1>5, <1>6 DEF IInv

LEMMA ProbeFailsIInv ==
    ASSUME NEW p \in Pid, IInv, ProbeFails(p) PROVE IInv'
<1>1. TypeOK'
  BY DEF IInv, ProbeFails, Healthy, TypeOK, Service, Goto, procVars, fileVars, ipcVars,
         Counted, Phase, Starter, Owner
<1>2. Locked'
  BY DEF IInv, ProbeFails, Healthy, TypeOK, Service, Goto, procVars, fileVars, ipcVars,
         Locked, Owner
<1>3. Written'
  BY DEF IInv, ProbeFails, Healthy, TypeOK, Service, Goto, procVars, fileVars, ipcVars,
         Locked, Written, Published, Owner
<1>4. Traces'
  BY DEF IInv, ProbeFails, Healthy, TypeOK, Service, Goto, procVars, fileVars, ipcVars,
         Traces, Locked, WasOwner, Owner
<1>5. Aimed'
  BY DEF IInv, ProbeFails, Healthy, TypeOK, Service, Goto, procVars, fileVars, ipcVars,
         Aimed
<1>6. Counted'
  BY DEF IInv, ProbeFails, Healthy, TypeOK, Service, Goto, procVars, fileVars, ipcVars,
         Counted, Starter, Owner
<1>7. QED  BY <1>1, <1>2, <1>3, <1>4, <1>5, <1>6 DEF IInv

LEMMA OldOwnerIsGoneIInv ==
    ASSUME NEW p \in Pid, IInv, OldOwnerIsGone(p) PROVE IInv'
<1>1. TypeOK'
  BY DEF IInv, OldOwnerIsGone, Runs, TypeOK, Service, Goto, procVars, fileVars, ipcVars,
         Counted, Phase, Starter, Owner
<1>2. Locked'
  BY DEF IInv, OldOwnerIsGone, Runs, TypeOK, Service, Goto, procVars, fileVars, ipcVars,
         Locked, Owner
<1>3. Written'
  BY DEF IInv, OldOwnerIsGone, Runs, TypeOK, Service, Goto, procVars, fileVars, ipcVars,
         Locked, Written, Published, Owner
<1>4. Traces'
  BY DEF IInv, OldOwnerIsGone, Runs, TypeOK, Service, Goto, procVars, fileVars, ipcVars,
         Traces, Locked, WasOwner, Owner
<1>5. Aimed'
  BY DEF IInv, OldOwnerIsGone, Runs, TypeOK, Service, Goto, procVars, fileVars, ipcVars,
         Aimed
<1>6. Counted'
  BY DEF IInv, OldOwnerIsGone, Runs, TypeOK, Service, Goto, procVars, fileVars, ipcVars,
         Counted, Starter, Owner
<1>7. QED  BY <1>1, <1>2, <1>3, <1>4, <1>5, <1>6 DEF IInv

LEMMA SendSigtermIInv ==
    ASSUME NEW p \in Pid, IInv, SendSigterm(p) PROVE IInv'
<1>1. TypeOK'
  BY DEF IInv, SendSigterm, Strikes, Ends, Handles, Runs, TypeOK, Service, Goto, procVars, fileVars, ipcVars,
         Counted, Phase, Starter, Owner
<1>2. Locked'
  BY DEF IInv, SendSigterm, Strikes, Ends, Handles, Runs, TypeOK, Service, Goto, procVars, fileVars, ipcVars,
         Locked, Owner
<1>3. Written'
  BY DEF IInv, SendSigterm, Strikes, Ends, Handles, Runs, TypeOK, Service, Goto, procVars, fileVars, ipcVars,
         Locked, Written, Published, Owner
<1>4. Traces'
  BY DEF IInv, SendSigterm, Strikes, Ends, Handles, Runs, TypeOK, Service, Goto, procVars, fileVars, ipcVars,
         Traces, Locked, WasOwner, Owner
<1>5. Aimed'
  BY DEF IInv, SendSigterm, Strikes, Ends, Handles, Runs, TypeOK, Service, Goto, procVars, fileVars, ipcVars,
         Aimed
<1>6. Counted'
  BY DEF IInv, SendSigterm, Strikes, Ends, Handles, Runs, TypeOK, Service, Goto, procVars, fileVars, ipcVars,
         Counted, Starter, Owner
<1>7. QED  BY <1>1, <1>2, <1>3, <1>4, <1>5, <1>6 DEF IInv

LEMMA TerminateSucceedsIInv ==
    ASSUME NEW p \in Pid, IInv, TerminateSucceeds(p) PROVE IInv'
<1>1. TypeOK'
  BY DEF IInv, TerminateSucceeds, Runs, TypeOK, Service, Goto, procVars, fileVars, ipcVars,
         Counted, Phase, Starter, Owner
<1>2. Locked'
  BY DEF IInv, TerminateSucceeds, Runs, TypeOK, Service, Goto, procVars, fileVars, ipcVars,
         Locked, Owner
<1>3. Written'
  BY DEF IInv, TerminateSucceeds, Runs, TypeOK, Service, Goto, procVars, fileVars, ipcVars,
         Locked, Written, Published, Owner
<1>4. Traces'
  BY DEF IInv, TerminateSucceeds, Runs, TypeOK, Service, Goto, procVars, fileVars, ipcVars,
         Traces, Locked, WasOwner, Owner
<1>5. Aimed'
  BY DEF IInv, TerminateSucceeds, Runs, TypeOK, Service, Goto, procVars, fileVars, ipcVars,
         Aimed
<1>6. Counted'
  BY DEF IInv, TerminateSucceeds, Runs, TypeOK, Service, Goto, procVars, fileVars, ipcVars,
         Counted, Starter, Owner
<1>7. QED  BY <1>1, <1>2, <1>3, <1>4, <1>5, <1>6 DEF IInv

LEMMA SendSigkillIInv ==
    ASSUME NEW p \in Pid, IInv, SendSigkill(p) PROVE IInv'
<1>1. TypeOK'
  BY DEF IInv, SendSigkill, Strikes, Ends, Handles, Runs, TypeOK, Service, Goto, procVars, fileVars, ipcVars,
         Counted, Phase, Starter, Owner
<1>2. Locked'
  BY DEF IInv, SendSigkill, Strikes, Ends, Handles, Runs, TypeOK, Service, Goto, procVars, fileVars, ipcVars,
         Locked, Owner
<1>3. Written'
  BY DEF IInv, SendSigkill, Strikes, Ends, Handles, Runs, TypeOK, Service, Goto, procVars, fileVars, ipcVars,
         Locked, Written, Published, Owner
<1>4. Traces'
  BY DEF IInv, SendSigkill, Strikes, Ends, Handles, Runs, TypeOK, Service, Goto, procVars, fileVars, ipcVars,
         Traces, Locked, WasOwner, Owner
<1>5. Aimed'
  BY DEF IInv, SendSigkill, Strikes, Ends, Handles, Runs, TypeOK, Service, Goto, procVars, fileVars, ipcVars,
         Aimed
<1>6. Counted'
  BY DEF IInv, SendSigkill, Strikes, Ends, Handles, Runs, TypeOK, Service, Goto, procVars, fileVars, ipcVars,
         Counted, Starter, Owner
<1>7. QED  BY <1>1, <1>2, <1>3, <1>4, <1>5, <1>6 DEF IInv

LEMMA StillGoneIInv ==
    ASSUME NEW p \in Pid, IInv, StillGone(p) PROVE IInv'
<1>1. TypeOK'
  BY DEF IInv, StillGone, Runs, TypeOK, Service, Goto, procVars, fileVars, ipcVars,
         Counted, Phase, Starter, Owner
<1>2. Locked'
  BY DEF IInv, StillGone, Runs, TypeOK, Service, Goto, procVars, fileVars, ipcVars,
         Locked, Owner
<1>3. Written'
  BY DEF IInv, StillGone, Runs, TypeOK, Service, Goto, procVars, fileVars, ipcVars,
         Locked, Written, Published, Owner
<1>4. Traces'
  BY DEF IInv, StillGone, Runs, TypeOK, Service, Goto, procVars, fileVars, ipcVars,
         Traces, Locked, WasOwner, Owner
<1>5. Aimed'
  BY DEF IInv, StillGone, Runs, TypeOK, Service, Goto, procVars, fileVars, ipcVars,
         Aimed
<1>6. Counted'
  BY DEF IInv, StillGone, Runs, TypeOK, Service, Goto, procVars, fileVars, ipcVars,
         Counted, Starter, Owner
<1>7. QED  BY <1>1, <1>2, <1>3, <1>4, <1>5, <1>6 DEF IInv

LEMMA CleanUpPidFileIInv ==
    ASSUME NEW p \in Pid, IInv, CleanUpPidFile(p) PROVE IInv'
<1>1. TypeOK'
  BY DEF IInv, CleanUpPidFile, TypeOK, Service, Goto, procVars, fileVars, ipcVars,
         Counted, Phase, Starter, Owner
<1>2. Locked'
  BY DEF IInv, CleanUpPidFile, TypeOK, Service, Goto, procVars, fileVars, ipcVars,
         Locked, Owner
<1>3. Written'
  BY DEF IInv, CleanUpPidFile, TypeOK, Service, Goto, procVars, fileVars, ipcVars,
         Locked, Written, Published, Owner
<1>4. Traces'
  BY DEF IInv, CleanUpPidFile, TypeOK, Service, Goto, procVars, fileVars, ipcVars,
         Traces, Locked, WasOwner, Owner
<1>5. Aimed'
  BY DEF IInv, CleanUpPidFile, TypeOK, Service, Goto, procVars, fileVars, ipcVars,
         Aimed
<1>6. Counted'
  BY DEF IInv, CleanUpPidFile, TypeOK, Service, Goto, procVars, fileVars, ipcVars,
         Counted, Starter, Owner
<1>7. QED  BY <1>1, <1>2, <1>3, <1>4, <1>5, <1>6 DEF IInv

LEMMA CleanUpSocketIInv ==
    ASSUME NEW p \in Pid, IInv, CleanUpSocket(p) PROVE IInv'
<1>1. TypeOK'
  BY DEF IInv, CleanUpSocket, TypeOK, Service, Goto, procVars, fileVars, ipcVars,
         Counted, Phase, Starter, Owner
<1>2. Locked'
  BY DEF IInv, CleanUpSocket, TypeOK, Service, Goto, procVars, fileVars, ipcVars,
         Locked, Owner
<1>3. Written'
  BY DEF IInv, CleanUpSocket, TypeOK, Service, Goto, procVars, fileVars, ipcVars,
         Locked, Written, Published, Owner
<1>4. Traces'
  BY DEF IInv, CleanUpSocket, TypeOK, Service, Goto, procVars, fileVars, ipcVars,
         Traces, Locked, WasOwner, Owner
<1>5. Aimed'
  BY DEF IInv, CleanUpSocket, TypeOK, Service, Goto, procVars, fileVars, ipcVars,
         Aimed
<1>6. Counted'
  BY DEF IInv, CleanUpSocket, TypeOK, Service, Goto, procVars, fileVars, ipcVars,
         Counted, Starter, Owner
<1>7. QED  BY <1>1, <1>2, <1>3, <1>4, <1>5, <1>6 DEF IInv

LEMMA ReacquireIInv ==
    ASSUME NEW p \in Pid, IInv, Reacquire(p) PROVE IInv'
<1>1. TypeOK'
  BY DEF IInv, Reacquire, TypeOK, Service, Goto, procVars, fileVars, ipcVars,
         Counted, Phase, Starter, Owner
<1>2. Locked'
  BY DEF IInv, Reacquire, TypeOK, Service, Goto, procVars, fileVars, ipcVars,
         Locked, Owner
<1>3. Written'
  BY DEF IInv, Reacquire, TypeOK, Service, Goto, procVars, fileVars, ipcVars,
         Locked, Written, Published, Owner
<1>4. Traces'
  BY DEF IInv, Reacquire, TypeOK, Service, Goto, procVars, fileVars, ipcVars,
         Traces, Locked, WasOwner, Owner
<1>5. Aimed'
  BY DEF IInv, Reacquire, TypeOK, Service, Goto, procVars, fileVars, ipcVars,
         Aimed
<1>6. Counted'
  BY DEF IInv, Reacquire, TypeOK, Service, Goto, procVars, fileVars, ipcVars,
         Counted, Starter, Owner
<1>7. QED  BY <1>1, <1>2, <1>3, <1>4, <1>5, <1>6 DEF IInv

LEMMA TruncateLockFileIInv ==
    ASSUME NEW p \in Pid, IInv, TruncateLockFile(p) PROVE IInv'
<1>1. TypeOK'
  BY DEF IInv, TruncateLockFile, TypeOK, Service, Goto, procVars, fileVars, ipcVars,
         Counted, Phase, Starter, Owner
<1>2. Locked'
  BY DEF IInv, TruncateLockFile, TypeOK, Service, Goto, procVars, fileVars, ipcVars,
         Locked, Owner
<1>3. Written'
  BY DEF IInv, TruncateLockFile, TypeOK, Service, Goto, procVars, fileVars, ipcVars,
         Locked, Written, Published, Owner
<1>4. Traces'
  BY DEF IInv, TruncateLockFile, TypeOK, Service, Goto, procVars, fileVars, ipcVars,
         Traces, Locked, WasOwner, Owner
<1>5. Aimed'
  BY DEF IInv, TruncateLockFile, TypeOK, Service, Goto, procVars, fileVars, ipcVars,
         Aimed
<1>6. Counted'
  BY DEF IInv, TruncateLockFile, TypeOK, Service, Goto, procVars, fileVars, ipcVars,
         Counted, Starter, Owner
<1>7. QED  BY <1>1, <1>2, <1>3, <1>4, <1>5, <1>6 DEF IInv

LEMMA StampLockFileIInv ==
    ASSUME NEW p \in Pid, IInv, StampLockFile(p) PROVE IInv'
<1>1. TypeOK'
  BY DEF IInv, StampLockFile, TypeOK, Service, Goto, procVars, fileVars, ipcVars,
         Counted, Phase, Starter, Owner
<1>2. Locked'
  BY DEF IInv, StampLockFile, TypeOK, Service, Goto, procVars, fileVars, ipcVars,
         Locked, Owner
<1>3. Written'
  BY DEF IInv, StampLockFile, TypeOK, Service, Goto, procVars, fileVars, ipcVars,
         Locked, Written, Published, Owner
<1>4. Traces'
  BY DEF IInv, StampLockFile, TypeOK, Service, Goto, procVars, fileVars, ipcVars,
         Traces, Locked, WasOwner, Owner
<1>5. Aimed'
  BY DEF IInv, StampLockFile, TypeOK, Service, Goto, procVars, fileVars, ipcVars,
         Aimed
<1>6. Counted'
  BY DEF IInv, StampLockFile, TypeOK, Service, Goto, procVars, fileVars, ipcVars,
         Counted, Starter, Owner
<1>7. QED  BY <1>1, <1>2, <1>3, <1>4, <1>5, <1>6 DEF IInv

LEMMA PublishPidIInv ==
    ASSUME NEW p \in Pid, IInv, PublishPid(p) PROVE IInv'
<1>1. TypeOK'
  BY DEF IInv, PublishPid, TypeOK, Service, Goto, procVars, fileVars, ipcVars,
         Counted, Phase, Starter, Owner
<1>2. Locked'
  BY DEF IInv, PublishPid, TypeOK, Service, Goto, procVars, fileVars, ipcVars,
         Locked, Owner
<1>3. Written'
  BY DEF IInv, PublishPid, TypeOK, Service, Goto, procVars, fileVars, ipcVars,
         Locked, Written, Published, Owner
<1>4. Traces'
  BY DEF IInv, PublishPid, TypeOK, Service, Goto, procVars, fileVars, ipcVars,
         Traces, Locked, WasOwner, Owner
<1>5. Aimed'
  BY DEF IInv, PublishPid, TypeOK, Service, Goto, procVars, fileVars, ipcVars,
         Aimed
<1>6. Counted'
  BY DEF IInv, PublishPid, TypeOK, Service, Goto, procVars, fileVars, ipcVars,
         Counted, Starter, Owner
<1>7. QED  BY <1>1, <1>2, <1>3, <1>4, <1>5, <1>6 DEF IInv

LEMMA RemovePidFileIInv ==
    ASSUME NEW p \in Pid, IInv, RemovePidFile(p) PROVE IInv'
<1>1. TypeOK'
  BY DEF IInv, RemovePidFile, TypeOK, Service, Goto, procVars, fileVars, ipcVars,
         Counted, Phase, Starter, Owner
<1>2. Locked'
  BY DEF IInv, RemovePidFile, TypeOK, Service, Goto, procVars, fileVars, ipcVars,
         Locked, Owner
<1>3. Written'
  BY DEF IInv, RemovePidFile, TypeOK, Service, Goto, procVars, fileVars, ipcVars,
         Locked, Written, Published, Owner
<1>4. Traces'
  BY DEF IInv, RemovePidFile, TypeOK, Service, Goto, procVars, fileVars, ipcVars,
         Traces, Locked, WasOwner, Owner
<1>5. Aimed'
  BY DEF IInv, RemovePidFile, TypeOK, Service, Goto, procVars, fileVars, ipcVars,
         Aimed
<1>6. Counted'
  BY DEF IInv, RemovePidFile, TypeOK, Service, Goto, procVars, fileVars, ipcVars,
         Counted, Starter, Owner
<1>7. QED  BY <1>1, <1>2, <1>3, <1>4, <1>5, <1>6 DEF IInv

LEMMA ReleaseLockIInv ==
    ASSUME NEW p \in Pid, IInv, ReleaseLock(p) PROVE IInv'
<1>1. TypeOK'
  BY DEF IInv, ReleaseLock, TypeOK, Service, Goto, procVars, fileVars, ipcVars,
         Counted, Phase, Starter, Owner
<1>2. Locked'
  BY DEF IInv, ReleaseLock, TypeOK, Service, Goto, procVars, fileVars, ipcVars,
         Locked, Owner
<1>3. Written'
  BY DEF IInv, ReleaseLock, TypeOK, Service, Goto, procVars, fileVars, ipcVars,
         Locked, Written, Published, Owner
<1>4. Traces'
  BY DEF IInv, ReleaseLock, TypeOK, Service, Goto, procVars, fileVars, ipcVars,
         Traces, Locked, WasOwner, Owner
<1>5. Aimed'
  BY DEF IInv, ReleaseLock, TypeOK, Service, Goto, procVars, fileVars, ipcVars,
         Aimed
<1>6. Counted'
  BY DEF IInv, ReleaseLock, TypeOK, Service, Goto, procVars, fileVars, ipcVars,
         Counted, Starter, Owner
<1>7. QED  BY <1>1, <1>2, <1>3, <1>4, <1>5, <1>6 DEF IInv

LEMMA RunIpcServerIInv ==
    ASSUME NEW p \in Pid, IInv, RunIpcServer(p) PROVE IInv'
<1>1. TypeOK'
  BY DEF IInv, RunIpcServer, Reachable, TypeOK, Service, Goto, procVars, fileVars, ipcVars,
         Counted, Phase, Starter, Owner
<1>2. Locked'
  BY DEF IInv, RunIpcServer, Reachable, TypeOK, Service, Goto, procVars, fileVars, ipcVars,
         Locked, Owner
<1>3. Written'
  BY DEF IInv, RunIpcServer, Reachable, TypeOK, Service, Goto, procVars, fileVars, ipcVars,
         Locked, Written, Published, Owner
<1>4. Traces'
  BY DEF IInv, RunIpcServer, Reachable, TypeOK, Service, Goto, procVars, fileVars, ipcVars,
         Traces, Locked, WasOwner, Owner
<1>5. Aimed'
  BY DEF IInv, RunIpcServer, Reachable, TypeOK, Service, Goto, procVars, fileVars, ipcVars,
         Aimed
<1>6. Counted'
  BY DEF IInv, RunIpcServer, Reachable, TypeOK, Service, Goto, procVars, fileVars, ipcVars,
         Counted, Starter, Owner
<1>7. QED  BY <1>1, <1>2, <1>3, <1>4, <1>5, <1>6 DEF IInv

LEMMA IpcServerFailsIInv ==
    ASSUME NEW p \in Pid, IInv, IpcServerFails(p) PROVE IInv'
<1>1. TypeOK'
  BY DEF IInv, IpcServerFails, TypeOK, Service, Goto, procVars, fileVars, ipcVars,
         Counted, Phase, Starter, Owner
<1>2. Locked'
  BY DEF IInv, IpcServerFails, TypeOK, Service, Goto, procVars, fileVars, ipcVars,
         Locked, Owner
<1>3. Written'
  BY DEF IInv, IpcServerFails, TypeOK, Service, Goto, procVars, fileVars, ipcVars,
         Locked, Written, Published, Owner
<1>4. Traces'
  BY DEF IInv, IpcServerFails, TypeOK, Service, Goto, procVars, fileVars, ipcVars,
         Traces, Locked, WasOwner, Owner
<1>5. Aimed'
  BY DEF IInv, IpcServerFails, TypeOK, Service, Goto, procVars, fileVars, ipcVars,
         Aimed
<1>6. Counted'
  BY DEF IInv, IpcServerFails, TypeOK, Service, Goto, procVars, fileVars, ipcVars,
         Counted, Starter, Owner
<1>7. QED  BY <1>1, <1>2, <1>3, <1>4, <1>5, <1>6 DEF IInv

LEMMA ListenIInv ==
    ASSUME NEW p \in Pid, IInv, Listen(p) PROVE IInv'
<1>1. TypeOK'
  BY DEF IInv, Listen, TypeOK, Service, Goto, procVars, fileVars, ipcVars,
         Counted, Phase, Starter, Owner
<1>2. Locked'
  BY DEF IInv, Listen, TypeOK, Service, Goto, procVars, fileVars, ipcVars,
         Locked, Owner
<1>3. Written'
  BY DEF IInv, Listen, TypeOK, Service, Goto, procVars, fileVars, ipcVars,
         Locked, Written, Published, Owner
<1>4. Traces'
  BY DEF IInv, Listen, TypeOK, Service, Goto, procVars, fileVars, ipcVars,
         Traces, Locked, WasOwner, Owner
<1>5. Aimed'
  BY DEF IInv, Listen, TypeOK, Service, Goto, procVars, fileVars, ipcVars,
         Aimed
<1>6. Counted'
  BY DEF IInv, Listen, TypeOK, Service, Goto, procVars, fileVars, ipcVars,
         Counted, Starter, Owner
<1>7. QED  BY <1>1, <1>2, <1>3, <1>4, <1>5, <1>6 DEF IInv

LEMMA ServeEndsIInv ==
    ASSUME NEW p \in Pid, IInv, ServeEnds(p) PROVE IInv'
<1>1. TypeOK'
  BY DEF IInv, ServeEnds, TypeOK, Service, Goto, procVars, fileVars, ipcVars,
         Counted, Phase, Starter, Owner
<1>2. Locked'
  BY DEF IInv, ServeEnds, TypeOK, Service, Goto, procVars, fileVars, ipcVars,
         Locked, Owner
<1>3. Written'
  BY DEF IInv, ServeEnds, TypeOK, Service, Goto, procVars, fileVars, ipcVars,
         Locked, Written, Published, Owner
<1>4. Traces'
  BY DEF IInv, ServeEnds, TypeOK, Service, Goto, procVars, fileVars, ipcVars,
         Traces, Locked, WasOwner, Owner
<1>5. Aimed'
  BY DEF IInv, ServeEnds, TypeOK, Service, Goto, procVars, fileVars, ipcVars,
         Aimed
<1>6. Counted'
  BY DEF IInv, ServeEnds, TypeOK, Service, Goto, procVars, fileVars, ipcVars,
         Counted, Starter, Owner
<1>7. QED  BY <1>1, <1>2, <1>3, <1>4, <1>5, <1>6 DEF IInv

LEMMA ShutdownSelectedIInv ==
    ASSUME NEW p \in Pid, IInv, ShutdownSelected(p) PROVE IInv'
<1>1. TypeOK'
  BY DEF IInv, ShutdownSelected, TypeOK, Service, Goto, procVars, fileVars, ipcVars,
         Counted, Phase, Starter, Owner
<1>2. Locked'
  BY DEF IInv, ShutdownSelected, TypeOK, Service, Goto, procVars, fileVars, ipcVars,
         Locked, Owner
<1>3. Written'
  BY DEF IInv, ShutdownSelected, TypeOK, Service, Goto, procVars, fileVars, ipcVars,
         Locked, Written, Published, Owner
<1>4. Traces'
  BY DEF IInv, ShutdownSelected, TypeOK, Service, Goto, procVars, fileVars, ipcVars,
         Traces, Locked, WasOwner, Owner
<1>5. Aimed'
  BY DEF IInv, ShutdownSelected, TypeOK, Service, Goto, procVars, fileVars, ipcVars,
         Aimed
<1>6. Counted'
  BY DEF IInv, ShutdownSelected, TypeOK, Service, Goto, procVars, fileVars, ipcVars,
         Counted, Starter, Owner
<1>7. QED  BY <1>1, <1>2, <1>3, <1>4, <1>5, <1>6 DEF IInv

LEMMA StopIpcServerIInv ==
    ASSUME NEW p \in Pid, IInv, StopIpcServer(p) PROVE IInv'
<1>1. TypeOK'
  BY DEF IInv, StopIpcServer, TypeOK, Service, Goto, procVars, fileVars, ipcVars,
         Counted, Phase, Starter, Owner
<1>2. Locked'
  BY DEF IInv, StopIpcServer, TypeOK, Service, Goto, procVars, fileVars, ipcVars,
         Locked, Owner
<1>3. Written'
  BY DEF IInv, StopIpcServer, TypeOK, Service, Goto, procVars, fileVars, ipcVars,
         Locked, Written, Published, Owner
<1>4. Traces'
  BY DEF IInv, StopIpcServer, TypeOK, Service, Goto, procVars, fileVars, ipcVars,
         Traces, Locked, WasOwner, Owner
<1>5. Aimed'
  BY DEF IInv, StopIpcServer, TypeOK, Service, Goto, procVars, fileVars, ipcVars,
         Aimed
<1>6. Counted'
  BY DEF IInv, StopIpcServer, TypeOK, Service, Goto, procVars, fileVars, ipcVars,
         Counted, Starter, Owner
<1>7. QED  BY <1>1, <1>2, <1>3, <1>4, <1>5, <1>6 DEF IInv

LEMMA StopIpcServerFailsIInv ==
    ASSUME NEW p \in Pid, IInv, StopIpcServerFails(p) PROVE IInv'
<1>1. TypeOK'
  BY DEF IInv, StopIpcServerFails, TypeOK, Service, Goto, procVars, fileVars, ipcVars,
         Counted, Phase, Starter, Owner
<1>2. Locked'
  BY DEF IInv, StopIpcServerFails, TypeOK, Service, Goto, procVars, fileVars, ipcVars,
         Locked, Owner
<1>3. Written'
  BY DEF IInv, StopIpcServerFails, TypeOK, Service, Goto, procVars, fileVars, ipcVars,
         Locked, Written, Published, Owner
<1>4. Traces'
  BY DEF IInv, StopIpcServerFails, TypeOK, Service, Goto, procVars, fileVars, ipcVars,
         Traces, Locked, WasOwner, Owner
<1>5. Aimed'
  BY DEF IInv, StopIpcServerFails, TypeOK, Service, Goto, procVars, fileVars, ipcVars,
         Aimed
<1>6. Counted'
  BY DEF IInv, StopIpcServerFails, TypeOK, Service, Goto, procVars, fileVars, ipcVars,
         Counted, Starter, Owner
<1>7. QED  BY <1>1, <1>2, <1>3, <1>4, <1>5, <1>6 DEF IInv

LEMMA MaintenanceBeginsIInv ==
    ASSUME IInv, MaintenanceBegins PROVE IInv'
<1>1. TypeOK'
  BY DEF IInv, MaintenanceBegins, TypeOK, Service, Goto, procVars, fileVars, ipcVars,
         Counted, Phase, Starter, Owner
<1>2. Locked'
  BY DEF IInv, MaintenanceBegins, TypeOK, Service, Goto, procVars, fileVars, ipcVars,
         Locked, Owner
<1>3. Written'
  BY DEF IInv, MaintenanceBegins, TypeOK, Service, Goto, procVars, fileVars, ipcVars,
         Locked, Written, Published, Owner
<1>4. Traces'
  BY DEF IInv, MaintenanceBegins, TypeOK, Service, Goto, procVars, fileVars, ipcVars,
         Traces, Locked, WasOwner, Owner
<1>5. Aimed'
  BY DEF IInv, MaintenanceBegins, TypeOK, Service, Goto, procVars, fileVars, ipcVars,
         Aimed
<1>6. Counted'
  BY DEF IInv, MaintenanceBegins, TypeOK, Service, Goto, procVars, fileVars, ipcVars,
         Counted, Starter, Owner
<1>7. QED  BY <1>1, <1>2, <1>3, <1>4, <1>5, <1>6 DEF IInv

LEMMA MaintenanceEndsIInv ==
    ASSUME IInv, MaintenanceEnds PROVE IInv'
<1>1. TypeOK'
  BY DEF IInv, MaintenanceEnds, TypeOK, Service, Goto, procVars, fileVars, ipcVars,
         Counted, Phase, Starter, Owner
<1>2. Locked'
  BY DEF IInv, MaintenanceEnds, TypeOK, Service, Goto, procVars, fileVars, ipcVars,
         Locked, Owner
<1>3. Written'
  BY DEF IInv, MaintenanceEnds, TypeOK, Service, Goto, procVars, fileVars, ipcVars,
         Locked, Written, Published, Owner
<1>4. Traces'
  BY DEF IInv, MaintenanceEnds, TypeOK, Service, Goto, procVars, fileVars, ipcVars,
         Traces, Locked, WasOwner, Owner
<1>5. Aimed'
  BY DEF IInv, MaintenanceEnds, TypeOK, Service, Goto, procVars, fileVars, ipcVars,
         Aimed
<1>6. Counted'
  BY DEF IInv, MaintenanceEnds, TypeOK, Service, Goto, procVars, fileVars, ipcVars,
         Counted, Starter, Owner
<1>7. QED  BY <1>1, <1>2, <1>3, <1>4, <1>5, <1>6 DEF IInv

LEMMA ExitIInv ==
    ASSUME NEW p \in Pid, IInv, p \in Service, Exit(p) PROVE IInv'
<1>1. TypeOK'
  BY DEF IInv, Exit, Ends, TypeOK, Service, Goto, procVars, fileVars, ipcVars,
         Counted, Phase, Starter, Owner
<1>2. Locked'
  BY DEF IInv, Exit, Ends, TypeOK, Service, Goto, procVars, fileVars, ipcVars,
         Locked, Owner
<1>3. Written'
  BY DEF IInv, Exit, Ends, TypeOK, Service, Goto, procVars, fileVars, ipcVars,
         Locked, Written, Published, Owner
<1>4. Traces'
  BY DEF IInv, Exit, Ends, TypeOK, Service, Goto, procVars, fileVars, ipcVars,
         Traces, Locked, WasOwner, Owner
<1>5. Aimed'
  BY DEF IInv, Exit, Ends, TypeOK, Service, Goto, procVars, fileVars, ipcVars,
         Aimed
<1>6. Counted'
  BY DEF IInv, Exit, Ends, TypeOK, Service, Goto, procVars, fileVars, ipcVars,
         Counted, Starter, Owner
<1>7. QED  BY <1>1, <1>2, <1>3, <1>4, <1>5, <1>6 DEF IInv

LEMMA ReacquireFailsIInv ==
    ASSUME NEW p \in Pid, IInv, ReacquireFails(p) PROVE IInv'
<1>1. CASE Exit(p)
  <2>1. p \in Service
    BY DEF ReacquireFails, Service, Starter
  <2>2. QED  BY <1>1, <2>1, ExitIInv
<1>2. CASE ~Exit(p)
  <2>1. /\ tries[p] + 1 < ReacquireAttempts /\ phase[p] = "retrying"
        /\ tries' = [tries EXCEPT ![p] = @ + 1]
        /\ UNCHANGED <<phase, old, holder, fileVars, ipcVars>>
    BY <1>2 DEF ReacquireFails
  <2>2. TypeOK'
    BY <2>1 DEF IInv, TypeOK, Service, fileVars, ipcVars
  <2>3. (Locked /\ Written /\ Traces /\ Aimed /\ Counted)'
    BY <2>1 DEF IInv, TypeOK, Locked, Written, Traces, WasOwner, Aimed, Counted, fileVars,
                ipcVars
  <2>4. QED  BY <2>2, <2>3 DEF IInv
<1>3. QED  BY <1>1, <1>2

-----------------------------------------------------------------------------
LEMMA NextIInv == IInv /\ [Next]_vars => IInv'
<1> SUFFICES ASSUME IInv, [Next]_vars PROVE IInv'
  OBVIOUS
<1>1. CASE MaintenanceBegins
  BY <1>1, MaintenanceBeginsIInv
<1>2. CASE MaintenanceEnds
  BY <1>2, MaintenanceEndsIInv
<1>3. ASSUME NEW p \in Pid, Environment(p) PROVE IInv'
  BY <1>3, StartIInv, OtherStartsIInv, OtherExitsIInv, SlowsIInv, AnswersIInv,
     TerminateIInv, ExitIInv DEF Environment, Crash
<1>4. ASSUME NEW p \in Pid, Acquire(p) PROVE IInv'
  <2>1. ASSUME phase[p] \in Starter, Exit(p) PROVE IInv'
    BY <2>1, ExitIInv DEF Service
  <2>2. CASE ProbeSucceeds(p) \/ RefuseTakeover(p) \/ StillAlive(p)
    BY <2>1, <2>2 DEF ProbeSucceeds, RefuseTakeover, StillAlive, Starter
  <2>3. CASE ReacquireFails(p)
    BY <2>3, ReacquireFailsIInv
  <2>4. QED
    BY <1>4, <2>2, <2>3, TryAcquireIInv, ReadPidFileIInv,
       ReadLockFileIInv, ProbeFailsIInv,
       OldOwnerIsGoneIInv, SendSigtermIInv, TerminateSucceedsIInv,
       SendSigkillIInv, StillGoneIInv, CleanUpPidFileIInv,
       CleanUpSocketIInv, ReacquireIInv DEF Acquire
<1>5. ASSUME NEW p \in Pid, Own(p) PROVE IInv'
  <2>1. CASE MetadataFails(p)
    <3>1. phase[p] \in Owner /\ Exit(p)
      BY <2>1 DEF MetadataFails, Owner
    <3>2. QED  BY <3>1, ExitIInv DEF Service
  <2>2. CASE ProcessExits(p)
    BY <2>2, ExitIInv DEF ProcessExits, Service
  <2>3. QED
    BY <1>5, <2>1, <2>2, TruncateLockFileIInv, StampLockFileIInv,
       PublishPidIInv, RunIpcServerIInv, IpcServerFailsIInv, ListenIInv,
       ServeEndsIInv, ShutdownSelectedIInv, StopIpcServerIInv,
       StopIpcServerFailsIInv, RemovePidFileIInv, ReleaseLockIInv DEF Own
<1>6. CASE UNCHANGED vars
  BY <1>6 DEF IInv, TypeOK, Locked, Written, Traces, Aimed, Counted, WasOwner,
              Service, vars, procVars, fileVars, ipcVars
<1>7. QED  BY <1>1, <1>2, <1>3, <1>4, <1>5, <1>6 DEF Next

(* The strengthening holds in every reachable state. *)
THEOREM Inductive == Spec => []IInv
  BY InitIInv, NextIInv, PTL DEF Spec

(* Every variable has its type, attempts are within their bound, and only   *)
(* processes that run have listeners.                                       *)
THEOREM TypeCorrect == Spec => []TypeOK
<1>1. IInv => TypeOK
  BY DEF IInv
<1>2. QED  BY <1>1, Inductive, PTL

(* At most one process is the service, and none during maintenance, for any *)
(* number of processes that crash, kill each other and take over.           *)
THEOREM ElectionIsExclusive == Spec => []OneOwner
<1>1. IInv => OneOwner
  BY DEF IInv, Locked, OneOwner
<1>2. QED  BY <1>1, Inductive, PTL

(* The pid that others read of an owner at work is its own. *)
THEOREM OwnerIsKnown == Spec => []HolderIsKnown
<1>1. IInv => HolderIsKnown
  BY DEF IInv, Written, HolderIsKnown, Published
<1>2. QED  BY <1>1, Inductive, PTL

(* If numbers are not reused, a takeover terminates former owners only. *)
THEOREM TakeoverIsAimed == Spec => []OnlyOwnersAreTerminated
<1>1. IInv => OnlyOwnersAreTerminated
  BY DEF IInv, TypeOK, Traces, Aimed, WasOwner, OnlyOwnersAreTerminated
<1>2. QED  BY <1>1, Inductive, PTL

-----------------------------------------------------------------------------
(* How many steps acquire_service_owner has before it at most: every branch *)
(* goes forward, and the two loops count their attempts.                    *)
StepsLeft(p) ==
    CASE phase[p] = "locking"     -> HealthAttempts + ReacquireAttempts + 9
      [] phase[p] = "reading"     -> HealthAttempts + ReacquireAttempts + 8
      [] phase[p] = "readingLock" -> HealthAttempts + ReacquireAttempts + 7
      [] phase[p] = "probing"     -> HealthAttempts - tries[p] + ReacquireAttempts + 6
      [] phase[p] = "deciding"    -> ReacquireAttempts + 6
      [] phase[p] = "terminating" -> ReacquireAttempts + 5
      [] phase[p] = "killing"     -> ReacquireAttempts + 4
      [] phase[p] = "rechecking"  -> ReacquireAttempts + 3
      [] phase[p] = "cleaning"    -> ReacquireAttempts + 2
      [] phase[p] = "unlinking"   -> ReacquireAttempts + 1
      [] phase[p] = "retrying"    -> ReacquireAttempts - tries[p]
      [] OTHER                    -> 0

AcquisitionIsBounded ==
    \A p \in Pid : phase[p] \in Starter =>
        StepsLeft(p) \in 1..(HealthAttempts + ReacquireAttempts + 9)

(* Its own steps count down, and nobody else's bring it back. *)
Closer(p) ==
    phase[p] \in Starter /\ phase'[p] \in Starter =>
        /\ StepsLeft(p)' <= StepsLeft(p)
        /\ Acquire(p) => StepsLeft(p)' < StepsLeft(p)

AcquisitionAdvances == \A p \in Pid : Closer(p)

(* Where a process stands with an acquisition that nobody but itself moves: *)
(* the step of another either ends the process or leaves its locals alone.  *)
LEMMA OthersStandBy ==
  ASSUME IInv, [Next]_vars, NEW p \in Pid, phase[p] \in Starter, ~Acquire(p)
  PROVE  (phase'[p] = phase[p] /\ tries'[p] = tries[p]) \/ phase'[p] \notin Starter
<1> DEFINE Stands == (phase'[p] = phase[p] /\ tries'[p] = tries[p])
                         \/ phase'[p] \notin Starter
<1> USE DEF Goto, Starter, procVars
<1>0. phase \in [Pid -> Phase] /\ tries \in [Pid -> Nat]
  BY DEF IInv, TypeOK
<1>1. ASSUME NEW q \in Pid, Exit(q) PROVE Stands
  BY <1>0, <1>1 DEF Exit
<1>2. CASE MaintenanceBegins \/ MaintenanceEnds \/ UNCHANGED vars
  BY <1>2 DEF MaintenanceBegins, MaintenanceEnds, vars
<1>3. ASSUME NEW q \in Pid, Environment(q) PROVE Stands
  <2>1. CASE Start(q) \/ OtherStarts(q) \/ OtherExits(q)
    BY <1>0, <2>1 DEF Start, OtherStarts, OtherExits
  <2>2. CASE Crash(q)
    BY <1>1, <2>2 DEF Crash
  <2>3. CASE Slows(q) \/ Answers(q) \/ Terminate(q)
    BY <2>3 DEF Slows, Answers, Terminate
  <2> QED
    BY <1>3, <2>1, <2>2, <2>3 DEF Environment
<1>4. ASSUME NEW q \in Pid, Own(q) PROVE Stands
  <2>1. CASE MetadataFails(q) \/ ProcessExits(q)
    BY <1>1, <2>1 DEF MetadataFails, ProcessExits
  <2>2. CASE TruncateLockFile(q) \/ StampLockFile(q) \/ PublishPid(q)
    BY <1>0, <2>2 DEF TruncateLockFile, StampLockFile, PublishPid
  <2>3. CASE RunIpcServer(q) \/ IpcServerFails(q) \/ Listen(q) \/ ServeEnds(q)
    BY <1>0, <2>3 DEF RunIpcServer, IpcServerFails, Listen, ServeEnds
  <2>4. CASE ShutdownSelected(q) \/ StopIpcServer(q) \/ StopIpcServerFails(q)
    BY <1>0, <2>4 DEF ShutdownSelected, StopIpcServer, StopIpcServerFails
  <2>5. CASE RemovePidFile(q) \/ ReleaseLock(q)
    BY <1>0, <2>5 DEF RemovePidFile, ReleaseLock
  <2> QED
    BY <1>4, <2>1, <2>2, <2>3, <2>4, <2>5 DEF Own
<1>5. ASSUME NEW q \in Pid \ {p}, Acquire(q) PROVE Stands
  <2>1. CASE ProbeSucceeds(q) \/ RefuseTakeover(q) \/ StillAlive(q)
    BY <1>1, <2>1 DEF ProbeSucceeds, RefuseTakeover, StillAlive
  <2>2. CASE TryAcquire(q) \/ ReadPidFile(q) \/ ReadLockFile(q) \/ ProbeFails(q)
    BY <1>0, <2>2 DEF TryAcquire, ReadPidFile, ReadLockFile, ProbeFails
  <2>3. CASE \/ OldOwnerIsGone(q) \/ TerminateSucceeds(q) \/ StillGone(q)
             \/ CleanUpPidFile(q) \/ CleanUpSocket(q) \/ Reacquire(q)
    BY <1>0, <2>3 DEF OldOwnerIsGone, TerminateSucceeds, StillGone,
       CleanUpPidFile, CleanUpSocket, Reacquire
  <2>4. CASE SendSigterm(q) \/ SendSigkill(q)
    <3>1. CASE \E next : Strikes(q, old[q], next)
      <4>1. PICK next : Strikes(q, old[q], next)
        BY <3>1
      <4>2. old[q] # p => phase'[p] = phase[p] /\ tries'[p] = tries[p]
        BY <1>0, <4>1 DEF Strikes
      <4>3. old[q] = p => phase'[p] = "dead"
        BY <1>0, <4>1 DEF Strikes
      <4> QED
        BY <4>2, <4>3
    <3>2. CASE \E next : Goto(q, next) /\ UNCHANGED tries
      BY <1>0, <3>2
    <3> QED
      BY <2>4, <3>1, <3>2 DEF SendSigterm, SendSigkill
  <2>5. CASE ReacquireFails(q)
    BY <1>0, <1>1, <2>5 DEF ReacquireFails
  <2> QED
    BY <1>5, <2>1, <2>2, <2>3, <2>4, <2>5 DEF Acquire
<1> QED
  BY <1>2, <1>3, <1>4, <1>5 DEF Next

(* A step of one's own goes forward, or counts an attempt. *)
LEMMA OwnStep ==
  ASSUME IInv, NEW p \in Pid, Acquire(p), phase'[p] \in Starter
  PROVE  StepsLeft(p)' < StepsLeft(p)
<1>0. /\ phase \in [Pid -> Phase] /\ tries \in [Pid -> Nat]
      /\ tries[p] < IF phase[p] = "probing" THEN HealthAttempts
                                            ELSE ReacquireAttempts
      /\ phase[p] \notin {"probing", "retrying"} => tries[p] = 0
  BY DEF IInv, TypeOK, Counted
<1> USE DEF Goto, Starter, StepsLeft
<1>1. ~ \E q \in {p} : Exit(q)
  BY <1>0 DEF Exit
<1>2. CASE TryAcquire(p) \/ ReadPidFile(p) \/ ReadLockFile(p)
  BY <1>0, <1>2 DEF TryAcquire, ReadPidFile, ReadLockFile
<1>3. CASE ProbeFails(p)
  BY <1>0, <1>3 DEF ProbeFails
<1>4. CASE OldOwnerIsGone(p)
  BY <1>0, <1>4 DEF OldOwnerIsGone
<1>5. CASE SendSigterm(p)
  BY <1>0, <1>5 DEF SendSigterm, Strikes
<1>6. CASE TerminateSucceeds(p)
  BY <1>0, <1>6 DEF TerminateSucceeds
<1>7. CASE SendSigkill(p)
  BY <1>0, <1>7 DEF SendSigkill, Strikes
<1>8. CASE StillGone(p) \/ CleanUpPidFile(p) \/ CleanUpSocket(p)
  BY <1>0, <1>8 DEF StillGone, CleanUpPidFile, CleanUpSocket
<1>9. CASE Reacquire(p)
  BY <1>0, <1>9 DEF Reacquire
<1>10. CASE ReacquireFails(p)
  BY <1>0, <1>1, <1>10 DEF ReacquireFails
<1>11. CASE ProbeSucceeds(p) \/ RefuseTakeover(p) \/ StillAlive(p)
  BY <1>1, <1>11 DEF ProbeSucceeds, RefuseTakeover, StillAlive
<1> QED
  BY <1>2, <1>3, <1>4, <1>5, <1>6, <1>7, <1>8, <1>9, <1>10, <1>11 DEF Acquire

(* acquire_service_owner is wait-free: after as many steps of its own as    *)
(* the two attempt limits allow it has decided, whatever other processes,   *)
(* clean-ups and signals do in between.                                     *)
THEOREM AcquisitionIsWaitFree ==
  Spec => []AcquisitionIsBounded /\ [][AcquisitionAdvances]_vars
<1>1. IInv => AcquisitionIsBounded
  <2> SUFFICES ASSUME IInv, NEW p \in Pid, phase[p] \in Starter
               PROVE  StepsLeft(p) \in 1..(HealthAttempts + ReacquireAttempts + 9)
    BY DEF AcquisitionIsBounded
  <2>1. /\ tries[p] \in Nat
        /\ tries[p] < IF phase[p] = "probing" THEN HealthAttempts
                                              ELSE ReacquireAttempts
        /\ HealthAttempts \in Nat \ {0} /\ ReacquireAttempts \in Nat \ {0}
    BY DEF IInv, TypeOK
  <2>2. CASE phase[p] = "probing"
    BY <2>1, <2>2 DEF StepsLeft
  <2>3. CASE phase[p] = "retrying"
    BY <2>1, <2>3 DEF StepsLeft
  <2>4. CASE phase[p] = "locking"
    BY <2>1, <2>4 DEF StepsLeft
  <2>5. CASE phase[p] = "reading"
    BY <2>1, <2>5 DEF StepsLeft
  <2>6. CASE phase[p] = "deciding"
    BY <2>1, <2>6 DEF StepsLeft
  <2>7. CASE phase[p] = "terminating"
    BY <2>1, <2>7 DEF StepsLeft
  <2>8. CASE phase[p] = "killing"
    BY <2>1, <2>8 DEF StepsLeft
  <2>9. CASE phase[p] = "rechecking"
    BY <2>1, <2>9 DEF StepsLeft
  <2>10. CASE phase[p] = "cleaning"
    BY <2>1, <2>10 DEF StepsLeft
  <2>11. CASE phase[p] = "unlinking"
    BY <2>1, <2>11 DEF StepsLeft
  <2>12. CASE phase[p] = "readingLock"
    BY <2>1, <2>12 DEF StepsLeft
  <2> QED
    BY <2>2, <2>3, <2>4, <2>5, <2>6, <2>7, <2>8, <2>9, <2>10, <2>11, <2>12
       DEF Starter
<1>2. IInv /\ [Next]_vars => AcquisitionAdvances
  <2> SUFFICES ASSUME IInv, [Next]_vars, NEW p \in Pid,
                      phase[p] \in Starter, phase'[p] \in Starter
               PROVE  /\ StepsLeft(p)' <= StepsLeft(p)
                      /\ Acquire(p) => StepsLeft(p)' < StepsLeft(p)
    BY DEF AcquisitionAdvances, Closer
  <2>1. StepsLeft(p) \in Nat /\ StepsLeft(p)' \in Nat
    BY NextIInv, <1>1 DEF IInv, TypeOK, StepsLeft, Starter
  <2>2. CASE Acquire(p)
    BY OwnStep, <2>1, <2>2
  <2>3. CASE ~Acquire(p)
    <3>1. phase'[p] = phase[p] /\ tries'[p] = tries[p]
      BY OthersStandBy, <2>3
    <3> QED
      BY <2>1, <2>3, <3>1 DEF StepsLeft
  <2> QED
    BY <2>2, <2>3
<1> QED
  BY <1>1, <1>2, Inductive, PTL DEF Spec


-----------------------------------------------------------------------------
(* What OwnerLifecycle takes for granted of its processes: one boots only   *)
(* when the one before it, and the maintenance, have let go.                *)
NoOverlap ==
    /\ \A p, q \in Pid : phase[p] \in Owner /\ phase'[q] \in Owner => p = q
    /\ holder = Maintenance => \A p \in Pid : phase'[p] \notin Owner
    /\ holder' = Maintenance => \A p \in Pid : phase[p] \notin Owner

(* The lock changes hands by way of nobody. *)
LEMMA HolderStep ==
  ASSUME IInv, [Next]_vars, holder # Nothing
  PROVE  holder' \in {holder, Nothing}
<1> USE DEF Goto, procVars, ipcVars
<1>1. ASSUME NEW q \in Pid, Exit(q) PROVE holder' \in {holder, Nothing}
  BY <1>1 DEF Exit, Ends
<1>2. CASE MaintenanceBegins \/ MaintenanceEnds \/ UNCHANGED vars
  BY <1>2 DEF MaintenanceBegins, MaintenanceEnds, vars
<1>3. ASSUME NEW q \in Pid, Environment(q) PROVE holder' \in {holder, Nothing}
  BY <1>1, <1>3 DEF Environment, Start, Crash, OtherStarts, OtherExits, Slows,
     Answers, Terminate
<1>4. ASSUME NEW q \in Pid, Own(q) PROVE holder' \in {holder, Nothing}
  BY <1>1, <1>4 DEF Own, TruncateLockFile, StampLockFile, PublishPid,
     MetadataFails, RunIpcServer, IpcServerFails, Listen, ServeEnds,
     ShutdownSelected, StopIpcServer, StopIpcServerFails, RemovePidFile,
     ReleaseLock, ProcessExits
<1>5. ASSUME NEW q \in Pid, Acquire(q) PROVE holder' \in {holder, Nothing}
  BY <1>1, <1>5 DEF Acquire, TryAcquire, ReadPidFile, ReadLockFile,
     ProbeSucceeds, ProbeFails,
     RefuseTakeover, OldOwnerIsGone, SendSigterm, TerminateSucceeds, SendSigkill,
     StillAlive, StillGone, CleanUpPidFile, CleanUpSocket, Reacquire,
     ReacquireFails, Strikes, Ends
<1> QED
  BY <1>2, <1>3, <1>4, <1>5 DEF Next

(* There is no step from one service process to another, or between one and *)
(* the maintenance: each finds the files as the last one left them, and     *)
(* nobody writing.                                                          *)
THEOREM ServicesDoNotOverlap == Spec => [][NoOverlap]_vars
<1>1. IInv /\ [Next]_vars => NoOverlap
  <2> SUFFICES ASSUME IInv, [Next]_vars PROVE NoOverlap
    OBVIOUS
  <2>1. \A p \in Pid : /\ p # Nothing /\ p # Maintenance
                       /\ phase[p] \in Owner => holder = p
                       /\ phase'[p] \in Owner => holder' = p
    BY NextIInv DEF IInv, Locked
  <2>2. holder # Nothing => holder' \in {holder, Nothing}
    BY HolderStep
  <2> QED
    BY <2>1, <2>2 DEF NoOverlap
<1> QED
  BY <1>1, Inductive, PTL DEF Spec

(* The socket of a service that serves. *)
SocketIsTaken ==
    \A p \in Pid :
        phase[p] = "serving" /\ phase'[p] = "serving" /\ socket = p /\ socket' # p
            => \E q \in Pid \ {p} : CleanUpSocket(q)

(* ServingIsReachable is violated in one way only: the late clean-up of a   *)
(* process that was taking over from an earlier owner.  No other process    *)
(* that starts, crashes, listens or stops takes the socket of one that      *)
(* serves.                                                                  *)
THEOREM OnlyCleanUpsTakeSockets == Spec => [][SocketIsTaken]_vars
<1>1. IInv /\ [Next]_vars => SocketIsTaken
  <2> SUFFICES ASSUME IInv, [Next]_vars, NEW p \in Pid, phase[p] = "serving",
                      phase'[p] = "serving", socket = p,
                      ~ \E q \in Pid \ {p} : CleanUpSocket(q)
               PROVE  socket' = p
    BY DEF SocketIsTaken
  <2>1. /\ phase \in [Pid -> Phase]
        /\ \A q \in Pid : phase[q] \in Owner => q = p
        /\ p # Stale /\ p # Nothing
    BY DEF IInv, TypeOK, Locked, Owner
  <2> USE DEF Goto, procVars, ipcVars
  <2>2. ASSUME NEW q \in Pid, Exit(q) PROVE socket' = p
    BY <2>1, <2>2 DEF Exit, Ends
  <2>3. CASE MaintenanceBegins \/ MaintenanceEnds \/ UNCHANGED vars
    BY <2>3 DEF MaintenanceBegins, MaintenanceEnds, vars
  <2>4. ASSUME NEW q \in Pid, Environment(q) PROVE socket' = p
    BY <2>2, <2>4 DEF Environment, Start, Crash, OtherStarts, OtherExits, Slows,
       Answers, Terminate
  <2>5. ASSUME NEW q \in Pid, Own(q) PROVE socket' = p
    <3>1. CASE MetadataFails(q) \/ ProcessExits(q)
      BY <2>2, <3>1 DEF MetadataFails, ProcessExits
    <3>2. CASE \/ TruncateLockFile(q) \/ StampLockFile(q) \/ PublishPid(q)
               \/ IpcServerFails(q) \/ ShutdownSelected(q) \/ StopIpcServerFails(q)
               \/ RemovePidFile(q) \/ ReleaseLock(q)
      BY <3>2 DEF TruncateLockFile, StampLockFile, PublishPid, IpcServerFails,
         ShutdownSelected, StopIpcServerFails, RemovePidFile, ReleaseLock
    <3>3. CASE RunIpcServer(q) \/ Listen(q) \/ ServeEnds(q) \/ StopIpcServer(q)
      <4>1. q = p
        BY <2>1, <3>3 DEF RunIpcServer, Listen, ServeEnds, StopIpcServer, Owner
      <4> QED
        BY <2>1, <3>3, <4>1 DEF RunIpcServer, Listen, ServeEnds, StopIpcServer
    <3> QED
      BY <2>5, <3>1, <3>2, <3>3 DEF Own
  <2>6. ASSUME NEW q \in Pid, Acquire(q) PROVE socket' = p
    <3>1. CASE ProbeSucceeds(q) \/ RefuseTakeover(q) \/ StillAlive(q)
      BY <2>2, <3>1 DEF ProbeSucceeds, RefuseTakeover, StillAlive
    <3>2. CASE \/ TryAcquire(q) \/ ReadPidFile(q) \/ ReadLockFile(q)
               \/ ProbeFails(q) \/ OldOwnerIsGone(q) \/ TerminateSucceeds(q)
               \/ StillGone(q) \/ CleanUpPidFile(q) \/ Reacquire(q)
      BY <3>2 DEF TryAcquire, ReadPidFile, ReadLockFile, ProbeFails,
         OldOwnerIsGone, TerminateSucceeds, StillGone, CleanUpPidFile, Reacquire
    <3>3. CASE CleanUpSocket(q)
      BY <3>3 DEF CleanUpSocket
    <3>4. CASE ReacquireFails(q)
      BY <2>2, <3>4 DEF ReacquireFails
    <3>5. CASE SendSigterm(q) \/ SendSigkill(q)
      <4>1. socket' = socket \/ \E next : Strikes(q, old[q], next)
        BY <3>5 DEF SendSigterm, SendSigkill
      <4>2. ASSUME NEW next, Strikes(q, old[q], next) PROVE socket' = p
        <5>1. CASE old[q] = p
          BY <2>1, <4>2, <5>1 DEF Strikes
        <5>2. CASE old[q] # p
          BY <4>2, <5>2 DEF Strikes, Ends
        <5> QED
          BY <5>1, <5>2
      <4> QED
        BY <4>1, <4>2
    <3> QED
      BY <2>6, <3>1, <3>2, <3>3, <3>4, <3>5 DEF Acquire
  <2> QED
    BY <2>3, <2>4, <2>5, <2>6 DEF Next
<1> QED
  BY <1>1, Inductive, PTL DEF Spec

=============================================================================
