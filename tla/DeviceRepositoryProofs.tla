------------------------ MODULE DeviceRepositoryProofs ------------------------
(* Proofs about DeviceRepository for any number of processes and devices: the   *)
(* type invariant, mutual exclusion, no lost update, no torn file, current      *)
(* answers, and the refinement of AtomicFleet.                                  *)
EXTENDS DeviceRepository, TLAPS

\* Whoever is between opening and closing .lock is its holder, and no one else.
LockInv == \A p \in Proc : pc[p] \in Inside <=> lockHolder = p

\* The file is missing, and then nothing was committed, or it is the committed
\* fleet: what makes it true that whoever reads it loses no change.
FileInv ==
    \/ devicesFile = NoFile /\ committed = Seed
    \/ devicesFile \in Fleet /\ devicesFile = committed

\* What p is about to save: the seed where there was no file, or the file with
\* its one change.
SaveInv(p) ==
    \/ /\ seeding[p]
       /\ devices[p] = Seed
       /\ devicesFile = NoFile
    \/ /\ ~seeding[p]
       /\ request[p] \in Device
       /\ devicesFile \in Fleet
       /\ devices[p] = [devicesFile EXCEPT ![request[p]] = @ + 1]

\* What p knows at each point of its call: only the lock keeps it true.
CallInv(p) ==
    /\ pc[p] \in {"dead", "idle"} => request[p] = GetAll
    /\ pc[p] = "load" => devicesFile \in Fleet
    /\ pc[p] = "change" => devicesFile \in Fleet /\ devices[p] = devicesFile
    /\ pc[p] \in InSave => SaveInv(p)
    /\ pc[p] = "move" => tempFile = devices[p]
    /\ pc[p] = "release" /\ outcome[p] = "ok" => devices[p] = devicesFile
    /\ pc[p] = "release" => outcome[p] \in {"ok", "notFound", "ioError"}

IInv ==
    /\ TypeOK
    /\ LockInv
    /\ FileInv
    /\ \A p \in Proc : CallInv(p)

-------------------------------------------------------------------------------

LEMMA SeedIsFleet == Seed \in Fleet
  BY DEF Seed, Fleet

\* One change of one device leads from a fleet to a fleet.
LEMMA ChangeIsFleet ==
  ASSUME NEW f \in Fleet, NEW d \in Device
  PROVE  [f EXCEPT ![d] = @ + 1] \in Fleet
  BY DEF Fleet

\* The fleet is empty and nobody is in a call when the program is first started.
LEMMA InitIInv == Init => IInv
  BY SeedIsFleet, ConstantsAssumption
  DEF Init, IInv, TypeOK, LockInv, FileInv, CallInv, SaveInv, Location, Inside,
      InSave, Outcome, Request

\* Types survive every step: the move installs what the temporary file holds,
\* which IInv says is a fleet.
LEMMA TypeStep == IInv /\ [Next]_vars => TypeOK'
<1> SUFFICES ASSUME IInv, [Next]_vars
             PROVE  TypeOK'
  OBVIOUS
<1> USE SeedIsFleet
<1>1. ASSUME NEW p \in Proc, Start(p) PROVE TypeOK'
  BY <1>1 DEF IInv, TypeOK, Start, Goto, Location, files, locals
<1>2. ASSUME NEW p \in Proc, NEW r \in Request, Invoke(p, r) PROVE TypeOK'
  BY <1>2 DEF IInv, TypeOK, Invoke, Goto, Location, files
<1>3. ASSUME NEW p \in Proc, Acquire(p) PROVE TypeOK'
  BY <1>3 DEF IInv, TypeOK, Acquire, Goto, Location, files, locals
<1>4. ASSUME NEW p \in Proc, Timeout(p) PROVE TypeOK'
  BY <1>4 DEF IInv, TypeOK, Timeout, Goto, Forget, Location, Outcome, Request, files
<1>5. ASSUME NEW p \in Proc, CheckExists(p) PROVE TypeOK'
  BY SMTT(30), ZenonT(30), <1>5 DEF IInv, TypeOK, CheckExists, Goto, Location, files
<1>6. ASSUME NEW p \in Proc, Load(p) PROVE TypeOK'
  BY <1>6 DEF IInv, TypeOK, CallInv, Load, HaveDevices, Goto, Ends, Location, Outcome, files
<1>7. ASSUME NEW p \in Proc, Change(p) PROVE TypeOK'
  <2>1. ASSUME request[p] \in Device
        PROVE  [devices EXCEPT ![p][request[p]] = @ + 1] \in [Proc -> Fleet]
    BY <2>1 DEF IInv, TypeOK, Fleet
  <2> QED
    BY <1>7, <2>1 DEF IInv, TypeOK, Change, Goto, Ends, Location, Outcome, files
<1>8. ASSUME NEW p \in Proc, WriteTemp(p) PROVE TypeOK'
  BY <1>8 DEF IInv, TypeOK, WriteTemp, Goto, Location, locals
<1>9. ASSUME NEW p \in Proc, FlushTemp(p) PROVE TypeOK'
  BY <1>9 DEF IInv, TypeOK, FlushTemp, Goto, Location, locals
<1>10. ASSUME NEW p \in Proc, MoveTemp(p) PROVE TypeOK'
  <2>1. tempFile \in Fleet
    BY <1>10 DEF IInv, TypeOK, CallInv, MoveTemp
  <2>2. ~seeding[p] => [committed EXCEPT ![request[p]] = @ + 1] \in Fleet
    BY <1>10, ChangeIsFleet DEF IInv, TypeOK, CallInv, SaveInv, InSave, MoveTemp
  <2> QED
    BY <1>10, <2>1, <2>2
    DEF IInv, TypeOK, MoveTemp, HaveDevices, Goto, Ends, Location, Outcome
<1>11. ASSUME NEW p \in Proc, SaveFails(p) PROVE TypeOK'
  BY <1>11 DEF IInv, TypeOK, SaveFails, Goto, Ends, Location, Outcome, files
<1>12. ASSUME NEW p \in Proc, Release(p) PROVE TypeOK'
  BY <1>12 DEF IInv, TypeOK, Release, Goto, Forget, Location, Outcome, Request, files
<1>13. ASSUME NEW p \in Proc, Crash(p) PROVE TypeOK'
  BY <1>13 DEF IInv, TypeOK, Crash, Goto, Forget, Location, Outcome, Request, files
<1>14. CASE Reset
  BY <1>14 DEF IInv, TypeOK, Reset, locals
<1>15. CASE UNCHANGED vars
  BY <1>15 DEF IInv, TypeOK, vars
<1> QED
  BY <1>1, <1>2, <1>3, <1>4, <1>5, <1>6, <1>7, <1>8, <1>9, <1>10, <1>11,
     <1>12, <1>13, <1>14, <1>15 DEF Next, InCall

\* The lock: it is taken only when free, and given back by every step that leaves
\* the session or kills the process.
LEMMA LockStep == IInv /\ [Next]_vars => LockInv'
<1> SUFFICES ASSUME IInv, [Next]_vars
             PROVE  LockInv'
  OBVIOUS
<1> USE ConstantsAssumption DEF LockInv, Inside, InSave
<1>1. ASSUME NEW p \in Proc,
             \/ Start(p) \/ (\E r \in Request : Invoke(p, r)) \/ Timeout(p)
      PROVE  LockInv'
  BY <1>1 DEF IInv, TypeOK, Start, Invoke, Timeout, Goto
<1>2. ASSUME NEW p \in Proc, Acquire(p) \/ Release(p) \/ Crash(p) PROVE LockInv'
  BY <1>2 DEF IInv, TypeOK, Acquire, Release, Crash, Goto
<1>3. ASSUME NEW p \in Proc, CheckExists(p) \/ Load(p) \/ Change(p) PROVE LockInv'
  BY <1>3 DEF IInv, TypeOK, CheckExists, Load, Change, HaveDevices, Goto
<1>4. ASSUME NEW p \in Proc, WriteTemp(p) \/ FlushTemp(p) \/ SaveFails(p) PROVE LockInv'
  BY <1>4 DEF IInv, TypeOK, WriteTemp, FlushTemp, SaveFails, Goto
<1>5. ASSUME NEW p \in Proc, MoveTemp(p) PROVE LockInv'
  BY <1>5 DEF IInv, TypeOK, MoveTemp, HaveDevices, Goto
<1>6. CASE Reset \/ UNCHANGED vars
  BY <1>6 DEF IInv, Reset, vars
<1> QED
  BY <1>1, <1>2, <1>3, <1>4, <1>5, <1>6 DEF Next, InCall

\* devices.json: only a completed move and the reset touch it, and both keep the
\* history in step with it.
LEMMA FileStep == IInv /\ [Next]_vars => FileInv'
<1> SUFFICES ASSUME IInv, [Next]_vars
             PROVE  FileInv'
  OBVIOUS
<1> USE DEF FileInv
<1>1. ASSUME NEW p \in Proc, MoveTemp(p) PROVE FileInv'
  <2>1. SaveInv(p) /\ tempFile = devices[p]
    BY <1>1 DEF IInv, CallInv, InSave, MoveTemp
  <2>2. CASE seeding[p]
    BY <1>1, <2>1, <2>2, SeedIsFleet, ConstantsAssumption DEF IInv, SaveInv, MoveTemp
  <2>3. CASE ~seeding[p]
    BY <1>1, <2>1, <2>3, ChangeIsFleet, ConstantsAssumption DEF IInv, SaveInv, MoveTemp
  <2> QED
    BY <2>2, <2>3
<1>2. CASE Reset
  BY <1>2 DEF Reset
<1>3. ASSUME UNCHANGED files PROVE FileInv'
  BY <1>3 DEF IInv, files
<1>4. ASSUME NEW p \in Proc, WriteTemp(p) \/ FlushTemp(p) PROVE FileInv'
  BY <1>4 DEF IInv, WriteTemp, FlushTemp
<1> QED
  BY <1>1, <1>2, <1>3, <1>4
  DEF Next, InCall, Start, Invoke, Acquire, Timeout, CheckExists, Load, Change,
      SaveFails, Release, Crash, vars, files

\* A step of the lock's holder keeps what it knows itself.
LEMMA OwnCallStep ==
  ASSUME IInv, NEW p \in Proc, InCall(p) \/ SaveFails(p)
  PROVE  CallInv(p)'
<1> USE DEF CallInv, SaveInv, InSave, Goto
<1>1. CASE Acquire(p) \/ Timeout(p)
  BY <1>1 DEF IInv, TypeOK, Acquire, Timeout, Forget, locals
<1>2. CASE CheckExists(p)
  BY <1>2 DEF IInv, TypeOK, FileInv, CheckExists, files
<1>3. CASE Load(p)
  BY <1>3, ConstantsAssumption DEF IInv, TypeOK, Load, HaveDevices, Ends, files
<1>4. CASE Change(p)
  BY <1>4 DEF IInv, TypeOK, Change, Ends, files
<1>5. CASE WriteTemp(p) \/ FlushTemp(p)
  BY <1>5 DEF IInv, TypeOK, WriteTemp, FlushTemp, locals
<1>6. CASE MoveTemp(p)
  BY <1>6, SeedIsFleet DEF IInv, TypeOK, MoveTemp, HaveDevices, Ends
<1>7. CASE SaveFails(p) \/ Release(p)
  BY <1>7 DEF IInv, TypeOK, SaveFails, Release, Forget, Ends
<1> QED
  BY <1>1, <1>2, <1>3, <1>4, <1>5, <1>6, <1>7 DEF InCall

\* No step of p disturbs what another process knows: a process that knows
\* something is inside, so p is not, and p writes files only when inside.
LEMMA OtherCallStep ==
  ASSUME IInv, NEW p \in Proc, NEW q \in Proc, q # p,
         \/ Start(p) \/ (\E r \in Request : Invoke(p, r))
         \/ InCall(p) \/ SaveFails(p) \/ Crash(p)
  PROVE  CallInv(q)'
<1>1. /\ pc'[q] = pc[q] /\ request'[q] = request[q] /\ devices'[q] = devices[q]
      /\ seeding'[q] = seeding[q] /\ outcome'[q] = outcome[q]
  BY DEF IInv, TypeOK, InCall, Start, Invoke, Acquire, Timeout, CheckExists, Load,
         Change, HaveDevices, WriteTemp, FlushTemp, MoveTemp, SaveFails, Release,
         Crash, Forget, Goto, Ends, locals
<1>2. CASE pc[q] \in Inside
  <2>1. pc[p] \notin Inside
    BY <1>2 DEF IInv, LockInv
  <2>2. UNCHANGED <<devicesFile, tempFile>>
    BY <2>1 DEF InCall, Start, Invoke, Acquire, Timeout, CheckExists, Load, Change,
       WriteTemp, FlushTemp, MoveTemp, SaveFails, Release, Crash, Inside, InSave, files
  <2> QED
    BY <1>1, <2>2 DEF IInv, CallInv, SaveInv
<1>3. CASE pc[q] \notin Inside
  BY <1>1, <1>3 DEF IInv, CallInv, Inside, InSave
<1> QED
  BY <1>2, <1>3

LEMMA CallStep == IInv /\ [Next]_vars => \A q \in Proc : CallInv(q)'
<1> SUFFICES ASSUME IInv, [Next]_vars, NEW q \in Proc
             PROVE  CallInv(q)'
  OBVIOUS
<1>1. CASE Start(q) \/ (\E r \in Request : Invoke(q, r)) \/ Crash(q)
  BY <1>1 DEF IInv, TypeOK, CallInv, InSave, Start, Invoke, Crash, Forget, Goto, locals
<1>2. CASE InCall(q) \/ SaveFails(q)
  BY <1>2, OwnCallStep
<1>3. ASSUME NEW p \in Proc, p # q,
             \/ Start(p) \/ (\E r \in Request : Invoke(p, r))
             \/ InCall(p) \/ SaveFails(p) \/ Crash(p)
      PROVE  CallInv(q)'
  BY <1>3, OtherCallStep
<1>4. CASE Reset
  BY <1>4 DEF IInv, CallInv, InSave, Proc, Reset, locals
<1>5. CASE UNCHANGED vars
  BY <1>5 DEF IInv, CallInv, SaveInv, vars
<1> QED
  BY <1>1, <1>2, <1>3, <1>4, <1>5 DEF Next

\* The inductive invariant.
THEOREM Inductive == Spec => []IInv
<1>1. IInv /\ [Next]_vars => IInv'
  BY TypeStep, LockStep, FileStep, CallStep DEF IInv
<1> QED
  BY InitIInv, <1>1, PTL DEF Spec

-------------------------------------------------------------------------------

\* Every variable keeps its type, for any processes and devices.
THEOREM TypeCorrect == Spec => []TypeOK
<1>1. IInv => TypeOK
  BY DEF IInv
<1> QED
  BY Inductive, <1>1, PTL

\* CrossProcessLock keeps all but one process out, through crashes, time-outs and
\* exceptions.
THEOREM MutualExclusionHolds == Spec => []MutualExclusion
<1>1. IInv => MutualExclusion
  BY DEF IInv, LockInv, MutualExclusion
<1> QED
  BY Inductive, <1>1, PTL

\* Update's read-modify-write loses no completed change.
THEOREM NoLostUpdateHolds == Spec => []NoLostUpdate
<1>1. IInv => NoLostUpdate
  BY DEF IInv, FileInv, NoLostUpdate
<1> QED
  BY Inductive, <1>1, PTL

\* Write-then-rename never shows half a file, not even to a reader without a lock.
THEOREM NeverHalfAFileHolds == Spec => []NeverHalfAFile
<1>1. IInv => NeverHalfAFile
  BY ConstantsAssumption DEF IInv, FileInv, NeverHalfAFile
<1> QED
  BY Inductive, <1>1, PTL

\* A call that ends well hands out the list the file holds when it returns.
THEOREM AnswerIsCurrentHolds == Spec => []AnswerIsCurrent
<1>1. IInv => AnswerIsCurrent
  BY DEF IInv, CallInv, AnswerIsCurrent
<1> QED
  BY Inductive, <1>1, PTL

-------------------------------------------------------------------------------
(* The refinement: every step of a call is a step of AtomicFleet or stutters. *)

LEMMA InitRefines == Init => Atomic!Init
  BY DEF Init, Atomic!Init, callState, callAnswer

\* A process that enters, leaves or dies: only its own call moves.
LEMMA BoundaryRefines ==
  ASSUME IInv, NEW p \in Proc,
         \/ Start(p) \/ (\E r \in Request : Invoke(p, r))
         \/ Acquire(p) \/ Timeout(p) \/ Release(p) \/ Crash(p)
  PROVE  [Atomic!Next]_(Atomic!vars)
<1> USE DEF Atomic!vars, callState, callAnswer, Goto, IInv, TypeOK
<1>1. CASE Start(p) \/ Acquire(p)
  BY <1>1 DEF Start, Acquire, files, locals
<1>2. ASSUME NEW r \in Request, Invoke(p, r)
      PROVE  [Atomic!Next]_(Atomic!vars)
  <2>1. Atomic!Invoke(p, r)
    BY <1>2 DEF Invoke, Atomic!Invoke, files
  <2> QED
    BY <2>1 DEF Atomic!Next, Request, Atomic!Request
<1>3. CASE (Timeout(p) \/ Release(p) \/ Crash(p)) /\ pc[p] # "idle"
  <2>1. Atomic!Leave(p)
    BY <1>3 DEF Timeout, Release, Crash, Forget, Atomic!Leave, files
  <2> QED
    BY <2>1 DEF Atomic!Next
<1>4. CASE Crash(p) /\ pc[p] = "idle"
  <2>1. request[p] = GetAll
    BY <1>4 DEF CallInv
  <2> QED
    BY <1>4, <2>1 DEF Crash, Forget, files
<1> QED
  BY <1>1, <1>2, <1>3, <1>4 DEF Timeout, Release

\* A call that reads: nothing happens to the fleet before the answer is known.
LEMMA ReadingRefines ==
  ASSUME IInv, NEW p \in Proc,
         CheckExists(p) \/ Load(p) \/ WriteTemp(p) \/ FlushTemp(p)
  PROVE  [Atomic!Next]_(Atomic!vars)
<1> USE DEF Atomic!vars, callState, callAnswer, Goto, Ends, IInv, TypeOK
<1>1. CASE CheckExists(p) \/ WriteTemp(p) \/ FlushTemp(p)
  BY <1>1 DEF CheckExists, WriteTemp, FlushTemp, files, locals
<1>2. CASE Load(p)
  <2>1. devicesFile \in Fleet /\ devicesFile # Torn /\ devicesFile # NoFile
    BY <1>2, ConstantsAssumption DEF Load, CallInv
  <2>2. CASE request[p] = GetAll
    <3>1. Atomic!Read(p)
      BY <1>2, <2>1, <2>2 DEF Load, HaveDevices, Atomic!Read, Atomic!Answer, files
    <3> QED
      BY <3>1 DEF Atomic!Next
  <2>3. CASE request[p] # GetAll
    BY <1>2, <2>1, <2>3 DEF Load, HaveDevices, files
  <2> QED
    BY <2>2, <2>3
<1> QED
  BY <1>1, <1>2

\* A call that throws under the lock.
LEMMA FailingRefines ==
  ASSUME IInv, NEW p \in Proc, Change(p) \/ SaveFails(p)
  PROVE  [Atomic!Next]_(Atomic!vars)
<1> USE DEF Atomic!vars, callState, callAnswer, Goto, Ends, IInv, TypeOK
<1>1. CASE Change(p) /\ request[p] \in Device
  BY <1>1 DEF Change, files
<1>2. CASE SaveFails(p) \/ (Change(p) /\ request[p] \notin Device)
  <2>1. Atomic!Fail(p)
    BY SMTT(30), ZenonT(30), <1>2 DEF Change, SaveFails, InSave, Atomic!Fail, Atomic!Answer, files
  <2> QED
    BY <2>1 DEF Atomic!Next
<1> QED
  BY <1>1, <1>2

\* The move: it plants the seed, answers a reader with it, or makes one change.
LEMMA MoveRefines ==
  ASSUME IInv, NEW p \in Proc, MoveTemp(p)
  PROVE  [Atomic!Next]_(Atomic!vars)
<1> USE DEF Atomic!vars, callState, callAnswer, Goto, Ends, IInv, TypeOK
<1>1. SaveInv(p) /\ devicesFile' = devices[p]
  BY DEF CallInv, InSave, MoveTemp
<1>2. CASE seeding[p] /\ request[p] = GetAll
  <2>1. Atomic!Read(p)
    BY SMTT(30), ZenonT(30), <1>1, <1>2 DEF SaveInv, MoveTemp, HaveDevices, Atomic!Read, Atomic!Answer,
       Seed, Atomic!Seed
  <2> QED
    BY <2>1 DEF Atomic!Next
<1>3. CASE seeding[p] /\ request[p] # GetAll
  <2>1. Atomic!Plant(p)
    BY <1>1, <1>3 DEF SaveInv, MoveTemp, HaveDevices, Atomic!Plant, Seed, Atomic!Seed
  <2> QED
    BY <2>1 DEF Atomic!Next
<1>4. CASE ~seeding[p]
  <2>1. request[p] \in Device /\ devicesFile \in Fleet /\ devicesFile # NoFile
    BY <1>1, <1>4, ConstantsAssumption DEF SaveInv
  <2>2. Atomic!Change(p)
    BY SMTT(30), ZenonT(30), <1>1, <1>4, <2>1 DEF SaveInv, MoveTemp, Atomic!Change, Atomic!Answer
  <2> QED
    BY <2>2 DEF Atomic!Next
<1> QED
  BY <1>2, <1>3, <1>4

LEMMA StepRefines == IInv /\ [Next]_vars => [Atomic!Next]_(Atomic!vars)
<1> SUFFICES ASSUME IInv, [Next]_vars
             PROVE  [Atomic!Next]_(Atomic!vars)
  OBVIOUS
<1>1. CASE Reset
  <2>1. Atomic!Wipe
    BY <1>1 DEF Reset, Atomic!Wipe, callState, callAnswer, Proc, locals
  <2> QED
    BY <2>1 DEF Atomic!Next
<1>2. CASE UNCHANGED vars
  BY <1>2 DEF vars, Atomic!vars, callState, callAnswer
<1> QED
  BY <1>1, <1>2, BoundaryRefines, ReadingRefines, FailingRefines, MoveRefines
  DEF Next, InCall

\* The lock, the temporary file and the rename implement the atomic fleet that
\* IDeviceRepository promises its callers.
THEOREM RefinementHolds == Spec => RefinesAtomicFleet
  BY InitRefines, StepRefines, Inductive, PTL
  DEF Spec, RefinesAtomicFleet, Atomic!Spec

===============================================================================
