--------------------------- MODULE DeviceRepository ---------------------------
(* The storage of the PowerShell Showcase: JsonFileDeviceRepository over         *)
(* CrossProcessLock, one file operation per step, shared by every process that   *)
(* opens the data directory (Showcase.App and any number of pwsh sessions).      *)
(*                                                                               *)
(* A process is inside at most one call.  Between two steps of a call any other  *)
(* process may move, any process may die (the operating system then closes its   *)
(* lock file), and a file operation of Save may throw.                           *)
EXTENDS Naturals

CONSTANTS
    App,          \* processes running Showcase.App
    Shell,        \* pwsh sessions that imported the module
    Device,       \* ids of the devices of the fleet
    UnknownId,    \* an id no device has
    GetAll,       \* the request of a caller that only reads
    NoProc,       \* nobody holds the lock
    NoFile,       \* the file does not exist
    Torn,         \* the file holds part of a document
    MaxChanges    \* bound: no device is asked to change once it changed this often

Proc == App \cup Shell

Request == Device \cup {UnknownId, GetAll}
Fleet   == [Device -> Nat]

ASSUME ConstantsAssumption ==
    /\ NoProc \notin Proc
    /\ App \cap Shell = {}
    /\ UnknownId \notin Device \cup {GetAll}
    /\ GetAll \notin Device
    /\ NoFile \notin Fleet /\ Torn \notin Fleet /\ NoFile # Torn
    /\ MaxChanges \in Nat

VARIABLES
    dirExists,    \* is the data directory there?
    lockHolder,   \* whose FileStream on .lock is open
    devicesFile,  \* devices.json
    tempFile,     \* devices.json.tmp
    pc,           \* pc[p]: where p stands in a call
    request,      \* request[p]: the device to change, or GetAll
    devices,      \* devices[p]: the deserialized list p works on
    seeding,      \* seeding[p]: p is saving the seed, not a change
    outcome,      \* outcome[p]: how the call of p is about to end
    committed     \* history: the changes whose Save completed since the last reset

vars == <<dirExists, lockHolder, devicesFile, tempFile,
          pc, request, devices, seeding, outcome, committed>>

locals == <<request, devices, seeding, outcome>>
files  == <<devicesFile, tempFile, committed>>

Location == {"dead", "idle", "acquire", "exists", "load", "change",
             "write", "flush", "move", "release"}
InSave   == {"write", "flush", "move"}
Inside   == {"exists", "load", "change", "release"} \cup InSave
Outcome  == {"none", "ok", "notFound", "corrupt", "ioError"}

\* DeviceSeed.Create: every device is there, and none was changed yet.
Seed == [d \in Device |-> 0]

Init ==
    /\ dirExists = FALSE
    /\ lockHolder = NoProc
    /\ devicesFile = NoFile
    /\ tempFile = NoFile
    /\ pc = [p \in Proc |-> "dead"]
    /\ request = [p \in Proc |-> GetAll]
    /\ devices = [p \in Proc |-> Seed]
    /\ seeding = [p \in Proc |-> FALSE]
    /\ outcome = [p \in Proc |-> "none"]
    /\ committed = Seed

Goto(p, l) == pc' = [pc EXCEPT ![p] = l]
Ends(p, o) == outcome' = [outcome EXCEPT ![p] = o]

\* The locals of a call go out of scope with it.
Forget(p) ==
    /\ request' = [request EXCEPT ![p] = GetAll]
    /\ devices' = [devices EXCEPT ![p] = Seed]
    /\ seeding' = [seeding EXCEPT ![p] = FALSE]
    /\ outcome' = [outcome EXCEPT ![p] = "none"]

-------------------------------------------------------------------------------
(* Outside the lock *)

\* The container of the process constructs the singleton repository, which
\* creates the directory: once in the life of the process.
Start(p) ==
    /\ pc[p] = "dead"
    /\ Goto(p, "idle")
    /\ dirExists' = TRUE
    /\ UNCHANGED <<lockHolder, files, locals>>

\* A caller enters GetAll() or Update(change).  A command that changes devices is
\* resolved together with its activity log, whose constructor creates the
\* directory again; a reader and the simulation tick only use the singleton.
Invoke(p, r) ==
    /\ pc[p] = "idle"
    /\ r \in Device => committed[r] < MaxChanges
    /\ Goto(p, "acquire")
    /\ request' = [request EXCEPT ![p] = r]
    /\ dirExists' = (dirExists \/ (p \in Shell /\ r # GetAll))
    /\ UNCHANGED <<lockHolder, files, devices, seeding, outcome>>

\* Mutant of Acquire: opens the file without FileShare.None.
AcquireShared(p) ==
    /\ pc[p] = "acquire"
    /\ dirExists
    /\ lockHolder' = p
    /\ Goto(p, "exists")
    /\ UNCHANGED <<dirExists, files, locals>>

\* Opening .lock with FileShare.None succeeds.
Acquire(p) ==
    /\ pc[p] = "acquire"
    /\ dirExists
    /\ lockHolder = NoProc
    /\ lockHolder' = p
    /\ Goto(p, "exists")
    /\ UNCHANGED <<dirExists, files, locals>>

\* Mutant of Timeout: the retry loop has no deadline.
TimeoutNever(p) ==
    /\ pc[p] = "acquire"
    /\ lockHolder # NoProc /\ lockHolder = NoProc
    /\ UNCHANGED vars

\* Opening .lock throws an IOException (somebody holds it, or its directory is
\* gone) and the deadline has passed, so the exception leaves Acquire.  An open
\* that throws before the deadline is a stuttering step: sleep, try again.
Timeout(p) ==
    /\ pc[p] = "acquire"
    /\ lockHolder # NoProc \/ ~dirExists
    /\ Goto(p, "idle")
    /\ Forget(p)
    /\ UNCHANGED <<dirExists, lockHolder, files>>

-------------------------------------------------------------------------------
(* Under the lock: LoadOrSeed, change, Save *)

CheckExists(p) ==
    /\ pc[p] = "exists"
    /\ \/ /\ devicesFile = NoFile
          /\ devices' = [devices EXCEPT ![p] = Seed]
          /\ seeding' = [seeding EXCEPT ![p] = TRUE]
          /\ Goto(p, "write")
       \/ /\ devicesFile # NoFile
          /\ Goto(p, "load")
          /\ UNCHANGED <<devices, seeding>>
    /\ UNCHANGED <<dirExists, lockHolder, files, request, outcome>>

\* With the list in hand GetAll returns it and Update goes on to its change.
HaveDevices(p) ==
    IF request[p] = GetAll
      THEN Goto(p, "release") /\ Ends(p, "ok")
      ELSE Goto(p, "change") /\ UNCHANGED outcome

\* Mutant of Load: closes the lock file after the read, before the change.
LoadThenUnlock(p) ==
    /\ pc[p] = "load"
    /\ devicesFile # Torn
    /\ lockHolder' = NoProc
    /\ devices' = [devices EXCEPT ![p] = devicesFile]
    /\ HaveDevices(p)
    /\ UNCHANGED <<dirExists, files, request, seeding>>

\* Mutant of Load: readers get the list cached when the repository was built.
LoadCached(p) ==
    /\ pc[p] = "load"
    /\ devices' = [devices EXCEPT ![p] = IF request[p] = GetAll THEN @ ELSE devicesFile]
    /\ HaveDevices(p)
    /\ UNCHANGED <<dirExists, lockHolder, files, request, seeding>>

\* ReadAllText and Deserialize: half a document is a JsonException.
Load(p) ==
    /\ pc[p] = "load"
    /\ \/ /\ devicesFile = Torn
          /\ Ends(p, "corrupt")
          /\ Goto(p, "release")
          /\ UNCHANGED devices
       \/ /\ devicesFile # Torn
          /\ devices' = [devices EXCEPT ![p] = devicesFile]
          /\ HaveDevices(p)
    /\ UNCHANGED <<dirExists, lockHolder, files, request, seeding>>

\* Mutant of Change: the exception path does not dispose the lock.
ChangeLeaksLock(p) ==
    /\ pc[p] = "change"
    /\ \/ /\ request[p] \in Device
          /\ devices' = [devices EXCEPT ![p][request[p]] = @ + 1]
          /\ seeding' = [seeding EXCEPT ![p] = FALSE]
          /\ Goto(p, "write")
          /\ UNCHANGED <<request, outcome>>
       \/ /\ request[p] \notin Device
          /\ Goto(p, "idle")
          /\ Forget(p)
    /\ UNCHANGED <<dirExists, lockHolder, files>>

\* The change callback edits the list in memory, or throws DeviceNotFound.
Change(p) ==
    /\ pc[p] = "change"
    /\ \/ /\ request[p] \in Device
          /\ devices' = [devices EXCEPT ![p][request[p]] = @ + 1]
          /\ seeding' = [seeding EXCEPT ![p] = FALSE]
          /\ Goto(p, "write")
          /\ UNCHANGED outcome
       \/ /\ request[p] \notin Device
          /\ Ends(p, "notFound")
          /\ Goto(p, "release")
          /\ UNCHANGED <<devices, seeding>>
    /\ UNCHANGED <<dirExists, lockHolder, files, request>>

\* Mutant of WriteTemp: Save writes devices.json in place.
WriteInPlace(p) ==
    /\ pc[p] = "write"
    /\ devicesFile' = Torn
    /\ Goto(p, "flush")
    /\ UNCHANGED <<dirExists, lockHolder, tempFile, committed, locals>>

\* WriteAllText truncates devices.json.tmp before it fills it.
WriteTemp(p) ==
    /\ pc[p] = "write"
    /\ tempFile' = Torn
    /\ Goto(p, "flush")
    /\ UNCHANGED <<dirExists, lockHolder, devicesFile, committed, locals>>

FlushTemp(p) ==
    /\ pc[p] = "flush"
    /\ tempFile' = devices[p]
    /\ Goto(p, "move")
    /\ UNCHANGED <<dirExists, lockHolder, devicesFile, committed, locals>>

\* Mutant of MoveTemp: an Update that had to seed returns the seed unchanged.
MoveSeedAndReturn(p) ==
    /\ pc[p] = "move"
    /\ devicesFile' = tempFile
    /\ tempFile' = NoFile
    /\ committed' = IF seeding[p] THEN committed ELSE [committed EXCEPT ![request[p]] = @ + 1]
    /\ Ends(p, "ok")
    /\ Goto(p, "release")
    /\ UNCHANGED <<dirExists, lockHolder, request, devices, seeding>>

\* File.Move(temp, devices.json, overwrite) replaces the file at one instant.
MoveTemp(p) ==
    /\ pc[p] = "move"
    /\ devicesFile' = tempFile
    /\ tempFile' = NoFile
    /\ \/ /\ seeding[p]
          /\ HaveDevices(p)
          /\ UNCHANGED committed
       \/ /\ ~seeding[p]
          /\ committed' = [committed EXCEPT ![request[p]] = @ + 1]
          /\ Ends(p, "ok")
          /\ Goto(p, "release")
    /\ UNCHANGED <<dirExists, lockHolder, request, devices, seeding>>

\* A full disk or a lost permission: Save throws and leaves what it had written.
SaveFails(p) ==
    /\ pc[p] \in InSave
    /\ Ends(p, "ioError")
    /\ Goto(p, "release")
    /\ UNCHANGED <<dirExists, lockHolder, files, request, devices, seeding>>

\* "using var _" disposes the lock on every way out, return or exception.
Release(p) ==
    /\ pc[p] = "release"
    /\ lockHolder' = NoProc
    /\ Goto(p, "idle")
    /\ Forget(p)
    /\ UNCHANGED <<dirExists, files>>

-------------------------------------------------------------------------------
(* The environment *)

\* A process dies wherever it stands; the system closes the files it had open.
Crash(p) ==
    /\ pc[p] # "dead"
    /\ Goto(p, "dead")
    /\ lockHolder' = IF lockHolder = p THEN NoProc ELSE lockHolder
    /\ Forget(p)
    /\ UNCHANGED <<dirExists, files>>

\* README, "Reset the fleet: stop the app, then Remove-Item": the user deletes
\* the directory from a shell, so no app runs and no command is in a call.
Reset ==
    /\ \A a \in App : pc[a] = "dead"
    /\ \A s \in Shell : pc[s] \in {"dead", "idle"}
    /\ dirExists
    /\ dirExists' = FALSE
    /\ devicesFile' = NoFile
    /\ tempFile' = NoFile
    /\ committed' = Seed
    /\ UNCHANGED <<lockHolder, pc, locals>>

-------------------------------------------------------------------------------

InCall(p) ==
    \/ Acquire(p) \/ Timeout(p)
    \/ CheckExists(p) \/ Load(p) \/ Change(p)
    \/ WriteTemp(p) \/ FlushTemp(p) \/ MoveTemp(p)
    \/ Release(p)

Next ==
    \/ \E p \in Proc :
        \/ Start(p)
        \/ \E r \in Request : Invoke(p, r)
        \/ InCall(p)
        \/ SaveFails(p)
        \/ Crash(p)
    \/ Reset

Spec == Init /\ [][Next]_vars

\* A process in a call keeps running, and the clock reaches every deadline: a
\* call that can move eventually does.  Nothing makes the race for the lock
\* fair, so no process is promised the lock (that would be strong fairness).
Fairness == \A p \in Proc : WF_vars(InCall(p))

FairSpec == Spec /\ Fairness

-------------------------------------------------------------------------------
(* Properties *)

TypeOK ==
    /\ dirExists \in BOOLEAN
    /\ lockHolder \in Proc \cup {NoProc}
    /\ devicesFile \in Fleet \cup {NoFile, Torn}
    /\ tempFile \in Fleet \cup {NoFile, Torn}
    /\ pc \in [Proc -> Location]
    /\ request \in [Proc -> Request]
    /\ devices \in [Proc -> Fleet]
    /\ seeding \in [Proc -> BOOLEAN]
    /\ outcome \in [Proc -> Outcome]
    /\ committed \in Fleet

\* At most one process is between opening and closing .lock, whoever died, timed
\* out or threw before (CrossProcessLock.Acquire, "using var _").
MutualExclusion ==
    \A p, q \in Proc : pc[p] \in Inside /\ pc[q] \in Inside => p = q

\* devices.json holds every completed change and nothing else: "the app's
\* simulation tick and a PowerShell command can't overwrite each other's changes"
\* (JsonFileDeviceRepository.Update), through crashes and failed saves too.
NoLostUpdate ==
    devicesFile # NoFile => devicesFile = committed

\* "a reader never sees half a file" (JsonFileDeviceRepository.Save): at every
\* instant, so a reader that takes no lock is safe too.
NeverHalfAFile == devicesFile # Torn

\* A call that ended well returned the fleet the file holds at that instant:
\* "every call sees the current file on disk" (IDeviceRepository).
AnswerIsCurrent ==
    \A p \in Proc :
        pc[p] = "release" /\ outcome[p] = "ok" => devices[p] = devicesFile

\* Update and GetAll always come back to their caller, with a result or an
\* exception, or the process dies: nothing waits for the lock forever.
CallsReturn ==
    \A p \in Proc : pc[p] = "acquire" ~> pc[p] \in {"idle", "dead"}

\* Whoever holds the lock gives it back, on the exceptional ways out too.
LockIsReleased ==
    \A p \in Proc : lockHolder = p ~> lockHolder # p

\* A caller that gives up on the lock gave up because of another holder: what
\* CrossProcessLock's comment says a failed open means.
TimeoutMeansHeld ==
    [][\A p \in Proc : Timeout(p) => lockHolder # NoProc]_vars

\* The files and the lock implement the abstract fleet: the call of p takes
\* effect when its Load, its last MoveTemp or its exception happens.
callState ==
    [p \in Proc |-> IF pc[p] \in {"dead", "idle"} THEN "outside"
                    ELSE IF pc[p] = "release" THEN "done" ELSE "pending"]

callAnswer ==
    [p \in Proc |-> IF pc[p] # "release" THEN NoProc
                    ELSE IF outcome[p] = "ok" THEN devices[p] ELSE Torn]

Atomic == INSTANCE AtomicFleet WITH
    NoFleet <- NoFile, NoAnswer <- NoProc, Failed <- Torn,
    fleet <- devicesFile, state <- callState, answer <- callAnswer

RefinesAtomicFleet == Atomic!Spec
===============================================================================
