----------------------------- MODULE TgCounter -----------------------------
(***************************************************************************)
(* The TgCounter kernel driver of the Windows internals lectures and its   *)
(* client: the basic driver (tgcounter/) and the one of phase 5            *)
(* (tgcounter_phase5/), which adds a paged allocation, a spin lock and two *)
(* requests made to crash the machine.                                     *)
(*                                                                         *)
(* DriverEntry is a sequence of calls each of which may fail.  A request   *)
(* runs in the thread of the client that sent it, so requests of several   *)
(* clients interleave inside the driver.  The I/O manager is external: it  *)
(* opens the device by name once DriverEntry has returned, and calls       *)
(* TgUnload when a stop was asked for and no handle is open.               *)
(***************************************************************************)
EXTENDS Integers, FiniteSets

CONSTANTS
    Clients,        \* client processes, each runs once
    Half,           \* how many LONGs are negative, 2^31
    MaxLoads,       \* bound: how often the service is started
    None            \* a NULL pointer, a free lock

ASSUME HalfAssumption == Half \in Nat \ {0}
ASSUME MaxLoadsAssumption == MaxLoads \in Nat
ASSUME ClientsAssumption == IsFiniteSet(Clients)
ASSUME NoneAssumption == None \notin Clients /\ None # 42

VARIABLES
    build,          \* which driver is installed: "basic" or "phase5"
    verifier,       \* Driver Verifier watches the driver
    machine,        \* "up", or "bugcheck" once the kernel has stopped
    loads,          \* how often the service was started, at most MaxLoads
    entry,          \* where DriverEntry is; "absent" and "loaded" around it
    stopping,       \* sc stop was called, the driver is yet to be unloaded
    objects,        \* what exists in the kernel: "device", "link", "pool"
    table,          \* the entries of the driver object that are filled in
    g_PagedValue,   \* None, or the contents of the paged block
    g_Lock,         \* the client whose thread holds the spin lock, or None
    counter,        \* the extension's Counter
    pc, mode, left, value, rc,      \* each client: see Run
    increments,     \* history: increments made since the device was created
    delivered       \* history: how often each LONG was the answer to an INCREMENT

driver == <<loads, entry, stopping, objects, table, g_PagedValue>>
clients == <<pc, mode, left, value, rc>>
history == <<increments, delivered>>
config == <<build, verifier>>
vars == <<config, machine, driver, g_Lock, counter, clients, history>>

-----------------------------------------------------------------------------
(* A signed LONG *)

LONG == -Half .. Half - 1

Wrap(n) == ((n + Half) % (2 * Half)) - Half

-----------------------------------------------------------------------------
(* DriverEntry, called by the I/O manager when the service starts *)

StartService ==
    /\ entry = "absent"
    /\ loads < MaxLoads
    /\ loads' = loads + 1
    /\ entry' = IF build = "phase5" THEN "allocate" ELSE "device"
    /\ table' = {}
    /\ g_PagedValue' = None
    /\ UNCHANGED <<stopping, objects, g_Lock, counter, history>>

AllocatePaged ==
    /\ entry = "allocate"
    /\ \/ g_PagedValue' = 42 /\ objects' = objects \cup {"pool"}
       \/ UNCHANGED <<g_PagedValue, objects>>
    /\ entry' = "device"
    /\ UNCHANGED <<loads, stopping, table, g_Lock, counter, history>>

\* The basic driver returns the status at once, phase 5 goes to fail.
Failed == IF build = "phase5" THEN "fail" ELSE "absent"

CreateDevice ==
    /\ entry = "device"
    /\ \/ /\ "device" \notin objects        \* a name is given to one object only
          /\ objects' = objects \cup {"device"}
          /\ counter' = 0
          /\ increments' = 0
          /\ delivered' = [v \in LONG |-> 0]
          /\ entry' = "link"
       \/ /\ entry' = Failed
          /\ UNCHANGED <<objects, counter, history>>
    /\ UNCHANGED <<loads, stopping, table, g_PagedValue, g_Lock>>

\* Mutant: the device created before stays when its link cannot be made.
CreateLinkOnly ==
    /\ entry = "link"
    /\ \/ /\ "link" \notin objects
          /\ objects' = objects \cup {"link"}
          /\ entry' = "table"
       \/ /\ entry' = Failed
          /\ UNCHANGED objects
    /\ UNCHANGED <<loads, stopping, table, g_PagedValue, g_Lock, counter, history>>

CreateLink ==
    /\ entry = "link"
    /\ \/ /\ "link" \notin objects
          /\ objects' = objects \cup {"link"}
          /\ entry' = "table"
       \/ /\ entry' = Failed
          /\ objects' = objects \ {"device"}
    /\ UNCHANGED <<loads, stopping, table, g_PagedValue, g_Lock, counter, history>>

\* Mutant: DriverUnload is left NULL.
FillTableButUnload ==
    /\ entry = "table"
    /\ table' = {"CREATE", "CLOSE", "DEVICE_CONTROL"}
    /\ entry' = "loaded"
    /\ UNCHANGED <<loads, stopping, objects, g_PagedValue, g_Lock, counter, history>>

FillTable ==
    /\ entry = "table"
    /\ table' = {"CREATE", "CLOSE", "DEVICE_CONTROL", "UNLOAD"}
    /\ entry' = "loaded"
    /\ UNCHANGED <<loads, stopping, objects, g_PagedValue, g_Lock, counter, history>>

\* Freeing the paged block when there is one: at fail and in TgUnload.
FreePaged(left_over) ==
    /\ objects' = IF g_PagedValue # None THEN left_over \ {"pool"} ELSE left_over
    /\ g_PagedValue' = None

Fail ==
    /\ entry = "fail"
    /\ FreePaged(objects)
    /\ entry' = "absent"
    /\ UNCHANGED <<loads, stopping, table, g_Lock, counter, history>>

DriverEntry ==
    AllocatePaged \/ CreateDevice \/ CreateLink \/ FillTable \/ Fail

-----------------------------------------------------------------------------
(* Stopping the service *)

Open == {"send", "check", "increment", "get", "crash", "paged", "acquire", "read",
         "release", "copy", "refused", "close"}

StopService ==
    /\ entry = "loaded"
    /\ ~stopping
    /\ stopping' = TRUE
    /\ UNCHANGED <<loads, entry, objects, table, g_PagedValue, g_Lock, counter, history>>

\* The I/O manager calls it when the last handle is closed.
TgUnload ==
    /\ stopping
    /\ "UNLOAD" \in table
    /\ \A c \in Clients : pc[c] \notin Open
    /\ IF build = "phase5"
       THEN FreePaged(objects \ {"link", "device"})
       ELSE objects' = objects \ {"link", "device"} /\ UNCHANGED g_PagedValue
    /\ entry' = "absent"
    /\ stopping' = FALSE
    /\ UNCHANGED <<loads, table, g_Lock, counter, history>>

-----------------------------------------------------------------------------
(* tgclient.  A client is started in a mode, opens the device, sends its     *)
(* requests and closes the handle; rc is its exit code.  The modes "short"   *)
(* and "unknown" are other programs, which send what tgclient never does.    *)

Modes == {"increment", "get", "crash", "paged", "short", "unknown"}

Goto(c, place) == pc' = [pc EXCEPT ![c] = place]

Run(c) ==
    /\ pc[c] = "new"
    /\ \E m \in Modes :
          /\ mode' = [mode EXCEPT ![c] = m]
          /\ left' = [left EXCEPT ![c] = IF m = "increment" THEN 3 ELSE 1]
    /\ Goto(c, "open")
    /\ UNCHANGED <<value, rc>>

CanOpen == entry = "loaded" /\ ~stopping /\ "link" \in objects /\ "CREATE" \in table

CreateFile(c) ==
    /\ pc[c] = "open"
    /\ \/ CanOpen /\ Goto(c, "send") /\ UNCHANGED rc
       \/ ~CanOpen /\ Goto(c, "exited") /\ rc' = [rc EXCEPT ![c] = 1]
    /\ UNCHANGED <<mode, left, value>>

\* A request sets out while the loop has any left and none has failed.
SendIoctl(c) ==
    /\ pc[c] = "send"
    /\ IF left[c] > 0 /\ rc[c] = 0
       THEN Goto(c, "check") /\ left' = [left EXCEPT ![c] = @ - 1]
       ELSE Goto(c, "close") /\ UNCHANGED left
    /\ UNCHANGED <<mode, value, rc>>

\* The client of phase 5 exits with 1 then; the basic one leaves its loop and exits with 0.
SendFailed(c) ==
    /\ pc[c] = "refused"
    /\ IF build = "phase5" THEN rc' = [rc EXCEPT ![c] = 1] /\ UNCHANGED left
                           ELSE left' = [left EXCEPT ![c] = 0] /\ UNCHANGED rc
    /\ Goto(c, "send")
    /\ UNCHANGED <<mode, value>>

CloseHandle(c) ==
    /\ pc[c] = "close"
    /\ Goto(c, "exited")
    /\ UNCHANGED <<mode, left, value, rc>>

\* A client killed in user mode: the kernel closes its handle.
Killed(c) ==
    /\ pc[c] \in {"open", "send", "close"}
    /\ Goto(c, "exited")
    /\ UNCHANGED <<mode, left, value, rc>>

Client(c) ==
    /\ CreateFile(c) \/ SendIoctl(c) \/ SendFailed(c) \/ CloseHandle(c)
    /\ UNCHANGED <<driver, g_Lock, counter, history>>

-----------------------------------------------------------------------------
(* TgDispatchDeviceControl, in the thread of client c *)

\* The requests each build knows.
KnownCodes == IF build = "phase5" THEN {"increment", "get", "crash", "paged"}
                                  ELSE {"increment", "get"}

Check(c) ==
    /\ pc[c] = "check"
    /\ Goto(c, IF mode[c] \in KnownCodes THEN mode[c] ELSE "refused")
    /\ UNCHANGED <<mode, left, value, rc, g_Lock, counter, history>>

InterlockedIncrement(c) ==
    /\ pc[c] = "increment"
    /\ counter' = Wrap(counter + 1)
    /\ value' = [value EXCEPT ![c] = counter']
    /\ increments' = increments + 1
    /\ Goto(c, "copy")
    /\ UNCHANGED <<mode, left, rc, g_Lock, delivered>>

ReadCounter(c) ==
    /\ pc[c] = "get"
    /\ value' = [value EXCEPT ![c] = counter]
    /\ Goto(c, "copy")
    /\ UNCHANGED <<mode, left, rc, g_Lock, counter, history>>

TestPaged(c) ==
    /\ pc[c] = "paged"
    /\ Goto(c, IF g_PagedValue = None THEN "refused" ELSE "acquire")
    /\ UNCHANGED <<mode, left, value, rc, g_Lock, counter, history>>

AcquireSpinLock(c) ==
    /\ pc[c] = "acquire"
    /\ g_Lock = None
    /\ g_Lock' = c
    /\ Goto(c, "read")
    /\ UNCHANGED <<mode, left, value, rc, counter, history>>

\* At DISPATCH_LEVEL: it may read only if the page is in memory, and Verifier
\* has taken it out when the lock was acquired.
ReadPaged(c) ==
    /\ pc[c] = "read"
    /\ ~verifier
    /\ value' = [value EXCEPT ![c] = g_PagedValue]
    /\ Goto(c, "release")
    /\ UNCHANGED <<mode, left, rc, g_Lock, counter, history>>

\* Mutant: the lock is not released.
ReleaseNothing(c) ==
    /\ pc[c] = "release"
    /\ Goto(c, "copy")
    /\ UNCHANGED <<mode, left, value, rc, g_Lock, counter, history>>

ReleaseSpinLock(c) ==
    /\ pc[c] = "release"
    /\ g_Lock' = None
    /\ Goto(c, "copy")
    /\ UNCHANGED <<mode, left, value, rc, counter, history>>

\* Mutant: the buffer is filled from the counter, not from the local value.
CopyCounter(c) ==
    /\ pc[c] = "copy"
    /\ delivered' = IF mode[c] = "increment"
                    THEN [delivered EXCEPT ![counter] = @ + 1] ELSE delivered
    /\ Goto(c, "send")
    /\ UNCHANGED <<mode, left, value, rc, g_Lock, counter, increments>>

\* The value goes to the system buffer and CompleteIrp ends the request.
Copy(c) ==
    /\ pc[c] = "copy"
    /\ delivered' = IF mode[c] = "increment"
                    THEN [delivered EXCEPT ![value[c]] = @ + 1] ELSE delivered
    /\ Goto(c, "send")
    /\ UNCHANGED <<mode, left, value, rc, g_Lock, counter, increments>>

TgDispatchDeviceControl(c) ==
    /\ \/ Check(c) \/ InterlockedIncrement(c) \/ ReadCounter(c) \/ TestPaged(c)
       \/ AcquireSpinLock(c) \/ ReadPaged(c) \/ ReleaseSpinLock(c) \/ Copy(c)
    /\ UNCHANGED driver

\* The write through NULL, and the page fault that comes at DISPATCH_LEVEL.
Bugcheck(c) ==
    /\ pc[c] \in {"crash", "read"}
    /\ machine' = "bugcheck"
    /\ UNCHANGED <<config, driver, g_Lock, counter, clients, history>>

-----------------------------------------------------------------------------

Init ==
    /\ build \in {"basic", "phase5"}
    /\ verifier \in BOOLEAN
    /\ machine = "up"
    /\ loads = 0 /\ entry = "absent" /\ stopping = FALSE
    /\ objects = {} /\ table = {}
    /\ g_PagedValue = None /\ g_Lock = None
    /\ counter = 0
    /\ pc = [c \in Clients |-> "new"]
    /\ mode = [c \in Clients |-> "increment"]
    /\ left = [c \in Clients |-> 0]
    /\ value = [c \in Clients |-> 0]
    /\ rc = [c \in Clients |-> 0]
    /\ increments = 0
    /\ delivered = [v \in LONG |-> 0]

Service == /\ StartService \/ DriverEntry \/ StopService \/ TgUnload
           /\ UNCHANGED clients

Start(c) == (Run(c) \/ Killed(c)) /\ UNCHANGED <<driver, g_Lock, counter, history>>

Running(action) == machine = "up" /\ action /\ UNCHANGED <<config, machine>>

Next ==
    \/ Running(Service)
    \/ \E c \in Clients :
          \/ Running(Start(c))
          \/ Running(Client(c))
          \/ Running(TgDispatchDeviceControl(c))
          \/ machine = "up" /\ Bugcheck(c)

Spec == Init /\ [][Next]_vars

\* The kernel runs DriverEntry and TgUnload to their end and schedules every
\* client thread.  Nobody has to start or stop the service or run a client.
Fairness ==
    /\ WF_vars(Running((DriverEntry \/ TgUnload) /\ UNCHANGED clients))
    /\ \A c \in Clients :
          WF_vars(\/ Running(Client(c))
                  \/ Running(TgDispatchDeviceControl(c))
                  \/ machine = "up" /\ Bugcheck(c))

FairSpec == Spec /\ Fairness

-----------------------------------------------------------------------------
(* Properties *)

Inside == {"check", "increment", "get", "crash", "paged", "acquire", "read", "release", "copy"}

\* A start that failed, at whichever of its calls, and an unload leave nothing
\* behind: no device, no link, no pool block (DriverEntry's returns and fail
\* label, TgUnload).
NothingIsLeftBehind == entry = "absent" => objects = {}

\* Of the first n increments, those that give v.
Expected(v, n) == Cardinality({i \in 1..n : Wrap(i) = v})

InFlight(v) ==
    Cardinality({c \in Clients : pc[c] = "copy" /\ mode[c] = "increment" /\ value[c] = v})

\* Every increment is the answer of exactly one INCREMENT request: no answer is
\* given twice and none is skipped, whichever way the requests interleave, until
\* the LONG wraps; and from there on the same holds round after round.
EveryIncrementIsAnsweredOnce ==
    \A v \in LONG : delivered[v] + InFlight(v) = Expected(v, increments)

\* A request that has entered the driver returns to its client, with a value or
\* with an error, unless it stops the machine.
RequestsReturn ==
    \A c \in Clients : pc[c] \in Inside ~> (pc[c] \notin Inside \/ machine = "bugcheck")

\* sc stop unloads the driver, however many clients have it open at that time.
StopUnloads == stopping ~> (entry = "absent" \/ machine = "bugcheck")
=============================================================================
