------------------------------ MODULE AtomicFleet ------------------------------
(* What IDeviceRepository promises (Showcase.Core/Abstractions.cs), with no     *)
(* files and no lock in sight: a fleet that several processes read and change   *)
(* through calls, each of which takes effect at one instant between the moment  *)
(* it is made and the moment it returns, or not at all.                         *)
(*                                                                              *)
(* A fleet is abstracted to how often each device was changed: RestartCount in  *)
(* DeviceCommandService.Restart is such a number.                               *)
EXTENDS Naturals

CONSTANTS
    Proc,        \* the processes that open the data directory
    Device,      \* the ids of the devices in the fleet
    UnknownId,   \* an id no device has
    GetAll,      \* the request of a caller that only reads
    NoFleet,     \* nothing was ever read or written
    NoAnswer,    \* a call that has not come to its end
    Failed       \* a call that ended in an exception

VARIABLES
    fleet,    \* the current fleet
    state,    \* state[p]: is p outside a call, in one, or at its end?
    request,  \* request[p]: what p asks for in the call it is in
    answer    \* answer[p]: what the call is about to return

vars == <<fleet, state, request, answer>>

Request == Device \cup {UnknownId, GetAll}
Fleet   == [Device -> Nat]

\* DeviceSeed.Create: every device is there, and none was changed yet.
Seed == [d \in Device |-> 0]

Init ==
    /\ fleet = NoFleet
    /\ state = [p \in Proc |-> "outside"]
    /\ request = [p \in Proc |-> GetAll]
    /\ answer = [p \in Proc |-> NoAnswer]

Invoke(p, r) ==
    /\ state[p] = "outside"
    /\ state' = [state EXCEPT ![p] = "pending"]
    /\ request' = [request EXCEPT ![p] = r]
    /\ UNCHANGED <<fleet, answer>>

\* The call of p comes to its end with answer a.
Answer(p, a) ==
    /\ state[p] = "pending"
    /\ state' = [state EXCEPT ![p] = "done"]
    /\ answer' = [answer EXCEPT ![p] = a]
    /\ UNCHANGED request

\* A call that meets no fleet plants the seed before anything else.
Plant(p) ==
    /\ state[p] = "pending"
    /\ fleet = NoFleet
    /\ fleet' = Seed
    /\ UNCHANGED <<state, request, answer>>

\* GetAll() returns the current fleet, the seed if there is none.
Read(p) ==
    /\ request[p] = GetAll
    /\ fleet' = IF fleet = NoFleet THEN Seed ELSE fleet
    /\ Answer(p, fleet')

\* Update() applies its whole change to the current fleet and returns it.
Change(p) ==
    /\ request[p] \in Device
    /\ fleet # NoFleet
    /\ fleet' = [fleet EXCEPT ![request[p]] = @ + 1]
    /\ Answer(p, fleet')

\* A call that throws under the lock changes nothing.
Fail(p) ==
    /\ Answer(p, Failed)
    /\ UNCHANGED fleet

\* The caller is outside again: the call returned, timed out before it took
\* effect, or its process died.
Leave(p) ==
    /\ state[p] # "outside"
    /\ state' = [state EXCEPT ![p] = "outside"]
    /\ request' = [request EXCEPT ![p] = GetAll]
    /\ answer' = [answer EXCEPT ![p] = NoAnswer]
    /\ UNCHANGED fleet

\* The user deletes the data directory while nobody is in a call.
Wipe ==
    /\ \A p \in Proc : state[p] = "outside"
    /\ fleet' = NoFleet
    /\ UNCHANGED <<state, request, answer>>

Next ==
    \/ \E p \in Proc :
        \/ \E r \in Request : Invoke(p, r)
        \/ Plant(p) \/ Read(p) \/ Change(p) \/ Fail(p) \/ Leave(p)
    \/ Wipe

Spec == Init /\ [][Next]_vars
===============================================================================
