------------------------------ MODULE WatchDevice ------------------------------
(* Watch-ShowcaseDevice: ProcessRecord on the pipeline thread, StopProcessing on that   *)
(* of the user who presses Ctrl+C, and a command downstream that may have enough.        *)
EXTENDS Integers

CONSTANTS
    MaxDevices,  \* devices GetAll returns whose id matches
    MaxCount     \* -Count and Select-Object -First are 0 (none) .. MaxCount

WatchAssumption == {MaxDevices, MaxCount} \subseteq Nat

VARIABLES
    Count,
    first,      \* First of a Select-Object downstream, 0 if there is none
    at,         \* the next step of ProcessRecord
    left,       \* devices of the foreach that are still to come
    written,    \* samples passed on, counted up to MaxCount
    stopping,   \* the pipeline stops: WriteObject throws
    cancelled,  \* _stop
    disposed,
    outcome     \* why ProcessRecord ended

watchVars == <<Count, first, at, left, written, stopping, cancelled, disposed, outcome>>

WatchInit ==
    /\ Count \in 0..MaxCount /\ first \in 0..MaxCount
    /\ at = "while" /\ left = 0 /\ written = 0
    /\ stopping = FALSE /\ cancelled = FALSE /\ disposed = FALSE /\ outcome = "none"

End(why) == at' = "ended" /\ outcome' = why

Test ==
    /\ at = "while"
    /\ IF cancelled THEN End("cancelled") ELSE at' = "GetAll" /\ UNCHANGED outcome
    /\ UNCHANGED <<Count, first, left, written, stopping, cancelled, disposed>>

\* One read of the file (DeviceRepository); it fails on a file that cannot be read.
GetAll ==
    /\ at = "GetAll"
    /\ \/ at' = "foreach" /\ left' \in 0..MaxDevices /\ UNCHANGED outcome
       \/ End("error") /\ UNCHANGED left
    /\ UNCHANGED <<Count, first, written, stopping, cancelled, disposed>>

Enough(limit, count) == limit > 0 /\ count >= limit

\* WriteObject, which throws if the pipeline stops or Select-Object has its First, and
\* the test of Count.
WriteSample ==
    /\ at = "foreach" /\ left > 0
    /\ IF stopping THEN End("stopped") /\ UNCHANGED <<left, written>>
       ELSE /\ left' = left - 1
            /\ written' = IF written < MaxCount THEN written + 1 ELSE written
            /\ \/ Enough(first, written + 1) /\ End("first")
               \/ ~Enough(first, written + 1) /\ Enough(Count, written + 1) /\ End("count")
               \/ /\ ~Enough(first, written + 1) /\ ~Enough(Count, written + 1)
                  /\ UNCHANGED <<at, outcome>>
    /\ UNCHANGED <<Count, first, stopping, cancelled, disposed>>

EndForeach ==
    /\ at = "foreach" /\ left = 0
    /\ at' = "WaitOne"
    /\ UNCHANGED <<Count, first, left, written, stopping, cancelled, disposed, outcome>>

\* WaitOne ends when _stop is cancelled, or after the interval.
Wake ==
    /\ at = "WaitOne" /\ cancelled /\ at' = "while"
    /\ UNCHANGED <<Count, first, left, written, stopping, cancelled, disposed, outcome>>

Interval ==
    /\ at = "WaitOne" /\ at' = "while"
    /\ UNCHANGED <<Count, first, left, written, stopping, cancelled, disposed, outcome>>

CtrlC ==
    /\ ~stopping /\ ~disposed
    /\ stopping' = TRUE
    /\ UNCHANGED <<Count, first, at, left, written, cancelled, disposed, outcome>>

\* Throws ObjectDisposedException, and changes nothing, if Dispose was first.
StopProcessing ==
    /\ stopping /\ ~disposed /\ ~cancelled
    /\ cancelled' = TRUE
    /\ UNCHANGED <<Count, first, at, left, written, stopping, disposed, outcome>>

Dispose ==
    /\ at = "ended" /\ ~disposed
    /\ disposed' = TRUE
    /\ UNCHANGED <<Count, first, at, left, written, stopping, cancelled, outcome>>

PipelineStep == Test \/ GetAll \/ WriteSample \/ EndForeach \/ Wake \/ Dispose
WatchNext    == PipelineStep \/ Interval \/ CtrlC \/ StopProcessing

-------------------------------------------------------------------------------

\* No sample too many: neither more than Count nor more than the command downstream asked
\* for; and who was not stopped and met no error has exactly the fewer of them.
Limits == {n \in {Count, first} : n > 0}

SamplesAreCounted ==
    /\ \A n \in Limits : written <= n
    /\ outcome \in {"first", "count"} => \E n \in Limits : written = n /\ \A k \in Limits : n <= k
    /\ outcome \in {"cancelled", "stopped"} => stopping
    /\ outcome = "cancelled" => \A n \in Limits : written < n

\* Ctrl+C ends the command without waiting for the interval to pass, wherever it comes.
CtrlCEnds == stopping ~> disposed

===============================================================================
