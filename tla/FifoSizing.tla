------------------------------ MODULE FifoSizing ------------------------------
(* 014_fifo_sizing: how full does a device's FIFO get when the host starts to read  *)
(* late?  The simulation of peak_occupancy, one turn of its loop per step, from any *)
(* burst and timing.                                                                *)
EXTENDS Integers, FiniteSets, FiniteSetsExt

CONSTANTS
    MaxBurst,    \* bound: bytes in a burst
    MaxPeriod,   \* bound: times between two bytes written, or two read
    MaxLatency   \* bound: time until the host first reads

FifoAssumption == {MaxBurst, MaxLatency} \subseteq Nat /\ MaxPeriod \in Nat \ {0}

VARIABLES
    burst, t_in, t_out, latency,      \* the arguments
    a, occupancy, peak, next_read     \* the locals of peak_occupancy

arguments == <<burst, t_in, t_out, latency>>
fifoVars  == <<arguments, a, occupancy, peak, next_read>>

\* When byte i of the burst, counted from 0, lands.
arrivals(i) == i * t_in

FifoInit ==
    /\ burst \in 0..MaxBurst /\ latency \in 0..MaxLatency
    /\ t_in \in 1..MaxPeriod /\ t_out \in 1..MaxPeriod
    /\ a = 0 /\ occupancy = 0 /\ peak = 0
    /\ next_read = latency

\* Mutant of ArrivesNext: at a tie the host reads first.
ReadWinsTie == a < burst /\ (arrivals(a) < next_read \/ occupancy = 0)

\* The byte to come is there before the next read, or there is nothing to read.
ArrivesNext == a < burst /\ (arrivals(a) <= next_read \/ occupancy = 0)

Arrive ==
    /\ ArrivesNext
    /\ a' = a + 1
    /\ occupancy' = occupancy + 1
    /\ peak' = IF occupancy' > peak THEN occupancy' ELSE peak
    \* An idle host reads as soon as data exists.
    /\ next_read' = IF occupancy' = 1 /\ next_read < arrivals(a) THEN arrivals(a) ELSE next_read
    /\ UNCHANGED arguments

ReadByte ==
    /\ ~ArrivesNext
    /\ occupancy > 0
    /\ occupancy' = occupancy - 1
    /\ next_read' = next_read + t_out
    /\ UNCHANGED <<arguments, a, peak>>

FifoNext == Arrive \/ ReadByte

\* Bytes that arrive before the first read, then net growth while draining (if any).
closed_form ==
    LET early  == latency \div t_in + 1
        before == IF burst < early THEN burst ELSE early
        rest   == burst - before
    IN  IF t_out <= t_in THEN before ELSE before + rest - (rest * t_in) \div t_out

-------------------------------------------------------------------------------

\* When byte i is read: t_out after the one before it, or when it lands if that is later.
\* Unrolled, that is the latest of these times.
ReadAt(i) == Max({latency + i * t_out} \cup {arrivals(m) + (i - m) * t_out : m \in 0..i})

\* Bytes that are in the FIFO when byte i has landed.
Waiting(i) == Cardinality({m \in 0..i : ReadAt(m) >= arrivals(i)})

\* For every burst and timing the simulation ends with the true peak, a host that was idle
\* and bytes that land as others are read included, and the formula beside it is that peak
\* or one byte above it (peak_occupancy, closed_form; "it matches the simulation within
\* one byte", 014-device_to_app_data_path.md:355).
PeaksAreExact ==
    (a = burst /\ occupancy = 0) =>
        /\ peak = Max({0} \cup {Waiting(i) : i \in 0..burst - 1})
        /\ closed_form - peak \in {0, 1}

===============================================================================
