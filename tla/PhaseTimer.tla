------------------------------ MODULE PhaseTimer ------------------------------
(* run_timer of practice.py: the phases of a session one after another, each waited   *)
(* for in short sleeps, with Ctrl-C at any point.  Times are counted in 45ths of the   *)
(* session, so that scaled(m, total_minutes) is m.                                     *)
EXTENDS Integers, Sequences, Functions

CONSTANTS
    MaxSleep,  \* the second a sleep may last
    MaxDelay   \* bound: time that passes elsewhere than in the sleeps

TimerAssumption == MaxSleep \in Nat \ {0} /\ MaxDelay \in Nat

VARIABLES
    phases,     \* the minutes of the phases of the case's family
    at,         \* the part of run_timer that comes next
    now,        \* time.monotonic() - start
    reached,    \* number of the phase reached, 0 at first
    phase_end,
    log,        \* the lines of the log but the first: what, of which phase, at which time
    delayed     \* history: the time that passed elsewhere than in the sleeps

timerVars == <<phases, at, now, reached, phase_end, log, delayed>>

SKELETON  == <<5, 5, 3, 5, 10, 10, 5, 2>>
LOW_LEVEL == <<5, 5, 8, 7, 10, 5, 3, 2>>
CODING    == <<5, 5, 5, 18, 7, 3, 2>>
PHASES    == [A |-> SKELETON, B |-> SKELETON, C |-> LOW_LEVEL, D |-> SKELETON, E |-> CODING]

TimerInit ==
    /\ phases \in {PHASES[family] : family \in DOMAIN PHASES}
    /\ at = "for" /\ now = 0 /\ reached = 0 /\ phase_end = 0 /\ log = <<>> /\ delayed = 0

Line(what) == log' = Append(log, [what |-> what, phase |-> reached, at |-> now])

\* The for loop: the next phase, or the end of the session.
NextPhase ==
    /\ at = "for"
    /\ IF reached < Len(phases)
       THEN reached' = reached + 1 /\ at' = "enter" /\ UNCHANGED log
       ELSE Line("finished") /\ at' = "finished" /\ UNCHANGED reached
    /\ UNCHANGED <<phases, now, phase_end, delayed>>

EnterPhase ==
    /\ at = "enter"
    /\ Line("entered") /\ at' = "start clock"
    /\ UNCHANGED <<phases, now, reached, phase_end, delayed>>

StartClock ==
    /\ at = "start clock"
    /\ phase_end' = now + phases[reached] /\ at' = "while"
    /\ UNCHANGED <<phases, now, reached, log, delayed>>

left == phase_end - now

\* The while loop: a sleep, or the end of the phase.  Sleeps last no less than they are told.
Countdown ==
    /\ at = "while"
    /\ IF left <= 0
       THEN at' = "for" /\ UNCHANGED now
       ELSE now' = now + (IF left < MaxSleep THEN left ELSE MaxSleep) /\ UNCHANGED at
    /\ UNCHANGED <<phases, reached, phase_end, log, delayed>>

InTry == at \in {"for", "enter", "start clock", "while", "finished"}

\* KeyboardInterrupt, caught wherever it comes in the try.
Interrupt ==
    /\ InTry
    /\ Line("stopped") /\ at' = "write log"
    /\ UNCHANGED <<phases, now, reached, phase_end, delayed>>

WriteLog ==
    /\ at \in {"finished", "write log"} /\ at' = "over"
    /\ UNCHANGED <<phases, now, reached, phase_end, log, delayed>>

\* Printing, and a process that gets the processor late.
Delay ==
    /\ InTry /\ delayed < MaxDelay
    /\ now' = now + 1 /\ delayed' = delayed + 1
    /\ UNCHANGED <<phases, at, reached, phase_end, log>>

TimerStep == NextPhase \/ EnterPhase \/ StartClock \/ Countdown \/ WriteLog
TimerNext == TimerStep \/ Interrupt \/ Delay

-------------------------------------------------------------------------------

Planned(k) == SumFunction(SubSeq(phases, 1, k - 1))

\* The log names the phases in their order, none entered before its time and none later
\* than the time that was lost elsewhere, though each phase starts where the one before
\* happened to end; the session ends at 45 minutes of 45 for every family; and what was
\* stopped names the phase whose time it was.
LogKeepsPlan ==
    \A k \in DOMAIN log :
        LET line == log[k]  kept(at_phase) == line.at - Planned(at_phase) \in 0..delayed IN
        CASE line.what = "entered"  -> line.phase = k /\ kept(k)
          [] line.what = "finished" -> k = Len(phases) + 1 /\ Planned(k) = 45 /\ kept(k)
          [] line.what = "stopped"  ->
                /\ k = Len(log) /\ k - line.phase \in 0..2
                /\ line.phase > 0 => line.at >= Planned(line.phase)
                /\ line.at <= Planned(line.phase + 1) + delayed

\* The session is over some time, whether it is stopped or not.
TimerEnds == <>(at = "over")

===============================================================================
