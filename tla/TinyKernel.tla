------------------------------ MODULE TinyKernel ------------------------------
(* The RISC-V kernel of the emulation lecture on hart 0: one system call, then three *)
(* timer interrupts, then power off.  The timer may expire between any two           *)
(* instructions; a wfi that is reached with nothing pending sleeps until it does.    *)
EXTENDS Naturals

CONSTANT Ticks  \* interrupts kmain waits for, 3 in the code

VARIABLES
    at,       \* the next instruction of kmain, or "asleep" in wfi
    mepc,     \* where mret goes back to
    cause,    \* why the trap handler runs, "none" when it does not
    handled,  \* has trap_handler returned to trap_entry?
    ticks,    \* the counter
    armed,    \* is MTIMECMP ahead of MTIME?
    pending,  \* the timer interrupt
    enabled,  \* MTIE and MIE
    stepped   \* has kmain executed an instruction since the timer was armed?

kernelVars == <<at, mepc, cause, handled, ticks, armed, pending, enabled, stepped>>

KernelInit ==
    /\ at = "mtvec" /\ mepc = "mtvec"
    /\ cause = "none" /\ handled = FALSE
    /\ ticks = 0
    /\ armed = FALSE /\ pending = FALSE /\ enabled = FALSE
    /\ stepped = TRUE

\* The instruction after the one at a.
After(a) ==
    CASE a = "mtvec"   -> "ecall"
      [] a = "ecall"   -> "arm"
      [] a = "arm"     -> "enable"
      [] a = "enable"  -> "check"
      [] a = "wfi"     -> "check"
      [] a = "asleep"  -> "check"
      [] a = "disable" -> "off"

\* The hart executes the instruction at a: an enabled interrupt that is pending would
\* come first.
Executes(a) ==
    /\ at = a
    /\ cause = "none"
    /\ ~(pending /\ enabled)
    /\ stepped' = TRUE

SetVector ==
    /\ Executes("mtvec")
    /\ at' = After(at)
    /\ UNCHANGED <<mepc, cause, handled, ticks, armed, pending, enabled>>

Ecall ==
    /\ Executes("ecall")
    /\ cause' = "ecall"
    /\ mepc' = at
    /\ UNCHANGED <<at, handled, ticks, armed, pending, enabled>>

Arm ==
    /\ Executes("arm")
    /\ armed' = TRUE
    /\ at' = After(at)
    /\ UNCHANGED <<mepc, cause, handled, ticks, pending, enabled>>

Enable ==
    /\ Executes("enable")
    /\ enabled' = TRUE
    /\ at' = After(at)
    /\ UNCHANGED <<mepc, cause, handled, ticks, armed, pending>>

\* while (ticks < 3)
Check ==
    /\ Executes("check")
    /\ at' = IF ticks < Ticks THEN "wfi" ELSE "disable"
    /\ UNCHANGED <<mepc, cause, handled, ticks, armed, pending, enabled>>

Wfi ==
    /\ Executes("wfi")
    /\ at' = "asleep"
    /\ UNCHANGED <<mepc, cause, handled, ticks, armed, pending, enabled>>

Disable ==
    /\ Executes("disable")
    /\ enabled' = FALSE
    /\ at' = After(at)
    /\ UNCHANGED <<mepc, cause, handled, ticks, armed, pending>>

\* MTIME reaches MTIMECMP, half a second after the timer was armed.
Expire ==
    /\ armed
    /\ stepped
    /\ pending' = TRUE
    /\ armed' = FALSE
    /\ UNCHANGED <<at, mepc, cause, handled, ticks, enabled, stepped>>

\* The interrupt is taken before the next instruction, or ends the sleep.
Interrupt ==
    /\ pending /\ enabled
    /\ cause = "none"
    /\ at # "off"
    /\ cause' = "timer"
    /\ mepc' = IF at = "asleep" THEN After(at) ELSE at
    /\ UNCHANGED <<at, handled, ticks, armed, pending, enabled, stepped>>

\* Mutant of HandleTimer: the last tick does not arm the timer again.
HandleTimerUntilLast ==
    /\ cause = "timer" /\ ~handled
    /\ ticks' = ticks + 1
    /\ pending' = FALSE
    /\ armed' = (ticks + 1 < Ticks)
    /\ stepped' = FALSE
    /\ handled' = TRUE
    /\ UNCHANGED <<at, mepc, cause, enabled>>

\* trap_handler counts the tick and moves MTIMECMP on, which clears the interrupt...
HandleTimer ==
    /\ cause = "timer" /\ ~handled
    /\ ticks' = ticks + 1
    /\ pending' = FALSE
    /\ armed' = TRUE
    /\ stepped' = FALSE
    /\ handled' = TRUE
    /\ UNCHANGED <<at, mepc, cause, enabled>>

\* ...and skips the ecall instruction.
HandleEcall ==
    /\ cause = "ecall" /\ ~handled
    /\ mepc' = After(mepc)
    /\ handled' = TRUE
    /\ UNCHANGED <<at, cause, ticks, armed, pending, enabled, stepped>>

\* trap_entry restores the registers and executes mret.
Mret ==
    /\ handled
    /\ at' = mepc
    /\ cause' = "none"
    /\ handled' = FALSE
    /\ UNCHANGED <<mepc, ticks, armed, pending, enabled, stepped>>

HartStep ==
    \/ SetVector \/ Ecall \/ Arm \/ Enable \/ Check \/ Wfi \/ Disable
    \/ Interrupt \/ HandleTimer \/ HandleEcall \/ Mret

KernelNext == HartStep \/ Expire

-------------------------------------------------------------------------------

\* The kernel powers off, even if the last tick comes between the test of ticks and
\* the wfi, which then waits for one more.
KernelPowersOff == <>(at = "off")

===============================================================================
