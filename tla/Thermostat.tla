------------------------------ MODULE Thermostat ------------------------------
(* The thermostat firmware of the emulation lecture and inject.py, which plays its   *)
(* sensor and its button.  The firmware is a loop of three steps; the UART and the   *)
(* pin may change between any two of them.  A sensor line is two symbols on the      *)
(* wire, "temp=N" and the newline.                                                   *)
EXTENDS Integers, Sequences, Functions

CONSTANT THRESHOLD

VARIABLES
    board,   \* the firmware: its program counter and local variables
    rx,      \* UART0: symbols not read yet
    pin,     \* GPIOA pin 0
    log,     \* what the firmware sent and the script has not consumed
    step,    \* the entry of steps the script is at, 0 while it waits for the boot
    acted    \* has the script done that entry's action?

thermostatVars == <<board, rx, pin, log, step, acted>>

Sensor(n)  == [act |-> "sensor", arg |-> n]
Button(on) == [act |-> "button", arg |-> on]
Temp(n)    == <<"temp: ", n>>
Line(n)    == <<"temp=", n>>
Newline    == <<"newline">>

\* The script: what it does and what it then waits for.
steps == <<
    [do |-> Sensor(20),    want |-> Temp(20)],
    [do |-> Sensor(57),    want |-> <<"FAN ON">>],
    [do |-> Sensor(45),    want |-> <<"FAN OFF">>],
    [do |-> Button(TRUE),  want |-> <<"FAN ON">>],
    [do |-> Sensor(-5),    want |-> Temp(-5)],
    [do |-> Button(FALSE), want |-> <<"FAN OFF">>] >>

Want == IF step = 0 THEN <<"thermostat: boot">> ELSE steps[step].want

ThermostatInit ==
    /\ board = [at |-> "boot", line |-> <<>>, temp |-> 0, fan |-> FALSE,
                button |-> FALSE, last_button |-> FALSE]
    /\ rx = <<>> /\ pin = FALSE /\ log = <<>>
    /\ step = 0 /\ acted = TRUE

-------------------------------------------------------------------------------
(* main.c *)

Boot ==
    /\ board.at = "boot"
    /\ board' = [board EXCEPT !.at = "button", !.button = pin, !.last_button = pin]
    /\ log' = Append(log, <<"thermostat: boot">>)
    /\ UNCHANGED <<rx, pin, step, acted>>

\* 1. button input
ReadButton ==
    /\ board.at = "button"
    /\ board' = [board EXCEPT !.at = "sensor", !.button = pin, !.last_button = pin]
    /\ log' = IF pin = board.last_button THEN log
              ELSE Append(log, IF pin THEN <<"button: pressed">> ELSE <<"button: released">>)
    /\ UNCHANGED <<rx, pin, step, acted>>

\* 2. sensor input: a byte is kept until the line ends, and then parsed.
ReadByte ==
    /\ board.at = "sensor"
    /\ IF rx = <<>>
         THEN board' = [board EXCEPT !.at = "decide"] /\ UNCHANGED <<rx, log>>
         ELSE /\ rx' = Tail(rx)
              /\ IF Head(rx) # Newline
                   THEN /\ board' = [board EXCEPT !.at = "decide", !.line = Append(@, Head(rx))]
                        /\ UNCHANGED log
                   ELSE /\ board' = [board EXCEPT !.at = "decide", !.line = <<>>,
                                                  !.temp = board.line[1][2]]
                        /\ log' = Append(log, Temp(board.line[1][2]))
    /\ UNCHANGED <<pin, step, acted>>

\* Mutant of fan_should_run: the fan never stops once it runs.
fan_keeps_running(temp, override_pressed) == override_pressed \/ temp > THRESHOLD \/ board.fan

fan_should_run(temp, override_pressed) == override_pressed \/ temp > THRESHOLD

\* 3. decide and report changes
Decide ==
    LET want == fan_should_run(board.temp, board.button) IN
    /\ board.at = "decide"
    /\ board' = [board EXCEPT !.at = "button", !.fan = want]
    /\ log' = IF want = board.fan THEN log
              ELSE Append(log, IF want THEN <<"FAN ON">> ELSE <<"FAN OFF">>)
    /\ UNCHANGED <<rx, pin, step, acted>>

FirmwareStep == Boot \/ ReadButton \/ ReadByte \/ Decide

-------------------------------------------------------------------------------
(* inject.py *)

\* Board.sensor and Board.button
Act ==
    /\ ~acted
    /\ LET do == steps[step].do IN
         IF do.act = "sensor"
           THEN rx' = rx \o <<Line(do.arg), Newline>> /\ UNCHANGED pin
           ELSE pin' = do.arg /\ UNCHANGED rx
    /\ acted' = TRUE
    /\ UNCHANGED <<board, log, step>>

\* Board.expect: the log is consumed up to the first match.
Expect ==
    /\ acted
    /\ step <= Len(steps)
    /\ \E found \in 1..Len(log) :
          /\ log[found] = Want /\ \A i \in 1..found - 1 : log[i] # Want
          /\ log' = SubSeq(log, found + 1, Len(log))
    /\ step' = step + 1
    /\ acted' = (step = Len(steps))
    /\ UNCHANGED <<board, rx, pin>>

ThermostatNext == FirmwareStep \/ Act \/ Expect

-------------------------------------------------------------------------------

\* Before the script acts, what it will wait for is not in the log already: no test
\* step passes on the effects of an earlier one, wherever the firmware's loop stands.
StepsAreTheirOwn == ~acted => Want \notin Range(log)

\* Every expectation of the script is met.
ScriptPasses == <>(step > Len(steps))

===============================================================================
