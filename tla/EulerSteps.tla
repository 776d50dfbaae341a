------------------------------ MODULE EulerSteps ------------------------------
(* Part 5 of verify_concepts.py: a capacitor that charges through a resistor, by steps  *)
(* of backward and of forward Euler, in exact fractions.                                 *)
EXTENDS Integers

CONSTANTS
    V,       \* volts of the source
    Ratios,  \* h / tau, as <<p, q>>
    Span,    \* the while loop runs to Span * tau
    MaxSteps \* bound: steps

ASSUME EulerAssumption ==
    /\ V \in Nat \ {0} /\ Ratios \subseteq (Nat \ {0}) \X (Nat \ {0})
    /\ {Span, MaxSteps} \subseteq Nat

VARIABLES
    ratio,
    vb, vf,  \* fractions [num, den]: the voltage by backward and by forward Euler
    steps    \* t = steps * h

eulerVars == <<ratio, vb, vf, steps>>

EulerInit ==
    /\ ratio \in Ratios
    /\ vb = [num |-> 0, den |-> 1] /\ vf = vb
    /\ steps = 0

Charging(span) == steps * ratio[1] < span * ratio[2]

\* Mutant of backward: the conductance of R is left out of the denominator.
backwardWithoutR(v, p, q) == [num |-> v.num * q + p * V * v.den, den |-> v.den * q]

\* (v / h + V / (R * C)) / (1 / h + 1 / (R * C))
backward(v, p, q) == [num |-> v.num * q + p * V * v.den, den |-> v.den * (q + p)]

\* v + h * (V - v) / (R * C)
forward(v, p, q) == [num |-> v.num * q + p * (V * v.den - v.num), den |-> v.den * q]

EulerNext ==
    /\ Charging(Span) /\ steps < MaxSteps
    /\ vb' = backward(vb, ratio[1], ratio[2])
    /\ vf' = forward(vf, ratio[1], ratio[2])
    /\ steps' = steps + 1
    /\ UNCHANGED ratio

EulerSpec == EulerInit /\ [][EulerNext]_eulerVars

-------------------------------------------------------------------------------

Volts(v, k) == v.num = k * v.den

power(base, m) ==
    LET raised[k \in 0..m] == IF k = 0 THEN 1 ELSE base * raised[k - 1] IN raised[m]

WithinTwice(v) == 0 <= v.num /\ v.num <= 2 * V * v.den

\* Backward Euler stays below the source whatever the step, closer with each one; forward
\* Euler stays within twice the source for steps of up to 2 tau and leaves that range at
\* once with longer ones, is there at once with a step of tau, and "EXPLODES to -75 V in a
\* 5 V circuit" at 3 tau (part_5_integration).
StepsAreStable ==
    /\ 0 <= vb.num /\ vb.num < V * vb.den
    /\ (V * vb.den - vb.num) = V * power(ratio[2], steps)
    /\ ratio[1] <= 2 * ratio[2] => WithinTwice(vf)
    /\ ratio[1] > 2 * ratio[2] /\ steps > 0 => ~WithinTwice(vf)
    /\ ratio[1] = ratio[2] /\ steps > 0 => Volts(vf, V)
    /\ V = 5 /\ Span = 10 /\ ratio = <<3, 1>> /\ ~Charging(Span) => Volts(vf, -75)

===============================================================================
