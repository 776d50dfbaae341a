---------------------------- MODULE MeetingBounds ----------------------------
(***************************************************************************)
(* Two practice solutions that narrow bounds: generateMatrix writes a      *)
(* spiral between four borders that move towards each other, and carFleet  *)
(* compares each car, from the front, with the latest arrival so far.      *)
(***************************************************************************)
EXTENDS Integers, FiniteSets, FiniteSetsExt, Functions

CONSTANTS
    MaxSide,              \* bound: rows of a matrix
    Places, Speeds,       \* of the cars
    target,
    MaxCars               \* bound: cars

ASSUME BoundsAssumption ==
    /\ Places \subseteq Int /\ Speeds \subseteq Nat \ {0}
    /\ target \in Int /\ \A p \in Places : p < target

VARIABLES
    side,                 \* n of generateMatrix
    matrix, number,
    left, right, top, bottom,
    walk,                 \* the border the next walk goes along
    position, speed,      \* of each car
    sort_array,           \* the cars by position, without their positions
    times,
    car,                  \* i + 1 of the last loop
    current_arrival, fleets

spiralVars == <<side, matrix, number, left, right, top, bottom, walk>>
fleetVars  == <<position, speed, sort_array, times, car, current_arrival, fleets>>

-----------------------------------------------------------------------------
(* generateMatrix *)

SpiralInit ==
    /\ side \in 0..MaxSide
    /\ matrix = [c \in (0..side - 1) \X (0..side - 1) |-> -1]
    /\ number = 1
    /\ left = 0 /\ top = 0 /\ right = side - 1 /\ bottom = side - 1
    /\ walk = "top"

Between(a, b) == IF a <= b THEN b - a ELSE a - b

\* A run of numbers is written into cells, as many steps from the corner.
Write(rows, cols, from) ==
    /\ matrix' = [c \in DOMAIN matrix |->
                     IF c[1] \in rows /\ c[2] \in cols
                     THEN number + Between(from[1], c[1]) + Between(from[2], c[2])
                     ELSE matrix[c]]
    /\ number' = number + Cardinality(rows) * Cardinality(cols)

AlongTop ==
    /\ walk = "top" /\ number <= side * side
    /\ Write({top}, left..right, <<top, left>>)
    /\ top' = top + 1 /\ walk' = "right"
    /\ UNCHANGED <<side, left, right, bottom>>

AlongRight ==
    /\ walk = "right" /\ walk' = "bottom"
    /\ \/ /\ top <= bottom
          /\ Write(top..bottom, {right}, <<top, right>>)
          /\ right' = right - 1
       \/ top > bottom /\ UNCHANGED <<matrix, number, right>>
    /\ UNCHANGED <<side, left, top, bottom>>

Meet == top <= bottom /\ left <= right

\* Mutant: the bottom row is written even when the top row was the last.
BottomUnguarded ==
    /\ walk = "bottom" /\ walk' = "left"
    /\ Write({bottom}, left..right, <<bottom, right>>)
    /\ bottom' = bottom - 1
    /\ UNCHANGED <<side, left, right, top>>

AlongBottom ==
    /\ walk = "bottom" /\ walk' = "left"
    /\ \/ /\ Meet
          /\ Write({bottom}, left..right, <<bottom, right>>)
          /\ bottom' = bottom - 1
       \/ ~Meet /\ UNCHANGED <<matrix, number, bottom>>
    /\ UNCHANGED <<side, left, right, top>>

AlongLeft ==
    /\ walk = "left" /\ walk' = "top"
    /\ \/ /\ Meet
          /\ Write(top..bottom, {left}, <<bottom, left>>)
          /\ left' = left + 1
       \/ ~Meet /\ UNCHANGED <<matrix, number, left>>
    /\ UNCHANGED <<side, right, top, bottom>>

SpiralNext == AlongTop \/ AlongRight \/ AlongBottom \/ AlongLeft

-----------------------------------------------------------------------------
(* carFleet *)

Cars == DOMAIN position

\* Times are fractions, way / speed: the code's floats without their rounding.
NoTime == [way |-> 0, speed |-> 1]
Later(t, u) == t.way * u.speed > u.way * t.speed
time(c) == [way |-> target - position[c], speed |-> speed[c]]

\* No two cars are at one place, and none is at the target.
FleetInit ==
    /\ \E m \in 0..MaxCars : position \in Injection(1..m, Places) /\ speed \in [1..m -> Speeds]
    /\ sort_array = <<>> /\ times = <<>>
    /\ car = 0 /\ current_arrival = NoTime /\ fleets = 0

Sort ==
    /\ Cars # {} /\ times = <<>>
    /\ sort_array' \in [Cars -> Cars]
    /\ \A a, b \in Cars : a < b => position[sort_array'[a]] < position[sort_array'[b]]
    /\ times' = [a \in Cars |-> time(sort_array'[a])]
    /\ car' = Cardinality(Cars)
    /\ UNCHANGED <<position, speed, current_arrival, fleets>>

Pass ==
    /\ car > 0
    /\ \/ /\ Later(times[car], current_arrival)
          /\ fleets' = fleets + 1 /\ current_arrival' = times[car]
       \/ ~Later(times[car], current_arrival) /\ UNCHANGED <<fleets, current_arrival>>
    /\ car' = car - 1
    /\ UNCHANGED <<position, speed, sort_array, times>>

FleetNext == Sort \/ Pass

BoundsInit == SpiralInit /\ FleetInit
BoundsNext == (SpiralNext /\ UNCHANGED fleetVars) \/ (FleetNext /\ UNCHANGED spiralVars)
BoundsSpec == BoundsInit /\ [][BoundsNext]_<<spiralVars, fleetVars>>

-----------------------------------------------------------------------------
(* What they should compute *)

\* The number of a cell from its ring, the side of the ring it is on, and how
\* far along that side.
SpiralNumber(n, r, c) ==
    LET ring == Min({r, c, n - 1 - r, n - 1 - c})
        step == n - 1 - 2 * ring
        before == 4 * ring * (n - ring)
    IN  before + 1 + (IF r = ring THEN c - ring
                      ELSE IF c = n - 1 - ring THEN step + r - ring
                      ELSE IF r = n - 1 - ring THEN 2 * step + (n - 1 - ring - c)
                      ELSE 3 * step + (n - 1 - ring - r))

\* The four walks round shrinking borders write the spiral, odd sizes and their
\* middle cell included (generateMatrix).
MatrixIsSpiral ==
    walk = "top" /\ number > side * side =>
        \A r, c \in 0..side - 1 : matrix[<<r, c>>] = SpiralNumber(side, r, c)

\* The slowest time at or ahead of a car is when it arrives.
arrival(c) ==
    CHOOSE t \in {time(d) : d \in {e \in Cars : position[e] >= position[c]}} :
        \A d \in Cars : position[d] >= position[c] => ~Later(time(d), t)
together(c) == {d \in Cars : ~Later(arrival(c), arrival(d)) /\ ~Later(arrival(d), arrival(c))}

\* Cars arrive together when the slowest car at or ahead of each is the same in time: a
\* fleet is a class of cars, and comparing with the fleet ahead only counts the
\* classes (carFleet).
FleetsArriveTogether ==
    car = 0 /\ (Cars = {} \/ times # <<>>) =>
        fleets = Cardinality({together(c) : c \in Cars})

\* No fleet is missed and no cell, where the bounds meet.
BoundsMeetRight == FleetsArriveTogether /\ MatrixIsSpiral
=============================================================================
