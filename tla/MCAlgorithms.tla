---------------------------- MODULE MCAlgorithms ----------------------------
(* Programs that compute an answer, one chosen at the start and the others idle: the   *)
(* practice solutions, the circuit solver and Euler's steps.                            *)
EXTENDS CourseSchedule, OnePass, MeetingBounds, EulerSteps

CONSTANTS
    Digits, MaxNums, MaxOther, MaxTree,
    n, Conductances, MaxResistors, MaxSources

VARIABLES lab,
    nums, other, tree,
    A, resistors, sources

\* Both signs: a sum may be below the 0 it starts from.
MCNumbers == {-2, 0, 1, 2, 3}

\* Steps of half of tau, tau, twice and three times tau.
MCRatios == {<<1, 2>>, <<1, 1>>, <<2, 1>>, <<3, 1>>}

Practice == INSTANCE PracticeSolutions
Circuit  == INSTANCE CircuitSolver

ASSUME ConstantsAssumption == Practice!InputAssumption /\ Circuit!CircuitAssumption

practice == <<nums, other, tree>>
circuit  == <<A, resistors, sources>>
vars     == <<lab, courseVars, passVars, spiralVars, fleetVars, practice, circuit, eulerVars>>

\* A program that is not chosen has one way to start, and stays there.
Init ==
    /\ lab \in {"courses", "pass", "spiral", "fleet", "practice", "circuit", "euler"}
    /\ (lab # "courses" => prerequisites = <<>>) /\ CoursesInit
    /\ (lab # "pass" => solution = "maxArea" /\ given = <<>>) /\ OnePassInit
    /\ (lab # "spiral" => side = 0) /\ SpiralInit
    /\ (lab # "fleet" => position = <<>>) /\ FleetInit
    /\ Practice!Init
    /\ Circuit!CircuitInit
    /\ EulerInit /\ (lab # "euler" => ratio = <<1, 1>>)

Next ==
    \/ /\ lab = "courses" /\ CoursesNext
       /\ UNCHANGED <<lab, passVars, spiralVars, fleetVars, practice, circuit, eulerVars>>
    \/ /\ lab = "pass" /\ OnePassNext
       /\ UNCHANGED <<lab, courseVars, spiralVars, fleetVars, practice, circuit, eulerVars>>
    \/ /\ lab \in {"spiral", "fleet"} /\ BoundsNext
       /\ UNCHANGED <<lab, courseVars, passVars, practice, circuit, eulerVars>>
    \/ /\ lab = "practice" /\ Practice!Next
       /\ UNCHANGED <<lab, courseVars, passVars, spiralVars, fleetVars, circuit, eulerVars>>
    \/ /\ lab = "circuit" /\ Circuit!CircuitNext
       /\ UNCHANGED <<lab, courseVars, passVars, spiralVars, fleetVars, practice, eulerVars>>
    \/ /\ lab = "euler" /\ EulerNext
       /\ UNCHANGED <<lab, courseVars, passVars, spiralVars, fleetVars, practice, circuit>>

Spec == Init /\ [][Next]_vars

-----------------------------------------------------------------------------

\* The recursions of the practice solutions against their definitions: see
\* PracticeSolutions.  CanFinishIffNoCycle, OnePassIsEnough, BoundsMeetRight and
\* StepsAreStable are those of the modules of their programs.
RecursionsMissNothing == Practice!RecursionsMissNothing

\* The stamped matrix of verify_concepts.py against the trees of the circuit, and its
\* divider; see CircuitSolver.
CircuitsAreSolved ==
    lab = "circuit" => Circuit!DeterminantCountsTrees /\ Circuit!DividerLands
=============================================================================
