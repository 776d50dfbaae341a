\* The lecture programs that compute or keep data, on every input up to a bound.
SPECIFICATION Spec
CONSTANTS
    numCourses = 3
    MaxEdges = 4
    Numbers <- MCNumbers
    Window = 2
    MaxLength = 5
    MaxSide = 5
    Places = {0, 1, 2, 6}
    Speeds = {1, 2, 3, 7}
    target = 8
    MaxCars = 3
    Digits = {0, 1, 2, 6, 7}
    MaxNums = 5
    MaxOther = 3
    MaxTree = 4
    n = 2
    Conductances = {1, 2}
    MaxResistors = 3
    MaxSources = 2
    V = 5
    Ratios <- MCRatios
    Span = 10
    MaxSteps = 10
INVARIANTS
    RecursionsMissNothing
    CanFinishIffNoCycle
    OnePassIsEnough
    BoundsMeetRight
    CircuitsAreSolved
    StepsAreStable
\* Inputs stop growing at their bounds, and programs end.
CHECK_DEADLOCK FALSE
