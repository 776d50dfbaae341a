----------------------------- MODULE CircuitSolver -----------------------------
(* verify_concepts: the nodal matrix of a circuit, stamped element by element.  The  *)
(* unknowns are the voltages of the nodes and, below them, the currents of the       *)
(* voltage sources.  Conductances are whole numbers of some unit, which changes no   *)
(* determinant's being zero.                                                         *)
EXTENDS Integers, Sequences, FiniteSets, FiniteSetsExt, Functions

CONSTANTS
    n,             \* nodes 0..n-1; ground, GND, is not an unknown
    Conductances,  \* of the resistors, 1 / ohms
    MaxResistors, MaxSources   \* bounds: elements of a circuit

CircuitAssumption ==
    /\ n \in Nat \ {0} /\ {MaxResistors, MaxSources} \subseteq Nat
    /\ Conductances \subseteq Nat \ {0}

VARIABLES
    A,          \* the matrix, by <<row, column>>
    resistors,  \* history: those stamped, [a, b, g]
    sources     \* history: the nodes of those stamped, <<a, b>>

circuitVars == <<A, resistors, sources>>

GND == -1
Node == GND..n - 1
Index(k) == 0..n + k - 1

CircuitInit ==
    /\ A = [rc \in Index(MaxSources) \X Index(MaxSources) |-> 0]
    /\ resistors = <<>> /\ sources = <<>>

\* The matrix with g added at each of the places, none of which is ground's.
Stamped(places, g) == [rc \in DOMAIN A |-> IF rc \in places THEN A[rc] + g ELSE A[rc]]

\* Mutant of stamp_resistor: the off-diagonals are stamped at one place only.
stamp_resistor_half(a, b, g) ==
    /\ A' = [rc \in DOMAIN A |-> Stamped({<<a, a>>, <<b, b>>}, g)[rc]
                                    - (IF rc = <<a, b>> THEN g ELSE 0)]
    /\ resistors' = Append(resistors, [a |-> a, b |-> b, g |-> g])
    /\ UNCHANGED sources

\* +g on the diagonals, -g on the off-diagonals.
stamp_resistor(a, b, g) ==
    /\ A' = [rc \in DOMAIN A |-> Stamped({<<a, a>>, <<b, b>>}, g)[rc]
                                    - (IF rc \in {<<a, b>>, <<b, a>>} THEN g ELSE 0)]
    /\ resistors' = Append(resistors, [a |-> a, b |-> b, g |-> g])
    /\ UNCHANGED sources

\* One extra unknown and one extra row, of the k-th source.
stamp_vsource(a, b) ==
    LET row == n + Len(sources)
    IN  /\ A' = [rc \in DOMAIN A |-> Stamped({<<a, row>>, <<row, a>>}, 1)[rc]
                                        - (IF rc \in {<<b, row>>, <<row, b>>} THEN 1 ELSE 0)]
        /\ sources' = Append(sources, <<a, b>>)
        /\ UNCHANGED resistors

\* The circuits of the script stamp their resistors first.
CircuitNext ==
    \E a, b \in Node :
        /\ a # b
        /\ \/ /\ sources = <<>> /\ Len(resistors) < MaxResistors
              /\ \E g \in Conductances : stamp_resistor(a, b, g)
           \/ /\ Len(sources) < MaxSources
              /\ stamp_vsource(a, b)

-------------------------------------------------------------------------------

\* The determinant of the first rows of M over as many columns, by its last row.
Determinant(M) ==
    LET size == n + Len(sources)
        det[C \in SUBSET Index(Len(sources))] ==
            IF C = {} THEN 1
            ELSE LET row == Cardinality(C) - 1
                 IN  MapThenSumSet(
                        LAMBDA c : LET right == Cardinality({d \in C : d > c})
                                   IN  (IF right % 2 = 0 THEN 1 ELSE -1)
                                           * M[row, c] * det[C \ {c}],
                        {c \in C : M[row, c] # 0})
    IN  det[0..size - 1]

\* The elements as branches of a graph: resistors first, then sources.
Branches == DOMAIN resistors \cup {Len(resistors) + k : k \in DOMAIN sources}
Ends(e) == IF e \in DOMAIN resistors THEN {resistors[e].a, resistors[e].b}
           ELSE Range(sources[e - Len(resistors)])

\* Every node hangs on T: no set of nodes without ground is cut off from the rest.
Grounds(T) ==
    \A S \in (SUBSET (0..n - 1)) \ {{}} : \E e \in T : Ends(e) \cap S # {} /\ ~(Ends(e) \subseteq S)

\* The spanning trees that hold every source.
SourceTrees ==
    {T \cup (Branches \ DOMAIN resistors) : T \in SUBSET DOMAIN resistors} \cap
        {T \in SUBSET Branches : Cardinality(T) = n /\ Grounds(T)}

Product(T) == MapThenFoldSet(LAMBDA g, h : g * h, 1, LAMBDA e : resistors[e].g,
                             LAMBDA S : CHOOSE e \in S : TRUE, T \cap DOMAIN resistors)

\* Up to its sign the determinant is the sum, over the spanning trees through all sources,
\* of the products of their conductances.  So a circuit cannot be solved exactly in the two
\* cases of part 3.6: a node without a path to ground, which a conductance to ground (gmin)
\* cures, and a loop of voltage sources, which nothing cures (stamp_resistor,
\* stamp_vsource, part_3_6_singular_matrices).
DeterminantCountsTrees ==
    Determinant(A) = (IF Len(sources) % 2 = 0 THEN 1 ELSE -1) * MapThenSumSet(Product, SourceTrees)

\* z of sources with these voltages, and the voltage of a node by Cramer's rule, as the
\* quotient num / den.
z(volts) == [row \in Index(Len(volts)) |-> IF row < n THEN 0 ELSE volts[row - n + 1]]
solve(volts, node) ==
    [num |-> Determinant([rc \in DOMAIN A |-> IF rc[2] = node /\ rc[1] \in DOMAIN z(volts)
                                             THEN z(volts)[rc[1]] ELSE A[rc]]),
     den |-> Determinant(A)]

\* "divider must land at 3.3333 V", in whatever direction its resistors are stamped:
\* 110 and 220 ohms have conductances 2 and 1 (part_3_5_linear_mna).
DividerLands ==
    LET x == solve(<<5>>, 1) IN
        (/\ sources = <<<<0, GND>>>> /\ Len(resistors) = 2
         /\ \E r, s \in Range(resistors) : /\ {r.a, r.b} = {0, 1}   /\ r.g = 2
                                            /\ {s.a, s.b} = {1, GND} /\ s.g = 1)
            => x.den # 0 /\ 3 * x.num = 10 * x.den

===============================================================================
