-------------------------- MODULE ModuleServicesProofs --------------------------
(* Proofs about ModuleServices for any runspaces: the type invariant, that the    *)
(* lazy container is built once at a time and disposed before the next, and that  *)
(* the sessions count every command.                                              *)
EXTENDS ModuleServices, FiniteSetTheorems, TLAPS

\* A runspace between Enter and the end of ??= holds Gate, and the container it is
\* about to build is the only one.
GateGuards ==
    \A r \in Runspace :
        /\ pc[r] \in {"check", "build"} => gate = r
        /\ pc[r] = "build" => provider = 0

IInv == TypeOK /\ OneContainer /\ GateGuards

LEMMA InitIInv == Init => IInv
  BY ConstantsAssumption
  DEF Init, IInv, TypeOK, OneContainer, GateGuards, Number

\* A step that touches neither the containers nor who is at Gate.
LEMMA AwayFromGate ==
  ASSUME OneContainer, GateGuards, UNCHANGED container,
         \A r \in Runspace : pc'[r] \in {"check", "build"} => pc'[r] = pc[r]
  PROVE  OneContainer' /\ GateGuards'
  BY DEF OneContainer, GateGuards, container

LEMMA BuildStep == ASSUME IInv, NEW r \in Runspace, Build(r) PROVE IInv'
<1>1. gate = r /\ provider = 0 /\ built \in Nat /\ (1..built) \ disposed = {}
  BY DEF IInv, TypeOK, OneContainer, GateGuards, Build
<1>2. disposed \subseteq 1..built
  BY DEF IInv, TypeOK
<1>3. built' = built + 1 /\ provider' = built + 1 /\ disposed' = disposed
  BY DEF Build
<1>4. (1..(built + 1)) \ disposed = {built + 1}
  <2>1. 1..(built + 1) = (1..built) \cup {built + 1}
    BY <1>1
  <2>2. built + 1 \notin disposed
    BY <1>1, <1>2
  <2> QED
    BY <1>1, <2>1, <2>2
<1>5. OneContainer'
  BY <1>1, <1>3, <1>4 DEF OneContainer
<1>6. GateGuards'
  BY <1>1 DEF IInv, TypeOK, GateGuards, Build, Goto
<1>7. TypeOK'
  BY <1>1, <1>2, <1>3, ConstantsAssumption
  DEF IInv, TypeOK, Build, Leave, Goto, numbers, session
<1> QED
  BY <1>5, <1>6, <1>7 DEF IInv

LEMMA ResetStep == ASSUME IInv, NEW r \in Runspace, Reset(r) PROVE IInv'
<1>1. /\ gate = Nobody /\ provider # 0 /\ disposed' = disposed \cup {provider}
      /\ provider' = 0 /\ built' = built /\ pc' = pc /\ gate' = gate
  BY DEF Reset
<1>2. OneContainer'
  BY <1>1 DEF IInv, OneContainer
<1>3. GateGuards'
  BY <1>1 DEF IInv, GateGuards
<1>4. provider \in 1..built
  BY <1>1 DEF IInv, TypeOK
<1>5. TypeOK'
  BY <1>1, <1>4 DEF IInv, TypeOK, Reset, numbers, session
<1> QED
  BY <1>2, <1>3, <1>5 DEF IInv

LEMMA StepIInv == IInv /\ [Next]_vars => IInv'
<1> SUFFICES ASSUME IInv, [Next]_vars PROVE IInv'
  OBVIOUS
<1>1. ASSUME NEW r \in Runspace, Invoke(r) PROVE IInv'
  <2>1. commands + 1 \in Number /\ ops \in Nat
    BY <1>1, ConstantsAssumption DEF IInv, TypeOK, Invoke, Number
  <2>2. TypeOK'
    BY <1>1, <2>1 DEF IInv, TypeOK, Invoke, Goto, container, numbers, session
  <2> QED
    BY <1>1, <2>2, AwayFromGate DEF IInv, TypeOK, Invoke, Goto
<1>2. ASSUME NEW r \in Runspace, Enter(r) PROVE IInv'
  BY <1>2, ConstantsAssumption
  DEF IInv, TypeOK, OneContainer, GateGuards, Enter, Goto, numbers, session
<1>3. ASSUME NEW r \in Runspace, Check(r) PROVE IInv'
  <2>1. TypeOK'
    BY <1>3 DEF IInv, TypeOK, Check, Leave, Goto, numbers, session
  <2>2. OneContainer'
    BY <1>3 DEF IInv, OneContainer, Check
  <2>3. GateGuards'
    BY <1>3 DEF IInv, TypeOK, GateGuards, Check, Leave, Goto
  <2> QED
    BY <2>1, <2>2, <2>3 DEF IInv
<1>4. ASSUME NEW r \in Runspace, Build(r) PROVE IInv'
  BY <1>4, BuildStep
<1>5. ASSUME NEW r \in Runspace, Complete(r) PROVE IInv'
  BY <1>5, AwayFromGate DEF IInv, TypeOK, Complete, Goto, container, numbers, session
<1>6. ASSUME NEW r \in Runspace, Throws(r, {"scope", "count", "running"}) PROVE IInv'
  BY <1>6, AwayFromGate DEF IInv, TypeOK, Throws, Goto, container, numbers, session
<1>7. ASSUME NEW r \in Runspace, OpenScope(r) PROVE IInv'
  BY <1>7, AwayFromGate DEF IInv, TypeOK, OpenScope, Goto, container, numbers, session
<1>8. ASSUME NEW r \in Runspace, Count(r) PROVE IInv'
  <2>1. runs' \in [Number -> Nat]
    <3>1. runs \in [Number -> Nat] /\ runs' = [runs EXCEPT ![mine[r]] = runs[mine[r]] + 1]
      BY <1>8 DEF IInv, TypeOK, Count
    <3>2. CASE mine[r] \in Number
      BY <3>1, <3>2
    <3>3. CASE mine[r] \notin Number
      BY <3>1, <3>3
    <3> QED
      BY <3>2, <3>3
  <2>2. TypeOK'
    BY <1>8, <2>1 DEF IInv, TypeOK, Count, Goto, container, numbers
  <2> QED
    BY <1>8, <2>2, AwayFromGate DEF IInv, TypeOK, Count, Goto
<1>9. ASSUME NEW r \in Runspace, Publish(r) PROVE IInv'
  <2>1. op[r] \in Nat
    BY DEF IInv, TypeOK
  <2>2. TypeOK'
    BY <1>9, <2>1 DEF IInv, TypeOK, Publish, Goto, container, numbers
  <2> QED
    BY <1>9, <2>2, AwayFromGate DEF IInv, TypeOK, Publish, Goto
<1>10. ASSUME NEW r \in Runspace, Dispose(r) PROVE IInv'
  BY <1>10, AwayFromGate DEF IInv, TypeOK, Dispose, Goto, container, numbers, session
<1>11. ASSUME NEW r \in Runspace, Reset(r) PROVE IInv'
  BY <1>11, ResetStep
<1>12. CASE UNCHANGED vars
  BY <1>12 DEF IInv, TypeOK, OneContainer, GateGuards, vars, container, numbers, session
<1> QED
  BY <1>1, <1>2, <1>3, <1>4, <1>5, <1>6, <1>7, <1>8, <1>9, <1>10, <1>11, <1>12
  DEF Next, Step

THEOREM Inductive == Spec => []IInv
  BY InitIInv, StepIInv, PTL DEF Spec

\* Every variable keeps its type, for any runspaces.
THEOREM TypeCorrect == Spec => []TypeOK
  BY Inductive, PTL DEF IInv

\* Of all the containers that were built, only _provider is not disposed
\* (ModuleServices.Provider and Reset), for any runspaces.
THEOREM OneContainerHolds == Spec => []OneContainer
  BY Inductive, PTL DEF IInv

-------------------------------------------------------------------------------
(* Counting *)

\* The runspaces that may still build a container, and those container g has counted.
Pending    == {r \in Runspace : pc[r] \in {"enter", "check", "build"}}
Counted(g) == {r \in Runspace : pc[r] \in {"publish", "running"} /\ mine[r] = g}

\* Every container takes a command of its own, so there are no more of them than
\* sessions in runs and lastOp.
BoundInv == built + Cardinality(Pending) <= commands

MineInv ==
    \A r \in Runspace : pc[r] \in {"scope", "count", "publish", "running"} => mine[r] # 0

RunsInv == \A g \in 1..built : Cardinality(Counted(g)) <= runs[g]

\* A command between its scope and Publish has an operation nobody else has.
Unpublished(r) == pc[r] \in {"count", "publish"}

OpInv ==
    /\ \A r \in Runspace : Unpublished(r) =>
          op[r] # 0 /\ \A g \in Number : lastOp[g] # op[r]
    /\ \A r, q \in Runspace : Unpublished(r) /\ Unpublished(q) /\ op[r] = op[q] => r = q
    /\ \A g \in Number : lastOp[g] <= ops

\* A session that shows an operation has counted it, and is the only one to show it.
LastInv ==
    /\ \A g \in Number : lastOp[g] # 0 => g \in 1..built /\ runs[g] > 0
    /\ \A g, h \in Number : lastOp[g] # 0 /\ lastOp[h] = lastOp[g] => h = g
    /\ \A r \in Runspace : pc[r] = "publish" => runs[mine[r]] > 0

SessionInv == BoundInv /\ MineInv /\ RunsInv /\ OpInv /\ LastInv

\* What a step of one runspace does to the number of runspaces in a set.
LEMMA CardinalityMoves ==
  ASSUME NEW S \in SUBSET Runspace, NEW T \in SUBSET Runspace, NEW r \in Runspace
  PROVE  /\ Cardinality(S) \in Nat /\ Cardinality(T) \in Nat
         /\ T \subseteq S => Cardinality(T) <= Cardinality(S)
         /\ T \subseteq S \cup {r} => Cardinality(T) <= Cardinality(S) + 1
         /\ r \in S /\ T \subseteq S \ {r} => Cardinality(T) + 1 <= Cardinality(S)
<1>1. IsFiniteSet(S) /\ IsFiniteSet(T)
  BY ConstantsAssumption, FS_Subset
<1>2. Cardinality(S) \in Nat /\ Cardinality(T) \in Nat
  BY <1>1, FS_CardinalityType
<1>3. ASSUME T \subseteq S PROVE Cardinality(T) <= Cardinality(S)
  BY <1>1, <1>3, FS_Subset
<1>4. ASSUME T \subseteq S \cup {r} PROVE Cardinality(T) <= Cardinality(S) + 1
  <2>1. IsFiniteSet(S \cup {r}) /\ Cardinality(S \cup {r}) <= Cardinality(S) + 1
    <3>1. Cardinality(S \cup {r}) = IF r \in S THEN Cardinality(S) ELSE Cardinality(S) + 1
      BY <1>1, FS_AddElement
    <3> QED
      BY <1>1, <1>2, <3>1, FS_AddElement
  <2>2. Cardinality(T) <= Cardinality(S \cup {r})
    BY <1>4, <2>1, FS_Subset
  <2> QED
    BY <1>2, <2>1, <2>2, FS_CardinalityType
<1>5. ASSUME r \in S, T \subseteq S \ {r} PROVE Cardinality(T) + 1 <= Cardinality(S)
  <2>1. IsFiniteSet(S \ {r}) /\ Cardinality(S \ {r}) = Cardinality(S) - 1
    BY <1>1, <1>5, FS_RemoveElement
  <2>2. Cardinality(T) <= Cardinality(S \ {r})
    BY <1>5, <2>1, FS_Subset
  <2> QED
    BY <1>2, <2>1, <2>2
<1> QED
  BY <1>2, <1>3, <1>4, <1>5

LEMMA InitSession == Init => SessionInv
<1> SUFFICES ASSUME Init PROVE SessionInv
  OBVIOUS
<1>1. Pending = {}
  BY DEF Init, Pending
<1>2. BoundInv
  BY <1>1, FS_EmptySet DEF Init, BoundInv
<1> QED
  BY <1>2 DEF Init, SessionInv, MineInv, RunsInv, OpInv, Unpublished, LastInv, Number

\* An invocation adds a pending runspace and a command, a build takes one away.
LEMMA BoundStep == IInv /\ BoundInv /\ [Next]_vars => BoundInv'
<1> SUFFICES ASSUME IInv, BoundInv, [Next]_vars PROVE BoundInv'
  OBVIOUS
<1>1. built \in Nat /\ commands \in Nat
  BY ConstantsAssumption DEF IInv, TypeOK, Number
<1>2. ASSUME Pending' \subseteq Pending, UNCHANGED <<built, commands>> PROVE BoundInv'
  <2>1. CASE Runspace = {}
    BY <1>2, <2>1 DEF BoundInv, Pending
  <2>2. ASSUME NEW r \in Runspace PROVE BoundInv'
    <3>1. Cardinality(Pending') <= Cardinality(Pending) /\ Cardinality(Pending') \in Nat /\ Cardinality(Pending) \in Nat
      BY <1>2, CardinalityMoves DEF Pending
    <3> QED
      BY <1>1, <1>2, <3>1 DEF BoundInv
  <2> QED
    BY <2>1, <2>2
<1>3. ASSUME NEW r \in Runspace, Invoke(r) PROVE BoundInv'
  <2>1. Pending' \subseteq Pending \cup {r} /\ built' = built /\ commands' = commands + 1
    BY <1>3 DEF IInv, TypeOK, Invoke, Goto, container, Pending
  <2>2. Cardinality(Pending') <= Cardinality(Pending) + 1 /\ Cardinality(Pending') \in Nat /\ Cardinality(Pending) \in Nat
    BY <2>1, CardinalityMoves DEF Pending
  <2> QED
    BY <1>1, <2>1, <2>2 DEF BoundInv
<1>4. ASSUME NEW r \in Runspace, Build(r) PROVE BoundInv'
  <2>1. r \in Pending /\ Pending' \subseteq Pending \ {r} /\ built' = built + 1 /\ commands' = commands
    BY <1>4 DEF IInv, TypeOK, Build, Goto, numbers, Pending
  <2>2. Cardinality(Pending') + 1 <= Cardinality(Pending) /\ Cardinality(Pending') \in Nat /\ Cardinality(Pending) \in Nat
    BY <2>1, CardinalityMoves DEF Pending
  <2> QED
    BY <1>1, <2>1, <2>2 DEF BoundInv
<1>5. ASSUME NEW r \in Runspace, Enter(r) \/ Check(r) PROVE BoundInv'
  BY <1>2, <1>5 DEF IInv, TypeOK, Enter, Check, Goto, numbers, Pending
<1>6. ASSUME NEW r \in Runspace,
             Complete(r) \/ OpenScope(r) \/ Count(r) \/ Publish(r) \/ Dispose(r)
               \/ Throws(r, {"scope", "count", "running"})
      PROVE  BoundInv'
  BY <1>2, <1>6 DEF IInv, TypeOK, Complete, OpenScope, Count, Publish, Dispose, Throws,
     Goto, container, numbers, Pending
<1>7. ASSUME NEW r \in Runspace, Reset(r) PROVE BoundInv'
  BY <1>2, <1>7 DEF Reset, numbers, Pending
<1>8. CASE UNCHANGED vars
  BY <1>2, <1>8 DEF vars, container, numbers, Pending
<1> QED
  BY <1>3, <1>4, <1>5, <1>6, <1>7, <1>8 DEF Next, Step

\* A container's number is one of a session, and a command past Provider has one.
LEMMA Sessions ==
  ASSUME IInv, SessionInv
  PROVE  /\ built \in Nat /\ built \in Number /\ 1..built \subseteq Number
         /\ \A r \in Runspace : pc[r] = "build" => built + 1 \in Number
         /\ \A r \in Runspace : pc[r] \in {"scope", "count", "publish", "running"} => mine[r] \in 1..built
<1>1. Pending \in SUBSET Runspace
  BY DEF Pending
<1>2. built \in Nat /\ commands \in 0..MaxCommands /\ MaxCommands \in Nat
  BY ConstantsAssumption DEF IInv, TypeOK, Number
<1>3. ASSUME NEW r \in Runspace PROVE Cardinality(Pending) \in Nat /\ (pc[r] = "build" => Cardinality(Pending) >= 1)
  <2>1. {} \in SUBSET Runspace /\ Cardinality({}) = 0
    BY FS_EmptySet
  <2>2. pc[r] = "build" => r \in Pending
    BY DEF Pending
  <2> QED
    BY <1>1, <2>1, <2>2, CardinalityMoves
<1>4. Cardinality(Pending) \in Nat
  BY <1>1, ConstantsAssumption, FS_Subset, FS_CardinalityType
<1>5. built \in Number
  BY <1>2, <1>4 DEF SessionInv, BoundInv, Number
<1>6. \A r \in Runspace : pc[r] = "build" => built + 1 \in Number
  BY <1>2, <1>3 DEF SessionInv, BoundInv, Number
<1>7. \A r \in Runspace : pc[r] \in {"scope", "count", "publish", "running"} => mine[r] \in 1..built
  BY <1>2 DEF IInv, TypeOK, SessionInv, MineInv
<1> QED
  BY <1>2, <1>5, <1>6, <1>7 DEF Number

LEMMA MineStep == IInv /\ MineInv /\ [Next]_vars => MineInv'
<1> SUFFICES ASSUME IInv, MineInv, [Next]_vars PROVE MineInv'
  OBVIOUS
<1> USE DEF MineInv
<1>1. ASSUME NEW r \in Runspace, Invoke(r) \/ Enter(r) \/ Check(r) \/ Build(r) \/ Complete(r)
      PROVE  MineInv'
  BY <1>1 DEF IInv, TypeOK, Invoke, Enter, Check, Build, Complete, Goto
<1>2. ASSUME NEW r \in Runspace,
             OpenScope(r) \/ Count(r) \/ Publish(r) \/ Dispose(r)
               \/ Throws(r, {"scope", "count", "running"}) \/ Reset(r)
      PROVE  MineInv'
  BY <1>2 DEF IInv, TypeOK, OpenScope, Count, Publish, Dispose, Throws, Reset, Goto
<1>3. CASE UNCHANGED vars
  BY <1>3 DEF vars
<1> QED
  BY <1>1, <1>2, <1>3 DEF Next, Step

\* A command joins the counted ones of its container as the count goes up.
LEMMA RunsStep == IInv /\ SessionInv /\ [Next]_vars => RunsInv'
<1> SUFFICES ASSUME IInv, SessionInv, [Next]_vars, NEW g \in 1..built'
             PROVE  (Cardinality(Counted(g)) <= runs[g])'
  BY DEF RunsInv
<1>1. /\ built \in Nat /\ runs \in [Number -> Nat]
      /\ g \in 1..built => g \in Number /\ Cardinality(Counted(g)) <= runs[g]
  BY Sessions DEF IInv, TypeOK, SessionInv, RunsInv
<1>2. ASSUME g \in 1..built, Counted(g)' \subseteq Counted(g), runs' = runs
      PROVE  (Cardinality(Counted(g)) <= runs[g])'
  <2>1. IsFiniteSet(Counted(g))
    BY ConstantsAssumption, FS_Subset DEF Counted
  <2>2. /\ Cardinality(Counted(g)') <= Cardinality(Counted(g))
        /\ Cardinality(Counted(g)) \in Nat /\ Cardinality(Counted(g)') \in Nat
    BY <1>2, <2>1, FS_Subset, FS_CardinalityType
  <2> QED
    BY <1>1, <1>2, <2>2
<1>3. ASSUME NEW r \in Runspace, Build(r) PROVE (Cardinality(Counted(g)) <= runs[g])'
  <2>1. CASE g \in 1..built
    BY <1>2, <1>3, <2>1 DEF IInv, TypeOK, Build, Goto, session, Counted
  <2>2. CASE g = built + 1
    <3>1. Counted(g)' = {}
      BY <1>1, <1>3, <2>2 DEF IInv, TypeOK, Build, Goto, Counted
    <3>2. g \in Number /\ runs' = runs
      BY <1>3, <2>2, Sessions DEF Build, session
    <3> QED
      BY <1>1, <3>1, <3>2, FS_EmptySet
  <2> QED
    BY <1>1, <1>3, <2>1, <2>2 DEF Build
<1>4. ASSUME NEW r \in Runspace, Count(r) PROVE (Cardinality(Counted(g)) <= runs[g])'
  <2>1. g \in 1..built /\ runs' = [runs EXCEPT ![mine[r]] = runs[mine[r]] + 1]
    BY <1>4 DEF Count, container
  <2>2. CASE g = mine[r]
    <3>1. Counted(g)' \subseteq Counted(g) \cup {r}
      BY <1>4 DEF IInv, TypeOK, Count, Goto, Counted
    <3>2. /\ Cardinality(Counted(g)') <= Cardinality(Counted(g)) + 1
          /\ Cardinality(Counted(g)) \in Nat /\ Cardinality(Counted(g)') \in Nat
      BY <3>1, CardinalityMoves DEF Counted
    <3> QED
      BY <1>1, <2>1, <2>2, <3>2
  <2>3. CASE g # mine[r]
    <3>1. Counted(g)' \subseteq Counted(g)
      BY <1>4, <2>3 DEF IInv, TypeOK, Count, Goto, Counted
    <3>2. runs'[g] = runs[g]
      BY <1>1, <2>1, <2>3
    <3>3. /\ Cardinality(Counted(g)') <= Cardinality(Counted(g))
          /\ Cardinality(Counted(g)) \in Nat /\ Cardinality(Counted(g)') \in Nat
      BY <3>1, CardinalityMoves DEF Counted
    <3> QED
      BY <1>1, <2>1, <3>2, <3>3
  <2> QED
    BY <2>2, <2>3
<1>5. ASSUME NEW r \in Runspace, Invoke(r) \/ Enter(r) \/ Check(r) \/ Complete(r) \/ Reset(r)
      PROVE  (Cardinality(Counted(g)) <= runs[g])'
  <2>1. g \in 1..built /\ runs' = runs
    BY <1>5 DEF Invoke, Enter, Check, Complete, Reset, container, session
  <2>2. Counted(g)' \subseteq Counted(g)
    BY <1>5 DEF IInv, TypeOK, Invoke, Enter, Check, Complete, Reset, Goto, Counted
  <2> QED
    BY <1>2, <2>1, <2>2
<1>6. ASSUME NEW r \in Runspace,
             OpenScope(r) \/ Publish(r) \/ Dispose(r) \/ Throws(r, {"scope", "count", "running"})
      PROVE  (Cardinality(Counted(g)) <= runs[g])'
  <2>1. g \in 1..built /\ runs' = runs
    BY <1>6 DEF OpenScope, Publish, Dispose, Throws, container, session
  <2>2. Counted(g)' \subseteq Counted(g)
    BY <1>6 DEF IInv, TypeOK, OpenScope, Publish, Dispose, Throws, Goto, Counted
  <2> QED
    BY <1>2, <2>1, <2>2
<1>7. CASE UNCHANGED vars
  BY <1>2, <1>7 DEF vars, container, session, Counted
<1> QED
  BY <1>3, <1>4, <1>5, <1>6, <1>7 DEF Next, Step

\* An operation is opened with a number of its own and published once.
LEMMA OpStep == IInv /\ SessionInv /\ [Next]_vars => OpInv' /\ LastInv'
<1> SUFFICES ASSUME IInv, SessionInv, [Next]_vars PROVE OpInv' /\ LastInv'
  OBVIOUS
<1> USE DEF SessionInv, OpInv, LastInv, Unpublished
<1>1. ops \in Nat /\ runs \in [Number -> Nat] /\ lastOp \in [Number -> Nat]
  BY DEF IInv, TypeOK
<1>2. ASSUME NEW r \in Runspace, Invoke(r) \/ Enter(r) \/ Check(r) \/ Complete(r)
      PROVE  OpInv' /\ LastInv'
  <2>1. pc'[r] \in {"enter", "check", "scope", "build", "idle"}
        /\ \A q \in Runspace : q # r => pc'[q] = pc[q] /\ mine'[q] = mine[q]
    BY <1>2 DEF IInv, TypeOK, Invoke, Enter, Check, Complete, Goto
  <2>2. UNCHANGED <<built, op, ops, runs, lastOp>>
    BY <1>2 DEF Invoke, Enter, Check, Complete, container, numbers, session
  <2> QED
    BY <2>1, <2>2
<1>3. ASSUME NEW r \in Runspace, Build(r) PROVE OpInv' /\ LastInv'
  <2>1. pc'[r] = "scope" /\ \A q \in Runspace : q # r => pc'[q] = pc[q] /\ mine'[q] = mine[q]
    BY <1>3 DEF IInv, TypeOK, Build, Goto
  <2>2. UNCHANGED <<op, ops, runs, lastOp>> /\ 1..built \subseteq 1..built'
    BY <1>3 DEF IInv, TypeOK, Build, numbers, session
  <2> QED
    BY <2>1, <2>2
<1>4. ASSUME NEW r \in Runspace, OpenScope(r) PROVE OpInv' /\ LastInv'
  <2>1. pc'[r] = "count" /\ \A q \in Runspace : q # r => pc'[q] = pc[q] /\ op'[q] = op[q]
    BY <1>4 DEF IInv, TypeOK, OpenScope, Goto
  <2>2. UNCHANGED <<built, mine, runs, lastOp>> /\ ops' = ops + 1 /\ op'[r] = ops + 1
    BY <1>4 DEF IInv, TypeOK, OpenScope, container, session
  <2>3. \A q \in Runspace : op[q] <= ops /\ op[q] \in Nat
    BY DEF IInv, TypeOK
  <2>4. \A h \in Number : lastOp[h] # ops + 1 /\ lastOp[h] <= ops + 1
    BY <1>1
  <2>5. \A q \in Runspace : op[q] # ops + 1
    BY <1>1, <2>3
  <2>6. ops + 1 # 0
    BY <1>1
  <2>7. OpInv'
    BY <2>1, <2>2, <2>4, <2>5, <2>6
  <2>8. LastInv'
    BY <2>1, <2>2
  <2> QED
    BY <2>7, <2>8
<1>5. ASSUME NEW r \in Runspace, Count(r) PROVE OpInv' /\ LastInv'
  <2>1. pc[r] = "count" /\ pc'[r] = "publish" /\ \A q \in Runspace : q # r => pc'[q] = pc[q]
    BY <1>5 DEF IInv, TypeOK, Count, Goto
  <2>2. UNCHANGED <<built, mine, op, ops, lastOp>>
    BY <1>5 DEF Count, container, numbers
  <2>3. \A h \in Number : runs'[h] >= runs[h] /\ (h = mine[r] => runs'[h] > 0)
    BY <1>1, <1>5 DEF Count
  <2>4. \A q \in Runspace : pc'[q] = "publish" => mine[q] \in Number
    BY <2>1, Sessions
  <2>5. \A h \in Number : runs[h] \in Nat /\ runs'[h] \in Nat
    BY <1>1, <1>5 DEF Count
  <2> QED
    BY <2>1, <2>2, <2>3, <2>4, <2>5
<1>6. ASSUME NEW r \in Runspace, Publish(r) PROVE OpInv' /\ LastInv'
  <2>1. pc[r] = "publish" /\ pc'[r] = "running" /\ \A q \in Runspace : q # r => pc'[q] = pc[q]
    BY <1>6 DEF IInv, TypeOK, Publish, Goto
  <2>2. UNCHANGED <<built, mine, op, ops, runs>>
    BY <1>6 DEF Publish, container, numbers
  <2>3. mine[r] \in 1..built /\ mine[r] \in Number
    BY <2>1, Sessions
  <2>4. lastOp'[mine[r]] = op[r] /\ \A h \in Number : h # mine[r] => lastOp'[h] = lastOp[h]
    BY <1>1, <1>6, <2>3 DEF Publish
  <2>5. op[r] <= ops
    BY DEF IInv, TypeOK
  <2> QED
    BY <2>1, <2>2, <2>3, <2>4, <2>5
<1>7. ASSUME NEW r \in Runspace, Dispose(r) \/ Throws(r, {"scope", "count", "running"}) \/ Reset(r)
      PROVE  OpInv' /\ LastInv'
  <2>1. \A q \in Runspace : pc'[q] = pc[q] \/ pc'[q] = "idle"
    BY <1>7 DEF IInv, TypeOK, Dispose, Throws, Reset, Goto
  <2>2. UNCHANGED <<built, mine, op, ops, runs, lastOp>>
    BY <1>7 DEF Dispose, Throws, Reset, container, numbers, session
  <2> QED
    BY <2>1, <2>2
<1>8. CASE UNCHANGED vars
  BY <1>8 DEF vars, container, numbers, session
<1> QED
  BY <1>2, <1>3, <1>4, <1>5, <1>6, <1>7, <1>8 DEF Next, Step

\* Every command that runs has been counted by the session of its own container, and no
\* operation is shown by two of them, for any runspaces (ModuleSession).
THEOREM EveryCommandCountsHolds == Spec => []EveryCommandCounts
<1>1. IInv /\ SessionInv /\ [Next]_vars => SessionInv'
  BY BoundStep, MineStep, RunsStep, OpStep DEF SessionInv
<1>2. IInv /\ SessionInv => EveryCommandCounts
  BY Sessions DEF SessionInv, RunsInv, Counted, LastInv, EveryCommandCounts
<1> QED
  BY <1>1, <1>2, InitSession, Inductive, PTL DEF Spec
===============================================================================
