------------------------- MODULE ShowcaseSystemProofs -------------------------
(* Proofs about ShowcaseSystem for any apps, shells and devices: the type       *)
(* invariant, that a restart lasts three ticks whatever went before it, and that *)
(* the audit trail keeps step with the fleet.                                    *)
EXTENDS ShowcaseSystem, FiniteSetTheorems, TLAPS

\* One tick leads from a device to a device, and to Maintenance only from it.
LEMMA SimulatedType ==
  ASSUME NEW x \in DeviceState, NEW f \in Fate, Possible(x, f)
  PROVE  /\ Simulated(x, f) \in DeviceState
         /\ Simulated(x, f).status = "Maintenance" => x.status = "Maintenance"
<1>1. /\ x.status \in Status /\ x.remaining \in Int /\ f.vitals \in Vitals
      /\ x.remaining - 1 \in Int /\ 0 \in Vitals
  BY DEF DeviceState, Fate, Vitals
<1>2. CASE x.status \in {"Online", "Degraded"}
  BY <1>1, <1>2 DEF Simulated, DeviceState, Status
<1>3. CASE x.status = "Maintenance" /\ x.remaining - 1 > 0
  BY <1>1, <1>3 DEF Simulated, DeviceState
<1>4. CASE x.status = "Maintenance" /\ x.remaining - 1 <= 0
  BY <1>1, <1>4 DEF Simulated, DeviceState, Status
<1>5. CASE x.status = "Offline"
  BY <1>5 DEF Simulated
<1> QED
  BY <1>1, <1>2, <1>3, <1>4, <1>5 DEF Status

\* A device in Maintenance loses one of the ticks it has left, and its last one
\* takes it out.
LEMMA SimulatedCountdown ==
  ASSUME NEW x \in DeviceState, NEW f \in Fate, x.status = "Maintenance"
  PROVE  /\ x.remaining > 1 => /\ Simulated(x, f).status = "Maintenance"
                               /\ Simulated(x, f).remaining = x.remaining - 1
         /\ x.remaining <= 1 => Simulated(x, f).status = "Online"
  BY DEF DeviceState, Simulated

IInv == TypeOK /\ RestartTakesThreeTicks

LEMMA InitIInv == Init => IInv
  BY ConstantsAssumption
  DEF Init, IInv, TypeOK, RestartTakesThreeTicks, DeviceState, Status, Vitals, Entry,
      Back, NotTracked, RestartTicks

\* A change committed by a shell keeps the types of all that it writes.
LEMMA CommitType ==
  ASSUME TypeOK, NEW s \in Shell, NEW d \in Device, NEW x \in DeviceState,
         NEW action \in Action, Commits(s, d, x, action)
  PROVE  /\ fleet' \in [Device -> DeviceState]
         /\ debt' \in [Device -> [Action -> Int]]
         /\ entry' \in [Shell -> Entry \cup {NoEntry}]
         /\ shellPc' \in [Shell -> {"prompt", "record", "healing"}]
         /\ commands' \in 0..MaxCommands
<1>1. debt' \in [Device -> [Action -> Int]]
  BY DEF TypeOK, Commits, Owes
<1>2. commands' \in 0..MaxCommands
  BY ConstantsAssumption DEF TypeOK, Commits
<1> QED
  BY <1>1, <1>2 DEF TypeOK, Commits, Entry

\* Restart and Heal: the device is in Maintenance with all its ticks ahead.
LEMMA RestartsStep ==
  ASSUME IInv, NEW s \in Shell, NEW d \in Device, Restarts(s, d)
  PROVE  /\ RestartTakesThreeTicks'
         /\ sinceRestart' \in [Device -> 0..NotTracked]
         /\ fleet' \in [Device -> DeviceState]
         /\ debt' \in [Device -> [Action -> Int]]
         /\ entry' \in [Shell -> Entry \cup {NoEntry}]
         /\ shellPc' \in [Shell -> {"prompt", "record", "healing"}]
         /\ commands' \in 0..MaxCommands
<1> DEFINE x == [status |-> "Maintenance", remaining |-> RestartTicks, vitals |-> fleet[d].vitals]
<1>1. x \in DeviceState /\ x.status = "Maintenance" /\ x.remaining = RestartTicks
  BY DEF IInv, TypeOK, DeviceState, Status, RestartTicks
<1>2. Commits(s, d, x, "Restart") /\ "Restart" \in Action
  BY DEF Restarts, Action
<1>3. fleet' = [fleet EXCEPT ![d] = x] /\ sinceRestart' = [sinceRestart EXCEPT ![d] = 0]
  BY DEF Restarts, Commits
<1> HIDE DEF x
<1>4. RestartTakesThreeTicks'
  BY <1>1, <1>3 DEF IInv, TypeOK, RestartTakesThreeTicks, Back, RestartTicks
<1>5. sinceRestart' \in [Device -> 0..NotTracked]
  BY <1>3 DEF IInv, TypeOK, NotTracked, RestartTicks
<1> QED
  BY <1>1, <1>2, <1>4, <1>5, CommitType DEF IInv

\* Set-ShowcaseDevice: a status somebody else wrote ends the tracking of a restart.
LEMMA SetsStep ==
  ASSUME IInv, NEW s \in Shell, NEW d \in Device, NEW st \in Status,
         NEW action \in Action, Sets(s, d, st, action)
  PROVE  /\ RestartTakesThreeTicks'
         /\ sinceRestart' \in [Device -> 0..NotTracked]
         /\ fleet' \in [Device -> DeviceState]
         /\ debt' \in [Device -> [Action -> Int]]
         /\ entry' \in [Shell -> Entry \cup {NoEntry}]
         /\ shellPc' \in [Shell -> {"prompt", "record", "healing"}]
         /\ commands' \in 0..MaxCommands
<1> DEFINE x == [fleet[d] EXCEPT !.status = st]
           n == IF st = fleet[d].status THEN sinceRestart[d]
                ELSE IF st = "Maintenance" THEN NotTracked ELSE Back
<1>1. x \in DeviceState /\ x.status = st /\ x.remaining = fleet[d].remaining
  <2>1. fleet[d] \in DeviceState
    BY DEF IInv, TypeOK
  <2> QED
    BY <2>1 DEF DeviceState
<1>2. Commits(s, d, x, action)
  BY DEF Sets
<1>3. fleet' = [fleet EXCEPT ![d] = x] /\ sinceRestart' = [sinceRestart EXCEPT ![d] = n]
  BY DEF Sets, Commits
<1>4. n \in 0..NotTracked
  BY DEF IInv, TypeOK, NotTracked, Back, RestartTicks
<1>5. /\ n < RestartTicks => st = "Maintenance" /\ x.remaining = RestartTicks - n
      /\ n = Back => st # "Maintenance"
  BY <1>1 DEF IInv, RestartTakesThreeTicks, NotTracked, Back, RestartTicks
<1> HIDE DEF x, n
<1>6. RestartTakesThreeTicks'
  BY <1>1, <1>3, <1>5 DEF IInv, TypeOK, RestartTakesThreeTicks
<1>7. sinceRestart' \in [Device -> 0..NotTracked]
  BY <1>3, <1>4 DEF IInv, TypeOK
<1> QED
  BY <1>1, <1>2, <1>6, <1>7, CommitType DEF IInv

\* A tick counts down every device that waits for its restart to end.
LEMMA TickStep == ASSUME IInv, NEW a \in App, Tick(a) PROVE IInv'
<1>1. PICK fate \in [Device -> Fate] :
        /\ \A d \in Device : Possible(fleet[d], fate[d])
        /\ fleet' = [d \in Device |-> Simulated(fleet[d], fate[d])]
  BY DEF Tick
<1>2. fleet' \in [Device -> DeviceState]
  BY <1>1, SimulatedType DEF IInv, TypeOK
<1>3. /\ sinceRestart \in [Device -> 0..4]
      /\ sinceRestart' = [d \in Device |-> IF sinceRestart[d] < 3
                                            THEN sinceRestart[d] + 1 ELSE sinceRestart[d]]
      /\ sinceRestart' \in [Device -> 0..4]
  <2>1. sinceRestart \in [Device -> 0..4]
    BY DEF IInv, TypeOK, NotTracked, RestartTicks
  <2>2. sinceRestart' = [d \in Device |-> IF sinceRestart[d] < 3
                                            THEN sinceRestart[d] + 1 ELSE sinceRestart[d]]
    BY DEF Tick, Back, RestartTicks
  <2> QED
    BY <2>1, <2>2
<1>4. ASSUME NEW d \in Device
      PROVE  /\ sinceRestart'[d] < 3 => /\ fleet'[d].status = "Maintenance"
                                        /\ fleet'[d].remaining = 3 - sinceRestart'[d]
             /\ sinceRestart'[d] = 3 => fleet'[d].status # "Maintenance"
  <2>1. /\ fleet[d] \in DeviceState /\ fate[d] \in Fate /\ Possible(fleet[d], fate[d])
        /\ fleet'[d] = Simulated(fleet[d], fate[d])
    BY <1>1 DEF IInv, TypeOK
  <2>2. /\ sinceRestart[d] < 3 => /\ fleet[d].status = "Maintenance"
                                  /\ fleet[d].remaining = 3 - sinceRestart[d]
        /\ sinceRestart[d] = 3 => fleet[d].status # "Maintenance"
    BY DEF IInv, RestartTakesThreeTicks, Back, RestartTicks
  <2>3. CASE sinceRestart[d] \in 0..1
    <3>1. sinceRestart'[d] = sinceRestart[d] + 1 /\ fleet[d].remaining > 1
      BY <1>3, <2>2, <2>3
    <3> QED
      BY <2>1, <2>2, <2>3, <3>1, SimulatedCountdown
  <2>4. CASE sinceRestart[d] = 2
    <3>1. sinceRestart'[d] = 3 /\ fleet[d].remaining = 1 /\ fleet[d].status = "Maintenance"
      BY <1>3, <2>2, <2>4
    <3> QED
      BY <2>1, <3>1, SimulatedCountdown
  <2>5. CASE sinceRestart[d] \in 3..4
    <3>1. sinceRestart'[d] = sinceRestart[d]
      BY <1>3, <2>5
    <3> QED
      BY <2>1, <2>2, <2>5, <3>1, SimulatedType
  <2> QED
    BY <1>3, <2>3, <2>4, <2>5
<1>5. RestartTakesThreeTicks' /\ sinceRestart' \in [Device -> 0..NotTracked]
  BY <1>3, <1>4 DEF RestartTakesThreeTicks, Back, NotTracked, RestartTicks
<1>6. /\ events' \in [App -> SUBSET Entry]
      /\ debt' \in [Device -> [Action -> Int]]
      /\ appPc' \in [App -> {"stopped", "ticking", "logging"}]
      /\ faults' \in 0..MaxFaults
  <2> DEFINE event(d) == EventOf(fleet[d].status, fleet'[d].status)
             turned == {d \in Device : fleet'[d].status # fleet[d].status}
  <2>1. \A d \in Device : event(d) \in Action
    BY DEF EventOf, Action
  <2>2. events' = [events EXCEPT ![a] = {[id |-> d, action |-> event(d)] : d \in turned}]
    BY DEF Tick
  <2>3. debt' = [d \in Device |-> IF d \in turned THEN [debt[d] EXCEPT ![event(d)] = @ + 1]
                                  ELSE debt[d]]
    BY DEF Tick
  <2>4. faults' \in 0..MaxFaults
    <3>1. faults' \in {faults, faults + 1}
      BY Zenon DEF Tick
    <3>2. faults' <= MaxFaults
      BY DEF Tick
    <3> QED
      BY ConstantsAssumption, <3>1, <3>2 DEF IInv, TypeOK
  <2>5. appPc' \in [App -> {"stopped", "ticking", "logging"}]
    BY DEF IInv, TypeOK, Tick
  <2> HIDE DEF event
  <2>6. events' \in [App -> SUBSET Entry]
    BY <2>1, <2>2 DEF IInv, TypeOK, Entry
  <2>7. debt' \in [Device -> [Action -> Int]]
    BY <2>1, <2>3 DEF IInv, TypeOK
  <2> QED
    BY <2>4, <2>5, <2>6, <2>7
<1> QED
  BY <1>2, <1>5, <1>6 DEF IInv, TypeOK, Tick, shellVars, losses

\* A step that leaves the fleet and the count of ticks alone keeps the countdowns.
LEMMA SameFleet ==
  ASSUME RestartTakesThreeTicks, UNCHANGED <<fleet, sinceRestart>>
  PROVE  RestartTakesThreeTicks'
  BY DEF RestartTakesThreeTicks

\* Paying an entry keeps the type of the debt.
LEMMA PayType ==
  ASSUME TypeOK, NEW e \in Entry, debt' = Pays(e)
  PROVE  debt' \in [Device -> [Action -> Int]]
<1>1. e.id \in Device /\ e.action \in Action
  BY DEF Entry
<1> QED
  BY <1>1 DEF TypeOK, Pays

\* A failure is counted, and what it loses remembered.
LEMMA FailsType ==
  ASSUME IInv, NEW harmless \in BOOLEAN, Fails(harmless)
  PROVE  failures' \in 0..MaxFailures /\ faultless' \in BOOLEAN
  BY ConstantsAssumption DEF IInv, TypeOK, Fails

\* Every step keeps the types and the countdowns.
LEMMA StepIInv == IInv /\ [Next]_vars => IInv'
<1> SUFFICES ASSUME IInv, [Next]_vars PROVE IInv'
  OBVIOUS
<1>1. ASSUME NEW a \in App, StartApp(a) PROVE IInv'
  BY <1>1, SameFleet DEF IInv, TypeOK, losses, StartApp, shellVars
<1>2. ASSUME NEW a \in App, Tick(a) PROVE IInv'
  BY <1>2, TickStep
<1>3. ASSUME NEW a \in App, RecordEvent(a) PROVE IInv'
  <2>1. PICK e \in events[a] : debt' = Pays(e) /\ events' = [events EXCEPT ![a] = @ \ {e}]
    BY <1>3 DEF RecordEvent
  <2>2. debt' \in [Device -> [Action -> Int]]
    BY <2>1, PayType DEF IInv, TypeOK
  <2> QED
    BY <1>3, <2>1, <2>2, SameFleet DEF IInv, TypeOK, losses, RecordEvent, shellVars
<1>4. ASSUME NEW a \in App, StopApp(a) PROVE IInv'
  <2>1. failures' \in 0..MaxFailures /\ faultless' \in BOOLEAN
    BY <1>4, FailsType DEF StopApp
  <2> QED
    BY <1>4, <2>1, SameFleet DEF IInv, TypeOK, StopApp, shellVars
<1>5. ASSUME NEW s \in Shell, NEW d \in Device, Restart(s, d) PROVE IInv'
  BY <1>5, RestartsStep DEF IInv, TypeOK, losses, Restart, appVars
<1>6. ASSUME NEW s \in Shell, NEW d \in Device, Set(s, d) PROVE IInv'
  BY <1>6, SetsStep DEF IInv, TypeOK, losses, Set, appVars, Action
<1>7. ASSUME NEW s \in Shell, NEW d \in Device, SetPiped(s, d) PROVE IInv'
  <2>1. view[s][d] \in Status /\ Sets(s, d, view[s][d], "PipedUpdate")
    BY <1>7 DEF IInv, TypeOK, losses, SetPiped
  <2> QED
    BY <1>7, <2>1, SetsStep DEF IInv, TypeOK, losses, SetPiped, appVars, Action
<1>8. ASSUME NEW s \in Shell, NEW d \in Device, Heal(s, d) PROVE IInv'
  BY <1>8, RestartsStep DEF IInv, TypeOK, losses, Heal, appVars
<1>9. ASSUME NEW s \in Shell, NEW d \in Device, Skip(s, d) PROVE IInv'
  BY <1>9, SameFleet DEF IInv, TypeOK, losses, Skip, appVars
<1>10. ASSUME NEW s \in Shell, Look(s) PROVE IInv'
  <2>1. view' \in [Shell -> [Device -> Status \cup {Unseen}]]
    BY <1>10 DEF IInv, TypeOK, losses, Look, DeviceState
  <2> QED
    BY <1>10, <2>1, SameFleet DEF IInv, TypeOK, losses, Look, appVars
<1>11. ASSUME NEW s \in Shell, Diagnose(s) PROVE IInv'
  <2>1. sick' \in [Shell -> SUBSET Device]
    BY <1>11 DEF IInv, TypeOK, losses, Diagnose
  <2>2. shellPc' \in [Shell -> {"prompt", "record", "healing"}]
    BY <1>11 DEF IInv, TypeOK, losses, Diagnose
  <2>3. UNCHANGED <<fleet, debt, sinceRestart, appVars, entry, view, commands, faults, losses>>
    BY <1>11 DEF Diagnose
  <2> QED
    BY <2>1, <2>2, <2>3, SameFleet DEF IInv, TypeOK, losses, appVars
<1>12. ASSUME NEW s \in Shell, Record(s) PROVE IInv'
  <2>1. debt' \in [Device -> [Action -> Int]]
    <3>1. CASE entry[s] \in Entry
      BY <1>12, <3>1, PayType DEF IInv, Record
    <3>2. CASE entry[s] = NoEntry
      <4>1. "none" \notin Action /\ entry[s].id = "none" /\ entry[s].action = "none"
        BY <3>2 DEF Action, NoEntry
      <4>2. debt' = [debt EXCEPT !["none"]["none"] = debt["none"]["none"] - 1]
        BY <1>12, <4>1 DEF Record, Pays
      <4>3. ASSUME NEW f \in [Action -> Int], NEW n
            PROVE  [f EXCEPT !["none"] = n] \in [Action -> Int]
        BY <4>1
      <4> QED
        BY <4>2, <4>3 DEF IInv, TypeOK
    <3> QED
      BY <3>1, <3>2 DEF IInv, TypeOK
  <2> QED
    BY <1>12, <2>1, SameFleet DEF IInv, TypeOK, losses, Record, NextPrompt, appVars
<1>13. ASSUME NEW s \in Shell, RecordTimeout(s) PROVE IInv'
  <2>1. failures' \in 0..MaxFailures /\ faultless' \in BOOLEAN
    BY <1>13, FailsType DEF RecordTimeout
  <2> QED
    BY <1>13, <2>1, SameFleet DEF IInv, TypeOK, RecordTimeout, NextPrompt, appVars
<1>14. ASSUME NEW s \in Shell, CloseShell(s) PROVE IInv'
  <2>1. view' \in [Shell -> [Device -> Status \cup {Unseen}]]
    BY <1>14 DEF IInv, TypeOK, CloseShell
  <2>2. failures' \in 0..MaxFailures /\ faultless' \in BOOLEAN
    BY <1>14, FailsType DEF CloseShell
  <2> QED
    BY <1>14, <2>1, <2>2, SameFleet DEF IInv, TypeOK, CloseShell, appVars
<1>15. CASE UNCHANGED vars
  BY <1>15, SameFleet DEF IInv, TypeOK, losses, vars
<1> QED
  BY <1>1, <1>2, <1>3, <1>4, <1>5, <1>6, <1>7, <1>8, <1>9, <1>10, <1>11, <1>12,
     <1>13, <1>14, <1>15
  DEF Next, AppNext, ShellNext

THEOREM Inductive == Spec => []IInv
  BY InitIInv, StepIInv, PTL DEF Spec

\* Every variable of the system keeps its type, for any apps, shells and devices.
THEOREM TypeCorrect == Spec => []TypeOK
  BY Inductive, PTL DEF IInv

\* A restart nobody overrides lasts three ticks, of whichever apps, for any
\* apps, shells and devices (DeviceCommandService.Restart, RandomDeviceSimulator).
THEOREM RestartTakesThreeTicksHolds == Spec => []RestartTakesThreeTicks
  BY Inductive, PTL DEF IInv

-------------------------------------------------------------------------------
(* The audit trail keeps step with the fleet, for any finite sets of apps and    *)
(* shells and any devices: each step changes what is owed for a device by as     *)
(* much as the debt of that device.                                              *)

\* Who still has to log entry e.
Logging(e)   == {a \in App : e \in events[a]}
Recording(e) == {s \in Shell : entry[s] = e}

Made(d, action) == [id |-> d, action |-> action]

\* A process has something to log only while it is about to log it.
PlaceInv ==
    /\ \A a \in App : appPc[a] # "logging" => events[a] = {}
    /\ \A s \in Shell : (shellPc[s] = "record") <=> (entry[s] # NoEntry)

\* The debt of d for that action covers what is owed, and is that while nothing failed.
Balanced(d, action) ==
    /\ debt[d][action] >= Owing(d, action)
    /\ faultless => debt[d][action] = Owing(d, action)

AuditInv == IInv /\ PlaceInv /\ AuditInStep

\* A set that one process joins, or leaves, is larger or smaller by one.
LEMMA CardinalityMoves ==
  ASSUME NEW S, NEW T, NEW x, IsFiniteSet(S)
  PROVE  /\ Cardinality(S) \in Nat
         /\ T = S => Cardinality(T) = Cardinality(S)
         /\ x \notin S /\ T = S \cup {x} => Cardinality(T) = Cardinality(S) + 1
         /\ x \in S /\ T = S \ {x} => Cardinality(T) = Cardinality(S) - 1
         /\ T \subseteq S => Cardinality(T) \in Nat /\ Cardinality(T) <= Cardinality(S)
<1>1. Cardinality(S) \in Nat
  BY FS_CardinalityType
<1>2. x \notin S => Cardinality(S \cup {x}) = Cardinality(S) + 1
  BY FS_AddElement
<1>3. x \in S => Cardinality(S \ {x}) = Cardinality(S) - 1
  BY FS_RemoveElement
<1>4. T \subseteq S => Cardinality(T) \in Nat /\ Cardinality(T) <= Cardinality(S)
  BY FS_Subset, FS_CardinalityType
<1> QED
  BY <1>1, <1>2, <1>3, <1>4

\* What is owed, by apps and by shells.
LEMMA OwingIsNat ==
  ASSUME NEW d, NEW action
  PROVE  /\ IsFiniteSet(Logging(Made(d, action))) /\ IsFiniteSet(Recording(Made(d, action)))
         /\ Cardinality(Logging(Made(d, action))) \in Nat
         /\ Cardinality(Recording(Made(d, action))) \in Nat
         /\ Owing(d, action) = Cardinality(Logging(Made(d, action))) + Cardinality(Recording(Made(d, action)))
<1> DEFINE e == Made(d, action)
<1>1. IsFiniteSet(Logging(e)) /\ IsFiniteSet(Recording(e))
  BY ConstantsAssumption, FS_Subset DEF Logging, Recording
<1>2. Owing(d, action) = Cardinality(Logging(e)) + Cardinality(Recording(e))
  BY DEF Owing, Logging, Recording, Made
<1> QED
  BY <1>1, <1>2, FS_CardinalityType

\* A change that is made and owed, or logged, or neither.
LEMMA StaysBalanced ==
  ASSUME IInv, AuditInStep, NEW d \in Device, NEW action \in Action, NEW k \in Int,
         faultless' => faultless,
         debt'[d][action] = debt[d][action] + k,
         Owing(d, action)' = Owing(d, action) + k
  PROVE  Balanced(d, action)'
<1>1. debt[d][action] \in Int /\ Owing(d, action) \in Int
  BY OwingIsNat DEF IInv, TypeOK
<1>2. debt[d][action] >= Owing(d, action) /\ (faultless => debt[d][action] = Owing(d, action))
  BY DEF AuditInStep
<1> QED
  BY <1>1, <1>2 DEF Balanced

\* A failure: what was owed is owed by nobody, and the trail is short of it.
LEMMA FailsBalanced ==
  ASSUME IInv, AuditInStep, NEW d \in Device, NEW action \in Action,
         ~faultless', debt' = debt,
         Logging(Made(d, action))' \subseteq Logging(Made(d, action)),
         Recording(Made(d, action))' \subseteq Recording(Made(d, action))
  PROVE  Balanced(d, action)'
<1> DEFINE e == Made(d, action)
<1>1. /\ Cardinality(Logging(e)') \in Nat /\ Cardinality(Logging(e)') <= Cardinality(Logging(e))
      /\ Cardinality(Recording(e)') \in Nat /\ Cardinality(Recording(e)') <= Cardinality(Recording(e))
      /\ Cardinality(Logging(e)) \in Nat /\ Cardinality(Recording(e)) \in Nat
  BY OwingIsNat, CardinalityMoves
<1>2. /\ Owing(d, action) = Cardinality(Logging(e)) + Cardinality(Recording(e))
      /\ Owing(d, action)' = Cardinality(Logging(e)') + Cardinality(Recording(e)')
  BY OwingIsNat DEF Owing, Logging, Recording, Made
<1>3. debt[d][action] \in Int /\ debt[d][action] >= Owing(d, action)
  BY DEF IInv, TypeOK, AuditInStep
<1> QED
  BY <1>1, <1>2, <1>3 DEF Balanced

\* What an entry says is all there is to it.
LEMMA MadeIsEntry ==
  /\ \A d, d2, action, action2 : Made(d, action) = Made(d2, action2) <=> d = d2 /\ action = action2
  /\ \A d \in Device, action \in Action : Made(d, action) \in Entry /\ Made(d, action) # NoEntry
  /\ \A e \in Entry : e = Made(e.id, e.action) /\ e.id \in Device /\ e.action \in Action
  BY DEF Made, Entry, NoEntry, Action

\* One more, or one less, for the device and the action of the entry.
LEMMA DebtMoves ==
  ASSUME IInv, NEW d \in Device, NEW action \in Action, NEW e \in Entry
  PROVE  /\ Pays(e)[d][action] = IF e = Made(d, action) THEN debt[d][action] - 1 ELSE debt[d][action]
         /\ Owes(e.id, e.action)[d][action] =
               IF e = Made(d, action) THEN debt[d][action] + 1 ELSE debt[d][action]
<1>1. e.id \in Device /\ e.action \in Action /\ (e = Made(d, action) <=> e.id = d /\ e.action = action)
  BY MadeIsEntry
<1>2. debt \in [Device -> [Action -> Int]]
  BY DEF IInv, TypeOK
<1> QED
  BY <1>1, <1>2 DEF Pays, Owes

\* The parts of Owing after a step, from what it did to who logs and who records.
LEMMA OwingMoves ==
  ASSUME NEW d \in Device, NEW action \in Action, NEW m \in Int, NEW k \in Int,
         Cardinality(Logging(Made(d, action))') = Cardinality(Logging(Made(d, action))) + m,
         Cardinality(Recording(Made(d, action))') = Cardinality(Recording(Made(d, action))) + k
  PROVE  Owing(d, action)' = Owing(d, action) + m + k
<1> DEFINE e == Made(d, action)
<1>1. Cardinality(Logging(e)) \in Nat /\ Cardinality(Recording(e)) \in Nat
  BY OwingIsNat
<1>2. /\ Owing(d, action) = Cardinality(Logging(e)) + Cardinality(Recording(e))
      /\ Owing(d, action)' = Cardinality(Logging(e)') + Cardinality(Recording(e)')
  BY DEF Owing, Logging, Recording, Made
<1> QED
  BY <1>1, <1>2

\* A step that makes no change and logs none.
LEMMA QuietStep ==
  ASSUME IInv, AuditInStep, UNCHANGED <<debt, events, entry>>, faultless' => faultless
  PROVE  AuditInStep'
  BY DEF AuditInStep, Owing

\* A shell commits a change and takes up its entry.
LEMMA CommitStep ==
  ASSUME AuditInv, NEW s \in Shell, shellPc[s] # "record",
         NEW d0 \in Device, NEW x, NEW action0 \in Action, Commits(s, d0, x, action0),
         UNCHANGED <<events, appPc, faultless>>
  PROVE  AuditInStep' /\ PlaceInv'
<1> DEFINE e0 == Made(d0, action0)
<1>1. /\ debt' = Owes(d0, action0) /\ entry' = [entry EXCEPT ![s] = e0]
      /\ shellPc' = [shellPc EXCEPT ![s] = "record"]
  BY DEF Commits, Made
<1>2. entry[s] = NoEntry /\ e0 \in Entry /\ e0 # NoEntry /\ e0.id = d0 /\ e0.action = action0
  <2>1. entry[s] = NoEntry
    BY DEF AuditInv, PlaceInv
  <2> QED
    BY <2>1, MadeIsEntry DEF Made
<1> HIDE DEF e0
<1>3. entry \in [Shell -> Entry \cup {NoEntry}] /\ shellPc \in [Shell -> {"prompt", "record", "healing"}]
  BY DEF AuditInv, IInv, TypeOK
<1>4. PlaceInv'
  BY <1>1, <1>2, <1>3 DEF AuditInv, PlaceInv
<1>5. ASSUME NEW d \in Device, NEW action \in Action PROVE Balanced(d, action)'
  <2> DEFINE e == Made(d, action)
  <2>1. Logging(e)' = Logging(e)
    BY DEF Logging
  <2>2. e # NoEntry
    BY MadeIsEntry
  <2>3. /\ IsFiniteSet(Recording(e)) /\ Cardinality(Recording(e)) \in Nat
        /\ Cardinality(Logging(e)) \in Nat /\ Cardinality(Logging(e)') = Cardinality(Logging(e)) + 0
    BY <2>1, OwingIsNat
  <2> HIDE DEF e
  <2>4. CASE e = e0
    <3>1. s \notin Recording(e) /\ Recording(e)' = Recording(e) \cup {s}
      BY <1>1, <1>2, <1>3, <2>2, <2>4 DEF Recording
    <3>2. Cardinality(Recording(e)') = Cardinality(Recording(e)) + 1
      BY <2>3, <3>1, CardinalityMoves
    <3>3. Owing(d, action)' = Owing(d, action) + 0 + 1
      BY <2>3, <3>2, OwingMoves DEF e
    <3>4. debt'[d][action] = debt[d][action] + 1
      BY <1>1, <1>2, <2>4, DebtMoves DEF AuditInv, e
    <3> QED
      BY <3>3, <3>4, StaysBalanced, OwingIsNat DEF AuditInv
  <2>5. CASE e # e0
    <3>1. Recording(e)' = Recording(e)
      BY <1>1, <1>2, <1>3, <2>2, <2>5 DEF Recording
    <3>2. Owing(d, action)' = Owing(d, action) + 0 + 0
      <4>1. Cardinality(Recording(e)') = Cardinality(Recording(e)) + 0
        BY <2>3, <3>1
      <4> QED
        BY <2>3, <4>1, OwingMoves DEF e
    <3>3. debt'[d][action] = debt[d][action]
      BY <1>1, <1>2, <2>5, DebtMoves DEF AuditInv, e
    <3>4. debt[d][action] \in Int /\ Owing(d, action) \in Nat
      BY OwingIsNat DEF AuditInv, IInv, TypeOK
    <3> QED
      BY <3>2, <3>3, <3>4, StaysBalanced DEF AuditInv
  <2> QED
    BY <2>4, <2>5
<1> QED
  BY <1>4, <1>5 DEF AuditInStep, Balanced

\* A shell logs the entry it had taken up.
LEMMA RecordStep ==
  ASSUME AuditInv, NEW s \in Shell, Record(s)
  PROVE  AuditInStep' /\ PlaceInv'
<1> DEFINE e0 == entry[s]
<1>1. /\ debt' = Pays(e0) /\ entry' = [entry EXCEPT ![s] = NoEntry]
      /\ shellPc' = [shellPc EXCEPT ![s] = NextPrompt(s)] /\ NextPrompt(s) # "record"
      /\ UNCHANGED <<events, appPc, faultless>>
  BY DEF Record, NextPrompt, appVars, losses
<1>2. e0 \in Entry
  BY DEF Record, AuditInv, PlaceInv, IInv, TypeOK
<1>3. entry \in [Shell -> Entry \cup {NoEntry}] /\ shellPc \in [Shell -> {"prompt", "record", "healing"}]
  BY DEF AuditInv, IInv, TypeOK
<1>4. PlaceInv'
  BY <1>1, <1>3 DEF AuditInv, PlaceInv
<1>5. ASSUME NEW d \in Device, NEW action \in Action PROVE Balanced(d, action)'
  <2> DEFINE e == Made(d, action)
  <2>1. Logging(e)' = Logging(e)
    BY <1>1 DEF Logging
  <2>2. e # NoEntry
    BY MadeIsEntry
  <2>3. /\ IsFiniteSet(Recording(e)) /\ Cardinality(Recording(e)) \in Nat
        /\ Cardinality(Logging(e)) \in Nat /\ Cardinality(Logging(e)') = Cardinality(Logging(e)) + 0
    BY <2>1, OwingIsNat
  <2> HIDE DEF e
  <2>4. CASE e = e0
    <3>1. s \in Recording(e) /\ Recording(e)' = Recording(e) \ {s}
      BY <1>1, <1>3, <2>2, <2>4 DEF Recording
    <3>2. Cardinality(Recording(e)') = Cardinality(Recording(e)) + -1
      BY <2>3, <3>1, CardinalityMoves
    <3>3. Owing(d, action)' = Owing(d, action) + 0 + -1
      BY <2>3, <3>2, OwingMoves DEF e
    <3>4. debt'[d][action] = debt[d][action] + -1
      BY <1>1, <1>2, <2>4, DebtMoves DEF AuditInv, e, IInv, TypeOK
    <3> QED
      BY <1>1, <3>3, <3>4, StaysBalanced, OwingIsNat DEF AuditInv
  <2>5. CASE e # e0
    <3>1. Recording(e)' = Recording(e)
      BY <1>1, <1>3, <2>2, <2>5 DEF Recording
    <3>2. Owing(d, action)' = Owing(d, action) + 0 + 0
      <4>1. Cardinality(Recording(e)') = Cardinality(Recording(e)) + 0
        BY <2>3, <3>1
      <4> QED
        BY <2>3, <4>1, OwingMoves DEF e
    <3>3. debt'[d][action] = debt[d][action]
      BY <1>1, <1>2, <2>5, DebtMoves DEF AuditInv, e
    <3>4. debt[d][action] \in Int /\ Owing(d, action) \in Nat
      BY OwingIsNat DEF AuditInv, IInv, TypeOK
    <3> QED
      BY <1>1, <3>2, <3>3, <3>4, StaysBalanced DEF AuditInv
  <2> QED
    BY <2>4, <2>5
<1> QED
  BY <1>4, <1>5 DEF AuditInStep, Balanced

\* An app logs one of the events of its tick.
LEMMA RecordEventStep ==
  ASSUME AuditInv, NEW a \in App, RecordEvent(a)
  PROVE  AuditInStep' /\ PlaceInv'
<1>1. PICK e0 \in events[a] : debt' = Pays(e0) /\ events' = [events EXCEPT ![a] = @ \ {e0}]
  BY DEF RecordEvent
<1>2. /\ appPc' = [appPc EXCEPT ![a] = IF events'[a] = {} THEN "ticking" ELSE "logging"]
      /\ UNCHANGED <<entry, shellPc, faultless>>
  BY DEF RecordEvent, shellVars, losses
<1>3. events \in [App -> SUBSET Entry] /\ appPc \in [App -> {"stopped", "ticking", "logging"}]
  BY DEF AuditInv, IInv, TypeOK
<1>4. e0 \in Entry
  BY <1>3
<1>5. PlaceInv'
  BY <1>1, <1>2, <1>3 DEF AuditInv, PlaceInv
<1>6. ASSUME NEW d \in Device, NEW action \in Action PROVE Balanced(d, action)'
  <2> DEFINE e == Made(d, action)
  <2>1. Recording(e)' = Recording(e)
    BY <1>2 DEF Recording
  <2>2. /\ IsFiniteSet(Logging(e)) /\ Cardinality(Logging(e)) \in Nat
        /\ Cardinality(Recording(e)) \in Nat /\ Cardinality(Recording(e)') = Cardinality(Recording(e)) + 0
    BY <2>1, OwingIsNat
  <2> HIDE DEF e
  <2>3. CASE e = e0
    <3>1. a \in Logging(e) /\ Logging(e)' = Logging(e) \ {a}
      BY <1>1, <1>3, <2>3 DEF Logging
    <3>2. Cardinality(Logging(e)') = Cardinality(Logging(e)) + -1
      BY <2>2, <3>1, CardinalityMoves
    <3>3. Owing(d, action)' = Owing(d, action) + -1 + 0
      BY <2>2, <3>2, OwingMoves DEF e
    <3>4. debt'[d][action] = debt[d][action] + -1
      BY <1>1, <1>4, <2>3, DebtMoves DEF AuditInv, e, IInv, TypeOK
    <3> QED
      BY <1>2, <3>3, <3>4, StaysBalanced, OwingIsNat DEF AuditInv
  <2>4. CASE e # e0
    <3>1. Logging(e)' = Logging(e)
      BY <1>1, <1>3, <2>4 DEF Logging
    <3>2. Owing(d, action)' = Owing(d, action) + 0 + 0
      <4>1. Cardinality(Logging(e)') = Cardinality(Logging(e)) + 0
        BY <2>2, <3>1
      <4> QED
        BY <2>2, <4>1, OwingMoves DEF e
    <3>3. debt'[d][action] = debt[d][action]
      BY <1>1, <1>4, <2>4, DebtMoves DEF AuditInv, e
    <3>4. debt[d][action] \in Int /\ Owing(d, action) \in Nat
      BY OwingIsNat DEF AuditInv, IInv, TypeOK
    <3> QED
      BY <1>2, <3>2, <3>3, <3>4, StaysBalanced DEF AuditInv
  <2> QED
    BY <2>3, <2>4
<1> QED
  BY <1>5, <1>6 DEF AuditInStep, Balanced

\* A tick owes one event for each device whose status it changes.
LEMMA TickAudit ==
  ASSUME AuditInv, NEW a \in App, Tick(a)
  PROVE  AuditInStep' /\ PlaceInv'
<1> DEFINE turned == {d \in Device : fleet'[d].status # fleet[d].status}
           event(d) == EventOf(fleet[d].status, fleet'[d].status)
           new == {Made(d, event(d)) : d \in turned}
<1>1. /\ events' = [events EXCEPT ![a] = new]
      /\ debt' = [d \in Device |-> IF d \in turned THEN [debt[d] EXCEPT ![event(d)] = @ + 1]
                                   ELSE debt[d]]
      /\ appPc[a] = "ticking"
      /\ appPc' = [appPc EXCEPT ![a] = IF events'[a] = {} THEN "ticking" ELSE "logging"]
      /\ UNCHANGED <<entry, shellPc, faultless>>
  BY DEF Tick, shellVars, losses, Made
<1> HIDE DEF turned, event
<1>2. /\ events \in [App -> SUBSET Entry] /\ appPc \in [App -> {"stopped", "ticking", "logging"}]
      /\ debt \in [Device -> [Action -> Int]] /\ events[a] = {}
  BY <1>1 DEF AuditInv, IInv, TypeOK, PlaceInv
<1>3. ASSUME NEW d \in Device, NEW action \in Action
      PROVE  Made(d, action) \in new <=> d \in turned /\ event(d) = action
  BY MadeIsEntry
<1> HIDE DEF new
<1>4. PlaceInv'
  BY <1>1, <1>2 DEF AuditInv, PlaceInv
<1>5. ASSUME NEW d \in Device, NEW action \in Action PROVE Balanced(d, action)'
  <2> DEFINE e == Made(d, action)
  <2>1. Recording(e)' = Recording(e)
    BY <1>1 DEF Recording
  <2>2. /\ IsFiniteSet(Logging(e)) /\ Cardinality(Logging(e)) \in Nat
        /\ Cardinality(Recording(e)) \in Nat /\ Cardinality(Recording(e)') = Cardinality(Recording(e)) + 0
    BY <2>1, OwingIsNat
  <2>3. e \in new <=> d \in turned /\ event(d) = action
    BY <1>3
  <2> HIDE DEF e
  <2>4. CASE d \in turned /\ event(d) = action
    <3>1. a \notin Logging(e) /\ Logging(e)' = Logging(e) \cup {a}
      BY <1>1, <1>2, <2>3, <2>4 DEF Logging
    <3>2. Cardinality(Logging(e)') = Cardinality(Logging(e)) + 1
      BY <2>2, <3>1, CardinalityMoves
    <3>3. Owing(d, action)' = Owing(d, action) + 1 + 0
      BY <2>2, <3>2, OwingMoves DEF e
    <3>4. debt'[d][action] = debt[d][action] + 1
      BY <1>1, <1>2, <2>4
    <3> QED
      BY <1>1, <3>3, <3>4, StaysBalanced, OwingIsNat DEF AuditInv
  <2>5. CASE ~(d \in turned /\ event(d) = action)
    <3>1. Logging(e)' = Logging(e)
      BY <1>1, <1>2, <2>3, <2>5 DEF Logging
    <3>2. Owing(d, action)' = Owing(d, action) + 0 + 0
      <4>1. Cardinality(Logging(e)') = Cardinality(Logging(e)) + 0
        BY <2>2, <3>1
      <4> QED
        BY <2>2, <4>1, OwingMoves DEF e
    <3>3. debt'[d][action] = debt[d][action]
      BY <1>1, <1>2, <2>5
    <3>4. debt[d][action] \in Int /\ Owing(d, action) \in Nat
      BY OwingIsNat DEF AuditInv, IInv, TypeOK
    <3> QED
      BY <1>1, <3>2, <3>3, <3>4, StaysBalanced DEF AuditInv
  <2> QED
    BY <2>4, <2>5
<1> QED
  BY <1>4, <1>5 DEF AuditInStep, Balanced

\* An app that stops takes what it had to log with it.
LEMMA StopAppStep ==
  ASSUME AuditInv, NEW a \in App, StopApp(a)
  PROVE  AuditInStep' /\ PlaceInv'
<1>1. /\ appPc' = [appPc EXCEPT ![a] = "stopped"] /\ events' = [events EXCEPT ![a] = {}]
      /\ UNCHANGED <<debt, entry, shellPc>>
      /\ faultless' = (faultless /\ events[a] = {})
  BY DEF StopApp, shellVars, Fails
<1>2. events \in [App -> SUBSET Entry] /\ appPc \in [App -> {"stopped", "ticking", "logging"}]
  BY DEF AuditInv, IInv, TypeOK
<1>3. PlaceInv'
  BY <1>1, <1>2 DEF AuditInv, PlaceInv
<1>4. CASE faultless'
  <2>1. events' = events /\ faultless
    BY <1>1, <1>2, <1>4
  <2> QED
    BY <1>1, <1>3, <2>1, QuietStep DEF AuditInv
<1>5. CASE ~faultless'
  <2>1. \A e : Logging(e)' \subseteq Logging(e) /\ Recording(e)' \subseteq Recording(e)
    BY <1>1, <1>2 DEF Logging, Recording
  <2>2. ASSUME NEW d \in Device, NEW action \in Action PROVE Balanced(d, action)'
    BY <1>1, <1>5, <2>1, FailsBalanced DEF AuditInv, Logging, Recording
  <2> QED
    BY <1>3, <2>2 DEF AuditInStep, Balanced
<1> QED
  BY <1>4, <1>5

\* And so does a shell: its command, or the whole shell, is gone.
LEMMA ShellFailsStep ==
  ASSUME AuditInv, NEW s \in Shell, RecordTimeout(s) \/ CloseShell(s)
  PROVE  AuditInStep' /\ PlaceInv'
<1>1. /\ entry' = [entry EXCEPT ![s] = NoEntry]
      /\ \E place : place # "record" /\ shellPc' = [shellPc EXCEPT ![s] = place]
      /\ UNCHANGED <<debt, events, appPc>>
      /\ faultless' => faultless /\ entry[s] = NoEntry
  BY DEF RecordTimeout, CloseShell, NextPrompt, appVars, Fails
<1>2. entry \in [Shell -> Entry \cup {NoEntry}] /\ shellPc \in [Shell -> {"prompt", "record", "healing"}]
  BY DEF AuditInv, IInv, TypeOK
<1>3. PlaceInv'
  BY <1>1, <1>2 DEF AuditInv, PlaceInv
<1>4. CASE faultless'
  <2>1. entry' = entry /\ faultless
    BY <1>1, <1>2, <1>4
  <2> QED
    BY <1>1, <1>3, <2>1, QuietStep DEF AuditInv
<1>5. CASE ~faultless'
  <2>1. ASSUME NEW d \in Device, NEW action \in Action PROVE Balanced(d, action)'
    <3> DEFINE e == Made(d, action)
    <3>1. e # NoEntry
      BY MadeIsEntry
    <3>2. Logging(e)' \subseteq Logging(e) /\ Recording(e)' \subseteq Recording(e)
      BY <1>1, <1>2, <3>1 DEF Logging, Recording
    <3> QED
      BY <1>1, <1>5, <3>2, FailsBalanced DEF AuditInv
  <2> QED
    BY <1>3, <2>1 DEF AuditInStep, Balanced
<1> QED
  BY <1>4, <1>5

\* Initially nothing was changed, and nobody owes an entry.
LEMMA AuditInit == Init => AuditInv
<1> SUFFICES ASSUME Init PROVE AuditInv
  OBVIOUS
<1>1. PlaceInv
  BY DEF Init, PlaceInv
<1>2. ASSUME NEW d \in Device, NEW action \in Action PROVE Balanced(d, action)
  <2> DEFINE e == Made(d, action)
  <2>1. Logging(e) = {} /\ Recording(e) = {}
    BY MadeIsEntry DEF Init, Logging, Recording
  <2>2. Owing(d, action) = 0
    BY <2>1, OwingIsNat, FS_EmptySet
  <2> QED
    BY <2>2 DEF Init, Balanced
<1> QED
  BY <1>1, <1>2, InitIInv DEF AuditInv, AuditInStep, Balanced

\* Every step keeps the balance.
LEMMA AuditStep == AuditInv /\ [Next]_vars => AuditInv'
<1> SUFFICES ASSUME AuditInv, [Next]_vars PROVE AuditInStep' /\ PlaceInv'
  BY StepIInv DEF AuditInv
<1>1. ASSUME NEW a \in App, AppNext(a) PROVE AuditInStep' /\ PlaceInv'
  <2>1. CASE StartApp(a)
    <3>1. PlaceInv'
      BY <2>1 DEF AuditInv, IInv, TypeOK, PlaceInv, StartApp, shellVars
    <3> QED
      BY <2>1, <3>1, QuietStep DEF AuditInv, StartApp, shellVars, losses
  <2> QED
    BY <1>1, <2>1, TickAudit, RecordEventStep, StopAppStep DEF AppNext
<1>2. ASSUME NEW s \in Shell, NEW d \in Device,
             Restart(s, d) \/ Set(s, d) \/ SetPiped(s, d) \/ Heal(s, d)
      PROVE  AuditInStep' /\ PlaceInv'
  <2>1. /\ shellPc[s] # "record" /\ UNCHANGED <<events, appPc, faultless>>
        /\ \E x : \E action \in {"Restart", "Update", "PipedUpdate"} : Commits(s, d, x, action)
    <3>1. CASE Restart(s, d)
      BY <3>1 DEF Restart, Restarts, appVars, losses
    <3>2. CASE Set(s, d)
      BY <3>2 DEF Set, Sets, appVars, losses
    <3>3. CASE SetPiped(s, d)
      BY <3>3 DEF SetPiped, Sets, appVars, losses
    <3>4. CASE Heal(s, d)
      BY <3>4 DEF Heal, Restarts, appVars, losses
    <3> QED
      BY <1>2, <3>1, <3>2, <3>3, <3>4
  <2> QED
    BY <2>1, CommitStep DEF Action
<1>3. ASSUME NEW s \in Shell, Look(s) \/ Diagnose(s) \/ \E d \in Device : Skip(s, d)
      PROVE  AuditInStep' /\ PlaceInv'
  <2>1. /\ shellPc[s] # "record"
        /\ \E place : place # "record" /\ shellPc' = [shellPc EXCEPT ![s] = place]
        /\ UNCHANGED <<debt, events, entry, appPc, faultless>>
    <3>1. shellPc \in [Shell -> {"prompt", "record", "healing"}]
      BY DEF AuditInv, IInv, TypeOK
    <3>2. CASE Look(s)
      <4>1. shellPc[s] = "prompt" /\ shellPc' = [shellPc EXCEPT ![s] = "prompt"]
        BY <3>1, <3>2 DEF Look
      <4> QED
        BY <3>2, <4>1 DEF Look, appVars, losses
    <3>3. CASE Diagnose(s)
      BY <3>3 DEF Diagnose, appVars, losses
    <3>4. CASE \E d \in Device : Skip(s, d)
      BY <3>4 DEF Skip, appVars, losses
    <3> QED
      BY <1>3, <3>2, <3>3, <3>4
  <2>2. PlaceInv'
    BY <2>1 DEF AuditInv, IInv, TypeOK, PlaceInv
  <2> QED
    BY <2>1, <2>2, QuietStep DEF AuditInv
<1>4. CASE UNCHANGED vars
  BY <1>4, QuietStep DEF AuditInv, PlaceInv, vars, appVars, shellVars, losses
<1> QED
  BY <1>1, <1>2, <1>3, <1>4, RecordStep, ShellFailsStep DEF Next, ShellNext

\* The log never tells of a change that was not made, or twice of one, and while no
\* process fails between its two sessions every change has been logged or somebody is
\* about to log it, for any devices and finite sets of apps and shells
\* (DeviceCommandService, SimulationWorker).
THEOREM AuditInStepHolds == Spec => []AuditInStep
<1>1. AuditInv => AuditInStep
  BY DEF AuditInv
<1> QED
  BY <1>1, AuditInit, AuditStep, PTL DEF Spec
===============================================================================
