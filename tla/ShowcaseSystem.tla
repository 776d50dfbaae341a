---------------------------- MODULE ShowcaseSystem ----------------------------
(* Showcase.App and the pwsh sessions around the fleet and the activity log they *)
(* share, one lock session per step: DeviceRepository shows that a session of    *)
(* the repository is atomic, and the log's append runs under the same lock.      *)
(*                                                                               *)
(* A command is two sessions, the change and its log entry, and a tick is one    *)
(* session for the whole fleet followed by one per event.  Anything may happen   *)
(* between two sessions, and what a process remembers from the first is stale in *)
(* the second.                                                                   *)
EXTENDS Integers, FiniteSets

CONSTANTS
    App,           \* processes running Showcase.App
    Shell,         \* pwsh sessions that imported the module
    Device,        \* ids of the devices of the fleet
    SeedStatus,    \* status of each device in DeviceSeed.Create
    MinimumGrade,  \* the grade from which Invoke-ShowcaseAutoHeal restarts
    MaxCommands,   \* bound: changes made from shells
    MaxFaults,     \* bound: devices that start overheating by themselves
    MaxFailures    \* bound: processes that are stopped, or time out on the lock

Status == {"Online", "Degraded", "Offline", "Maintenance"}
Grade  == {"Healthy", "Warning", "Critical"}

\* What the log says of an entry.  An update of a piped object is an "Update" whose
\* description names what the object held.
Action == {"Restart", "Update", "PipedUpdate", "Fault", "Offline", "Online"}

ASSUME ConstantsAssumption ==
    /\ IsFiniteSet(App) /\ IsFiniteSet(Shell)
    /\ SeedStatus \in [Device -> Status \ {"Maintenance"}]
    /\ MinimumGrade \in Grade \ {"Healthy"}
    /\ MaxCommands \in Nat /\ MaxFaults \in Nat /\ MaxFailures \in Nat

\* A device's readings against its limits: 0 fine, 1 some reading at its warning
\* threshold, 2 some reading at its critical threshold, 3 at 98 C or above.
Vitals == 0..3

DeviceState == [status : Status, remaining : Int, vitals : Vitals]

\* An entry a process still has to write to the activity log.
Entry   == [id : Device, action : Action]
NoEntry == [id |-> "none", action |-> "none"]

\* The status in an object a shell never fetched.
Unseen == "unseen"

RestartTicks == 3

VARIABLES
    fleet,        \* devices.json
    debt,         \* history: changes made to a device less entries logged for them
    sinceRestart, \* history: ticks a device lived through since its last restart
    events,       \* events[a]: what the tick of app a still has to log
    appPc,        \* where app a stands in ExecuteAsync
    shellPc,      \* where shell s stands
    entry,        \* entry[s]: what the running command of s still has to log
    sick,         \* sick[s]: devices AutoHeal still has to restart
    view,         \* view[s]: the statuses in the objects s keeps in a variable
    commands,     \* bound: changes made from shells so far
    faults,       \* bound: faults so far
    failures,     \* bound: failures so far
    faultless     \* history: no process failed between a change and its entry

vars == <<fleet, debt, sinceRestart, events, appPc, shellPc, entry, sick, view,
          commands, faults, failures, faultless>>

appVars   == <<events, appPc>>
shellVars == <<shellPc, entry, sick, view>>
losses    == <<failures, faultless>>

\* sinceRestart of a device that the simulator brought back, and of one that was
\* put in Maintenance by Set-ShowcaseDevice.
Back       == RestartTicks
NotTracked == RestartTicks + 1

Init ==
    /\ fleet = [d \in Device |-> [status |-> SeedStatus[d], remaining |-> 0,
                                  vitals |-> IF SeedStatus[d] = "Degraded" THEN 1 ELSE 0]]
    /\ debt = [d \in Device |-> [a \in Action |-> 0]]
    /\ sinceRestart = [d \in Device |-> Back]
    /\ events = [a \in App |-> {}]
    /\ appPc = [a \in App |-> "stopped"]
    /\ shellPc = [s \in Shell |-> "prompt"]
    /\ entry = [s \in Shell |-> NoEntry]
    /\ sick = [s \in Shell |-> {}]
    /\ view = [s \in Shell |-> [d \in Device |-> Unseen]]
    /\ commands = 0
    /\ faults = 0
    /\ failures = 0
    /\ faultless = TRUE

-------------------------------------------------------------------------------
(* DeviceHealthAnalyzer *)

\* The worst of what the status, the readings and the silence of a device say.
GradeOf(x, silent) ==
    IF x.status = "Offline" \/ x.vitals >= 2 THEN "Critical"
    ELSE IF x.status \in {"Degraded", "Maintenance"} \/ x.vitals = 1 \/ silent
      THEN "Warning" ELSE "Healthy"

AtLeast(g, min) == g = "Critical" \/ g = min

-------------------------------------------------------------------------------
(* RandomDeviceSimulator *)

\* What one tick may do to a device, besides what follows from its status: its
\* readings after the tick, and whether its dice turn it for the worse.
Fate == [vitals : Vitals, turns : BOOLEAN]

\* Online: readings drift to nominal, where noise takes a busy CPU up to its
\* warning threshold.  Degraded: they only rise, and shutdown needs 98 C.
\* Maintenance: they only fall.  Offline: the device is silent.
Possible(x, f) ==
    CASE x.status = "Online"      -> f.vitals <= x.vitals \/ f.vitals = 1
      [] x.status = "Degraded"    -> /\ f.vitals \in {x.vitals, x.vitals + 1}
                                     /\ f.turns => f.vitals = 3
      [] x.status = "Maintenance" -> f.vitals <= x.vitals /\ ~f.turns
      [] OTHER                    -> f.vitals = x.vitals /\ ~f.turns

\* Mutant of Simulated: the countdown must hit zero exactly.
SimulatedExactly(x, f) ==
    CASE x.status = "Maintenance" /\ x.remaining = 1 ->
            [status |-> "Online", remaining |-> 0, vitals |-> 0]
      [] x.status = "Maintenance" /\ x.remaining # 1 /\ x.remaining > -2 ->
            [x EXCEPT !.remaining = @ - 1, !.vitals = f.vitals]
      [] OTHER -> x

Simulated(x, f) ==
    LET left == x.remaining - 1 IN
    CASE x.status = "Online" ->
            [status |-> IF f.turns THEN "Degraded" ELSE "Online",
             remaining |-> x.remaining, vitals |-> f.vitals]
      [] x.status = "Degraded" ->
            [status |-> IF f.turns THEN "Offline" ELSE "Degraded",
             remaining |-> x.remaining, vitals |-> f.vitals]
      [] x.status = "Maintenance" /\ left > 0 ->
            [status |-> "Maintenance", remaining |-> left, vitals |-> f.vitals]
      [] x.status = "Maintenance" /\ left <= 0 ->
            [status |-> "Online", remaining |-> left, vitals |-> 0]
      [] OTHER -> x

EventOf(before, after) ==
    CASE before = "Online"   -> "Fault"
      [] before = "Degraded" -> "Offline"
      [] OTHER               -> "Online"

-------------------------------------------------------------------------------
(* SimulationWorker *)

\* A process fails, and what it still had to log is lost or nothing is.
Fails(harmless) ==
    /\ failures < MaxFailures
    /\ failures' = failures + 1
    /\ faultless' = (faultless /\ harmless)

StartApp(a) ==
    /\ appPc[a] = "stopped"
    /\ appPc' = [appPc EXCEPT ![a] = "ticking"]
    /\ UNCHANGED <<fleet, debt, sinceRestart, events, shellVars, commands, faults, losses>>

Owes(id, action) == [debt EXCEPT ![id][action] = @ + 1]
Pays(e)          == [debt EXCEPT ![e.id][e.action] = @ - 1]

\* One Update() session moves every device by one tick, and remembers what to log.
Tick(a) ==
    /\ appPc[a] = "ticking"
    /\ \E fate \in [Device -> Fate] :
        /\ \A d \in Device : Possible(fleet[d], fate[d])
        /\ fleet' = [d \in Device |-> Simulated(fleet[d], fate[d])]
    /\ LET turned == {d \in Device : fleet'[d].status # fleet[d].status}
           event(d) == EventOf(fleet[d].status, fleet'[d].status)
       IN /\ events' = [events EXCEPT ![a] = {[id |-> d, action |-> event(d)] : d \in turned}]
          /\ debt' = [d \in Device |-> IF d \in turned
                                         THEN [debt[d] EXCEPT ![event(d)] = @ + 1]
                                         ELSE debt[d]]
          /\ faults' = IF \E d \in turned : event(d) = "Fault" THEN faults + 1 ELSE faults
    /\ faults' <= MaxFaults
    /\ sinceRestart' = [d \in Device |-> IF sinceRestart[d] < Back
                                             THEN sinceRestart[d] + 1 ELSE sinceRestart[d]]
    /\ appPc' = [appPc EXCEPT ![a] = IF events'[a] = {} THEN "ticking" ELSE "logging"]
    /\ UNCHANGED <<shellVars, commands, losses>>

\* One Record() session per event, in the order of the list.
RecordEvent(a) ==
    /\ appPc[a] = "logging"
    /\ \E e \in events[a] :
        /\ debt' = Pays(e)
        /\ events' = [events EXCEPT ![a] = @ \ {e}]
    /\ appPc' = [appPc EXCEPT ![a] = IF events'[a] = {} THEN "ticking" ELSE "logging"]
    /\ UNCHANGED <<fleet, sinceRestart, shellVars, commands, faults, losses>>

\* The app is stopped, killed, or an exception (a lock time-out) leaves
\* ExecuteAsync and stops the host: what it had to log goes with it.
StopApp(a) ==
    /\ appPc[a] # "stopped"
    /\ appPc' = [appPc EXCEPT ![a] = "stopped"]
    /\ events' = [events EXCEPT ![a] = {}]
    /\ Fails(events[a] = {})
    /\ UNCHANGED <<fleet, debt, sinceRestart, shellVars, commands, faults>>

-------------------------------------------------------------------------------
(* DeviceCommandService and the cmdlets *)

\* The first session of a command: device d becomes x, and s owes the log an entry.
Commits(s, d, x, action) ==
    /\ commands < MaxCommands
    /\ commands' = commands + 1
    /\ fleet' = [fleet EXCEPT ![d] = x]
    /\ debt' = Owes(d, action)
    /\ entry' = [entry EXCEPT ![s] = [id |-> d, action |-> action]]
    /\ shellPc' = [shellPc EXCEPT ![s] = "record"]

\* Mutant of Restarts: the countdown of an earlier restart is kept.
RestartsKeepingCount(s, d) ==
    /\ Commits(s, d, [fleet[d] EXCEPT !.status = "Maintenance"], "Restart")
    /\ sinceRestart' = [sinceRestart EXCEPT ![d] = 0]

\* DeviceCommandService.Restart up to its Record.
Restarts(s, d) ==
    /\ Commits(s, d, [status |-> "Maintenance", remaining |-> RestartTicks,
                      vitals |-> fleet[d].vitals], "Restart")
    /\ sinceRestart' = [sinceRestart EXCEPT ![d] = 0]

\* Restart-ShowcaseDevice
Restart(s, d) ==
    /\ shellPc[s] = "prompt"
    /\ Restarts(s, d)
    /\ UNCHANGED <<appVars, sick, view, faults, losses>>

\* DeviceCommandService.Update with Set-ShowcaseDevice's change: the status it
\* names is written and nothing else that the simulator reads.
Sets(s, d, st, action) ==
    /\ Commits(s, d, [fleet[d] EXCEPT !.status = st], action)
    /\ sinceRestart' = [sinceRestart EXCEPT ![d] =
            IF st = fleet[d].status THEN @
            ELSE IF st = "Maintenance" THEN NotTracked ELSE Back]

\* Set-ShowcaseDevice -Status, or another property and the status left alone.
Set(s, d) ==
    /\ shellPc[s] = "prompt"
    /\ \E st \in Status : Sets(s, d, st, "Update")
    /\ UNCHANGED <<appVars, sick, view, faults, losses>>

\* $v = Get-ShowcaseDevice
Look(s) ==
    /\ shellPc[s] = "prompt"
    /\ view' = [view EXCEPT ![s] = [d \in Device |-> fleet[d].status]]
    /\ UNCHANGED <<fleet, debt, sinceRestart, appVars, shellPc, entry, sick,
                   commands, faults, losses>>

\* $v | Set-ShowcaseDevice -Location ...: the object has a Status property, and
\* -Status takes its value from the pipeline by property name.
SetPiped(s, d) ==
    /\ shellPc[s] = "prompt"
    /\ view[s][d] # Unseen
    /\ Sets(s, d, view[s][d], "PipedUpdate")
    /\ UNCHANGED <<appVars, sick, view, faults, losses>>

\* Where a shell goes when a command of its ends, well or not.
NextPrompt(s) == IF sick[s] = {} THEN "prompt" ELSE "healing"

\* Mutant of Record: one command in two forgets its entry.
RecordSometimes(s) ==
    /\ shellPc[s] = "record"
    /\ debt' \in {debt, Pays(entry[s])}
    /\ entry' = [entry EXCEPT ![s] = NoEntry]
    /\ shellPc' = [shellPc EXCEPT ![s] = NextPrompt(s)]
    /\ UNCHANGED <<fleet, sinceRestart, appVars, sick, view, commands, faults, losses>>

\* The second session of a command.
Record(s) ==
    /\ shellPc[s] = "record"
    /\ debt' = Pays(entry[s])
    /\ entry' = [entry EXCEPT ![s] = NoEntry]
    /\ shellPc' = [shellPc EXCEPT ![s] = NextPrompt(s)]
    /\ UNCHANGED <<fleet, sinceRestart, appVars, sick, view, commands, faults, losses>>

\* Record cannot get the lock and throws: the change stays, the entry does not.
\* In a function the exception ends the statement, and the loop goes on.
RecordTimeout(s) ==
    /\ shellPc[s] = "record"
    /\ entry' = [entry EXCEPT ![s] = NoEntry]
    /\ shellPc' = [shellPc EXCEPT ![s] = NextPrompt(s)]
    /\ Fails(FALSE)
    /\ UNCHANGED <<fleet, debt, sinceRestart, appVars, sick, view, commands, faults>>

\* Invoke-ShowcaseAutoHeal takes one look at the fleet...
Diagnose(s) ==
    /\ shellPc[s] = "prompt"
    /\ \E silent \in SUBSET Device :
        sick' = [sick EXCEPT ![s] =
            {d \in Device : AtLeast(GradeOf(fleet[d], d \in silent), MinimumGrade)}]
    /\ shellPc' = [shellPc EXCEPT ![s] = IF sick'[s] = {} THEN "prompt" ELSE "healing"]
    /\ UNCHANGED <<fleet, debt, sinceRestart, appVars, entry, view, commands, faults, losses>>

\* ...and restarts, one at a time, what was sick then.
Heal(s, d) ==
    /\ shellPc[s] = "healing"
    /\ d \in sick[s]
    /\ sick' = [sick EXCEPT ![s] = @ \ {d}]
    /\ Restarts(s, d)
    /\ UNCHANGED <<appVars, view, faults, losses>>

\* The user answers no to ShouldProcess, or Restart times out on its first session.
Skip(s, d) ==
    /\ shellPc[s] = "healing"
    /\ d \in sick[s]
    /\ sick' = [sick EXCEPT ![s] = @ \ {d}]
    /\ shellPc' = [shellPc EXCEPT ![s] = IF sick'[s] = {} THEN "prompt" ELSE "healing"]
    /\ UNCHANGED <<fleet, debt, sinceRestart, appVars, entry, view, commands, faults, losses>>

\* The shell is closed or killed, and another one is opened.
CloseShell(s) ==
    /\ shellPc' = [shellPc EXCEPT ![s] = "prompt"]
    /\ entry' = [entry EXCEPT ![s] = NoEntry]
    /\ sick' = [sick EXCEPT ![s] = {}]
    /\ view' = [view EXCEPT ![s] = [d \in Device |-> Unseen]]
    /\ Fails(entry[s] = NoEntry)
    /\ UNCHANGED <<fleet, debt, sinceRestart, appVars, commands, faults>>

-------------------------------------------------------------------------------

AppNext(a) == StartApp(a) \/ Tick(a) \/ RecordEvent(a) \/ StopApp(a)

ShellNext(s) ==
    \/ \E d \in Device :
        Restart(s, d) \/ Set(s, d) \/ SetPiped(s, d) \/ Heal(s, d) \/ Skip(s, d)
    \/ Look(s) \/ Diagnose(s)
    \/ Record(s) \/ RecordTimeout(s)
    \/ CloseShell(s)

Next ==
    \/ \E a \in App : AppNext(a)
    \/ \E s \in Shell : ShellNext(s)

Spec == Init /\ [][Next]_vars

\* An app is started again, its timer fires and its sessions get the lock in time; a
\* command once begun is finished unless it fails.  Users owe nobody a command.
Fairness ==
    /\ \A a \in App : WF_vars(StartApp(a)) /\ WF_vars(Tick(a)) /\ WF_vars(RecordEvent(a))
    /\ \A s \in Shell : WF_vars(Record(s))

FairSpec == Spec /\ Fairness

-------------------------------------------------------------------------------
(* Properties *)

TypeOK ==
    /\ fleet \in [Device -> DeviceState]
    /\ debt \in [Device -> [Action -> Int]]
    /\ sinceRestart \in [Device -> 0..NotTracked]
    /\ events \in [App -> SUBSET Entry]
    /\ appPc \in [App -> {"stopped", "ticking", "logging"}]
    /\ shellPc \in [Shell -> {"prompt", "record", "healing"}]
    /\ entry \in [Shell -> Entry \cup {NoEntry}]
    /\ sick \in [Shell -> SUBSET Device]
    /\ view \in [Shell -> [Device -> Status \cup {Unseen}]]
    /\ commands \in 0..MaxCommands
    /\ faults \in 0..MaxFaults
    /\ failures \in 0..MaxFailures
    /\ faultless \in BOOLEAN

\* How many live processes still have to log that action for d.
Owing(d, action) ==
    LET e == [id |-> d, action |-> action] IN
    Cardinality({a \in App : e \in events[a]}) + Cardinality({s \in Shell : entry[s] = e})

\* The audit trail keeps step with the fleet: it never tells of a change that was
\* not made, or twice of one, and while no process fails between its two sessions
\* every change that is not logged yet has someone about to log it
\* (DeviceCommandService, SimulationWorker).
AuditInStep ==
    \A d \in Device, action \in Action :
        /\ debt[d][action] >= Owing(d, action)
        /\ faultless => debt[d][action] = Owing(d, action)

\* "a restart puts it in Maintenance for 3 ticks, then the app brings it back":
\* whatever else was done to a device before, a restart that nobody overrides
\* lasts three ticks, of whichever apps, and no more.
RestartTakesThreeTicks ==
    \A d \in Device :
        /\ sinceRestart[d] < RestartTicks =>
              /\ fleet[d].status = "Maintenance"
              /\ fleet[d].remaining = RestartTicks - sinceRestart[d]
        /\ sinceRestart[d] = Back => fleet[d].status # "Maintenance"

\* No device is left in Maintenance, whether a restart put it there or
\* Set-ShowcaseDevice did with no countdown at all, and whichever processes failed in
\* between, as long as an app comes back.
MaintenanceEnds ==
    \A d \in Device : fleet[d].status = "Maintenance" ~> fleet[d].status # "Maintenance"

\* Unless a process fails between a change and its entry, the trail ends up complete.
AuditCatchesUp ==
    []faultless => <>[](\A d \in Device, action \in Action : debt[d][action] = 0)

\* "the app's simulation tick and a PowerShell command can't overwrite each other's
\* changes" (IDeviceRepository.Update): a command that was asked for a new
\* location leaves the status the simulator wrote.
PipedSetKeepsStatus ==
    [][\A s \in Shell, d \in Device :
        SetPiped(s, d) => fleet'[d].status = fleet[d].status]_vars

===============================================================================
