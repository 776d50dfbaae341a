----------------------------- MODULE ModuleServices -----------------------------
(* The DI container of the PowerShell module (ModuleServices), shared by every    *)
(* runspace of a pwsh process, and the commands that run in scopes of it          *)
(* (ShowcaseCmdlet), each of which reports to the container's ModuleSession.      *)
EXTENDS Naturals, FiniteSets

CONSTANTS
    Runspace,    \* threads that run commands: the prompt, ForEach-Object -Parallel
    Nobody,      \* holder of a free Gate
    MaxCommands  \* bound: commands invoked and ids completed

ASSUME ConstantsAssumption ==
    IsFiniteSet(Runspace) /\ Nobody \notin Runspace /\ MaxCommands \in Nat \ {0}

\* Containers and operations are numbered in the order they are made; 0 is null.
Number == 0..MaxCommands

VARIABLES
    gate,      \* the runspace in lock (Gate)
    provider,  \* _provider
    built,     \* containers built so far
    disposed,  \* containers that were disposed
    pc,        \* where the command of each runspace stands
    mine,      \* mine[r]: the container r's command got from Provider
    op,        \* op[r]: the OperationId of its scope
    ops,       \* operations so far
    commands,  \* bound: commands and completions so far
    runs,      \* runs[g]: CommandsRun of the session of container g
    lastOp     \* lastOp[g]: its LastOperationId

vars == <<gate, provider, built, disposed, pc, mine, op, ops, commands, runs, lastOp>>

container == <<gate, provider, built, disposed>>
numbers   == <<op, ops, commands>>
session   == <<runs, lastOp>>

Init ==
    /\ gate = Nobody
    /\ provider = 0
    /\ built = 0
    /\ disposed = {}
    /\ pc = [r \in Runspace |-> "idle"]
    /\ mine = [r \in Runspace |-> 0]
    /\ op = [r \in Runspace |-> 0]
    /\ ops = 0
    /\ commands = 0
    /\ runs = [g \in Number |-> 0]
    /\ lastOp = [g \in Number |-> 0]

Goto(r, place) == pc' = [pc EXCEPT ![r] = place]

-------------------------------------------------------------------------------
(* ModuleServices.Provider, on behalf of a command or of tab completion *)

Invoke(r) ==
    /\ pc[r] = "idle"
    /\ commands < MaxCommands
    /\ commands' = commands + 1
    /\ Goto(r, "enter")
    /\ UNCHANGED <<container, mine, op, ops, session>>

\* Mutant of Enter: no lock around the lazy initialisation.
EnterUnlocked(r) ==
    /\ pc[r] = "enter"
    /\ Goto(r, "check")
    /\ UNCHANGED <<container, mine, numbers, session>>

Enter(r) ==
    /\ pc[r] = "enter"
    /\ gate = Nobody
    /\ gate' = r
    /\ Goto(r, "check")
    /\ UNCHANGED <<provider, built, disposed, mine, numbers, session>>

\* Mutant of Leave: Monitor.Exit is missed.
LeaveForgotten(r) == UNCHANGED gate

Leave(r) == gate' = IF gate = r THEN Nobody ELSE gate

\* _provider ??= Build()
Check(r) ==
    /\ pc[r] = "check"
    /\ IF provider # 0
         THEN /\ mine' = [mine EXCEPT ![r] = provider]
              /\ Leave(r)
              /\ Goto(r, "scope")
         ELSE /\ Goto(r, "build")
              /\ UNCHANGED <<mine, gate>>
    /\ UNCHANGED <<provider, built, disposed, numbers, session>>

Build(r) ==
    /\ pc[r] = "build"
    /\ built' = built + 1
    /\ provider' = built + 1
    /\ mine' = [mine EXCEPT ![r] = built + 1]
    /\ Leave(r)
    /\ Goto(r, "scope")
    /\ UNCHANGED <<disposed, numbers, session>>

\* Tab completion resolves the repository from the root container, if it lives.
Complete(r) ==
    /\ pc[r] = "scope"
    /\ Goto(r, "idle")
    /\ UNCHANGED <<container, mine, numbers, session>>

-------------------------------------------------------------------------------
(* ShowcaseCmdlet.BeginProcessing, the command, Dispose *)

\* A disposed container throws when it is asked for a scope or a service, and the
\* engine goes on to Dispose.
Throws(r, places) ==
    /\ pc[r] \in places
    /\ mine[r] \in disposed
    /\ Goto(r, "idle")
    /\ UNCHANGED <<container, mine, numbers, session>>

\* A new scope, and the OperationId of its OperationContext.
OpenScope(r) ==
    /\ pc[r] = "scope"
    /\ mine[r] \notin disposed
    /\ ops' = ops + 1
    /\ op' = [op EXCEPT ![r] = ops + 1]
    /\ Goto(r, "count")
    /\ UNCHANGED <<container, mine, commands, session>>

\* Mutant of Count: the session is looked up in ModuleServices.Provider once more.
CountInCurrent(r) ==
    /\ pc[r] = "count"
    /\ runs' = [runs EXCEPT ![provider] = @ + 1]
    /\ Goto(r, "publish")
    /\ UNCHANGED <<container, mine, numbers, lastOp>>

\* ModuleSession.OnCommandStarted: Interlocked.Increment...
Count(r) ==
    /\ pc[r] = "count"
    /\ mine[r] \notin disposed
    /\ runs' = [runs EXCEPT ![mine[r]] = @ + 1]
    /\ Goto(r, "publish")
    /\ UNCHANGED <<container, mine, numbers, lastOp>>

\* ...and then a plain assignment.
Publish(r) ==
    /\ pc[r] = "publish"
    /\ lastOp' = [lastOp EXCEPT ![mine[r]] = op[r]]
    /\ Goto(r, "running")
    /\ UNCHANGED <<container, mine, numbers, runs>>

\* The command ends, well or not, and its scope is disposed.
Dispose(r) ==
    /\ pc[r] = "running"
    /\ Goto(r, "idle")
    /\ UNCHANGED <<container, mine, numbers, session>>

-------------------------------------------------------------------------------

\* Remove-Module: OnRemove calls Reset, whose lock is held for this step.
Reset(r) ==
    /\ pc[r] = "idle"
    /\ gate = Nobody
    /\ provider # 0
    /\ disposed' = disposed \cup {provider}
    /\ provider' = 0
    /\ UNCHANGED <<gate, built, pc, mine, numbers, session>>

Step(r) ==
    \/ Enter(r) \/ Check(r) \/ Build(r)
    \/ OpenScope(r) \/ Count(r) \/ Publish(r) \/ Dispose(r)
    \/ Throws(r, {"scope", "count", "running"})

Next == \E r \in Runspace : Invoke(r) \/ Step(r) \/ Complete(r) \/ Reset(r)

Spec == Init /\ [][Next]_vars

\* A runspace runs; the lock of a runtime monitor is granted to one that waits.
FairSpec == Spec /\ \A r \in Runspace : WF_vars(Step(r)) /\ SF_vars(Enter(r))

-------------------------------------------------------------------------------

TypeOK ==
    /\ gate \in Runspace \cup {Nobody}
    /\ provider \in 0..built
    /\ built \in Nat
    /\ disposed \subseteq 1..built
    /\ pc \in [Runspace -> {"idle", "enter", "check", "build", "scope", "count",
                            "publish", "running"}]
    /\ mine \in [Runspace -> 0..built]
    /\ op \in [Runspace -> 0..ops]
    /\ ops \in Nat
    /\ commands \in Number
    /\ runs \in [Number -> Nat]
    /\ lastOp \in [Number -> Nat]

\* The process never has two live containers, nor one nobody can dispose: what was
\* built is disposed or is _provider (ModuleServices.Provider and Reset).
OneContainer == (1..built) \ disposed = IF provider = 0 THEN {} ELSE {provider}

\* A command past BeginProcessing has been counted by the session of its own
\* container: no runspace's increment is lost and none goes to another session.  The
\* sessions of two containers never show the same operation (ModuleSession).
EveryCommandCounts ==
    \A g \in 1..built :
        /\ Cardinality({r \in Runspace : pc[r] \in {"publish", "running"} /\ mine[r] = g})
              <= runs[g]
        /\ lastOp[g] # 0 => runs[g] > 0 /\ \A h \in 1..built : lastOp[h] = lastOp[g] => h = g

\* No command waits for ever for the container.
CommandsGetServices == \A r \in Runspace : pc[r] = "enter" ~> pc[r] \notin {"enter", "check", "build"}

===============================================================================
