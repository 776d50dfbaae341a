---------------------------- MODULE ConcurrencyLab ----------------------------
(* The experiments threads, tasks and pool of ConcurrencyLab: n requests wait for data  *)
(* on a thread each, as suspended async methods, or in items that block the threads of  *)
(* the pool.  Scheduler and thread pool are external.                                    *)
EXTENDS Integers, FiniteSets

CONSTANTS
    n,            \* requests: 5000 or what is asked for, and 64 items in pool
    MaxSamples    \* bound: the times pool prints its counts, 7 in the program

LabAssumption == {n, MaxSamples} \subseteq Nat

VARIABLES
    experiment,
    main,         \* the next step of the main thread
    i,            \* its loop variable
    id,           \* id[r]: the variable that request r captured, 0 until it exists
    request,      \* request[r]: "none", "ready", "signalled" (threads), "waiting",
                  \* "resumed" or "ended"
    started,      \* CountdownEvent: the signals still to come
    data,         \* dataArrived, tcs or gate: set
    buffer,       \* buffer[r]: what r has written for itself
    reported      \* the states of the requests at the report between

labVars == <<experiment, main, i, id, request, started, data, buffer, reported>>

Requests == 1..n

LabInit ==
    /\ experiment \in {"threads", "tasks", "pool"}
    /\ main = "create" /\ i = 1
    /\ id = [r \in Requests |-> 0] /\ request = [r \in Requests |-> "none"]
    /\ started = n /\ data = FALSE
    /\ buffer = [r \in Requests |-> 0] /\ reported = <<>>

\* Start a thread, call HandleRequestAsync, which runs to its await, or queue an item.
Create ==
    /\ main = "create" /\ i <= n
    /\ id' = [id EXCEPT ![i] = i]
    /\ request' = [request EXCEPT ![i] = IF experiment = "tasks" THEN "waiting" ELSE "ready"]
    /\ i' = i + 1
    /\ UNCHANGED <<experiment, main, started, data, buffer, reported>>

\* The report between: threads waits for every signal first, pool reports again and again.
Report ==
    /\ main = "create" /\ i > n
    /\ experiment = "threads" => started = 0
    /\ reported' = request
    /\ IF experiment = "pool" /\ i - n < MaxSamples
       THEN i' = i + 1 /\ UNCHANGED main
       ELSE main' = "set" /\ UNCHANGED i
    /\ UNCHANGED <<experiment, id, request, started, data, buffer>>

Set ==
    /\ main = "set"
    /\ data' = TRUE /\ main' = "join"
    /\ UNCHANGED <<experiment, i, id, request, started, buffer, reported>>

\* Join and WhenAll; pool leaves its items to the end of the process.
Join ==
    /\ main = "join"
    /\ experiment # "pool" => \A r \in Requests : request[r] = "ended"
    /\ main' = "returned"
    /\ UNCHANGED <<experiment, i, id, request, started, data, buffer, reported>>

\* A thread starts and signals; an item is taken by a thread of the pool, and waits.
Begin(r) ==
    /\ request[r] = "ready"
    /\ IF experiment = "threads"
       THEN request' = [request EXCEPT ![r] = "signalled"] /\ started' = started - 1
       ELSE request' = [request EXCEPT ![r] = "waiting"] /\ UNCHANGED started
    /\ UNCHANGED <<experiment, main, i, id, data, buffer, reported>>

Wait(r) ==
    /\ request[r] = "signalled"
    /\ request' = [request EXCEPT ![r] = "waiting"]
    /\ UNCHANGED <<experiment, main, i, id, started, data, buffer, reported>>

\* Wait returns, or the continuation runs.
Resume(r) ==
    /\ request[r] = "waiting" /\ data
    /\ request' = [request EXCEPT ![r] = "resumed"]
    /\ UNCHANGED <<experiment, main, i, id, started, data, buffer, reported>>

Finish(r) ==
    /\ request[r] = "resumed"
    /\ buffer' = [buffer EXCEPT ![r] = IF experiment = "pool" THEN @ ELSE id[r]]
    /\ request' = [request EXCEPT ![r] = "ended"]
    /\ UNCHANGED <<experiment, main, i, id, started, data, reported>>

MainStep       == Create \/ Report \/ Set \/ Join
RequestStep(r) == Begin(r) \/ Wait(r) \/ Resume(r) \/ Finish(r)
LabNext        == main # "returned" /\ (MainStep \/ \E r \in Requests : RequestStep(r))

-------------------------------------------------------------------------------

\* What the report between shows is n requests that wait, as its label says, and none that is
\* past its wait.  A thread may have signalled and not have blocked yet; an item of the pool
\* may not have a thread.  And each writes its own number.
AllWaitAtReport ==
    /\ reported # <<>> => \A r \in Requests :
          reported[r] \in CASE experiment = "threads" -> {"signalled", "waiting"}
                            [] experiment = "tasks"   -> {"waiting"}
                            [] experiment = "pool"    -> {"ready", "waiting"}
    /\ \A r \in Requests : buffer[r] \in {0, r}
    /\ main = "returned" /\ experiment # "pool" => \A r \in Requests : buffer[r] = r

\* The program ends, pool even if some items never had a thread.
LabEnds == <>(main = "returned")

===============================================================================
