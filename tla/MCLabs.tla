-------------------------------- MODULE MCLabs --------------------------------
(* The small programs that run by themselves, one chosen at the start and the others    *)
(* idle: a variable of a program that shares its name with another's has a prefix.       *)
EXTENDS TokenBucket, Functions

CONSTANTS k1, k2,
    Ticks, THRESHOLD,
    Messages, MayKill, MaxRuns,
    Value, hash_int, nbuckets0, MaxNodes,
    MaxSleep, MaxDelay,
    Clients, PerClient,
    MaxDevices, MaxCount,
    n, MaxSamples,
    Terminals, Cases, Added, Matching, Families, CaseFiles, MaxLines, MaxCommands, MaxDate,
    Weights, Capacities, MaxRequests,
    TableKey, HashFns, Buckets0, MaxAdds,
    MaxBurst, MaxPeriod, MaxLatency

VARIABLES lab,
    at, mepc, cause, handled, ticks, armed, pending, enabled, stepped,
    board, rx, pin, log, step, acted,
    pc, i, runs, mapped, opened, block, lock, ready, ack, written, printed, killed, cut,
    phase, val, next, head, tail, prev, cur, buckets, count, freed,
    phases, timer_at, timer_now, reached, phase_end, timer_log, delayed,
    nodelay, main, client, out, request, handler, serving, handler_times, held, arrived, unacked,
    Count, first, watch_at, left, watch_written, stopping, cancelled, disposed, outcome,
    experiment, lab_main, lab_i, id, lab_request, started, data, buffer, reported,
    prompts, attempts, today, runner_at, run, dir, listed, counts, made,
    cache_data, hits, stream,
    hash_fn, chains, size, compares, resizes, keys,
    burst, t_in, t_out, latency, fifo_a, occupancy, peak, next_read

Kernel == INSTANCE TinyKernel
Fan    == INSTANCE Thermostat
Demo   == INSTANCE ShmDemo
Dedupe == INSTANCE DedupeList
Timer  == INSTANCE PhaseTimer WITH at <- timer_at, now <- timer_now, log <- timer_log
Paste  == INSTANCE PasteServer
Watch  == INSTANCE WatchDevice WITH at <- watch_at, written <- watch_written
Async  == INSTANCE ConcurrencyLab WITH main <- lab_main, i <- lab_i, request <- lab_request
Runner == INSTANCE PracticeRunner WITH at <- runner_at
Cache  == INSTANCE ReadCache WITH data <- cache_data
Table  == INSTANCE ChainedSet WITH Key <- TableKey
Fifo   == INSTANCE FifoSizing WITH a <- fifo_a

ASSUME LabsAssumption ==
    /\ Dedupe!DedupeAssumption /\ Timer!TimerAssumption /\ Paste!PasteAssumption
    /\ Watch!WatchAssumption /\ Async!LabAssumption /\ Runner!RunnerAssumption
    /\ Cache!CacheAssumption /\ Table!ChainsAssumption /\ Fifo!FifoAssumption

MCKey  == {k1, k2}
\* Keys 1, 2 and 4 share a bucket of two, 1 and 4 one of four.
MCHash == <<3, 5, 2, 7>>

\* The folder of a second attempt of a day at "a" has the name of a first one at "a_2", which
\* is added later; then no prefix finds "a" any more.
MCCases     == <<<<"a">>, <<"a", "_", "2">>, <<"b">>>>
MCMatching  == [p \in {<<"a">>, <<"a", "_">>} |->
                   {c \in DOMAIN MCCases : \A k \in DOMAIN p :
                       k \in DOMAIN MCCases[c] /\ MCCases[c][k] = p[k]}]
MCFamilies  == {SubSeq(MCCases, 1, 2), <<MCCases[1], MCCases[3]>>, <<>>}
MCCaseFiles == UNION {[1..m -> {"## The prompt", "## ", ""}] : m \in 0..MaxLines}

\* Hashes that are distinct, that are all the same, and that ignore the lowest bit.
MCHashFns == {[k \in TableKey |-> k], [k \in TableKey |-> 0], [k \in TableKey |-> k \div 2]}

\* In proportion to 1, 1/2, 1/3 and 1/4.
MCWeights == <<12, 6, 4, 3>>

kernel == <<at, mepc, cause, handled, ticks, armed, pending, enabled, stepped>>
fan    == <<board, rx, pin, log, step, acted>>
demo   == <<pc, i, runs, mapped, opened, block, lock, ready, ack, written, printed, killed, cut>>
dedupe == <<phase, val, next, head, tail, prev, cur, buckets, count, freed>>
timer  == <<phases, timer_at, timer_now, reached, phase_end, timer_log, delayed>>
paste  == <<nodelay, main, client, out, request, handler, serving, handler_times, held, arrived, unacked>>
watch  == <<Count, first, watch_at, left, watch_written, stopping, cancelled, disposed, outcome>>
async  == <<experiment, lab_main, lab_i, id, lab_request, started, data, buffer, reported>>
runner == <<prompts, attempts, today, runner_at, run, dir, listed, counts, made>>
cache  == <<cache_data, hits, stream>>
table  == <<hash_fn, chains, size, compares, resizes, keys>>
fifo   == <<burst, t_in, t_out, latency, fifo_a, occupancy, peak, next_read>>

vars == <<lab, bucketVars, kernel, fan, demo, dedupe, timer, paste, watch, async, runner, cache,
          table, fifo>>

\* A program that is not chosen has one way to start, and stays there.
Init ==
    /\ lab \in {"bucket", "kernel", "fan", "demo", "dedupe", "timer", "paste", "watch", "async", "runner",
            "cache", "table", "fifo"}
    /\ BucketInit
    /\ Kernel!KernelInit
    /\ Fan!ThermostatInit
    /\ Demo!DemoInit
    /\ Dedupe!DedupeInit
    /\ Timer!TimerInit /\ (lab # "timer" => phases = Timer!SKELETON)
    /\ Paste!PasteInit /\ (lab # "paste" => nodelay)
    /\ Watch!WatchInit /\ (lab # "watch" => Count = 0 /\ first = 0)
    /\ Async!LabInit   /\ (lab # "async" => experiment = "pool")
    /\ Runner!RunnerInit
    /\ Cache!CacheInit
    /\ Table!ChainsInit /\ (lab # "table" => hash_fn = [k \in TableKey |-> k])
    /\ Fifo!FifoInit    /\ (lab # "fifo" => burst = 0 /\ latency = 0 /\ t_in = 1 /\ t_out = 1)

Next ==
    \/ lab = "bucket" /\ BucketNext
                      /\ UNCHANGED <<lab, kernel, fan, demo, dedupe, timer, paste, watch, async, runner, cache,
                                     table, fifo>>
    \/ lab = "kernel" /\ Kernel!KernelNext
                      /\ UNCHANGED <<lab, bucketVars, fan, demo, dedupe, timer, paste, watch, async, runner, cache,
                                     table, fifo>>
    \/ lab = "fan"    /\ Fan!ThermostatNext
                      /\ UNCHANGED <<lab, bucketVars, kernel, demo, dedupe, timer, paste, watch, async, runner, cache,
                                     table, fifo>>
    \/ lab = "demo"   /\ Demo!DemoNext
                      /\ UNCHANGED <<lab, bucketVars, kernel, fan, dedupe, timer, paste, watch, async, runner, cache,
                                     table, fifo>>
    \/ lab = "dedupe" /\ Dedupe!DedupeNext
                      /\ UNCHANGED <<lab, bucketVars, kernel, fan, demo, timer, paste, watch, async, runner, cache,
                                     table, fifo>>
    \/ lab = "timer"  /\ Timer!TimerNext
                      /\ UNCHANGED <<lab, bucketVars, kernel, fan, demo, dedupe, paste, watch, async, runner, cache,
                                     table, fifo>>
    \/ lab = "paste"  /\ Paste!PasteNext
                      /\ UNCHANGED <<lab, bucketVars, kernel, fan, demo, dedupe, timer, watch, async, runner, cache,
                                     table, fifo>>
    \/ lab = "watch"  /\ Watch!WatchNext
                      /\ UNCHANGED <<lab, bucketVars, kernel, fan, demo, dedupe, timer, paste, async, runner, cache,
                                     table, fifo>>
    \/ lab = "async"  /\ Async!LabNext
                      /\ UNCHANGED <<lab, bucketVars, kernel, fan, demo, dedupe, timer, paste, watch, runner, cache,
                                     table, fifo>>
    \/ lab = "runner" /\ Runner!RunnerNext
                      /\ UNCHANGED <<lab, bucketVars, kernel, fan, demo, dedupe, timer, paste, watch, async, cache,
                                     table, fifo>>
    \/ lab = "cache"  /\ Cache!CacheNext
                      /\ UNCHANGED <<lab, bucketVars, kernel, fan, demo, dedupe, timer, paste, watch, async, runner,
                                     table, fifo>>
    \/ lab = "table"  /\ Table!ChainsNext
                      /\ UNCHANGED <<lab, bucketVars, kernel, fan, demo, dedupe, timer, paste, watch, async, runner,
                                     cache, fifo>>
    \/ lab = "fifo"   /\ Fifo!FifoNext
                      /\ UNCHANGED <<lab, bucketVars, kernel, fan, demo, dedupe, timer, paste, watch, async, runner,
                                     cache, table>>

Spec == Init /\ [][Next]_vars

\* The program that was chosen goes on: the hart and its clock; the firmware and its test
\* script; a process of shm_demo unless it waits; the loop of run_timer; the threads of the
\* paste server and its clients, and delayed acknowledgements only where Nagle's algorithm
\* needs them; the pipeline of Watch and the thread that stops it, but not the interval;
\* threads and continuations, but not the pool's for items that block its threads.
FairSpec ==
    /\ Spec
    /\ WF_kernel(lab = "kernel" /\ Kernel!HartStep)
    /\ WF_kernel(lab = "kernel" /\ Kernel!Expire)
    /\ WF_fan(lab = "fan" /\ Fan!FirmwareStep)
    /\ WF_fan(lab = "fan" /\ Fan!Act)
    /\ WF_fan(lab = "fan" /\ Fan!Expect)
    /\ WF_demo(lab = "demo" /\ Demo!WriterStep)
    /\ WF_demo(lab = "demo" /\ Demo!ReaderStep)
    /\ \A r \in Demo!Role : WF_demo(lab = "demo" /\ Demo!CommonStep(r))
    /\ WF_timer(lab = "timer" /\ Timer!TimerStep)
    /\ WF_paste(lab = "paste" /\ Paste!Main)
    /\ \A c \in Clients : /\ WF_paste(lab = "paste" /\ Paste!ConnectionStep(c))
                          /\ WF_paste(lab = "paste" /\ ~nodelay /\ Paste!DelayedAck(c))
    /\ WF_watch(lab = "watch" /\ Watch!PipelineStep)
    /\ WF_watch(lab = "watch" /\ Watch!StopProcessing)
    /\ WF_async(lab = "async" /\ Async!MainStep)
    /\ \A r \in 1..n : WF_async(lab = "async" /\ experiment # "pool" /\ Async!RequestStep(r))

-------------------------------------------------------------------------------

\* shm_demo: see ShmDemo.
MessagesArriveOnce == Demo!MessagesArriveOnce

\* 020_dedupe_list: see DedupeList.
FirstOccurrencesAreKept == Dedupe!FirstOccurrencesAreKept

\* The folders of the attempts, and the counts that suggest a case: see PracticeRunner.
AttemptsAreKept == lab = "runner" => Runner!AttemptsAreKept

\* The caches against the reuse of keys in the stream: see ReadCache.
HitsFollowReuse == Cache!HitsFollowReuse

\* The hash set against the keys it was given: see ChainedSet.
KeysAreFound == Table!KeysAreFound

\* The simulated FIFO against the times bytes wait in it: see FifoSizing.
PeaksAreExact == Fifo!PeaksAreExact

\* Every program comes to its end, and has done what it is for: the kernel powers off
\* although its last tick may come just before a wfi; the script of the thermostat has all
\* its expectations met, none of them by what an earlier entry left in the log; writer and
\* reader of shm_demo end when both were run and neither was killed; the timer ends with
\* a log that keeps its plan; the server experiment ends with a time for every request,
\* with TCP_NODELAY without a delayed acknowledgement; Ctrl+C ends Watch before its
\* interval, and no sample is too many; the requests of ConcurrencyLab all wait when it
\* reports that they do, and all end.
LabsEnd ==
    /\ lab = "kernel" => Kernel!KernelPowersOff
    /\ lab = "fan"    => []Fan!StepsAreTheirOwn /\ Fan!ScriptPasses
    /\ lab = "demo"   => Demo!DemoEnds
    /\ lab = "timer"  => []Timer!LogKeepsPlan /\ Timer!TimerEnds
    /\ lab = "paste"  => []Paste!EveryRequestIsTimed /\ Paste!ExperimentEnds
    /\ lab = "watch"  => []Watch!SamplesAreCounted /\ Watch!CtrlCEnds
    /\ lab = "async"  => []Async!AllWaitAtReport /\ Async!LabEnds

=============================================================================
