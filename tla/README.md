# TLA+ models of study_material

The repository is a collection of lectures with programs beside them. This
directory holds TLA+ specifications of the programs that have behaviour worth
checking, the TLC configurations that check them, and proofs for TLAPS.

Contents: [the system](#the-system), [the modules](#the-modules),
[the runs](#the-runs), [fairness](#fairness), [the proofs](#the-proofs),
[where code and text disagree](#where-code-and-text-disagree),
[what is not modelled](#what-is-not-modelled), [the plan](#the-plan).

## The system

### PowerShell Showcase (`src/examples/powershell`)

The largest program: an app, `Showcase.App`, that simulates a fleet of devices,
and a PowerShell module, `Showcase.PowerShell`, with which any number of `pwsh`
sessions look at the fleet and command it. The processes share nothing but a
data directory:

    Showcase.App          SimulationWorker -- RandomDeviceSimulator
        |    one Update() per tick, then one Record() per event
        v
    devices.json  activity.jsonl  .lock        (~/.powershell-showcase)
        ^
        |    one Update(), then one Record(); GetAll(); ReadAll()
    pwsh (each)           cmdlets -- ShowcaseCmdlet -- ModuleServices

| component | state | operations | what is hard | what makes it correct |
|---|---|---|---|---|
| storage: `JsonFileDeviceRepository`, `CrossProcessLock` | `devices.json`, its `.tmp`, `.lock` | `GetAll`, `Update` | read-modify-write by several processes; a process that dies in a session; a save that fails; a directory that is deleted | no update is lost, no half file is seen, the lock is given back, every call returns |
| `SimulationWorker`, `RandomDeviceSimulator` | events of the last tick, in memory; countdowns in the fleet | tick, log | a command between two ticks; a stop between a tick and its entries; two apps | a restart lasts three ticks; no device stays in Maintenance |
| `DeviceCommandService` and the cmdlets, `Invoke-ShowcaseAutoHeal` | the running command; objects in variables of the shell | Restart, Set, Get, Test, AutoHeal | a command is two lock sessions; a piped object is old; the grades AutoHeal acts on are old | the audit trail agrees with the changes |
| `JsonLinesActivityLog` | `activity.jsonl` | `Record`, `ReadAll` | the stamp precedes the lock; `File.Exists` precedes the lock; an append is cut short | entries are kept and in order; an answer misses nothing |
| `ModuleServices`, `ModuleSession`, `ShowcaseCmdlet`, `DeviceIdCompleter` | one lazy container per process, its session | build, scope, count, dispose, complete, Remove-Module | several runspaces, a container that is disposed under a command | one live container; every command counted |
| `Watch-ShowcaseDevice` | a cancellation source | sample until stopped | Ctrl+C comes on another thread; a downstream command has enough | it stops at once, with no sample too many |

### Programs of the lectures (`src/lectures`)

| component | state | what is hard | what makes it correct |
|---|---|---|---|
| `tgcounter`, `tgcounter_phase5`: kernel driver and client | device, link, pool block, spin lock, counter | DriverEntry fails half-way; requests of several threads; unload with open handles | nothing left behind; each increment answered once; requests return; a stop unloads |
| `019_packet_parser.py`: two framing parsers | the parser's state, or its buffer | packets cut anywhere, noise, corrupt packets, headers inside data | exactly the intact packets come out |
| `001_practice_medium.py`: `LRUCache` | hand-linked list, dictionary, size | eight pointer assignments in a long sequence of calls | it is a sequence of entries in order of use |
| practice solutions | none | boundaries, memo keys, shared visited sets | the answer is the one the definition gives |
| `token_bucket.py` | tokens and time per key | refills nobody asked for, a clock set back | a request passes exactly when the limit allows it |
| `emulation/code/os`: RISC-V kernel | counter, timer, trap state | the timer expires between any two instructions | it powers off |
| `emulation/code/mcu`: thermostat and `inject.py` | the fan, the line read so far; the script's log | pin and UART change between the steps of the loop | every expectation is met by the effect it is about |
| `shm_demo.c` | a block in shared memory, a mutex, two events | two processes, run again, killed anywhere | every message is printed once |
| `020_dedupe_list.c` | a list, a hash set | unlink and free while walking; growth of the set | first occurrences stay, all nodes are freed once |
| `020_hash_table_demo.py` | chains, counters | growth between a lookup and its insertion | a key is found exactly when it was added |
| `read_path_lab.py`: paste server, LRU cache | connections, handler times; the cache | two segments per answer and a delayed acknowledgement; times read without a join; order of use | one time per request; a hit exactly when the reuse distance allows it |
| `practice.py`: practice runner and phase timer | case files, folders of attempts, sheets, timer logs | several terminals at once, Ctrl-C anywhere, ids that begin one another, clocks that drift | attempts are kept apart, and count for one case unless ids begin one another; the log keeps the plan |
| `014_fifo_sizing.py` | simulated occupancy | a byte that arrives as another is read | the peak is exact, the formula within a byte |
| `verify_concepts.py` | a matrix; a voltage | stamps that meet in one entry; steps that are too long | a matrix is singular exactly for the two circuits that are wrong; backward Euler is stable |
| `ConcurrencyLab` | threads, tasks, pool items | who has come to his wait when it is reported | all wait at the report, all end |

`PROJECT.json` lists all components, with those that are not modelled, the
hazards of the code line by line, and for every definition the lines it models.

## The modules

Data is abstracted to what the properties tell apart. Control is kept: the order
of file operations, guards, early returns and error paths.

### `AtomicFleet`, `DeviceRepository`: the storage

`DeviceRepository` is the code between a call and its return, one file operation
per step: `Acquire` opens `.lock`, `CheckExists` and `Load` are `LoadOrSeed`,
`Change` is the callback of `Update`, and `WriteTemp`, `FlushTemp`, `MoveTemp` are
`Save`. `Release` is the `using` block's end, on every way out. `Timeout` is the
deadline of `CrossProcessLock`. The environment: `Crash` of any process at any step
(the operating system closes its lock file), `SaveFails` in any part of `Save`,
and `Reset`, the procedure of the showcase's README that deletes the directory.
A fleet is abstracted to how often each device was changed, which is enough to see
a lost or doubled update. A file is missing, whole or torn.

`AtomicFleet` is what `IDeviceRepository` promises: each call takes effect at one
instant between its invocation and its return, or not at all. `DeviceRepository`
implements it (`RefinesAtomicFleet`).

### `ShowcaseSystem`: apps and shells

One lock session per step, which `RefinesAtomicFleet` justifies. A device is its
status, its countdown and how its readings stand to their thresholds (four
levels; the simulator's random walk becomes the moves it can make between them).
`Tick` is a whole `Update` of the simulator, and `RecordEvent` each entry that
follows; `Restart`, `Set`, `SetPiped` are the first sessions of the commands and
`Record` the second. `Diagnose`, `Heal` and `Skip` are AutoHeal's one look and its loop.
Stops, closed shells and lock time-outs lose what was not logged yet. History
variables: `debt` counts, per device and kind, changes less entries; `sinceRestart`
counts ticks since a restart nobody overrode.

### `ActivityLog`

`Record` and `ReadAll` step by step. The file is a sequence of lines, and a line
is the sequence of pieces appended since the last newline, so that an append cut
short (`WriteFails`) leaves a line the next append continues. A process may die at any
other step too (`Crash`), and the operating system closes its lock file. The position an
append writes at is the end the file had when it was opened (`base`): without
the lock, two appends would overwrite one another.

### `ModuleServices`

The runspaces of one process: `Enter`, `Check`, `Build` are `Provider` under
`Gate`; `OpenScope`, `Count`, `Publish` are `BeginProcessing` and the two
statements of `ModuleSession`; `Complete` is tab completion; `Reset` is
Remove-Module, at any time. A command that finds its container disposed ends by
an exception (`Throws`).

### `PacketParser`

Both parsers read the same stream. The environment sends packets, corrupt
packets and noise, and cuts the stream anywhere; `fed` is how far it was fed.
Bytes have `Radix` values, so that a byte can be a length, a datum, a checksum and
a `HEADER` at once, as 0xAA can.

### `RecencyCache`, `LRUCache`

`LRUCache` keeps the links of every node as functions and does the class's
pointer assignments on them. Nodes come from a pool; a node the dictionary does
not refer to may be had again, like an object that was collected.
`RecencyCache` is the promise: a sequence of entries in order of use.

### `TgCounter`

Both builds of the driver. `DriverEntry` is a step per call that may fail; a
request is a sequence of steps in its client's thread. The I/O manager is
external: it opens the device by name, and calls `TgUnload` when a stop was asked
for and no handle is open. A LONG wraps after `Half - 1` to `-Half`.

### `CourseSchedule`, `OnePass`, `MeetingBounds`, `PracticeSolutions`: practice

Eighteen finished solutions, each beside a definition of the answer that shares
nothing with it. Ten are loops or searches with state, and are taken step by step:

- `CourseSchedule` is `canFinish`: `Join` is a turn of the loop that builds the
  adjacency lists; `Search`, `Explore` and `Leave` are a call of `dfs` from the outer loop, a
  call from a call, and a return. The calls are a stack, `visited` outlives a search.
- `OnePass` has seven methods whose loops go over a list once with a window, two pointers, a
  stack or a bound. One method and its input are chosen at the start.
- `MeetingBounds` is `generateMatrix`, one walk along a border a step, and `carFleet`,
  one car a step, with times as fractions.

The other eight (`PracticeSolutions`) recurse over their data and are operators; the three with
a table (`answer_pad`, `dp`) hand it from call to call, as the calls share it. Their
arguments are the state and grow by one element a step, so every input up to a
bound is a reachable state. A tree is a function from paths to digits.

### `FifoSizing`, `ChainedSet`, `ReadCache`: simulations and data structures

`FifoSizing` takes the loop of `peak_occupancy` step by step and compares its
peak with the times bytes really wait, and with `closed_form`. `ChainedSet` adds
keys under hash functions that spread, that collide and that ignore a bit.
`ReadCache` runs caches of every capacity over one stream: a request hits exactly
when fewer other keys than the capacity were asked for since its last use.

### `CircuitSolver`, `EulerSteps`: the claims of `verify_concepts.py`

Every small circuit is stamped, element by element, into the matrix of the
script. `DeterminantCountsTrees` says what its determinant is: up to sign, the sum over the
spanning trees through all sources of the products of their conductances. So it
is zero exactly for a node without a path to ground or a loop of sources, the two
cases of part 3.6. `DividerLands` is the assertion of part 3.5. `EulerSteps` keeps
both voltages as fractions, which makes the limit of 2 tau exact, and has the -75 V of part 5.3.

### `PracticeRunner`, `PhaseTimer`: `practice.py`

`PracticeRunner` has a command per terminal, one file-system call a step:
`Start`, `Probe`, `MakeDir`, `WriteSheet`, `Timed` are `start`; `Random`, `CountNext`
and `Suggest` are `random`, of all cases or of a family, which counts every case twice. Midnight may
pass, the user may add a case file and Ctrl-C may come between any two. Ids and the names of folders are
sequences of characters, since the script tells cases and attempts by prefixes:
`find_case` of the ids, `attempt_count` of the folders. Each folder has as a history
which attempt it was made for. `PhaseTimer` is `run_timer` in 45ths of a session, with
time that passes outside its sleeps (`Delay`).

### `PasteServer`, `WatchDevice`, `ConcurrencyLab`

`PasteServer` has client processes, a handler thread per connection and the main
thread; TCP is external and holds the second segment of an answer under Nagle's
algorithm until the acknowledgement (`DelayedAck`). `WatchDevice` has the pipeline
thread, the thread of `StopProcessing` and a `Select-Object -First` downstream.
`ConcurrencyLab` has three experiments over the same variables: a thread per request,
suspended async methods, and blocking items of a pool that may never get a
thread. Its report "n threads blocked waiting" comes when all have signalled; a thread that has
signalled may not have blocked yet, and `AllWaitAtReport` says no more.

### `TokenBucket`, `TinyKernel`, `Thermostat`, `ShmDemo`, `DedupeList`

The small programs, each with its own variables, initial states and steps. `MCLabs`
puts them, the four before (timer, server, watch, lab), the practice runner, the cache
experiment, the FIFO simulation and the hash set together for one run: one of them is
chosen at the start and the others stand still. `MCAlgorithms` does the same for the
search, the loops, the spiral, the cars, the eight operators, the circuits and Euler's steps.

`TokenBucket` counts tokens in parts of a token, which is exact where the code
has floats. `TinyKernel` executes `kmain` instruction by instruction where the
timer matters. `Thermostat` has the firmware's loop of three steps on one side and
`inject.py` on the other. `ShmDemo` has the kernel objects with their lifetimes:
they exist as long as a process has them open. `DedupeList` gives a freed node
garbage for a link, which shows a use after free.

## The runs

| run | instance | states | shows |
|---|---|---|---|
| `repo` | 1 app, 2 shells, 2 devices, one change each | 84,600 | mutual exclusion, no lost update, no half file, current answers, refinement of `AtomicFleet`, and that calls return and the lock is released |
| `repo_reset` | 1 app, 1 shell | violation | `TimeoutMeansHeld`: a time-out without a holder |
| `system` | 2 apps, 1 shell, 1 device, 2 commands, 1 fault, 1 failure | 153,000 | audit trail in step and complete in the end, restarts of three ticks, Maintenance ends |
| `system_piped` | 1 app, 1 shell, 1 device | violation | `PipedSetKeepsStatus` |
| `log` | 2 processes, 3 entries, crashes, failures and resets | 382,000 | entries kept, ordered, answers complete, calls return |
| `log_torn` | 2 processes, 2 entries | violation | `OneObjectPerLine` |
| `module` | 3 runspaces, 3 commands | 28,400 | one container, every command counted, none waits for ever |
| `packet_parser` | 3 byte values, streams of 8 bytes | 248,200 | both parsers are exact, nothing passed over |
| `lru_cache` | 4 keys, 2 values, capacity 3 | 1,800 (symmetry) | list, dictionary and size agree; refinement of `RecencyCache` |
| `tg_counter` | 2 clients, 2-bit LONG, 2 loads | 172,800 | nothing left behind, each increment once, requests return, stops unload |
| `practice` | `MCAlgorithms.cfg`: 3 courses with 4 prerequisites; lists of 5 numbers, windows of 2; matrices to 5 x 5; 3 cars; sequences of 5 digits, pairs of 3, trees of 4; 2 nodes with 5 elements; 10 Euler steps | 516,300 | solutions with their tables, circuits and Euler steps against their definitions |
| `labs` | see `MCLabs.cfg` | 377,600 | exact limits, messages once, first occurrences kept, attempts kept apart and counted, hits of caches, keys found, exact peaks, all programs end as they should |

Every property is known to be breakable: `PROJECT.json` names for each one a
plausible bug of the code (the operators commented "Mutant" in the modules) with
which TLC finds it violated. `LabsEnd` speaks of seven programs and has one such operator, for the
kernel. It is also violated, in the part of the program concerned, by a fan that runs from 20
degrees, a reader of `shm_demo` that sets no ack, a phase left one sleep early, handler times that are
overwritten, TCP_NODELAY that has no effect, a `WaitOne` that Ctrl+C does not wake, and a report of
`ConcurrencyLab` that does not wait for the signals.

### Why the bounds are enough

- `repo`: a lost update needs two writers, and a third process lets a reader or a
  second waiter be in between. A lock that is not given back shows with two. One
  change per device with two devices distinguishes whose update was lost; the first
  call of all seeds. Nothing in the code counts processes or devices, and the
  safety part is proved for any number.
- `system`: two apps tick one device twice as fast, which is the worst that
  restarts meet; two commands make a restart overridden by a restart or a set; one
  fault makes a device degrade, so that there is an event to log and something
  to heal. One device is enough since `Tick` treats each by itself and a command
  names one; what the log says of two devices never mixes. The three-tick
  theorem has no such bound.
- `log`: with three entries one can be recorded, one cut short and one follow.
- `packet_parser`: with three byte values lengths are 0 to 2 and a packet has up
  to five bytes, so eight hold a corrupt packet with a real one inside, or two
  packets and a stray header.
- `lru_cache`: with capacity 3 a node can be at the top, in the middle or at the
  bottom, and the fourth key evicts. Capacities 0 to 2 are in the proof's range.
- `tg_counter`: a two-bit LONG wraps within the six increments of two clients;
  the second load meets whatever the first one left.
- `practice`: the widths of windows and the sizes of lists are all of those up to
  the bounds, so every first, last, empty and single-element case is among them; numbers are
  negative, zero and positive. Three courses with four prerequisites have loops of
  one, two and three courses, repeated pairs, and courses that two searches reach. Matrices have
  odd and even sides and up to three rings. Of three cars one can catch another before, at and never
  before the target, and a fleet can catch a car. Search, loops, spiral and cars are also proved
  for any size.
  Circuits of two nodes, three resistors
  and two sources hold a floating node, a loop of sources and the divider; nothing in the
  stamps counts nodes. Ten Euler steps at half of
  tau, tau and twice tau, and all four steps of the script's run at three times tau.
- `labs`: a bucket of two tokens over four calls at any times in 0 to 4; the code's
  own three ticks and three messages; each program of `shm_demo` run twice; a set
  of two buckets that grows twice for four values; the timer's true phases, with
  sleeps of 4/45 of a session and up to 2/45 lost elsewhere, so that a
  phase can start late by more than one delay; two clients with two requests,
  so that an answer can meet the next request's acknowledgement; two devices, and
  limits of 0 to 3 that a round does not divide; three requests in each of the
  experiments of `ConcurrencyLab`. Two terminals race for one folder, and one of them may start an attempt between
  the two counts of the other's `random`; of three commands two can make the folders with and without a
  number, and the third meet them. One id begins another and ends as the folder of a second attempt does; its file
  comes while the commands are in use, so that attempts of the first id count exactly until the other has some. A
  third id stands alone and is only counted. One midnight changes the date. Case files of up to four lines hold the prompt's heading twice. Six
  requests and capacities 0 to 3 have every reuse distance.
  Two buckets of the hash set grow twice for five keys.
  Bursts of six bytes at periods of one to four meet every tie of an arrival and a
  read, and a host that waits as long as eight units.

Deadlock is checked except where programs really stop: `module` (a shell has run
its commands), `tg_counter` (clients have exited, or the machine has stopped),
`practice` (inputs have reached their bound) and `labs`.

## Fairness

- `DeviceRepository`, `ActivityLog`: weak fairness of a call in progress. The
  operating system schedules every process, and the clock reaches every deadline.
  There is no strong fairness for the lock: an open with `FileShare.None` is a race that a
  process may lose for five seconds, and then it times out.
- `ShowcaseSystem`: weak fairness of starting the app, of its tick, its entries and of the
  second session of a command. An app that stops is taken to be started again, which
  `MaintenanceEnds` needs: without an app no device ever leaves Maintenance.
  Nothing makes a user give a command.
- `ModuleServices`: weak fairness of a command's steps and strong fairness of
  `Enter`: a .NET monitor hands itself to its waiters in turn.
- `TgCounter`: weak fairness of DriverEntry, TgUnload and each client's thread.
  Nobody has to start, stop or open anything.
- `MCLabs`: weak fairness of hart and timer; of the firmware and the script; of
  the two processes of `shm_demo`, which nobody has to run; of the loop of `run_timer`, but
  not of Ctrl-C; of the server's threads and its clients, and of delayed
  acknowledgements only while Nagle's algorithm is on; of Watch's pipeline thread and of the thread
  that stops it, but neither of Ctrl+C nor of the interval, since the claim is that a stop does
  not wait for it; of threads and continuations in `ConcurrencyLab`, but not of pool items.

## The proofs

Eight modules hold theorems; each EXTENDS the module it is about. They hold for
every value of the constants that satisfies the named assumptions of that module.

**`DeviceRepositoryProofs`**, from `ConstantsAssumption` (the special values are
not processes, devices or fleets). The inductive invariant `IInv` joins the types,
`LockInv` (whoever is between opening and closing `.lock` is its holder),
`FileInv` (the file is missing and nothing was committed, or it is the
committed fleet) and, for each process, `CallInv`: what it has read is still the
file, and what it is about to move is the file with its one change.
`NoLostUpdate` alone is not inductive: it says nothing of the list a process is
about to write. `OwnCallStep` shows that a step keeps the process's own part, and
`OtherCallStep` that the steps of others leave it alone, which is where the lock is
needed. From it: `TypeCorrect`, `MutualExclusionHolds`, `NoLostUpdateHolds`,
`NeverHalfAFileHolds`, `AnswerIsCurrentHolds` and `RefinementHolds`: the first
states of the store map to first states of `AtomicFleet`, and each action to
one of its actions or a stutter.

**`ShowcaseSystemProofs`**: `TypeCorrect` and `RestartTakesThreeTicksHolds`,
from `ConstantsAssumption`. The property with the types is inductive, given two lemmas on the
simulator: it leads to Maintenance only from Maintenance, and a countdown loses one
at each tick and ends at its last. A restart during a countdown, ticks of
several apps and sets in between are cases of it.

In the same module `AuditInStepHolds`, for any devices and finite sets of apps and
shells. `AuditInv` adds to the types that a process has something to log only where it
is about to log it, so that a commit or a tick finds it owing nothing and adds one to what
is owed. `CommitStep`, `RecordStep`, `TickAudit` and `RecordEventStep` show that debt and
owing move together for one device and one action and stay for the others;
`FailsBalanced`, that a failure leaves the log short and never long.

**`ActivityLogProofs`**: `RecordedIsKeptHolds`, `NonOverlappingInOrderHolds` and
`AnswerIsCompleteHolds`, for any processes and with appends that are cut short. None of
the three is inductive: `LogInv` says besides that the file is used under the lock and is
what the writer found when it opened it (`LockInv`), that a written entry whose call has not
returned is as safe as a recorded one (`KeptInv`), that an entry being made was
stamped once (`StampInv`) and is on one line at most (`OnceInv`), and what a reader's
copy must hold (`ReadInv`). Each part has a lemma of its own over what an append does
to lines (`Grown`).

**`ModuleServicesProofs`**: `TypeCorrect`, `OneContainerHolds` and `EveryCommandCountsHolds`,
the last for finite sets of runspaces. The strengthening is
`GateGuards`: who is between `Enter` and the end of `??=` holds `Gate`, and who
builds found no container. For the counts, `SessionInv` adds that an operation not yet
published is one command's alone and is shown by no session.

**`PracticeProofs`** is about the cache and the practice solutions that run step by step.
Of `LRUCache`: `TypeCorrect`, `ListMatchesDictionaryHolds`,
`SizeIsExactHolds` and, of both together, `BookkeepingAgreesHolds`, for every capacity, pool and set of keys. `SoundList` speaks of
a node and its two neighbours only, so that no induction along the list is
needed: `UnlinkIsSound` and `InsertIsSound` show that the two pieces of pointer
surgery keep it, and get and put are compositions of them.

`RefinesRecencyCacheHolds` does need the order. `OrderInv` adds a sequence of the nodes in
use such that the links lead along it in both directions; unlinking removes a node from
it and inserting puts one in front. That the refinement mapping, a walk along `next`, reads
off just this sequence is an induction along it. Each get and put is then one of
`RecencyCache`, and its answer with it.

In the same module, each from the assumption of the module it is about:

- `CanFinishIffNoCycleHolds`, for any number of courses and any list of prerequisites. A course is done
  when it was visited and is not on the path. `PathIsCalls` is that the path holds the nodes of the calls,
  each once, and that each call was made for a course in the list of the one below it. Done courses lead only to done
  ones, and no set of them waits for itself: a course is added only when all in its list are done. A
  course found on the path closes a loop of the calls from there up (a set that waits for itself);
  when every course is done there is no such set.
- `OnePassIsEnoughHolds`, for any lists of integers and any width of window. `PassInv` has a loop invariant for each
  method: the windows seen and the second occurrences found, in order; the running total is the sum of the
  current window and the best is the largest so far; no pair of walls with one outside `lo..hi` holds more than
  the best; what lies left of `lo` is smaller and right of `hi` larger than the target; days on the stack get
  no warmer towards its top, and the days after each of them are no warmer than it; each index up to `furthest` can be
  reached and none beyond it from an index passed.
- `BoundsMeetRightHolds`, for any side, and any cars at distinct places short of the target. `SpiralInv`: the
  four borders are those of one ring, every cell outside them holds its number, and the next number is the one the walk
  begins with. `FleetInv`: the latest time so far is the arrival of the last car passed, and the
  fleets are as many as the classes of the cars passed. It needs that comparing fractions by products is a total
  preorder (`EarlyIsTotal`, `EarlyAgain`).
- `StepsAreStableHolds`, for any voltage of the source and any set of ratios. `EulerInv`: what is left to the source
  is multiplied by q at each step, over a denominator that is multiplied by q + p (backward); it is multiplied by
  q - p over q (forward), so that it stays within V if p is at most 2q and passes it otherwise.

**`TgCounterProofs`**: `NothingIsLeftBehindHolds`, for both builds and any clients, given
that `None`, the null pointer, is neither a client nor the 42 in the paged block. `ObjectsInv` says what the kernel holds
at each place of DriverEntry, so that each of its failing calls undoes just that.

`EveryIncrementIsAnsweredOnceHolds`, for finite sets of clients and a LONG of any width.
`AnswerInv` adds to the clean-up invariant that a client in the driver is where its request
sent it, that nobody has the device open while the driver is not loaded (a new load sets the
counter to zero), and that the counter is the number of increments, wrapped. The step from
n to n + 1 increments is arithmetic of remainders: `NextRemainder` is that the counter wraps
just where the number does, and `ExpectedGrows` that one more answer is expected for the
new value and for no other.

**`PacketParserProofs`**: `ParsersAreExactHolds` and `NothingIsPassedOverHolds`, for bytes of any
radix, streams of any length and cuts anywhere. `Stepped` and `Parsed` are what a new parser
makes of a whole stream; the invariant `Inv` is that each parser, with the packets taken
from it before, is where the bytes it was fed would bring a new one, and that the bytes
sent would bring it to the packets sent. So the cuts are out of the way with two lemmas:
`SteppedConcat`, by induction over the bytes, and `ParsedConcat`, that parsing what was kept of
one chunk with the next chunk is parsing both at once. The second needs that the loop finds the same frames
in a longer buffer (`FrameSame`, `ParseConcat`) and in a shorter one that begins later
(`ParseShift`). `FrameStepped`, `FrameParsed` and their siblings for noise say what one sent packet
does. For `NothingIsPassedOver` a set of packets that are in the stream beside each other is built along the
loop's turns (`CoverExists`).

**`LabsProofs`** is about seven of the programs of `MCLabs`:

- `LimitIsExactHolds`, for any keys, capacity, rate and times. `LeastInv`: a bucket holds the
  least that any stretch of its key's calls leaves of a full one, and one stretch leaves just
  that; so the next call finds a token exactly if no stretch objects.
- `MessagesArriveOnceHolds`, for any number of messages and runs. `RoundInv` is which of
  the two events is signalled in each phase of a round, and `OrderInv` what was written and
  not printed yet. With kills only `WholeInv` and `HandlesInv` remain: a torn block
  needs a writer that was killed between its halves.
- `FirstOccurrencesAreKeptHolds`, for any hash, size and length. `DedupeInv` says that the links lead from each
  live node to the next one (`LinksInv`), and that the set holds the values passed, each once and in its chain, within
  its load factor (`ScanInv`). That growth keeps a set exact (`GrownIs`) takes two
  inductions: over the buckets (`GrownIsExact`) and along a chain, whose nodes are moved one by one (`MovedIsExact`). The walk from the head finds
  the live nodes in order (`WalkGoesOn`, `NodesAre`).
- `AttemptsAreKeptHolds`, for any terminals, ids, families and case files. `RunnerInv`: a command writes
  into the folder it made and has found the numbers below its own taken (`OwnInv`), folders of a day and case have
  no gaps (`FoldersInv`), and a count of `random` is at most what there is now, and at most what was counted of the
  same case later (`CountsInv`); `SuggestionIs` concludes that the suggestion was counted
  least. Nothing is assumed of the ids: every folder counts for the id it was made for, as its name begins with it (`NameIs`), and
  the count of an id is exact as long as no other id was attempted that begins it or that it begins (`CountedIs`), since
  of two beginnings of one name one begins the other (`OneBegins`).
  That no hidden note gets into a prompt is `SectionIs`, by induction over the lines of a file.
- `HitsFollowReuseHolds`, for any capacities and streams. `CacheInv`: the cache of capacity c holds the c keys
  asked for last, in that order (`Held`), and its hits are the requests whose reuse distance is
  at most c. `MovedToEndIs` and `PutKeeps` keep it; that the keys since the last use of the i-th
  held one are those from it to the end is a count without repetition (`DistinctCount`).
- `KeysAreFoundHolds`, for any hash function, keys and first number of buckets. `TableInv` is that
  some number of buckets holds just the keys that were added, each in its chain (`Exact`); `DoubledIs` uses the
  two inductions of the list's set again. A lookup compares at most the keys there are (`LookupIs`), which is
  what `PairsAre` needs for the bound on comparisons.
- `PeaksAreExactHolds`, for any burst and timing. `ReadsAre`: the latest of the times a byte
  waits for is the later of its own arrival and one period after the read before it. `FifoInv` relates the simulation to these times:
  its next read is that of the first byte in the FIFO, not before the last one landed, and the byte
  read last was read before the next one lands; so the bytes in the FIFO are those that wait (`WaitsAre`). For the
  formula, `FastHost` and `SlowHost` say at which byte the most wait, and `SlowFormula` counts them up
  to the remainder of its division.

The type invariants of `DeviceRepository`, `ShowcaseSystem`, `ModuleServices` and `LRUCache` are
only proved, and take no run. Modules that are only instantiated name their
assumptions as definitions, which `MCAlgorithms` and `MCLabs` assume.

What is computed by a recursive function is proved about by `NatSetInduction`: a set of
numbers that holds 0 and, with each number, the next is all of Nat. It is stated with a set where the
library's theorem has an operator, and follows from the well-ordering of the
naturals; the set is then {i : the claim holds of i}.

Only model-checked: all liveness (the prover has no rule for it that
fits), which is `CallsReturn`, `LockIsReleased`, `MaintenanceEnds`, `AuditCatchesUp`,
`CommandsGetServices`, `RequestsReturn`, `StopUnloads` and `LabsEnd`; and two invariants of the run
`practice`. `RecursionsMissNothing` is about recursive operators and about recursion over
sequences and trees: that is induction over data, which the provers cannot be given. `CircuitsAreSolved` compares
a determinant, expanded recursively, with a sum over spanning trees: the matrix-tree theorem
for a matrix of any size, by the same kind of induction.

## Where code and text disagree

Three runs end in a counterexample, each to a sentence of the repository:

- `repo_reset`: after the reset the showcase's README describes, a shell that lives on
  retries for five seconds to open a lock file in a directory that is gone,
  and throws a time-out. `CrossProcessLock`'s comment says a failed open means
  another holder. Commands that change a device are not affected: resolving the
  activity log creates the directory again.
- `system_piped`: `Get-ShowcaseDevice` objects carry `Status`, which
  `Set-ShowcaseDevice` binds from the pipeline by name. Piping an object kept in a
  variable to change its location writes its old status over the simulator's.
- `log_torn`: after an append that was cut short, the next entry lands on the same
  line, and `ReadAll` throws for the whole log from then on.

Smaller ones met on the way, without a run of their own:

- `Invoke-ShowcaseAutoHeal` acts on the grades it read before its loop and its
  confirmation prompts: a device that has recovered is restarted.
- `ModuleSession.LastOperationId` may be that of an earlier command: it is a plain
  assignment after the atomic increment.
- `ResyncingParser` holds back complete packets that follow a stray header with a large
  LEN until as many bytes have come. `StateMachineParser` swallows them.
- The kernel may handle a fourth tick: the third may come between the test of
  `ticks` and the `wfi`.
- The reader of `shm_demo` may print one message's number with another's text if
  the writer was killed between the two: the wait returns WAIT_ABANDONED, which
  the code takes for ownership.
- `practice.py random` reads every count twice. If every least-attempted case was started in
  between, its pool is empty and `random.choice` fails with an IndexError.
- The same script: a sheet is dated by a second look at the clock, so over midnight
  its date is not that of its folder; and Ctrl-C while the timer prints its last line
  gives a log that says both `finished` and `stopped early`.
- The same script tells attempts by how the names of folders begin (`attempt_count`). With the ids in
  `prompts/` every attempt counts once. But a user may add cases: with an id that begins another's
  (`e01_token_bucket` and `e01_token_bucket_v2`) it counts the other's attempts too, so
  `list` shows them and `random` passes the case over, and no prefix finds the shorter id with `start`. An
  id that ends as a numbered folder does (`x_2` beside `x`) shares its folder names.
- Practice: the first `rob` (001_practice_medium.py:745) keeps a memo that ignores
  `curr_total`; `canFinish` has no `return True` at its end, as its author notes;
  `mergeTwoLists` (examples.py:860) never advances its tail; the first
  `findRepeatedDnaSequences` stops one window early.

## What is not modelled

Left out: display formats, options and paths; the demonstration and build scripts,
which call cmdlets in a fixed order; measurements whose numbers are their results
(the index experiment of the read path, parallel compression, timers and EcoQoS, the memory
figures and thread numbers of `ConcurrencyLab`); `verify_rendering.py`, a straight line of calls to
a drawing library; in `verify_concepts.py` Newton's iterations and the accuracy
table, which are about floating point and the exponential function; practice
solutions their author left unfinished or marks as failing; prose.
In the modelled components the names, locations, tags and texts of log entries, the
exact readings of the simulator, floating point, and calls that fail at once and
end the program (`die` in `shm_demo.c`, malloc) are abstracted.

## The plan

The order is by importance to the system and by dependency.

1. **Core of the showcase.** `AtomicFleet` and `DeviceRepository`, then
   `ShowcaseSystem` on top of its atomic sessions, `ActivityLog`, `ModuleServices`.
   *Done.*
2. **Programs with state.** `PacketParser`, `RecencyCache` and `LRUCache`,
   `TgCounter`. *Done.*
3. **Algorithms and small programs.** `CourseSchedule`, `OnePass`, `MeetingBounds`,
   `PracticeSolutions`, the first five lecture programs of `MCLabs`. *Done for the solutions that are finished.*
4. **Proofs of the safety of the showcase**: storage, restarts and their audit trail, log,
   container and sessions. *Done.*
5. **More of the system.** `WatchDevice`, `ConcurrencyLab`, `PasteServer`, the practice
   runner and its timer, FIFO sizing, the hash set, the cache experiment, circuits and Euler steps,
   solutions on trees. *Done.* Left: long and malformed lines of the thermostat.
6. **Proofs of the programs with state**: the driver, both parsers, the cache and its
   refinement, the limiter, the shared-memory demo, the list with its hash set, the practice
   runner, the cache experiment, the hash set, the FIFO simulation with its formula. *Done.*
7. **Proofs of the algorithms of `practice`**: the search, the seven loops, the spiral, the fleets
   and Euler's steps, with their modules split from the recursive ones. *Done.* Left to
   model checking: the eight recursive solutions and the circuits.
